SPECIFICATION FairSpec
CONSTANTS
    l1 = l1
    l2 = l2
    n1 = n1
    u1 = u1
    u2 = u2
    p1 = p1
    Jobs = {l1, l2, n1}
    Notebook = {n1}
    Uploaders = {u1, u2}
    Pruners = {p1}
    MaxConcurrent = 1
    Experts = {n1}
    Batches = {{l1, l2}, {n1}}
    MaxDbErrors = 1
    MaxRestarts = 1
INVARIANTS TypeOK CapRespected TrainerIsWatched ActiveIsDriven ArtifactExists PruneSparesLive
PROPERTIES OutcomeIsFinal EndedJobStops LocalJobEnds
CHECK_DEADLOCK FALSE
