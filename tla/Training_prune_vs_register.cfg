SPECIFICATION Spec
CONSTANTS
    l1 = l1
    l2 = l2
    n1 = n1
    u1 = u1
    u2 = u2
    p1 = p1
    Jobs = {l1}
    Notebook = {}
    Uploaders = {u1}
    Pruners = {p1}
    MaxConcurrent = 1
    Experts = {l1}
    Batches = {{l1}}
    MaxDbErrors = 0
    MaxRestarts = 0
PROPERTY ReferencedIsNeverPruned
CHECK_DEADLOCK FALSE
