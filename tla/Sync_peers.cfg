SPECIFICATION FairSpec
CONSTANTS
    a = a
    b = b
    x = x
    None = None
    Peers = {a, b}
    Loopers = {a}
    Rank <- MCRank
    Paths = {x}
    Since = {1}
    PerSecond = 2
    MaxWrites = 3
    MaxEvents = 1
INVARIANTS TypeOK NewestSurvives IndexInStep
PROPERTIES NoStaleOverwrite ManifestsConverge
