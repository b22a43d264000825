SPECIFICATION Spec
CONSTANTS
    a = a
    b = b
    x = x
    None = None
    Peers = {a, b}
    Loopers = {a}
    Rank <- MCRank
    Paths = {x}
    Since = {1}
    PerSecond = 2
    MaxWrites = 2
    MaxEvents = 0
PROPERTY RecordSurvives
