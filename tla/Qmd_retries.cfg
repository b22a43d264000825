SPECIFICATION Spec
CONSTANTS
    Procs = {p1, p2}
    Paths = {agent, note}
    Canonical = {agent}
    Ssp = {}
    Contents = {c1, c2}
    MaxIds = 3
    Ops = {"add"}
    Lazy = FALSE
    StoreMayFail = TRUE
    MaxCache = 1
    MaxRestarts = 1
SYMMETRY Symmetry
INVARIANTS NoTwins 
CHECK_DEADLOCK FALSE
