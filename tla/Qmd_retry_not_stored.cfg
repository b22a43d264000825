SPECIFICATION Spec
CONSTANTS
    Procs = {p1}
    Paths = {note}
    Canonical = {}
    Ssp = {}
    Contents = {c1}
    MaxIds = 3
    Ops = {"add"}
    Lazy = FALSE
    StoreMayFail = TRUE
    MaxCache = 1
    MaxRestarts = 0
SYMMETRY Symmetry
PROPERTIES RetryIsStored
CHECK_DEADLOCK FALSE
