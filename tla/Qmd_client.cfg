SPECIFICATION Spec
CONSTANTS
    Procs = {p1}
    Paths = {stab, agent, note}
    Canonical = {stab, agent}
    Ssp = {stab}
    Contents = {c1, c2}
    MaxIds = 2
    Ops = {"add", "update", "move", "delete", "deletePath", "drop", "get", "search", "refresh"}
    Lazy = TRUE
    StoreMayFail = FALSE
    MaxCache = 1
    MaxRestarts = 1
CONSTRAINT Plain
INVARIANTS TypeOK ClientIndexMatchesStore ClientCacheFresh
PROPERTIES ClientDeleteReachesStore
CHECK_DEADLOCK FALSE
