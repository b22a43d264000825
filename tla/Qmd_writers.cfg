SPECIFICATION Spec
CONSTANTS
    Procs = {p1, p2}
    Paths = {stab, agent}
    Canonical = {stab, agent}
    Ssp = {stab}
    Contents = {c1, c2}
    MaxIds = 3
    Ops = {"add", "update", "refresh"}
    Lazy = FALSE
    StoreMayFail = FALSE
    MaxCache = 1
    MaxRestarts = 0
SYMMETRY Symmetry
INVARIANTS CanonicalUnique CanonicalRowUnique IndexNamesStore
CHECK_DEADLOCK FALSE
