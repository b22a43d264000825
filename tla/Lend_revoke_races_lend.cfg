SPECIFICATION Spec
CONSTANTS
    server = server
    Engines = {server}
    Callers = {c1, c2}
    EngineOf <- OneEngine
    Cleaners = {}
    Agents = {a1}
    Ops = {"lend", "revokeForAgent"}
    Ttls = {1}
    MaxTokens = 1
    MaxTime = 2
    MaxExpiry = 3
    StoreMayFail = FALSE
    MaxRestarts = 1
INVARIANTS RevokedIsFinal
CHECK_DEADLOCK FALSE
