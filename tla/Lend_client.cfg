SPECIFICATION FairSpec
CONSTANTS
    server = server
    Engines = {server}
    Callers = {c1, clean}
    EngineOf <- OneEngine
    Cleaners = {clean}
    Agents = {a1, a2}
    Ops = {"lend", "revoke", "revokeForAgent", "renew", "renewForAgent", "backoff"}
    Ttls = {0, 1}
    MaxTokens = 2
    MaxTime = 2
    MaxExpiry = 3
    StoreMayFail = TRUE
    MaxRestarts = 1
INVARIANTS TypeOK RevokedIsFinal StoreMirrorsLeases RevokedRowIsDead
PROPERTIES ExpiredIsDropped KeepsContract
CHECK_DEADLOCK FALSE
