SPECIFICATION FairSpecAll
CONSTANTS
    server = server
    Engines = {server}
    Callers = {c1, clean, listener}
    EngineOf <- OneEngine
    Cleaners = {clean}
    Listener = listener
    Agents = {a1, a2}
    Other = Other
    Ops = {"lend", "revoke"}
    Ttls = {1}
    MaxTokens = 2
    MaxTime = 2
    MaxExpiry = 3
    StoreMayFail = FALSE
    MaxRestarts = 1
    Capacity = 2
    MaxTaskEvents = 2
INVARIANTS EventsTypeOK LiveIsStored DueIsTracked ReportedOnce
PROPERTIES TaskEndRevokesUnlessLagged
CHECK_DEADLOCK FALSE
