SPECIFICATION FairSpec
CONSTANTS
    k1 = k1
    k2 = k2
    Conns <- TwoConns
    MaxTrx = 1
    MaxCid = 1
    MaxFaults = 2
    Detach = TRUE
    HasHook = TRUE
    PoolBreaks = FALSE
    Crashes = TRUE
    Uses = {"xa", "rollback", "dispose", "end"}
CHECK_DEADLOCK FALSE
INVARIANTS TypeOK AtomicUnlessHarmed
PROPERTIES ManagerSparesLive DanglingResolved
