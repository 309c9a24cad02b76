SPECIFICATION Spec
CONSTANTS
    k1 = k1
    k2 = k2
    Conns <- TwoConns
    MaxTrx = 2
    MaxCid = 2
    MaxFaults = 1
    Detach = TRUE
    HasHook = FALSE
    PoolBreaks = TRUE
    Crashes = FALSE
    Uses = {"plain", "xa", "chain", "toStart"}
CHECK_DEADLOCK FALSE
SYMMETRY Symmetry
INVARIANTS PreparedBeforeCommit CommitOkMeansCommitted PendingIsClean
