SPECIFICATION Spec
CONSTANTS
    Conns = {k1}
    MaxPoints = 2
    MaxWrites = 1
    MaxFaults = 1
    MaxRetries = 1
    Allows = {}
INVARIANTS TrxNotLost CachedStmtIsHere
PROPERTIES ImplementsTrxLog
SYMMETRY Symmetry
