SPECIFICATION Spec
CONSTANTS
    k1 = k1  k2 = k2  d1 = d1  d2 = d2
    Conns = {k1, k2}
    Dsns = {d1, d2}
    Protos = {p1, p2}
    Entries = {e1, e2}
    Calls = {c1, c2}
    Ticks = {r1, r2}
    Final = Final
    None = None
    DsnOf <- TwoDsns
    HostOf <- SameHost
    WithSchema = {d1, d2}
    MaxConns <- TwoConns
    MaxWaitQueue = 0
    Killers = {k1}
    Forcers = {k2}
    Disposes = FALSE
INVARIANTS ExclusiveUse NoneLeaked JanitorScheduled
CHECK_DEADLOCK FALSE
SYMMETRY SymmetryOfIds
