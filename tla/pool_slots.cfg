SPECIFICATION Spec
CONSTANTS
    k1 = k1  k2 = k2  d1 = d1  d2 = d2
    Conns = {k1, k2}
    Dsns = {d1}
    Protos = {p1, p2}
    Entries = {e1, e2}
    Calls = {c1, c2}
    Ticks = {r1}
    Final = Final
    None = None
    DsnOf <- OneDsn
    HostOf <- SameHost
    WithSchema = {d1}
    MaxConns <- OneConn
    MaxWaitQueue = 1
    Killers = {}
    Forcers = {}
    Disposes = FALSE
INVARIANTS TypeOK SlotLimit CountersExact ConnectNeverOverwrites
CHECK_DEADLOCK FALSE
SYMMETRY Symmetry
