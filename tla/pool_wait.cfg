SPECIFICATION FairSpec
CONSTANTS
    k1 = k1  k2 = k2  d1 = d1  d2 = d2
    Conns = {k1}
    Dsns = {d1}
    Protos = {p1}
    Entries = {e1}
    Calls = {c1, c2}
    Ticks = {r1}
    Final = Final
    None = None
    DsnOf <- OneDsn
    HostOf <- SameHost
    WithSchema = {d1}
    MaxConns <- OneConn
    MaxWaitQueue = 1
    Killers = {k1}
    Forcers = {}
    Disposes = TRUE
PROPERTIES CallsEnd ExpiredIsClosed
CHECK_DEADLOCK FALSE

