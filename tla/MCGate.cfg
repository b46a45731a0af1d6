\* Two listeners that share one slot, two connections, a Drain retried, signals at any time.
SPECIFICATION GateLiveSpec
CONSTANTS
    Listeners = {l1, l2}
    Conns = {c1, c2}
    NoConn = NoConn
    Drains = {d1, d2}
    MaxConcurrent = 1
INVARIANTS
    TypeOK
    InFlightBounded
    DrainedMeansIdle
    HandoffHasChild
PROPERTIES
    ConnectionsClose
    DrainEnds
    TermFinishes
CHECK_DEADLOCK FALSE
