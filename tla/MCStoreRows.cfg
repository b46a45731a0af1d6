\* Verdicts, scopes, the row cap and eviction over two seconds of clock.
SPECIFICATION Spec
CONSTANTS
    Fingerprints = {f1, f2, f3}
    Labels = {}
    NoLabel = NoLabel
    Scopes = {s1}
    MalformedScope = MalformedScope
    NoScope = NoScope
    IPs = {}
    Ports = {}
    MetaSizes = {0}
    MaxMetadataBytes = 0
    MaxObservationValues = 1
    MaxFingerprints = 2
    PruneLimits = {1}
    Cursors = {c1}
    NoCursor = NoCursor
    TicksPerSecond = 2
    LegacyRows <- EmptyDatabase
    MaxTime = 2
    MaxCount = 1
    MaxBatch = 1
CONSTRAINT SeenLaterBound
SYMMETRY FingerprintSymmetry
INVARIANTS
    TypeOK
    EveryRowReadable
PROPERTIES
    TrafficPreservesVerdicts
    OnlyDecisionsRescope
    NewcomersWithinCap
    EvictsOldestSecond
    KeepsPromise
CHECK_DEADLOCK FALSE
