\* The row cap and eviction with three fingerprints and a clock of two seconds.
SPECIFICATION Spec
CONSTANTS
    Fingerprints = {f1, f2, f3}
    Labels = {}
    NoLabel = NoLabel
    Scopes = {}
    MalformedScope = MalformedScope
    NoScope = NoScope
    IPs = {}
    Ports = {}
    MetaSizes = {0}
    MaxMetadataBytes = 0
    MaxObservationValues = 1
    MaxFingerprints = 2
    PruneLimits = {1}
    Cursors = {}
    NoCursor = NoCursor
    TicksPerSecond = 2
    LegacyRows <- EmptyDatabase
    MaxTime = 2
    MaxCount = 1
    MaxBatch = 1
SYMMETRY FingerprintSymmetry
PROPERTIES
    EvictsOldest
CHECK_DEADLOCK FALSE
