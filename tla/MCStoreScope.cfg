\* A restricted approval, blocked and reapproved by the status setters.
SPECIFICATION SSpec
CONSTANTS
    Fingerprints = {f1}
    Labels = {l1}
    NoLabel = NoLabel
    Scopes = {s1}
    MalformedScope = MalformedScope
    NoScope = NoScope
    IPs = {}
    Ports = {}
    MetaSizes = {0, 1}
    MaxMetadataBytes = 0
    MaxObservationValues = 1
    MaxFingerprints = 1
    PruneLimits = {0, 1}
    Cursors = {c1}
    NoCursor = NoCursor
    TicksPerSecond = 1
    LegacyRows <- EmptyDatabase
    MaxTime = 0
    MaxCount = 1
    MaxBatch = 1
INVARIANTS
    NoSilentBroadening
CHECK_DEADLOCK FALSE
