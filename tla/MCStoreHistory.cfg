\* Observation history: bounds, trimming order, reopening an oversized database.
SPECIFICATION HSpec
CONSTANTS
    Fingerprints = {f1}
    Labels = {}
    NoLabel = NoLabel
    Scopes = {s1}
    MalformedScope = MalformedScope
    NoScope = NoScope
    IPs = {1, 2}
    Ports = {1, 2}
    MetaSizes = {0, 2}
    MaxMetadataBytes = 1
    MaxObservationValues = 1
    MaxFingerprints = 1
    PruneLimits = {1}
    Cursors = {c1}
    NoCursor = NoCursor
    TicksPerSecond = 2
    LegacyRows <- OversizedRows
    MaxTime = 2
    MaxCount = 3
    MaxBatch = 2
INVARIANTS
    HistoryBounded
    RetainsFirstValues
PROPERTIES
    TrimKeepsRecentSecond
CHECK_DEADLOCK FALSE
