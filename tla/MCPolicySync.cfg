\* One process at a time, every fault, a gate that does not enforce scopes.
SPECIFICATION LiveSpec
CONSTANTS
    Fingerprints = {f1}
    Procs = {p1}
    SupportsApprovalRanges = FALSE
    Decidable = {"pending", "approved", "restricted", "blocked", "malformed"}
    SendsCursor = {TRUE, FALSE}
    Overlap = FALSE
    ResetWhileSyncing = FALSE
    MaxLog = 2
    MaxRanges = 2
    MaxFaults = 3
INVARIANTS
    TypeOK
    PolicyInForce
    MemoryNotAhead
    NoUnsupportedScope
PROPERTIES
    Converges
