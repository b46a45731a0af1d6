\* The database is reset under a running Syncer.
SPECIFICATION Spec
CONSTANTS
    Fingerprints = {f1}
    Procs = {p1}
    SupportsApprovalRanges = TRUE
    Decidable = {"approved", "blocked"}
    SendsCursor = {TRUE}
    Overlap = FALSE
    ResetWhileSyncing = TRUE
    MaxLog = 2
    MaxRanges = 1
    MaxFaults = 0
INVARIANTS
    PolicyInForce
