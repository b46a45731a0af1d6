\* Two processes of one gate pull at once, as during an upgrade.
SPECIFICATION Spec
CONSTANTS
    Fingerprints = {f1}
    Procs = {p1, p2}
    SupportsApprovalRanges = TRUE
    Decidable = {"approved", "blocked"}
    SendsCursor = {TRUE}
    Overlap = TRUE
    ResetWhileSyncing = FALSE
    MaxLog = 2
    MaxRanges = 1
    MaxFaults = 0
INVARIANTS
    PolicyInForce
