\* Uploads under concurrent writers, client failures and hub failures.
SPECIFICATION LiveSpec
CONSTANTS
    LastFp = 2
    PageSize = 1
    Recurs = FALSE
    HubFaults = TRUE
    MaxSightings = 2
    MaxDecisions = 1
    MaxFaults = 2
INVARIANTS
    TypeOK
    PagesCoverStableRows
    SuppressedIsHeld
PROPERTIES
    SnapshotComplete
    HubCatchesUp
