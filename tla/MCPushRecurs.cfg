\* A verdict that returns to its acknowledged value after a lost answer.
SPECIFICATION Spec
CONSTANTS
    LastFp = 1
    PageSize = 1
    Recurs = TRUE
    HubFaults = FALSE
    MaxSightings = 1
    MaxDecisions = 2
    MaxFaults = 1
INVARIANTS
    SuppressedIsHeld
