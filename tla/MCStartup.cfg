\* Two processes, two methods, one client, a JSON column.
SPECIFICATION Spec
CONSTANTS
    Procs = {p1, p2}
    Clients = {c1}
    Methods = {ja3, ja4}
    NoMethod = NoMethod
    Kind = "json"
    MaxVersion = 2
    MaxStarts = 2
INVARIANTS
    MigratedIsFolded
    ServesOwnMethod
PROPERTIES
    RefreshedBeforeStartKept
    ResetKeepsOwnRows
SYMMETRY ProcSymmetry
CHECK_DEADLOCK FALSE
