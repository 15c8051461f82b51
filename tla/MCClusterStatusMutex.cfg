CONSTANTS
    Nodes = {n1}
    CondLists <- MCCondLists
    Readers = {r1, r2}
    Versions = {"v1.20.0"}
    MaxClock = 3
    MaxRounds = 3
    VersionMayFail = TRUE
    Nil = Nil
    Absent = Absent
SPECIFICATION Spec
INVARIANTS
    ReadsStamped
PROPERTY
    StoreRefinement
CHECK_DEADLOCK FALSE
