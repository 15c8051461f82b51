CONSTANTS
    Nodes = {n1}
    CondLists <- MCCondLists
    Readers = {r1, r2}
    Versions = {"v1.20.0"}
    MaxClock = 2
    MaxRounds = 2
    VersionMayFail = TRUE
    Nil = Nil
    Absent = Absent
SPECIFICATION Spec
PROPERTIES
    PublishedAfterSync
    RoundsComplete
CHECK_DEADLOCK FALSE
