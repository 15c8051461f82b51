CONSTANTS
    Nodes = {n1, n2}
    CondLists <- MCCondLists
    Readers = {}
    Versions = {"v1.20.0"}
    MaxClock = 1
    MaxRounds = 2
    VersionMayFail = TRUE
    Nil = Nil
    Absent = Absent
SPECIFICATION Spec
INVARIANTS
    StatusTypeOK
    NodeStatisticsExact
CHECK_DEADLOCK FALSE
