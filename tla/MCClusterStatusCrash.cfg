CONSTANTS
    Nodes = {n1}
    CondLists <- MCCondLists
    Readers = {r1}
    Versions = {"v1.20.0"}
    MaxClock = 2
    MaxRounds = 2
    VersionMayFail = TRUE
    Nil = Nil
    Absent = Absent
SPECIFICATION Spec
INVARIANT CollectorSurvivesVersionError
CHECK_DEADLOCK FALSE
