CONSTANTS
    GroupNames = {"apps", "batch"}
    VersionNames = {"v1", "v2"}
    ResourceNames = {"deployments", "Deployments", "jobs"}
    Backends = {"b1", "b2", "b3"}
    ToLower <- MCToLower
    Batches <- MCBatchesNoVersions
    InstallMayFail = FALSE
    NoBackend = NoBackend

SPECIFICATION InstallerSpec
CHECK_DEADLOCK FALSE

INVARIANTS
    EmptyPrioritizedRejected
