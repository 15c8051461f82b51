CONSTANTS
    Uses <- MCUses
    MayFail = {"LoadsKubeConfig", "NewCRRApprover", "NewDeployer", "Config", "New", "Run"}
SPECIFICATION Spec
INVARIANTS
    HubTypeOK
    UsedInformersRunning
PROPERTIES
    ControllersEventuallyRun
CHECK_DEADLOCK FALSE
