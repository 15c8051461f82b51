CONSTANTS
    GroupNames = {"apps", "events.k8s.io", "apps.clusternet.io", "shadow.clusternet.io"}
    VersionNames = {"v1", "v1beta1", "v1alpha1"}
    ResourceNames = {"pods", "events", "deployments", "controllerrevisions", "subscriptions", "templates"}
    Kinds = {"Pod", "Event", "Deployment", "ControllerRevision", "Subscription", "Template"}
    ToLower <- MCToLower
    InstallMayFail = FALSE
    NoBackend = NoBackend
    ClusternetGroups = {"apps.clusternet.io", "shadow.clusternet.io"}
    ShadowGroup = "shadow.clusternet.io"
    ShadowVersion = "v1alpha1"
    PreRegistered <- MCPreRegistered
    Downstream <- MCDownstream
    DiscoveryMayFail = FALSE
    PartialDiscovery = FALSE

SPECIFICATION Spec
CHECK_DEADLOCK FALSE

INVARIANTS
    Completeness
