------------------------ MODULE MCAPIGroupInstaller ------------------------
(* Model-checking instance of APIGroupInstaller: two groups, two versions, *)
(* a resource name that lowers onto another, and malformed groups.        *)
EXTENDS APIGroupInstaller, TLC

MCToLower == [r \in ResourceNames |-> IF r = "Deployments" THEN "deployments" ELSE r]

GVOf(g, v) == [group |-> g, version |-> v]

(* A storage map with the entries of f and no others. *)
SM(f) == [n \in ResourceNames |-> IF n \in DOMAIN f THEN f[n] ELSE NoBackend]

(* apps: two versions with resources; "Deployments" and "deployments"    *)
(* collide once lowered.                                                  *)
InfoApps ==
    [prioritized |-> <<GVOf("apps", "v1"), GVOf("apps", "v2")>>,
     storage |-> [v \in VersionNames |->
                    IF v = "v1" THEN SM(("deployments" :> "b1") @@ ("Deployments" :> "b2"))
                    ELSE SM("jobs" :> "b3")]]

(* batch: its preferred version v1 has no resources.                      *)
InfoBatch ==
    [prioritized |-> <<GVOf("batch", "v1"), GVOf("batch", "v2")>>,
     storage |-> [v \in VersionNames |-> IF v = "v1" THEN EmptyStorage ELSE SM("jobs" :> "b1")]]

InfoEmptyGroup ==
    [prioritized |-> <<GVOf(Empty, "v1")>>,
     storage |-> [v \in VersionNames |-> SM("jobs" :> "b1")]]

InfoEmptyVersion ==
    [prioritized |-> <<GVOf("batch", Empty)>>,
     storage |-> [v \in VersionNames |-> SM("jobs" :> "b1")]]

InfoNoVersions ==
    [prioritized |-> <<>>,
     storage |-> [v \in VersionNames |-> EmptyStorage]]

MCBatches ==
    { <<InfoApps, InfoBatch>>,
      <<InfoBatch, InfoApps>>,
      <<InfoApps, InfoEmptyGroup>>,
      <<InfoApps, InfoEmptyVersion>>,
      <<InfoApps, InfoNoVersions>> }

MCBatchesNoVersions == { <<InfoApps, InfoNoVersions>> }

=============================================================================
