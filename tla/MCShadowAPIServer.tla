------------------------- MODULE MCShadowAPIServer -------------------------
(* Model-checking instance of ShadowAPIServer: the downstream of spec       *)
(* scenario A (core, apps, a clusternet group and the shadow group itself) *)
(* with events.k8s.io, whose "events" has the name of the core "events".   *)
EXTENDS ShadowAPIServer

Res(n, k, ns) == [name |-> n, kind |-> k, namespaced |-> ns]

(* A group with one preferred version and, optionally, one other.          *)
Grp(name, pref, prefRes, other, otherRes) ==
    [name |-> name, preferred |-> pref,
     resources |-> [v \in VersionNames |->
                      IF v = pref THEN prefRes ELSE IF v = other THEN otherRes ELSE {}]]

CoreGroup == Grp("", "v1", {Res("pods", "Pod", TRUE), Res("events", "Event", TRUE)},
                 "v1", {})
AppsGroup == Grp("apps", "v1", {Res("deployments", "Deployment", TRUE)},
                 "v1beta1", {Res("deployments", "Deployment", TRUE),
                             Res("controllerrevisions", "ControllerRevision", TRUE)})
EventsGroup == Grp("events.k8s.io", "v1", {Res("events", "Event", TRUE)}, "v1", {})
ClusternetAppsGroup == Grp("apps.clusternet.io", "v1alpha1",
                           {Res("subscriptions", "Subscription", TRUE)}, "v1alpha1", {})
ShadowSelfGroup == Grp("shadow.clusternet.io", "v1alpha1",
                       {Res("templates", "Template", TRUE)}, "v1alpha1", {})

MCDownstream ==
    <<CoreGroup, AppsGroup, EventsGroup, ClusternetAppsGroup, ShadowSelfGroup>>

(* The same without the second "events".                                  *)
MCDownstreamDistinct == <<CoreGroup, AppsGroup, ClusternetAppsGroup, ShadowSelfGroup>>

MCToLower == [r \in ResourceNames |-> r]

MCPreRegistered ==
    {[group |-> "shadow.clusternet.io", version |-> "v1alpha1", kind |-> "Template"]}

=============================================================================
