------------------------------ MODULE ShadowAPI ------------------------------
(***************************************************************************)
(* What InstallShadowAPIGroups and installAPIGroups promise to a client of *)
(* the hub's apiserver (src/pkg/hub/apiserver/shadow/apiserver.go, lines   *)
(* 116-211): the shadow group serves only routes that mirror a downstream  *)
(* resource, at most one per resource name; routes are added, never        *)
(* withdrawn, and all of them before the group appears in discovery; and   *)
(* discovery advertises the shadow version exactly when the group serves   *)
(* something.  How the routes are found and installed is not visible here. *)
(***************************************************************************)
CONSTANTS
    ShadowVersion,  \* the one version the shadow group is served under
    Mirrorable      \* the routes that mirror a downstream resource

VARIABLES
    served,    \* the shadow routes the restful container serves
    listed,    \* whether the shadow group is in the discovery index
    versions   \* the versions its discovery entry advertises

apiVars == <<served, listed, versions>>

(* One web service path per resource name: no two routes share a name.    *)
OneRoutePerName(S) == \A r1, r2 \in S : r1.resource = r2.resource => r1 = r2

Init ==
    /\ served = {}
    /\ listed = FALSE
    /\ versions = {}

(* Routes are added, all of them mirrors, before the group is listed.      *)
Serve ==
    /\ ~listed
    /\ served \subseteq served'
    /\ served' \subseteq Mirrorable
    /\ OneRoutePerName(served')
    /\ UNCHANGED <<listed, versions>>

(* The group is listed once, advertising its version iff it serves routes. *)
Advertise ==
    /\ ~listed
    /\ listed' = TRUE
    /\ versions' = IF served = {} THEN {} ELSE {ShadowVersion}
    /\ UNCHANGED served

Next == Serve \/ Advertise

Spec == Init /\ [][Next]_apiVars

=============================================================================
