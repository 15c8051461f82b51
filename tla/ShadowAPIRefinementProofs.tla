-------------------- MODULE ShadowAPIRefinementProofs --------------------
(***************************************************************************)
(* Proof that InstallShadowAPIGroups, with the installAPIGroups call it    *)
(* makes, implements the shadow API of module ShadowAPI under the mapping  *)
(* of ShadowAPIServer: served <- routes, listed <- (discovery # <<>>),     *)
(* versions <- AdvertisedShadowVersions.                                   *)
(***************************************************************************)
EXTENDS ShadowAPIServerProofs

(* What the refinement adds to the invariants of ShadowAPIServerProofs.   *)
(* The shadow group info has one prioritized version, so installAPIGroups *)
(* makes at most one InstallREST call, at gi = 1 and vi = 1, and lists the *)
(* group at gi = 1 after it: the routes that call adds are the first, so   *)
(* no two share a name; the group is in discovery exactly when gi = 2; and *)
(* once the call has returned, routes were added iff the storage map had a *)
(* key, which is what decides the versions discovery advertises.           *)
OneCall ==
    /\ gi \in {1, 2} /\ vi \in {1, 2}
    /\ ipc = "validate" => routes = {} /\ discovery = <<>> /\ gi = 1 /\ vi = 1
    /\ API!OneRoutePerName(routes)
    /\ ipc = "resources" /\ gi = 1 /\ vi = 1 => routes = {}
    /\ (discovery = <<>>) <=> (gi = 1)
    /\ gi = 1 /\ (ipc = "discovery" \/ (ipc = "resources" /\ vi = 2)) =>
          (routes # {} <=> Installer!HasResources(ShadowGroupInfo, ShadowVersion))
    /\ discovery # <<>> =>
          AdvertisedShadowVersions = IF routes = {} THEN {} ELSE {ShadowVersion}

(* The inductive invariant of the refinement.                            *)
RInv == TInv /\ MIInv /\ OneCall

-----------------------------------------------------------------------------
(* Lemmas                                                                  *)

(* The shadow group info lists one version, the shadow version, and its    *)
(* discovery entry advertises that version iff its storage map has a key.  *)
LEMMA ShadowInfoVersions ==
    /\ Len(ShadowGroupInfo.prioritized) = 1
    /\ ShadowGroupInfo.prioritized[1] = [group |-> ShadowGroup, version |-> ShadowVersion]
    /\ {p[2] : p \in Installer!AdvertisedVersions(ShadowGroupInfo)} =
          IF Installer!HasResources(ShadowGroupInfo, ShadowVersion)
            THEN {ShadowVersion} ELSE {}
<1>1. /\ Len(ShadowGroupInfo.prioritized) = 1
      /\ ShadowGroupInfo.prioritized[1] = [group |-> ShadowGroup, version |-> ShadowVersion]
  BY DEF ShadowGroupInfo
<1>2. {j \in 1..Len(ShadowGroupInfo.prioritized) :
          Installer!HasResources(ShadowGroupInfo, ShadowGroupInfo.prioritized[j].version)}
        = IF Installer!HasResources(ShadowGroupInfo, ShadowVersion) THEN {1} ELSE {}
  BY <1>1
<1>3. CASE Installer!HasResources(ShadowGroupInfo, ShadowVersion)
  <2>1. Installer!AdvertisedVersions(ShadowGroupInfo) = {<<1, ShadowVersion>>}
    BY <1>1, <1>2, <1>3 DEF Installer!AdvertisedVersions
  <2>. QED
    BY <1>1, <1>3, <2>1
<1>4. CASE ~Installer!HasResources(ShadowGroupInfo, ShadowVersion)
  <2>1. Installer!AdvertisedVersions(ShadowGroupInfo) = {}
    BY <1>2, <1>4 DEF Installer!AdvertisedVersions
  <2>. QED
    BY <1>1, <1>4, <2>1
<1>. QED
  BY <1>1, <1>3, <1>4

(* getAPIGroupVersion loses no resource: a storage map with a key yields a *)
(* lowered map with a key (the installer's lemma, for the shadow server).  *)
LEMMA LoweredKeys ==
    ASSUME NEW m \in Installer!StorageMap, NEW st \in Installer!LoweredStorages(m),
           Installer!Keys(m) # {}
    PROVE  Installer!Keys(st) # {}
<1>1. /\ m \in IP!StorageMap
      /\ st \in IP!LoweredStorages(m)
      /\ IP!Keys(m) # {}
  BY SameInstaller, Zenon DEF IP!LoweredStorages, Installer!LoweredStorages,
                              IP!Keys, Installer!Keys
<1>2. IP!Keys(st) # {}
  BY <1>1, InstallerConstants, IP!LoweredKeysNonEmpty
<1>. QED
  BY <1>2, Zenon DEF IP!Keys, Installer!Keys

(* Where installAPIGroups has not begun, or its shadow server has not      *)
(* called it, RInv holds of the installer's state by TInv alone.           *)
LEMMA NotStartedRInv ==
    ASSUME TInv, MIInv, ipc = "validate", routes = {}, discovery = <<>>,
           gi = 1, vi = 1
    PROVE  RInv
BY DEF RInv, OneCall, API!OneRoutePerName

-----------------------------------------------------------------------------
(* The invariant is inductive                                              *)

LEMMA InitRInv == Init => RInv
<1> SUFFICES ASSUME Init PROVE RInv
  OBVIOUS
<1>1. TInv /\ MIInv
  BY InitTInv, InitMIInv
<1>. QED
  BY <1>1, NotStartedRInv DEF Init


(* Before installAPIGroups is called the installer's state is untouched,  *)
(* and the shadow server's steps do not touch it.                          *)
LEMMA ShadowStepsRInv ==
    ASSUME RInv, TInv', MIInv',
           DiscoverFail \/ DiscoverOK \/ SkipGroup \/ MirrorGroup \/ InstallShadowGroup
    PROVE  RInv'
<1>1. spc # "install"
  BY DEF DiscoverFail, DiscoverOK, SkipGroup, MirrorGroup, InstallShadowGroup
<1>2. ipc = "validate" /\ routes = {} /\ discovery = <<>> /\ gi = 1 /\ vi = 1
  BY <1>1 DEF RInv, TInv
<1>3. ipc' = "validate" /\ UNCHANGED <<routes, discovery, gi, vi>>
  BY <1>2 DEF DiscoverFail, DiscoverOK, SkipGroup, MirrorGroup, InstallShadowGroup,
         installerVars
<1>. QED
  BY <1>2, <1>3 DEF RInv, OneCall, API!OneRoutePerName

(* One step of installAPIGroups on the shadow group info keeps OneCall.    *)
LEMMA InstallStepOneCall ==
    ASSUME RInv, InstallStep
    PROVE  OneCall'
<1> DEFINE HR == Installer!HasResources(ShadowGroupInfo, ShadowVersion)
<1>1. /\ spc = "install"
      /\ UNCHANGED shadowVars
      /\ Installer!InstallerNext
  BY DEF InstallStep
<1>2. infos = <<ShadowGroupInfo>> /\ Len(infos) = 1 /\ infos[1] = ShadowGroupInfo
  BY <1>1 DEF RInv, MIInv, SIInv
<1>3. ShadowGroupInfo' = ShadowGroupInfo
  BY <1>1 DEF shadowVars, ShadowGroupInfo
<1>4. /\ Len(ShadowGroupInfo.prioritized) = 1
      /\ ShadowGroupInfo.prioritized[1] = [group |-> ShadowGroup, version |-> ShadowVersion]
  BY ShadowInfoVersions
<1>5. CASE Installer!Validate
  <2>1. /\ routes = {} /\ discovery = <<>> /\ gi = 1 /\ vi = 1
        /\ UNCHANGED <<routes, discovery>>
    BY <1>5 DEF Installer!Validate, RInv, OneCall
  <2>2. gi' = 1 /\ vi' = 1 /\ ipc' \in {"resources", "failed", "panic"}
    BY <1>5, <2>1 DEF Installer!Validate
  <2>. QED
    BY <2>1, <2>2 DEF OneCall, API!OneRoutePerName
<1>6. CASE Installer!SkipVersion
  <2>1. gi = 1 /\ vi = 1 /\ ipc = "resources"
    BY <1>2, <1>4, <1>6 DEF Installer!SkipVersion, RInv, OneCall
  <2>2. routes = {} /\ ~HR
    BY <1>2, <1>4, <1>6, <2>1 DEF Installer!SkipVersion, RInv, OneCall
  <2>3. /\ vi' = 2 /\ UNCHANGED <<ipc, gi, routes, discovery>>
    BY <1>6, <2>1 DEF Installer!SkipVersion
  <2>. QED
    BY <1>3, <2>1, <2>2, <2>3 DEF RInv, OneCall, API!OneRoutePerName
<1>7. CASE Installer!InstallREST
  <2> DEFINE gv == infos[gi].prioritized[vi]
             m == Installer!StorageOf(infos[gi], gv.version)
  <2>1. gi = 1 /\ vi = 1 /\ ipc = "resources" /\ routes = {} /\ discovery = <<>>
    BY <1>2, <1>4, <1>7 DEF Installer!InstallREST, RInv, OneCall
  <2>2. gv = [group |-> ShadowGroup, version |-> ShadowVersion] /\ HR
    BY <1>2, <1>4, <1>7, <2>1 DEF Installer!InstallREST
  <2>3. m \in Installer!StorageMap /\ Installer!Keys(m) # {}
    <3>1. /\ m = shadowStorage
          /\ Installer!StorageOf(ShadowGroupInfo, ShadowVersion) = shadowStorage
      BY <1>2, <2>1, <2>2, ShadowAssumption DEF ShadowGroupInfo, Installer!StorageOf
    <3>2. shadowStorage \in Installer!StorageMap
      BY DEF RInv, TInv
    <3>. QED
      BY <2>2, <3>1, <3>2 DEF Installer!HasResources
  <2>4. PICK st \in Installer!LoweredStorages(m) :
          \E bad \in Installer!FailureSets(Installer!Keys(st)) :
            /\ routes' = routes \cup
                 {[group |-> gv.group, version |-> gv.version,
                   resource |-> r, backend |-> st[r]] : r \in Installer!Keys(st) \ bad}
            /\ IF bad = {}
                 THEN /\ resourceInfos' = resourceInfos \cup
                           {[group |-> gv.group, version |-> gv.version,
                             resource |-> r] : r \in Installer!Keys(st)}
                      /\ vi' = vi + 1
                      /\ UNCHANGED ipc
                 ELSE /\ ipc' = "failed"
                      /\ UNCHANGED <<resourceInfos, vi>>
    BY <1>7 DEF Installer!InstallREST
  <2>5. PICK bad \in Installer!FailureSets(Installer!Keys(st)) :
            /\ routes' =
                 {[group |-> gv.group, version |-> gv.version,
                   resource |-> r, backend |-> st[r]] : r \in Installer!Keys(st) \ bad}
            /\ IF bad = {}
                 THEN vi' = 2 /\ ipc' = "resources"
                 ELSE ipc' = "failed" /\ vi' = 1
    BY <2>1, <2>4
  <2>6. Installer!Keys(st) # {}
    BY <2>3, LoweredKeys
  <2>7. API!OneRoutePerName(routes')
    BY <2>5 DEF API!OneRoutePerName
  <2>8. UNCHANGED <<gi, discovery>>
    BY <1>7 DEF Installer!InstallREST
  <2>9. bad = {} => routes' # {}
    <3>1. PICK k \in Installer!Keys(st) : TRUE
      BY <2>6
    <3>2. bad = {} =>
            [group |-> gv.group, version |-> gv.version,
             resource |-> k, backend |-> st[k]] \in routes'
      BY <2>5, <3>1, Zenon
    <3>. QED
      BY <3>2
  <2>. QED
    BY <1>3, <2>1, <2>2, <2>5, <2>7, <2>8, <2>9 DEF OneCall
<1>8. CASE Installer!RecordStorageVersions
  <2>1. gi = 1 /\ vi = 2 /\ ipc = "resources"
    BY <1>2, <1>4, <1>8 DEF Installer!RecordStorageVersions, RInv, OneCall
  <2>2. ipc' = "discovery" /\ UNCHANGED <<gi, vi, routes, discovery>>
    BY <1>8 DEF Installer!RecordStorageVersions
  <2>. QED
    BY <1>3, <2>1, <2>2 DEF RInv, OneCall
<1>9. CASE Installer!AddDiscovery
  <2> DEFINE e == [name |-> infos[gi].prioritized[1].group,
                   versions |-> Installer!AdvertisedVersions(infos[gi]),
                   preferred |-> infos[gi].prioritized[1].version]
  <2>1. gi = 1 /\ ipc = "discovery"
    BY <1>2, <1>9 DEF Installer!AddDiscovery, RInv, TInv, IP!IInv, OneCall
  <2>2. discovery = <<>> /\ (routes # {} <=> HR)
    BY <2>1 DEF RInv, OneCall
  <2>3. discovery' = <<e>> /\ gi' = 2 /\ vi' = 1 /\ ipc' = "resources"
        /\ UNCHANGED routes
    BY <1>9, <2>1, <2>2 DEF Installer!AddDiscovery
  <2>4. AdvertisedShadowVersions' = {p[2] : p \in Installer!AdvertisedVersions(ShadowGroupInfo)}
    BY <1>2, <2>1, <2>3 DEF AdvertisedShadowVersions
  <2>5. AdvertisedShadowVersions' = IF routes' = {} THEN {} ELSE {ShadowVersion}
    <3>1. CASE HR
      <4>1. AdvertisedShadowVersions' = {ShadowVersion} /\ routes' # {}
        BY <2>2, <2>3, <2>4, <3>1, ShadowInfoVersions
      <4>. QED
        BY <4>1
    <3>2. CASE ~HR
      <4>1. AdvertisedShadowVersions' = {} /\ routes' = {}
        BY <2>2, <2>3, <2>4, <3>2, ShadowInfoVersions
      <4>. QED
        BY <4>1
    <3>. QED
      BY <3>1, <3>2
  <2>. QED
    BY <2>3, <2>5 DEF RInv, OneCall
<1>10. CASE Installer!Finish
  <2>1. gi = 2
    BY <1>2, <1>10 DEF Installer!Finish, RInv, OneCall
  <2>2. ipc' = "done" /\ UNCHANGED <<gi, vi, routes, discovery>>
    BY <1>10 DEF Installer!Finish
  <2>. QED
    BY <2>1, <2>2 DEF RInv, OneCall, AdvertisedShadowVersions
<1>. QED
  BY <1>1, <1>5, <1>6, <1>7, <1>8, <1>9, <1>10 DEF Installer!InstallerNext

LEMMA NextRInv == RInv /\ [Next]_vars => RInv'
<1> SUFFICES ASSUME RInv, [Next]_vars PROVE RInv'
  OBVIOUS
<1>1. TInv' /\ MIInv'
  BY NextTInv, NextMIInv DEF RInv
<1>2. CASE DiscoverFail \/ DiscoverOK \/ SkipGroup \/ MirrorGroup \/ InstallShadowGroup
  BY <1>1, <1>2, ShadowStepsRInv
<1>3. CASE InstallStep
  BY <1>1, <1>3, InstallStepOneCall DEF RInv
<1>4. CASE UNCHANGED vars
  <2>1. UNCHANGED <<ipc, gi, vi, routes, discovery, shadowStorage>>
    BY <1>4 DEF vars, shadowVars, installerVars
  <2>2. ShadowGroupInfo' = ShadowGroupInfo
    BY <2>1 DEF ShadowGroupInfo
  <2>3. AdvertisedShadowVersions' = AdvertisedShadowVersions
    BY <2>1 DEF AdvertisedShadowVersions
  <2>. QED
    BY <1>1, <2>1, <2>2, <2>3 DEF RInv, OneCall, API!OneRoutePerName
<1>. QED
  BY <1>2, <1>3, <1>4 DEF Next


-----------------------------------------------------------------------------
(* The refinement                                                          *)

LEMMA InitAPI == Init => API!Init
BY DEF Init, API!Init, AdvertisedShadowVersions

(* InstallREST is a Serve step: the group is not yet listed, routes are    *)
(* only added, and the new ones mirror and do not share names.             *)
LEMMA InstallRESTServes ==
    ASSUME RInv, RInv', InstallStep, Installer!InstallREST
    PROVE  API!Serve
<1>1. infos = <<ShadowGroupInfo>>
  BY DEF InstallStep, RInv, MIInv, SIInv
<1>2. gi = 1
  BY <1>1 DEF Installer!InstallREST, RInv, OneCall
<1>3. discovery = <<>> /\ UNCHANGED discovery
  BY <1>2 DEF Installer!InstallREST, RInv, OneCall
<1>4. routes \subseteq routes'
  BY DEF Installer!InstallREST
<1>5. routes' \subseteq MirrorRoutes
  <2>1. routes' \subseteq IP!Route
    BY DEF RInv, TInv, IP!IInv, IP!InstallerTypeOK
  <2>2. MirrorSound'
    BY DEF RInv, MIInv
  <2>. QED
    BY <2>1, <2>2, SameInstaller DEF MirrorSound, MirrorRoutes
<1>6. API!OneRoutePerName(routes')
  BY DEF RInv, OneCall
<1>. QED
  BY <1>3, <1>4, <1>5, <1>6 DEF API!Serve, AdvertisedShadowVersions

(* AddDiscovery is the Advertise step: it lists the group, advertising the *)
(* shadow version iff the routes in place are not empty.                   *)
LEMMA AddDiscoveryAdvertises ==
    ASSUME RInv, RInv', InstallStep, Installer!AddDiscovery
    PROVE  API!Advertise
<1>1. infos = <<ShadowGroupInfo>>
  BY DEF InstallStep, RInv, MIInv, SIInv
<1>2. gi = 1
  BY <1>1 DEF Installer!AddDiscovery, RInv, TInv, IP!IInv, OneCall
<1>3. discovery = <<>> /\ discovery' # <<>> /\ UNCHANGED routes
  BY <1>2 DEF Installer!AddDiscovery, RInv, OneCall
<1>4. AdvertisedShadowVersions' = IF routes' = {} THEN {} ELSE {ShadowVersion}
  BY <1>3 DEF RInv, OneCall
<1>. QED
  BY <1>3, <1>4 DEF API!Advertise

(* Every step of the shadow server is a step of the shadow API or leaves   *)
(* what a client sees unchanged.                                           *)
LEMMA StepAPI == RInv /\ RInv' /\ [Next]_vars => [API!Next]_API!apiVars
<1> SUFFICES ASSUME RInv, RInv', [Next]_vars PROVE [API!Next]_API!apiVars
  OBVIOUS
<1>1. CASE UNCHANGED <<routes, discovery>>
  BY <1>1 DEF API!apiVars, AdvertisedShadowVersions
<1>2. CASE InstallStep /\ Installer!InstallREST
  BY <1>2, InstallRESTServes DEF API!Next
<1>3. CASE InstallStep /\ Installer!AddDiscovery
  BY <1>3, AddDiscoveryAdvertises DEF API!Next
<1>4. CASE DiscoverFail \/ DiscoverOK \/ SkipGroup \/ MirrorGroup \/ InstallShadowGroup
  <2>. UNCHANGED <<routes, discovery>>
    BY <1>4 DEF DiscoverFail, DiscoverOK, SkipGroup, MirrorGroup,
                InstallShadowGroup, installerVars
  <2>. QED
    BY <1>1
<1>5. CASE InstallStep /\ ~Installer!InstallREST /\ ~Installer!AddDiscovery
  <2>. UNCHANGED <<routes, discovery>>
    BY <1>5 DEF InstallStep, Installer!InstallerNext, Installer!Validate,
                Installer!SkipVersion, Installer!RecordStorageVersions,
                Installer!Finish
  <2>. QED
    BY <1>1
<1>6. CASE UNCHANGED vars
  <2>. UNCHANGED <<routes, discovery>>
    BY <1>6 DEF vars, installerVars
  <2>. QED
    BY <1>1
<1>. QED
  BY <1>2, <1>3, <1>4, <1>5, <1>6 DEF Next

(* InstallShadowAPIGroups implements the shadow API (APIRefinement): the   *)
(* shadow group serves only mirroring routes, one per name, adds them all  *)
(* before it appears in discovery and advertises its version there iff it  *)
(* serves a route, whatever discovery returns and whichever InstallREST    *)
(* registrations fail.                                                     *)
THEOREM ShadowImplementsAPI == Spec => APIRefinement
<1>1. Init => RInv
  BY InitRInv
<1>2. RInv /\ [Next]_vars => RInv'
  BY NextRInv
<1>3. Init => API!Init
  BY InitAPI
<1>4. RInv /\ RInv' /\ [Next]_vars => [API!Next]_API!apiVars
  BY StepAPI
<1>. QED
  BY <1>1, <1>2, <1>3, <1>4, PTL DEF Spec, APIRefinement, API!Spec

=============================================================================
