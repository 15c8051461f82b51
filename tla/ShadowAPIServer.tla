-------------------------- MODULE ShadowAPIServer --------------------------
(***************************************************************************)
(* ShadowAPIServer.InstallShadowAPIGroups                                  *)
(* (src/pkg/hub/apiserver/shadow/apiserver.go, lines 116-162) composed     *)
(* with the installer of module APIGroupInstaller.                         *)
(*                                                                         *)
(* The call reads the downstream discovery (restmapper.GetAPIGroupResources*)
(* over the parent apiserver), walks its groups in order, skips the        *)
(* clusternet groups and the shadow group, registers every resource of a   *)
(* group's preferred version in the process-wide Scheme as Unstructured    *)
(* and puts a template REST storage for it under its name in the single    *)
(* shadow v1alpha1 storage map; it then installs the shadow group through  *)
(* installAPIGroups.                                                       *)
(***************************************************************************)
EXTENDS Naturals, Sequences, FiniteSets

CONSTANTS
    GroupNames, VersionNames, ResourceNames, ToLower, InstallMayFail,
    Kinds,             \* resource kinds
    ClusternetGroups,  \* the group names that end in ".clusternet.io"
    ShadowGroup,       \* shadowapi.GroupName
    ShadowVersion,     \* shadowapi.SchemeGroupVersion.Version ("v1alpha1")
    PreRegistered,     \* GVKs the init() of the package put in Scheme
    Downstream,        \* the groups the parent apiserver's discovery serves
    DiscoveryMayFail,  \* whether GetAPIGroupResources may return an error
    PartialDiscovery,  \* whether group versions may be missing from it
    NoBackend          \* nil: the value of a missing map entry

(* metav1.APIResource, reduced to what the shadow storage is built from.   *)
APIResource == [name : ResourceNames, kind : Kinds, namespaced : BOOLEAN]

(* restmapper.APIGroupResources: the group, its preferred version and the  *)
(* resources of each of its versions.                                      *)
APIGroupResources ==
    [name : GroupNames \cup {""}, preferred : VersionNames,
     resources : [VersionNames -> SUBSET APIResource]]

(* A template.REST as configured by lines 142-148 (short names left out).  *)
Backend == [name : ResourceNames, kind : Kinds, group : GroupNames \cup {""},
            version : VersionNames, namespaced : BOOLEAN]

(* schema.GroupVersionKind *)
GVK == [group : GroupNames \cup {""}, version : VersionNames, kind : Kinds]

ASSUME ShadowAssumption ==
    /\ ShadowGroup \in ClusternetGroups
    /\ ClusternetGroups \subseteq GroupNames
    /\ ShadowVersion \in VersionNames
    /\ PreRegistered \subseteq GVK
    /\ Downstream \in Seq(APIGroupResources)
    /\ DiscoveryMayFail \in BOOLEAN
    /\ PartialDiscovery \in BOOLEAN

VARIABLES
    infos, ipc, gi, vi, resourceInfos, routes, discovery, storageVersions,
    gates,
    spc,                \* where InstallShadowAPIGroups is
    apiGroupResources,  \* the result of GetAPIGroupResources
    sgi,                \* index of the group being scanned
    scheme,             \* GVKs registered in the package's Scheme
    shadowStorage       \* shadowv1alpha1storage: name -> template REST

Installer == INSTANCE APIGroupInstaller
    WITH Backends <- Backend, Batches <- {}, NoBackend <- NoBackend

(* The installer's assumptions on its constants hold for the shadow        *)
(* server's: names are non-empty, nil is no template REST, strings.ToLower *)
(* maps resource names to resource names.                                  *)
ASSUME InstallerAssumption == Installer!ConstantsAssumption

shadowVars == <<spc, apiGroupResources, sgi, scheme, shadowStorage>>

installerVars == <<infos, ipc, gi, vi, resourceInfos, routes, discovery,
                   storageVersions, gates>>

vars == <<shadowVars, installerVars>>

-----------------------------------------------------------------------------
(* Helpers                                                                 *)

(* Seeded fault: the clusternet-suffix skip of line 127 dropped.         *)
ExcludedShadowOnly(name) == name = ShadowGroup

(* Lines 127 and 132: strings.HasSuffix(name, ".clusternet.io") or the    *)
(* shadow group itself.                                                    *)
Excluded(name) == name \in ClusternetGroups \/ name = ShadowGroup

(* Seeded fault: the resources of every version instead of the preferred. *)
PreferredResourcesAll(g) == UNION {g.resources[v] : v \in VersionNames}

(* The resources of a group's preferred version (line 137).                *)
PreferredResources(g) == g.resources[g.preferred]

BackendOf(g, r) ==
    [name |-> r.name, kind |-> r.kind, group |-> g.name,
     version |-> g.preferred, namespaced |-> r.namespaced]

(* What GetAPIGroupResources returns when the group versions in `lost`     *)
(* failed discovery: the group is listed without their resources and the   *)
(* error is dropped (client-go restmapper, outside this repository).       *)
DiscoveryResult(lost) ==
    [k \in DOMAIN Downstream |->
        IF k \in lost
          THEN [Downstream[k] EXCEPT !.resources = [v \in VersionNames |-> {}]]
          ELSE Downstream[k]]

LostChoices == IF PartialDiscovery THEN SUBSET DOMAIN Downstream ELSE {{}}

(* The storage map after storing a template REST for each resource of     *)
(* `res` under its name (line 149): a later group overwrites an earlier.   *)
StoreAll(m, g, res) ==
    [n \in ResourceNames |->
        IF \E r \in res : r.name = n
          THEN BackendOf(g, CHOOSE r \in res : r.name = n)
          ELSE m[n]]

(* The APIGroupInfo of lines 153-160.                                      *)
ShadowGroupInfo ==
    [prioritized |-> <<[group |-> ShadowGroup, version |-> ShadowVersion]>>,
     storage |-> [v \in VersionNames |->
                    IF v = ShadowVersion THEN shadowStorage ELSE Installer!EmptyStorage]]

-----------------------------------------------------------------------------
(* Actions                                                                 *)

(* Lines 119-122: discovery fails and the call returns its error.          *)
DiscoverFail ==
    /\ spc = "discover"
    /\ DiscoveryMayFail
    /\ spc' = "failed"
    /\ UNCHANGED <<apiGroupResources, sgi, scheme, shadowStorage>>
    /\ UNCHANGED installerVars

(* Seeded fault: the group loop starts at index 0.                       *)
DiscoverOKZeroBased ==
    /\ spc = "discover"
    /\ \E lost \in LostChoices : apiGroupResources' = DiscoveryResult(lost)
    /\ spc' = "scan"
    /\ sgi' = 0
    /\ UNCHANGED <<scheme, shadowStorage>>
    /\ UNCHANGED installerVars

(* Lines 119-124: discovery returns the groups.                            *)
DiscoverOK ==
    /\ spc = "discover"
    /\ \E lost \in LostChoices : apiGroupResources' = DiscoveryResult(lost)
    /\ spc' = "scan"
    /\ sgi' = 1
    /\ UNCHANGED <<scheme, shadowStorage>>
    /\ UNCHANGED installerVars

(* Lines 126-134: a clusternet group or the shadow group is skipped.       *)
SkipGroup ==
    /\ spc = "scan"
    /\ sgi <= Len(apiGroupResources)
    /\ Excluded(apiGroupResources[sgi].name)
    /\ sgi' = sgi + 1
    /\ UNCHANGED <<spc, apiGroupResources, scheme, shadowStorage>>
    /\ UNCHANGED installerVars

(* Seeded fault: a GVK is registered only for names not yet stored.      *)
MirrorGroupRegisterNew ==
    /\ spc = "scan"
    /\ sgi <= Len(apiGroupResources)
    /\ LET g == apiGroupResources[sgi]
           res == PreferredResources(g)
       IN  /\ ~Excluded(g.name)
           /\ scheme' = scheme \cup
                {[group |-> g.name, version |-> g.preferred, kind |-> r.kind] :
                    r \in {x \in res : shadowStorage[x.name] = NoBackend}}
           /\ shadowStorage' = StoreAll(shadowStorage, g, res)
    /\ sgi' = sgi + 1
    /\ UNCHANGED <<spc, apiGroupResources>>
    /\ UNCHANGED installerVars

(* Lines 136-150: every resource of the preferred version is registered   *)
(* in the Scheme under its original GVK and stored under its name,         *)
(* overwriting what an earlier group stored there.                         *)
MirrorGroup ==
    /\ spc = "scan"
    /\ sgi <= Len(apiGroupResources)
    /\ LET g == apiGroupResources[sgi]
           res == PreferredResources(g)
       IN  /\ ~Excluded(g.name)
           /\ scheme' = scheme \cup
                {[group |-> g.name, version |-> g.preferred, kind |-> r.kind] :
                    r \in res}
           /\ shadowStorage' = StoreAll(shadowStorage, g, res)
    /\ sgi' = sgi + 1
    /\ UNCHANGED <<spc, apiGroupResources>>
    /\ UNCHANGED installerVars

(* Lines 153-161: build the shadow APIGroupInfo and call installAPIGroups. *)
InstallShadowGroup ==
    /\ spc = "scan"
    /\ sgi > Len(apiGroupResources)
    /\ spc' = "install"
    /\ infos' = <<ShadowGroupInfo>>
    /\ ipc' = "validate"
    /\ UNCHANGED <<apiGroupResources, sgi, scheme, shadowStorage>>
    /\ UNCHANGED <<gi, vi, resourceInfos, routes, discovery, storageVersions,
                   gates>>

(* A step of installAPIGroups.                                             *)
InstallStep ==
    /\ spc = "install"
    /\ Installer!InstallerNext
    /\ UNCHANGED shadowVars

Next ==
    \/ DiscoverFail
    \/ DiscoverOK
    \/ SkipGroup
    \/ MirrorGroup
    \/ InstallShadowGroup
    \/ InstallStep

(* At process start the Scheme holds what init() registered and nothing is *)
(* published.                                                              *)
Init ==
    /\ spc = "discover"
    /\ apiGroupResources = <<>>
    /\ sgi = 1
    /\ scheme = PreRegistered
    /\ shadowStorage = Installer!EmptyStorage
    /\ infos = <<>>
    /\ ipc = "validate"
    /\ gi = 1
    /\ vi = 1
    /\ resourceInfos = {}
    /\ routes = {}
    /\ discovery = <<>>
    /\ storageVersions = {}
    /\ gates \in SUBSET Installer!FeatureGates

(* InstallShadowAPIGroups has returned: with an error, or installAPIGroups *)
(* has returned or panicked.                                               *)
Returned == spc = "failed" \/ (spc = "install" /\ Installer!Terminated)

Spec == Init /\ [][Next]_vars /\ WF_vars(Next)

-----------------------------------------------------------------------------
(* Properties                                                              *)

ShadowTypeOK ==
    /\ Installer!InstallerTypeOK
    /\ spc \in {"discover", "scan", "install", "failed"}
    /\ apiGroupResources \in Seq(APIGroupResources)
    /\ sgi \in Nat \ {0}
    /\ scheme \subseteq GVK
    /\ shadowStorage \in Installer!StorageMap

(* Exclusion (spec 8): no route of the shadow group is backed by a         *)
(* resource of a clusternet group or of the shadow group itself (the skips *)
(* of lines 127-134).                                                      *)
Exclusion ==
    \A r \in routes :
        r.backend.group \notin ClusternetGroups \cup {ShadowGroup}

(* A route under the shadow group and version, named by the lowered name  *)
(* of a resource that the downstream discovery lists under its group's     *)
(* preferred version, and backed by that resource.                        *)
MirrorRoute(r) ==
    /\ r.group = ShadowGroup
    /\ r.version = ShadowVersion
    /\ r.resource = ToLower[r.backend.name]
    /\ \E k \in DOMAIN Downstream :
          /\ Downstream[k].name = r.backend.group
          /\ Downstream[k].preferred = r.backend.version
          /\ [name |-> r.backend.name, kind |-> r.backend.kind,
              namespaced |-> r.backend.namespaced]
                \in Downstream[k].resources[Downstream[k].preferred]

(* Every shadow route mirrors a resource the downstream discovery lists    *)
(* under its group's preferred version, is served under the shadow group   *)
(* and version, and is named by the lowered resource name (lines 136-149,  *)
(* 153-160 and getAPIGroupVersion).                                        *)
MirrorSound == \A r \in routes : MirrorRoute(r)

(* The Scheme knows the original GVK of every published shadow route      *)
(* (spec 4.2: registration precedes publication, since serializers are     *)
(* resolved from the Scheme at request time), including the GVK of a      *)
(* resource that overwrote an earlier one of the same name.                *)
SchemeBeforeRoute ==
    \A r \in routes :
        [group |-> r.backend.group, version |-> r.backend.version,
         kind |-> r.backend.kind] \in scheme

(* Completeness (spec 8): once installation succeeded, every resource of   *)
(* the preferred version of every group that is not excluded is served by  *)
(* a shadow route backed by that very resource.                            *)
Completeness ==
    (spc = "install" /\ ipc = "done") =>
        \A k \in DOMAIN Downstream :
            Downstream[k].name \notin ClusternetGroups \cup {ShadowGroup} =>
                \A res \in Downstream[k].resources[Downstream[k].preferred] :
                    \E r \in routes : r.backend = BackendOf(Downstream[k], res)


-----------------------------------------------------------------------------
(* The shadow API as a client sees it                                      *)

(* The routes a client may find under the shadow group.                    *)
MirrorRoutes == {r \in Installer!Route : MirrorRoute(r)}

(* The versions of the shadow group's discovery entry (the second          *)
(* components of its <<rank, version>> pairs).                             *)
AdvertisedShadowVersions ==
    IF discovery = <<>> THEN {} ELSE {p[2] : p \in discovery[1].versions}

API == INSTANCE ShadowAPI
    WITH served <- routes, listed <- (discovery # <<>>),
         versions <- AdvertisedShadowVersions, Mirrorable <- MirrorRoutes

(* InstallShadowAPIGroups with installAPIGroups implements the shadow API  *)
(* of module ShadowAPI: every step adds mirror routes, one per resource    *)
(* name, before the group is listed in discovery, or lists the group with  *)
(* its version exactly when routes were installed, or changes nothing a    *)
(* client sees; a failed install leaves its routes in place but never      *)
(* lists the group.                                                        *)
APIRefinement == API!Spec

=============================================================================
