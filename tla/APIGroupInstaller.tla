------------------------- MODULE APIGroupInstaller -------------------------
(***************************************************************************)
(* The API-group installer of the shadow API server:                       *)
(* ShadowAPIServer.installAPIGroups, installAPIResources,                  *)
(* getAPIGroupVersion and newAPIGroupVersion                               *)
(* (src/pkg/hub/apiserver/shadow/apiserver.go).                            *)
(*                                                                         *)
(* One call of installAPIGroups(infos...) is modelled as a sequence of     *)
(* steps over the batch `infos`: validate every group, then for each group *)
(* publish the routes of each prioritized version (InstallREST), record    *)
(* storage versions when both feature gates are on, and add the group to   *)
(* the discovery index.  Published routes, the discovery index and the     *)
(* storage-version registry are the process-wide state the call changes.  *)
(***************************************************************************)
EXTENDS Naturals, Sequences, FiniteSets

CONSTANTS
    GroupNames,     \* non-empty API group names
    VersionNames,   \* non-empty version names
    ResourceNames,  \* resource names as discovery returns them
    Backends,       \* the rest.Storage objects a resource name can map to
    ToLower,        \* strings.ToLower restricted to ResourceNames
    Batches,        \* the argument lists installAPIGroups may be called with
    InstallMayFail, \* whether InstallREST may report registration errors
    NoBackend       \* what a Go map yields for a missing key (nil)

(* The empty string: PrioritizedVersions[0].Group or .Version may be "".   *)
Empty == ""

GroupStrings == GroupNames \cup {Empty}
VersionStrings == VersionNames \cup {Empty}

(* schema.GroupVersion *)
GV == [group : GroupStrings, version : VersionStrings]

(* A rest.Storage map of one version: resource name -> storage, NoBackend *)
(* where the map has no entry.                                             *)
StorageMap == [ResourceNames -> Backends \cup {NoBackend}]

Keys(m) == {n \in ResourceNames : m[n] # NoBackend}

EmptyStorage == [n \in ResourceNames |-> NoBackend]

(* genericapiserver.APIGroupInfo, reduced to the fields the installer reads *)
(* for control: PrioritizedVersions and VersionedResourcesStorageMap.      *)
GroupInfo == [prioritized : Seq(GV), storage : [VersionNames -> StorageMap]]

(* A route of the restful container: /apis/<group>/<version>/<resource>.  *)
Route == [group : GroupStrings, version : VersionStrings,
          resource : ResourceNames, backend : Backends]

(* storageversion.ResourceInfo, reduced to the resource it names. *)
ResourceInfo == [group : GroupStrings, version : VersionStrings,
                 resource : ResourceNames]

(* metav1.APIGroup as added to the DiscoveryGroupManager; its Versions     *)
(* list is kept as the set of <<rank, version>>, rank being the position  *)
(* in PrioritizedVersions, which orders the list.                          *)
APIGroup == [name : GroupStrings,
             versions : SUBSET ((Nat \ {0}) \X VersionStrings),
             preferred : VersionStrings]

FeatureGates == {"StorageVersionAPI", "APIServerIdentity"}

ASSUME ConstantsAssumption ==
    /\ Empty \notin GroupNames \cup VersionNames
    /\ NoBackend \notin Backends
    /\ ToLower \in [ResourceNames -> ResourceNames]
    /\ Batches \subseteq Seq(GroupInfo)
    /\ InstallMayFail \in BOOLEAN

VARIABLES
    infos,          \* the apiGroupInfos argument of the current call
    ipc,            \* where the call is
    gi,             \* index of the group being installed
    vi,             \* index of its prioritized version being installed
    resourceInfos,  \* local resourceInfos of installAPIResources
    routes,         \* GoRestfulContainer: published routes
    discovery,      \* DiscoveryGroupManager: groups in the order added
    storageVersions,\* StorageVersionManager: registered resource infos
    gates           \* enabled feature gates of DefaultFeatureGate

installerVars == <<infos, ipc, gi, vi, resourceInfos, routes, discovery,
                   storageVersions, gates>>

PC == {"validate", "resources", "discovery", "done", "failed", "panic"}

-----------------------------------------------------------------------------
(* Helpers                                                                 *)

(* apiGroupInfo.VersionedResourcesStorageMap[v]; a missing key is empty.   *)
StorageOf(info, v) ==
    IF v \in VersionNames THEN info.storage[v] ELSE EmptyStorage

HasResources(info, v) == Keys(StorageOf(info, v)) # {}

(* The checks of the first loop of installAPIGroups, lines 168-175.  An    *)
(* empty PrioritizedVersions is indexed at [0] and panics.                 *)
Panics(info) == info.prioritized = <<>>

Rejected(info) ==
    /\ ~Panics(info)
    /\ \/ info.prioritized[1].group = Empty
       \/ info.prioritized[1].version = Empty

Invalid(info) == Panics(info) \/ Rejected(info)

(* getAPIGroupVersion: storage[strings.ToLower(k)] = v over a Go map, so   *)
(* when two keys lower to the same name, which one survives depends on the*)
(* map's iteration order: any of them may.                                 *)
LoweredStorages(st) ==
    LET keys == {ToLower[k] : k \in Keys(st)}
        picks == {p \in [keys -> Keys(st)] : \A l \in keys : ToLower[p[l]] = l}
    IN  {[l \in ResourceNames |-> IF l \in keys THEN st[p[l]] ELSE NoBackend] :
            p \in picks}

(* The resources for which InstallREST may report a registration error.   *)
FailureSets(keys) == IF InstallMayFail THEN SUBSET keys ELSE {{}}

(* Seeded fault: the empty-version check of line 189 dropped.             *)
AdvertisedVersionsAll(info) ==
    {<<i, info.prioritized[i].version>> : i \in 1..Len(info.prioritized)}

(* The versions with resources, in priority order (lines 186-196).        *)
AdvertisedVersions(info) ==
    {<<i, info.prioritized[i].version>> :
        i \in {j \in 1..Len(info.prioritized) :
                HasResources(info, info.prioritized[j].version)}}

-----------------------------------------------------------------------------
(* Actions                                                                 *)

(* Seeded fault: only the first group is validated up front.             *)
ValidateFirstOnly ==
    /\ ipc = "validate"
    /\ LET bad == {i \in 1..Len(infos) : i = 1 /\ Invalid(infos[i])}
           first == CHOOSE i \in bad : \A j \in bad : i <= j
       IN  IF bad = {}
             THEN ipc' = "resources" /\ gi' = 1 /\ vi' = 1
             ELSE /\ ipc' = IF Panics(infos[first]) THEN "panic" ELSE "failed"
                  /\ UNCHANGED <<gi, vi>>
    /\ UNCHANGED <<infos, resourceInfos, routes, discovery, storageVersions,
                   gates>>

(* installAPIGroups, lines 167-176: every group is checked before any is   *)
(* installed; the first invalid one ends the call.                         *)
Validate ==
    /\ ipc = "validate"
    /\ LET bad == {i \in 1..Len(infos) : Invalid(infos[i])}
           first == CHOOSE i \in bad : \A j \in bad : i <= j
       IN  IF bad = {}
             THEN ipc' = "resources" /\ gi' = 1 /\ vi' = 1
             ELSE /\ ipc' = IF Panics(infos[first]) THEN "panic" ELSE "failed"
                  /\ UNCHANGED <<gi, vi>>
    /\ UNCHANGED <<infos, resourceInfos, routes, discovery, storageVersions,
                   gates>>

(* installAPIResources, lines 218-221: a version without resources is      *)
(* skipped with a warning.                                                 *)
SkipVersion ==
    /\ ipc = "resources"
    /\ gi <= Len(infos)
    /\ vi <= Len(infos[gi].prioritized)
    /\ ~HasResources(infos[gi], infos[gi].prioritized[vi].version)
    /\ vi' = vi + 1
    /\ UNCHANGED <<infos, ipc, gi, resourceInfos, routes, discovery,
                   storageVersions, gates>>

(* Seeded fault: resourceInfos = r instead of append(resourceInfos, r...). *)
InstallRESTOverwriteInfos ==
    /\ ipc = "resources"
    /\ gi <= Len(infos)
    /\ vi <= Len(infos[gi].prioritized)
    /\ LET gv == infos[gi].prioritized[vi]
       IN  /\ HasResources(infos[gi], gv.version)
           /\ \E st \in LoweredStorages(StorageOf(infos[gi], gv.version)) :
              \E bad \in FailureSets(Keys(st)) :
                /\ routes' = routes \cup
                     {[group |-> gv.group, version |-> gv.version,
                       resource |-> r, backend |-> st[r]] : r \in Keys(st) \ bad}
                /\ IF bad = {}
                     THEN /\ resourceInfos' =
                               {[group |-> gv.group, version |-> gv.version,
                                 resource |-> r] : r \in Keys(st)}
                          /\ vi' = vi + 1
                          /\ UNCHANGED ipc
                     ELSE /\ ipc' = "failed"
                          /\ UNCHANGED <<resourceInfos, vi>>
    /\ UNCHANGED <<infos, gi, discovery, storageVersions, gates>>

(* installAPIResources, lines 223-234: getAPIGroupVersion lowers the       *)
(* storage keys; InstallREST adds the version's web service with every     *)
(* resource that registered, and returns an error if any did not, which    *)
(* ends the call with the routes already added left in place.             *)
InstallREST ==
    /\ ipc = "resources"
    /\ gi <= Len(infos)
    /\ vi <= Len(infos[gi].prioritized)
    /\ LET gv == infos[gi].prioritized[vi]
       IN  /\ HasResources(infos[gi], gv.version)
           /\ \E st \in LoweredStorages(StorageOf(infos[gi], gv.version)) :
              \E bad \in FailureSets(Keys(st)) :
                /\ routes' = routes \cup
                     {[group |-> gv.group, version |-> gv.version,
                       resource |-> r, backend |-> st[r]] : r \in Keys(st) \ bad}
                /\ IF bad = {}
                     THEN /\ resourceInfos' = resourceInfos \cup
                               {[group |-> gv.group, version |-> gv.version,
                                 resource |-> r] : r \in Keys(st)}
                          /\ vi' = vi + 1
                          /\ UNCHANGED ipc
                     ELSE /\ ipc' = "failed"
                          /\ UNCHANGED <<resourceInfos, vi>>
    /\ UNCHANGED <<infos, gi, discovery, storageVersions, gates>>

(* installAPIResources, lines 237-245: after the last version, register    *)
(* the collected resource infos if both feature gates are enabled.         *)
RecordStorageVersions ==
    /\ ipc = "resources"
    /\ gi <= Len(infos)
    /\ vi > Len(infos[gi].prioritized)
    /\ storageVersions' = IF FeatureGates \subseteq gates
                            THEN storageVersions \cup resourceInfos
                            ELSE storageVersions
    /\ ipc' = "discovery"
    /\ resourceInfos' = {}
    /\ UNCHANGED <<infos, gi, vi, routes, discovery, gates>>

(* Seeded fault: the version index is reset zero-based for the next group.*)
AddDiscoveryZeroBased ==
    /\ ipc = "discovery"
    /\ discovery' = Append(discovery,
                      [name |-> infos[gi].prioritized[1].group,
                       versions |-> AdvertisedVersions(infos[gi]),
                       preferred |-> infos[gi].prioritized[1].version])
    /\ ipc' = "resources"
    /\ gi' = gi + 1
    /\ vi' = 0
    /\ UNCHANGED <<infos, resourceInfos, routes, storageVersions, gates>>

(* installAPIGroups, lines 183-208: add the group with the versions that   *)
(* have resources and PrioritizedVersions[0] as preferred version.         *)
AddDiscovery ==
    /\ ipc = "discovery"
    /\ discovery' = Append(discovery,
                      [name |-> infos[gi].prioritized[1].group,
                       versions |-> AdvertisedVersions(infos[gi]),
                       preferred |-> infos[gi].prioritized[1].version])
    /\ ipc' = "resources"
    /\ gi' = gi + 1
    /\ vi' = 1
    /\ UNCHANGED <<infos, resourceInfos, routes, storageVersions, gates>>

(* Seeded fault: the group loop bound is off by one, so the call returns  *)
(* while the last group is still being installed.                          *)
FinishOffByOne ==
    /\ ipc = "resources"
    /\ gi >= Len(infos)
    /\ ipc' = "done"
    /\ UNCHANGED <<infos, gi, vi, resourceInfos, routes, discovery,
                   storageVersions, gates>>

(* installAPIGroups, line 210: every group installed, return nil.          *)
Finish ==
    /\ ipc = "resources"
    /\ gi > Len(infos)
    /\ ipc' = "done"
    /\ UNCHANGED <<infos, gi, vi, resourceInfos, routes, discovery,
                   storageVersions, gates>>

InstallerNext ==
    \/ Validate
    \/ SkipVersion
    \/ InstallREST
    \/ RecordStorageVersions
    \/ AddDiscovery
    \/ Finish

(* The process starts with nothing published; the feature gates are fixed *)
(* by the command line.                                                    *)
InstallerInit ==
    /\ infos \in Batches
    /\ ipc = "validate"
    /\ gi = 1
    /\ vi = 1
    /\ resourceInfos = {}
    /\ routes = {}
    /\ discovery = <<>>
    /\ storageVersions = {}
    /\ gates \in SUBSET FeatureGates

(* The call has returned, or panicked; installation runs once, at startup,*)
(* so nothing follows it in this module (TLC runs with deadlock off).      *)
Terminated == ipc \in {"done", "failed", "panic"}

InstallerSpec ==
    /\ InstallerInit
    /\ [][InstallerNext]_installerVars
    /\ WF_installerVars(InstallerNext)

-----------------------------------------------------------------------------
(* Properties                                                              *)

InstallerTypeOK ==
    /\ infos \in Seq(GroupInfo)
    /\ ipc \in PC
    /\ gi \in Nat \ {0}
    /\ vi \in Nat \ {0}
    /\ resourceInfos \in SUBSET ResourceInfo
    /\ routes \in SUBSET Route
    /\ discovery \in Seq(APIGroup)
    /\ storageVersions \in SUBSET ResourceInfo
    /\ gates \in SUBSET FeatureGates

BatchInvalid == \E i \in 1..Len(infos) : Invalid(infos[i])

(* Validation is fail-fast (installAPIGroups checks every group before it  *)
(* installs any): a batch with a malformed group publishes no route, no    *)
(* discovery entry and no storage version for any of its groups.           *)
ValidationFailFast ==
    BatchInvalid =>
        /\ routes = {}
        /\ discovery = <<>>
        /\ storageVersions = {}

(* The discovery index agrees with the routes: a group's discovery entry   *)
(* (built from the storage map, lines 186-196) advertises exactly the      *)
(* versions under which InstallREST published routes for it.               *)
DiscoveryMatchesRoutes ==
    \A k \in 1..Len(discovery) :
       \A v \in VersionStrings :
          (\E av \in discovery[k].versions : av[2] = v)
            <=> (\E r \in routes : r.group = discovery[k].name /\ r.version = v)

(* With both storage-version gates on, every route of a group that reached *)
(* discovery is registered with the StorageVersionManager, whichever of    *)
(* the group's versions published it (resourceInfos accumulates across the *)
(* version loop of installAPIResources).                                   *)
StorageVersionsComplete ==
    FeatureGates \subseteq gates =>
        \A k \in 1..Len(discovery) : \A r \in routes :
            r.group = discovery[k].name =>
                [group |-> r.group, version |-> r.version, resource |-> r.resource]
                    \in storageVersions

(* Routes reach discovery group by group (lines 178-208): a published     *)
(* route's version is advertised by its group's discovery entry, unless    *)
(* the route belongs to the group being installed, or to the group whose   *)
(* InstallREST failed, whose routes are left in place without an entry    *)
(* (line 232, fail-fast with no rollback).  So when the call returns nil,  *)
(* every route is discoverable.                                            *)
RoutesDiscoverable ==
    \A r \in routes :
       \/ \E k \in 1..Len(discovery) :
             /\ discovery[k].name = r.group
             /\ \E av \in discovery[k].versions : av[2] = r.version
       \/ /\ ipc \in {"resources", "discovery", "failed"}
          /\ gi <= Len(infos)
          /\ \E j \in 1..Len(infos[gi].prioritized) :
                infos[gi].prioritized[j] = [group |-> r.group, version |-> r.version]

(* Discovery semantics: the preferred version a group entry names is one  *)
(* of the versions it advertises, so a client that follows it finds        *)
(* /apis/<group>/<preferred>.  Lines 197-205 take PrioritizedVersions[0]   *)
(* even when lines 187-191 elided it for having no resources.              *)
PreferredAdvertised ==
    \A k \in 1..Len(discovery) :
        \E av \in discovery[k].versions : av[2] = discovery[k].preferred

(* The spec (4.5 Validate) says a group with an empty PrioritizedVersions  *)
(* is rejected with a validation error; line 170 indexes it at [0].        *)
EmptyPrioritizedRejected == ipc # "panic"

=============================================================================
