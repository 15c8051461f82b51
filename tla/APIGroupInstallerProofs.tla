---------------------- MODULE APIGroupInstallerProofs ----------------------
(***************************************************************************)
(* Proofs about the installAPIGroups model, for every value of the         *)
(* constants that satisfies ConstantsAssumption: the installer keeps its   *)
(* types, and validation is fail-fast, so that a batch with a malformed    *)
(* group never publishes anything; and, for batches whose infos each name  *)
(* one group of their own, discovery advertises exactly the group versions *)
(* with routes and every finished group's routes are storage versions.     *)
(***************************************************************************)
EXTENDS APIGroupInstaller, TLAPS

(* The inductive invariant.  ValidationFailFast alone is not inductive:    *)
(* the install actions keep it only because a batch that failed validation *)
(* never reaches them, and AddDiscovery keeps the type only because the    *)
(* group it reads has a first prioritized version.                         *)
IInv ==
    /\ InstallerTypeOK
    /\ ipc \in {"resources", "discovery", "done"} => ~BatchInvalid
    /\ ipc = "resources" => gi \in 1..Len(infos) + 1
    /\ ipc = "discovery" => gi \in 1..Len(infos)
    /\ BatchInvalid =>
          /\ ipc \in {"validate", "failed", "panic"}
          /\ routes = {}
          /\ discovery = <<>>
          /\ storageVersions = {}

-----------------------------------------------------------------------------
(* Lemmas on the storage maps                                              *)

LEMMA EmptyStorageType == EmptyStorage \in StorageMap
BY DEF EmptyStorage, StorageMap

LEMMA StorageOfType ==
    ASSUME NEW info \in GroupInfo, NEW v \in VersionStrings
    PROVE  StorageOf(info, v) \in StorageMap
BY EmptyStorageType DEF StorageOf, GroupInfo

(* The storage getAPIGroupVersion builds is again a storage map, so every  *)
(* key it has maps to a backend.                                           *)
LEMMA LoweredStorageType ==
    ASSUME ConstantsAssumption,
           NEW m \in StorageMap, NEW st \in LoweredStorages(m)
    PROVE  /\ st \in StorageMap
           /\ \A r \in Keys(st) : st[r] \in Backends
<1> DEFINE keys == {ToLower[k] : k \in Keys(m)}
<1>1. PICK p \in [keys -> Keys(m)] :
          st = [l \in ResourceNames |-> IF l \in keys THEN m[p[l]] ELSE NoBackend]
  BY DEF LoweredStorages
<1>2. \A l \in keys : m[p[l]] \in Backends \cup {NoBackend}
  BY DEF Keys, StorageMap
<1>3. st \in StorageMap
  BY <1>1, <1>2 DEF StorageMap
<1>. QED
  BY <1>3 DEF Keys, StorageMap

-----------------------------------------------------------------------------
(* The invariant is inductive                                              *)

LEMMA InitIInv == InstallerInit => IInv
<1> SUFFICES ASSUME InstallerInit PROVE IInv
  OBVIOUS
<1>1. InstallerTypeOK
  BY ConstantsAssumption DEF InstallerInit, InstallerTypeOK, PC
<1>. QED
  BY <1>1 DEF InstallerInit, IInv

LEMMA NextIInv == IInv /\ [InstallerNext]_installerVars => IInv'
<1> SUFFICES ASSUME IInv, [InstallerNext]_installerVars PROVE IInv'
  OBVIOUS
<1> USE ConstantsAssumption
<1>0. /\ infos \in Seq(GroupInfo)
      /\ gi \in Nat \ {0}
      /\ vi \in Nat \ {0}
  BY DEF IInv, InstallerTypeOK
<1>1. CASE Validate
  <2> DEFINE bad == {i \in 1..Len(infos) : Invalid(infos[i])}
  <2>1. CASE bad = {}
    <3>1. ~BatchInvalid
      BY <2>1 DEF BatchInvalid
    <3>. QED
      BY <1>1, <2>1, <3>1 DEF Validate, IInv, InstallerTypeOK, PC, BatchInvalid
  <2>2. CASE bad # {}
    <3>1. ipc' \in {"failed", "panic"}
      BY <1>1, <2>2 DEF Validate
    <3>2. ipc = "validate"
      BY <1>1 DEF Validate
    <3>. QED
      BY <1>1, <3>1, <3>2 DEF Validate, IInv, InstallerTypeOK, PC, BatchInvalid
  <2>. QED
    BY <2>1, <2>2
<1>2. CASE SkipVersion
  BY <1>2 DEF SkipVersion, IInv, InstallerTypeOK, BatchInvalid
<1>3. CASE InstallREST
  <2> DEFINE info == infos[gi]
             gv == info.prioritized[vi]
  <2>1. ipc = "resources" /\ gi \in 1..Len(infos) /\ vi \in 1..Len(info.prioritized)
    BY <1>0, <1>3 DEF InstallREST
  <2>2. ~BatchInvalid
    BY <2>1 DEF IInv
  <2>3. info \in GroupInfo /\ gv \in GV
    <3>1. info \in GroupInfo
      BY <1>0, <2>1
    <3>2. info.prioritized \in Seq(GV)
      BY <3>1 DEF GroupInfo
    <3>. QED
      BY <2>1, <3>1, <3>2
  <2>4. StorageOf(info, gv.version) \in StorageMap
    BY <2>3, StorageOfType DEF GV
  <2>5. PICK st \in LoweredStorages(StorageOf(info, gv.version)) :
          \E bad \in FailureSets(Keys(st)) :
            /\ routes' = routes \cup
                 {[group |-> gv.group, version |-> gv.version,
                   resource |-> r, backend |-> st[r]] : r \in Keys(st) \ bad}
            /\ IF bad = {}
                 THEN /\ resourceInfos' = resourceInfos \cup
                           {[group |-> gv.group, version |-> gv.version,
                             resource |-> r] : r \in Keys(st)}
                      /\ vi' = vi + 1
                      /\ UNCHANGED ipc
                 ELSE /\ ipc' = "failed"
                      /\ UNCHANGED <<resourceInfos, vi>>
    BY <1>3 DEF InstallREST
  <2>6. \A r \in Keys(st) : st[r] \in Backends
    BY <2>4, LoweredStorageType
  <2>7. Keys(st) \subseteq ResourceNames
    BY DEF Keys
  <2>8. routes' \in SUBSET Route
    BY <2>3, <2>5, <2>6, <2>7 DEF IInv, InstallerTypeOK, Route, GV
  <2>9. resourceInfos' \in SUBSET ResourceInfo
    BY <2>3, <2>5, <2>7 DEF IInv, InstallerTypeOK, ResourceInfo, GV
  <2>10. ipc' \in {"resources", "failed"} /\ vi' \in Nat \ {0}
    BY <1>0, <2>1, <2>5
  <2>. QED
    BY <1>3, <2>1, <2>2, <2>8, <2>9, <2>10
       DEF InstallREST, IInv, InstallerTypeOK, PC, BatchInvalid
<1>4. CASE RecordStorageVersions
  BY <1>4 DEF RecordStorageVersions, IInv, InstallerTypeOK, PC, BatchInvalid
<1>5. CASE AddDiscovery
  <2> DEFINE info == infos[gi]
  <2>1. ipc = "discovery" /\ gi \in 1..Len(infos) /\ ~BatchInvalid
    BY <1>5 DEF AddDiscovery, IInv
  <2>2. info \in GroupInfo /\ ~Invalid(info)
    BY <1>0, <2>1 DEF BatchInvalid
  <2>3. Len(info.prioritized) >= 1 /\ info.prioritized \in Seq(GV)
    BY <2>2 DEF Invalid, Panics, GroupInfo
  <2>4. info.prioritized[1] \in GV
    BY <2>3
  <2>5. AdvertisedVersions(info) \in SUBSET ((Nat \ {0}) \X VersionStrings)
    <3>1. \A i \in 1..Len(info.prioritized) : info.prioritized[i].version \in VersionStrings
      <4> TAKE i \in 1..Len(info.prioritized)
      <4>1. info.prioritized[i] \in GV
        BY <2>3
      <4>. QED
        BY <4>1 DEF GV
    <3>. QED
      BY <3>1 DEF AdvertisedVersions
  <2>6. [name |-> info.prioritized[1].group,
         versions |-> AdvertisedVersions(info),
         preferred |-> info.prioritized[1].version] \in APIGroup
    BY <2>4, <2>5 DEF APIGroup, GV
  <2>7. discovery' \in Seq(APIGroup)
    BY <1>5, <2>6 DEF AddDiscovery, IInv, InstallerTypeOK
  <2>. QED
    BY <1>5, <2>1, <2>7 DEF AddDiscovery, IInv, InstallerTypeOK, PC, BatchInvalid
<1>6. CASE Finish
  BY <1>6 DEF Finish, IInv, InstallerTypeOK, PC, BatchInvalid
<1>7. CASE UNCHANGED installerVars
  BY <1>7 DEF installerVars, IInv, InstallerTypeOK, BatchInvalid
<1>. QED
  BY <1>1, <1>2, <1>3, <1>4, <1>5, <1>6, <1>7 DEF InstallerNext

-----------------------------------------------------------------------------
(* What the discovery index and the storage-version registry are made of   *)

(* The group an APIGroupInfo is installed under: PrioritizedVersions[0].   *)
GroupOf(info) == info.prioritized[1].group

(* How every caller of installAPIGroups builds its batch: all versions of  *)
(* an APIGroupInfo name its group, and no two infos share a group (the one *)
(* caller in this repository passes the single shadow group info).         *)
WellFormedBatch(b) ==
    /\ \A k \in DOMAIN b : \A i \in DOMAIN b[k].prioritized :
          b[k].prioritized[i].group = GroupOf(b[k])
    /\ \A k, j \in DOMAIN b :
          /\ b[k].prioritized # <<>>
          /\ b[j].prioritized # <<>>
          /\ GroupOf(b[k]) = GroupOf(b[j])
          => k = j

WellFormedBatches == \A b \in Batches : WellFormedBatch(b)

(* The entry AddDiscovery appends for a group.                             *)
Entry(info) ==
    [name |-> GroupOf(info),
     versions |-> AdvertisedVersions(info),
     preferred |-> info.prioritized[1].version]

(* The storage-version record of a route.                                  *)
RInfo(r) == [group |-> r.group, version |-> r.version, resource |-> r.resource]

(* Version i of group k has resources, and a route was published for it.   *)
Served(k, i) == HasResources(infos[k], infos[k].prioritized[i].version)

Installed(k, i) ==
    \E r \in routes : /\ r.group = infos[k].prioritized[i].group
                      /\ r.version = infos[k].prioritized[i].version

(* Where the call is: discovery holds one entry per group before gi, each *)
(* the entry AddDiscovery built for it; nothing is published before        *)
(* validation, and nothing is collected once a group's versions are done.  *)
Progress ==
    /\ infos \in Batches
    /\ gi \in 1..Len(infos) + 1
    /\ Len(discovery) = gi - 1
    /\ \A k \in 1..Len(discovery) : discovery[k] = Entry(infos[k])
    /\ ipc = "validate" =>
          routes = {} /\ resourceInfos = {} /\ storageVersions = {} /\ gi = 1
    /\ ipc = "discovery" =>
          resourceInfos = {} /\ vi > Len(infos[gi].prioritized)

(* Every route was published for a served version of a group up to gi.    *)
RoutesFromServed ==
    \A r \in routes :
        \E k \in 1..Len(infos) : \E i \in 1..Len(infos[k].prioritized) :
            /\ k <= gi
            /\ r.group = infos[k].prioritized[i].group
            /\ r.version = infos[k].prioritized[i].version
            /\ Served(k, i)

(* Every served version of a group before gi, and of the current group     *)
(* before vi, has a route.                                                 *)
ServedInstalled ==
    /\ \A k \in 1..gi - 1 : \A i \in 1..Len(infos[k].prioritized) :
          Served(k, i) => Installed(k, i)
    /\ ipc \in {"resources", "discovery"} /\ gi <= Len(infos) =>
          \A i \in 1..Len(infos[gi].prioritized) :
              i < vi /\ Served(gi, i) => Installed(gi, i)

(* With both gates on, the routes of the groups before gi are registered   *)
(* and those of the current group are collected or registered.             *)
StorageRegistered ==
    FeatureGates \subseteq gates =>
        \A r \in routes : \A k \in 1..Len(infos) :
            infos[k].prioritized # <<>> /\ r.group = GroupOf(infos[k]) =>
                /\ k < gi => RInfo(r) \in storageVersions
                /\ k = gi /\ ipc \in {"resources", "discovery"} =>
                      RInfo(r) \in resourceInfos \cup storageVersions

(* The invariant for DiscoveryMatchesRoutes and StorageVersionsComplete.   *)
DInv ==
    /\ IInv
    /\ Progress
    /\ RoutesFromServed
    /\ ServedInstalled
    /\ StorageRegistered

-----------------------------------------------------------------------------
(* Lemmas for DInv                                                         *)

(* getAPIGroupVersion loses no version: a storage map with a key yields a  *)
(* lowered map with a key.                                                 *)
LEMMA LoweredKeysNonEmpty ==
    ASSUME ConstantsAssumption,
           NEW m \in StorageMap, NEW st \in LoweredStorages(m), Keys(m) # {}
    PROVE  Keys(st) # {}
<1> DEFINE keys == {ToLower[k] : k \in Keys(m)}
<1>1. PICK p \in {q \in [keys -> Keys(m)] : \A l \in keys : ToLower[q[l]] = l} :
          st = [l \in ResourceNames |-> IF l \in keys THEN m[p[l]] ELSE NoBackend]
  BY Zenon DEF LoweredStorages
<1>2. PICK k \in Keys(m) : TRUE
  OBVIOUS
<1>3. ToLower[k] \in keys /\ ToLower[k] \in ResourceNames
  BY DEF Keys
<1>4. p[ToLower[k]] \in Keys(m)
  BY <1>1, <1>3
<1>5. st[ToLower[k]] = m[p[ToLower[k]]]
  BY <1>1, <1>3
<1>6. st[ToLower[k]] # NoBackend
  BY <1>4, <1>5 DEF Keys
<1>. QED
  BY <1>3, <1>6 DEF Keys

(* In a well-formed batch a route's group names the one group it came from.*)
LEMMA GroupUnique ==
    ASSUME WellFormedBatches, infos \in Batches, infos \in Seq(GroupInfo),
           NEW k \in 1..Len(infos), NEW i \in 1..Len(infos[k].prioritized),
           NEW j \in 1..Len(infos), infos[j].prioritized # <<>>,
           infos[k].prioritized[i].group = GroupOf(infos[j])
    PROVE  k = j
<1>1. WellFormedBatch(infos)
  BY DEF WellFormedBatches
<1>2. /\ infos[k].prioritized \in Seq(GV) /\ infos[j].prioritized \in Seq(GV)
      /\ DOMAIN infos = 1..Len(infos)
      /\ DOMAIN infos[k].prioritized = 1..Len(infos[k].prioritized)
  <2>1. infos[k] \in GroupInfo /\ infos[j] \in GroupInfo
    OBVIOUS
  <2>2. infos[k].prioritized \in Seq(GV) /\ infos[j].prioritized \in Seq(GV)
    BY <2>1 DEF GroupInfo
  <2>. QED
    BY <2>2
<1>3. infos[k].prioritized[i].group = GroupOf(infos[k]) /\ infos[k].prioritized # <<>>
  BY <1>1, <1>2 DEF WellFormedBatch
<1>4. \A a, c \in DOMAIN infos :
          /\ infos[a].prioritized # <<>>
          /\ infos[c].prioritized # <<>>
          /\ GroupOf(infos[a]) = GroupOf(infos[c])
          => a = c
  BY <1>1 DEF WellFormedBatch
<1>5. k \in DOMAIN infos /\ j \in DOMAIN infos
  BY <1>2
<1>6. GroupOf(infos[k]) = GroupOf(infos[j])
  BY <1>3
<1>. QED
  BY <1>3, <1>4, <1>5, <1>6, Zenon

(* The facts of DInv every step uses.                                      *)
LEMMA DInvFacts ==
    ASSUME DInv
    PROVE  /\ infos \in Seq(GroupInfo)
           /\ infos \in Batches
           /\ gi \in 1..Len(infos) + 1
           /\ vi \in Nat \ {0}
           /\ Len(discovery) = gi - 1
           /\ discovery \in Seq(APIGroup)
BY DEF DInv, IInv, InstallerTypeOK, Progress

(* DInv without IInv: what the steps below re-establish.                   *)
DRest == Progress /\ RoutesFromServed /\ ServedInstalled /\ StorageRegistered

LEMMA ValidateDRest ==
    ASSUME DInv, Validate
    PROVE  DRest'
<1>1. /\ ipc = "validate"
      /\ routes = {} /\ resourceInfos = {} /\ storageVersions = {} /\ gi = 1
      /\ Len(discovery) = 0
  BY DInvFacts DEF Validate, DInv, Progress
<1>2. /\ UNCHANGED <<infos, resourceInfos, routes, discovery, storageVersions, gates>>
      /\ ipc' \in {"resources", "failed", "panic"}
      /\ gi' = 1
      /\ ipc' = "resources" => vi' = 1
  BY <1>1 DEF Validate
<1>3. Progress'
  BY <1>1, <1>2, DInvFacts DEF Progress
<1>. QED
  BY <1>1, <1>2, <1>3 DEF DRest, RoutesFromServed, ServedInstalled, StorageRegistered

LEMMA SkipVersionDRest ==
    ASSUME DInv, SkipVersion
    PROVE  DRest'
<1>1. /\ ipc = "resources" /\ gi \in 1..Len(infos) /\ vi \in 1..Len(infos[gi].prioritized)
      /\ ~Served(gi, vi)
      /\ vi' = vi + 1
      /\ UNCHANGED <<infos, ipc, gi, resourceInfos, routes, discovery, storageVersions, gates>>
  BY DInvFacts DEF SkipVersion, Served
<1>2. ServedInstalled'
  <2>1. ASSUME NEW i \in 1..Len(infos[gi].prioritized), i < vi + 1, Served(gi, i)
        PROVE  Installed(gi, i)'
    <3>1. i < vi
      BY <1>1, <2>1, DInvFacts
    <3>. QED
      BY <1>1, <2>1, <3>1 DEF DInv, ServedInstalled, Installed
  <2>. QED
    BY <1>1, <2>1 DEF DInv, ServedInstalled, Served, Installed
<1>. QED
  BY <1>1, <1>2 DEF DInv, DRest, Progress, RoutesFromServed, StorageRegistered, Served

LEMMA InstallRESTDRest ==
    ASSUME DInv, WellFormedBatches, InstallREST
    PROVE  DRest'
<1> USE ConstantsAssumption
<1> DEFINE info == infos[gi]
           gv == info.prioritized[vi]
           m == StorageOf(info, gv.version)
           New(st, bad) ==
              {[group |-> gv.group, version |-> gv.version,
                resource |-> r, backend |-> st[r]] : r \in Keys(st) \ bad}
<1>0. /\ infos \in Seq(GroupInfo)
      /\ infos \in Batches
      /\ gi \in 1..Len(infos) + 1
      /\ vi \in Nat \ {0}
  BY DInvFacts
<1>1. /\ ipc = "resources" /\ gi \in 1..Len(infos) /\ vi \in 1..Len(info.prioritized)
      /\ Served(gi, vi)
      /\ UNCHANGED <<infos, gi, discovery, storageVersions, gates>>
  BY <1>0 DEF InstallREST, Served, HasResources
<1>2. info \in GroupInfo /\ info.prioritized \in Seq(GV) /\ gv \in GV
  <2>1. info \in GroupInfo
    BY <1>0, <1>1
  <2>2. info.prioritized \in Seq(GV)
    BY <2>1 DEF GroupInfo
  <2>. QED
    BY <1>1, <2>1, <2>2
<1>3. m \in StorageMap /\ Keys(m) # {}
  <2>1. gv.version \in VersionStrings
    BY <1>2 DEF GV
  <2>2. m \in StorageMap
    BY <1>2, <2>1, StorageOfType
  <2>3. Keys(m) # {}
    BY <1>1 DEF Served, HasResources
  <2>. QED
    BY <2>2, <2>3
<1>4. PICK st \in LoweredStorages(m) :
        \E bad \in FailureSets(Keys(st)) :
          /\ routes' = routes \cup New(st, bad)
          /\ IF bad = {}
               THEN /\ resourceInfos' = resourceInfos \cup
                         {[group |-> gv.group, version |-> gv.version,
                           resource |-> r] : r \in Keys(st)}
                    /\ vi' = vi + 1
                    /\ UNCHANGED ipc
               ELSE /\ ipc' = "failed"
                    /\ UNCHANGED <<resourceInfos, vi>>
  BY DEF InstallREST
<1>5. PICK bad \in FailureSets(Keys(st)) :
          /\ routes' = routes \cup New(st, bad)
          /\ IF bad = {}
               THEN /\ resourceInfos' = resourceInfos \cup
                         {[group |-> gv.group, version |-> gv.version,
                           resource |-> r] : r \in Keys(st)}
                    /\ vi' = vi + 1
                    /\ UNCHANGED ipc
               ELSE /\ ipc' = "failed"
                    /\ UNCHANGED <<resourceInfos, vi>>
  BY <1>4
<1>6. /\ ipc' \in {"resources", "failed"}
      /\ ipc' = "resources" => bad = {}
      /\ resourceInfos \subseteq resourceInfos'
  BY <1>1, <1>5
(* the published routes carry the current group and version *)
<1>7. \A r \in New(st, bad) :
         /\ r.group = gv.group /\ r.version = gv.version
         /\ r.resource \in Keys(st)
  OBVIOUS
<1>8. gv.group = GroupOf(info) /\ info.prioritized # <<>>
  <2>1. WellFormedBatch(infos) /\ DOMAIN infos = 1..Len(infos)
    BY <1>0 DEF WellFormedBatches
  <2>2. DOMAIN info.prioritized = 1..Len(info.prioritized)
    BY <1>2
  <2>. QED
    BY <1>1, <2>1, <2>2 DEF WellFormedBatch
<1>9. Progress'
  BY <1>1, <1>6 DEF DInv, Progress
<1>10. RoutesFromServed'
  <2>1. ASSUME NEW r \in New(st, bad)
        PROVE  \E k \in 1..Len(infos) : \E i \in 1..Len(infos[k].prioritized) :
                  /\ k <= gi
                  /\ r.group = infos[k].prioritized[i].group
                  /\ r.version = infos[k].prioritized[i].version
                  /\ Served(k, i)
    BY <1>1, <1>7, <2>1
  <2>. QED
    BY <1>1, <1>5, <2>1 DEF DInv, RoutesFromServed, Served
<1>11. ServedInstalled'
  <2>1. \A k \in 1..Len(infos) : \A i \in 1..Len(infos[k].prioritized) :
           Installed(k, i) => Installed(k, i)'
    BY <1>1, <1>5 DEF Installed
  <2>2. ASSUME NEW j, j = vi, bad = {} PROVE Installed(gi, j)'
    <3>1. Keys(st) # {}
      BY <1>3, LoweredKeysNonEmpty
    <3>2. PICK l \in Keys(st) : TRUE
      BY <3>1
    <3>3. [group |-> gv.group, version |-> gv.version,
           resource |-> l, backend |-> st[l]] \in routes'
      BY <1>5, <2>2, <3>2
    <3>. QED
      BY <1>1, <2>2, <3>3 DEF Installed
  <2>3. ASSUME ipc' \in {"resources", "discovery"}, gi' <= Len(infos)',
               NEW i \in 1..Len(infos[gi].prioritized), i < vi', Served(gi, i)
        PROVE  Installed(gi, i)'
    <3>0. ipc' = "resources"
      BY <1>6, <2>3
    <3>1. bad = {} /\ vi' = vi + 1
      <4>1. bad = {}
        BY <1>6, <3>0
      <4>. QED
        BY <1>5, <4>1
    <3>2. CASE i < vi
      BY <1>1, <2>1, <2>3, <3>2 DEF DInv, ServedInstalled
    <3>3. CASE i = vi
      BY <1>1, <2>2, <3>1, <3>3
    <3>4. i < vi \/ i = vi
      BY <1>0, <2>3, <3>1
    <3>. QED
      BY <3>2, <3>3, <3>4
  <2>4. \A k \in 1..gi - 1 : \A i \in 1..Len(infos[k].prioritized) :
           Served(k, i) => Installed(k, i)'
    BY <1>1, <2>1 DEF DInv, ServedInstalled
  <2>. QED
    BY <1>1, <2>3, <2>4 DEF ServedInstalled, Served
<1>12. StorageRegistered'
  <2> SUFFICES ASSUME FeatureGates \subseteq gates',
                      NEW r \in routes', NEW k \in 1..Len(infos'),
                      infos'[k].prioritized # <<>>, r.group = GroupOf(infos'[k])
               PROVE  /\ k < gi' => RInfo(r) \in storageVersions'
                      /\ k = gi' /\ ipc' \in {"resources", "discovery"} =>
                            RInfo(r) \in resourceInfos' \cup storageVersions'
    BY DEF StorageRegistered
  <2>1. CASE r \in routes
    <3>1. FeatureGates \subseteq gates /\ infos' = infos /\ gi' = gi
      BY <1>1
    <3>2. /\ k < gi => RInfo(r) \in storageVersions
          /\ k = gi => RInfo(r) \in resourceInfos \cup storageVersions
      BY <1>1, <2>1, <3>1 DEF DInv, StorageRegistered
    <3>. QED
      BY <1>1, <1>6, <3>1, <3>2
  <2>2. CASE r \in New(st, bad)
    <3>0. /\ k \in 1..Len(infos) /\ infos[k].prioritized # <<>>
          /\ infos[gi].prioritized[vi].group = GroupOf(infos[k])
      BY <1>1, <1>7, <2>2
    <3>1. k = gi
      BY <1>1, <3>0, <1>0, GroupUnique
    <3>2. ipc' \in {"resources", "discovery"} => RInfo(r) \in resourceInfos'
      BY <1>5, <1>6, <1>7, <2>2 DEF RInfo
    <3>. QED
      BY <1>1, <3>1, <3>2
  <2>. QED
    BY <1>5, <2>1, <2>2
<1>. QED
  BY <1>9, <1>10, <1>11, <1>12 DEF DRest

LEMMA RecordStorageVersionsDRest ==
    ASSUME DInv, RecordStorageVersions
    PROVE  DRest'
<1>1. /\ ipc = "resources" /\ gi <= Len(infos) /\ vi > Len(infos[gi].prioritized)
      /\ ipc' = "discovery" /\ resourceInfos' = {}
      /\ storageVersions \subseteq storageVersions'
      /\ FeatureGates \subseteq gates =>
            resourceInfos \cup storageVersions \subseteq storageVersions'
      /\ UNCHANGED <<infos, gi, vi, routes, discovery, gates>>
  BY DEF RecordStorageVersions
<1>2. Progress'
  BY <1>1 DEF DInv, Progress
<1>3. ServedInstalled'
  BY <1>1 DEF DInv, ServedInstalled, Served, Installed
<1>4. StorageRegistered'
  <2> SUFFICES ASSUME FeatureGates \subseteq gates',
                      NEW r \in routes', NEW k \in 1..Len(infos'),
                      infos'[k].prioritized # <<>>, r.group = GroupOf(infos'[k])
               PROVE  /\ k < gi' => RInfo(r) \in storageVersions'
                      /\ k = gi' /\ ipc' \in {"resources", "discovery"} =>
                            RInfo(r) \in resourceInfos' \cup storageVersions'
    BY DEF StorageRegistered
  <2>1. /\ k < gi => RInfo(r) \in storageVersions
        /\ k = gi => RInfo(r) \in resourceInfos \cup storageVersions
    BY <1>1 DEF DInv, StorageRegistered
  <2>. QED
    BY <1>1, <2>1
<1>. QED
  BY <1>1, <1>2, <1>3, <1>4 DEF DInv, DRest, RoutesFromServed, Served

LEMMA AddDiscoveryDRest ==
    ASSUME DInv, WellFormedBatches, AddDiscovery
    PROVE  DRest'
<1>0. /\ infos \in Seq(GroupInfo)
      /\ infos \in Batches
      /\ Len(discovery) = gi - 1
      /\ discovery \in Seq(APIGroup)
  BY DInvFacts
<1>1. /\ ipc = "discovery" /\ gi \in 1..Len(infos)
      /\ resourceInfos = {} /\ vi > Len(infos[gi].prioritized)
      /\ discovery' = Append(discovery, Entry(infos[gi]))
      /\ ipc' = "resources" /\ gi' = gi + 1 /\ vi' = 1
      /\ UNCHANGED <<infos, resourceInfos, routes, storageVersions, gates>>
  BY DEF AddDiscovery, DInv, IInv, Progress, Entry, GroupOf
<1>2. Progress'
  <2>1. Len(discovery') = gi /\ discovery'[gi] = Entry(infos[gi])
    BY <1>0, <1>1
  <2>2. \A k \in 1..gi - 1 : discovery'[k] = discovery[k]
    BY <1>0, <1>1
  <2>3. \A k \in 1..Len(discovery') : discovery'[k] = Entry(infos'[k])
    BY <1>0, <1>1, <2>1, <2>2 DEF DInv, Progress
  <2>. QED
    BY <1>0, <1>1, <2>1, <2>3 DEF Progress
<1>3. RoutesFromServed'
  BY <1>1 DEF DInv, RoutesFromServed, Served
<1>4. ServedInstalled'
  <2>1. \A k \in 1..gi : \A i \in 1..Len(infos[k].prioritized) :
           Served(k, i) => Installed(k, i)
    <3>1. \A k \in 1..gi - 1 : \A i \in 1..Len(infos[k].prioritized) :
             Served(k, i) => Installed(k, i)
      BY DEF DInv, ServedInstalled
    <3>2. \A i \in 1..Len(infos[gi].prioritized) :
             i < vi /\ Served(gi, i) => Installed(gi, i)
      BY <1>1 DEF DInv, ServedInstalled
    <3>3. \A i \in 1..Len(infos[gi].prioritized) : i < vi
      BY <1>1, DInvFacts
    <3>. QED
      BY <1>1, <3>1, <3>2, <3>3
  <2>. QED
    BY <1>1, <2>1 DEF ServedInstalled, Served, Installed
<1>5. StorageRegistered'
  <2> SUFFICES ASSUME FeatureGates \subseteq gates',
                      NEW r \in routes', NEW k \in 1..Len(infos'),
                      infos'[k].prioritized # <<>>, r.group = GroupOf(infos'[k])
               PROVE  /\ k < gi' => RInfo(r) \in storageVersions'
                      /\ k = gi' /\ ipc' \in {"resources", "discovery"} =>
                            RInfo(r) \in resourceInfos' \cup storageVersions'
    BY DEF StorageRegistered
  <2>1. /\ k < gi => RInfo(r) \in storageVersions
        /\ k = gi => RInfo(r) \in resourceInfos \cup storageVersions
    BY <1>1 DEF DInv, StorageRegistered
  <2>2. k <= gi
    <3>1. PICK k2 \in 1..Len(infos) : \E i \in 1..Len(infos[k2].prioritized) :
              /\ k2 <= gi
              /\ r.group = infos[k2].prioritized[i].group
      BY <1>1 DEF DInv, RoutesFromServed
    <3>2. PICK i \in 1..Len(infos[k2].prioritized) :
              /\ k2 <= gi
              /\ r.group = infos[k2].prioritized[i].group
      BY <3>1
    <3>3. k2 = k
      BY <1>0, <1>1, <3>2, GroupUnique
    <3>. QED
      BY <3>2, <3>3
  <2>. QED
    BY <1>0, <1>1, <2>1, <2>2
<1>. QED
  BY <1>2, <1>3, <1>4, <1>5 DEF DRest

LEMMA FinishDRest ==
    ASSUME DInv, Finish
    PROVE  DRest'
<1>1. /\ ipc = "resources" /\ gi > Len(infos) /\ ipc' = "done"
      /\ UNCHANGED <<infos, gi, vi, resourceInfos, routes, discovery, storageVersions, gates>>
  BY DEF Finish
<1>. QED
  BY <1>1 DEF DInv, DRest, Progress, RoutesFromServed, ServedInstalled,
              StorageRegistered, Served, Installed

LEMMA InitDInv == InstallerInit => DInv
<1> SUFFICES ASSUME InstallerInit PROVE DInv
  OBVIOUS
<1>1. IInv
  BY InitIInv
<1>. QED
  BY <1>1 DEF InstallerInit, DInv, Progress, RoutesFromServed, ServedInstalled,
              StorageRegistered

LEMMA NextDInv ==
    ASSUME WellFormedBatches
    PROVE  DInv /\ [InstallerNext]_installerVars => DInv'
<1> SUFFICES ASSUME DInv, [InstallerNext]_installerVars PROVE DInv'
  OBVIOUS
<1>1. IInv'
  BY NextIInv DEF DInv
<1>2. DRest'
  <2>1. CASE Validate
    BY <2>1, ValidateDRest
  <2>2. CASE SkipVersion
    BY <2>2, SkipVersionDRest
  <2>3. CASE InstallREST
    BY <2>3, InstallRESTDRest
  <2>4. CASE RecordStorageVersions
    BY <2>4, RecordStorageVersionsDRest
  <2>5. CASE AddDiscovery
    BY <2>5, AddDiscoveryDRest
  <2>6. CASE Finish
    BY <2>6, FinishDRest
  <2>7. CASE UNCHANGED installerVars
    BY <2>7 DEF installerVars, DInv, DRest, Progress, RoutesFromServed,
                ServedInstalled, StorageRegistered, Served, Installed
  <2>. QED
    BY <2>1, <2>2, <2>3, <2>4, <2>5, <2>6, <2>7 DEF InstallerNext
<1>. QED
  BY <1>1, <1>2 DEF DInv, DRest

(* A group entry in discovery belongs to a valid group before gi.          *)
LEMMA DiscoveredGroup ==
    ASSUME DInv, NEW k \in 1..Len(discovery)
    PROVE  /\ k \in 1..Len(infos) /\ k < gi
           /\ infos[k].prioritized # <<>>
           /\ discovery[k].name = GroupOf(infos[k])
           /\ discovery[k].versions = AdvertisedVersions(infos[k])
<1>1. /\ infos \in Seq(GroupInfo)
      /\ gi \in 1..Len(infos) + 1
      /\ Len(discovery) = gi - 1
  BY DInvFacts
<1>2. k \in 1..Len(infos) /\ k < gi
  BY <1>1
<1>3. ~BatchInvalid
  <2>1. discovery # <<>>
    BY <1>1
  <2>. QED
    BY <2>1 DEF DInv, IInv
<1>4. infos[k].prioritized # <<>>
  BY <1>2, <1>3 DEF BatchInvalid, Invalid, Panics
<1>5. discovery[k] = Entry(infos[k])
  BY DEF DInv, Progress
<1>. QED
  BY <1>2, <1>4, <1>5 DEF Entry

LEMMA VersionGroup ==
    ASSUME WellFormedBatches, infos \in Batches, infos \in Seq(GroupInfo),
           NEW k \in 1..Len(infos), NEW i \in 1..Len(infos[k].prioritized)
    PROVE  infos[k].prioritized[i].group = GroupOf(infos[k])
<1>1. WellFormedBatch(infos)
  BY DEF WellFormedBatches
<1>2. infos[k] \in GroupInfo
  OBVIOUS
<1>3. infos[k].prioritized \in Seq(GV)
  BY <1>2 DEF GroupInfo
<1>. QED
  BY <1>1, <1>3 DEF WellFormedBatch

LEMMA DInvDiscoveryMatchesRoutes ==
    ASSUME DInv, WellFormedBatches
    PROVE  DiscoveryMatchesRoutes
<1>0. infos \in Seq(GroupInfo) /\ infos \in Batches
  BY DInvFacts
<1> SUFFICES ASSUME NEW k \in 1..Len(discovery), NEW v \in VersionStrings
             PROVE  (\E av \in discovery[k].versions : av[2] = v)
                      <=> (\E r \in routes : r.group = discovery[k].name /\ r.version = v)
  BY DEF DiscoveryMatchesRoutes
<1>1. /\ k \in 1..Len(infos) /\ k < gi
      /\ infos[k].prioritized # <<>>
      /\ discovery[k].name = GroupOf(infos[k])
      /\ discovery[k].versions = AdvertisedVersions(infos[k])
  BY DiscoveredGroup
<1>2. ASSUME NEW av \in discovery[k].versions, av[2] = v
      PROVE  \E r \in routes : r.group = discovery[k].name /\ r.version = v
  <2>1. PICK i \in 1..Len(infos[k].prioritized) :
            /\ Served(k, i)
            /\ av = <<i, infos[k].prioritized[i].version>>
    BY <1>1, <2>1 DEF AdvertisedVersions, Served
  <2>2. Installed(k, i)
    <3>1. k \in 1..gi - 1
      BY <1>1, DInvFacts
    <3>. QED
      BY <2>1, <3>1 DEF DInv, ServedInstalled
  <2>3. infos[k].prioritized[i].group = GroupOf(infos[k])
    BY <1>0, <1>1, VersionGroup
  <2>. QED
    BY <1>1, <1>2, <2>1, <2>2, <2>3 DEF Installed
<1>3. ASSUME NEW r \in routes, r.group = discovery[k].name, r.version = v
      PROVE  \E av \in discovery[k].versions : av[2] = v
  <2>1. PICK k2 \in 1..Len(infos) : \E i \in 1..Len(infos[k2].prioritized) :
            /\ r.group = infos[k2].prioritized[i].group
            /\ r.version = infos[k2].prioritized[i].version
            /\ Served(k2, i)
    BY DEF DInv, RoutesFromServed
  <2>2. PICK i \in 1..Len(infos[k2].prioritized) :
            /\ r.group = infos[k2].prioritized[i].group
            /\ r.version = infos[k2].prioritized[i].version
            /\ Served(k2, i)
    BY <2>1
  <2>3. k2 = k
    <3>1. infos[k2].prioritized[i].group = GroupOf(infos[k])
      BY <1>1, <1>3, <2>2
    <3>. QED
      BY <1>0, <1>1, <3>1, GroupUnique
  <2>4. <<i, infos[k].prioritized[i].version>> \in AdvertisedVersions(infos[k])
    BY <2>2, <2>3 DEF AdvertisedVersions, Served
  <2>. QED
    BY <1>1, <1>3, <2>2, <2>3, <2>4
<1>. QED
  BY <1>2, <1>3

LEMMA DInvStorageVersionsComplete ==
    ASSUME DInv
    PROVE  StorageVersionsComplete
<1> SUFFICES ASSUME FeatureGates \subseteq gates,
                    NEW k \in 1..Len(discovery), NEW r \in routes,
                    r.group = discovery[k].name
             PROVE  [group |-> r.group, version |-> r.version, resource |-> r.resource]
                       \in storageVersions
  BY DEF StorageVersionsComplete
<1>1. /\ k \in 1..Len(infos) /\ k < gi
      /\ infos[k].prioritized # <<>>
      /\ discovery[k].name = GroupOf(infos[k])
  BY DiscoveredGroup
<1>. QED
  BY <1>1 DEF DInv, StorageRegistered, RInfo

-----------------------------------------------------------------------------
(* The theorems                                                            *)

(* The installer's state keeps its types in every reachable state.         *)
THEOREM InstallerTypeCorrect == InstallerSpec => []InstallerTypeOK
<1>1. IInv => InstallerTypeOK
  BY DEF IInv
<1>. QED
  BY InitIInv, NextIInv, <1>1, PTL DEF InstallerSpec

(* Validation is fail-fast (installAPIGroups checks every group before it  *)
(* installs any): a batch with a malformed group publishes no route, no    *)
(* discovery entry and no storage version.                                 *)
THEOREM InstallerValidationFailFast == InstallerSpec => []ValidationFailFast
<1>1. IInv => ValidationFailFast
  BY DEF IInv, ValidationFailFast
<1>. QED
  BY InitIInv, NextIInv, <1>1, PTL DEF InstallerSpec


(* For every batch built the way installAPIGroups' callers build it (one   *)
(* group per APIGroupInfo, distinct groups), a group's discovery entry     *)
(* advertises exactly the versions under which InstallREST published its   *)
(* routes, even when a later InstallREST fails part-way.                   *)
THEOREM InstallerDiscoveryMatchesRoutes ==
    WellFormedBatches => (InstallerSpec => []DiscoveryMatchesRoutes)
<1> SUFFICES ASSUME WellFormedBatches
             PROVE  InstallerSpec => []DiscoveryMatchesRoutes
  OBVIOUS
<1>1. DInv /\ [InstallerNext]_installerVars => DInv'
  BY NextDInv
<1>2. DInv => DiscoveryMatchesRoutes
  BY DInvDiscoveryMatchesRoutes
<1>. QED
  BY InitDInv, <1>1, <1>2, PTL DEF InstallerSpec

(* For the same batches, with both storage-version gates on, every route   *)
(* of a group that reached discovery is registered with the                *)
(* StorageVersionManager, whichever of its versions published it.         *)
THEOREM InstallerStorageVersionsComplete ==
    WellFormedBatches => (InstallerSpec => []StorageVersionsComplete)
<1> SUFFICES ASSUME WellFormedBatches
             PROVE  InstallerSpec => []StorageVersionsComplete
  OBVIOUS
<1>1. DInv /\ [InstallerNext]_installerVars => DInv'
  BY NextDInv
<1>2. DInv => StorageVersionsComplete
  BY DInvStorageVersionsComplete
<1>. QED
  BY InitDInv, <1>1, <1>2, PTL DEF InstallerSpec


-----------------------------------------------------------------------------
(* RoutesDiscoverable                                                      *)

(* How a call ended: it returns nil only after its last group (line 210),  *)
(* and it panics only in the validation loop, before any route exists.     *)
Ends ==
    /\ ipc = "done" => gi > Len(infos)
    /\ ipc = "panic" => routes = {}

LEMMA InitEnds == InstallerInit => Ends
BY DEF InstallerInit, Ends

LEMMA NextEnds == DInv /\ Ends /\ [InstallerNext]_installerVars => Ends'
<1> SUFFICES ASSUME DInv, Ends, [InstallerNext]_installerVars PROVE Ends'
  OBVIOUS
<1>1. CASE Validate
  <2>1. routes = {} /\ UNCHANGED routes
    BY <1>1 DEF Validate, DInv, Progress
  <2>2. ipc' # "done"
    BY <1>1 DEF Validate
  <2>. QED
    BY <2>1, <2>2 DEF Ends
<1>2. CASE SkipVersion \/ InstallREST \/ RecordStorageVersions \/ AddDiscovery
  <2>1. ipc' \in {"resources", "discovery", "failed"}
    BY <1>2 DEF SkipVersion, InstallREST, RecordStorageVersions, AddDiscovery
  <2>. QED
    BY <2>1 DEF Ends
<1>3. CASE Finish
  BY <1>3 DEF Finish, Ends
<1>4. CASE UNCHANGED installerVars
  BY <1>4 DEF installerVars, Ends
<1>. QED
  BY <1>1, <1>2, <1>3, <1>4 DEF InstallerNext

LEMMA DInvRoutesDiscoverable ==
    ASSUME DInv, Ends, WellFormedBatches
    PROVE  RoutesDiscoverable
<1>0. /\ infos \in Seq(GroupInfo)
      /\ infos \in Batches
      /\ gi \in 1..Len(infos) + 1
      /\ Len(discovery) = gi - 1
  BY DInvFacts
<1> SUFFICES ASSUME NEW r \in routes
             PROVE  \/ \E k \in 1..Len(discovery) :
                          /\ discovery[k].name = r.group
                          /\ \E av \in discovery[k].versions : av[2] = r.version
                    \/ /\ ipc \in {"resources", "discovery", "failed"}
                       /\ gi <= Len(infos)
                       /\ \E j \in 1..Len(infos[gi].prioritized) :
                             infos[gi].prioritized[j] = [group |-> r.group, version |-> r.version]
  BY DEF RoutesDiscoverable
<1>1. PICK k \in 1..Len(infos) :
        \E i \in 1..Len(infos[k].prioritized) :
          /\ k <= gi
          /\ r.group = infos[k].prioritized[i].group
          /\ r.version = infos[k].prioritized[i].version
          /\ Served(k, i)
  BY DEF DInv, RoutesFromServed
<1>2. PICK i \in 1..Len(infos[k].prioritized) :
          /\ k <= gi
          /\ r.group = infos[k].prioritized[i].group
          /\ r.version = infos[k].prioritized[i].version
          /\ Served(k, i)
  BY <1>1
<1>3. CASE k < gi
  <2>1. k \in 1..Len(discovery) /\ discovery[k] = Entry(infos[k])
    BY <1>0, <1>3 DEF DInv, Progress
  <2>2. r.group = GroupOf(infos[k])
    BY <1>0, <1>2, VersionGroup
  <2>3. <<i, infos[k].prioritized[i].version>> \in AdvertisedVersions(infos[k])
    BY <1>2 DEF Served, AdvertisedVersions
  <2>. QED
    BY <1>2, <2>1, <2>2, <2>3 DEF Entry
<1>4. CASE k = gi
  <2>1. gi <= Len(infos)
    BY <1>4
  <2>2. ipc \in PC
    BY DEF DInv, IInv, InstallerTypeOK
  <2>3. ipc # "validate"
    BY DEF DInv, Progress
  <2>4. ipc # "done" /\ ipc # "panic"
    BY <1>0, <2>1 DEF Ends
  <2>5. infos[gi].prioritized[i] = [group |-> r.group, version |-> r.version]
    <3>1. infos[gi].prioritized \in Seq(GV)
      <4>1. infos[gi] \in GroupInfo
        BY <1>0, <2>1
      <4>. QED
        BY <4>1 DEF GroupInfo
    <3>2. infos[gi].prioritized[i] \in GV
      BY <1>2, <1>4, <3>1
    <3>. QED
      BY <1>2, <1>4, <3>2 DEF GV
  <2>6. ipc \in {"resources", "discovery", "failed"}
    BY <2>2, <2>3, <2>4 DEF PC
  <2>7. i \in 1..Len(infos[gi].prioritized)
    BY <1>4
  <2>. QED
    BY <2>1, <2>5, <2>6, <2>7
<1>5. k < gi \/ k = gi
  BY <1>0, <1>2
<1>. QED
  BY <1>3, <1>4, <1>5

(* For the same batches, a route missing from discovery belongs to the     *)
(* group being installed, or to the group whose InstallREST failed and     *)
(* left its routes in place; so when installAPIGroups returns nil, every   *)
(* route it published is advertised by its group's discovery entry.       *)
THEOREM InstallerRoutesDiscoverable ==
    WellFormedBatches => (InstallerSpec => []RoutesDiscoverable)
<1> SUFFICES ASSUME WellFormedBatches
             PROVE  InstallerSpec => []RoutesDiscoverable
  OBVIOUS
<1>1. InstallerInit => DInv /\ Ends
  BY InitDInv, InitEnds
<1>2. DInv /\ Ends /\ [InstallerNext]_installerVars => DInv' /\ Ends'
  BY NextDInv, NextEnds
<1>3. DInv /\ Ends => RoutesDiscoverable
  BY DInvRoutesDiscoverable
<1>. QED
  BY <1>1, <1>2, <1>3, PTL DEF InstallerSpec

=============================================================================
