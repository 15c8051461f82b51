----------------------- MODULE ShadowAPIServerProofs -----------------------
(***************************************************************************)
(* Proofs about InstallShadowAPIGroups composed with installAPIGroups, for *)
(* every downstream discovery result: the shadow group never serves a      *)
(* resource of a clusternet group or of itself, and every route it serves  *)
(* has its original kind registered in the Scheme and mirrors, under the  *)
(* lowered name, a preferred-version resource the discovery lists; and    *)
(* the shadow server and its installer keep their types.                   *)
(***************************************************************************)
EXTENDS ShadowAPIServer, TLAPS

(* A template REST that may be served: its group is not excluded and its   *)
(* original GVK is in the Scheme.                                          *)
Good(b, sch) ==
    /\ b.group \notin ClusternetGroups \cup {ShadowGroup}
    /\ [group |-> b.group, version |-> b.version, kind |-> b.kind] \in sch

(* The inductive invariant.  Exclusion and SchemeBeforeRoute speak of the  *)
(* routes only; they hold because every route is backed by an entry of the *)
(* shadow storage map, which the installer receives unchanged, and every   *)
(* entry of that map is good when stored and stays good as the Scheme only *)
(* grows.                                                                  *)
SIInv ==
    /\ \A n \in ResourceNames : shadowStorage[n] # NoBackend => Good(shadowStorage[n], scheme)
    /\ \A r \in routes : Good(r.backend, scheme)
    /\ spc = "install" => infos = <<ShadowGroupInfo>>
    /\ gi \in Nat \ {0}

-----------------------------------------------------------------------------
(* Lemmas                                                                  *)

(* Every value of a storage map built by getAPIGroupVersion is a value of  *)
(* the map it was built from.                                              *)
LEMMA LoweredFrom ==
    ASSUME NEW m, NEW st \in Installer!LoweredStorages(m),
           NEW l \in Installer!Keys(st)
    PROVE  \E k \in Installer!Keys(m) : st[l] = m[k]
<1> DEFINE keys == {ToLower[k] : k \in Installer!Keys(m)}
<1>1. PICK p \in [keys -> Installer!Keys(m)] :
          st = [x \in ResourceNames |-> IF x \in keys THEN m[p[x]] ELSE NoBackend]
  BY DEF Installer!LoweredStorages
<1>2. l \in ResourceNames /\ st[l] # NoBackend
  BY DEF Installer!Keys
<1>3. l \in keys
  BY <1>1, <1>2
<1>. QED
  BY <1>1, <1>2, <1>3

(* A larger Scheme keeps a template good.                                  *)
LEMMA GoodMonotone ==
    ASSUME NEW b, NEW s1, NEW s2, Good(b, s1), s1 \subseteq s2
    PROVE  Good(b, s2)
BY DEF Good

-----------------------------------------------------------------------------
(* The invariant is inductive                                              *)

LEMMA InitSIInv == Init => SIInv
BY DEF Init, SIInv, Installer!EmptyStorage

(* InstallREST only publishes values of the shadow storage map.            *)
LEMMA InstallRESTKeeps ==
    ASSUME SIInv, spc = "install", Installer!InstallREST, UNCHANGED shadowVars
    PROVE  \A r \in routes' : Good(r.backend, scheme')
<1> DEFINE info == infos[gi]
           gv == info.prioritized[vi]
           m == Installer!StorageOf(info, gv.version)
<1>1. gi = 1 /\ info = ShadowGroupInfo
  <2>1. gi \in Nat \ {0} /\ gi <= Len(infos) /\ infos = <<ShadowGroupInfo>>
    BY DEF SIInv, Installer!InstallREST
  <2>. QED
    BY <2>1
<1>2. \A k \in Installer!Keys(m) : Good(m[k], scheme)
  <2>1. CASE gv.version \in VersionNames /\ gv.version = ShadowVersion
    <3>1. m = shadowStorage
      BY <1>1, <2>1 DEF Installer!StorageOf, ShadowGroupInfo
    <3>. QED
      BY <3>1 DEF SIInv, Installer!Keys
  <2>2. CASE ~(gv.version \in VersionNames /\ gv.version = ShadowVersion)
    <3>1. m = Installer!EmptyStorage
      BY <1>1, <2>2 DEF Installer!StorageOf, ShadowGroupInfo
    <3>2. Installer!Keys(m) = {}
      BY <3>1 DEF Installer!Keys, Installer!EmptyStorage
    <3>. QED
      BY <3>2
  <2>. QED
    BY <2>1, <2>2
<1>3. PICK st \in Installer!LoweredStorages(m) :
        \E bad \in Installer!FailureSets(Installer!Keys(st)) :
          routes' = routes \cup
            {[group |-> gv.group, version |-> gv.version,
              resource |-> r, backend |-> st[r]] : r \in Installer!Keys(st) \ bad}
  BY DEF Installer!InstallREST
<1>4. \A l \in Installer!Keys(st) : Good(st[l], scheme)
  BY <1>2, LoweredFrom
<1>5. \A r \in routes' : Good(r.backend, scheme)
  BY <1>3, <1>4 DEF SIInv
<1>. QED
  BY <1>5 DEF Good, shadowVars

LEMMA NextSIInv == SIInv /\ [Next]_vars => SIInv'
<1> SUFFICES ASSUME SIInv, [Next]_vars PROVE SIInv'
  OBVIOUS
<1>1. CASE DiscoverFail
  BY <1>1 DEF DiscoverFail, SIInv, Good, installerVars
<1>2. CASE DiscoverOK
  BY <1>2 DEF DiscoverOK, SIInv, Good, installerVars
<1>3. CASE SkipGroup
  BY <1>3 DEF SkipGroup, SIInv, Good, installerVars
<1>4. CASE MirrorGroup
  <2> DEFINE g == apiGroupResources[sgi]
             res == PreferredResources(g)
  <2>1. /\ ~Excluded(g.name)
        /\ scheme' = scheme \cup
             {[group |-> g.name, version |-> g.preferred, kind |-> r.kind] : r \in res}
        /\ shadowStorage' = StoreAll(shadowStorage, g, res)
        /\ spc' = spc /\ spc = "scan"
        /\ UNCHANGED installerVars
    BY <1>4 DEF MirrorGroup
  <2>2. scheme \subseteq scheme'
    BY <2>1
  <2>3. ASSUME NEW n \in ResourceNames, shadowStorage'[n] # NoBackend
        PROVE  Good(shadowStorage'[n], scheme')
    <3>1. CASE \E r \in res : r.name = n
      <4>1. PICK r0 \in res : shadowStorage'[n] = BackendOf(g, r0)
        BY <2>1, <3>1 DEF StoreAll
      <4>2. g.name \notin ClusternetGroups \cup {ShadowGroup}
        BY <2>1 DEF Excluded
      <4>3. [group |-> g.name, version |-> g.preferred, kind |-> r0.kind] \in scheme'
        BY <2>1, <4>1
      <4>. QED
        BY <4>1, <4>2, <4>3 DEF Good, BackendOf
    <3>2. CASE ~\E r \in res : r.name = n
      <4>1. shadowStorage'[n] = shadowStorage[n]
        BY <2>1, <3>2 DEF StoreAll
      <4>2. Good(shadowStorage[n], scheme)
        BY <2>3, <4>1 DEF SIInv
      <4>. QED
        BY <2>2, <4>1, <4>2, GoodMonotone
    <3>. QED
      BY <3>1, <3>2
  <2>4. \A r \in routes' : Good(r.backend, scheme')
    BY <2>1, <2>2, GoodMonotone DEF SIInv, installerVars
  <2>. QED
    BY <2>1, <2>3, <2>4 DEF SIInv, installerVars
<1>5. CASE InstallShadowGroup
  BY <1>5 DEF InstallShadowGroup, SIInv, Good, ShadowGroupInfo
<1>6. CASE InstallStep
  <2>1. spc = "install" /\ UNCHANGED shadowVars /\ Installer!InstallerNext
    BY <1>6 DEF InstallStep
  <2>2. UNCHANGED <<spc, scheme, shadowStorage>>
    BY <2>1 DEF shadowVars
  <2>3. infos' = infos /\ gi' \in Nat \ {0}
    BY <2>1 DEF SIInv, Installer!InstallerNext, Installer!Validate,
                Installer!SkipVersion, Installer!InstallREST,
                Installer!RecordStorageVersions, Installer!AddDiscovery,
                Installer!Finish
  <2>4. ShadowGroupInfo' = ShadowGroupInfo
    BY <2>2 DEF ShadowGroupInfo
  <2>5. \A n \in ResourceNames : shadowStorage'[n] # NoBackend => Good(shadowStorage'[n], scheme')
    BY <2>2 DEF SIInv, Good
  <2>6. \A r \in routes' : Good(r.backend, scheme')
    <3>1. CASE Installer!InstallREST
      BY <2>1, <3>1, InstallRESTKeeps
    <3>2. CASE ~Installer!InstallREST
      <4>1. routes' = routes
        BY <2>1, <3>2 DEF Installer!InstallerNext, Installer!Validate,
                          Installer!SkipVersion, Installer!RecordStorageVersions,
                          Installer!AddDiscovery, Installer!Finish
      <4>. QED
        BY <2>2, <4>1 DEF SIInv, Good
    <3>. QED
      BY <3>1, <3>2
  <2>. QED
    BY <2>1, <2>2, <2>3, <2>4, <2>5, <2>6 DEF SIInv
<1>7. CASE UNCHANGED vars
  BY <1>7 DEF vars, shadowVars, installerVars, SIInv, Good, ShadowGroupInfo
<1>. QED
  BY <1>1, <1>2, <1>3, <1>4, <1>5, <1>6, <1>7 DEF Next

-----------------------------------------------------------------------------
(* Where the served templates come from                                    *)

(* A template REST mirrors a resource that the downstream discovery lists  *)
(* under its group's preferred version.                                    *)
Mirrors(b) ==
    \E k \in DOMAIN Downstream :
        /\ Downstream[k].name = b.group
        /\ Downstream[k].preferred = b.version
        /\ [name |-> b.name, kind |-> b.kind, namespaced |-> b.namespaced]
              \in Downstream[k].resources[Downstream[k].preferred]

(* A discovery result keeps the downstream groups, their order and their   *)
(* preferred versions, and may only lose resources.                        *)
DiscoveredFrom(agr) ==
    \A j \in DOMAIN agr :
        /\ j \in DOMAIN Downstream
        /\ agr[j].name = Downstream[j].name
        /\ agr[j].preferred = Downstream[j].preferred
        /\ agr[j].resources[agr[j].preferred]
              \subseteq Downstream[j].resources[Downstream[j].preferred]

(* The invariant for MirrorSound: SIInv, the discovery result is drawn     *)
(* from Downstream, every stored template is stored under its own name and *)
(* mirrors a downstream resource, and so does every route's backend.       *)
MIInv ==
    /\ SIInv
    /\ apiGroupResources \in Seq(APIGroupResources)
    /\ DiscoveredFrom(apiGroupResources)
    /\ sgi \in Nat \ {0}
    /\ vi \in Nat \ {0}
    /\ \A n \in ResourceNames :
          shadowStorage[n] # NoBackend =>
              /\ shadowStorage[n].name = n
              /\ Mirrors(shadowStorage[n])
    /\ MirrorSound

(* GetAPIGroupResources returns a sequence of groups drawn from Downstream *)
(* whatever group versions it loses.                                       *)
LEMMA DiscoveryResultFrom ==
    ASSUME NEW lost \in SUBSET DOMAIN Downstream
    PROVE  /\ DiscoveryResult(lost) \in Seq(APIGroupResources)
           /\ DiscoveredFrom(DiscoveryResult(lost))
<1>1. Downstream \in Seq(APIGroupResources)
  BY ShadowAssumption
<1>2. ASSUME NEW k \in DOMAIN Downstream
      PROVE  /\ DiscoveryResult(lost)[k] \in APIGroupResources
             /\ DiscoveryResult(lost)[k].name = Downstream[k].name
             /\ DiscoveryResult(lost)[k].preferred = Downstream[k].preferred
             /\ DiscoveryResult(lost)[k].resources[Downstream[k].preferred]
                  \subseteq Downstream[k].resources[Downstream[k].preferred]
  <2>1. Downstream[k] \in APIGroupResources
    BY <1>1
  <2>2. CASE k \in lost
    <3>1. DiscoveryResult(lost)[k]
            = [Downstream[k] EXCEPT !.resources = [v \in VersionNames |-> {}]]
      BY <2>2 DEF DiscoveryResult
    <3>. QED
      BY <2>1, <3>1 DEF APIGroupResources
  <2>3. CASE k \notin lost
    <3>1. DiscoveryResult(lost)[k] = Downstream[k]
      BY <2>3 DEF DiscoveryResult
    <3>. QED
      BY <2>1, <3>1
  <2>. QED
    BY <2>2, <2>3
<1>3. DiscoveryResult(lost) \in Seq(APIGroupResources)
  <2>1. DOMAIN DiscoveryResult(lost) = 1..Len(Downstream)
    BY <1>1 DEF DiscoveryResult
  <2>. QED
    BY <1>1, <1>2, <2>1 DEF DiscoveryResult
<1>4. DiscoveredFrom(DiscoveryResult(lost))
  BY <1>2 DEF DiscoveredFrom, DiscoveryResult
<1>. QED
  BY <1>3, <1>4

(* Every key of a storage map built by getAPIGroupVersion is the lowered   *)
(* name of a key of the map it was built from, which it holds.             *)
LEMMA LoweredFromKey ==
    ASSUME NEW m, NEW st \in Installer!LoweredStorages(m),
           NEW l \in Installer!Keys(st)
    PROVE  \E k \in Installer!Keys(m) : st[l] = m[k] /\ ToLower[k] = l
<1> DEFINE keys == {ToLower[k] : k \in Installer!Keys(m)}
<1>1. PICK p \in [keys -> Installer!Keys(m)] :
          /\ \A x \in keys : ToLower[p[x]] = x
          /\ st = [x \in ResourceNames |-> IF x \in keys THEN m[p[x]] ELSE NoBackend]
  BY DEF Installer!LoweredStorages
<1>2. l \in ResourceNames /\ st[l] # NoBackend
  BY DEF Installer!Keys
<1>3. l \in keys
  BY <1>1, <1>2
<1>4. p[l] \in Installer!Keys(m) /\ st[l] = m[p[l]] /\ ToLower[p[l]] = l
  BY <1>1, <1>2, <1>3
<1>. QED
  BY <1>4

(* A route that MirrorSound accepts.                                       *)
RouteSound(r) ==
    /\ r.group = ShadowGroup
    /\ r.version = ShadowVersion
    /\ r.resource = ToLower[r.backend.name]
    /\ Mirrors(r.backend)

LEMMA MirrorSoundRoutes == MirrorSound <=> \A r \in routes : RouteSound(r)
BY DEF MirrorSound, MirrorRoute, RouteSound, Mirrors

LEMMA InitMIInv == Init => MIInv
<1> SUFFICES ASSUME Init PROVE MIInv
  OBVIOUS
<1>1. SIInv
  BY InitSIInv
<1>2. apiGroupResources \in Seq(APIGroupResources) /\ DiscoveredFrom(apiGroupResources)
  BY DEF Init, DiscoveredFrom
<1>3. \A n \in ResourceNames : shadowStorage[n] = NoBackend
  BY DEF Init, Installer!EmptyStorage
<1>. QED
  BY <1>1, <1>2, <1>3 DEF Init, MIInv, MirrorSound

(* InstallREST publishes the shadow storage map under the shadow group and *)
(* version, each template under the lowered name it is stored under.      *)
LEMMA InstallRESTMirrors ==
    ASSUME MIInv, spc = "install", Installer!InstallREST, UNCHANGED shadowVars
    PROVE  MirrorSound'
<1> DEFINE info == infos[gi]
           gv == info.prioritized[vi]
           m == Installer!StorageOf(info, gv.version)
<1>1. gi = 1 /\ info = ShadowGroupInfo
  <2>1. gi \in Nat \ {0} /\ gi <= Len(infos) /\ infos = <<ShadowGroupInfo>>
    BY DEF MIInv, SIInv, Installer!InstallREST
  <2>. QED
    BY <2>1
<1>2. vi = 1
  BY <1>1 DEF MIInv, Installer!InstallREST, ShadowGroupInfo
<1>3. gv = [group |-> ShadowGroup, version |-> ShadowVersion] /\ m = shadowStorage
  BY <1>1, <1>2, ShadowAssumption DEF ShadowGroupInfo, Installer!StorageOf
<1>4. PICK st \in Installer!LoweredStorages(m) :
        \E bad \in Installer!FailureSets(Installer!Keys(st)) :
          routes' = routes \cup
            {[group |-> gv.group, version |-> gv.version,
              resource |-> r, backend |-> st[r]] : r \in Installer!Keys(st) \ bad}
  BY DEF Installer!InstallREST
<1>5. ASSUME NEW l \in Installer!Keys(st)
      PROVE  l = ToLower[st[l].name] /\ Mirrors(st[l])
  <2>1. PICK k \in Installer!Keys(m) : st[l] = m[k] /\ ToLower[k] = l
    BY LoweredFromKey
  <2>2. k \in ResourceNames /\ shadowStorage[k] # NoBackend
    BY <1>3, <2>1 DEF Installer!Keys
  <2>3. shadowStorage[k].name = k /\ Mirrors(shadowStorage[k])
    BY <2>2 DEF MIInv
  <2>. QED
    BY <1>3, <2>1, <2>3
<1>6. \A r \in routes' : RouteSound(r)
  <2>1. \A r \in routes : RouteSound(r)
    BY MirrorSoundRoutes DEF MIInv
  <2>. QED
    BY <1>3, <1>4, <1>5, <2>1 DEF RouteSound
<1>. QED
  BY <1>6 DEF MirrorSound, MirrorRoute, RouteSound, Mirrors

(* The templates MirrorGroup stores mirror the group being scanned.        *)
LEMMA MirrorGroupMirrors ==
    ASSUME MIInv, MirrorGroup,
           NEW n \in ResourceNames, shadowStorage'[n] # NoBackend
    PROVE  shadowStorage'[n].name = n /\ Mirrors(shadowStorage'[n])
<1> DEFINE g == apiGroupResources[sgi]
           res == PreferredResources(g)
<1>1. /\ sgi \in 1..Len(apiGroupResources)
      /\ shadowStorage' = StoreAll(shadowStorage, g, res)
  BY DEF MIInv, MirrorGroup
<1>2. CASE \E r \in res : r.name = n
  <2>1. PICK r0 \in res : r0.name = n /\ shadowStorage'[n] = BackendOf(g, r0)
    BY <1>1, <1>2 DEF StoreAll
  <2>2. g \in APIGroupResources
    BY <1>1 DEF MIInv
  <2>3. r0 \in APIResource
    BY <2>1, <2>2 DEF APIGroupResources, PreferredResources
  <2>4. /\ sgi \in DOMAIN Downstream
        /\ Downstream[sgi].name = g.name
        /\ Downstream[sgi].preferred = g.preferred
        /\ res \subseteq Downstream[sgi].resources[Downstream[sgi].preferred]
    BY <1>1 DEF MIInv, DiscoveredFrom, PreferredResources
  <2>5. [name |-> r0.name, kind |-> r0.kind, namespaced |-> r0.namespaced] = r0
    BY <2>3 DEF APIResource
  <2>. QED
    BY <2>1, <2>4, <2>5 DEF Mirrors, BackendOf
<1>3. CASE ~\E r \in res : r.name = n
  <2>1. shadowStorage'[n] = shadowStorage[n]
    BY <1>1, <1>3 DEF StoreAll
  <2>. QED
    BY <2>1 DEF MIInv
<1>. QED
  BY <1>2, <1>3

LEMMA NextMIInv == MIInv /\ [Next]_vars => MIInv'
<1> SUFFICES ASSUME MIInv, [Next]_vars PROVE MIInv'
  OBVIOUS
<1>0. SIInv'
  BY NextSIInv DEF MIInv
<1>1. CASE DiscoverFail
  BY <1>0, <1>1 DEF DiscoverFail, MIInv, MirrorSound, MirrorRoute, Mirrors, installerVars
<1>2. CASE DiscoverOK
  <2>1. PICK lost \in LostChoices : apiGroupResources' = DiscoveryResult(lost)
    BY <1>2 DEF DiscoverOK
  <2>2. lost \in SUBSET DOMAIN Downstream
    BY DEF LostChoices
  <2>3. apiGroupResources' \in Seq(APIGroupResources) /\ DiscoveredFrom(apiGroupResources')
    BY <2>1, <2>2, DiscoveryResultFrom
  <2>. QED
    BY <1>0, <1>2, <2>3 DEF DiscoverOK, MIInv, MirrorSound, MirrorRoute, Mirrors, installerVars
<1>3. CASE SkipGroup
  BY <1>0, <1>3 DEF SkipGroup, MIInv, MirrorSound, MirrorRoute, Mirrors, installerVars
<1>4. CASE MirrorGroup
  <2>1. \A n \in ResourceNames :
          shadowStorage'[n] # NoBackend =>
              shadowStorage'[n].name = n /\ Mirrors(shadowStorage'[n])
    BY <1>4, MirrorGroupMirrors
  <2>2. /\ UNCHANGED <<spc, apiGroupResources, routes, vi>>
        /\ sgi' = sgi + 1
    BY <1>4 DEF MirrorGroup, installerVars
  <2>. QED
    BY <1>0, <2>1, <2>2 DEF MIInv, MirrorSound, MirrorRoute, Mirrors
<1>5. CASE InstallShadowGroup
  BY <1>0, <1>5 DEF InstallShadowGroup, MIInv, MirrorSound, MirrorRoute, Mirrors
<1>6. CASE InstallStep
  <2>1. spc = "install" /\ UNCHANGED shadowVars /\ Installer!InstallerNext
    BY <1>6 DEF InstallStep
  <2>2. vi' \in Nat \ {0}
    BY <2>1 DEF MIInv, Installer!InstallerNext, Installer!Validate,
                Installer!SkipVersion, Installer!InstallREST,
                Installer!RecordStorageVersions, Installer!AddDiscovery,
                Installer!Finish
  <2>3. MirrorSound'
    <3>1. CASE Installer!InstallREST
      BY <2>1, <3>1, InstallRESTMirrors
    <3>2. CASE ~Installer!InstallREST
      <4>1. routes' = routes
        BY <2>1, <3>2 DEF Installer!InstallerNext, Installer!Validate,
                          Installer!SkipVersion, Installer!RecordStorageVersions,
                          Installer!AddDiscovery, Installer!Finish
      <4>. QED
        BY <4>1 DEF MIInv, MirrorSound, MirrorRoute
    <3>. QED
      BY <3>1, <3>2
  <2>. QED
    BY <1>0, <2>1, <2>2, <2>3 DEF MIInv, shadowVars, Mirrors
<1>7. CASE UNCHANGED vars
  BY <1>0, <1>7 DEF vars, shadowVars, installerVars, MIInv, MirrorSound, MirrorRoute, Mirrors
<1>. QED
  BY <1>1, <1>2, <1>3, <1>4, <1>5, <1>6, <1>7 DEF Next

-----------------------------------------------------------------------------
(* Types, through the installer's own invariant                            *)

(* The installer's proofs, for the shadow server's constants.              *)
IP == INSTANCE APIGroupInstallerProofs
    WITH Backends <- Backend, Batches <- {}, NoBackend <- NoBackend

(* The invariant for ShadowTypeOK: the shadow server's variables keep      *)
(* their types, the installer's state satisfies the installer's inductive  *)
(* invariant, and before InstallShadowAPIGroups calls installAPIGroups the *)
(* installer's state is that of a call not yet begun.                      *)
TInv ==
    /\ spc \in {"discover", "scan", "install", "failed"}
    /\ apiGroupResources \in Seq(APIGroupResources)
    /\ sgi \in Nat \ {0}
    /\ scheme \subseteq GVK
    /\ shadowStorage \in Installer!StorageMap
    /\ IP!IInv
    /\ spc # "install" =>
          /\ ipc = "validate" /\ gi = 1 /\ vi = 1 /\ resourceInfos = {}
          /\ routes = {} /\ discovery = <<>> /\ storageVersions = {}

(* The installer the proofs speak of is the one the shadow server runs.    *)
LEMMA SameInstaller ==
    /\ IP!GroupInfo = Installer!GroupInfo
    /\ IP!ResourceInfo = Installer!ResourceInfo
    /\ IP!Route = Installer!Route
    /\ IP!APIGroup = Installer!APIGroup
    /\ IP!FeatureGates = Installer!FeatureGates
    /\ IP!PC = Installer!PC
    /\ IP!StorageMap = Installer!StorageMap
BY DEF IP!GroupInfo, Installer!GroupInfo, IP!ResourceInfo,
       Installer!ResourceInfo, IP!Route, Installer!Route, IP!APIGroup,
       Installer!APIGroup, IP!FeatureGates, Installer!FeatureGates, IP!PC,
       Installer!PC, IP!StorageMap, Installer!StorageMap, IP!GV, Installer!GV,
       IP!GroupStrings, Installer!GroupStrings, IP!VersionStrings,
       Installer!VersionStrings, IP!Empty, Installer!Empty

(* A step of the shadow server's installer is a step of the installer the  *)
(* proofs speak of.                                                        *)
LEMMA SameNext ==
    /\ Installer!InstallerNext => IP!InstallerNext
    /\ IP!installerVars = installerVars
<1>1. Installer!Validate => IP!Validate
  BY Zenon
  DEF IP!Validate, Installer!Validate, IP!Invalid, Installer!Invalid,
      IP!Panics, Installer!Panics, IP!Rejected, Installer!Rejected,
      IP!Empty, Installer!Empty, IP!HasResources,
      Installer!HasResources, IP!StorageOf, Installer!StorageOf,
      IP!Keys, Installer!Keys, IP!EmptyStorage, Installer!EmptyStorage,
      IP!LoweredStorages, Installer!LoweredStorages, IP!FailureSets,
      Installer!FailureSets, IP!AdvertisedVersions,
      Installer!AdvertisedVersions, IP!FeatureGates,
      Installer!FeatureGates
<1>2. Installer!SkipVersion => IP!SkipVersion
  BY Zenon
  DEF IP!SkipVersion, Installer!SkipVersion, IP!Invalid,
      Installer!Invalid, IP!Panics, Installer!Panics, IP!Rejected,
      Installer!Rejected, IP!Empty, Installer!Empty, IP!HasResources,
      Installer!HasResources, IP!StorageOf, Installer!StorageOf,
      IP!Keys, Installer!Keys, IP!EmptyStorage, Installer!EmptyStorage,
      IP!LoweredStorages, Installer!LoweredStorages, IP!FailureSets,
      Installer!FailureSets, IP!AdvertisedVersions,
      Installer!AdvertisedVersions, IP!FeatureGates,
      Installer!FeatureGates
<1>3. Installer!InstallREST => IP!InstallREST
  BY Zenon
  DEF IP!InstallREST, Installer!InstallREST, IP!Invalid,
      Installer!Invalid, IP!Panics, Installer!Panics, IP!Rejected,
      Installer!Rejected, IP!Empty, Installer!Empty, IP!HasResources,
      Installer!HasResources, IP!StorageOf, Installer!StorageOf,
      IP!Keys, Installer!Keys, IP!EmptyStorage, Installer!EmptyStorage,
      IP!LoweredStorages, Installer!LoweredStorages, IP!FailureSets,
      Installer!FailureSets, IP!AdvertisedVersions,
      Installer!AdvertisedVersions, IP!FeatureGates,
      Installer!FeatureGates
<1>4. Installer!RecordStorageVersions => IP!RecordStorageVersions
  BY Zenon
  DEF IP!RecordStorageVersions, Installer!RecordStorageVersions,
      IP!Invalid, Installer!Invalid, IP!Panics, Installer!Panics,
      IP!Rejected, Installer!Rejected, IP!Empty, Installer!Empty,
      IP!HasResources, Installer!HasResources, IP!StorageOf,
      Installer!StorageOf, IP!Keys, Installer!Keys, IP!EmptyStorage,
      Installer!EmptyStorage, IP!LoweredStorages,
      Installer!LoweredStorages, IP!FailureSets, Installer!FailureSets,
      IP!AdvertisedVersions, Installer!AdvertisedVersions,
      IP!FeatureGates, Installer!FeatureGates
<1>5. Installer!AddDiscovery => IP!AddDiscovery
  BY Zenon
  DEF IP!AddDiscovery, Installer!AddDiscovery, IP!Invalid,
      Installer!Invalid, IP!Panics, Installer!Panics, IP!Rejected,
      Installer!Rejected, IP!Empty, Installer!Empty, IP!HasResources,
      Installer!HasResources, IP!StorageOf, Installer!StorageOf,
      IP!Keys, Installer!Keys, IP!EmptyStorage, Installer!EmptyStorage,
      IP!LoweredStorages, Installer!LoweredStorages, IP!FailureSets,
      Installer!FailureSets, IP!AdvertisedVersions,
      Installer!AdvertisedVersions, IP!FeatureGates,
      Installer!FeatureGates
<1>6. Installer!Finish => IP!Finish
  BY Zenon
  DEF IP!Finish, Installer!Finish, IP!Invalid, Installer!Invalid,
      IP!Panics, Installer!Panics, IP!Rejected, Installer!Rejected,
      IP!Empty, Installer!Empty, IP!HasResources,
      Installer!HasResources, IP!StorageOf, Installer!StorageOf,
      IP!Keys, Installer!Keys, IP!EmptyStorage, Installer!EmptyStorage,
      IP!LoweredStorages, Installer!LoweredStorages, IP!FailureSets,
      Installer!FailureSets, IP!AdvertisedVersions,
      Installer!AdvertisedVersions, IP!FeatureGates,
      Installer!FeatureGates
<1>7. IP!installerVars = installerVars
  BY DEF IP!installerVars, installerVars
<1>. QED
  BY <1>1, <1>2, <1>3, <1>4, <1>5, <1>6, <1>7, Zenon
  DEF IP!InstallerNext, Installer!InstallerNext

LEMMA InstallerConstants == IP!ConstantsAssumption
BY InstallerAssumption, SameInstaller, Zenon
   DEF Installer!ConstantsAssumption, IP!Empty, Installer!Empty

LEMMA TInvTypeOK == TInv => ShadowTypeOK
BY SameInstaller DEF TInv, IP!IInv, IP!InstallerTypeOK, ShadowTypeOK,
                     Installer!InstallerTypeOK

LEMMA InitTInv == Init => TInv
<1> SUFFICES ASSUME Init PROVE TInv
  OBVIOUS
<1>1. scheme \subseteq GVK /\ shadowStorage \in Installer!StorageMap
  BY ShadowAssumption DEF Init, Installer!EmptyStorage, Installer!StorageMap
<1>2. IP!InstallerTypeOK
  BY SameInstaller DEF Init, IP!InstallerTypeOK, IP!PC
<1>3. ~IP!BatchInvalid
  BY DEF Init, IP!BatchInvalid
<1>. QED
  BY <1>1, <1>2, <1>3 DEF Init, TInv, IP!IInv

(* Discovery returns a sequence of APIGroupResources.                     *)
LEMMA DiscoveryResultType ==
    ASSUME NEW lost \in SUBSET DOMAIN Downstream
    PROVE  DiscoveryResult(lost) \in Seq(APIGroupResources)
<1>1. Downstream \in Seq(APIGroupResources)
  BY ShadowAssumption
<1>2. ASSUME NEW k \in DOMAIN Downstream
      PROVE  DiscoveryResult(lost)[k] \in APIGroupResources
  <2>1. Downstream[k] \in APIGroupResources
    BY <1>1
  <2>2. CASE k \in lost
    <3>1. DiscoveryResult(lost)[k] =
            [Downstream[k] EXCEPT !.resources = [v \in VersionNames |-> {}]]
      BY <2>2 DEF DiscoveryResult
    <3>2. [v \in VersionNames |-> {}] \in [VersionNames -> SUBSET APIResource]
      OBVIOUS
    <3>. QED
      BY <2>1, <3>1, <3>2, Zenon DEF APIGroupResources
  <2>3. CASE k \notin lost
    BY <2>1, <2>3 DEF DiscoveryResult
  <2>. QED
    BY <2>2, <2>3
<1>. QED
  BY <1>1, <1>2 DEF DiscoveryResult

(* Every template REST the scan stores is a template REST.                 *)
LEMMA StoreAllType ==
    ASSUME NEW m \in Installer!StorageMap, NEW g \in APIGroupResources,
           NEW res \in SUBSET APIResource
    PROVE  StoreAll(m, g, res) \in Installer!StorageMap
<1>1. ASSUME NEW r \in res PROVE BackendOf(g, r) \in Backend
  <2>1. /\ r.name \in ResourceNames /\ r.kind \in Kinds
        /\ r.namespaced \in BOOLEAN
    BY DEF APIResource
  <2>2. g.name \in GroupNames \cup {""} /\ g.preferred \in VersionNames
    BY Zenon DEF APIGroupResources
  <2>. QED
    BY <2>1, <2>2, Zenon DEF BackendOf, Backend
<1>. QED
  BY <1>1 DEF StoreAll, Installer!StorageMap

(* The APIGroupInfo InstallShadowAPIGroups builds is an APIGroupInfo.      *)
LEMMA ShadowGroupInfoType ==
    ASSUME shadowStorage \in Installer!StorageMap
    PROVE  ShadowGroupInfo \in IP!GroupInfo
<1>1. [group |-> ShadowGroup, version |-> ShadowVersion] \in Installer!GV
  BY ShadowAssumption, Zenon DEF Installer!GV, Installer!GroupStrings,
                                 Installer!VersionStrings
<1>2. Installer!EmptyStorage \in Installer!StorageMap
  BY DEF Installer!EmptyStorage, Installer!StorageMap
<1>. QED
  BY <1>1, <1>2, SameInstaller DEF ShadowGroupInfo, Installer!GroupInfo

(* The shadow server's steps before installAPIGroups leave the installer's *)
(* state alone.                                                            *)
LEMMA ScanKeepsInstaller ==
    ASSUME TInv, UNCHANGED installerVars
    PROVE  IP!IInv'
BY DEF TInv, installerVars, IP!IInv, IP!InstallerTypeOK, IP!BatchInvalid

LEMMA NextTInv == TInv /\ [Next]_vars => TInv'
<1> SUFFICES ASSUME TInv, [Next]_vars PROVE TInv'
  OBVIOUS
<1>1. CASE DiscoverFail
  BY <1>1, ScanKeepsInstaller DEF DiscoverFail, TInv, installerVars
<1>2. CASE DiscoverOK
  <2>1. PICK lost \in LostChoices : apiGroupResources' = DiscoveryResult(lost)
    BY <1>2 DEF DiscoverOK
  <2>2. apiGroupResources' \in Seq(APIGroupResources)
    BY <2>1, DiscoveryResultType DEF LostChoices
  <2>. QED
    BY <1>2, <2>2, ScanKeepsInstaller DEF DiscoverOK, TInv, installerVars
<1>3. CASE SkipGroup
  BY <1>3, ScanKeepsInstaller DEF SkipGroup, TInv, installerVars
<1>4. CASE MirrorGroup
  <2> DEFINE g == apiGroupResources[sgi]
             res == PreferredResources(g)
  <2>1. /\ sgi \in 1..Len(apiGroupResources)
        /\ scheme' = scheme \cup
             {[group |-> g.name, version |-> g.preferred, kind |-> r.kind] : r \in res}
        /\ shadowStorage' = StoreAll(shadowStorage, g, res)
        /\ sgi' = sgi + 1
        /\ UNCHANGED <<spc, apiGroupResources>>
        /\ UNCHANGED installerVars
    BY <1>4 DEF MirrorGroup, TInv
  <2>2. g \in APIGroupResources
    BY <2>1 DEF TInv
  <2>3. res \in SUBSET APIResource
    BY <2>2, Zenon DEF PreferredResources, APIGroupResources
  <2>4. ASSUME NEW x \in scheme' PROVE x \in GVK
    <3>1. CASE x \in scheme
      BY <3>1 DEF TInv
    <3>2. CASE x \notin scheme
      <4>1. PICK r \in res :
              x = [group |-> g.name, version |-> g.preferred, kind |-> r.kind]
        BY <2>1, <3>2
      <4>2. g.name \in GroupNames \cup {""} /\ g.preferred \in VersionNames
        BY <2>2, Zenon DEF APIGroupResources
      <4>3. r.kind \in Kinds
        BY <2>3 DEF APIResource
      <4>. QED
        BY <4>1, <4>2, <4>3, Zenon DEF GVK
    <3>. QED
      BY <3>1, <3>2
  <2>5. shadowStorage' \in Installer!StorageMap
    BY <2>1, <2>2, <2>3, StoreAllType DEF TInv
  <2>6. IP!IInv'
    BY <2>1, ScanKeepsInstaller
  <2>. QED
    BY <2>1, <2>4, <2>5, <2>6 DEF TInv, installerVars
<1>5. CASE InstallShadowGroup
  <2>1. /\ spc = "scan" /\ spc' = "install"
        /\ infos' = <<ShadowGroupInfo>> /\ ipc' = "validate"
        /\ UNCHANGED <<apiGroupResources, sgi, scheme, shadowStorage>>
        /\ UNCHANGED <<gi, vi, resourceInfos, routes, discovery,
                       storageVersions, gates>>
    BY <1>5 DEF InstallShadowGroup
  <2>2. ShadowGroupInfo \in IP!GroupInfo
    BY ShadowGroupInfoType DEF TInv
  <2>3. infos' \in Seq(IP!GroupInfo)
    BY <2>1, <2>2
  <2>4. IP!InstallerTypeOK'
    BY <2>1, <2>3 DEF TInv, IP!IInv, IP!InstallerTypeOK
  <2>5. IP!IInv'
    BY <2>1, <2>4 DEF TInv, IP!IInv
  <2>. QED
    BY <2>1, <2>5 DEF TInv
<1>6. CASE InstallStep
  <2>1. spc = "install" /\ UNCHANGED shadowVars /\ Installer!InstallerNext
    BY <1>6 DEF InstallStep
  <2>2. IP!IInv'
    BY <2>1, SameNext, InstallerConstants, IP!NextIInv DEF TInv
  <2>. QED
    BY <2>1, <2>2 DEF TInv, shadowVars
<1>7. CASE UNCHANGED vars
  BY <1>7, ScanKeepsInstaller DEF TInv, vars, shadowVars, installerVars
<1>. QED
  BY <1>1, <1>2, <1>3, <1>4, <1>5, <1>6, <1>7 DEF Next

-----------------------------------------------------------------------------
(* The theorems                                                            *)

(* Exclusion (spec 8): whatever the downstream discovery returns, with     *)
(* full or partial failures, and however installAPIGroups ends, no shadow  *)
(* route is backed by a resource of a clusternet group or of the shadow    *)
(* group itself (the skips of lines 127-134).                              *)
THEOREM ShadowExclusion == Spec => []Exclusion
<1>1. SIInv => Exclusion
  BY DEF SIInv, Good, Exclusion
<1>. QED
  BY InitSIInv, NextSIInv, <1>1, PTL DEF Spec

(* Every published shadow route has its original GVK registered in the     *)
(* Scheme (line 139 runs before the storage is stored at line 149 and      *)
(* before installAPIGroups publishes it), including a resource that        *)
(* overwrote an earlier one of the same name.                              *)
THEOREM ShadowSchemeBeforeRoute == Spec => []SchemeBeforeRoute
<1>1. SIInv => SchemeBeforeRoute
  BY DEF SIInv, Good, SchemeBeforeRoute
<1>. QED
  BY InitSIInv, NextSIInv, <1>1, PTL DEF Spec


(* Every route the shadow apiserver serves is under the shadow group and   *)
(* version, is named by the lowered name of a resource that the downstream *)
(* discovery lists under its group's preferred version, and is backed by   *)
(* that resource (InstallShadowAPIGroups, lines 116-162, with              *)
(* getAPIGroupVersion and InstallREST of the installer).                   *)
THEOREM ShadowMirrorSound == Spec => []MirrorSound
<1>1. MIInv => MirrorSound
  BY DEF MIInv
<1>. QED
  BY InitMIInv, NextMIInv, <1>1, PTL DEF Spec

(* Whatever the downstream discovery returns and however installAPIGroups  *)
(* ends, the shadow server's state and that of the installer it calls keep *)
(* their types: the Scheme holds GVKs, the shadow storage map holds        *)
(* template RESTs built by lines 142-148, and the installer receives a      *)
(* well-typed APIGroupInfo.                                                *)
THEOREM ShadowTypeCorrect == Spec => []ShadowTypeOK
BY InitTInv, NextTInv, TInvTypeOK, PTL DEF Spec

=============================================================================
