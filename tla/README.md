# TLA+ models of clusternet's shadow API, hub start-up and cluster status

This directory holds TLA+ models of the code under `src/`:

- TLC configurations that model-check them on small instances;
- TLAPS proofs of the main invariants of the installer, the shadow API and the
  hub start-up.

Every definition is translated from the Go source. `PROJECT.json` maps each
definition to the lines it models.

## The system

| Part | Source | What it does |
|------|--------|--------------|
| Shadow API discovery and mirroring | `src/pkg/hub/apiserver/shadow/apiserver.go`, `InstallShadowAPIGroups` (116-162) | Asks the downstream discovery client for every group's resources (`restmapper.GetAPIGroupResources`). Skips `*.clusternet.io` and the shadow group. For each resource of a group's *preferred* version it registers the kind as `Unstructured` in the process-wide `Scheme` and builds a template REST storage. The storage goes into one map keyed by the bare resource name. That map becomes the single `v1alpha1` version of the `shadow.clusternet.io` group, handed to `installAPIGroups`. |
| API group installer | same file, `installAPIGroups`, `installAPIResources`, `getAPIGroupVersion` (164-258) | First validates every group of the batch (`PrioritizedVersions[0]` must have a group and a version). Then, group by group: installs the routes of every version that has resources, failing fast on an `InstallREST` error. It registers the storage versions only when both the `StorageVersionAPI` and `APIServerIdentity` gates are on, then adds a discovery entry. Storage keys are lower-cased while a Go map is iterated. |
| Hub start-up | `src/unnamed/part_000`, `NewHub`, `Run`, `RunAPIServer` (69-189) | Builds three shared informer factories and the CRR approver. Behind the `Deployer` gate it adds the apps informers and the deployer. It pre-registers the Manifests informer behind `ShadowAPI`, then starts the factories. `Run` starts the controller goroutines and then the apiserver. The apiserver's `New` installs the shadow API above. |
| Cluster status controller | `src/pkg/controllers/clusters/clusterstatus/clusterstatus_controller.go` (63-236) | `NewController` starts the node and pod informers. After their caches sync, a goroutine collects the server version, node statistics and health every period. It publishes the status under a mutex. `GetClusterStatus` copies it under the same mutex. |

How they interact: `NewHub` starts the informer factories, and `RunAPIServer` then
installs the shadow API. The shadow API's template storage reads the clusternet
factory, which by then has been started. That is why `NewHub` requests the
Manifests informer before `Start`: `UsedInformersRunning` checks this. The
shadow installer drives the group installer by passing it one group info. The
`ShadowAPIServer` model instantiates the `APIGroupInstaller` model for that step.

## Modules

| Module | Models | State | Actions |
|--------|--------|-------|---------|
| `APIGroupInstaller` | `installAPIGroups` and its helpers | The batch `infos`, the program counter `ipc`, the group and version indices `gi`/`vi`, `resourceInfos`, the published `routes`, the `discovery` entries, `storageVersions` and the enabled `gates` | `Validate`, `SkipVersion`, `InstallREST`, `RecordStorageVersions`, `AddDiscovery`, `Finish` |
| `ShadowAPIServer` | `InstallShadowAPIGroups`, composed with an instance of `APIGroupInstaller` | The installer's state plus `spc`, the discovery result `apiGroupResources`, the group index `sgi`, the `scheme` (set of registered GVKs) and the `shadowStorage` map | `DiscoverFail`, `DiscoverOK`, `SkipGroup`, `MirrorGroup`, `InstallShadowGroup`, `InstallStep` |
| `ClusterStatus` | `NewController`, the collector goroutine, `setClusterStatus`, `GetClusterStatus`, `getNodeStatistics` and `getNodeCondition` | The node cache, whether the informers have synced, whether the context is done, apiserver availability, the clock, the collector's program counter and locals, the mutex, `clusterStatus`, and the readers | `WaitForCacheSync`, `CacheSyncCancelled`, `GetKubernetesVersion`, `ListNodes`, `NilVersionPanic`, `BuildStatus`, `SetLock`, `SetAssign`, `SetStamp`, `NextRound`, `Stop`, `ReadLock`, `ReadCopy`. Environment: `NodeChange`, `CachesSynced`, `Cancel`, `ApiserverFlip`, `Tick`. |
| `ShadowAPI` | What `InstallShadowAPIGroups` and `installAPIGroups` promise a client of the shadow group | The `served` routes, whether the group is `listed` in discovery, and the `versions` its entry advertises | `Serve` (routes only added, each mirroring, one per name, before listing), `Advertise` (listed once, with the shadow version iff a route is served) |
| `ClusterStatusStore` | What `setClusterStatus` and `GetClusterStatus` promise together: an atomic store | The current status, the callers inside `GetClusterStatus`, and what each caller last got | `Publish` (a stamped status no older than the current one), `Call(r)`, `Return(r)` |
| `HubStartup` | `NewHub`, `Run`, `RunAPIServer` | The gates, the main goroutine's program counter, the `registered`, `running` and `synced` informers, the informers `used` by constructed components, the factories started, and the two controller goroutines | One action per call of the start-up sequence, each with its error return. `Sync(i)` for a running informer; `ApproverSynced` and `DeployerSynced`. |
| `MC*` | Instances for TLC | | |
| `APIGroupInstallerProofs` | TLAPS proofs about `APIGroupInstaller` | | |
| `ShadowAPIServerProofs` | TLAPS proofs about `ShadowAPIServer` | | |
| `ShadowAPIRefinementProofs` | TLAPS proof that `ShadowAPIServer` refines `ShadowAPI` | | |
| `HubStartupProofs` | TLAPS proofs about `HubStartup` | | |
| `ClusterStatusProofs` | TLAPS proofs about `ClusterStatus`, and its refinement of `ClusterStatusStore` | | |

Correspondences worth knowing:

- **One step per call.** Each action is one call, or one loop iteration, of the
  code. Its guard is the code's condition or early return.
- **Collected outputs go to a sequence.** `installAPIGroups` takes a variadic
  batch; the model takes a sequence of group infos.
- **Unspecified Go behaviour is a choice.**
  - **Storage keys.** Go's map iteration order decides which of two keys that
    lower-case alike survives. `LoweredStorages` offers every choice.
  - **InstallREST failures.** `InstallREST` may fail on any subset of the
    version's resources (`FailureSets`) when `InstallMayFail` holds.
  - **InstallREST results.** The model takes the library's `InstallREST` to
    return a `ResourceInfo` for every resource it registers. The library
    returns one only for storages that implement `StorageVersionProvider`.
    That is decided by the template REST, which is not under `src/`.
    `StorageVersionsComplete` holds under this assumption. What it checks is
    the code's own part: line 234 appends the results across versions.
  - **Discovery results.** `restmapper.GetAPIGroupResources` may fail outright
    (`DiscoverFail`). It may also return a partial result
    (`DiscoveryResult(lost)` with a set of lost group-versions), because
    client-go swallows partial discovery errors.
- **Data is abstract.**
  - Resource names, kinds and backends are strings from small sets.
  - A template storage is a record of the fields `InstallShadowAPIGroups` sets
    on it.
  - A status keeps the version, the node statistics, one health bit for the
    three health endpoints and `LastObservedTime`. Capacity/allocatable sums and
    the CIDRs are left out: no property distinguishes them, and the CIDR
    discovery only logs its errors.
- **The status's `listed` field is ghost state.** It records the node listing the
  statistics were computed from, so a property can check the computation.
- **`GetNodeCondition` returns the smallest matching index.** The Go loop returns
  on the first match, and the smallest index is what that return yields.
- **The store refinement.** `ClusterStatus` instantiates `ClusterStatusStore`
  with two mappings:
  - `PublishedStatus` is the status a caller can obtain. Between the assignment
    (line 146) and the stamp (line 147) it is the new status stamped with the
    current clock.
  - `Calling` is the set of readers inside `GetClusterStatus`.

  `SetAssign` is then the store's `Publish`, `SetStamp` a stutter, `ReadLock`
  a `Call` and `ReadCopy` a `Return`.
- **The shadow API refinement.** `ShadowAPIServer` instantiates `ShadowAPI`
  as `API` with three mappings:
  - `served` is `routes`;
  - `listed` is `discovery # <<>>`;
  - `versions` is `AdvertisedShadowVersions`, the versions of the first
    discovery entry.

  `Mirrorable` is `MirrorRoutes`, the installer routes that `MirrorRoute`
  accepts. `InstallREST` is then `Serve` and `AddDiscovery` is `Advertise`.
  Every other step is a stutter.
- **Which informers each component reads** is given by the constant `Uses`. The
  approver, the deployer and the template storage are not under `src/`. The MC
  instance follows `NewHub`'s own comments: the approver reads the
  minimum-requirement informers, the deployer the apps informers, and the
  template storage the Manifests informer.

## Runs

| Run | Config | Expect | What it shows |
|-----|--------|--------|---------------|
| installer | `MCAPIGroupInstaller.cfg` | pass | The batches include a case collision (`deployments`/`Deployments`), a version with no resources, an empty group, an empty version and no versions. `InstallREST` fails on any subset and the gates take every value. Validation is fail-fast (`ValidationFailFast`). Discovery advertises exactly the versions that have routes (`DiscoveryMatchesRoutes`). Storage versions cover every resource installed (`StorageVersionsComplete`). `RoutesDiscoverable`: a route missing from discovery belongs to the group being installed or to the group whose `InstallREST` failed (spec §7: fail-fast per group, no rollback), so a call that returns nil leaves every route discoverable. |
| installer_empty_prioritized | `MCAPIGroupInstallerPanic.cfg` | violation | An empty `PrioritizedVersions` panics at line 170 instead of being rejected (spec §4.5). |
| installer_preferred_elided | `MCAPIGroupInstallerPreferred.cfg` | violation | The preferred version of a discovery entry can be a version it does not advertise. |
| shadow | `MCShadowAPIServer.cfg` | pass | Five downstream groups: core, apps (two versions), events.k8s.io, apps.clusternet.io and the shadow group itself. Discovery may fail fully or partly. `Exclusion`, `MirrorSound` and `SchemeBeforeRoute` hold. `APIRefinement`: the server implements `ShadowAPI`. |
| shadow_name_collision | `MCShadowCollision.cfg` | violation | `events` of core and `events` of events.k8s.io: only one is served (spec §8 Completeness). |
| shadow_partial_discovery | `MCShadowPartialDiscovery.cfg` | violation | A partial discovery failure installs a shadow group that lacks resources, where spec §4.1 says the installation aborts. |
| cluster_status | `MCClusterStatus.cfg` | pass | Two nodes whose conditions change, including Ready at the second position and no Ready. The apiserver goes up and down. `NodeStatisticsExact`: the published counts match a reference classification of the listing. |
| cluster_status_mutex | `MCClusterStatusMutex.cfg` | pass | Two `GetClusterStatus` callers, three rounds, and a clock that can tick between the assignment and the stamp of `setClusterStatus`. `ReadsStamped`: a caller never gets a status with a zero `LastObservedTime`. `StoreRefinement`: the controller implements `ClusterStatusStore`. |
| cluster_status_liveness | `MCClusterStatusLive.cfg` | pass | `PublishedAfterSync`: once the caches sync, a status is published unless the agent crashes or is cancelled. `RoundsComplete`: every round that starts ends. Both need strong fairness for the collector's `Lock`; with weak fairness TLC finds the readers starving the collector. |
| cluster_status_version_error | `MCClusterStatusCrash.cfg` | violation | A failed `ServerVersion` leads to the nil dereference at line 121 and crashes the agent. |
| hub_startup | `MCHubStartup.cfg` | pass | Every gate combination, with every start-up call allowed to fail. `UsedInformersRunning`: every informer a component reads runs once its factory has started. `ControllersEventuallyRun`: once the hub serves, the controllers get past their cache sync. |

Every property of a passing run has a mutant in `PROJECT.json`: a seeded fault,
defined next to the definition it replaces, that TLC finds violates the property.

### Bounds

- **Shadow run.** Five groups cover every rule of the loop: excluded by suffix,
  excluded as self, several versions, a name shared across groups, and a group
  named "". Three versions are enough to have a preferred version and a
  non-preferred one.
- **Installer runs.** Two groups and two versions are enough to order a valid
  group before an invalid one, and to have a skipped version before an
  installed one.
- **Cluster status.** Each question gets the instance that makes its case happen:
  - **Statistics.** Two nodes, four condition lists and two rounds, with no
    readers. The counting does not depend on the readers.
  - **Mutex and store.** One node, two readers, three rounds and a clock
    bounded at 3. A reader can interleave at every point of `setClusterStatus`
    while the other holds or waits for the mutex. The clock can tick between
    the assignment and the stamp, and a later round can overwrite a stamped
    status.
  - **Liveness.** One node, two readers and two rounds.
- **Hub.** Every informer the code names.

### Fairness

- **`InstallerSpec` and `ShadowAPIServer`'s `Spec`** assume weak fairness of
  the whole next-state relation. The installation is one synchronous call, so
  once started it keeps running. No checked property relies on it. That the
  call ends is not checked: its loops range over finite slices, so it ends
  whatever the code does inside them.
- **`ClusterStatus`** assumes:
  - weak fairness of the collector goroutine;
  - weak fairness of a reader that holds the mutex, which returns;
  - strong fairness of `SetLock`. Readers may keep taking the mutex, so it is
    free only now and then. Go's `sync.Mutex` enters starvation mode once a
    waiter has waited 1ms, and then hands the lock to the oldest waiter, so a
    waiting collector does get it.

  The informers' sync, the context, node changes, the apiserver and the clock
  are environment and get no fairness. Callers need not call.
- **`HubStartup`** assumes weak fairness of:
  - the main goroutine;
  - each running informer's first sync: the reflector keeps listing, and the
    hub's apiserver is assumed reachable;
  - the controller goroutines.

  An informer that was never started gets no `Sync` step at all.

## What is proved

`APIGroupInstallerProofs` proves with TLAPS, for every value of the constants
that satisfies `ConstantsAssumption`:

- **`InstallerTypeCorrect`**: `InstallerSpec => []InstallerTypeOK`.
- **`InstallerValidationFailFast`**: `InstallerSpec => []ValidationFailFast`. A
  batch with an invalid group never gets a route, a discovery entry or a
  storage version.

Both rest on the inductive invariant `IInv`. Neither property is inductive by
itself. The install actions preserve `ValidationFailFast` only because a batch
that failed validation never reaches them. `AddDiscovery` preserves the type
only because the group it reads has a first prioritized version. So `IInv`
adds the following to the type invariant:

- the states past validation belong to a valid batch;
- the group index stays in range in the `resources` and `discovery` states;
- an invalid batch is only ever in `validate`, `failed` or `panic`, with nothing
  published.

The argument has three parts:

- `InitIInv` shows that the initial states satisfy `IInv`.
- `NextIInv` shows that every step preserves it. It has one case per action,
  and each case has sub-steps for the conjuncts the action changes.
- The lemmas `StorageOfType` and `LoweredStorageType` show that the storage maps
  built by `getAPIGroupVersion` stay well-typed.

The advertised versions are modelled as a set of `<<rank, version>>` pairs, not
as a filtered sequence, so the provers can reason about them.

The same module proves, under the hypothesis `WellFormedBatches`:

- **`InstallerDiscoveryMatchesRoutes`**:
  `WellFormedBatches => (InstallerSpec => []DiscoveryMatchesRoutes)`.
- **`InstallerStorageVersionsComplete`**:
  `WellFormedBatches => (InstallerSpec => []StorageVersionsComplete)`.
- **`InstallerRoutesDiscoverable`**:
  `WellFormedBatches => (InstallerSpec => []RoutesDiscoverable)`. It rests on
  `DInv` and on `Ends`:
  - `done` is reached only past the last group (line 210);
  - `panic` only in the validation loop, where nothing is published.

  `RoutesFromServed` places every route at a served version of a group
  `k <= gi`. If `k < gi`, the group's entry is `Entry(infos[k])`, which
  advertises that version. If `k = gi`, `Ends` and `Progress` leave only
  `resources`, `discovery` and `failed`.

`WellFormedBatches` says that, in every batch, all the prioritized versions of
an info name that info's group, and no two infos with versions name the same
group. The code does not check this. Its only caller in this repository,
`InstallShadowAPIGroups`, passes the single shadow group info, which meets it.
The hypothesis is needed: TLC finds `DiscoveryMatchesRoutes` violated for a
batch with two infos of the same group, and for an info whose versions name two
groups.

All three theorems rest on `DInv`, which is `IInv` plus four facts about how far the
call has got:

- `Progress`: the discovery index holds exactly the entries of the groups
  already finished, in order, and nothing is published before validation
  passes;
- `RoutesFromServed`: every route belongs to a version, of a group reached so
  far, that has resources;
- `ServedInstalled`: every version with resources, of a finished group or
  before the version index of the current one, has a route;
- `StorageRegistered`: with both gates on, every route of a finished group is a
  storage version, and every route of the current group is one or is pending in
  `resourceInfos`.

Each action has its own lemma (`ValidateDRest` to `FinishDRest`). `GroupUnique`
turns the hypothesis into "the info with this group is this one". TLC checked
`DInv` on the installer run and on a three-group batch before it was proved.

`ShadowAPIServerProofs` proves, for every downstream discovery result that
satisfies `ShadowAssumption`:

- **`ShadowExclusion`**: `Spec => []Exclusion`.
- **`ShadowSchemeBeforeRoute`**: `Spec => []SchemeBeforeRoute`.
- **`ShadowMirrorSound`**: `Spec => []MirrorSound`.

The first two rest on the inductive invariant `SIInv`. `Good(b, scheme)` says that a
template's group is not excluded and its GVK is in the scheme. `SIInv` says:

- every entry of the shadow storage map is `Good`;
- every route's backend is `Good`;
- during installation, the installer's batch is exactly the shadow group info
  built from the current storage map;
- the group index is positive.

The routes say nothing about where their backends come from, so `SIInv`
connects them to the storage map:

- `InstallRESTKeeps`, with the lemma `LoweredFrom`, shows that
  `getAPIGroupVersion` only re-keys the map's values.
- The lemma `GoodMonotone` shows that a growing scheme keeps entries good.

These hold whatever discovery returns.

`ShadowMirrorSound` rests on `MIInv`, which strengthens `SIInv`. TLC checked
`MIInv` as an invariant of both shadow runs before it was proved. `MIInv` adds:

- the discovery result is a sequence of groups. `DiscoveredFrom` says it keeps
  Downstream's groups, their order and their preferred versions, and may only
  lose resources (lemma `DiscoveryResultFrom`, for every set of lost groups);
- the scan index and the installer's version index are positive;
- every stored template is stored under its own resource name and mirrors a
  downstream preferred-version resource (`Mirrors`; lemma
  `MirrorGroupMirrors`);
- `MirrorSound` itself.

The invariant says where the route names come from. `LoweredFromKey` strengthens
`LoweredFrom`: a lowered key `l` holds the template of a key `k` with
`ToLower[k] = l`. Because the template is stored under its own name,
`InstallRESTMirrors` concludes that the route's resource is the lowered
backend name. The shadow group info has one prioritized version, so the
route's group and version are the shadow ones.

**`ShadowTypeCorrect`**: `Spec => []ShadowTypeOK`. `ShadowTypeOK` contains the
installer's type invariant, so the proof reuses the installer's proof. It
instantiates `APIGroupInstallerProofs` as `IP`, with the shadow server's
constants and `Batches <- {}`. `ShadowAPIServer` assumes
`InstallerAssumption`: the installer's `ConstantsAssumption` holds for those
constants, and TLC evaluates it on every shadow run. The inductive invariant
`TInv` states:

- the shadow variables keep their types;
- the installer state satisfies `IP!IInv`;
- before `InstallShadowGroup`, the installer state is that of a call not yet
  begun.

`SameNext` shows that a shadow installer step is a step of `IP`, so
`IP!NextIInv` covers `InstallStep`. `ShadowGroupInfoType` shows that the group
info built at lines 153-160 is an `APIGroupInfo`.

`ShadowAPIRefinementProofs` proves **`ShadowImplementsAPI`**:
`Spec => APIRefinement`. The claim holds for every downstream discovery
result and every set of failing registrations. The mapping is the one given
under Modules. The inductive invariant is `RInv == TInv /\ MIInv /\ OneCall`.
`OneCall` rests on one fact: the shadow group info has a single prioritized
version. It states:

- `gi` and `vi` stay in `{1, 2}`;
- in `validate` nothing is published and both indices are 1;
- before the one `InstallREST` call (`resources`, `gi = vi = 1`) there are no
  routes, and no two routes ever share a resource name;
- the group is in discovery exactly when `gi = 2`;
- after the call and until `AddDiscovery`, routes exist iff the shadow
  storage map has a key;
- once listed, the advertised versions are `{ShadowVersion}` iff routes exist.

The last two facts are what make `Advertise` exact. Discovery reads the
storage map, not the routes (line 189). They agree for two reasons:
`getAPIGroupVersion` loses no key (`LoweredKeys`, from the installer's
`LoweredKeysNonEmpty`), and a registration error ends the call before
`AddGroup`. The proof has four parts:

- `InitRInv` shows that the initial states satisfy `RInv`.
- `NextRInv` shows that every step preserves it. `ShadowStepsRInv` covers the
  shadow server's steps. `InstallStepOneCall` has one case per installer
  action.
- `InitAPI` shows that the initial states map to `API!Init`.
- `StepAPI` shows that every step maps to `API!Serve`, to `API!Advertise` or
  to a stutter (`InstallRESTServes`, `AddDiscoveryAdvertises`).

The temporal step is PTL.

`HubStartupProofs` proves **`UsedInformersAlwaysRunning`**:
`ShadowReadsManifests => (Spec => []UsedInformersRunning)`, for every `Uses` and
`MayFail`. The hypothesis is that the template storage reads only the Manifests
informer. The code relies on it: the informer it reads after `Start` must be the
one pre-registered at line 121. The inductive invariant records three facts:

- before `StartFactories` nothing runs;
- `Start` runs exactly the registered informers;
- from then on the pre-registered informer is running.

**`HubTypeCorrect`**: `Spec => []HubTypeOK`, with no hypothesis. `HubTypeOK` is
inductive as it stands (`InitHubTypeOK`, `NextHubTypeOK`). Besides the types, it
records three facts of the start-up order:

- every informer a constructed component reads has been registered;
- `Start` runs only registered informers;
- only running informers sync.

`ClusterStatusProofs` proves, for every set of nodes, readers and condition
lists and every bound that satisfies `ClusterStatusAssumption` and
`NilIsNoStatus`:

- **`StatusReadsStamped`**: `Spec => []ReadsStamped`.
- **`StatusImplementsStore`**: `Spec => StoreRefinement`. Every step of the
  controller is a `Publish`, `Call` or `Return` step of `ClusterStatusStore`
  under the mapping `PublishedStatus`, or a stutter of it.

Both rest on the inductive invariant `IInv` of that module. `ReadsStamped`
speaks only of the readers, and a status with the zero time does exist between
`SetAssign` and `SetStamp`. So `IInv` ties the mutex to the program counters:

- the collector holds the mutex exactly in `assign` and `stamp`;
- a reader holds it exactly while it copies;
- outside `stamp`, a status is stamped with a time no later than the clock.

The last fact gives the monotonicity the store requires. It rests on the
model's clock: `Tick` only moves forward. `metav1.Now` reads the wall clock,
which can be set back, so monotone `LastObservedTime` is an assumption about
the environment, not something the code ensures.

**`StatusTypeCorrect`**: `Spec => []StatusTypeOK`. `IInv` holds the types of the
collector and reader variables. `RunTypes` adds the variables `IInv` leaves out:

- the informer-sync and context flags are Booleans;
- the round counter stays within `0..MaxRounds`.

`RunTypes` is inductive on its own (`InitRunTypes`, `NextRunTypes`).

`NilIsNoStatus` says that a built status is not nil. It is stated over
`StatusRec`, whose `stats` field ranges over the statistics `GetNodeStatistics`
can return. TLC evaluates it on every run. `GetNodeStatistics` is a recursive
function over the set of listed nodes, not a fold, so the module can be proved
about.

**Only model-checked.**

- All liveness: `ControllersEventuallyRun`,
  `PublishedAfterSync` and `RoundsComplete`. TLAPS does not handle fairness or
  ENABLED here.
- `NodeStatisticsExact`. It says what the recursive counting function
  `GetNodeStatistics` returns for every listing. A proof needs two things the
  provers cannot take in here: the recursion theorem for a function defined
  over `SUBSET Nodes` with `CHOOSE`, and induction over the listed set. Both
  library theorems take an operator parameter. The same holds one level down.
  The lemma that one iteration (`CountNode`) increments the counter named by
  the first Ready condition needs the least Ready index to exist. That index
  is what `Least`'s `CHOOSE` picks, and its existence is `SmallestNatural`,
  which is again an induction with an operator parameter.

## Not modelled

- **The template REST storage** (`pkg/registry/shadow/template`) and what it
  does with requests. It is not under `src/`.
- **The type-conflict panic of `Scheme.AddKnownTypeWithName`.** Real discovery
  never gives one GVK two Go types, because every type is `Unstructured`.
- **`newAPIGroupVersion` and `NewShadowAPIServer`.** They only copy
  configuration.
- **The deployment YAML** under `src/deploy` and the README text in
  `part_000` (lines 190-789).
- **The inner workings of client-go.**
  - informer caches and reflectors, beyond sync;
  - `wait.Until`, beyond one round after another;
  - the `restmapper`, beyond full or partial failure.
- **The spec's per-request adapter behaviour** (§4.3, scope checks, watch
  cancellation). It lives in code that is not under `src/`.

## Plan

1. ~~Group installer and shadow installer, with runs and mutants.~~
2. ~~Cluster status controller; hub start-up.~~
3. ~~An abstract specification of the shadow API (`ShadowAPI`), with
   `ShadowAPIServer` shown to refine it through `INSTANCE ... WITH`, checked
   by TLC and proved (`ShadowImplementsAPI`).~~
4. ~~Proofs of `Exclusion`, `SchemeBeforeRoute`, `UsedInformersRunning`,
   `ReadsStamped`, the status-store refinement and `MirrorSound`.~~
   ~~Proofs of `DiscoveryMatchesRoutes`, `StorageVersionsComplete` and the
   type invariants of every component.~~
5. Storage-version behaviour across several shadow installs, if periodic
   re-discovery ever reaches the code (spec §9).
