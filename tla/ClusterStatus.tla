--------------------------- MODULE ClusterStatus ---------------------------
(***************************************************************************)
(* The cluster-status controller of the agent                              *)
(* (src/pkg/controllers/clusters/clusterstatus/clusterstatus_controller.go)*)
(*                                                                         *)
(* Run waits for the node and pod informer caches, then calls              *)
(* collectingClusterStatus every collectingPeriod (wait.UntilWithContext:  *)
(* one goroutine, one round at a time).  A round asks the apiserver for    *)
(* its version, lists the nodes from the cache and counts them by their    *)
(* Ready condition, asks for /healthz, /livez and /readyz, and publishes   *)
(* the status under the controller's mutex, stamping LastObservedTime      *)
(* after the new status is in place.  GetClusterStatus is called by other  *)
(* goroutines and copies the status under the same mutex.                  *)
(***************************************************************************)
EXTENDS Integers, Sequences, FiniteSets

CONSTANTS
    Nodes,            \* node names
    CondLists,        \* the Status.Conditions lists a node may carry
    Readers,          \* goroutines calling GetClusterStatus
    Versions,         \* server versions the apiserver may report
    MaxClock,         \* bound on the wall clock (metav1.Now)
    MaxRounds,        \* bound on the collection rounds explored
    VersionMayFail,   \* whether ServerVersion may return an error
    Nil,              \* a nil pointer
    Absent            \* the entry of a node that is not in the cache

ConditionStatuses == {"True", "False", "Unknown"}
Condition == [type : {"Ready", "MemoryPressure"}, status : ConditionStatuses]

ASSUME ClusterStatusAssumption ==
    /\ IsFiniteSet(Nodes)
    /\ Readers \cap {"none", "collector"} = {}
    /\ CondLists \subseteq Seq(Condition)
    /\ MaxClock \in Nat \ {0}
    /\ MaxRounds \in Nat \ {0}
    /\ VersionMayFail \in BOOLEAN
    /\ Nil \notin Versions
    /\ Nil \notin 0..MaxClock
    /\ Absent \notin CondLists

(* clusterapi.NodeStatistics *)
Stats == [ReadyNodes : Nat, NotReadyNodes : Nat, UnknownNodes : Nat,
          LostNodes : Nat]

(* What the node lister may return: a node's conditions, or Absent.       *)
Listings == [Nodes -> CondLists \cup {Absent}]

VARIABLES
    nodes,          \* the node informer cache: name -> conditions or Absent
    synced,         \* whether the node and pod informers have synced
    ctxDone,        \* whether the agent's context is cancelled
    apiUp,          \* whether the apiserver answers
    clock,          \* the wall clock
    cpc,            \* where the collector goroutine is
    rounds,         \* collection rounds started
    lversion,       \* clusterVersion of the current round (Nil on error)
    llisted,        \* the nodes listed in the current round
    lhealthy,       \* the health answers of the current round
    lock,           \* holder of c.lock: "none", "collector" or a reader
    clusterStatus,  \* c.clusterStatus (Nil before the first round)
    rpc,            \* where each reader is
    readResult      \* the LastObservedTime of the status each reader's last
                    \* GetClusterStatus returned (Nil when it returned nil)

vars == <<nodes, synced, ctxDone, apiUp, clock, cpc, rounds, lversion, llisted,
          lhealthy, lock, clusterStatus, rpc, readResult>>
envVars == <<nodes, synced, ctxDone, apiUp, clock>>
collectorVars == <<cpc, rounds, lversion, llisted, lhealthy>>
readerVars == <<rpc, readResult>>

-----------------------------------------------------------------------------
(* getNodeCondition and getNodeStatistics (lines 172-192, 224-236)         *)

(* The least element of a non-empty set of indices.                      *)
Least(idx) == CHOOSE i \in idx : \A j \in idx : i <= j

(* Seeded fault: the condition scan starts at the second entry.           *)
GetNodeConditionFromSecond(conds, type) ==
    LET idx == {i \in 2..Len(conds) : conds[i].type = type}
    IN  IF idx = {} THEN -1 ELSE Least(idx)

(* The index of the first condition of the type, or -1: the loop returns  *)
(* at the first match.                                                     *)
GetNodeCondition(conds, type) ==
    LET idx == {i \in 1..Len(conds) : conds[i].type = type}
    IN  IF idx = {} THEN -1 ELSE Least(idx)

(* One iteration of the loop of getNodeStatistics over a node.            *)
CountNode(conds, acc) ==
    LET flag == GetNodeCondition(conds, "Ready")
    IN  IF flag = -1 THEN [acc EXCEPT !.LostNodes = @ + 1]
        ELSE CASE conds[flag].status = "True" -> [acc EXCEPT !.ReadyNodes = @ + 1]
               [] conds[flag].status = "False" -> [acc EXCEPT !.NotReadyNodes = @ + 1]
               [] conds[flag].status = "Unknown" -> [acc EXCEPT !.UnknownNodes = @ + 1]
               [] OTHER -> acc

NoStats == [ReadyNodes |-> 0, NotReadyNodes |-> 0, UnknownNodes |-> 0,
            LostNodes |-> 0]

(* getNodeStatistics over the nodes a listing returns: the loop counts the *)
(* nodes one at a time, here the nodes of a set in any order.             *)
GetNodeStatistics(listed) ==
    LET count[S \in SUBSET Nodes] ==
            IF S = {} THEN NoStats
            ELSE LET n == CHOOSE m \in S : TRUE
                 IN  CountNode(listed[n], count[S \ {n}])
    IN  count[{n \in Nodes : listed[n] # Absent}]

(* clusterapi.ManagedClusterStatus as the collector builds it, reduced to  *)
(* the version, the node statistics, the health bits and LastObservedTime  *)
(* (0 is the zero time); `listed` is the node listing the statistics were  *)
(* computed from.                                                          *)
StatusRec == [version : Versions,
              stats : {GetNodeStatistics(l) : l \in Listings},
              healthy : BOOLEAN, observed : 0..MaxClock, listed : Listings]

(* A nil *ManagedClusterStatus is no status.                              *)
ASSUME NilIsNoStatus == Nil \notin StatusRec

-----------------------------------------------------------------------------
(* The collector goroutine                                                 *)

(* NewController, lines 63-83: the node and pod informers are registered  *)
(* and their factory started before Run; the status is nil.               *)
Init ==
    /\ nodes \in [Nodes -> CondLists \cup {Absent}]
    /\ synced = FALSE
    /\ ctxDone = FALSE
    /\ apiUp \in BOOLEAN
    /\ clock = 1
    /\ cpc = "sync"
    /\ rounds = 0
    /\ lversion = Nil
    /\ llisted = [n \in Nodes |-> Absent]
    /\ lhealthy = FALSE
    /\ lock = "none"
    /\ clusterStatus = Nil
    /\ rpc = [r \in Readers |-> "idle"]
    /\ readResult = [r \in Readers |-> Nil]

(* Run, lines 86-91: both caches have synced, so WaitForNamedCacheSync     *)
(* returns true and wait.UntilWithContext starts the first round at once. *)
WaitForCacheSync ==
    /\ cpc = "sync"
    /\ synced
    /\ cpc' = "version"
    /\ rounds' = 1
    /\ UNCHANGED <<envVars, lversion, llisted, lhealthy, lock, clusterStatus,
                   readerVars>>

(* Run, lines 86-89: the context is done before the caches sync;          *)
(* WaitForNamedCacheSync returns false, Run returns and no status is ever *)
(* collected.                                                              *)
CacheSyncCancelled ==
    /\ cpc = "sync"
    /\ ctxDone
    /\ cpc' = "stopped"
    /\ UNCHANGED <<envVars, rounds, lversion, llisted, lhealthy, lock,
                   clusterStatus, readerVars>>

(* Lines 96-99 and 162-164: ServerVersion; on error the version is nil and *)
(* only a warning is logged.                                               *)
GetKubernetesVersion ==
    /\ cpc = "version"
    /\ \/ /\ apiUp
          /\ lversion' \in Versions
       \/ /\ ~apiUp \/ VersionMayFail
          /\ lversion' = Nil
    /\ cpc' = "list"
    /\ UNCHANGED <<envVars, rounds, llisted, lhealthy, lock, clusterStatus,
                   readerVars>>

(* Lines 101-118: the nodes are listed from the cache, counted and summed; *)
(* the CIDR discovery only logs its errors.                                *)
ListNodes ==
    /\ cpc = "list"
    /\ llisted' = nodes
    /\ cpc' = "build"
    /\ UNCHANGED <<envVars, rounds, lversion, lhealthy, lock, clusterStatus,
                   readerVars>>

(* Line 121: clusterVersion.GitVersion with a nil clusterVersion panics;   *)
(* wait.JitterUntil's HandleCrash re-panics and the agent process exits.   *)
NilVersionPanic ==
    /\ cpc = "build"
    /\ lversion = Nil
    /\ cpc' = "crashed"
    /\ UNCHANGED <<envVars, rounds, lversion, llisted, lhealthy, lock,
                   clusterStatus, readerVars>>

(* Seeded fault: the status is built without looking at the version.      *)
BuildStatusNoNilCheck ==
    /\ cpc = "build"
    /\ lhealthy' = apiUp
    /\ cpc' = "setlock"
    /\ UNCHANGED <<envVars, rounds, lversion, llisted, lock, clusterStatus,
                   readerVars>>

(* Lines 120-134: the status is built and the health endpoints asked       *)
(* (getHealthStatus: an answer of 200 when the apiserver is up).           *)
BuildStatus ==
    /\ cpc = "build"
    /\ lversion # Nil
    /\ lhealthy' = apiUp
    /\ cpc' = "setlock"
    /\ UNCHANGED <<envVars, rounds, lversion, llisted, lock, clusterStatus,
                   readerVars>>

(* setClusterStatus, line 139: take the mutex.                             *)
SetLock ==
    /\ cpc = "setlock"
    /\ lock = "none"
    /\ lock' = "collector"
    /\ cpc' = "assign"
    /\ UNCHANGED <<envVars, rounds, lversion, llisted, lhealthy, clusterStatus,
                   readerVars>>

(* setClusterStatus, lines 142-146: the new status, whose LastObservedTime *)
(* is still the zero time, replaces the old one.                           *)
SetAssign ==
    /\ cpc = "assign"
    /\ clusterStatus' = [version |-> lversion,
                         stats |-> GetNodeStatistics(llisted),
                         healthy |-> lhealthy, observed |-> 0,
                         listed |-> llisted]
    /\ cpc' = "stamp"
    /\ UNCHANGED <<envVars, rounds, lversion, llisted, lhealthy, lock,
                   readerVars>>

(* Seeded fault: the deferred Unlock is missing.                           *)
SetStampNoUnlock ==
    /\ cpc = "stamp"
    /\ clusterStatus' = [clusterStatus EXCEPT !.observed = clock]
    /\ cpc' = "sleep"
    /\ UNCHANGED <<envVars, rounds, lversion, llisted, lhealthy, lock,
                   readerVars>>

(* setClusterStatus, lines 147-149: stamp it with metav1.Now() and release *)
(* the mutex (deferred Unlock).                                            *)
SetStamp ==
    /\ cpc = "stamp"
    /\ clusterStatus' = [clusterStatus EXCEPT !.observed = clock]
    /\ lock' = "none"
    /\ cpc' = "sleep"
    /\ UNCHANGED <<envVars, rounds, lversion, llisted, lhealthy, readerVars>>

(* wait.UntilWithContext (line 91): after collectingPeriod the next round  *)
(* starts unless the context is done.                                      *)
NextRound ==
    /\ cpc = "sleep"
    /\ ~ctxDone
    /\ rounds < MaxRounds
    /\ rounds' = rounds + 1
    /\ cpc' = "version"
    /\ UNCHANGED <<envVars, lversion, llisted, lhealthy, lock, clusterStatus,
                   readerVars>>

(* wait.UntilWithContext returns once the context is done.                 *)
Stop ==
    /\ cpc = "sleep"
    /\ ctxDone
    /\ cpc' = "stopped"
    /\ UNCHANGED <<envVars, rounds, lversion, llisted, lhealthy, lock,
                   clusterStatus, readerVars>>

-----------------------------------------------------------------------------
(* GetClusterStatus callers (lines 151-160)                                *)

(* Seeded fault: GetClusterStatus reads without taking the mutex.          *)
ReadLockSkipped(r) ==
    /\ rpc[r] = "idle"
    /\ rpc' = [rpc EXCEPT ![r] = "copy"]
    /\ UNCHANGED <<envVars, collectorVars, lock, clusterStatus, readResult>>

(* Line 152: take the mutex.                                               *)
ReadLock(r) ==
    /\ rpc[r] = "idle"
    /\ lock = "none"
    /\ lock' = r
    /\ rpc' = [rpc EXCEPT ![r] = "copy"]
    /\ UNCHANGED <<envVars, collectorVars, clusterStatus, readResult>>

(* Seeded fault: the deferred Unlock is missing.                           *)
ReadCopyNoUnlock(r) ==
    /\ rpc[r] = "copy"
    /\ readResult' = [readResult EXCEPT ![r] =
                       IF clusterStatus = Nil THEN Nil ELSE clusterStatus.observed]
    /\ rpc' = [rpc EXCEPT ![r] = "idle"]
    /\ UNCHANGED <<envVars, collectorVars, lock, clusterStatus>>

(* Seeded fault: a caller that already got a status keeps its own copy    *)
(* instead of asking again.                                                *)
ReadCopyCached(r) ==
    /\ rpc[r] = "copy"
    /\ readResult' = [readResult EXCEPT ![r] =
                       IF readResult[r] # Nil THEN readResult[r]
                       ELSE IF clusterStatus = Nil THEN Nil
                       ELSE clusterStatus.observed]
    /\ lock' = IF lock = r THEN "none" ELSE lock
    /\ rpc' = [rpc EXCEPT ![r] = "idle"]
    /\ UNCHANGED <<envVars, collectorVars, clusterStatus>>

(* Lines 155-159: nil, or a deep copy; the deferred Unlock releases.       *)
ReadCopy(r) ==
    /\ rpc[r] = "copy"
    /\ readResult' = [readResult EXCEPT ![r] =
                       IF clusterStatus = Nil THEN Nil ELSE clusterStatus.observed]
    /\ lock' = IF lock = r THEN "none" ELSE lock
    /\ rpc' = [rpc EXCEPT ![r] = "idle"]
    /\ UNCHANGED <<envVars, collectorVars, clusterStatus>>

-----------------------------------------------------------------------------
(* The environment: the node cache, the informers, the context, the        *)
(* apiserver and the clock                                                 *)

NodeChange(n, c) ==
    /\ nodes[n] # c
    /\ nodes' = [nodes EXCEPT ![n] = c]
    /\ UNCHANGED <<synced, ctxDone, apiUp, clock, collectorVars, lock,
                   clusterStatus, readerVars>>

(* The reflectors' first List succeeds, which needs the apiserver: both    *)
(* HasSynced functions return true from then on.                           *)
CachesSynced ==
    /\ ~synced
    /\ apiUp
    /\ synced' = TRUE
    /\ UNCHANGED <<nodes, ctxDone, apiUp, clock, collectorVars, lock,
                   clusterStatus, readerVars>>

(* The agent's context is cancelled (shutdown).                            *)
Cancel ==
    /\ ~ctxDone
    /\ ctxDone' = TRUE
    /\ UNCHANGED <<nodes, synced, apiUp, clock, collectorVars, lock,
                   clusterStatus, readerVars>>

ApiserverFlip ==
    /\ apiUp' = ~apiUp
    /\ UNCHANGED <<nodes, synced, ctxDone, clock, collectorVars, lock,
                   clusterStatus, readerVars>>

Tick ==
    /\ clock < MaxClock
    /\ clock' = clock + 1
    /\ UNCHANGED <<nodes, synced, ctxDone, apiUp, collectorVars, lock,
                   clusterStatus, readerVars>>

-----------------------------------------------------------------------------

Collector ==
    \/ WaitForCacheSync \/ CacheSyncCancelled \/ GetKubernetesVersion
    \/ ListNodes \/ NilVersionPanic \/ BuildStatus \/ SetLock \/ SetAssign
    \/ SetStamp \/ NextRound \/ Stop

Reader(r) == ReadLock(r) \/ ReadCopy(r)

Environment ==
    \/ \E n \in Nodes, c \in CondLists \cup {Absent} : NodeChange(n, c)
    \/ CachesSynced \/ Cancel \/ ApiserverFlip \/ Tick

Next == Collector \/ (\E r \in Readers : Reader(r)) \/ Environment

(* The collector is a goroutine the Go scheduler keeps running, and a      *)
(* reader that holds the mutex returns.  The mutex may be free only now    *)
(* and then while readers come and go, but sync.Mutex switches to          *)
(* starvation mode after a waiter has waited 1ms and then hands the lock   *)
(* to the oldest waiter: strong fairness for SetLock.  Readers need not    *)
(* call, and the environment is not fair.                                  *)
Fairness ==
    /\ WF_vars(Collector)
    /\ SF_vars(SetLock)
    /\ \A r \in Readers : WF_vars(ReadCopy(r))

Spec == Init /\ [][Next]_vars /\ Fairness

-----------------------------------------------------------------------------
(* Properties                                                              *)

StatusTypeOK ==
    /\ nodes \in [Nodes -> CondLists \cup {Absent}]
    /\ synced \in BOOLEAN
    /\ ctxDone \in BOOLEAN
    /\ apiUp \in BOOLEAN
    /\ clock \in 1..MaxClock
    /\ cpc \in {"sync", "version", "list", "build", "setlock", "assign", "stamp",
               "sleep", "stopped", "crashed"}
    /\ rounds \in 0..MaxRounds
    /\ lversion \in Versions \cup {Nil}
    /\ llisted \in [Nodes -> CondLists \cup {Absent}]
    /\ lhealthy \in BOOLEAN
    /\ lock \in {"none", "collector"} \cup Readers
    /\ clusterStatus \in StatusRec \cup {Nil}
    /\ rpc \in [Readers -> {"idle", "copy"}]
    /\ readResult \in [Readers -> 0..MaxClock \cup {Nil}]

(* setClusterStatus installs the new status before it stamps it, so only   *)
(* the mutex keeps GetClusterStatus from returning a status whose          *)
(* LastObservedTime is the zero time: every status a caller obtains is     *)
(* stamped.                                                                *)
ReadsStamped ==
    \A r \in Readers : readResult[r] # 0

(* The Ready status that counts for a node: that of the first Ready        *)
(* condition in its list (the reference for getNodeCondition).             *)
FirstReadyStatuses(conds) ==
    {conds[i].status : i \in {j \in 1..Len(conds) :
        /\ conds[j].type = "Ready"
        /\ \A k \in 1..(j - 1) : conds[k].type # "Ready"}}

(* The published NodeStatistics count every listed node exactly once, by   *)
(* the status of its first Ready condition, and a node without one as      *)
(* lost (getNodeStatistics over getNodeCondition).                         *)
NodeStatisticsExact ==
    clusterStatus # Nil =>
      LET l == clusterStatus.listed
          present == {n \in Nodes : l[n] # Absent}
          with(s) == Cardinality({n \in present : FirstReadyStatuses(l[n]) = {s}})
      IN  clusterStatus.stats =
            [ReadyNodes |-> with("True"), NotReadyNodes |-> with("False"),
             UnknownNodes |-> with("Unknown"),
             LostNodes |-> Cardinality({n \in present :
                                          FirstReadyStatuses(l[n]) = {}})]

(* The controller survives a failed ServerVersion: collectingClusterStatus *)
(* only logs the error (line 98), so the collector goroutine should never   *)
(* crash the agent.                                                        *)
CollectorSurvivesVersionError == cpc # "crashed"

(* The status setClusterStatus is publishing: between the assignment of   *)
(* line 146 and the stamp of line 147 it is the new status stamped with    *)
(* the current time, which is what the mutex lets a caller see.           *)
PublishedStatus ==
    IF cpc = "stamp" THEN [clusterStatus EXCEPT !.observed = clock]
    ELSE clusterStatus

(* The callers inside GetClusterStatus.                                    *)
Calling == {r \in Readers : rpc[r] = "copy"}

Store == INSTANCE ClusterStatusStore
           WITH status <- PublishedStatus, calling <- Calling

(* The controller implements the atomic status store: every status a      *)
(* caller of GetClusterStatus obtains is the current, stamped one, and     *)
(* LastObservedTime never moves backwards across rounds, although          *)
(* setClusterStatus resets it to the zero time on every call.              *)
StoreRefinement == Store!Spec

(* Once the node and pod caches have synced (Run, line 86), a status is    *)
(* published unless the agent crashes or its context is cancelled: the     *)
(* collector is not kept from the mutex for ever by GetClusterStatus       *)
(* callers, and each of them releases it.                                  *)
PublishedAfterSync ==
    synced ~> (clusterStatus # Nil \/ cpc = "crashed" \/ ctxDone)

(* Every collection round that starts ends, with a stamped status and the  *)
(* mutex released, or with the crash of line 121: the next round can take  *)
(* the mutex again.                                                        *)
RoundsComplete ==
    cpc = "version" ~> cpc \in {"sleep", "stopped", "crashed"}

=============================================================================
