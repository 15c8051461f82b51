------------------------ MODULE ClusterStatusProofs ------------------------
(***************************************************************************)
(* Proofs about the cluster-status controller, for every set of nodes,     *)
(* readers and condition lists and every bound: a caller of                *)
(* GetClusterStatus never obtains a status whose LastObservedTime is the   *)
(* zero time, and the controller implements the atomic status store of     *)
(* ClusterStatusStore; and its variables keep their types.                 *)
(***************************************************************************)
EXTENDS ClusterStatus, TLAPS

(* The collector's program counter.                                        *)
Stages == {"sync", "version", "list", "build", "setlock", "assign", "stamp",
           "sleep", "stopped", "crashed"}

(* The inductive invariant.  ReadsStamped speaks of the readers only; it   *)
(* holds because the collector holds the mutex exactly while the status    *)
(* it installed is not yet stamped, a reader holds it exactly while it     *)
(* copies, and a stamped status is stamped with a time not later than the  *)
(* clock.                                                                  *)
IInv ==
    /\ nodes \in Listings
    /\ apiUp \in BOOLEAN
    /\ cpc \in Stages
    /\ clock \in 1..MaxClock
    /\ lversion \in Versions \cup {Nil}
    /\ llisted \in Listings
    /\ lhealthy \in BOOLEAN
    /\ lock \in {"none", "collector"} \cup Readers
    /\ rpc \in [Readers -> {"idle", "copy"}]
    /\ readResult \in [Readers -> (1..MaxClock) \cup {Nil}]
    /\ clusterStatus \in StatusRec \cup {Nil}
    /\ lock = "collector" <=> cpc \in {"assign", "stamp"}
    /\ \A r \in Readers : rpc[r] = "copy" <=> lock = r
    /\ cpc \in {"setlock", "assign"} => lversion \in Versions
    /\ cpc = "stamp" => clusterStatus \in StatusRec
    /\ clusterStatus # Nil /\ cpc # "stamp" => clusterStatus.observed \in 1..clock

-----------------------------------------------------------------------------
(* The invariant is inductive                                              *)

LEMMA InitIInv == Init => IInv
<1> SUFFICES ASSUME Init PROVE IInv
  OBVIOUS
<1>1. \A r \in Readers : r # "none" /\ r # "collector"
  BY ClusterStatusAssumption
<1>2. llisted \in Listings /\ nodes \in Listings
  BY DEF Init, Listings
<1>3. clock \in 1..MaxClock
  BY ClusterStatusAssumption DEF Init
<1>. QED
  BY <1>1, <1>2, <1>3 DEF Init, IInv, Stages

(* A step of the collector that only moves its program counter between     *)
(* two stages outside the critical section of setClusterStatus.            *)
LEMMA CollectorMove ==
    ASSUME IInv, NEW from \in Stages, NEW to \in Stages,
           from \notin {"assign", "stamp"},
           to \notin {"setlock", "assign", "stamp"},
           cpc = from, cpc' = to,
           lversion' \in Versions \cup {Nil}, llisted' \in Listings,
           lhealthy' \in BOOLEAN,
           UNCHANGED <<nodes, apiUp, clock, lock, clusterStatus, rpc,
                       readResult>>
    PROVE  IInv'
BY DEF IInv

LEMMA NextIInv == IInv /\ [Next]_vars => IInv'
<1> SUFFICES ASSUME IInv, [Next]_vars PROVE IInv'
  OBVIOUS
<1> USE ClusterStatusAssumption
<1>1. CASE WaitForCacheSync
  BY <1>1, CollectorMove DEF WaitForCacheSync, Stages, IInv, envVars, readerVars
<1>2. CASE CacheSyncCancelled
  BY <1>2, CollectorMove DEF CacheSyncCancelled, Stages, IInv, envVars, readerVars
<1>3. CASE GetKubernetesVersion
  BY <1>3, CollectorMove DEF GetKubernetesVersion, Stages, IInv, envVars, readerVars
<1>4. CASE ListNodes
  BY <1>4, CollectorMove DEF ListNodes, Stages, IInv, envVars, readerVars
<1>5. CASE NilVersionPanic
  BY <1>5, CollectorMove DEF NilVersionPanic, Stages, IInv, envVars, readerVars
<1>6. CASE BuildStatus
  BY <1>6 DEF BuildStatus, Stages, IInv, envVars, readerVars
<1>7. CASE SetLock
  BY <1>7 DEF SetLock, Stages, IInv, envVars, readerVars
<1>8. CASE SetAssign
  <2>1. clusterStatus' \in StatusRec
    BY <1>8 DEF SetAssign, IInv, StatusRec
  <2>. QED
    BY <1>8, <2>1 DEF SetAssign, Stages, IInv, envVars, readerVars
<1>9. CASE SetStamp
  <2>1. clusterStatus \in StatusRec
    BY <1>9 DEF SetStamp, IInv
  <2>2. clusterStatus' \in StatusRec /\ clusterStatus'.observed = clock
    BY <1>9, <2>1 DEF SetStamp, IInv, StatusRec
  <2>. QED
    BY <1>9, <2>2 DEF SetStamp, Stages, IInv, envVars, readerVars
<1>10. CASE NextRound
  BY <1>10, CollectorMove DEF NextRound, Stages, IInv, envVars, readerVars
<1>11. CASE Stop
  BY <1>11, CollectorMove DEF Stop, Stages, IInv, envVars, readerVars
<1>12. ASSUME NEW r \in Readers, ReadLock(r) PROVE IInv'
  BY <1>12 DEF ReadLock, IInv, envVars, collectorVars
<1>13. ASSUME NEW r \in Readers, ReadCopy(r) PROVE IInv'
  <2>1. lock = r /\ cpc \notin {"assign", "stamp"}
    BY <1>13 DEF ReadCopy, IInv
  <2>2. clusterStatus # Nil => clusterStatus.observed \in 1..MaxClock
    BY <2>1 DEF IInv
  <2>3. readResult' \in [Readers -> (1..MaxClock) \cup {Nil}]
    BY <1>13, <2>2 DEF ReadCopy, IInv
  <2>. QED
    BY <1>13, <2>1, <2>3 DEF ReadCopy, IInv, envVars, collectorVars
<1>14. ASSUME NEW n \in Nodes, NEW c \in CondLists \cup {Absent}, NodeChange(n, c)
       PROVE IInv'
  BY <1>14 DEF NodeChange, IInv, Listings, collectorVars, readerVars
<1>15. CASE CachesSynced \/ Cancel \/ ApiserverFlip
  BY <1>15 DEF CachesSynced, Cancel, ApiserverFlip, IInv, collectorVars, readerVars
<1>16. CASE Tick
  BY <1>16 DEF Tick, IInv, collectorVars, readerVars
<1>17. CASE UNCHANGED vars
  BY <1>17 DEF vars, IInv
<1>. QED
  BY <1>1, <1>2, <1>3, <1>4, <1>5, <1>6, <1>7, <1>8, <1>9, <1>10, <1>11,
     <1>12, <1>13, <1>14, <1>15, <1>16, <1>17
     DEF Next, Collector, Reader, Environment

-----------------------------------------------------------------------------
(* The refinement mapping                                                  *)

(* Outside setClusterStatus's critical section the published status is    *)
(* the status variable itself; a step that changes neither it nor the     *)
(* readers is a stutter of the store.                                      *)
LEMMA MappingStutter ==
    ASSUME cpc # "stamp", cpc' # "stamp",
           UNCHANGED <<clusterStatus, rpc, readResult>>
    PROVE  UNCHANGED Store!storeVars
BY DEF PublishedStatus, Calling, Store!storeVars

(* A step of the environment changes nothing the store sees.               *)
LEMMA EnvironmentStutter ==
    ASSUME UNCHANGED <<cpc, clock, clusterStatus, rpc, readResult>>
    PROVE  UNCHANGED Store!storeVars
BY DEF PublishedStatus, Calling, Store!storeVars

LEMMA StoreStep == IInv /\ [Next]_vars => [Store!Next]_Store!storeVars
<1> SUFFICES ASSUME IInv, [Next]_vars PROVE [Store!Next]_Store!storeVars
  OBVIOUS
<1> USE ClusterStatusAssumption
<1>1. CASE \/ WaitForCacheSync \/ CacheSyncCancelled \/ GetKubernetesVersion
           \/ ListNodes \/ NilVersionPanic \/ BuildStatus \/ SetLock
           \/ NextRound \/ Stop
  <2>1. cpc # "stamp" /\ cpc' # "stamp"
    BY <1>1 DEF WaitForCacheSync, CacheSyncCancelled, GetKubernetesVersion,
                ListNodes, NilVersionPanic, BuildStatus, SetLock, NextRound, Stop
  <2>2. UNCHANGED <<clusterStatus, rpc, readResult>>
    BY <1>1 DEF WaitForCacheSync, CacheSyncCancelled, GetKubernetesVersion,
                ListNodes, NilVersionPanic, BuildStatus, SetLock, NextRound,
                Stop, readerVars
  <2>. QED
    BY <2>1, <2>2, MappingStutter
<1>2. CASE SetAssign
  <2> DEFINE new == [version |-> lversion, stats |-> GetNodeStatistics(llisted),
                     healthy |-> lhealthy, observed |-> 0, listed |-> llisted]
  <2>1. cpc = "assign" /\ cpc' = "stamp" /\ clusterStatus' = new
        /\ UNCHANGED <<clock, rpc, readResult>>
    BY <1>2 DEF SetAssign, envVars, readerVars
  <2>2. PublishedStatus' = [new EXCEPT !.observed = clock]
    BY <2>1 DEF PublishedStatus
  <2>3. [new EXCEPT !.observed = clock] \in StatusRec
    BY <2>1 DEF IInv, StatusRec
  <2>4. PublishedStatus' # Nil /\ PublishedStatus'.observed = clock
    BY <2>2, <2>3, NilIsNoStatus
  <2>5. PublishedStatus = clusterStatus
    BY <2>1 DEF PublishedStatus
  <2>6. PublishedStatus # Nil => PublishedStatus.observed <= clock
    BY <2>1, <2>5 DEF IInv
  <2>7. UNCHANGED <<Calling, readResult>>
    BY <2>1 DEF Calling
  <2>. QED
    BY <2>4, <2>6, <2>7 DEF IInv, Store!Next, Store!Publish
<1>3. CASE SetStamp
  <2>1. cpc = "stamp" /\ cpc' = "sleep"
        /\ clusterStatus' = [clusterStatus EXCEPT !.observed = clock]
        /\ UNCHANGED <<clock, rpc, readResult>>
    BY <1>3 DEF SetStamp, envVars, readerVars
  <2>. QED
    BY <2>1 DEF PublishedStatus, Calling, Store!storeVars
<1>4. ASSUME NEW r \in Readers, ReadLock(r)
      PROVE  [Store!Next]_Store!storeVars
  <2>1. rpc[r] = "idle" /\ rpc' = [rpc EXCEPT ![r] = "copy"]
        /\ UNCHANGED <<cpc, clock, clusterStatus, readResult>>
    BY <1>4 DEF ReadLock, envVars, collectorVars
  <2>2. Calling' = Calling \cup {r} /\ r \notin Calling
    BY <2>1 DEF Calling, IInv
  <2>3. UNCHANGED <<PublishedStatus, readResult>>
    BY <2>1 DEF PublishedStatus
  <2>. QED
    BY <2>2, <2>3 DEF Store!Next, Store!Call
<1>5. ASSUME NEW r \in Readers, ReadCopy(r)
      PROVE  [Store!Next]_Store!storeVars
  <2>1. rpc[r] = "copy" /\ rpc' = [rpc EXCEPT ![r] = "idle"]
        /\ readResult' = [readResult EXCEPT ![r] =
                            IF clusterStatus = Nil THEN Nil
                            ELSE clusterStatus.observed]
        /\ UNCHANGED <<cpc, clock, clusterStatus>>
    BY <1>5 DEF ReadCopy, envVars, collectorVars
  <2>2. cpc # "stamp"
    BY <2>1 DEF IInv
  <2>3. PublishedStatus = clusterStatus /\ PublishedStatus' = clusterStatus
    BY <2>1, <2>2 DEF PublishedStatus
  <2>4. Calling' = Calling \ {r} /\ r \in Calling
    BY <2>1 DEF Calling, IInv
  <2>. QED
    BY <2>1, <2>3, <2>4 DEF Store!Next, Store!Return
<1>6. CASE \/ \E n \in Nodes, c \in CondLists \cup {Absent} : NodeChange(n, c)
           \/ CachesSynced \/ Cancel \/ ApiserverFlip
  <2>1. UNCHANGED <<cpc, clock, clusterStatus, rpc, readResult>>
    BY <1>6 DEF NodeChange, CachesSynced, Cancel, ApiserverFlip,
                collectorVars, readerVars
  <2>. QED
    BY <2>1, EnvironmentStutter
<1>7. CASE Tick
  <2>1. clock' = clock + 1 /\ clock' \in 1..MaxClock
        /\ UNCHANGED <<cpc, clusterStatus, rpc, readResult>>
    BY <1>7 DEF Tick, IInv, collectorVars, readerVars
  <2>2. CASE cpc = "stamp"
    <3>1. clusterStatus \in StatusRec
      BY <2>2 DEF IInv
    <3>2. PublishedStatus = [clusterStatus EXCEPT !.observed = clock]
          /\ PublishedStatus' = [clusterStatus EXCEPT !.observed = clock + 1]
      BY <2>1, <2>2 DEF PublishedStatus
    <3>3. [clusterStatus EXCEPT !.observed = clock + 1] \in StatusRec
      BY <2>1, <3>1 DEF StatusRec
    <3>4. PublishedStatus' # Nil
      BY <3>2, <3>3, NilIsNoStatus
    <3>5. PublishedStatus'.observed = clock + 1
          /\ PublishedStatus.observed = clock
      BY <3>1, <3>2 DEF StatusRec
    <3>6. UNCHANGED <<Calling, readResult>>
      BY <2>1 DEF Calling
    <3>. QED
      BY <2>1, <3>4, <3>5, <3>6 DEF IInv, Store!Next, Store!Publish
  <2>3. CASE cpc # "stamp"
    BY <2>1, <2>3, MappingStutter
  <2>. QED
    BY <2>2, <2>3
<1>8. CASE UNCHANGED vars
  BY <1>8, EnvironmentStutter DEF vars
<1>. QED
  BY <1>1, <1>2, <1>3, <1>4, <1>5, <1>6, <1>7, <1>8
     DEF Next, Collector, Reader, Environment

-----------------------------------------------------------------------------
(* The types IInv leaves out                                               *)

(* The flags the informers and the context set, and the round counter:     *)
(* WaitForCacheSync starts the first round and NextRound stops at the      *)
(* bound.                                                                  *)
RunTypes ==
    /\ synced \in BOOLEAN
    /\ ctxDone \in BOOLEAN
    /\ rounds \in 0..MaxRounds

LEMMA InitRunTypes == Init => RunTypes
<1> SUFFICES ASSUME Init PROVE RunTypes
  OBVIOUS
<1>1. synced \in BOOLEAN /\ ctxDone \in BOOLEAN
  BY Zenon DEF Init
<1>2. rounds \in 0..MaxRounds
  <2>1. MaxRounds \in Nat
    BY ClusterStatusAssumption
  <2>. QED
    BY <2>1 DEF Init
<1>. QED
  BY <1>1, <1>2 DEF RunTypes

LEMMA NextRunTypes == RunTypes /\ [Next]_vars => RunTypes'
<1> SUFFICES ASSUME RunTypes, [Next]_vars PROVE RunTypes'
  OBVIOUS
<1>1. CASE Collector
  BY <1>1, ClusterStatusAssumption
     DEF Collector, RunTypes, WaitForCacheSync, CacheSyncCancelled,
         GetKubernetesVersion, ListNodes, NilVersionPanic, BuildStatus,
         SetLock, SetAssign, SetStamp, NextRound, Stop, envVars
<1>2. CASE \E r \in Readers : Reader(r)
  BY <1>2 DEF Reader, ReadLock, ReadCopy, RunTypes, collectorVars, envVars
<1>3. CASE Environment
  <2>1. CASE \E n \in Nodes, c \in CondLists \cup {Absent} : NodeChange(n, c)
    BY <2>1 DEF NodeChange, RunTypes, collectorVars
  <2>2. CASE CachesSynced
    BY <2>2, Zenon DEF CachesSynced, RunTypes, collectorVars
  <2>3. CASE Cancel
    BY <2>3, Zenon DEF Cancel, RunTypes, collectorVars
  <2>4. CASE ApiserverFlip
    BY <2>4 DEF ApiserverFlip, RunTypes, collectorVars
  <2>5. CASE Tick
    BY <2>5 DEF Tick, RunTypes, collectorVars
  <2>. QED
    BY <1>3, <2>1, <2>2, <2>3, <2>4, <2>5 DEF Environment
<1>4. CASE UNCHANGED vars
  BY <1>4 DEF vars, RunTypes, envVars, collectorVars, readerVars
<1>. QED
  BY <1>1, <1>2, <1>3, <1>4 DEF Next

-----------------------------------------------------------------------------
(* The theorems                                                            *)

(* setClusterStatus installs the new status with the zero LastObservedTime *)
(* and stamps it in a second statement (lines 146-147); for every number   *)
(* of readers and rounds, the mutex keeps every caller of GetClusterStatus  *)
(* from obtaining that unstamped status.                                   *)
THEOREM StatusReadsStamped == Spec => []ReadsStamped
<1>1. IInv => ReadsStamped
  BY ClusterStatusAssumption DEF IInv, ReadsStamped
<1>. QED
  BY InitIInv, NextIInv, <1>1, PTL DEF Spec

(* The controller implements the atomic status store of                   *)
(* ClusterStatusStore under the mapping PublishedStatus: although          *)
(* setClusterStatus replaces the status and then stamps it (lines          *)
(* 146-147), and the clock moves meanwhile, every GetClusterStatus call    *)
(* returns the status current when it returns, and LastObservedTime never  *)
(* moves backwards, for every number of readers, nodes and rounds.         *)
THEOREM StatusImplementsStore == Spec => StoreRefinement
<1>1. Init => Store!Init
  <2> SUFFICES ASSUME Init PROVE Store!Init
    OBVIOUS
  <2>1. PublishedStatus = Nil
    BY DEF Init, PublishedStatus
  <2>2. Calling = {}
    BY DEF Init, Calling
  <2>. QED
    BY <2>1, <2>2 DEF Init, Store!Init
<1>. QED
  BY <1>1, InitIInv, NextIInv, StoreStep, PTL
     DEF Spec, StoreRefinement, Store!Spec


(* The controller's state keeps its types in every reachable state: in     *)
(* particular the published status is nil or a well-formed status record   *)
(* (a round whose version call failed dereferences nil at line 121 and     *)
(* crashes before it publishes anything) and every GetClusterStatus result *)
(* is nil or a stamped time.                                               *)
THEOREM StatusTypeCorrect == Spec => []StatusTypeOK
<1>1. IInv /\ RunTypes => StatusTypeOK
  BY DEF IInv, RunTypes, StatusTypeOK, Stages, Listings
<1>2. Init => IInv /\ RunTypes
  BY InitIInv, InitRunTypes
<1>3. IInv /\ RunTypes /\ [Next]_vars => (IInv /\ RunTypes)'
  BY NextIInv, NextRunTypes
<1>. QED
  BY <1>1, <1>2, <1>3, PTL DEF Spec

=============================================================================
