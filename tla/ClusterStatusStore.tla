------------------------- MODULE ClusterStatusStore -------------------------
(***************************************************************************)
(* What setClusterStatus and GetClusterStatus promise together             *)
(* (src/pkg/controllers/clusters/clusterstatus/clusterstatus_controller.go,*)
(* lines 138-160): the controller holds one status, replaced at once by a  *)
(* stamped status whose LastObservedTime is not older than that of the one *)
(* it replaces, and a call of GetClusterStatus returns nil before the      *)
(* first status and otherwise the status current when it returns.  The   *)
(* intermediate state of setClusterStatus, a new status with the zero     *)
(* time, is not a state of this specification.                            *)
(***************************************************************************)
EXTENDS Naturals

CONSTANTS
    Readers,   \* goroutines calling GetClusterStatus
    MaxClock,  \* bound on LastObservedTime
    Nil        \* a nil pointer

VARIABLES
    status,     \* the current status (a record with an `observed` field) or Nil
    calling,    \* the callers inside GetClusterStatus
    readResult  \* the LastObservedTime each caller last got, or Nil

storeVars == <<status, calling, readResult>>

Init ==
    /\ status = Nil
    /\ calling = {}
    /\ readResult = [r \in Readers |-> Nil]

(* setClusterStatus: the status is replaced by one stamped no earlier than *)
(* the current one.                                                        *)
Publish ==
    /\ status' # Nil
    /\ status'.observed \in 1..MaxClock
    /\ status # Nil => status.observed <= status'.observed
    /\ UNCHANGED <<calling, readResult>>

(* A caller enters GetClusterStatus.                                       *)
Call(r) ==
    /\ r \notin calling
    /\ calling' = calling \cup {r}
    /\ UNCHANGED <<status, readResult>>

(* GetClusterStatus returns nil, or a copy of the status current at the    *)
(* moment it returns.                                                      *)
Return(r) ==
    /\ r \in calling
    /\ calling' = calling \ {r}
    /\ readResult' = [readResult EXCEPT ![r] =
                        IF status = Nil THEN Nil ELSE status.observed]
    /\ UNCHANGED status

Next == Publish \/ \E r \in Readers : Call(r) \/ Return(r)

Spec == Init /\ [][Next]_storeVars

=============================================================================
