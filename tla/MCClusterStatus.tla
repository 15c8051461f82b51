-------------------------- MODULE MCClusterStatus --------------------------
(* Small instances of the cluster-status controller for TLC.               *)
EXTENDS ClusterStatus, TLC

(* Node condition lists: none (a lost node), Ready first, Ready after      *)
(* another condition, and a Ready Unknown followed by another condition.   *)
MCCondLists ==
    { <<>>,
      <<[type |-> "Ready", status |-> "True"]>>,
      <<[type |-> "MemoryPressure", status |-> "False"],
        [type |-> "Ready", status |-> "False"]>>,
      <<[type |-> "Ready", status |-> "Unknown"],
        [type |-> "MemoryPressure", status |-> "False"]>> }
=============================================================================
