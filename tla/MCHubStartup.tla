---------------------------- MODULE MCHubStartup ----------------------------
(* The hub start-up for TLC: the informers each component reads.  The      *)
(* approver reads the informers NewHub registers for the minimum           *)
(* requirements, the deployer the apps informers, the shadow template      *)
(* storage the Manifests informer.                                         *)
EXTENDS HubStartup, TLC

MCUses ==
    [approver |-> KubeInformers \cup ClusternetClusterInformers,
     deployer |-> AppsInformers,
     shadow |-> {"manifests"}]
=============================================================================
