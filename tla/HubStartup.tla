---------------------------- MODULE HubStartup ----------------------------
(***************************************************************************)
(* Start-up of clusternet-hub (package hub: NewHub, Run, RunAPIServer).    *)
(*                                                                         *)
(* NewHub builds three shared informer factories, constructs the CRR       *)
(* approver and, behind the Deployer gate, the deployer, asks the          *)
(* factories for the informers the hub needs, and starts the factories.    *)
(* A factory's Start runs only the informers requested so far: an informer *)
(* requested after Start is created but never run, and its cache never     *)
(* syncs.  Run starts the approver and deployer goroutines and then        *)
(* RunAPIServer builds the apiserver, whose shadow API (ShadowAPI gate)    *)
(* creates the template storage, which takes the Manifests lister of the   *)
(* clusternet factory long after that factory was started.                 *)
(***************************************************************************)
EXTENDS FiniteSets

CONSTANTS
    Uses,         \* the informers each component takes a lister of
    MayFail       \* the start-up calls that may return an error

(* The informer factories of NewHub (lines 84-86).                         *)
Factories == {"kube", "clusternet", "crd"}

(* The feature gates NewHub reads that decide what it registers and runs  *)
(* (lines 71, 103, 120); SocketConnection (line 70) is only passed on.     *)
Gates == {"Deployer", "ShadowAPI"}

(* The components that read informer caches.                               *)
Components == {"approver", "deployer", "shadow"}

(* The informers the code requests, by factory.                            *)
KubeInformers == {"namespaces", "serviceaccounts", "secrets"}
ClusternetClusterInformers == {"clusterregistrationrequests", "managedclusters"}
AppsInformers == {"manifests", "bases", "subscriptions", "helmcharts",
                  "descriptions", "helmreleases", "localizations",
                  "globalizations"}
CRDInformers == {"customresourcedefinitions"}
Informers == KubeInformers \cup ClusternetClusterInformers \cup AppsInformers
               \cup CRDInformers

FactoryOf(i) ==
    IF i \in KubeInformers THEN "kube"
    ELSE IF i \in CRDInformers THEN "crd" ELSE "clusternet"

(* The calls of NewHub and RunAPIServer that return an error.              *)
Calls == {"LoadsKubeConfig", "NewCRRApprover", "NewDeployer", "Config", "New",
          "Run"}

ASSUME HubAssumption ==
    /\ Uses \in [Components -> SUBSET Informers]
    /\ MayFail \subseteq Calls

VARIABLES
    gates,        \* the enabled feature gates
    hpc,          \* where the hub's main goroutine is
    registered,   \* informers requested from their factory
    running,      \* informers a factory Start has run
    factoryStarted, \* factories whose Start has been called
    synced,       \* informers whose cache has synced
    used,         \* informers whose lister a constructed component holds
    apc,          \* the approver goroutine
    dpc,          \* the deployer goroutine
    genericStarted \* the generic apiserver's informer factory was started

vars == <<gates, hpc, registered, running, factoryStarted, synced, used, apc,
          dpc, genericStarted>>

-----------------------------------------------------------------------------
(* NewHub (lines 69-146)                                                   *)

(* A call that may fail ends start-up: NewHub or Run returns the error and *)
(* the command exits.                                                      *)
Fail(call) ==
    /\ call \in MayFail
    /\ hpc' = "exited"

(* Seeded fault: a component reads a lister it never asked the factory    *)
(* for.                                                                    *)
ConstructNoRegister(c) ==
    /\ registered' = registered
    /\ used' = used \cup Uses[c]

(* A component is constructed: it asks for its informers (Informer() or    *)
(* Lister() on the factory), which registers them.                         *)
Construct(c) ==
    /\ registered' = registered \cup Uses[c]
    /\ used' = used \cup Uses[c]

(* Lines 73-76: load the kubeconfig; lines 79-86 cannot fail.              *)
LoadConfig ==
    /\ hpc = "new"
    /\ \/ /\ hpc' = "approver"
       \/ Fail("LoadsKubeConfig")
    /\ UNCHANGED <<gates, registered, running, factoryStarted, synced, used,
                   apc, dpc, genericStarted>>

(* Lines 87-91: approver.NewCRRApprover.                                   *)
NewApprover ==
    /\ hpc = "approver"
    /\ \/ /\ Construct("approver")
          /\ hpc' = "minimum"
       \/ /\ Fail("NewCRRApprover")
          /\ UNCHANGED <<registered, used>>
    /\ UNCHANGED <<gates, running, factoryStarted, synced, apc, dpc,
                   genericStarted>>

(* Lines 95-100: the informers for the minimum requirements.               *)
RegisterMinimum ==
    /\ hpc = "minimum"
    /\ registered' = registered \cup KubeInformers \cup
                       ClusternetClusterInformers \cup CRDInformers
    /\ hpc' = "deployer"
    /\ UNCHANGED <<gates, running, factoryStarted, synced, used, apc, dpc,
                   genericStarted>>

(* Lines 102-118: with the Deployer gate, the apps informers, then         *)
(* deployer.NewDeployer.                                                   *)
NewDeployerStep ==
    /\ hpc = "deployer"
    /\ \/ /\ "Deployer" \notin gates
          /\ hpc' = "shadow"
          /\ UNCHANGED <<registered, used>>
       \/ /\ "Deployer" \in gates
          /\ \/ /\ registered' = registered \cup AppsInformers \cup Uses["deployer"]
                /\ used' = used \cup Uses["deployer"]
                /\ hpc' = "shadow"
             \/ /\ Fail("NewDeployer")
                /\ UNCHANGED <<registered, used>>
    /\ UNCHANGED <<gates, running, factoryStarted, synced, apc, dpc,
                   genericStarted>>

(* Seeded fault: the ShadowAPI pre-registration is left out.               *)
ShadowPreRegisteredNone == {}

(* Lines 120-122: with the ShadowAPI gate, the Manifests informer.         *)
ShadowPreRegistered ==
    IF "ShadowAPI" \in gates THEN {"manifests"} ELSE {}

RegisterShadow ==
    /\ hpc = "shadow"
    /\ registered' = registered \cup ShadowPreRegistered
    /\ hpc' = "start"
    /\ UNCHANGED <<gates, running, factoryStarted, synced, used, apc, dpc,
                   genericStarted>>

(* Seeded fault: the crd and clusternet factories are never started.       *)
StartedByNewHubKubeOnly == {"kube"}

(* Lines 141-143: the factories NewHub starts.                             *)
StartedByNewHub == Factories

(* Lines 139-145: Start runs every informer registered so far.             *)
StartFactories ==
    /\ hpc = "start"
    /\ factoryStarted' = [f \in Factories |-> factoryStarted[f] \/ f \in StartedByNewHub]
    /\ running' = running \cup {i \in registered : FactoryOf(i) \in StartedByNewHub}
    /\ hpc' = "run"
    /\ UNCHANGED <<gates, registered, synced, used, apc, dpc, genericStarted>>

-----------------------------------------------------------------------------
(* Run and RunAPIServer (lines 148-189)                                    *)

(* Lines 149-157: the approver and, with the Deployer gate, the deployer   *)
(* goroutines start.                                                       *)
StartControllers ==
    /\ hpc = "run"
    /\ apc' = "waiting"
    /\ dpc' = IF "Deployer" \in gates THEN "waiting" ELSE "none"
    /\ hpc' = "config"
    /\ UNCHANGED <<gates, registered, running, factoryStarted, synced, used,
                   genericStarted>>

(* Lines 164-168: hub.options.Config().                                    *)
LoadServerConfig ==
    /\ hpc = "config"
    /\ \/ hpc' = "install"
       \/ Fail("Config")
    /\ UNCHANGED <<gates, registered, running, factoryStarted, synced, used,
                   apc, dpc, genericStarted>>

(* Lines 170-177: config.Complete().New; with the ShadowAPI gate it        *)
(* installs the shadow groups, whose template storage takes the listers of *)
(* Uses["shadow"] from the (already started) clusternet factory.           *)
NewServer ==
    /\ hpc = "install"
    /\ \/ /\ "ShadowAPI" \in gates
          /\ Construct("shadow")
          /\ hpc' = "hook"
       \/ /\ "ShadowAPI" \notin gates
          /\ hpc' = "hook"
          /\ UNCHANGED <<registered, used>>
       \/ /\ Fail("New")
          /\ UNCHANGED <<registered, used>>
    /\ UNCHANGED <<gates, running, factoryStarted, synced, apc, dpc,
                   genericStarted>>

(* Lines 181-188: PrepareRun().Run serves and runs the post-start hook,    *)
(* which starts the generic apiserver's informer factory; Run returns an   *)
(* error if the server cannot listen.                                      *)
Serve ==
    /\ hpc = "hook"
    /\ \/ /\ hpc' = "serving"
          /\ genericStarted' = TRUE
       \/ /\ Fail("Run")
          /\ UNCHANGED genericStarted
    /\ UNCHANGED <<gates, registered, running, factoryStarted, synced, used,
                   apc, dpc>>

-----------------------------------------------------------------------------
(* Informers and controllers                                               *)

(* A running informer lists from the apiserver and its cache syncs.        *)
Sync(i) ==
    /\ hpc # "exited"
    /\ i \in running \ synced
    /\ synced' = synced \cup {i}
    /\ UNCHANGED <<gates, hpc, registered, running, factoryStarted, used, apc,
                   dpc, genericStarted>>

(* approver.Run and deployer.Run wait for their caches, then run workers.  *)
ApproverSynced ==
    /\ hpc # "exited"
    /\ apc = "waiting"
    /\ Uses["approver"] \subseteq synced
    /\ apc' = "running"
    /\ UNCHANGED <<gates, hpc, registered, running, factoryStarted, synced,
                   used, dpc, genericStarted>>

DeployerSynced ==
    /\ hpc # "exited"
    /\ dpc = "waiting"
    /\ Uses["deployer"] \subseteq synced
    /\ dpc' = "running"
    /\ UNCHANGED <<gates, hpc, registered, running, factoryStarted, synced,
                   used, apc, genericStarted>>

Main ==
    \/ LoadConfig \/ NewApprover \/ RegisterMinimum \/ NewDeployerStep
    \/ RegisterShadow \/ StartFactories \/ StartControllers
    \/ LoadServerConfig \/ NewServer \/ Serve

Next == Main \/ (\E i \in Informers : Sync(i)) \/ ApproverSynced \/ DeployerSynced

Init ==
    /\ gates \in SUBSET Gates
    /\ hpc = "new"
    /\ registered = {}
    /\ running = {}
    /\ factoryStarted = [f \in Factories |-> FALSE]
    /\ synced = {}
    /\ used = {}
    /\ apc = "none"
    /\ dpc = "none"
    /\ genericStarted = FALSE

(* The main goroutine, the reflectors of running informers and the         *)
(* controller goroutines are all scheduled by the Go runtime.              *)
Spec ==
    /\ Init /\ [][Next]_vars
    /\ WF_vars(Main)
    /\ \A i \in Informers : WF_vars(Sync(i))
    /\ WF_vars(ApproverSynced)
    /\ WF_vars(DeployerSynced)
-----------------------------------------------------------------------------
(* Properties                                                              *)

HubTypeOK ==
    /\ gates \subseteq Gates
    /\ hpc \in {"new", "approver", "minimum", "deployer", "shadow", "start",
               "run", "config", "install", "hook", "serving", "exited"}
    /\ registered \subseteq Informers
    /\ running \subseteq registered
    /\ factoryStarted \in [Factories -> BOOLEAN]
    /\ synced \subseteq running
    /\ used \subseteq registered
    /\ apc \in {"none", "waiting", "running"}
    /\ dpc \in {"none", "waiting", "running"}
    /\ genericStarted \in BOOLEAN

(* Once its factory has been started, every informer a component reads    *)
(* from is running: NewHub registers every informer before Start, and the  *)
(* shadow template storage, built in RunAPIServer after Start, finds the   *)
(* Manifests informer already registered, whatever the gates.              *)
UsedInformersRunning ==
    \A i \in used : factoryStarted[FactoryOf(i)] => i \in running

(* Once the hub serves, the approver and, with the Deployer gate, the      *)
(* deployer get past their cache sync and run their workers.               *)
ControllersEventuallyRun ==
    (hpc = "serving") ~> (apc = "running" /\ dpc \in {"none", "running"})

=============================================================================
