------------------------- MODULE HubStartupProofs -------------------------
(***************************************************************************)
(* Proofs about the hub start-up model, for every value of Uses and        *)
(* MayFail that satisfies HubAssumption: the informers the shadow template *)
(* storage reads, taken after the factories started, are running, as long  *)
(* as that storage reads no informer other than the one NewHub             *)
(* pre-registers under the ShadowAPI gate; and, whatever they read, every *)
(* informer a component reads is registered and only running informers     *)
(* sync.                                                                   *)
(***************************************************************************)
EXTENDS HubStartup, TLAPS

(* The stages of the main goroutine before and after the factories start. *)
BeforeStart == {"new", "approver", "minimum", "deployer", "shadow", "start"}
AfterStart == {"run", "config", "install", "hook", "serving"}

(* The inductive invariant: before Start nothing runs and no factory is    *)
(* started; from RegisterShadow on, the pre-registered informer is         *)
(* registered, and after Start it runs.                                    *)
IInv ==
    /\ HubTypeOK
    /\ UsedInformersRunning
    /\ hpc \in BeforeStart => /\ running = {}
                              /\ factoryStarted = [f \in Factories |-> FALSE]
    /\ hpc \in AfterStart => factoryStarted = [f \in Factories |-> TRUE]
    /\ hpc = "start" => ShadowPreRegistered \subseteq registered
    /\ hpc \in AfterStart => ShadowPreRegistered \subseteq running

(* The shadow template storage reads only the Manifests informer.          *)
ShadowReadsManifests == Uses["shadow"] \subseteq {"manifests"}

-----------------------------------------------------------------------------

LEMMA FactoryOfType == \A i \in Informers : FactoryOf(i) \in Factories
BY DEF FactoryOf, Factories

LEMMA InitIInv == Init => IInv
BY DEF Init, IInv, HubTypeOK, UsedInformersRunning, BeforeStart, AfterStart,
       Gates, Factories

LEMMA NextIInv ==
    ASSUME ShadowReadsManifests
    PROVE  IInv /\ [Next]_vars => IInv'
<1> SUFFICES ASSUME IInv, [Next]_vars PROVE IInv'
  OBVIOUS
<1> USE HubAssumption
<1>1. CASE LoadConfig
  BY <1>1 DEF LoadConfig, Fail, IInv, HubTypeOK, UsedInformersRunning,
              BeforeStart, AfterStart, ShadowPreRegistered
<1>2. CASE NewApprover
  <2>1. Uses["approver"] \subseteq Informers
    BY DEF Components
  <2>2. CASE Construct("approver") /\ hpc' = "minimum"
    BY <1>2, <2>1, <2>2, FactoryOfType DEF NewApprover, Construct, IInv, HubTypeOK,
                            UsedInformersRunning, BeforeStart, AfterStart
  <2>3. CASE Fail("NewCRRApprover") /\ UNCHANGED <<registered, used>>
    BY <1>2, <2>3 DEF NewApprover, Fail, IInv, HubTypeOK,
                      UsedInformersRunning, BeforeStart, AfterStart
  <2>. QED
    BY <1>2, <2>2, <2>3 DEF NewApprover
<1>3. CASE RegisterMinimum
  BY <1>3 DEF RegisterMinimum, IInv, HubTypeOK, UsedInformersRunning,
              BeforeStart, AfterStart, Informers
<1>4. CASE NewDeployerStep
  <2>1. Uses["deployer"] \subseteq Informers
    BY DEF Components
  <2>0. hpc = "deployer"
    BY <1>4 DEF NewDeployerStep
  <2>2. CASE /\ registered' = registered \cup AppsInformers \cup Uses["deployer"]
             /\ used' = used \cup Uses["deployer"]
             /\ hpc' = "shadow"
    BY <1>4, <2>0, <2>1, <2>2, FactoryOfType DEF NewDeployerStep, IInv, HubTypeOK,
                                  UsedInformersRunning, BeforeStart,
                                  AfterStart, Informers
  <2>3. CASE hpc' = "shadow" /\ UNCHANGED <<registered, used>>
    BY <1>4, <2>0, <2>3 DEF NewDeployerStep, IInv, HubTypeOK,
                            UsedInformersRunning, BeforeStart, AfterStart
  <2>4. CASE Fail("NewDeployer") /\ UNCHANGED <<registered, used>>
    BY <1>4, <2>0, <2>4 DEF NewDeployerStep, Fail, IInv, HubTypeOK,
                            UsedInformersRunning, BeforeStart, AfterStart
  <2>. QED
    BY <1>4, <2>2, <2>3, <2>4 DEF NewDeployerStep
<1>5. CASE RegisterShadow
  BY <1>5 DEF RegisterShadow, IInv, HubTypeOK, UsedInformersRunning,
              BeforeStart, AfterStart, ShadowPreRegistered, Informers,
              AppsInformers
<1>6. CASE StartFactories
  <2>1. hpc = "start" /\ running = {}
    BY <1>6 DEF StartFactories, IInv, BeforeStart
  <2>2. running' = registered
    BY <1>6, <2>1, FactoryOfType DEF StartFactories, StartedByNewHub, IInv,
                                     HubTypeOK
  <2>3. factoryStarted' = [f \in Factories |-> TRUE]
    BY <1>6 DEF StartFactories, StartedByNewHub
  <2>4. ShadowPreRegistered' \subseteq running'
    BY <1>6, <2>1, <2>2 DEF StartFactories, IInv, ShadowPreRegistered
  <2>. QED
    BY <1>6, <2>1, <2>2, <2>3, <2>4
       DEF StartFactories, IInv, HubTypeOK, UsedInformersRunning, BeforeStart,
           AfterStart
<1>7. CASE StartControllers
  BY <1>7 DEF StartControllers, IInv, HubTypeOK, UsedInformersRunning,
              BeforeStart, AfterStart, ShadowPreRegistered
<1>8. CASE LoadServerConfig
  BY <1>8 DEF LoadServerConfig, Fail, IInv, HubTypeOK, UsedInformersRunning,
              BeforeStart, AfterStart, ShadowPreRegistered
<1>9. CASE NewServer
  <2>1. hpc = "install" /\ factoryStarted = [f \in Factories |-> TRUE]
    BY <1>9 DEF NewServer, IInv, AfterStart
  <2>2. "ShadowAPI" \in gates => Uses["shadow"] \subseteq running
    BY <2>1 DEF IInv, ShadowPreRegistered, ShadowReadsManifests, AfterStart
  <2>3. UsedInformersRunning'
    BY <1>9, <2>1, <2>2 DEF NewServer, Construct, Fail, IInv,
                            UsedInformersRunning
  <2>4. HubTypeOK'
    BY <1>9, <2>2 DEF NewServer, Construct, Fail, IInv, HubTypeOK
  <2>. QED
    BY <1>9, <2>3, <2>4 DEF NewServer, Fail, IInv, BeforeStart, AfterStart,
                            ShadowPreRegistered
<1>10. CASE Serve
  BY <1>10 DEF Serve, Fail, IInv, HubTypeOK, UsedInformersRunning,
               BeforeStart, AfterStart, ShadowPreRegistered
<1>11. CASE \E i \in Informers : Sync(i)
  BY <1>11 DEF Sync, IInv, HubTypeOK, UsedInformersRunning, BeforeStart,
               AfterStart, ShadowPreRegistered
<1>12. CASE ApproverSynced
  BY <1>12 DEF ApproverSynced, IInv, HubTypeOK, UsedInformersRunning,
               BeforeStart, AfterStart, ShadowPreRegistered
<1>13. CASE DeployerSynced
  BY <1>13 DEF DeployerSynced, IInv, HubTypeOK, UsedInformersRunning,
               BeforeStart, AfterStart, ShadowPreRegistered
<1>14. CASE UNCHANGED vars
  BY <1>14 DEF vars, IInv, HubTypeOK, UsedInformersRunning, BeforeStart,
               AfterStart, ShadowPreRegistered
<1>. QED
  BY <1>1, <1>2, <1>3, <1>4, <1>5, <1>6, <1>7, <1>8, <1>9, <1>10, <1>11,
     <1>12, <1>13, <1>14 DEF Next, Main

-----------------------------------------------------------------------------
(* Types, for every Uses                                                   *)

LEMMA InitHubTypeOK == Init => HubTypeOK
BY Zenon DEF Init, HubTypeOK

(* Every step keeps the types, and in particular keeps every informer a    *)
(* component reads registered, every running informer registered and every *)
(* synced informer running, whatever the components read.                 *)
LEMMA NextHubTypeOK == HubTypeOK /\ [Next]_vars => HubTypeOK'
<1> SUFFICES ASSUME HubTypeOK, [Next]_vars PROVE HubTypeOK'
  OBVIOUS
<1> USE HubAssumption
<1>1. CASE LoadConfig
  BY <1>1 DEF LoadConfig, Fail, HubTypeOK
<1>2. CASE NewApprover
  BY <1>2 DEF NewApprover, Construct, ConstructNoRegister, Fail, HubTypeOK,
         Components
<1>3. CASE RegisterMinimum
  BY <1>3 DEF RegisterMinimum, HubTypeOK, Informers
<1>4. CASE NewDeployerStep
  BY <1>4 DEF NewDeployerStep, Construct, ConstructNoRegister, Fail, HubTypeOK,
         Informers, Components
<1>5. CASE RegisterShadow
  BY <1>5 DEF RegisterShadow, ShadowPreRegistered, HubTypeOK, Informers,
               AppsInformers
<1>6. CASE StartFactories
  BY <1>6 DEF StartFactories, StartedByNewHub, HubTypeOK
<1>7. CASE StartControllers
  BY <1>7 DEF StartControllers, HubTypeOK
<1>8. CASE LoadServerConfig
  BY <1>8 DEF LoadServerConfig, Fail, HubTypeOK
<1>9. CASE NewServer
  BY <1>9 DEF NewServer, Construct, ConstructNoRegister, Fail, HubTypeOK,
         Components
<1>10. CASE Serve
  BY <1>10, Zenon DEF Serve, Fail, HubTypeOK
<1>11. CASE \E i \in Informers : Sync(i)
  BY <1>11 DEF Sync, HubTypeOK
<1>12. CASE ApproverSynced
  BY <1>12 DEF ApproverSynced, HubTypeOK
<1>13. CASE DeployerSynced
  BY <1>13 DEF DeployerSynced, HubTypeOK
<1>14. CASE UNCHANGED vars
  BY <1>14 DEF vars, HubTypeOK
<1>. QED
  BY <1>1, <1>2, <1>3, <1>4, <1>5, <1>6, <1>7, <1>8, <1>9, <1>10, <1>11,
     <1>12, <1>13, <1>14 DEF Next, Main


(* Whatever gates are on and wherever start-up fails, every informer a     *)
(* component of the hub reads is running once its factory has started,    *)
(* provided the shadow template storage, built by RunAPIServer after the   *)
(* factories started, reads only the Manifests informer that NewHub        *)
(* pre-registers under the ShadowAPI gate.                                 *)
THEOREM UsedInformersAlwaysRunning ==
    ShadowReadsManifests => (Spec => []UsedInformersRunning)
<1> SUFFICES ASSUME ShadowReadsManifests PROVE Spec => []UsedInformersRunning
  OBVIOUS
<1>1. IInv => UsedInformersRunning
  BY DEF IInv
<1>. QED
  BY InitIInv, NextIInv, <1>1, PTL DEF Spec


(* For every Uses and MayFail, the hub's state keeps its types: every       *)
(* informer a constructed component reads has been requested from its      *)
(* factory, only requested informers run, and only running informers sync. *)
THEOREM HubTypeCorrect == Spec => []HubTypeOK
BY InitHubTypeOK, NextHubTypeOK, PTL DEF Spec

=============================================================================
