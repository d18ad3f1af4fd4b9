-------------------------- MODULE DeploymentsProofs --------------------------
(***************************************************************************)
(* Proofs about Deployments, for any sets of requests.                     *)
(***************************************************************************)
EXTENDS Deployments, TLAPS

USE RequestsAssumption

-----------------------------------------------------------------------------
(* Type correctness.                                                       *)

LEMMA InitType == Init => TypeOK
BY DEF Init, TypeOK, Phases, JobStatuses, DeploymentStatuses, Deploys, Rollbacks,
       Containers, Requests

LEMMA NextType == TypeOK /\ [Next]_vars => TypeOK'
<1> SUFFICES ASSUME TypeOK, [Next]_vars PROVE TypeOK'
  OBVIOUS
<1> USE DEF TypeOK, Phases, JobStatuses, DeploymentStatuses
<1>1. ASSUME NEW p \in Requests, Arrive(p) PROVE TypeOK'
  <2>1. CASE CreateStaticDeployment(p)
    BY <2>1 DEF CreateStaticDeployment, OpenPipeline, Deploys, Requests
  <2>2. CASE CreateContainerDeployment(p)
    BY <2>2 DEF CreateContainerDeployment, OpenPipeline, Deploys, Requests
  <2>3. ASSUME NEW d \in Deploys, LockStaticTarget(p, d) PROVE TypeOK'
    BY <2>3 DEF LockStaticTarget, LockTarget
  <2>4. ASSUME NEW d \in Deploys, LockContainerTarget(p, d) PROVE TypeOK'
    BY <2>4 DEF LockContainerTarget, LockTarget
  <2> QED BY <1>1, <2>1, <2>2, <2>3, <2>4 DEF Arrive
<1>2. ASSUME NEW p \in Requests, Advance(p) PROVE TypeOK'
  <2>1. CASE BuildTimesOut(p)
    BY <2>1 DEF BuildTimesOut
  <2>2. ASSUME NEW v \in {"clean", "blocked"}, ScanArtifact(p, v) PROVE TypeOK'
    BY <2>2 DEF ScanArtifact, EnforceScanPolicy
  <2>3. CASE StartWorkload(p)
    BY <2>3 DEF StartWorkload, Deploys
  <2>4. CASE FailBuildJob(p)
    BY <2>4 DEF FailBuildJob
  <2>5. CASE FailDeployment(p)
    BY <2>5 DEF FailDeployment
  <2>6. CASE SupersedeRunning(p)
    BY <2>6 DEF SupersedeRunning, Running
  <2>7. CASE TerminateInstances(p)
    BY <2>7 DEF TerminateInstances, Live
  <2>8. CASE ActivateStatic(p)
    BY <2>8 DEF ActivateStatic, SwitchRunning, Publish, Leave, Deploys, Requests
  <2>9. CASE ActivateContainer(p)
    BY <2>9 DEF ActivateContainer, SwitchRunning, Publish, ReplaceInstance, Leave
  <2>10. CASE RollbackStatic(p)
    BY <2>10 DEF RollbackStatic, SwitchRunning, Leave
  <2>11. CASE RollbackContainer(p)
    BY <2>11 DEF RollbackContainer, SwitchRunning, ReplaceInstance, Leave
  <2>12. CASE WorkloadConflict(p) \/ DeadlockVictim(p)
    BY <2>12 DEF WorkloadConflict, DeadlockVictim, Abort, Leave
  <2> QED BY <1>2, <2>1, <2>2, <2>3, <2>4, <2>5, <2>6, <2>7, <2>8, <2>9, <2>10,
             <2>11, <2>12 DEF Advance
<1>3. ASSUME NEW p \in Requests, Die(p) PROVE TypeOK'
  BY <1>3 DEF Die, Abort, Leave
<1>4. ASSUME NEW d \in Deploys, OverrideScan(d) PROVE TypeOK'
  BY <1>4 DEF OverrideScan
<1>5. CASE Quiescent \/ UNCHANGED vars
  BY <1>5 DEF Quiescent, vars
<1> QED BY <1>1, <1>2, <1>3, <1>4, <1>5 DEF Next

\* Every variable keeps the type the handlers give it.
THEOREM TypeCorrect == Spec => []TypeOK
BY InitType, NextType, PTL DEF Spec

-----------------------------------------------------------------------------
(* The inductive invariant: what a request's place in its handler says     *)
(* about the rows it works on.                                             *)

DeployStage ==
    \A d \in Deploys :
       /\ target[d] = d
       /\ pc[d] # "locked"
       /\ pc[d] \in {"idle", "created"} => scan[d] = "none"
       /\ pc[d] \in {"scanned", "started", "superseding", "replacing"}
             => scan[d] = "clean"
       /\ pc[d] \notin {"done", "dead"} => imageRef[d] # "published"
       /\ pc[d] = "job_failed" => buildJob[d] = "failed"

RollbackStage ==
    \A r \in Rollbacks :
       /\ pc[r] \in {"idle", "locked", "superseding", "replacing", "done", "dead"}
       /\ Open(r) => target[r] \in Deploys
       /\ r \in ContainerRollbacks /\ Open(r) => imageRef[target[r]] = "published"

LiveStage == \A p \in Live : pc[p] = "done" /\ target[p] \in Deploys

IInv == TypeOK /\ DeployStage /\ RollbackStage /\ LiveStage
          /\ RecordsAgree /\ OnlyCleanCodeRuns /\ OneLiveInstance

LEMMA InitIInv == Init => IInv
<1> SUFFICES ASSUME Init PROVE IInv
  OBVIOUS
<1>1. TypeOK
  BY InitType
<1>2. DeployStage /\ RollbackStage
  BY DEF Init, DeployStage, RollbackStage, Open, Requests, Deploys, Rollbacks
<1>3. LiveStage /\ OneLiveInstance
  BY DEF Init, LiveStage, OneLiveInstance, Live
<1>4. RecordsAgree /\ OnlyCleanCodeRuns
  BY DEF Init, RecordsAgree, OnlyCleanCodeRuns, Live
<1> QED BY <1>1, <1>2, <1>3, <1>4 DEF IInv

LEMMA NextIInv == IInv /\ [Next]_vars => IInv'
<1> SUFFICES ASSUME IInv, [Next]_vars PROVE IInv'
  OBVIOUS
<1> TypeOK'
  BY NextType DEF IInv
<1> USE DEF IInv, DeployStage, RollbackStage, LiveStage, RecordsAgree,
            OnlyCleanCodeRuns, OneLiveInstance, Live, Running, Open, TypeOK,
            Deploys, Rollbacks, Containers, Requests
<1>1. ASSUME NEW p \in Requests, Arrive(p) PROVE IInv'
  <2>1. CASE CreateStaticDeployment(p)
    <3> USE <2>1 DEF CreateStaticDeployment, OpenPipeline
    <3>1. DeployStage' /\ RollbackStage'
      OBVIOUS
    <3>2. LiveStage' /\ OneLiveInstance'
      OBVIOUS
    <3>3. RecordsAgree'
      OBVIOUS
    <3>4. OnlyCleanCodeRuns'
      OBVIOUS
    <3> QED BY <3>1, <3>2, <3>3, <3>4
  <2>2. CASE CreateContainerDeployment(p)
    <3> USE <2>2 DEF CreateContainerDeployment, OpenPipeline
    <3>1. DeployStage' /\ RollbackStage'
      OBVIOUS
    <3>2. LiveStage' /\ OneLiveInstance'
      OBVIOUS
    <3>3. RecordsAgree'
      OBVIOUS
    <3>4. OnlyCleanCodeRuns'
      OBVIOUS
    <3> QED BY <3>1, <3>2, <3>3, <3>4
  <2>3. ASSUME NEW d \in Deploys, LockStaticTarget(p, d) PROVE IInv'
    BY <2>3 DEF LockStaticTarget, LockTarget
  <2>4. ASSUME NEW d \in Deploys, LockContainerTarget(p, d) PROVE IInv'
    BY <2>4 DEF LockContainerTarget, LockTarget
  <2> QED BY <1>1, <2>1, <2>2, <2>3, <2>4 DEF Arrive
<1>2. ASSUME NEW p \in Requests, Advance(p) PROVE IInv'
  <2>1. CASE BuildTimesOut(p)
    BY <2>1 DEF BuildTimesOut
  <2>2. CASE StartWorkload(p)
    BY <2>2 DEF StartWorkload
  <2>3. CASE FailBuildJob(p)
    BY <2>3 DEF FailBuildJob
  <2>4. CASE FailDeployment(p)
    BY <2>4 DEF FailDeployment
  <2>5. CASE SupersedeRunning(p)
    BY <2>5 DEF SupersedeRunning, ReadyToActivate
  <2>6. CASE TerminateInstances(p)
    BY <2>6 DEF TerminateInstances
  <2>7. CASE ActivateStatic(p)
    BY <2>7 DEF ActivateStatic, Committing, SwitchRunning, Publish, Leave
  <2>8. CASE ActivateContainer(p)
    BY <2>8 DEF ActivateContainer, Committing, SwitchRunning, Publish, ReplaceInstance, UniqueActiveWorkload, Leave
  <2>9. CASE RollbackStatic(p)
    BY <2>9 DEF RollbackStatic, Committing, SwitchRunning, Leave
  <2>10. CASE RollbackContainer(p)
    BY <2>10 DEF RollbackContainer, Committing, SwitchRunning, ReplaceInstance, UniqueActiveWorkload, Leave
  <2>11. ASSUME NEW v \in {"clean", "blocked"}, ScanArtifact(p, v) PROVE IInv'
    <3> USE <2>11 DEF ScanArtifact, EnforceScanPolicy
    <3>1. DeployStage' /\ RollbackStage'
      OBVIOUS
    <3>2. LiveStage' /\ OneLiveInstance'
      OBVIOUS
    <3>3. RecordsAgree'
      OBVIOUS
    <3>4. OnlyCleanCodeRuns'
      OBVIOUS
    <3> QED BY <3>1, <3>2, <3>3, <3>4
  <2>12. CASE WorkloadConflict(p) \/ DeadlockVictim(p)
    <3>1. Committing(p) /\ Abort(p)
      BY <2>12 DEF WorkloadConflict, DeadlockVictim, WaitsFor
    <3> QED BY <3>1, SMTT(20) DEF Committing, Abort, Leave
  <2> QED BY <1>2, <2>1, <2>2, <2>3, <2>4, <2>5, <2>6, <2>7, <2>8, <2>9, <2>10, <2>11, <2>12 DEF Advance
<1>3. ASSUME NEW p \in Requests, Die(p) PROVE IInv'
  BY <1>3 DEF Die, Abort, Leave
<1>4. ASSUME NEW d \in Deploys, OverrideScan(d) PROVE IInv'
  BY <1>4 DEF OverrideScan
<1>5. CASE Quiescent \/ UNCHANGED vars
  BY <1>5 DEF Quiescent, vars
<1> QED BY <1>1, <1>2, <1>3, <1>4, <1>5 DEF Next

LEMMA IInvHolds == Spec => []IInv
BY InitIInv, NextIInv, PTL DEF Spec

\* At most one live instance row per environment, whatever the interleaving of
\* the handlers' statements.
THEOREM OneLive == Spec => []OneLiveInstance
<1>1. IInv => OneLiveInstance
  BY DEF IInv
<1> QED BY <1>1, IInvHolds, PTL

\* Neither the cluster nor a live instance row ever runs a release whose own
\* scan was not clean.
THEOREM CleanCode == Spec => []OnlyCleanCodeRuns
<1>1. IInv => OnlyCleanCodeRuns
  BY DEF IInv
<1> QED BY <1>1, IInvHolds, PTL

\* Job, scan and deployment of one deploy agree.
THEOREM Records == Spec => []RecordsAgree
<1>1. IInv => RecordsAgree
  BY DEF IInv
<1> QED BY <1>1, IInvHolds, PTL

-----------------------------------------------------------------------------
(* The instance rows implement the runtime slot.                           *)

LEMMA InitSlot == Init => Slot!SlotInit
BY DEF Init, Slot!SlotInit, Occupant, Live

\* A step that moves neither a live row, its target nor a clean scan stutters.
LEMMA SlotStutters ==
    ASSUME Live' = Live, \A p \in Live : target'[p] = target[p],
           {d \in Deploys : scan[d] = "clean"}' = {d \in Deploys : scan[d] = "clean"}
    PROVE  UNCHANGED Slot!slotVars
<1>1. CASE Live = {}
  BY <1>1 DEF Occupant, Slot!slotVars
<1>2. CASE Live # {}
  <2>1. (CHOOSE p \in Live : TRUE) \in Live
    BY <1>2
  <2>2. Occupant' = Occupant
    BY <1>2, <2>1 DEF Occupant
  <2> QED BY <2>2 DEF Slot!slotVars
<1> QED BY <1>1, <1>2

\* A container activation puts its own, accepted, target into the slot.
LEMMA SlotOccupied ==
    ASSUME IInv, IInv', NEW p \in Containers, ReplaceInstance(p),
           UNCHANGED <<target, scan>>, target[p] \in Deploys
    PROVE  \E d \in Deploys : Slot!Occupy(d)
<1>1. p \in Live'
  BY DEF ReplaceInstance, Live, IInv, TypeOK
<1>2. OneLiveInstance' /\ OnlyCleanCodeRuns'
  BY DEF IInv
<1>3. Occupant' = target[p]
  <2>1. (CHOOSE q \in Live' : TRUE) \in Live'
    BY <1>1
  <2>2. (CHOOSE q \in Live' : TRUE) = p
    BY <1>1, <1>2, <2>1 DEF OneLiveInstance
  <2> QED BY <1>1, <2>2 DEF Occupant
<1>4. scan[target[p]] = "clean"
  BY <1>1, <1>2 DEF OnlyCleanCodeRuns
<1> QED BY <1>3, <1>4 DEF Slot!Occupy

LEMMA NextSlot == IInv /\ IInv' /\ [Next]_vars => [Slot!SlotNext]_(Slot!slotVars)
<1> SUFFICES ASSUME IInv, IInv', [Next]_vars PROVE [Slot!SlotNext]_(Slot!slotVars)
  OBVIOUS
<1> DEFINE Clean == {d \in Deploys : scan[d] = "clean"}
<1>1. ASSUME NEW p \in Containers, ReplaceInstance(p), UNCHANGED <<target, scan>>,
             target[p] \in Deploys
      PROVE  [Slot!SlotNext]_(Slot!slotVars)
  BY <1>1, SlotOccupied DEF Slot!SlotNext
<1>2. ASSUME UNCHANGED <<target, instance>>, Clean' = Clean
      PROVE  [Slot!SlotNext]_(Slot!slotVars)
  BY <1>2, SlotStutters DEF Live
<1>3. ASSUME NEW r \in Requests, NEW d \in Deploys, LockTarget(r, d)
      PROVE  [Slot!SlotNext]_(Slot!slotVars)
  <2>1. \A p \in Live : p # r
    BY <1>3 DEF IInv, LiveStage, LockTarget
  <2>2. \A p \in Live : target'[p] = target[p]
    BY <1>3, <2>1 DEF LockTarget, Live, IInv, TypeOK, Requests, Containers, Rollbacks, Deploys
  <2>3. Live' = Live /\ Clean' = Clean
    BY <1>3 DEF LockTarget, Live
  <2> QED BY <2>2, <2>3, SlotStutters
<1>4. ASSUME NEW d \in Deploys, NEW v \in {"clean", "blocked"}, ScanArtifact(d, v)
      PROVE  [Slot!SlotNext]_(Slot!slotVars)
  <2>1. UNCHANGED <<target, instance>>
    BY <1>4 DEF ScanArtifact
  <2>2. Occupant' = Occupant
    BY <2>1 DEF Occupant, Live
  <2>3. scan[d] = "none"
    BY <1>4 DEF IInv, DeployStage, ScanArtifact
  <2>4. CASE v = "clean"
    <3>1. Clean' = Clean \cup {d}
      BY <1>4, <2>4 DEF ScanArtifact, IInv, TypeOK
    <3>2. Slot!Accept(d)
      BY <2>2, <3>1 DEF Slot!Accept
    <3> QED BY <3>2 DEF Slot!SlotNext
  <2>5. CASE v = "blocked"
    <3>1. Clean' = Clean
      BY <1>4, <2>3, <2>5 DEF ScanArtifact, IInv, TypeOK
    <3> QED BY <1>2, <2>1, <3>1
  <2> QED BY <2>4, <2>5
<1>5. ASSUME NEW d \in Deploys, OverrideScan(d)
      PROVE  [Slot!SlotNext]_(Slot!slotVars)
  <2>1. Clean' = Clean
    BY <1>5 DEF OverrideScan, IInv, TypeOK
  <2> QED BY <1>2, <1>5, <2>1 DEF OverrideScan
<1>6. ASSUME NEW p \in Requests, Arrive(p)
      PROVE  [Slot!SlotNext]_(Slot!slotVars)
  <2>1. CASE CreateStaticDeployment(p) \/ CreateContainerDeployment(p)
    BY <1>2, <2>1 DEF CreateStaticDeployment, CreateContainerDeployment, OpenPipeline
  <2>2. ASSUME NEW d \in Deploys, LockStaticTarget(p, d) \/ LockContainerTarget(p, d)
        PROVE  [Slot!SlotNext]_(Slot!slotVars)
    BY <1>3, <2>2 DEF LockStaticTarget, LockContainerTarget
  <2> QED BY <1>6, <2>1, <2>2 DEF Arrive
<1>7. ASSUME NEW p \in Requests, Advance(p)
      PROVE  [Slot!SlotNext]_(Slot!slotVars)
  <2>1. ASSUME NEW v \in {"clean", "blocked"}, ScanArtifact(p, v)
        PROVE  [Slot!SlotNext]_(Slot!slotVars)
    BY <1>4, <2>1 DEF ScanArtifact
  <2>2. CASE BuildTimesOut(p) \/ StartWorkload(p) \/ FailBuildJob(p) \/ FailDeployment(p)
    BY <1>2, <2>2 DEF BuildTimesOut, StartWorkload, FailBuildJob, FailDeployment
  <2>3. CASE SupersedeRunning(p) \/ TerminateInstances(p)
    BY <1>2, <2>3 DEF SupersedeRunning, TerminateInstances
  <2>4. CASE ActivateStatic(p) \/ RollbackStatic(p)
    BY <1>2, <2>4 DEF ActivateStatic, RollbackStatic
  <2>5. CASE ActivateContainer(p)
    <3>1. p \in Containers /\ ReplaceInstance(p) /\ UNCHANGED <<target, scan>>
      BY <2>5 DEF ActivateContainer, Containers
    <3>2. target[p] \in Deploys
      BY <2>5 DEF ActivateContainer, IInv, DeployStage, Deploys
    <3> QED BY <1>1, <3>1, <3>2
  <2>6. CASE RollbackContainer(p)
    <3>1. p \in Containers /\ ReplaceInstance(p) /\ UNCHANGED <<target, scan>>
      BY <2>6 DEF RollbackContainer, Containers
    <3>2. target[p] \in Deploys
      BY <2>6 DEF RollbackContainer, Committing, Open, IInv, RollbackStage, Rollbacks
    <3> QED BY <1>1, <3>1, <3>2
  <2>7. CASE WorkloadConflict(p) \/ DeadlockVictim(p)
    BY <1>2, <2>7 DEF WorkloadConflict, DeadlockVictim, Abort
  <2> QED BY <1>7, <2>1, <2>2, <2>3, <2>4, <2>5, <2>6, <2>7 DEF Advance
<1>8. ASSUME NEW p \in Requests, Die(p)
      PROVE  [Slot!SlotNext]_(Slot!slotVars)
  BY <1>2, <1>8 DEF Die, Abort
<1>9. CASE Quiescent \/ UNCHANGED vars
  BY <1>2, <1>9 DEF Quiescent, vars
<1> QED BY <1>5, <1>6, <1>7, <1>8, <1>9 DEF Next

\* The instance table implements the runtime slot: accepted releases replace one
\* another in one step, and no failure empties the slot.
THEOREM SlotRefinement == Spec => ImplementsSlot
BY InitSlot, NextSlot, IInvHolds, PTL DEF Spec, ImplementsSlot, Slot!SlotSpec

-----------------------------------------------------------------------------
(* One write transaction at a time.                                        *)

\* The snapshot of the only open transaction misses no RUNNING deployment: a
\* deployment becomes RUNNING only by an open transaction.
SerialInv ==
    /\ \A p, q \in Requests : Open(p) /\ Open(q) => p = q
    /\ \A p \in Requests : pc[p] \in {"superseding", "replacing"}
          => Running \subseteq seenRunning[p] \cup {target[p]}
    /\ AtMostOneRunning

LEMMA InitSerial == Init => SerialInv
BY DEF Init, SerialInv, AtMostOneRunning, Open, Running, Requests

\* A step that opens no transaction and makes no deployment RUNNING.
LEMMA SerialStutters ==
    ASSUME SerialInv, Running' \subseteq Running,
           \A p \in Requests : Open(p)' =>
              Open(p) /\ target'[p] = target[p] /\ seenRunning'[p] = seenRunning[p]
                /\ (pc'[p] \in {"superseding", "replacing"}
                       => pc[p] \in {"superseding", "replacing"})
    PROVE  SerialInv'
BY DEF SerialInv, AtMostOneRunning, Open

\* The commit of the only open transaction leaves its target alone RUNNING.
LEMMA SerialSwitch ==
    ASSUME SerialInv, TypeOK, NEW p \in Requests, Committing(p), SwitchRunning(p),
           Leave(p, "done"), UNCHANGED target
    PROVE  SerialInv'
<1>1. Open(p) /\ pc[p] \in {"superseding", "replacing"}
  BY DEF Committing, Open
<1>2. \A q \in Requests : ~Open(q)'
  BY <1>1 DEF SerialInv, Leave, Open, TypeOK
<1>3. Running' \subseteq {target[p]}
  BY <1>1 DEF SerialInv, SwitchRunning, Running, TypeOK
<1> QED BY <1>2, <1>3 DEF SerialInv, AtMostOneRunning, Open

LEMMA NextSerial == Serialized /\ TypeOK /\ SerialInv /\ [Next]_vars => SerialInv'
<1> SUFFICES ASSUME Serialized, TypeOK, SerialInv, [Next]_vars PROVE SerialInv'
  OBVIOUS
<1>1. ASSUME NEW p \in Requests, Arrive(p) PROVE SerialInv'
  <2>1. CASE CreateStaticDeployment(p) \/ CreateContainerDeployment(p)
    <3> USE <2>1 DEF CreateStaticDeployment, CreateContainerDeployment, OpenPipeline
    <3>1. Running' \subseteq Running
      BY DEF Running, TypeOK
    <3> QED BY <3>1, SerialStutters DEF Open, TypeOK
  <2>2. ASSUME NEW d \in Deploys, LockStaticTarget(p, d) \/ LockContainerTarget(p, d)
        PROVE  SerialInv'
    BY <2>2 DEF LockStaticTarget, LockContainerTarget, LockTarget, MayOpen, SerialInv,
                AtMostOneRunning, Open, Running, TypeOK
  <2> QED BY <1>1, <2>1, <2>2 DEF Arrive
<1>2. ASSUME NEW p \in Requests, Abort(p) PROVE SerialInv'
  BY <1>2, SerialStutters DEF Abort, Leave, Open, Running, TypeOK
<1>3. ASSUME NEW p \in Requests, Advance(p) PROVE SerialInv'
  <2>1. CASE BuildTimesOut(p) \/ StartWorkload(p) \/ FailBuildJob(p) \/ FailDeployment(p)
    <3> USE <2>1 DEF BuildTimesOut, StartWorkload, FailBuildJob, FailDeployment
    <3>1. Running' \subseteq Running
      BY DEF Running, TypeOK
    <3> QED BY <3>1, SerialStutters DEF Open, TypeOK
  <2>2. ASSUME NEW v \in {"clean", "blocked"}, ScanArtifact(p, v) PROVE SerialInv'
    BY <2>2, SerialStutters DEF ScanArtifact, EnforceScanPolicy, Open, Running, TypeOK
  <2>3. CASE SupersedeRunning(p)
    BY <2>3 DEF SupersedeRunning, MayOpen, SerialInv, AtMostOneRunning, Open, Running, TypeOK
  <2>4. CASE TerminateInstances(p)
    BY <2>4, SerialStutters DEF TerminateInstances, Open, Running, TypeOK
  <2>5. CASE ActivateStatic(p) \/ ActivateContainer(p) \/ RollbackStatic(p)
               \/ RollbackContainer(p)
    BY <2>5, SerialSwitch
       DEF ActivateStatic, ActivateContainer, RollbackStatic, RollbackContainer
  <2>6. CASE WorkloadConflict(p) \/ DeadlockVictim(p)
    BY <1>2, <2>6 DEF WorkloadConflict, DeadlockVictim
  <2> QED BY <1>3, <2>1, <2>2, <2>3, <2>4, <2>5, <2>6 DEF Advance
<1>4. ASSUME NEW p \in Requests, Die(p) PROVE SerialInv'
  BY <1>2, <1>4 DEF Die
<1>5. CASE (\E d \in Deploys : OverrideScan(d)) \/ Quiescent \/ UNCHANGED vars
  BY <1>5, SerialStutters DEF OverrideScan, Quiescent, vars, Open, Running, TypeOK
<1> QED BY <1>1, <1>3, <1>4, <1>5 DEF Next

\* On a database that admits one write transaction at a time an environment
\* never has two RUNNING deployments, whatever the requests and the crashes.
THEOREM SerialOneRunning == ASSUME Serialized PROVE Spec => []AtMostOneRunning
<1>1. SerialInv => AtMostOneRunning
  BY DEF SerialInv
<1>2. TypeOK /\ SerialInv /\ [Next]_vars => SerialInv'
  BY NextSerial
<1> QED BY <1>1, <1>2, InitSerial, TypeCorrect, PTL DEF Spec

-----------------------------------------------------------------------------
(* Deployments against instances, for environments of containers only.     *)

ContainersOnly == StaticDeploys \cup StaticRollbacks = {}

\* The snapshot of live instances of the only open transaction is exact.
TablesInv ==
    /\ Running = {target[p] : p \in Live}
    /\ \A p \in Requests : pc[p] = "replacing" => seenLive[p] = Live

LEMMA InitTables == Init => TablesInv
BY ZenonT(30) DEF Init, TablesInv, Running, Live, Containers, Requests, Deploys, Rollbacks

\* What is RUNNING belongs to a finished request and is published.
LEMMA RunningIsPublished ==
    ASSUME IInv, TablesInv, NEW d \in Running
    PROVE  imageRef[d] = "published" /\ pc[d] \in {"done", "dead"}
<1>1. PICK p \in Live : target[p] = d
  BY DEF TablesInv
<1>2. imageRef[d] = "published" /\ d \in Deploys
  BY <1>1 DEF IInv, OnlyCleanCodeRuns, LiveStage
<1> QED BY <1>2 DEF IInv, DeployStage

\* A step that touches neither table and takes no snapshot.
LEMMA TablesStutter ==
    ASSUME TablesInv, Running' = Running, Live' = Live,
           \A p \in Live : target'[p] = target[p],
           \A p \in Requests :
              pc'[p] = "replacing" => pc[p] = "replacing" /\ seenLive'[p] = seenLive[p]
    PROVE  TablesInv'
BY DEF TablesInv

\* The commit of the only open transaction leaves one release in both tables.
LEMMA TablesSwitch ==
    ASSUME IInv, SerialInv, TablesInv, NEW p \in Containers, Committing(p),
           SwitchRunning(p), ReplaceInstance(p), Leave(p, "done"), UNCHANGED target
    PROVE  TablesInv'
<1>1. pc[p] = "replacing" /\ p \in Requests
  BY DEF Committing, Containers, Requests, Deploys, Rollbacks
<1>2. \A q \in Requests : pc'[q] \notin {"superseding", "replacing"}
  BY <1>1 DEF SerialInv, Leave, Open, IInv, TypeOK
<1>3. target[p] \in Deploys
  BY <1>1 DEF IInv, DeployStage, RollbackStage, Open, Requests
<1>4. Running' = {target[p]}
  <2>1. Running \subseteq seenRunning[p] \cup {target[p]}
    BY <1>1 DEF SerialInv
  <2> QED BY <1>3, <2>1 DEF SwitchRunning, Running
<1>5. Live' = {p}
  <2>1. seenLive[p] = Live
    BY <1>1 DEF TablesInv
  <2> QED BY <2>1 DEF ReplaceInstance, Live
<1> QED BY <1>2, <1>4, <1>5 DEF TablesInv

LEMMA NextTables ==
    ASSUME Serialized, ContainersOnly, IInv, SerialInv, TablesInv, [Next]_vars
    PROVE  TablesInv'
<1> TypeOK
  BY DEF IInv
<1> USE DEF TypeOK
<1>1. ASSUME NEW p \in Requests, Abort(p) PROVE TablesInv'
  BY <1>1, TablesStutter DEF Abort, Leave, Running, Live
<1>2. ASSUME NEW p \in Requests, Arrive(p) PROVE TablesInv'
  <2>1. CASE CreateStaticDeployment(p) \/ CreateContainerDeployment(p)
    <3> USE <2>1 DEF CreateStaticDeployment, CreateContainerDeployment, OpenPipeline
    <3>1. p \notin Running /\ p \in Deploys
      BY RunningIsPublished DEF Deploys
    <3>2. Running' = Running
      BY <3>1 DEF Running
    <3> QED BY <3>2, TablesStutter DEF Live
  <2>2. ASSUME NEW d \in Deploys, LockStaticTarget(p, d) \/ LockContainerTarget(p, d)
        PROVE  TablesInv'
    <3> USE <2>2 DEF LockStaticTarget, LockContainerTarget, LockTarget
    <3>1. p \notin Live
      BY DEF IInv, LiveStage
    <3>2. Running' = Running /\ Live' = Live
      BY DEF Running, Live
    <3>3. \A q \in Live : target'[q] = target[q]
      BY <3>1 DEF Live, Containers, Requests, Deploys, Rollbacks
    <3> QED BY <3>2, <3>3, TablesStutter
  <2> QED BY <1>2, <2>1, <2>2 DEF Arrive
<1>3. ASSUME NEW p \in Requests, Advance(p) PROVE TablesInv'
  <2>1. CASE BuildTimesOut(p) \/ StartWorkload(p) \/ FailBuildJob(p)
    BY <2>1, TablesStutter DEF BuildTimesOut, StartWorkload, FailBuildJob, Running, Live
  <2>2. ASSUME NEW v \in {"clean", "blocked"}, ScanArtifact(p, v) PROVE TablesInv'
    BY <2>2, TablesStutter DEF ScanArtifact, EnforceScanPolicy, Running, Live
  <2>3. CASE FailDeployment(p)
    <3> USE <2>3 DEF FailDeployment
    <3>1. p \notin Running
      BY RunningIsPublished
    <3>2. Running' = Running
      BY <3>1 DEF Running
    <3> QED BY <3>2, TablesStutter DEF Live
  <2>4. CASE SupersedeRunning(p)
    <3> USE <2>4 DEF SupersedeRunning
    <3>1. Running' = Running /\ Live' = Live /\ target' = target
      BY DEF Running, Live
    <3>2. \A q \in Requests :
             pc'[q] = "replacing" => pc[q] = "replacing" /\ seenLive'[q] = seenLive[q]
      OBVIOUS
    <3> QED BY <3>1, <3>2, TablesStutter
  <2>5. CASE TerminateInstances(p)
    <3> USE <2>5 DEF TerminateInstances
    <3>1. Running' = Running /\ Live' = Live /\ target' = target
      BY DEF Running, Live
    <3>2. \A q \in Requests : pc'[q] = "replacing" => seenLive'[q] = Live
      BY DEF TablesInv
    <3> QED BY <3>1, <3>2 DEF TablesInv
  <2>6. CASE ActivateStatic(p) \/ RollbackStatic(p)
    BY <2>6 DEF ActivateStatic, RollbackStatic, ContainersOnly
  <2>7. CASE ActivateContainer(p) \/ RollbackContainer(p)
    BY <2>7, TablesSwitch DEF ActivateContainer, RollbackContainer, Containers
  <2>8. CASE WorkloadConflict(p) \/ DeadlockVictim(p)
    BY <1>1, <2>8 DEF WorkloadConflict, DeadlockVictim
  <2> QED BY <1>3, <2>1, <2>2, <2>3, <2>4, <2>5, <2>6, <2>7, <2>8 DEF Advance
<1>4. ASSUME NEW p \in Requests, Die(p) PROVE TablesInv'
  BY <1>1, <1>4 DEF Die
<1>5. CASE (\E d \in Deploys : OverrideScan(d)) \/ Quiescent \/ UNCHANGED vars
  BY <1>5, TablesStutter DEF OverrideScan, Quiescent, vars, Running, Live
<1> QED BY <1>2, <1>3, <1>4, <1>5 DEF Next

\* On a database that admits one write transaction at a time the deployment table and
\* the instance table name the same release, for any requests and crashes
\* (container_deployments.py:192-215).
THEOREM SerialTablesAgree == ASSUME Serialized PROVE Spec => []TablesAgree
<1>1. CASE ContainersOnly
  <2>1. IInv /\ SerialInv /\ TablesInv /\ [Next]_vars => TablesInv'
    BY <1>1, NextTables
  <2>2. IInv /\ SerialInv /\ [Next]_vars => SerialInv'
    BY NextSerial DEF IInv
  <2>3. TablesInv => TablesAgree
    BY DEF TablesInv, TablesAgree
  <2> QED BY <2>1, <2>2, <2>3, InitTables, InitSerial, IInvHolds, PTL DEF Spec
<1>2. CASE ~ContainersOnly
  <2>1. TypeOK => TablesAgree
    BY <1>2 DEF ContainersOnly, TablesAgree
  <2> QED BY <2>1, TypeCorrect, PTL
<1> QED BY <1>1, <1>2

-----------------------------------------------------------------------------
(* Progress, as far as it is a matter of states and steps: a handler has   *)
(* only so many steps, and the locks never leave everyone waiting.         *)

\* The steps a handler can still take from a place.
StepsLeft(place) ==
    CASE place = "idle" -> 7 [] place = "created" -> 6 [] place = "scanned" -> 5
      [] place \in {"started", "locked"} -> 4 [] place = "superseding" -> 3
      [] place \in {"replacing", "failing"} -> 2 [] place = "job_failed" -> 1
      [] place \in {"done", "dead"} -> 0

Nearer(p) ==
    /\ StepsLeft(pc'[p]) < StepsLeft(pc[p])
    /\ \A q \in Requests \ {p} : pc'[q] = pc[q]

LEMMA StepsLeftOf ==
    /\ StepsLeft("idle") = 7 /\ StepsLeft("created") = 6 /\ StepsLeft("scanned") = 5
    /\ StepsLeft("started") = 4 /\ StepsLeft("locked") = 4 /\ StepsLeft("superseding") = 3
    /\ StepsLeft("replacing") = 2 /\ StepsLeft("failing") = 2 /\ StepsLeft("job_failed") = 1
    /\ StepsLeft("done") = 0 /\ StepsLeft("dead") = 0
BY DEF StepsLeft

LEMMA EveryStepIsNearer ==
    ASSUME TypeOK, NEW p \in Requests, Arrive(p) \/ Advance(p) \/ Die(p)
    PROVE  Nearer(p)
<1> DEFINE Goes(from, to) == pc[p] = from /\ pc' = [pc EXCEPT ![p] = to]
<1>1. \/ \E to \in {"created", "locked"} : Goes("idle", to)
      \/ \E to \in {"failing", "scanned"} : Goes("created", to)
      \/ \E to \in {"started", "superseding"} : Goes("scanned", to)
      \/ \E from \in {"started", "locked"} : Goes(from, "superseding")
      \/ Goes("superseding", "replacing")
      \/ Goes("failing", "job_failed") \/ Goes("job_failed", "done")
      \/ \E from \in {"superseding", "replacing"} : Goes(from, "done")
      \/ \E from \in Phases \ {"idle", "done", "dead"} : Goes(from, "dead")
  <2>1. CASE Arrive(p)
    BY <2>1 DEF Arrive, CreateStaticDeployment, CreateContainerDeployment, OpenPipeline,
                LockStaticTarget, LockContainerTarget, LockTarget
  <2>2. CASE Die(p)
    BY <2>2 DEF Die, Abort, Leave, TypeOK
  <2>3. CASE BuildTimesOut(p) \/ StartWorkload(p) \/ FailBuildJob(p) \/ FailDeployment(p)
    BY <2>3 DEF BuildTimesOut, StartWorkload, FailBuildJob, FailDeployment
  <2>4. CASE \E v \in {"clean", "blocked"} : ScanArtifact(p, v)
    BY <2>4 DEF ScanArtifact, EnforceScanPolicy
  <2>5. CASE SupersedeRunning(p)
    BY <2>5 DEF SupersedeRunning, ReadyToActivate
  <2>6. CASE TerminateInstances(p)
    BY <2>6 DEF TerminateInstances
  <2>7. CASE ActivateStatic(p) \/ ActivateContainer(p) \/ RollbackStatic(p)
               \/ RollbackContainer(p)
    BY <2>7 DEF ActivateStatic, ActivateContainer, RollbackStatic, RollbackContainer,
                Committing, Leave
  <2>8. CASE WorkloadConflict(p) \/ DeadlockVictim(p)
    BY <2>8 DEF WorkloadConflict, DeadlockVictim, WaitsFor, Committing, Abort, Leave, Phases
  <2> QED BY <2>1, <2>2, <2>3, <2>4, <2>5, <2>6, <2>7, <2>8 DEF Advance
<1>2. PICK from, to \in Phases : Goes(from, to) /\ StepsLeft(to) < StepsLeft(from)
  BY <1>1, StepsLeftOf DEF Phases
<1> HIDE DEF Goes
<1>3. pc[p] = from /\ pc' = [pc EXCEPT ![p] = to]
  BY <1>2 DEF Goes
<1> QED BY <1>2, <1>3 DEF Nearer, TypeOK

\* Whatever a request does brings it nearer to its answer and no other request farther
\* from its own: no handler of the pipeline goes round in a circle.
THEOREM HandlersShrink ==
    Spec => [][\A p \in Requests : Arrive(p) \/ Advance(p) \/ Die(p) => Nearer(p)]_vars
<1>1. TypeOK /\ [Next]_vars =>
         [\A p \in Requests : Arrive(p) \/ Advance(p) \/ Die(p) => Nearer(p)]_vars
  BY EveryStepIsNearer
<1> QED BY <1>1, TypeCorrect, PTL DEF Spec

\* Only handlers that have the place are there.
PlacesFit ==
    \A p \in Requests :
       /\ pc[p] \in {"created", "scanned", "failing", "job_failed"} => p \in Deploys
       /\ pc[p] = "started" => p \in ContainerDeploys
       /\ pc[p] = "locked" => p \in Rollbacks
       /\ pc[p] = "replacing" => p \in Containers

LEMMA InitPlaces == Init => PlacesFit
BY DEF Init, PlacesFit

LEMMA NextPlaces == TypeOK /\ PlacesFit /\ [Next]_vars => PlacesFit'
<1> SUFFICES ASSUME TypeOK, PlacesFit, [Next]_vars PROVE PlacesFit'
  OBVIOUS
<1>1. ASSUME NEW p \in Requests, Arrive(p) \/ Advance(p) \/ Die(p) PROVE PlacesFit'
  <2>1. \A q \in Requests \ {p} : pc'[q] = pc[q]
    BY <1>1, EveryStepIsNearer DEF Nearer
  <2>2. /\ pc'[p] \in {"created", "scanned", "failing", "job_failed"} => p \in Deploys
        /\ pc'[p] = "started" => p \in ContainerDeploys
        /\ pc'[p] = "locked" => p \in Rollbacks
        /\ pc'[p] = "replacing" => p \in Containers
    <3> USE DEF TypeOK
    <3>1. CASE Arrive(p)
      BY <3>1 DEF Arrive, CreateStaticDeployment, CreateContainerDeployment, OpenPipeline,
                  LockStaticTarget, LockContainerTarget, LockTarget, Deploys, Rollbacks
    <3>2. CASE Die(p)
      BY <3>2 DEF Die, Abort, Leave
    <3>3. CASE BuildTimesOut(p) \/ StartWorkload(p) \/ FailBuildJob(p) \/ FailDeployment(p)
      BY <3>3 DEF BuildTimesOut, StartWorkload, FailBuildJob, FailDeployment, Deploys
    <3>4. CASE \E v \in {"clean", "blocked"} : ScanArtifact(p, v)
      BY <3>4 DEF ScanArtifact, EnforceScanPolicy
    <3>5. CASE SupersedeRunning(p)
      BY <3>5 DEF SupersedeRunning
    <3>6. CASE TerminateInstances(p)
      BY <3>6 DEF TerminateInstances
    <3>7. CASE ActivateStatic(p) \/ ActivateContainer(p) \/ RollbackStatic(p)
                 \/ RollbackContainer(p)
      BY <3>7 DEF ActivateStatic, ActivateContainer, RollbackStatic, RollbackContainer, Leave
    <3>8. CASE WorkloadConflict(p) \/ DeadlockVictim(p)
      BY <3>8 DEF WorkloadConflict, DeadlockVictim, Abort, Leave
    <3> QED BY <1>1, <3>1, <3>2, <3>3, <3>4, <3>5, <3>6, <3>7, <3>8 DEF Advance
  <2> QED BY <2>1, <2>2 DEF PlacesFit
<1>2. CASE (\E d \in Deploys : OverrideScan(d)) \/ Quiescent \/ UNCHANGED vars
  BY <1>2 DEF OverrideScan, Quiescent, vars, PlacesFit
<1> QED BY <1>1, <1>2 DEF Next

InFlight(p) == pc[p] \notin {"idle", "done", "dead"}

InCycle(p) ==
    \E S \in SUBSET Rollbacks : p \in S /\ \A q \in S : \E q2 \in S : WaitsFor(q, q2)

\* The guards of the steps of p: one of them can be taken.
CanAdvance(p) ==
    \/ pc[p] \in {"created", "failing"}
    \/ pc[p] = "scanned" /\ p \in ContainerDeploys
    \/ pc[p] = "job_failed" /\ \A r \in Rollbacks : ~Locks(r, p)
    \/ ReadyToActivate(p) /\ MayOpen(p)
    \/ pc[p] = "superseding" /\ p \in Containers
    \/ /\ Committing(p)
       /\ MayWrite(p) \/ InCycle(p) \/ (p \in Containers /\ ~UniqueActiveWorkload(p))

NobodyStalls ==
    \A p \in Requests :
       InFlight(p) => CanAdvance(p) \/ \E q \in Requests : Open(q) /\ CanAdvance(q)

OneOpens == Serialized => \A p, q \in Requests : Open(p) /\ Open(q) => p = q

\* An open transaction waits for nothing but the lock of a rollback.
LEMMA OpenWaits ==
    ASSUME PlacesFit, OneOpens, NEW p \in Requests, Open(p), ~CanAdvance(p)
    PROVE  \E q \in Rollbacks : WaitsFor(p, q)
<1>1. MayOpen(p)
  BY DEF OneOpens, MayOpen
<1>2. pc[p] # "locked"
  BY <1>1 DEF CanAdvance, ReadyToActivate, PlacesFit
<1>3. Committing(p)
  BY <1>2 DEF Open, CanAdvance, Committing, PlacesFit
<1>4. ~MayWrite(p)
  BY <1>3 DEF CanAdvance
<1> QED BY <1>4 DEF MayWrite, WaitsFor, Locks

LEMMA NoStall ==
    ASSUME PlacesFit, OneOpens, TypeOK
    PROVE  NobodyStalls
<1> SUFFICES ASSUME NEW p \in Requests, InFlight(p), ~CanAdvance(p),
                    \A q \in Requests : Open(q) => ~CanAdvance(q)
             PROVE  FALSE
  BY DEF NobodyStalls
<1> DEFINE Holders == {q \in Rollbacks : Open(q)}
<1>1. \A q \in Holders : \E q2 \in Holders : WaitsFor(q, q2)
  BY OpenWaits DEF WaitsFor, Locks, Requests
<1>2. Holders = {}
  <2>1. ASSUME NEW q \in Holders PROVE FALSE
    <3>1. Holders \in SUBSET Rollbacks
      OBVIOUS
    <3>2. InCycle(q)
      BY <1>1, <3>1 DEF InCycle
    <3>3. Committing(q)
      BY <1>1 DEF WaitsFor
    <3> QED BY <3>2, <3>3 DEF CanAdvance, Requests
  <2> QED BY <2>1
<1>3. \A q \in Rollbacks : ~Open(q)
  BY <1>2
<1>4. \A q \in Requests : ~Open(q)
  BY <1>3, OpenWaits DEF WaitsFor, Locks
<1>5. MayOpen(p) /\ ~Open(p) /\ \A r \in Rollbacks : ~Locks(r, p)
  BY <1>3, <1>4 DEF MayOpen, Locks
<1>6. pc[p] \in {"created", "scanned", "started", "failing", "job_failed"}
  BY <1>5 DEF InFlight, Open, TypeOK, Phases
<1> QED BY <1>5, <1>6 DEF CanAdvance, ReadyToActivate, PlacesFit, Deploys

\* A request that cannot go on waits for a transaction that can: row locks held in a
\* circle, the one writer of SQLite and the workload constraint never leave every handler
\* waiting, whatever rollbacks and deploys meet (container_deployments.py:259).
THEOREM HandlersNeverStall == Spec => []NobodyStalls
<1>1. TypeOK /\ PlacesFit /\ [Next]_vars => PlacesFit'
  BY NextPlaces
<1>2. Spec => []OneOpens
  <2>1. CASE Serialized
    <3>1. TypeOK /\ SerialInv /\ [Next]_vars => SerialInv'
      BY <2>1, NextSerial
    <3>2. SerialInv => OneOpens
      BY DEF SerialInv, OneOpens
    <3> QED BY <3>1, <3>2, InitSerial, TypeCorrect, PTL DEF Spec
  <2>2. CASE ~Serialized
    <3>1. TypeOK => OneOpens
      BY <2>2 DEF OneOpens
    <3> QED BY <3>1, TypeCorrect, PTL
  <2> QED BY <2>1, <2>2
<1>3. TypeOK /\ PlacesFit /\ OneOpens => NobodyStalls
  BY NoStall
<1> QED BY <1>1, <1>2, <1>3, InitPlaces, TypeCorrect, PTL DEF Spec
=============================================================================
