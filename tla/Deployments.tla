---------------------------- MODULE Deployments ----------------------------
(***************************************************************************)
(* The release pipeline of one environment: static_deployments.py and      *)
(* container_deployments.py, with the scan policy of artifact_scanning.py. *)
(*                                                                         *)
(* A request is one HTTP call served by its own worker.  A deploy request  *)
(* d creates exactly one BuildJob and one Deployment, both named d; a      *)
(* rollback request re-activates a Deployment that another request made.   *)
(* Every request works through short database transactions, so requests    *)
(* interleave between them, and under READ COMMITTED also between the      *)
(* statements of one transaction: an UPDATE ... WHERE takes its snapshot   *)
(* when the statement starts and touches only rows of that snapshot.       *)
(***************************************************************************)
EXTENDS Naturals

CONSTANTS
    StaticDeploys,       \* POST .../static-deployments requests
    ContainerDeploys,    \* POST .../container-deployments requests
    StaticRollbacks,     \* POST .../static-deployments/{id}/rollback requests
    ContainerRollbacks,  \* POST .../container-deployments/{id}/rollback requests
    NoDeployment,        \* "no deployment"
    Serialized           \* TRUE: one write transaction at a time (SQLite)

Deploys    == StaticDeploys \cup ContainerDeploys
Rollbacks  == StaticRollbacks \cup ContainerRollbacks
Containers == ContainerDeploys \cup ContainerRollbacks
Requests   == Deploys \cup Rollbacks

ASSUME RequestsAssumption ==
    /\ StaticDeploys \cap ContainerDeploys = {}
    /\ StaticRollbacks \cap ContainerRollbacks = {}
    /\ Deploys \cap Rollbacks = {}
    /\ NoDeployment \notin Deploys

ASSUME SerializedAssumption == Serialized \in BOOLEAN

VARIABLES
    pc,           \* where each request is in its handler
    target,       \* the Deployment a request activates (its own for a deploy)
    buildJob,     \* BuildJob.status
    status,       \* Deployment.status
    imageRef,     \* Deployment.image_ref
    scan,         \* ArtifactScan.status of the deployment's scan
    instance,     \* status of the RuntimeInstance row a container request creates
    workload,     \* the release the cluster's workload was last told to run
    seenRunning,  \* snapshot of RUNNING deployments taken by a request's UPDATE
    seenLive      \* snapshot of live instances taken by a request's UPDATE

vars == <<pc, target, buildJob, status, imageRef, scan, instance, workload,
          seenRunning, seenLive>>

Phases == {"idle", "created", "scanned", "started", "locked", "superseding",
           "replacing", "failing", "job_failed", "done", "dead"}
JobStatuses == {"none", "running", "succeeded", "failed"}
DeploymentStatuses == {"none", "building", "deploying", "running", "failed",
                       "rolled_back"}

TypeOK ==
    /\ pc \in [Requests -> Phases]
    /\ target \in [Requests -> Deploys \cup {NoDeployment}]
    /\ buildJob \in [Deploys -> JobStatuses]
    /\ status \in [Deploys -> DeploymentStatuses]
    /\ imageRef \in [Deploys -> {"none", "pending", "published"}]
    /\ scan \in [Deploys -> {"none", "clean", "blocked", "overridden"}]
    /\ instance \in [Containers -> {"none", "running", "terminated"}]
    /\ workload \in Deploys \cup {NoDeployment}
    /\ seenRunning \in [Requests -> SUBSET Deploys]
    /\ seenLive \in [Requests -> SUBSET Containers]

Init ==
    /\ pc = [p \in Requests |-> "idle"]
    /\ target = [p \in Requests |-> IF p \in Deploys THEN p ELSE NoDeployment]
    /\ buildJob = [d \in Deploys |-> "none"]
    /\ status = [d \in Deploys |-> "none"]
    /\ imageRef = [d \in Deploys |-> "none"]
    /\ scan = [d \in Deploys |-> "none"]
    /\ instance = [p \in Containers |-> "none"]
    /\ workload = NoDeployment
    /\ seenRunning = [p \in Requests |-> {}]
    /\ seenLive = [p \in Requests |-> {}]

-----------------------------------------------------------------------------
(* What the database holds, and what its locks and constraints allow.      *)

Running == {d \in Deploys : status[d] = "running"}
Live    == {p \in Containers : instance[p] = "running"}

\* A request inside its activating transaction.
Open(p) == pc[p] \in {"locked", "superseding", "replacing"}

\* Slip: the row lock outlives its transaction.
LeakedLock(r, d) == r \in Rollbacks /\ target[r] = d

\* select_for_update holds a rollback's target row until its transaction ends.
Locks(r, d) == r \in Rollbacks /\ Open(r) /\ target[r] = d

\* The rows the transaction of p writes when it commits.
Writes(p) == {target[p]} \cup (seenRunning[p] \cap Running)

\* The last statement group of a transaction, which needs the row locks.
Committing(p) ==
    \/ p \in Containers /\ pc[p] = "replacing"
    \/ p \notin Containers /\ pc[p] = "superseding"

WaitsFor(p, q) == p # q /\ Committing(p) /\ \E d \in Writes(p) : Locks(q, d)
MayWrite(p) == \A q \in Requests : ~WaitsFor(p, q)

\* SQLite admits one write transaction; PostgreSQL admits them all.
MayOpen(p) == Serialized => \A q \in Requests \ {p} : ~Open(q)

\* Slip: the unique constraint is missing from the migration.
AnyWorkload(p) == p \in Containers

\* uniq_active_runtime_workload: every live row not terminated by this
\* transaction's own UPDATE collides with the row it inserts.
UniqueActiveWorkload(p) == Live \subseteq seenLive[p]

-----------------------------------------------------------------------------
(* A deploy request up to its verdict.                                     *)

\* The first transaction of a deploy: the BuildJob and Deployment rows.  The
\* entitlement, upload, archive and storage checks that precede it refuse the
\* request without a trace; a refused request is one that stays idle.
OpenPipeline(d, initial) ==
    /\ pc[d] = "idle"
    /\ pc' = [pc EXCEPT ![d] = "created"]
    /\ buildJob' = [buildJob EXCEPT ![d] = "running"]
    /\ status' = [status EXCEPT ![d] = initial]
    /\ imageRef' = [imageRef EXCEPT ![d] = "pending"]
    /\ UNCHANGED <<target, scan, instance, workload, seenRunning, seenLive>>

CreateStaticDeployment(d) == d \in StaticDeploys /\ OpenPipeline(d, "deploying")
CreateContainerDeployment(d) == d \in ContainerDeploys /\ OpenPipeline(d, "building")

\* build_and_push raises ContainerBuildTimeout.
BuildTimesOut(d) ==
    /\ d \in ContainerDeploys
    /\ pc[d] = "created"
    /\ pc' = [pc EXCEPT ![d] = "failing"]
    /\ UNCHANGED <<target, buildJob, status, imageRef, scan, instance, workload,
                   seenRunning, seenLive>>

\* Slip: the handler's phase is taken from the scan's status.
PhaseIsVerdict(verdict) == verdict

\* Slip: a blocked verdict is recorded and not enforced.
RecordOnly(verdict) == IF verdict = "none" THEN "failing" ELSE "scanned"

\* A blocked verdict raises and the handler fails the deployment; the verdict
\* is that of the in-memory scan, so a later override does not change it.
EnforceScanPolicy(verdict) == IF verdict = "blocked" THEN "failing" ELSE "scanned"

\* The scan row is written and the policy enforced.
ScanArtifact(d, verdict) ==
    /\ d \in Deploys
    /\ pc[d] = "created"
    /\ scan' = [scan EXCEPT ![d] = verdict]
    /\ pc' = [pc EXCEPT ![d] = EnforceScanPolicy(verdict)]
    /\ UNCHANGED <<target, buildJob, status, imageRef, instance, workload,
                   seenRunning, seenLive>>

\* An operator overrides a blocked scan, at any time after it was written.
OverrideScan(d) ==
    /\ scan[d] = "blocked"
    /\ scan' = [scan EXCEPT ![d] = "overridden"]
    /\ UNCHANGED <<pc, target, buildJob, status, imageRef, instance, workload,
                   seenRunning, seenLive>>

\* The two autocommitted saves of the failure path, job first.  Both write the
\* object as loaded, whatever has happened to the row since.
FailBuildJob(d) ==
    /\ d \in Deploys
    /\ pc[d] = "failing"
    /\ buildJob' = [buildJob EXCEPT ![d] = "failed"]
    /\ pc' = [pc EXCEPT ![d] = "job_failed"]
    /\ UNCHANGED <<target, status, imageRef, scan, instance, workload,
                   seenRunning, seenLive>>

FailDeployment(d) ==
    /\ d \in Deploys
    /\ pc[d] = "job_failed"
    /\ \A r \in Rollbacks : ~Locks(r, d)
    /\ status' = [status EXCEPT ![d] = "failed"]
    /\ pc' = [pc EXCEPT ![d] = "done"]
    /\ UNCHANGED <<target, buildJob, imageRef, scan, instance, workload,
                   seenRunning, seenLive>>

\* runtime_client.deploy: the workload changes before the database does, and
\* no later failure takes it back.
StartWorkload(d) ==
    /\ d \in ContainerDeploys
    /\ pc[d] = "scanned"
    /\ workload' = d
    /\ pc' = [pc EXCEPT ![d] = "started"]
    /\ UNCHANGED <<target, buildJob, status, imageRef, scan, instance,
                   seenRunning, seenLive>>

-----------------------------------------------------------------------------
(* A rollback request up to its first UPDATE.                              *)

\* select_for_update().get(...): waits while another rollback holds the row.
LockTarget(r, d) ==
    /\ pc[r] = "idle"
    /\ status[d] # "none"
    /\ \A q \in Rollbacks \ {r} : ~Locks(q, d)
    /\ MayOpen(r)
    /\ pc' = [pc EXCEPT ![r] = "locked"]
    /\ target' = [target EXCEPT ![r] = d]
    /\ UNCHANGED <<buildJob, status, imageRef, scan, instance,
                   seenRunning, seenLive>>

\* The static endpoint refuses only an empty image_ref, which no row has: a
\* row is created with image_ref "pending".
LockStaticTarget(r, d) ==
    /\ r \in StaticRollbacks
    /\ imageRef[d] # "none"
    /\ LockTarget(r, d)
    /\ UNCHANGED workload

\* Slip: the container endpoint copies the guard of the static one.
LockAnyTarget(r, d) ==
    /\ r \in ContainerRollbacks
    /\ imageRef[d] # "none"
    /\ LockTarget(r, d)
    /\ workload' = d

\* The container endpoint also refuses "pending", then tells the cluster.
LockContainerTarget(r, d) ==
    /\ r \in ContainerRollbacks
    /\ imageRef[d] = "published"
    /\ LockTarget(r, d)
    /\ workload' = d

-----------------------------------------------------------------------------
(* The activating transaction, shared by the four handlers.                *)

ReadyToActivate(p) ==
    \/ p \in StaticDeploys /\ pc[p] = "scanned"
    \/ p \in ContainerDeploys /\ pc[p] = "started"
    \/ p \in Rollbacks /\ pc[p] = "locked"

\* UPDATE deployment SET rolled_back WHERE status = running AND id <> target:
\* the statement's snapshot.
SupersedeRunning(p) ==
    /\ ReadyToActivate(p)
    /\ MayOpen(p)
    /\ seenRunning' = [seenRunning EXCEPT ![p] = Running \ {target[p]}]
    /\ pc' = [pc EXCEPT ![p] = "superseding"]
    /\ UNCHANGED <<target, buildJob, status, imageRef, scan, instance, workload,
                   seenLive>>

\* UPDATE runtimeinstance SET terminated WHERE status is live: its snapshot.
TerminateInstances(p) ==
    /\ p \in Containers
    /\ pc[p] = "superseding"
    /\ seenLive' = [seenLive EXCEPT ![p] = Live]
    /\ pc' = [pc EXCEPT ![p] = "replacing"]
    /\ UNCHANGED <<target, buildJob, status, imageRef, scan, instance, workload,
                   seenRunning>>

Leave(p, phase) ==
    /\ pc' = [pc EXCEPT ![p] = phase]
    /\ seenRunning' = [seenRunning EXCEPT ![p] = {}]
    /\ seenLive' = [seenLive EXCEPT ![p] = {}]

\* Slip: the UPDATE that rolls the other deployments back is dropped.
ActivateOnly(p) == status' = [status EXCEPT ![target[p]] = "running"]

\* The committed effect on the deployment rows: rows of the snapshot that are
\* still RUNNING are rolled back, and the target is RUNNING.
SwitchRunning(p) ==
    status' = [d \in Deploys |->
                 IF d = target[p] THEN "running"
                 ELSE IF d \in seenRunning[p] \cap Running THEN "rolled_back"
                 ELSE status[d]]

\* The committed effect on the instance rows.
ReplaceInstance(p) ==
    /\ UniqueActiveWorkload(p)
    /\ instance' = [q \in Containers |->
                      IF q = p THEN "running"
                      ELSE IF q \in seenLive[p] \cap Live THEN "terminated"
                      ELSE instance[q]]

\* A deploy commits: its job succeeded and its artifact is published.
Publish(d) ==
    /\ buildJob' = [buildJob EXCEPT ![d] = "succeeded"]
    /\ imageRef' = [imageRef EXCEPT ![d] = "published"]

ActivateStatic(d) ==
    /\ d \in StaticDeploys /\ Committing(d) /\ MayWrite(d)
    /\ SwitchRunning(d) /\ Publish(d) /\ Leave(d, "done")
    /\ UNCHANGED <<target, scan, instance, workload>>

ActivateContainer(d) ==
    /\ d \in ContainerDeploys /\ Committing(d) /\ MayWrite(d)
    /\ SwitchRunning(d) /\ Publish(d) /\ ReplaceInstance(d) /\ Leave(d, "done")
    /\ UNCHANGED <<target, scan, workload>>

RollbackStatic(r) ==
    /\ r \in StaticRollbacks /\ Committing(r) /\ MayWrite(r)
    /\ SwitchRunning(r) /\ Leave(r, "done")
    /\ UNCHANGED <<target, buildJob, imageRef, scan, instance, workload>>

RollbackContainer(r) ==
    /\ r \in ContainerRollbacks /\ Committing(r) /\ MayWrite(r)
    /\ SwitchRunning(r) /\ ReplaceInstance(r) /\ Leave(r, "done")
    /\ UNCHANGED <<target, buildJob, imageRef, scan, workload>>

\* Slip: the UPDATE of the instances runs outside transaction.atomic.
AbortHalfway(p) ==
    /\ Leave(p, "dead")
    /\ instance' = [q \in Containers |->
                      IF q \in seenLive[p] THEN "terminated" ELSE instance[q]]
    /\ UNCHANGED <<target, buildJob, status, imageRef, scan, workload>>

\* The transaction ends without effect and its request with it: no handler
\* catches the exception, so a deploy leaves its rows as they were created.
Abort(p) ==
    /\ Leave(p, "dead")
    /\ UNCHANGED <<target, buildJob, status, imageRef, scan, instance, workload>>

\* IntegrityError from uniq_active_runtime_workload.
WorkloadConflict(p) ==
    /\ p \in Containers /\ Committing(p) /\ ~UniqueActiveWorkload(p)
    /\ Abort(p)

\* The database cancels a transaction that waits in a cycle of row locks; only
\* rollbacks hold such locks before they commit.
DeadlockVictim(p) ==
    /\ \E S \in SUBSET Rollbacks :
          /\ p \in S
          /\ \A q \in S : \E q2 \in S : WaitsFor(q, q2)
    /\ Abort(p)

\* The worker crashes, or any other exception leaves the handler: a database
\* error, an unreachable store or cluster.
Die(p) ==
    /\ pc[p] \notin {"idle", "done", "dead"}
    /\ Abort(p)

-----------------------------------------------------------------------------

Advance(p) ==
    \/ BuildTimesOut(p)
    \/ \E v \in {"clean", "blocked"} : ScanArtifact(p, v)
    \/ StartWorkload(p) \/ FailBuildJob(p) \/ FailDeployment(p)
    \/ SupersedeRunning(p) \/ TerminateInstances(p)
    \/ ActivateStatic(p) \/ ActivateContainer(p)
    \/ RollbackStatic(p) \/ RollbackContainer(p)
    \/ WorkloadConflict(p) \/ DeadlockVictim(p)

Arrive(p) ==
    \/ CreateStaticDeployment(p)
    \/ CreateContainerDeployment(p)
    \/ \E d \in Deploys : LockStaticTarget(p, d) \/ LockContainerTarget(p, d)

\* Every request has been answered or never came.
Quiescent ==
    /\ \A p \in Requests : pc[p] \in {"idle", "done", "dead"}
    /\ UNCHANGED vars

Next ==
    \/ \E p \in Requests : Arrive(p) \/ Advance(p) \/ Die(p)
    \/ \E d \in Deploys : OverrideScan(d)
    \/ Quiescent

Spec == Init /\ [][Next]_vars

\* A worker that does not crash runs its handler to the end.
FairSpec == Spec /\ \A p \in Requests : WF_vars(Advance(p))

-----------------------------------------------------------------------------
(* Properties.                                                             *)

\* The runtime of an environment holds at most one live instance row, although
\* requests read the live rows and insert their own in separate statements.
OneLiveInstance == \A p, q \in Live : p = q

\* What the cluster was last told to run, and what a live instance row says it
\* runs, is always a release whose own scan came back clean: no interleaving of
\* deploys, rollbacks and overrides brings anything else into the runtime.
OnlyCleanCodeRuns ==
    /\ workload # NoDeployment => scan[workload] = "clean"
    /\ \A p \in Live : imageRef[target[p]] = "published" /\ scan[target[p]] = "clean"

\* The three records of one deploy agree: a FAILED deployment has a FAILED build
\* job, and an image reference replaces "pending" only when the job succeeded
\* and the scan was clean, also when a rollback or an override comes between.
RecordsAgree ==
    \A d \in Deploys :
       /\ status[d] = "failed" => buildJob[d] = "failed"
       /\ imageRef[d] = "published" => buildJob[d] = "succeeded" /\ scan[d] = "clean"

\* Every request that came is answered unless its worker dies: neither row locks
\* nor the workload constraint leave a handler waiting for ever.
RequestsFinish == \A p \in Requests : pc[p] # "idle" ~> pc[p] \in {"done", "dead"}

\* The instance rows implement the runtime slot: only accepted releases enter,
\* and a failed or cancelled activation never leaves the environment without
\* the instance it had.
Occupant == IF Live = {} THEN NoDeployment ELSE target[CHOOSE p \in Live : TRUE]
Slot == INSTANCE RuntimeSlot WITH
            Release <- Deploys, NoRelease <- NoDeployment,
            slot <- Occupant, accepted <- {d \in Deploys : scan[d] = "clean"}
ImplementsSlot == Slot!SlotSpec

\* With one write transaction at a time an environment never has two RUNNING
\* deployments.
AtMostOneRunning == \A d, e \in Running : d = e

\* With one write transaction at a time and no static request, the deployment
\* table and the instance table name the same release: the RUNNING deployment
\* is the one with the live instance, and there is one as soon as one succeeded.
TablesAgree ==
    StaticDeploys \cup StaticRollbacks = {} => Running = {target[p] : p \in Live}

\* deployment-pipeline.md, section 14: the target of a rollback passed the scan
\* policy.  So no RUNNING deployment is one whose scan is still blocked.
NoBlockedRunning == \A d \in Running : scan[d] # "blocked"

=============================================================================
