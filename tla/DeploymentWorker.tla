-------------------------- MODULE DeploymentWorker --------------------------
(***************************************************************************)
(* The deployment worker: Celery tasks that build, scan, release and roll  *)
(* back a deployment.  Nothing in the repository sends them; the control   *)
(* plane that docs/architecture/deployment-pipeline.md describes, which    *)
(* sends a task when the one before it succeeded and starts again from the *)
(* build when it failed or took too long, is external.  Each worker        *)
(* process runs one task at a time and keeps the statuses in a repository  *)
(* in its own memory, which goes with the process at a hard time limit.    *)
(***************************************************************************)
EXTENDS Naturals

CONSTANTS
    Kind,        \* "static" or "container", for each deployment
    Processes,   \* child processes of the worker
    MaxSent,     \* bound on the tasks sent
    MaxKills     \* bound on tasks that meet their time limit

VARIABLES
    queue,       \* tasks the broker holds
    running,     \* the task each process runs, if any
    builds,      \* repository.build_jobs of each process
    deployments, \* repository.deployments of each process
    sent,        \* tasks sent so far
    last,        \* number of the task sent last for each deployment
    answer,      \* what the control plane knows of that task
    clean,       \* deployments whose image a scan found clean
    kills

rows == <<builds, deployments>>
plan == <<sent, last, answer>>
workerVars == <<queue, running, rows, plan, clean, kills>>

Deployments == DOMAIN Kind

BuildJobStatus == {"running", "succeeded", "failed"}
DeploymentStatus == {"building", "scanning", "deploying", "active", "failed",
                     "rolled_back"}

Operations == {"create", "scan", "deploy", "rollback"}

\* What may be wrong with a payload.
Flaws == {"none", "control plane secret", "bad context", "blocked", "critical",
          "no namespace", "no target", "empty target"}

Tasks == [op : Operations, deployment : Deployments, number : 1..MaxSent, flaw : Flaws]

WorkerTypeOK ==
    /\ queue \subseteq Tasks
    /\ running \in [Processes -> SUBSET Tasks]
    /\ builds \in [Processes -> [Deployments -> BuildJobStatus \cup {"absent"}]]
    /\ deployments \in [Processes -> [Deployments -> DeploymentStatus \cup {"absent"}]]
    /\ sent \in 0..MaxSent
    /\ last \in [Deployments -> 0..MaxSent]
    /\ answer \in [Deployments -> {"none", "waiting", "failed"} \cup Operations]
    /\ clean \subseteq Deployments
    /\ kills \in 0..MaxKills

Absent == [d \in Deployments |-> "absent"]

WorkerInit ==
    /\ queue = {}
    /\ running = [p \in Processes |-> {}]
    /\ builds = [p \in Processes |-> Absent] /\ deployments = builds
    /\ sent = 0
    /\ last = [d \in Deployments |-> 0]
    /\ answer = [d \in Deployments |-> "none"]
    /\ clean = {}
    /\ kills = 0

-----------------------------------------------------------------------------

\* The task that follows what the control plane knows: the build again after a failure
\* and, if it loses patience, while it waits.
Following(known) ==
    IF known = "create" THEN "scan"
    ELSE IF known = "scan" THEN "deploy"
    ELSE IF known = "deploy" THEN "rollback" ELSE "create"

MeetsFlaw(d, op) ==
    {"none", "control plane secret"} \cup
    {flaw \in Flaws :
       \/ op = "create" /\ Kind[d] = "container" /\ flaw = "bad context"
       \/ op = "scan" /\ flaw \in {"blocked", "critical"}
       \/ op \in {"deploy", "rollback"} /\ flaw = "no namespace"
       \/ op = "rollback" /\ flaw \in {"no target", "empty target"}}

SendTask(d) ==
    /\ sent < MaxSent
    /\ sent' = sent + 1
    /\ last' = [last EXCEPT ![d] = sent + 1]
    /\ \E flaw \in MeetsFlaw(d, Following(answer[d])) :
          queue' = queue \cup {[op |-> Following(answer[d]), deployment |-> d,
                                number |-> sent + 1, flaw |-> flaw]}
    /\ answer' = [answer EXCEPT ![d] = "waiting"]
    /\ UNCHANGED <<running, rows, clean, kills>>

\* Only the task sent last is still listened to.
Reply(t, result) ==
    answer' = IF t.number = last[t.deployment]
              THEN [answer EXCEPT ![t.deployment] = result]
              ELSE answer

SetStatus(p, d, build, status) ==
    /\ builds' = [builds EXCEPT ![p][d] = IF build = "" THEN @ ELSE build]
    /\ deployments' = [deployments EXCEPT ![p][d] = status]

\* execute and the handler up to its first status update.  Of two updates in a row
\* nothing reads the first alone: a process has one thread.
StartTask(p, t) ==
    /\ running[p] = {} /\ t \in queue
    /\ queue' = queue \ {t}
    /\ running' = [running EXCEPT ![p] = {t}]
    /\ \/ /\ t.flaw = "control plane secret"
          /\ UNCHANGED rows
       \/ /\ t.flaw # "control plane secret"
          /\ \/ t.op = "create" /\ SetStatus(p, t.deployment, "running", "building")
             \/ t.op = "scan"   /\ SetStatus(p, t.deployment, "", "scanning")
             \/ /\ t.op \in {"deploy", "rollback"}
                /\ SetStatus(p, t.deployment, "", "deploying")
    /\ UNCHANGED <<plan, clean, kills>>

\* DockerfileBuildStrategy.validate_context
BuildRefuses(t) == t.op = "create" /\ t.flaw = "bad context"

\* Slip: the counts of the report are not looked at.
DecisionOnly(t) == t.op = "scan" /\ t.flaw = "blocked"

\* ImageScanStep.evaluate
ScanRefuses(t) == t.op = "scan" /\ t.flaw \in {"blocked", "critical"}

\* RuntimeDeployStep: what a static build returns has no image to deploy.
DeployRefuses(t) ==
    t.op = "deploy" /\ (t.flaw = "no namespace" \/ Kind[t.deployment] = "static")

\* RollbackStep
RollbackRefuses(t) ==
    t.op = "rollback" /\ t.flaw \in {"no namespace", "empty target"}

\* The payloads that end in a PolicyBlockedError.
Refuses(t) ==
    \/ t.flaw = "control plane secret"
    \/ BuildRefuses(t) \/ ScanRefuses(t) \/ DeployRefuses(t) \/ RollbackRefuses(t)

\* payload["target_deployment_public_id"] of rollback_deployment: execute does not catch it.
RaisesKeyError(t) == t.flaw = "no target"

Ends(p, t) ==
    /\ t \in running[p]
    /\ running' = [running EXCEPT ![p] = {}]

\* The rest of the handler: the builder's size is cut to the limit it is then compared
\* with (adapters.py), so that comparison refuses nothing.
Succeed(p, t) ==
    /\ Ends(p, t)
    /\ ~Refuses(t) /\ ~RaisesKeyError(t)
    /\ \/ t.op = "create"   /\ SetStatus(p, t.deployment, "succeeded", "scanning")
       \/ t.op = "scan"     /\ SetStatus(p, t.deployment, "", "deploying")
       \/ t.op = "deploy"   /\ SetStatus(p, t.deployment, "", "active")
       \/ t.op = "rollback" /\ SetStatus(p, t.deployment, "", "rolled_back")
    /\ clean' = IF t.op = "scan" /\ t.flaw = "none"
                THEN clean \cup {t.deployment} ELSE clean
    /\ Reply(t, t.op)
    /\ UNCHANGED <<queue, sent, last, kills>>

\* execute catches it; nothing the code raises is retryable.
Fail(p, t) ==
    /\ Ends(p, t)
    /\ Refuses(t)
    /\ SetStatus(p, t.deployment, "failed", "failed")
    /\ Reply(t, "failed")
    /\ UNCHANGED <<queue, sent, last, clean, kills>>

Raise(p, t) ==
    /\ Ends(p, t)
    /\ RaisesKeyError(t)
    /\ Reply(t, "failed")
    /\ UNCHANGED <<queue, rows, sent, last, clean, kills>>

\* Celery kills the process at the hard limit and starts another.
TimeLimit(p, t) ==
    /\ Ends(p, t)
    /\ kills < MaxKills /\ kills' = kills + 1
    /\ builds' = [builds EXCEPT ![p] = Absent]
    /\ deployments' = [deployments EXCEPT ![p] = Absent]
    /\ Reply(t, "failed")
    /\ UNCHANGED <<queue, sent, last, clean>>

\* Nothing left to send or to run.
Finished ==
    /\ sent = MaxSent
    /\ queue = {} /\ \A p \in Processes : running[p] = {}
    /\ UNCHANGED workerVars

WorkerNext ==
    \/ \E d \in Deployments : SendTask(d)
    \/ \E p \in Processes :
          \/ \E t \in queue : StartTask(p, t)
          \/ \E t \in running[p] :
                Succeed(p, t) \/ Fail(p, t) \/ Raise(p, t) \/ TimeLimit(p, t)
    \/ Finished

WorkerSpec == WorkerInit /\ [][WorkerNext]_workerVars

-----------------------------------------------------------------------------
(* Property.                                                               *)

\* deploy_to_runtime asks nothing about the scan; still no repository calls a deployment
\* active, or rolled back from it, before a scan found its image clean, because the
\* scan that blocks does not succeed (tasks.py:112).
OnlyScannedGoesLive ==
    \A p \in Processes, d \in Deployments :
       deployments[p][d] \in {"active", "rolled_back"} => d \in clean

=============================================================================
