------------------------ MODULE DeploymentWorkerProofs ------------------------
(* Proofs about the deployment worker: what is active was scanned, for any   *)
(* deployments, processes, resent tasks and time limits.                     *)
EXTENDS DeploymentWorker, TLAPS

\* A task that runs after the scan is only sent for an image that was found clean, and
\* no answer speaks of one before.
InvTask(t) ==
    /\ t.flaw \in MeetsFlaw(t.deployment, t.op)
    /\ t.op \in {"deploy", "rollback"} => t.deployment \in clean

ScannedFirst ==
    /\ \A t \in queue : InvTask(t)
    /\ \A p \in Processes : \A t \in running[p] : InvTask(t)
    /\ \A d \in Deployments :
          answer[d] \in {"scan", "deploy", "rollback"} => d \in clean

IInv == WorkerTypeOK /\ ScannedFirst /\ OnlyScannedGoesLive

LEMMA InitIInv == ASSUME MaxSent \in Nat, MaxKills \in Nat PROVE WorkerInit => IInv
BY SMT DEF WorkerInit, IInv, WorkerTypeOK, ScannedFirst, OnlyScannedGoesLive, Absent

LEMMA SendTaskIInv ==
    ASSUME MaxSent \in Nat, IInv, NEW d \in Deployments, SendTask(d)
    PROVE  IInv'
<1>1. PICK flaw \in MeetsFlaw(d, Following(answer[d])) :
         queue' = queue \cup {[op |-> Following(answer[d]), deployment |-> d,
                               number |-> sent + 1, flaw |-> flaw]}
  BY DEF SendTask
<1> DEFINE t == [op |-> Following(answer[d]), deployment |-> d,
                 number |-> sent + 1, flaw |-> flaw]
<1>2. Following(answer[d]) \in Operations
  BY DEF Following, Operations, IInv, WorkerTypeOK
<1>3. flaw \in Flaws
  BY <1>1, <1>2 DEF MeetsFlaw, Flaws, Operations
<1>4. sent + 1 \in 1..MaxSent /\ sent' = sent + 1 /\ sent' \in 0..MaxSent
  BY SMT DEF SendTask, IInv, WorkerTypeOK
<1>5. t \in Tasks
  BY <1>2, <1>3, <1>4 DEF Tasks
<1>6. WorkerTypeOK'
  <2>1. queue' \subseteq Tasks
    BY <1>1, <1>5 DEF IInv, WorkerTypeOK
  <2>2. last' \in [Deployments -> 0..MaxSent]
    BY <1>4, SMT DEF SendTask, IInv, WorkerTypeOK
  <2>3. answer' \in [Deployments -> {"none", "waiting", "failed"} \cup Operations]
    BY SMT DEF SendTask, IInv, WorkerTypeOK
  <2> QED BY <1>4, <2>1, <2>2, <2>3 DEF SendTask, IInv, WorkerTypeOK, rows, Tasks
<1>7. InvTask(t)
  <2>1. t.op \in {"deploy", "rollback"} => answer[d] \in {"scan", "deploy"}
    BY DEF Following, IInv, WorkerTypeOK, Operations
  <2> QED BY <1>1, <2>1 DEF InvTask, IInv, ScannedFirst
<1>8. ScannedFirst'
  <2>1. \A u : InvTask(u) => InvTask(u)'
    BY DEF InvTask, SendTask, MeetsFlaw
  <2>2. \A u \in queue' : InvTask(u)'
    BY <1>1, <1>7, <2>1 DEF IInv, ScannedFirst
  <2>3. \A p \in Processes : \A u \in running'[p] : InvTask(u)'
    BY <2>1 DEF IInv, ScannedFirst, SendTask
  <2>4. \A c \in Deployments :
           answer'[c] \in {"scan", "deploy", "rollback"} => c \in clean'
    BY SMT DEF IInv, ScannedFirst, SendTask, WorkerTypeOK
  <2> QED BY <2>2, <2>3, <2>4 DEF ScannedFirst
<1>9. OnlyScannedGoesLive'
  BY DEF IInv, OnlyScannedGoesLive, SendTask, rows
<1> QED BY <1>6, <1>8, <1>9 DEF IInv

\* What a status update leaves of the rows.
Updated(p, d, status) ==
    /\ builds' \in [Processes -> [Deployments -> BuildJobStatus \cup {"absent"}]]
    /\ deployments' \in [Processes -> [Deployments -> DeploymentStatus \cup {"absent"}]]
    /\ \A q \in Processes, c \in Deployments :
          deployments'[q][c] # deployments[q][c] =>
             q = p /\ c = d /\ deployments'[q][c] = status

LEMMA SetStatusTypes ==
    ASSUME WorkerTypeOK, NEW p \in Processes, NEW d \in Deployments,
           NEW build \in BuildJobStatus \cup {""}, NEW status \in DeploymentStatus,
           SetStatus(p, d, build, status)
    PROVE  Updated(p, d, status)
<1> DEFINE B == BuildJobStatus \cup {"absent"}
           D == DeploymentStatus \cup {"absent"}
           b == IF build = "" THEN builds[p][d] ELSE build
<1>1. builds \in [Processes -> [Deployments -> B]]
  BY DEF WorkerTypeOK
<1>2. deployments \in [Processes -> [Deployments -> D]]
  BY DEF WorkerTypeOK
<1>3. b \in B
  BY <1>1
<1>4. builds' = [builds EXCEPT ![p][d] = b]
  BY DEF SetStatus
<1>5. deployments' = [deployments EXCEPT ![p][d] = status]
  BY DEF SetStatus
<1>6. status \in D
  OBVIOUS
<1> HIDE DEF B, D, b
<1>7. builds' \in [Processes -> [Deployments -> B]]
  BY <1>1, <1>3, <1>4
<1>8. deployments' \in [Processes -> [Deployments -> D]]
  BY <1>2, <1>5, <1>6
<1>9. \A q \in Processes, c \in Deployments :
         deployments'[q][c] # deployments[q][c] =>
            q = p /\ c = d /\ deployments'[q][c] = status
  BY <1>2, <1>5
<1> QED BY <1>7, <1>8, <1>9 DEF Updated, B, D

LEMMA StartTaskIInv ==
    ASSUME IInv, NEW p \in Processes, NEW t \in queue, StartTask(p, t)
    PROVE  IInv'
<1>1. t \in Tasks /\ t.deployment \in Deployments /\ t.op \in Operations
  BY DEF IInv, WorkerTypeOK, Tasks
<1>2. /\ builds' \in [Processes -> [Deployments -> BuildJobStatus \cup {"absent"}]]
      /\ deployments' \in [Processes -> [Deployments -> DeploymentStatus \cup {"absent"}]]
      /\ OnlyScannedGoesLive'
  <2>1. CASE UNCHANGED rows
    BY <2>1 DEF rows, IInv, WorkerTypeOK, OnlyScannedGoesLive, StartTask
  <2>2. CASE \E build \in BuildJobStatus \cup {""}, status \in {"building", "scanning", "deploying"} :
                SetStatus(p, t.deployment, build, status)
    <3>1. PICK build \in BuildJobStatus \cup {""}, status \in {"building", "scanning", "deploying"} :
             SetStatus(p, t.deployment, build, status)
      BY <2>2
    <3>2. status \in DeploymentStatus
      BY DEF DeploymentStatus
    <3>3. WorkerTypeOK
      BY DEF IInv
    <3>4. Updated(p, t.deployment, status)
      BY <1>1, <3>1, <3>2, <3>3, SetStatusTypes
    <3>5. OnlyScannedGoesLive'
      BY <3>4 DEF Updated, IInv, OnlyScannedGoesLive, StartTask
    <3> QED BY <3>4, <3>5 DEF Updated
  <2>3. \/ UNCHANGED rows
        \/ \E build \in BuildJobStatus \cup {""}, status \in {"building", "scanning", "deploying"} :
              SetStatus(p, t.deployment, build, status)
    BY DEF StartTask, BuildJobStatus
  <2> QED BY <2>1, <2>2, <2>3
<1>3. WorkerTypeOK'
  <2>1. /\ queue' \subseteq Tasks
        /\ running' = [running EXCEPT ![p] = {t}]
        /\ UNCHANGED <<sent, last, answer, clean, kills>>
    BY DEF StartTask, plan, IInv, WorkerTypeOK
  <2>2. running' \in [Processes -> SUBSET Tasks]
    BY <1>1, <2>1 DEF IInv, WorkerTypeOK
  <2> QED BY <1>2, <2>1, <2>2 DEF IInv, WorkerTypeOK, Tasks
<1>4. ScannedFirst'
  <2>1. \A u : InvTask(u) => InvTask(u)'
    BY DEF InvTask, StartTask, MeetsFlaw
  <2>2. running' = [running EXCEPT ![p] = {t}] /\ running \in [Processes -> SUBSET Tasks]
    BY DEF StartTask, IInv, WorkerTypeOK
  <2>3. \A q \in Processes : \A u \in running'[q] : InvTask(u)
    BY <2>2 DEF IInv, ScannedFirst
  <2> QED BY <2>1, <2>3 DEF IInv, ScannedFirst, StartTask, plan
<1> QED BY <1>2, <1>3, <1>4 DEF IInv

\* The end of a task, whatever it leaves in the rows.
LEMMA EndsIInv ==
    ASSUME IInv, NEW p \in Processes, NEW t \in running[p], Ends(p, t),
           NEW result \in {"failed"} \cup Operations, Reply(t, result),
           UNCHANGED <<queue, sent, last>>,
           clean \subseteq clean', clean' \subseteq Deployments,
           kills' \in 0..MaxKills,
           result \in {"scan", "deploy", "rollback"} => t.deployment \in clean',
           builds' \in [Processes -> [Deployments -> BuildJobStatus \cup {"absent"}]],
           deployments' \in [Processes -> [Deployments -> DeploymentStatus \cup {"absent"}]],
           OnlyScannedGoesLive'
    PROVE  IInv'
<1>1. t.deployment \in Deployments
  BY DEF IInv, WorkerTypeOK, Tasks
<1>2. \/ answer' = [answer EXCEPT ![t.deployment] = result]
      \/ answer' = answer
  BY DEF Reply
<1>3. answer' \in [Deployments -> {"none", "waiting", "failed"} \cup Operations]
  BY <1>1, <1>2, SMT DEF IInv, WorkerTypeOK
<1>4. /\ running' \in [Processes -> SUBSET Tasks]
      /\ \A q \in Processes : running'[q] \subseteq running[q]
  BY DEF Ends, IInv, WorkerTypeOK
<1>5. WorkerTypeOK'
  BY <1>3, <1>4 DEF IInv, WorkerTypeOK, Tasks
<1>6. \A u : InvTask(u) => InvTask(u)'
  BY DEF InvTask, MeetsFlaw
<1>7. \A d \in Deployments :
         answer'[d] \in {"scan", "deploy", "rollback"} => d \in clean'
  BY <1>1, <1>2 DEF IInv, WorkerTypeOK, ScannedFirst
<1>8. ScannedFirst'
  BY <1>4, <1>6, <1>7 DEF IInv, ScannedFirst
<1> QED BY <1>5, <1>8 DEF IInv

LEMMA SucceedIInv ==
    ASSUME IInv, NEW p \in Processes, NEW t \in running[p], Succeed(p, t)
    PROVE  IInv'
<1>1. t \in Tasks /\ t.deployment \in Deployments /\ t.op \in Operations /\ InvTask(t)
  BY DEF IInv, WorkerTypeOK, Tasks, ScannedFirst
<1>2. clean \subseteq clean' /\ clean' \subseteq Deployments
  BY <1>1 DEF Succeed, IInv, WorkerTypeOK
<1>3. t.op = "scan" => t.flaw = "none"
  BY <1>1 DEF InvTask, MeetsFlaw, Succeed, Refuses, ScanRefuses
<1>4. t.op \in {"scan", "deploy", "rollback"} => t.deployment \in clean'
  BY <1>1, <1>2, <1>3 DEF InvTask, Succeed
<1>5. PICK build \in BuildJobStatus \cup {""}, status \in DeploymentStatus :
         /\ SetStatus(p, t.deployment, build, status)
         /\ status \in {"active", "rolled_back"} => t.op \in {"deploy", "rollback"}
  BY <1>1 DEF Succeed, Operations, BuildJobStatus, DeploymentStatus
<1>6. WorkerTypeOK
  BY DEF IInv
<1>7. Updated(p, t.deployment, status)
  BY <1>1, <1>5, <1>6, SetStatusTypes
<1>10. OnlyScannedGoesLive'
  BY <1>2, <1>4, <1>5, <1>7 DEF Updated, IInv, OnlyScannedGoesLive
<1>8. Ends(p, t) /\ Reply(t, t.op) /\ UNCHANGED <<queue, sent, last>> /\ kills' = kills
  BY DEF Succeed
<1>9. kills' \in 0..MaxKills
  BY <1>6, <1>8 DEF WorkerTypeOK
<1> QED BY <1>1, <1>2, <1>4, <1>7, <1>8, <1>9, <1>10, EndsIInv DEF Updated

LEMMA FailIInv ==
    ASSUME IInv, NEW p \in Processes, NEW t \in running[p], Fail(p, t)
    PROVE  IInv'
<1>1. WorkerTypeOK /\ t.deployment \in Deployments
  BY DEF IInv, WorkerTypeOK, Tasks
<1>2. /\ builds' \in [Processes -> [Deployments -> BuildJobStatus \cup {"absent"}]]
      /\ deployments' \in [Processes -> [Deployments -> DeploymentStatus \cup {"absent"}]]
      /\ OnlyScannedGoesLive'
  <2>1. SetStatus(p, t.deployment, "failed", "failed")
    BY DEF Fail
  <2>2. "failed" \in BuildJobStatus \cup {""} /\ "failed" \in DeploymentStatus
    BY DEF BuildJobStatus, DeploymentStatus
  <2>3. Updated(p, t.deployment, "failed")
    BY <1>1, <2>1, <2>2, SetStatusTypes
  <2>4. OnlyScannedGoesLive'
    BY <2>3 DEF Updated, Fail, IInv, OnlyScannedGoesLive
  <2> QED BY <2>3, <2>4 DEF Updated
<1>3. /\ Ends(p, t) /\ Reply(t, "failed")
      /\ UNCHANGED <<queue, sent, last>> /\ clean' = clean /\ kills' = kills
  BY DEF Fail
<1>4. clean \subseteq clean' /\ clean' \subseteq Deployments /\ kills' \in 0..MaxKills
  BY <1>1, <1>3 DEF WorkerTypeOK
<1> QED BY <1>2, <1>3, <1>4, EndsIInv

LEMMA RaiseIInv ==
    ASSUME IInv, NEW p \in Processes, NEW t \in running[p], Raise(p, t)
    PROVE  IInv'
<1>1. WorkerTypeOK
  BY DEF IInv
<1>2. /\ Ends(p, t) /\ Reply(t, "failed")
      /\ UNCHANGED <<queue, sent, last>> /\ UNCHANGED <<builds, deployments, clean, kills>>
  BY DEF Raise, rows
<1>3. /\ builds' \in [Processes -> [Deployments -> BuildJobStatus \cup {"absent"}]]
      /\ deployments' \in [Processes -> [Deployments -> DeploymentStatus \cup {"absent"}]]
      /\ OnlyScannedGoesLive'
      /\ clean \subseteq clean' /\ clean' \subseteq Deployments /\ kills' \in 0..MaxKills
  BY <1>1, <1>2 DEF WorkerTypeOK, IInv, OnlyScannedGoesLive
<1> QED BY <1>2, <1>3, EndsIInv

LEMMA TimeLimitIInv ==
    ASSUME MaxKills \in Nat, IInv, NEW p \in Processes, NEW t \in running[p],
           TimeLimit(p, t)
    PROVE  IInv'
<1>1. WorkerTypeOK
  BY DEF IInv
<1>2. /\ Ends(p, t) /\ Reply(t, "failed")
      /\ UNCHANGED <<queue, sent, last>> /\ clean' = clean
      /\ builds' = [builds EXCEPT ![p] = Absent]
      /\ deployments' = [deployments EXCEPT ![p] = Absent]
  BY DEF TimeLimit
<1>3. kills' \in 0..MaxKills
  BY <1>1, SMT DEF TimeLimit, WorkerTypeOK
<1>4. /\ builds' \in [Processes -> [Deployments -> BuildJobStatus \cup {"absent"}]]
      /\ deployments' \in [Processes -> [Deployments -> DeploymentStatus \cup {"absent"}]]
      /\ OnlyScannedGoesLive'
  BY <1>1, <1>2, SMT DEF WorkerTypeOK, IInv, OnlyScannedGoesLive, Absent
<1>5. clean \subseteq clean' /\ clean' \subseteq Deployments
  BY <1>1, <1>2 DEF WorkerTypeOK
<1> QED BY <1>2, <1>3, <1>4, <1>5, EndsIInv

\* deployment_worker/tasks.py: the statuses stay typed, and whatever is called active or
\* rolled back was found clean by a scan, also when tasks are sent again while others
\* still run and when processes are killed at their time limit.
THEOREM WorkerScans ==
    ASSUME MaxSent \in Nat, MaxKills \in Nat
    PROVE  WorkerSpec => [](WorkerTypeOK /\ OnlyScannedGoesLive)
<1>1. WorkerInit => IInv
  BY InitIInv
<1>2. IInv /\ [WorkerNext]_workerVars => IInv'
  <2> SUFFICES ASSUME IInv, [WorkerNext]_workerVars PROVE IInv'
    OBVIOUS
  <2>1. CASE \E d \in Deployments : SendTask(d)
    BY <2>1, SendTaskIInv
  <2>2. CASE \E p \in Processes : \E t \in queue : StartTask(p, t)
    BY <2>2, StartTaskIInv
  <2>3. CASE \E p \in Processes : \E t \in running[p] : Succeed(p, t)
    BY <2>3, SucceedIInv
  <2>4. CASE \E p \in Processes : \E t \in running[p] : Fail(p, t)
    BY <2>4, FailIInv
  <2>5. CASE \E p \in Processes : \E t \in running[p] : Raise(p, t)
    BY <2>5, RaiseIInv
  <2>6. CASE \E p \in Processes : \E t \in running[p] : TimeLimit(p, t)
    BY <2>6, TimeLimitIInv
  <2>7. CASE UNCHANGED workerVars
    BY <2>7 DEF workerVars, rows, plan, IInv, WorkerTypeOK, Tasks, ScannedFirst, InvTask, MeetsFlaw,
                OnlyScannedGoesLive
  <2> QED BY <2>1, <2>2, <2>3, <2>4, <2>5, <2>6, <2>7 DEF WorkerNext, Finished
<1>3. IInv => WorkerTypeOK /\ OnlyScannedGoesLive
  BY DEF IInv
<1> QED BY <1>1, <1>2, <1>3, PTL DEF WorkerSpec

=============================================================================
