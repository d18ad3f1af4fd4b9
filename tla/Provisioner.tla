---------------------------- MODULE Provisioner ----------------------------
(***************************************************************************)
(* The provisioner service: Celery tasks that create and delete the        *)
(* Kubernetes objects of one project and of one of its domains.  A task is *)
(* one message; the broker may hold several messages with the same payload *)
(* and workers may run them side by side.  Each worker process has its own *)
(* InMemoryIdempotencyStore, which its threads share under a lock.         *)
(***************************************************************************)
EXTENDS Naturals, Sequences

CONSTANTS
    Workers,          \* worker processes
    NoWorker,         \* "not started yet"
    Operation,        \* the operation each message asks for
    ExplicitKey,      \* payload["idempotency_key"] of the messages that carry one
    MaxRetryAttempts, \* settings.max_retry_attempts
    CeleryMaxRetries, \* Task.max_retries, which the tasks leave at its default
    MaxCrashes        \* bound on worker crashes

Tasks == DOMAIN Operation   \* messages

Operations == {"project.provision", "project.reconcile", "project.deprovision",
               "domain.provision", "domain.deprovision", "certificate.provision"}

\* Of one project and one domain, the operation alone tells the other keys apart.
IdempotencyKey(t) == IF t \in DOMAIN ExplicitKey THEN ExplicitKey[t] ELSE Operation[t]

Keys == {IdempotencyKey(t) : t \in Tasks}

\* A sender that makes its own keys uses each for one operation.
ASSUME KeysAssumption ==
    \A t, u \in Tasks : IdempotencyKey(t) = IdempotencyKey(u) => Operation[t] = Operation[u]

ASSUME TasksAssumption ==
    /\ Operation \in [Tasks -> Operations]
    /\ NoWorker \notin Workers
    /\ MaxRetryAttempts \in Nat /\ CeleryMaxRetries \in Nat /\ MaxCrashes \in Nat

VARIABLES
    pc,         \* where each task is
    worker,     \* the worker process that runs it
    call,       \* the next Kubernetes call of its handler
    retries,    \* task.request.retries
    outcome,    \* what the task returned or raised
    record,     \* the store of each worker: the status under each key
    objects,    \* kinds of objects that exist in the cluster
    phase,      \* status.phase of the namespace
    crashes     \* worker crashes so far

vars == <<pc, worker, call, retries, outcome, record, objects, phase, crashes>>

Base  == {"namespace", "account", "quota", "limits", "policy"}
Kinds == Base \cup {"ingress", "certificate"}

\* The Kubernetes calls of each handler, in order.
Create(kind) == [verb |-> "create", kind |-> kind]
Delete(kind) == [verb |-> "delete", kind |-> kind]

ProvisionProject == <<Create("namespace"), Create("account"), Create("quota"),
                      Create("limits"), Create("policy")>>

Handler ==
    [op \in Operations |->
       CASE op \in {"project.provision", "project.reconcile"} -> ProvisionProject
         [] op = "project.deprovision" ->
              <<Delete("ingress"), Delete("certificate"), Delete("namespace")>>
         [] op = "domain.provision"      -> <<Create("ingress")>>
         [] op = "domain.deprovision"    -> <<Delete("ingress")>>
         [] op = "certificate.provision" -> <<Create("certificate")>>]

Calls(t) == Handler[Operation[t]]

Stores == [Workers -> [Keys -> {"none", "running", "succeeded", "failed"}]]

TypeOK ==
    /\ pc \in [Tasks -> {"queued", "running", "failing", "finished"}]
    /\ worker \in [Tasks -> Workers \cup {NoWorker}]
    /\ call \in [Tasks -> 1..6]
    /\ retries \in [Tasks -> 0..CeleryMaxRetries]
    /\ outcome \in [Tasks -> {"none", "succeeded", "idempotent", "raised",
                              "failed_retryable", "lost"}]
    /\ record \in Stores
    /\ objects \subseteq Kinds
    /\ phase \in {"active", "terminating"}
    /\ crashes \in 0..MaxCrashes

Init ==
    /\ pc = [t \in Tasks |-> "queued"]
    /\ worker = [t \in Tasks |-> NoWorker]
    /\ call = [t \in Tasks |-> 1]
    /\ retries = [t \in Tasks |-> 0]
    /\ outcome = [t \in Tasks |-> "none"]
    /\ record = [w \in Workers |-> [key \in Keys |-> "none"]]
    /\ objects = {}
    /\ phase = "active"
    /\ crashes = 0

-----------------------------------------------------------------------------
(* The cluster, as the handlers use it.                                    *)

\* Objects are created in an existing namespace that is not being deleted.
Accepts(kind) ==
    IF kind = "namespace" THEN TRUE ELSE "namespace" \in objects /\ phase = "active"

Apply(c) ==
    CASE c.verb = "create" -> /\ objects' = objects \cup {c.kind}
                              /\ UNCHANGED phase
      [] c = Delete("namespace") -> /\ phase' = IF "namespace" \in objects THEN "terminating" ELSE phase
                                    /\ UNCHANGED objects
      [] OTHER -> objects' = objects \ {c.kind} /\ UNCHANGED phase

\* The namespace controller removes the namespace with all it holds.
RemoveNamespace ==
    /\ phase = "terminating"
    /\ objects' = {}
    /\ phase' = "active"
    /\ UNCHANGED <<pc, worker, call, retries, outcome, record, crashes>>

-----------------------------------------------------------------------------
(* One task.                                                               *)

Finish(t, result) ==
    /\ pc' = [pc EXCEPT ![t] = "finished"]
    /\ outcome' = [outcome EXCEPT ![t] = result]

Release(t) == worker' = [worker EXCEPT ![t] = NoWorker]

Store(t, status) ==
    record' = [record EXCEPT ![worker[t]][IdempotencyKey(t)] = status]

\* KubernetesProvisioner() raises before execute() is entered: Celery does not
\* retry the task and the store is not touched.
ClientUnavailable(t) ==
    /\ pc[t] = "queued"
    /\ Finish(t, "raised")
    /\ UNCHANGED <<worker, call, retries, record, objects, phase, crashes>>

\* Slip: a record that is still running also answers.
AnyRecordAnswers(status) == status \in {"running", "succeeded"}

Answers(status) == status = "succeeded"

\* store.begin: the record of an earlier success answers, any other one is
\* taken over.
Begin(t, w) ==
    /\ pc[t] = "queued"
    /\ IF Answers(record[w][IdempotencyKey(t)])
       THEN Finish(t, "idempotent") /\ UNCHANGED <<worker, record>>
       ELSE /\ pc' = [pc EXCEPT ![t] = "running"]
            /\ worker' = [worker EXCEPT ![t] = w]
            /\ record' = [record EXCEPT ![w][IdempotencyKey(t)] = "running"]
            /\ UNCHANGED outcome
    /\ UNCHANGED <<call, retries, objects, phase, crashes>>

\* Slip: _create_or_ignore_exists swallows every error of the API.
IgnoreErrors(t) ==
    /\ pc[t] = "running" /\ call[t] <= Len(Calls(t))
    /\ \/ Accepts(Calls(t)[call[t]].kind) /\ Apply(Calls(t)[call[t]])
       \/ UNCHANGED <<objects, phase>>
    /\ call' = [call EXCEPT ![t] = @ + 1]
    /\ UNCHANGED <<pc, worker, retries, outcome, record, crashes>>

\* A call that succeeds, or is told "exists" (409) or "not found" (404) where
\* the handler ignores that answer.
CallSucceeds(t) ==
    /\ pc[t] = "running" /\ call[t] <= Len(Calls(t))
    /\ Calls(t)[call[t]].verb = "create" => Accepts(Calls(t)[call[t]].kind)
    /\ Apply(Calls(t)[call[t]])
    /\ call' = [call EXCEPT ![t] = @ + 1]
    /\ UNCHANGED <<pc, worker, retries, outcome, record, crashes>>

\* Any other answer raises RetryableProvisionerError.  A timeout may follow a
\* call the API server did carry out.
CallFails(t) ==
    /\ pc[t] = "running" /\ call[t] <= Len(Calls(t))
    /\ \/ UNCHANGED <<objects, phase>>
       \/ /\ Calls(t)[call[t]].verb = "create" => Accepts(Calls(t)[call[t]].kind)
          /\ Apply(Calls(t)[call[t]])
    /\ pc' = [pc EXCEPT ![t] = "failing"]
    /\ call' = [call EXCEPT ![t] = 1]
    /\ UNCHANGED <<worker, retries, outcome, record, crashes>>

\* store.complete
Complete(t) ==
    /\ pc[t] = "running" /\ call[t] > Len(Calls(t))
    /\ Store(t, "succeeded")
    /\ Finish(t, "succeeded")
    /\ Release(t)
    /\ call' = [call EXCEPT ![t] = 1]
    /\ UNCHANGED <<retries, objects, phase, crashes>>

\* Slip: the task is sent again instead of retried, so its counter restarts.
Resend(t) ==
    /\ pc' = [pc EXCEPT ![t] = "queued"]
    /\ UNCHANGED <<retries, outcome>>

\* Slip: the limit is off by one.
OneMoreRetry(t) ==
    IF retries[t] <= CeleryMaxRetries
    THEN /\ pc' = [pc EXCEPT ![t] = "queued"]
         /\ retries' = [retries EXCEPT ![t] = @ + 1]
         /\ UNCHANGED outcome
    ELSE Finish(t, "raised") /\ UNCHANGED retries

\* task.retry: Celery gives up, raising the error, after its own limit.
Retry(t) ==
    IF retries[t] < CeleryMaxRetries
    THEN /\ pc' = [pc EXCEPT ![t] = "queued"]
         /\ retries' = [retries EXCEPT ![t] = @ + 1]
         /\ UNCHANGED outcome
    ELSE Finish(t, "raised") /\ UNCHANGED retries

\* store.fail, then a retry or the final answer.  Every error these handlers
\* raise is retryable.
Fail(t) ==
    /\ pc[t] = "failing"
    /\ Store(t, "failed")
    /\ IF retries[t] < MaxRetryAttempts
       THEN Retry(t)
       ELSE Finish(t, "failed_retryable") /\ UNCHANGED retries
    /\ Release(t)
    /\ UNCHANGED <<call, objects, phase, crashes>>

\* A worker process dies: its store goes with it, and so do the messages it had
\* acknowledged when it started them.
Crash(w) ==
    LET killed == {t \in Tasks : worker[t] = w}
    IN  /\ crashes < MaxCrashes
        /\ crashes' = crashes + 1
        /\ record' = [record EXCEPT ![w] = [key \in Keys |-> "none"]]
        /\ pc' = [t \in Tasks |-> IF t \in killed THEN "finished" ELSE pc[t]]
        /\ outcome' = [t \in Tasks |-> IF t \in killed THEN "lost" ELSE outcome[t]]
        /\ worker' = [t \in Tasks |-> IF t \in killed THEN NoWorker ELSE worker[t]]
        /\ call' = [t \in Tasks |-> IF t \in killed THEN 1 ELSE call[t]]
        /\ UNCHANGED <<retries, objects, phase>>

Step(t) ==
    \/ \E w \in Workers : Begin(t, w)
    \/ CallSucceeds(t) \/ CallFails(t) \/ Complete(t) \/ Fail(t)

Idle == (\A t \in Tasks : pc[t] = "finished") /\ UNCHANGED vars

Next ==
    \/ \E t \in Tasks : Step(t) \/ ClientUnavailable(t)
    \/ \E w \in Workers : Crash(w)
    \/ RemoveNamespace
    \/ Idle

Spec == Init /\ [][Next]_vars

\* Workers take messages and run what they took.
FairSpec == Spec /\ \A t \in Tasks : WF_vars(Step(t))

-----------------------------------------------------------------------------
(* Properties.                                                             *)

Succeeded(t) == outcome[t] \in {"succeeded", "idempotent"}
Untouched(t) == pc[t] = "queued" /\ retries[t] = 0

\* Kinds a task creates, and kinds it removes (with the namespace, everything).
Ensured(t) == {Calls(t)[i].kind : i \in {j \in DOMAIN Calls(t) : Calls(t)[j].verb = "create"}}
Removes(t, kind) ==
    \/ Operation[t] = "project.deprovision"
    \/ Operation[t] = "domain.deprovision" /\ kind = "ingress"

\* A task that reported success, itself or through the store, has delivered:
\* unless a task that removes it has begun, everything its handler creates is
\* in the cluster, in particular quota, limits and default-deny policy.  Retries,
\* duplicates side by side, crashes and late API errors do not matter.
Delivered ==
    \A t \in Tasks : Succeeded(t) =>
       \A kind \in Ensured(t) :
          (\A u \in Tasks : Removes(u, kind) => Untouched(u)) => kind \in objects

\* A task is answered from the store only if a task with its key ran to the end.
AnswersAreEarned ==
    \A t \in Tasks : outcome[t] = "idempotent" =>
       \E u \in Tasks : IdempotencyKey(u) = IdempotencyKey(t) /\ outcome[u] = "succeeded"

\* Every message comes to an end: retries run out also when the API never works.
TasksEnd == \A t \in Tasks : <>(pc[t] = "finished")

=============================================================================
