--------------------------- MODULE WorkersProofs ----------------------------
(***************************************************************************)
(* Proofs about the work done away from requests: the provisioner, for any *)
(* messages, workers and limits, and the outbox, for any messages.         *)
(***************************************************************************)
EXTENDS MCWorkers, LostUpdates, TLAPS

-----------------------------------------------------------------------------
(* The provisioner.                                                        *)

USE TasksAssumption, KeysAssumption DEF TasksAssumption, KeysAssumption

ApiCalls == [verb : {"create", "delete"}, kind : Kinds]

LEMMA HandlerType ==
    ASSUME NEW op \in Operations
    PROVE  /\ Len(Handler[op]) \in 1..5
           /\ \A i \in 1..Len(Handler[op]) : Handler[op][i] \in ApiCalls
           /\ DOMAIN Handler[op] = 1..Len(Handler[op])
<1>1. CASE op \in {"project.provision", "project.reconcile"}
  <2>1. Handler[op] = ProvisionProject
    BY <1>1 DEF Handler
  <2>2. \A kind \in Kinds : Create(kind) \in ApiCalls
    BY DEF Create, ApiCalls
  <2>3. Base \subseteq Kinds
    BY DEF Kinds
  <2> QED BY <2>1, <2>2, <2>3 DEF ProvisionProject, Base
<1>2. CASE op = "project.deprovision"
  <2>1. Handler[op] = <<Delete("ingress"), Delete("certificate"), Delete("namespace")>>
    BY <1>2 DEF Handler
  <2>2. Delete("ingress") \in ApiCalls /\ Delete("certificate") \in ApiCalls
          /\ Delete("namespace") \in ApiCalls
    BY DEF Delete, ApiCalls, Kinds, Base
  <2> QED BY <2>1, <2>2
<1>3. CASE op \in {"domain.provision", "domain.deprovision", "certificate.provision"}
  <2>1. PICK c \in ApiCalls : Handler[op] = <<c>>
    BY <1>3 DEF Handler, Create, Delete, ApiCalls, Kinds, Base
  <2> QED BY <2>1
<1> QED BY <1>1, <1>2, <1>3 DEF Operations

LEMMA CallsType ==
    ASSUME NEW t \in Tasks
    PROVE  /\ Len(Calls(t)) \in 1..5
           /\ \A i \in 1..Len(Calls(t)) : Calls(t)[i] \in ApiCalls
           /\ DOMAIN Calls(t) = 1..Len(Calls(t))
BY HandlerType DEF Calls, Tasks

LEMMA DeleteRemoves ==
    ASSUME NEW t \in Tasks, NEW i \in 1..Len(Calls(t)), Calls(t)[i].verb = "delete"
    PROVE  /\ Removes(t, Calls(t)[i].kind)
           /\ Calls(t)[i].kind = "namespace" => Operation[t] = "project.deprovision"
<1>1. CASE Operation[t] \in {"project.provision", "project.reconcile"}
  <2>1. Calls(t) = ProvisionProject
    BY <1>1 DEF Calls, Handler, Operations
  <2>2. \A kind \in Base : Create(kind).verb = "create"
    BY DEF Create
  <2> QED BY <2>1, <2>2 DEF ProvisionProject, Base
<1>2. CASE Operation[t] = "project.deprovision"
  BY <1>2 DEF Removes
<1>3. CASE Operation[t] \in {"domain.provision", "domain.deprovision",
                             "certificate.provision"}
  BY <1>3 DEF Calls, Handler, Operations, Create, Delete, Removes
<1> QED BY <1>1, <1>2, <1>3 DEF Tasks, Operations

-----------------------------------------------------------------------------
(* Type correctness.                                                       *)

\* A task is with a worker exactly while it runs, and has no outcome before it
\* has finished.
Stage ==
    \A t \in Tasks :
       /\ pc[t] \in {"running", "failing"} <=> worker[t] # NoWorker
       /\ pc[t] # "finished" => outcome[t] = "none"
       /\ call[t] <= Len(Calls(t)) + 1
       /\ pc[t] # "running" => call[t] = 1

LEMMA InitType == Init => TypeOK /\ Stage
<1>1. \A t \in Tasks : Len(Calls(t)) \in 1..5
  BY CallsType
<1> QED BY <1>1 DEF Init, TypeOK, Stage, Stores

LEMMA ApplyType ==
    ASSUME TypeOK, NEW c \in ApiCalls, Apply(c)
    PROVE  objects' \subseteq Kinds /\ phase' \in {"active", "terminating"}
BY DEF TypeOK, Apply, ApiCalls, Delete

LEMMA NextType == TypeOK /\ Stage /\ [Next]_vars => TypeOK' /\ Stage'
<1> SUFFICES ASSUME TypeOK, Stage, [Next]_vars PROVE TypeOK' /\ Stage'
  OBVIOUS
<1>0. \A t \in Tasks : Len(Calls(t)) \in 1..5
  BY CallsType
<1>k. \A t \in Tasks : IdempotencyKey(t) \in Keys
  BY DEF Keys
<1>d. \A t \in Tasks : call[t] \in 1..6
  BY DEF TypeOK
<1>r. ASSUME NEW w \in Workers, NEW t \in Tasks,
             NEW s \in {"running", "succeeded", "failed"},
             record' = [record EXCEPT ![w][IdempotencyKey(t)] = s]
      PROVE  record' \in Stores
  BY <1>k, <1>r DEF TypeOK, Stores
<1>c. ASSUME NEW t \in Tasks, call[t] <= Len(Calls(t)), Apply(Calls(t)[call[t]])
      PROVE  objects' \subseteq Kinds /\ phase' \in {"active", "terminating"}
  <2>1. call[t] \in 1..Len(Calls(t))
    BY <1>0, <1>c, <1>d
  <2>2. Calls(t)[call[t]] \in ApiCalls
    BY <2>1, CallsType
  <2> QED BY <1>c, <2>2, ApplyType
<1> USE DEF TypeOK, Stage
<1>1. ASSUME NEW t \in Tasks, ClientUnavailable(t) PROVE TypeOK' /\ Stage'
  BY <1>1 DEF ClientUnavailable, Finish
<1>2. ASSUME NEW t \in Tasks, NEW w \in Workers, Begin(t, w) PROVE TypeOK' /\ Stage'
  <2>1. CASE Answers(record[w][IdempotencyKey(t)])
    BY <1>2, <2>1 DEF Begin, Finish
  <2>2. CASE ~Answers(record[w][IdempotencyKey(t)])
    <3>1. record' \in Stores
      BY <1>r, <1>2, <2>2 DEF Begin
    <3>2. TypeOK'
      BY <1>2, <2>2, <3>1 DEF Begin
    <3>3. Stage'
      BY <1>2, <2>2 DEF Begin
    <3> QED BY <3>2, <3>3
  <2> QED BY <2>1, <2>2
<1>3. ASSUME NEW t \in Tasks, CallSucceeds(t) PROVE TypeOK' /\ Stage'
  <2> DEFINE next == call[t] + 1
  <2>1. objects' \subseteq Kinds /\ phase' \in {"active", "terminating"}
    BY <1>c, <1>3 DEF CallSucceeds
  <2>2. next \in 1..6 /\ next <= Len(Calls(t)) + 1
    <3> HIDE DEF TypeOK, Stage
    <3>1. call[t] <= Len(Calls(t))
      BY <1>3 DEF CallSucceeds
    <3>2. Len(Calls(t)) \in 1..5 /\ call[t] \in 1..6
      BY <1>0, <1>d
    <3>3. \A n \in 1..5, m \in 1..6 : m <= n => m + 1 \in 1..6 /\ m + 1 <= n + 1
      OBVIOUS
    <3> QED BY <3>1, <3>2, <3>3
  <2>3. call' = [call EXCEPT ![t] = next]
    BY <1>3 DEF CallSucceeds
  <2>4. UNCHANGED <<pc, worker, retries, outcome, record, crashes>>
    BY <1>3 DEF CallSucceeds
  <2> HIDE DEF next
  <2>5. TypeOK'
    BY <2>1, <2>2, <2>3, <2>4
  <2>6. Stage'
    BY <1>3, <2>2, <2>3, <2>4 DEF CallSucceeds
  <2> QED BY <2>5, <2>6
<1>4. ASSUME NEW t \in Tasks, CallFails(t) PROVE TypeOK' /\ Stage'
  <2>1. objects' \subseteq Kinds /\ phase' \in {"active", "terminating"}
    BY <1>c, <1>4 DEF CallFails
  <2>2. 1 \in 1..6 /\ 1 <= Len(Calls(t)) + 1
    BY <1>0
  <2>3. call' = [call EXCEPT ![t] = 1] /\ pc' = [pc EXCEPT ![t] = "failing"] /\ pc[t] = "running"
    BY <1>4 DEF CallFails
  <2>4. UNCHANGED <<worker, retries, outcome, record, crashes>>
    BY <1>4 DEF CallFails
  <2>5. TypeOK'
    BY <2>1, <2>2, <2>3, <2>4
  <2>6. Stage'
    BY <2>2, <2>3, <2>4
  <2> QED BY <2>5, <2>6
<1>5. ASSUME NEW t \in Tasks, Complete(t) PROVE TypeOK' /\ Stage'
  <2>1. worker[t] \in Workers
    BY <1>5 DEF Complete
  <2>2. record' \in Stores
    BY <1>r, <1>5, <2>1 DEF Complete, Store
  <2>3. TypeOK'
    BY <1>5, <2>2 DEF Complete, Finish, Release
  <2>4. Stage'
    BY <1>0, <1>5 DEF Complete, Finish, Release
  <2> QED BY <2>3, <2>4
<1>6. ASSUME NEW t \in Tasks, Fail(t) PROVE TypeOK' /\ Stage'
  <2>1. worker[t] \in Workers
    BY <1>6 DEF Fail
  <2>2. record' \in Stores
    BY <1>r, <1>6, <2>1 DEF Fail, Store
  <2>3. retries' \in [Tasks -> 0..CeleryMaxRetries]
    <3>1. retries \in [Tasks -> 0..CeleryMaxRetries]
      OBVIOUS
    <3> HIDE DEF TypeOK, Stage
    <3>2. CASE UNCHANGED retries
      BY <3>1, <3>2
    <3>3. CASE retries[t] < CeleryMaxRetries /\ retries' = [retries EXCEPT ![t] = @ + 1]
      BY <3>1, <3>3
    <3> QED BY <1>6, <3>2, <3>3 DEF Fail, Retry
  <2>4. CASE pc' = [pc EXCEPT ![t] = "queued"] /\ UNCHANGED outcome
    BY <1>6, <2>2, <2>3, <2>4 DEF Fail, Release
  <2>5. CASE Finish(t, "raised") \/ Finish(t, "failed_retryable")
    BY <1>6, <2>2, <2>3, <2>5, ZenonT(30) DEF Fail, Release, Finish
  <2> QED BY <1>6, <2>4, <2>5 DEF Fail, Retry
<1>7. ASSUME NEW w \in Workers, Crash(w) PROVE TypeOK' /\ Stage'
  <2>1. record' \in Stores
    BY <1>7 DEF Crash, Stores
  <2>2. crashes' \in 0..MaxCrashes
    BY <1>7 DEF Crash
  <2>3. TypeOK'
    BY <1>7, <2>1, <2>2 DEF Crash
  <2>4. Stage'
    BY <1>0, <1>7 DEF Crash
  <2> QED BY <2>3, <2>4
<1>8. CASE RemoveNamespace
  BY <1>8 DEF RemoveNamespace
<1>9. CASE Idle \/ UNCHANGED vars
  BY <1>9 DEF Idle, vars
<1> QED BY <1>1, <1>2, <1>3, <1>4, <1>5, <1>6, <1>7, <1>8, <1>9 DEF Next, Step

\* Every variable keeps the type the tasks give it.
THEOREM ProvisionerType == Spec => []TypeOK
<1>1. Spec => [](TypeOK /\ Stage)
  BY InitType, NextType, PTL DEF Spec
<1> QED BY <1>1, PTL

-----------------------------------------------------------------------------
(* What a task has created stays until a task that removes it has begun.   *)

\* A task that removes the kind has begun.
Doomed(kind) == \E u \in Tasks : Removes(u, kind) /\ ~Untouched(u)

Stays(kind) == kind \in objects \/ Doomed(kind)

Created(t) ==
    {Calls(t)[i].kind : i \in {j \in 1..Len(Calls(t)) :
                                  j < call[t] /\ Calls(t)[j].verb = "create"}}

\* Records, answers, created objects and the namespace's phase agree.
Accounts ==
    /\ phase = "terminating" => \A kind \in Kinds : Doomed(kind)
    /\ \A t \in Tasks : pc[t] = "running" => \A kind \in Created(t) : Stays(kind)
    /\ \A t \in Tasks : outcome[t] = "succeeded" => \A kind \in Ensured(t) : Stays(kind)
    /\ AnswersAreEarned
    /\ \A w \in Workers, key \in Keys : record[w][key] = "succeeded" =>
          \E u \in Tasks : IdempotencyKey(u) = key /\ outcome[u] = "succeeded"

IInv == TypeOK /\ Stage /\ Accounts

LEMMA InitAccounts == Init => Accounts
BY CallsType DEF Init, Accounts, AnswersAreEarned

\* A task that has begun stays begun.
LEMMA TouchedForGood ==
    ASSUME TypeOK, Stage, [Next]_vars, NEW u \in Tasks, ~Untouched(u)
    PROVE  ~Untouched(u)'
<1> USE DEF TypeOK, Untouched
<1>1. ASSUME NEW t \in Tasks, ClientUnavailable(t) PROVE ~Untouched(u)'
  BY <1>1 DEF ClientUnavailable, Finish
<1>2. ASSUME NEW t \in Tasks, NEW w \in Workers, Begin(t, w) PROVE ~Untouched(u)'
  BY <1>2 DEF Begin, Finish
<1>3. ASSUME NEW t \in Tasks, CallSucceeds(t) \/ CallFails(t) PROVE ~Untouched(u)'
  BY <1>3 DEF CallSucceeds, CallFails
<1>4. ASSUME NEW t \in Tasks, Complete(t) PROVE ~Untouched(u)'
  BY <1>4 DEF Complete, Finish
<1>5. ASSUME NEW t \in Tasks, Fail(t) PROVE ~Untouched(u)'
  BY <1>5 DEF Fail, Retry, Finish
<1>6. ASSUME NEW w \in Workers, Crash(w) PROVE ~Untouched(u)'
  BY <1>6 DEF Crash
<1>7. CASE RemoveNamespace \/ Idle \/ UNCHANGED vars
  BY <1>7 DEF RemoveNamespace, Idle, vars
<1> QED BY <1>1, <1>2, <1>3, <1>4, <1>5, <1>6, <1>7 DEF Next, Step

LEMMA DoomedForGood ==
    ASSUME TypeOK, Stage, [Next]_vars, NEW kind, Doomed(kind)
    PROVE  Doomed(kind)'
BY TouchedForGood DEF Doomed, Removes

LEMMA CallInRange ==
    ASSUME TypeOK, NEW t \in Tasks, call[t] <= Len(Calls(t))
    PROVE  call[t] \in 1..Len(Calls(t))
<1>1. Len(Calls(t)) \in 1..5
  BY CallsType
<1>2. call[t] \in 1..6
  BY DEF TypeOK
<1>3. \A n \in 1..5, m \in 1..6 : m <= n => m \in 1..n
  OBVIOUS
<1> QED BY <1>1, <1>2, <1>3

\* A call of a running task takes away only what that task removes.
LEMMA CallStays ==
    ASSUME TypeOK, Stage, Accounts, [Next]_vars,
           NEW t \in Tasks, pc[t] = "running", call[t] <= Len(Calls(t)),
           Apply(Calls(t)[call[t]]) \/ UNCHANGED <<objects, phase>>,
           NEW kind \in Kinds, Stays(kind)
    PROVE  Stays(kind)'
<1>1. CASE Doomed(kind)
  BY <1>1, DoomedForGood DEF Stays
<1>2. CASE kind \in objects /\ ~Doomed(kind)
  <2>1. call[t] \in 1..Len(Calls(t))
    BY CallInRange
  <2>2. ~Removes(t, kind)
    BY <1>2 DEF Doomed, Untouched
  <2>3. CASE Calls(t)[call[t]].verb = "delete"
    <3>1. Calls(t)[call[t]].kind # kind
      BY <2>1, <2>2, <2>3, DeleteRemoves
    <3> QED BY <1>2, <2>3, <3>1 DEF Apply, Stays
  <2>4. CASE Calls(t)[call[t]].verb = "create"
    BY <1>2, <2>4 DEF Apply, Stays
  <2> QED BY <2>1, <2>3, <2>4, CallsType DEF ApiCalls
<1> QED BY <1>1, <1>2 DEF Stays

\* A call sends the namespace away only on behalf of a deprovision.
LEMMA CallDooms ==
    ASSUME TypeOK, Stage, Accounts, [Next]_vars,
           NEW t \in Tasks, pc[t] = "running", call[t] <= Len(Calls(t)),
           Apply(Calls(t)[call[t]]) \/ UNCHANGED <<objects, phase>>,
           phase' = "terminating"
    PROVE  \A kind \in Kinds : Doomed(kind)'
<1>1. CASE phase = "terminating"
  BY <1>1, DoomedForGood DEF Accounts
<1>2. CASE phase # "terminating"
  <2>1. call[t] \in 1..Len(Calls(t))
    BY CallInRange
  <2>2. Calls(t)[call[t]] = Delete("namespace")
    BY <1>2 DEF Apply
  <2>3. Operation[t] = "project.deprovision"
    BY <2>1, <2>2, DeleteRemoves DEF Delete
  <2>4. \A kind \in Kinds : Doomed(kind)
    BY <2>3 DEF Doomed, Removes, Untouched
  <2> QED BY <2>4, DoomedForGood
<1> QED BY <1>1, <1>2

LEMMA NextAccounts ==
    TypeOK /\ Stage /\ Accounts /\ [Next]_vars /\ TypeOK' /\ Stage' => Accounts'
<1> SUFFICES ASSUME TypeOK, Stage, Accounts, [Next]_vars, TypeOK', Stage' PROVE Accounts'
  OBVIOUS
<1>k. \A t \in Tasks : /\ IdempotencyKey(t) \in Keys
                        /\ Ensured(t) \subseteq Kinds /\ Created(t) \subseteq Kinds
                        /\ Created(t)' \subseteq Kinds
  BY CallsType DEF Keys, Ensured, Created, ApiCalls
\* A step that creates nothing, dooms nothing new and hands out no success.
<1>s. ASSUME \A kind \in Kinds : Stays(kind) => Stays(kind)',
             phase' = "terminating" => \A kind \in Kinds : Doomed(kind)',
             \A t \in Tasks : pc'[t] = "running" =>
                \A kind \in Created(t)' :
                   (kind \in Created(t) /\ pc[t] = "running") \/ Stays(kind)',
             \A t \in Tasks : outcome'[t] = "succeeded" => outcome[t] = "succeeded",
             \A t \in Tasks : outcome[t] = "succeeded" => outcome'[t] = "succeeded",
             \A t \in Tasks : outcome'[t] = "idempotent" =>
                \/ outcome[t] = "idempotent"
                \/ \E w \in Workers : record[w][IdempotencyKey(t)] = "succeeded",
             \A w \in Workers, key \in Keys :
                record'[w][key] = "succeeded" => record[w][key] = "succeeded"
      PROVE  Accounts'
  <2>1. (\A t \in Tasks : pc[t] = "running" => \A kind \in Created(t) : Stays(kind))'
    BY <1>k, <1>s DEF Accounts
  <2>2. (\A t \in Tasks : outcome[t] = "succeeded" => \A kind \in Ensured(t) : Stays(kind))'
    BY <1>k, <1>s DEF Accounts, Ensured
  <2>3. AnswersAreEarned'
    BY <1>k, <1>s DEF Accounts, AnswersAreEarned, IdempotencyKey
  <2> QED BY <1>s, <2>1, <2>2, <2>3 DEF Accounts, IdempotencyKey
\* Steps that leave the cluster alone.
<1>o. ASSUME UNCHANGED <<objects, phase>>
      PROVE  /\ \A kind \in Kinds : Stays(kind) => Stays(kind)'
             /\ phase' = "terminating" => \A kind \in Kinds : Doomed(kind)'
  BY <1>o, DoomedForGood DEF Stays, Accounts
<1>e. ASSUME NEW u \in Tasks, call'[u] = call[u] PROVE Created(u)' = Created(u)
  BY <1>e DEF Created, Calls
<1>1. ASSUME NEW t \in Tasks, ClientUnavailable(t) PROVE Accounts'
  <2>1. \A u \in Tasks : pc'[u] = "running" => pc[u] = "running" /\ Created(u)' = Created(u)
    BY <1>e, <1>1 DEF ClientUnavailable, Finish, TypeOK
  <2>2. ASSUME NEW u \in Tasks
        PROVE  /\ outcome'[u] = "succeeded" <=> outcome[u] = "succeeded"
               /\ outcome'[u] = "idempotent" => outcome[u] = "idempotent"
    <3>1. outcome[t] = "none" /\ outcome' = [outcome EXCEPT ![t] = "raised"]
      BY <1>1 DEF ClientUnavailable, Finish, Stage
    <3> QED BY <3>1 DEF TypeOK
  <2>3. UNCHANGED <<objects, phase, record>>
    BY <1>1 DEF ClientUnavailable
  <2> QED BY <1>o, <1>s, <2>1, <2>2, <2>3
<1>2. ASSUME NEW t \in Tasks, NEW w \in Workers, Begin(t, w) PROVE Accounts'
  <2>1. ASSUME NEW u \in Tasks, pc'[u] = "running"
        PROVE  \A kind \in Created(u)' : kind \in Created(u) /\ pc[u] = "running"
    <3>1. CASE u = t
      <4>1. call'[t] = 1
        BY <1>2 DEF Begin, Stage
      <4>2. Created(t)' = {}
        BY <4>1, CallsType DEF Created
      <4> QED BY <3>1, <4>2
    <3>2. CASE u # t
      BY <1>e, <1>2, <2>1, <3>2 DEF Begin, Finish, TypeOK
    <3> QED BY <3>1, <3>2
  <2>2. ASSUME NEW u \in Tasks
        PROVE  outcome'[u] = "succeeded" <=> outcome[u] = "succeeded"
    <3>1. outcome[t] = "none"
      BY <1>2 DEF Begin, Stage
    <3>2. \/ UNCHANGED outcome
          \/ outcome' = [outcome EXCEPT ![t] = "idempotent"]
      BY <1>2 DEF Begin, Finish
    <3> QED BY <3>1, <3>2 DEF TypeOK
  <2>3. \A u \in Tasks : outcome'[u] = "idempotent" =>
           \/ outcome[u] = "idempotent"
           \/ \E v \in Workers : record[v][IdempotencyKey(u)] = "succeeded"
    BY <1>2 DEF Begin, Finish, TypeOK, Stage, Answers
  <2>4. \A v \in Workers, key \in Keys :
           record'[v][key] = "succeeded" => record[v][key] = "succeeded"
    BY <1>2 DEF Begin, TypeOK, Stores
  <2>5. UNCHANGED <<objects, phase>>
    BY <1>2 DEF Begin
  <2> QED BY <1>o, <1>s, <2>1, <2>2, <2>3, <2>4, <2>5
<1>3. ASSUME NEW t \in Tasks, CallSucceeds(t) PROVE Accounts'
  <2> DEFINE c == Calls(t)[call[t]]
  <2>1. /\ pc[t] = "running" /\ call[t] <= Len(Calls(t)) /\ Apply(c)
        /\ UNCHANGED <<pc, outcome, record>> /\ call' = [call EXCEPT ![t] = @ + 1]
    BY <1>3 DEF CallSucceeds
  <2>2. \A kind \in Kinds : Stays(kind) => Stays(kind)'
    BY <2>1, CallStays
  <2>3. phase' = "terminating" => \A kind \in Kinds : Doomed(kind)'
    BY <2>1, CallDooms
  <2>4. c \in ApiCalls /\ (c.verb = "create" => c.kind \in objects')
    BY <2>1, CallInRange, CallsType DEF Apply, Delete
  <2>5. ASSUME NEW u \in Tasks, pc'[u] = "running", NEW kind \in Created(u)'
        PROVE  (kind \in Created(u) /\ pc[u] = "running") \/ Stays(kind)'
    <3>1. CASE u # t
      BY <1>e, <2>1, <2>5, <3>1 DEF TypeOK
    <3>2. CASE u = t
      <4>1. PICK j \in 1..Len(Calls(t)) :
               j < call'[t] /\ Calls(t)[j].verb = "create" /\ Calls(t)[j].kind = kind
        BY <3>2 DEF Created, Calls
      <4>2. call'[t] = call[t] + 1 /\ call[t] \in 1..6
        BY <2>1 DEF TypeOK
      <4>3. j < call[t] \/ j = call[t]
        BY <4>1, <4>2, CallsType
      <4>4. CASE j < call[t]
        BY <2>1, <3>2, <4>1, <4>4 DEF Created
      <4>5. CASE j = call[t]
        BY <2>4, <4>1, <4>5 DEF Stays
      <4> QED BY <4>3, <4>4, <4>5
    <3> QED BY <3>1, <3>2
  <2> QED BY <1>s, <2>1, <2>2, <2>3, <2>5
<1>4. ASSUME NEW t \in Tasks, CallFails(t) PROVE Accounts'
  <2>1. /\ pc[t] = "running" /\ call[t] <= Len(Calls(t))
        /\ Apply(Calls(t)[call[t]]) \/ UNCHANGED <<objects, phase>>
        /\ UNCHANGED <<outcome, record>> /\ pc' = [pc EXCEPT ![t] = "failing"]
        /\ call' = [call EXCEPT ![t] = 1]
    BY <1>4 DEF CallFails
  <2>2. \A kind \in Kinds : Stays(kind) => Stays(kind)'
    BY <2>1, CallStays
  <2>3. phase' = "terminating" => \A kind \in Kinds : Doomed(kind)'
    BY <2>1, CallDooms
  <2>4. \A u \in Tasks : pc'[u] = "running" =>
           \A kind \in Created(u)' : kind \in Created(u) /\ pc[u] = "running"
    BY <2>1 DEF TypeOK, Created, Calls
  <2> QED BY <1>s, <2>1, <2>2, <2>3, <2>4
<1>5. ASSUME NEW t \in Tasks, Complete(t) PROVE Accounts'
  <2>1. /\ pc[t] = "running" /\ call[t] > Len(Calls(t)) /\ worker[t] \in Workers
        /\ record' = [record EXCEPT ![worker[t]][IdempotencyKey(t)] = "succeeded"]
        /\ pc' = [pc EXCEPT ![t] = "finished"]
        /\ outcome' = [outcome EXCEPT ![t] = "succeeded"]
        /\ call' = [call EXCEPT ![t] = 1]
        /\ UNCHANGED <<objects, phase>>
    BY <1>5 DEF Complete, Store, Finish, TypeOK, Stage
  <2>2. \A kind \in Kinds : Stays(kind) => Stays(kind)'
    BY <1>o, <2>1
  <2>3. \A kind \in Ensured(t) : Stays(kind)'
    <3>1. \A j \in 1..Len(Calls(t)) : j < call[t]
      <4>1. Len(Calls(t)) \in 1..5 /\ call[t] \in 1..6
        BY CallsType DEF TypeOK
      <4>2. \A n \in 1..5, m \in 1..6 : m > n => \A j \in 1..n : j < m
        OBVIOUS
      <4> QED BY <2>1, <4>1, <4>2
    <3>2. Ensured(t) \subseteq Created(t)
      BY <3>1, CallsType DEF Ensured, Created
    <3> QED BY <1>k, <2>1, <2>2, <3>2 DEF Accounts
  <2>4. \A u \in Tasks : outcome'[u] = "succeeded" <=> outcome[u] = "succeeded" \/ u = t
    BY <2>1 DEF TypeOK
  <2>5. (\A u \in Tasks : outcome[u] = "succeeded" => \A kind \in Ensured(u) : Stays(kind))'
    BY <1>k, <2>2, <2>3, <2>4 DEF Accounts, Ensured, Calls
  <2>6. (\A u \in Tasks : pc[u] = "running" => \A kind \in Created(u) : Stays(kind))'
    BY <1>e, <1>k, <2>1, <2>2 DEF Accounts, TypeOK
  <2>7. AnswersAreEarned'
    BY <2>1, <2>4 DEF Accounts, AnswersAreEarned, IdempotencyKey, TypeOK
  <2>8. (\A w \in Workers, key \in Keys : record[w][key] = "succeeded" =>
           \E u \in Tasks : IdempotencyKey(u) = key /\ outcome[u] = "succeeded")'
    BY <2>1, <2>4 DEF Accounts, IdempotencyKey, TypeOK, Stores
  <2> QED BY <1>o, <2>1, <2>5, <2>6, <2>7, <2>8 DEF Accounts
<1>6. ASSUME NEW t \in Tasks, Fail(t) PROVE Accounts'
  <2>1. /\ UNCHANGED <<call, objects, phase>> /\ pc[t] = "failing" /\ worker[t] \in Workers
        /\ record' = [record EXCEPT ![worker[t]][IdempotencyKey(t)] = "failed"]
    BY <1>6 DEF Fail, Store, TypeOK, Stage
  <2>2. ASSUME NEW u \in Tasks, pc'[u] = "running"
        PROVE  \A kind \in Created(u)' : kind \in Created(u) /\ pc[u] = "running"
    <3>1. pc[u] = "running" /\ call'[u] = call[u]
      BY <1>6, <2>1, <2>2 DEF Fail, Retry, Finish, TypeOK
    <3> QED BY <1>e, <3>1
  <2>3. ASSUME NEW u \in Tasks
        PROVE  /\ outcome'[u] = "succeeded" <=> outcome[u] = "succeeded"
               /\ outcome'[u] = "idempotent" => outcome[u] = "idempotent"
    <3>1. \/ outcome'[u] = outcome[u]
          \/ outcome[u] = "none" /\ outcome'[u] \in {"raised", "failed_retryable", "lost"}
      <4>1. CASE UNCHANGED outcome
        BY <4>1
      <4>2. CASE Finish(t, "raised") \/ Finish(t, "failed_retryable")
        BY <2>1, <4>2 DEF Finish, TypeOK, Stage
      <4> QED BY <1>6, <4>1, <4>2 DEF Fail, Retry
    <3> QED BY <3>1
  <2>4. \A w \in Workers, key \in Keys :
           record'[w][key] = "succeeded" => record[w][key] = "succeeded"
    BY <2>1 DEF TypeOK, Stores
  <2> QED BY <1>o, <1>s, <2>1, <2>2, <2>3, <2>4
<1>7. ASSUME NEW w \in Workers, Crash(w) PROVE Accounts'
  <2>1. ASSUME NEW u \in Tasks, pc'[u] = "running"
        PROVE  \A kind \in Created(u)' : kind \in Created(u) /\ pc[u] = "running"
    <3>1. pc[u] = "running" /\ call'[u] = call[u]
      BY <1>7, <2>1 DEF Crash, TypeOK
    <3> QED BY <1>e, <3>1
  <2>2. ASSUME NEW u \in Tasks
        PROVE  /\ outcome'[u] = "succeeded" <=> outcome[u] = "succeeded"
               /\ outcome'[u] = "idempotent" => outcome[u] = "idempotent"
    <3>1. \/ outcome'[u] = outcome[u]
          \/ outcome[u] = "none" /\ outcome'[u] \in {"raised", "failed_retryable", "lost"}
      <4>1. CASE worker[u] = w
        <5>1. outcome[u] = "none"
          BY <4>1 DEF TypeOK, Stage
        <5> QED BY <1>7, <4>1, <5>1 DEF Crash
      <4>2. CASE worker[u] # w
        BY <1>7, <4>2 DEF Crash
      <4> QED BY <4>1, <4>2
    <3> QED BY <3>1
  <2>3. \A v \in Workers, key \in Keys :
           record'[v][key] = "succeeded" => record[v][key] = "succeeded"
    BY <1>7 DEF Crash, TypeOK, Stores
  <2>4. UNCHANGED <<objects, phase>>
    BY <1>7 DEF Crash
  <2> QED BY <1>o, <1>s, <2>1, <2>2, <2>3, <2>4
<1>8. CASE RemoveNamespace
  BY <1>8, <1>s, DoomedForGood DEF RemoveNamespace, Accounts, Stays, Created, Calls
<1>9. CASE Idle \/ UNCHANGED vars
  BY <1>9, <1>o, <1>s DEF Idle, vars, Created, Calls
<1> QED BY <1>1, <1>2, <1>3, <1>4, <1>5, <1>6, <1>7, <1>8, <1>9 DEF Next, Step

LEMMA IInvHolds == Spec => []IInv
<1>1. Init => IInv
  BY InitType, InitAccounts DEF IInv
<1>2. IInv /\ [Next]_vars => IInv'
  BY NextType, NextAccounts DEF IInv
<1> QED BY <1>1, <1>2, PTL DEF Spec

\* Whatever retries, duplicates and crashes there were, what a successful task
\* was to create is there until a task that removes it begins.
THEOREM DeliveredHolds == Spec => []Delivered
<1>1. IInv => Delivered
  <2> SUFFICES ASSUME IInv, NEW t \in Tasks, Succeeded(t), NEW kind \in Ensured(t)
               PROVE  Stays(kind)
    BY DEF Delivered, Stays, Doomed
  <2>1. PICK u \in Tasks : Operation[u] = Operation[t] /\ outcome[u] = "succeeded"
    BY DEF Succeeded, IInv, Accounts, AnswersAreEarned
  <2>2. kind \in Ensured(u)
    BY <2>1 DEF Ensured, Calls
  <2> QED BY <2>1, <2>2 DEF IInv, Accounts
<1> QED BY <1>1, IInvHolds, PTL

\* The store answers for nothing but tasks that ran to the end.
THEOREM Earned == Spec => []AnswersAreEarned
<1>1. IInv => AnswersAreEarned
  BY DEF IInv, Accounts
<1> QED BY <1>1, IInvHolds, PTL

HIDE TasksAssumption
HIDE KeysAssumption

-----------------------------------------------------------------------------
(* Notifications.  The attempts of a message are a counter that senders    *)
(* read with their batch and write when they take the message; each read   *)
(* below the limit hands it over at most once.                             *)

LEMMA InitOutboxType == OutboxInit => OutboxTypeOK
BY OutboxAssumption DEF OutboxInit, OutboxTypeOK

LEMMA NextOutboxType == OutboxTypeOK /\ [OutboxNext]_outboxVars => OutboxTypeOK'
<1> SUFFICES ASSUME OutboxTypeOK, [OutboxNext]_outboxVars PROVE OutboxTypeOK'
  OBVIOUS
<1> USE OutboxAssumption DEF OutboxTypeOK, rows, work
<1>1. ASSUME NEW s \in Senders, ListQueued(s) PROVE OutboxTypeOK'
  <2> DEFINE queued == {m \in Messages : status[m] = "queued"}
  <2>1. sending[s] = NoMessage
    BY <1>1 DEF ListQueued, Free
  <2>2. /\ batch' = [batch EXCEPT ![s] = queued]
        /\ copy' = [copy EXCEPT ![s] = [m \in Messages |->
                                           IF m \in queued THEN attempts[m] ELSE 0]]
        /\ UNCHANGED <<status, attempts, sending, handed, deaths>>
    BY <1>1 DEF ListQueued
  <2>3. [m \in Messages |-> IF m \in queued THEN attempts[m] ELSE 0]
           \in [Messages -> 0..MaxAttempts]
    OBVIOUS
  <2>4. queued \in SUBSET Messages /\ NoMessage \notin queued
    OBVIOUS
  <2> HIDE DEF queued
  <2>5. batch' \in [Senders -> SUBSET Messages]
        /\ copy' \in [Senders -> [Messages -> 0..MaxAttempts]]
    BY <2>2, <2>3, <2>4
  <2>6. \A r \in Senders : sending'[r] \notin batch'[r]
    BY <2>1, <2>2, <2>4
  <2> QED BY <2>2, <2>5, <2>6
<1>2. ASSUME NEW s \in Senders, NEW m \in Messages, GiveUp(s, m) PROVE OutboxTypeOK'
  BY <1>2 DEF GiveUp
<1>3. ASSUME NEW s \in Senders, NEW m \in Messages, Take(s, m) PROVE OutboxTypeOK'
  <2>1. copy[s] \in [Messages -> 0..MaxAttempts] /\ copy[s][m] + 1 \in 0..MaxAttempts
    BY <1>3 DEF Take, Exhausted
  <2>2. [copy[s] EXCEPT ![m] = copy[s][m] + 1] \in [Messages -> 0..MaxAttempts]
    BY <2>1
  <2>3. copy' \in [Senders -> [Messages -> 0..MaxAttempts]]
    BY <1>3, <2>2 DEF Take
  <2>4. attempts' \in [Messages -> 0..MaxAttempts]
    BY <1>3, <2>1 DEF Take
  <2>5. \A r \in Senders : sending'[r] \notin batch'[r]
    BY <1>3 DEF Take
  <2> QED BY <1>3, <2>3, <2>4, <2>5 DEF Take
<1>4. ASSUME NEW s \in Senders, NEW to \in {"sent", "queued", "failed"}, Answer(s, to)
      PROVE  OutboxTypeOK'
  BY <1>4 DEF Answer
<1>5. ASSUME NEW s \in Senders, MailAccepted(s) \/ MailRefused(s) PROVE OutboxTypeOK'
  BY <1>4, <1>5 DEF MailAccepted, MailRefused
<1>6. ASSUME NEW s \in Senders, SenderDies(s) PROVE OutboxTypeOK'
  <2>1. handed' \in [Messages -> Nat]
    BY <1>6 DEF SenderDies
  <2> QED BY <1>6, <2>1 DEF SenderDies
<1>7. ASSUME NEW s \in Senders, NEW m \in Messages, RefuseMessage(s, m)
      PROVE  OutboxTypeOK'
  BY <1>7 DEF RefuseMessage
<1>8. ASSUME NEW s \in Senders, NEW m \in Messages, WriteMessage(s, m)
      PROVE  OutboxTypeOK'
  <2>1. copy[s] \in [Messages -> 0..MaxAttempts] /\ sending[s] = NoMessage
    BY <1>8 DEF WriteMessage, Free
  <2>2. [copy[s] EXCEPT ![m] = 0] \in [Messages -> 0..MaxAttempts]
    BY <2>1
  <2>3. copy' \in [Senders -> [Messages -> 0..MaxAttempts]]
    BY <1>8, <2>2 DEF WriteMessage
  <2>4. /\ batch' \in [Senders -> SUBSET Messages]
        /\ \A r \in Senders : sending'[r] \notin batch'[r]
    BY <1>8, <2>1 DEF WriteMessage
  <2> QED BY <1>8, <2>3, <2>4 DEF WriteMessage
<1>9. CASE UNCHANGED outboxVars
  BY <1>9 DEF outboxVars
<1> QED
  BY <1>1, <1>2, <1>3, <1>5, <1>6, <1>7, <1>8, <1>9 DEF OutboxNext, Send, Quiet

-----------------------------------------------------------------------------

\* The attempts a sender has read and not written, MaxAttempts when there are none.
ReadOf(s, m) == IF m \in batch[s] THEN copy[s][m] ELSE MaxAttempts

\* A sender that hands the message over now or may do so with what it has read.
Held(s, m) == IF sending[s] = m \/ ReadOf(s, m) < MaxAttempts THEN 1 ELSE 0

LeftOf(a, b, m) == RestTwo(MaxAttempts, ReadOf(a, m), ReadOf(b, m), attempts[m])

MostOf == MaxAttempts * MaxAttempts + 3 * MaxAttempts

NewMessage(a, b, m) ==
    status[m] = "none" => attempts[m] = 0 /\ m \notin batch[a] /\ m \notin batch[b]

MessageInv(a, b, m) ==
    /\ NewMessage(a, b, m)
    /\ Consistent(MaxAttempts, ReadOf(a, m), ReadOf(b, m), attempts[m])
    /\ 2 * (handed[m] + Held(a, m) + Held(b, m)) + LeftOf(a, b, m) <= MostOf

OutboxInv(a, b) == OutboxTypeOK /\ \A m \in Messages : MessageInv(a, b, m)

LEMMA MessageFacts ==
    ASSUME NEW a \in Senders, NEW b \in Senders, NEW m \in Messages,
           OutboxTypeOK, MessageInv(a, b, m)
    PROVE  /\ MaxAttempts \in Nat /\ MostOf \in Nat
           /\ attempts[m] \in Nat /\ attempts[m] <= MaxAttempts /\ handed[m] \in Nat
           /\ ReadOf(a, m) \in Nat /\ ReadOf(b, m) \in Nat
           /\ ReadOf(a, m) <= MaxAttempts /\ ReadOf(b, m) <= MaxAttempts
           /\ Held(a, m) \in {0, 1} /\ Held(b, m) \in {0, 1}
           /\ LeftOf(a, b, m) \in Nat
           /\ m # NoMessage
<1>1. /\ MaxAttempts \in Nat /\ attempts[m] \in Nat /\ attempts[m] <= MaxAttempts
      /\ handed[m] \in Nat /\ copy[a][m] \in 0..MaxAttempts /\ copy[b][m] \in 0..MaxAttempts
      /\ m # NoMessage
  BY OutboxAssumption DEF OutboxTypeOK
<1>2. /\ ReadOf(a, m) \in Nat /\ ReadOf(b, m) \in Nat
      /\ ReadOf(a, m) <= MaxAttempts /\ ReadOf(b, m) <= MaxAttempts
  BY <1>1 DEF ReadOf
<1>3. LeftOf(a, b, m) \in Nat
  BY <1>1, <1>2, RestIsCount DEF MessageInv, LeftOf
<1>4. MostOf \in Nat
  BY <1>1 DEF MostOf
<1>5. Held(a, m) \in {0, 1} /\ Held(b, m) \in {0, 1}
  BY DEF Held
<1> QED BY <1>1, <1>2, <1>3, <1>4, <1>5

LEMMA MessageTurned ==
    ASSUME NEW a \in Senders, NEW b \in Senders, OutboxInv(a, b)
    PROVE  OutboxInv(b, a)
<1> SUFFICES ASSUME NEW m \in Messages PROVE MessageInv(b, a, m)
  BY DEF OutboxInv
<1>1. OutboxTypeOK /\ MessageInv(a, b, m)
  BY DEF OutboxInv
<1>2. LeftOf(a, b, m) = LeftOf(b, a, m)
      /\ Consistent(MaxAttempts, ReadOf(b, m), ReadOf(a, m), attempts[m])
  BY <1>1, MessageFacts, RestIsCount DEF MessageInv, LeftOf
<1>3. 2 * (handed[m] + Held(b, m) + Held(a, m)) + LeftOf(b, a, m) <= MostOf
  BY <1>1, <1>2, MessageFacts DEF MessageInv
<1>4. NewMessage(b, a, m)
  BY <1>1 DEF MessageInv, NewMessage
<1> QED BY <1>2, <1>3, <1>4 DEF MessageInv

\* What the other sender has does not change.
Apart(b, m) == batch'[b] = batch[b] /\ copy'[b] = copy[b] /\ sending'[b] = sending[b]

\* A step that neither reads the attempts of m nor writes them.
LEMMA OtherwiseKeeps ==
    ASSUME NEW a \in Senders, NEW b \in Senders, NEW m \in Messages,
           OutboxTypeOK, MessageInv(a, b, m), Apart(b, m), NewMessage(a, b, m)',
           attempts'[m] = attempts[m], ReadOf(a, m)' = ReadOf(a, m),
           handed'[m] \in Nat, handed'[m] + Held(a, m)' <= handed[m] + Held(a, m)
    PROVE  MessageInv(a, b, m)'
<1> USE MessageFacts
<1>1. ReadOf(b, m)' = ReadOf(b, m) /\ Held(b, m)' = Held(b, m)
  BY DEF Apart, ReadOf, Held
<1>2. LeftOf(a, b, m)' = LeftOf(a, b, m) /\ Held(a, m)' \in {0, 1}
  BY <1>1 DEF LeftOf, Held
<1>3. 2 * (handed'[m] + Held(a, m)' + Held(b, m)') + LeftOf(a, b, m)' <= MostOf
  BY <1>1, <1>2 DEF MessageInv
<1> QED BY <1>1, <1>3 DEF MessageInv, MostOf

\* A sender that had nothing reads the attempts.
LEMMA ListedKeeps ==
    ASSUME NEW a \in Senders, NEW b \in Senders, NEW m \in Messages,
           OutboxTypeOK, MessageInv(a, b, m), Apart(b, m), NewMessage(a, b, m)',
           attempts'[m] = attempts[m], handed'[m] = handed[m], Free(a),
           sending'[a] = NoMessage, ReadOf(a, m)' = attempts[m]
    PROVE  MessageInv(a, b, m)'
<1> USE MessageFacts
<1>1. ReadOf(b, m)' = ReadOf(b, m) /\ Held(b, m)' = Held(b, m)
  BY DEF Apart, ReadOf, Held
<1>2. ReadOf(a, m) = MaxAttempts /\ Held(a, m) = 0
  BY DEF Free, ReadOf, Held
<1>3. Held(a, m)' = IF attempts[m] < MaxAttempts THEN 1 ELSE 0
  BY DEF Held
<1>4. CASE attempts[m] < MaxAttempts
  <2>1. LeftOf(a, b, m)' = LeftOf(a, b, m) - 2
        /\ Consistent(MaxAttempts, attempts[m], ReadOf(b, m), attempts[m])
    BY <1>1, <1>2, <1>4, ReadCounts DEF LeftOf
  <2>2. 2 * (handed'[m] + Held(a, m)' + Held(b, m)') + LeftOf(a, b, m)' <= MostOf
    BY <1>1, <1>2, <1>3, <1>4, <2>1 DEF MessageInv
  <2> QED BY <1>1, <2>1, <2>2 DEF MessageInv, MostOf
<1>5. CASE attempts[m] = MaxAttempts
  <2>1. ReadOf(a, m)' = ReadOf(a, m) /\ Held(a, m)' = Held(a, m)
    BY <1>2, <1>3, <1>5
  <2>2. handed'[m] \in Nat /\ handed'[m] + Held(a, m)' <= handed[m] + Held(a, m)
    BY <2>1
  <2> QED BY <2>1, <2>2, OtherwiseKeeps
<1> QED BY <1>4, <1>5

LEMMA TakeKeeps ==
    ASSUME NEW a \in Senders, NEW b \in Senders, a # b, NEW m \in Messages,
           OutboxTypeOK, MessageInv(a, b, m), Take(a, m)
    PROVE  MessageInv(a, b, m)'
<1> DEFINE x == copy[a][m]
<1> USE MessageFacts
<1>0. x \in Nat /\ m \in batch[a] /\ ~(x >= MaxAttempts)
  BY OutboxAssumption DEF Take, Exhausted, OutboxTypeOK
<1>1. ReadOf(a, m) = x /\ x < MaxAttempts /\ Held(a, m) = 1 /\ x \in Nat
  BY <1>0 DEF ReadOf, Held
<1>2. /\ attempts'[m] = x + 1 /\ m \notin batch'[a] /\ sending'[a] = m
      /\ status'[m] = "sending" /\ handed' = handed /\ Apart(b, m)
  BY DEF Take, OutboxTypeOK, Apart
<1>3. ReadOf(b, m)' = ReadOf(b, m) /\ Held(b, m)' = Held(b, m)
  BY <1>2 DEF Apart, ReadOf, Held
<1>4. ReadOf(a, m)' = MaxAttempts /\ Held(a, m)' = 1
  BY <1>2 DEF ReadOf, Held
<1>5. RestTwo(MaxAttempts, MaxAttempts, ReadOf(b, m), x + 1) <= LeftOf(a, b, m)
  BY <1>1, WriteFalls DEF MessageInv, LeftOf
<1>6. LeftOf(a, b, m)' = RestTwo(MaxAttempts, MaxAttempts, ReadOf(b, m), x + 1)
      /\ LeftOf(a, b, m)' \in Nat
      /\ Consistent(MaxAttempts, MaxAttempts, ReadOf(b, m), x + 1)
  <2>1. Consistent(MaxAttempts, MaxAttempts, ReadOf(b, m), x + 1) /\ x + 1 \in Nat
    BY <1>1 DEF Consistent
  <2>2. RestTwo(MaxAttempts, MaxAttempts, ReadOf(b, m), x + 1) \in Nat
    BY <2>1, RestIsCount
  <2> QED BY <1>2, <1>3, <1>4, <2>1, <2>2 DEF LeftOf
<1>7. 2 * (handed'[m] + Held(a, m)' + Held(b, m)') + LeftOf(a, b, m)' <= MostOf
  BY <1>1, <1>2, <1>3, <1>4, <1>5, <1>6 DEF MessageInv
<1> QED BY <1>2, <1>3, <1>4, <1>6, <1>7 DEF MessageInv, NewMessage, MostOf

LEMMA DeathKeeps ==
    ASSUME NEW a \in Senders, NEW b \in Senders, a # b, NEW m \in Messages,
           OutboxTypeOK, OutboxTypeOK', MessageInv(a, b, m), SenderDies(a)
    PROVE  MessageInv(a, b, m)'
<1> USE MessageFacts
<1>1. /\ batch'[a] = {} /\ sending'[a] = NoMessage /\ Apart(b, m)
      /\ attempts' = attempts /\ status' = status /\ copy' = copy
      /\ sending[a] \notin batch[a]
  BY DEF SenderDies, OutboxTypeOK, Apart, rows
<1>2. ReadOf(a, m)' = MaxAttempts /\ Held(a, m)' = 0 /\ handed'[m] \in Nat
  <2>1. ReadOf(a, m)' = MaxAttempts
    BY <1>1 DEF ReadOf
  <2>2. Held(a, m)' = 0
    BY <1>1, <2>1 DEF Held
  <2> QED BY <2>1, <2>2 DEF OutboxTypeOK
<1>3. NewMessage(a, b, m)'
  BY <1>1 DEF MessageInv, NewMessage, Apart
<1>4. CASE sending[a] = m
  <2>1. ReadOf(a, m) = MaxAttempts /\ Held(a, m) = 1
    BY <1>1, <1>4 DEF ReadOf, Held
  <2>2. handed'[m] <= handed[m] + 1
    BY <1>4 DEF SenderDies, OutboxTypeOK
  <2> QED BY <1>1, <1>2, <1>3, <2>1, <2>2, OtherwiseKeeps
<1>5. CASE sending[a] # m
  <2>1. handed'[m] = handed[m]
    BY <1>5 DEF SenderDies, OutboxTypeOK
  <2>2. Held(a, m) = IF ReadOf(a, m) < MaxAttempts THEN 1 ELSE 0
    BY <1>5 DEF Held
  <2>3. ReadOf(b, m)' = ReadOf(b, m) /\ Held(b, m)' = Held(b, m)
    BY <1>1 DEF Apart, ReadOf, Held
  <2>4. RestTwo(MaxAttempts, MaxAttempts, ReadOf(b, m), attempts[m])
           <= LeftOf(a, b, m) + (IF ReadOf(a, m) < MaxAttempts THEN 2 ELSE 0)
    BY ForgetFrees DEF MessageInv, LeftOf
  <2>5. Consistent(MaxAttempts, MaxAttempts, ReadOf(b, m), attempts[m])
    BY DEF Consistent
  <2>6. LeftOf(a, b, m)' = RestTwo(MaxAttempts, MaxAttempts, ReadOf(b, m), attempts[m])
        /\ LeftOf(a, b, m)' \in Nat
    <3>1. RestTwo(MaxAttempts, MaxAttempts, ReadOf(b, m), attempts[m]) \in Nat
      BY <2>5, RestIsCount
    <3> QED BY <1>1, <1>2, <2>3, <3>1 DEF LeftOf
  <2>7. 2 * (handed'[m] + Held(a, m)' + Held(b, m)') + LeftOf(a, b, m)' <= MostOf
    BY <1>2, <2>1, <2>2, <2>3, <2>4, <2>6 DEF MessageInv
  <2> QED BY <1>1, <1>2, <1>3, <2>3, <2>5, <2>7 DEF MessageInv, MostOf
<1> QED BY <1>4, <1>5

\* A step of one sender, from its side.
LEMMA SenderKeeps ==
    ASSUME NEW a \in Senders, NEW b \in Senders, a # b, NEW m \in Messages,
           OutboxTypeOK, OutboxTypeOK', MessageInv(a, b, m),
           \/ ListQueued(a) \/ Send(a) \/ SenderDies(a)
           \/ \E k \in Messages : RefuseMessage(a, k) \/ WriteMessage(a, k)
    PROVE  MessageInv(a, b, m)'
<1> USE MessageFacts
<1>1. CASE ListQueued(a)
  <2>1. /\ Free(a) /\ Apart(b, m) /\ sending' = sending /\ sending'[a] = NoMessage
        /\ status' = status /\ attempts' = attempts /\ handed' = handed
        /\ m \in batch'[a] <=> status[m] = "queued"
        /\ status[m] = "queued" => copy'[a][m] = attempts[m]
    BY <1>1 DEF ListQueued, Free, Apart, OutboxTypeOK, rows
  <2>2. NewMessage(a, b, m)'
    BY <2>1 DEF MessageInv, NewMessage, Apart
  <2>3. CASE status[m] = "queued"
    <3>1. ReadOf(a, m)' = attempts[m]
      BY <2>1, <2>3 DEF ReadOf
    <3> QED BY <2>1, <2>2, <3>1, ListedKeeps
  <2>4. CASE status[m] # "queued"
    <3>1. ReadOf(a, m)' = ReadOf(a, m)
      BY <2>1, <2>4 DEF ReadOf, Free
    <3>2. Held(a, m)' = Held(a, m)
      BY <2>1, <3>1 DEF Held
    <3> QED BY <2>1, <2>2, <3>1, <3>2, OtherwiseKeeps
  <2> QED BY <2>3, <2>4
<1>2. ASSUME NEW k \in Messages, GiveUp(a, k) PROVE MessageInv(a, b, m)'
  <2>1. /\ Apart(b, m) /\ sending' = sending /\ attempts' = attempts /\ handed' = handed
        /\ batch'[a] = batch[a] \ {k} /\ copy' = copy
        /\ k \in batch[a] /\ copy[a][k] = MaxAttempts
        /\ status'[m] # "none" \/ (m # k /\ status'[m] = status[m])
    <3>1. copy[a][k] \in 0..MaxAttempts /\ copy[a][k] >= MaxAttempts
      BY <1>2 DEF GiveUp, Exhausted, OutboxTypeOK
    <3>2. copy[a][k] = MaxAttempts
      BY <3>1
    <3> QED BY <1>2, <3>2 DEF GiveUp, Apart, OutboxTypeOK
  <2>2. NewMessage(a, b, m)'
    BY <2>1 DEF MessageInv, NewMessage, Apart
  <2>3. ReadOf(a, m)' = ReadOf(a, m)
    BY <2>1 DEF ReadOf
  <2>4. Held(a, m)' = Held(a, m)
    BY <2>1, <2>3 DEF Held
  <2> QED BY <2>1, <2>2, <2>3, <2>4, OtherwiseKeeps
<1>3. ASSUME NEW k \in Messages, Take(a, k) PROVE MessageInv(a, b, m)'
  <2>1. CASE m = k
    BY <1>3, <2>1, TakeKeeps
  <2>2. CASE m # k
    <3>1. /\ Apart(b, m) /\ attempts'[m] = attempts[m] /\ handed' = handed
          /\ status'[m] = status[m] /\ sending[a] = NoMessage /\ sending'[a] = k
          /\ batch'[a] = batch[a] \ {k} /\ copy'[a][m] = copy[a][m]
      BY <1>3, <2>2 DEF Take, Apart, OutboxTypeOK
    <3>2. NewMessage(a, b, m)'
      BY <3>1 DEF MessageInv, NewMessage, Apart
    <3>3. ReadOf(a, m)' = ReadOf(a, m)
      BY <2>2, <3>1 DEF ReadOf
    <3>4. Held(a, m)' = Held(a, m)
      BY <2>2, <3>1, <3>3 DEF Held
    <3> QED BY <3>1, <3>2, <3>3, <3>4, OtherwiseKeeps
  <2> QED BY <2>1, <2>2
<1>4. ASSUME NEW to \in {"sent", "queued", "failed"}, Answer(a, to)
      PROVE  MessageInv(a, b, m)'
  <2>1. /\ Apart(b, m) /\ attempts' = attempts /\ batch' = batch /\ copy' = copy
        /\ sending[a] \in Messages /\ sending[a] \notin batch[a] /\ sending'[a] = NoMessage
        /\ handed'[m] = IF m = sending[a] THEN handed[m] + 1 ELSE handed[m]
        /\ status'[m] # "none" \/ status'[m] = status[m]
    BY <1>4 DEF Answer, Apart, OutboxTypeOK
  <2>2. NewMessage(a, b, m)'
    BY <2>1 DEF MessageInv, NewMessage, Apart
  <2>3. ReadOf(a, m)' = ReadOf(a, m)
    BY <2>1 DEF ReadOf
  <2>4. handed'[m] + Held(a, m)' = handed[m] + Held(a, m)
    BY <2>1, <2>3 DEF Held, ReadOf
  <2> QED BY <2>1, <2>2, <2>3, <2>4, OtherwiseKeeps
<1>5. CASE MailAccepted(a) \/ MailRefused(a)
  BY <1>4, <1>5 DEF MailAccepted, MailRefused
<1>6. CASE SenderDies(a)
  BY <1>6, DeathKeeps
<1>7. ASSUME NEW k \in Messages, RefuseMessage(a, k) PROVE MessageInv(a, b, m)'
  <2>1. /\ Apart(b, m) /\ attempts' = attempts /\ batch' = batch /\ copy' = copy
        /\ sending' = sending /\ handed' = handed
        /\ status'[m] # "none" \/ status'[m] = status[m]
    BY <1>7 DEF RefuseMessage, work, Apart, OutboxTypeOK
  <2>2. NewMessage(a, b, m)'
    BY <2>1 DEF MessageInv, NewMessage, Apart
  <2>3. ReadOf(a, m)' = ReadOf(a, m) /\ Held(a, m)' = Held(a, m)
    BY <2>1 DEF ReadOf, Held
  <2> QED BY <2>1, <2>2, <2>3, OtherwiseKeeps
<1>8. ASSUME NEW k \in Messages, WriteMessage(a, k) PROVE MessageInv(a, b, m)'
  <2>1. /\ Apart(b, m) /\ attempts' = attempts /\ sending' = sending /\ handed' = handed
        /\ Free(a) /\ sending'[a] = NoMessage /\ status[k] = "none" /\ status'[k] = "queued"
        /\ \A j \in Messages \ {k} : status'[j] = status[j]
        /\ batch'[a] \in {{}, {k}} /\ copy'[a][k] = 0
    BY <1>8 DEF WriteMessage, Free, Apart, OutboxTypeOK
  <2>2. NewMessage(a, b, m)'
    BY <2>1 DEF MessageInv, NewMessage, Apart, Free
  <2>3. CASE m = k /\ m \in batch'[a]
    <3>1. ReadOf(a, m)' = attempts[m]
      BY <2>1, <2>3 DEF ReadOf, MessageInv, NewMessage
    <3> QED BY <2>1, <2>2, <3>1, ListedKeeps
  <2>4. CASE m \notin batch'[a]
    <3>1. ReadOf(a, m)' = ReadOf(a, m)
      BY <2>1, <2>4 DEF ReadOf, Free
    <3>2. Held(a, m)' = Held(a, m)
      BY <2>1, <3>1 DEF Held
    <3> QED BY <2>1, <2>2, <3>1, <3>2, OtherwiseKeeps
  <2> QED BY <2>1, <2>3, <2>4
<1> QED BY <1>1, <1>2, <1>3, <1>5, <1>6, <1>7, <1>8 DEF Send

LEMMA NextOutbox ==
    ASSUME NEW a, NEW b, a # b, Senders = {a, b}
    PROVE  OutboxInv(a, b) /\ [OutboxNext]_outboxVars => OutboxInv(a, b)' \/ OutboxInv(b, a)'
<1> SUFFICES ASSUME OutboxInv(a, b), [OutboxNext]_outboxVars
             PROVE  OutboxInv(a, b)' \/ OutboxInv(b, a)'
  OBVIOUS
<1>0. a \in Senders /\ b \in Senders /\ OutboxInv(b, a) /\ OutboxTypeOK /\ OutboxTypeOK'
  BY MessageTurned, NextOutboxType DEF OutboxInv
<1> DEFINE Moves(s) ==
             \/ ListQueued(s) \/ Send(s) \/ SenderDies(s)
             \/ \E k \in Messages : RefuseMessage(s, k) \/ WriteMessage(s, k)
<1>1. CASE Moves(a)
  BY <1>0, <1>1, SenderKeeps DEF OutboxInv
<1>2. CASE Moves(b)
  BY <1>0, <1>2, SenderKeeps DEF OutboxInv
<1>3. CASE UNCHANGED outboxVars
  <2>1. \A m \in Messages : MessageInv(a, b, m)'
    BY <1>0, <1>3
    DEF outboxVars, rows, work, OutboxInv, MessageInv, NewMessage, ReadOf, Held, LeftOf,
        MostOf
  <2> QED BY <1>0, <2>1 DEF OutboxInv
<1> QED BY <1>1, <1>2, <1>3 DEF OutboxNext, Quiet

\* Two senders never call the mail server more often with one message than the bound says,
\* whatever the number of messages and attempts, also when senders die
\* (notifications.py:191).
THEOREM HandoversOfTwoEnd ==
    ASSUME NEW a, NEW b, a # b, Senders = {a, b}
    PROVE  OutboxSpec => []HandoversEnd
<1>1. OutboxInit => OutboxInv(a, b)
  <2> SUFFICES ASSUME OutboxInit, NEW m \in Messages PROVE OutboxTypeOK /\ MessageInv(a, b, m)
    BY InitOutboxType DEF OutboxInv
  <2>1. OutboxTypeOK /\ a \in Senders /\ b \in Senders /\ MaxAttempts \in Nat
        /\ m # NoMessage
    BY InitOutboxType, OutboxAssumption
  <2>2. /\ ReadOf(a, m) = MaxAttempts /\ ReadOf(b, m) = MaxAttempts
        /\ Held(a, m) = 0 /\ Held(b, m) = 0 /\ attempts[m] = 0 /\ handed[m] = 0
    BY <2>1 DEF OutboxInit, ReadOf, Held
  <2>3. NewMessage(a, b, m)
    BY <2>1 DEF OutboxInit, NewMessage
  <2>4. Consistent(MaxAttempts, MaxAttempts, MaxAttempts, 0)
    BY <2>1 DEF Consistent
  <2>5. LeftOf(a, b, m) <= MostOf /\ LeftOf(a, b, m) \in Nat
    BY <2>1, <2>2, <2>4, RestFromZero, RestIsCount DEF LeftOf, MostOf
  <2>6. 2 * (handed[m] + Held(a, m) + Held(b, m)) + LeftOf(a, b, m) <= MostOf
    BY <2>1, <2>2, <2>5 DEF MostOf
  <2> QED BY <2>1, <2>2, <2>3, <2>4, <2>6 DEF MessageInv
<1>2. OutboxInv(a, b) => HandoversEnd
  <2> SUFFICES ASSUME OutboxInv(a, b), NEW m \in Messages
               PROVE  handed[m] <= (MaxAttempts * (MaxAttempts + 1)) \div 2 + MaxAttempts
    BY DEF HandoversEnd
  <2>1. /\ MaxAttempts \in Nat /\ handed[m] \in Nat /\ 2 * handed[m] <= MostOf
    BY MessageFacts DEF OutboxInv, MessageInv
  <2>2. handed[m] <= MaxAttempts + (MaxAttempts * (MaxAttempts + 1)) \div 2
    BY <2>1, HalfOfBound DEF MostOf
  <2> QED BY <2>1, <2>2
<1>3. OutboxInv(a, b) /\ [OutboxNext]_outboxVars => OutboxInv(a, b)' \/ OutboxInv(b, a)'
  BY NextOutbox
<1>4. OutboxInv(b, a) => OutboxInv(a, b)
  BY MessageTurned
<1> QED BY <1>1, <1>2, <1>3, <1>4, PTL DEF OutboxSpec

-----------------------------------------------------------------------------
(* Progress of a message, as far as it is a matter of steps.               *)

\* The steps of one attempt that are left: at most six calls and what is around them.
AttemptLeft(place, next) ==
    CASE place = "queued" -> 9 [] place = "running" -> 8 - next [] place = "failing" -> 1
      [] place = "finished" -> 0

\* All the steps that are left, the attempts of later retries included.
TaskLeft(place, next, made) ==
    IF place = "finished" THEN 0
    ELSE 10 * (CeleryMaxRetries - made) + AttemptLeft(place, next)

TasksFall ==
    \A t \in Tasks :
       /\ TaskLeft(pc'[t], call'[t], retries'[t]) <= TaskLeft(pc[t], call[t], retries[t])
       /\ Step(t) \/ ClientUnavailable(t) =>
             TaskLeft(pc'[t], call'[t], retries'[t]) < TaskLeft(pc[t], call[t], retries[t])

\* A message on its way has steps left.
LEMMA TaskLeftOf ==
    ASSUME NEW n \in 1..6, NEW m \in 1..6, NEW r \in 0..CeleryMaxRetries,
           CeleryMaxRetries \in Nat
    PROVE  /\ TaskLeft("finished", m, r) = 0
           /\ TaskLeft("queued", n, r) > 0 /\ TaskLeft("running", n, r) > 0
           /\ TaskLeft("failing", n, r) > 0
           /\ TaskLeft("running", m, r) < TaskLeft("queued", n, r)
           /\ m = n + 1 => TaskLeft("running", m, r) < TaskLeft("running", n, r)
           /\ TaskLeft("failing", m, r) < TaskLeft("running", n, r)
           /\ r < CeleryMaxRetries =>
                 TaskLeft("queued", m, r + 1) < TaskLeft("failing", n, r)
<1>1. /\ AttemptLeft("queued", n) = 9 /\ AttemptLeft("queued", m) = 9
      /\ AttemptLeft("failing", n) = 1 /\ AttemptLeft("failing", m) = 1
      /\ AttemptLeft("running", n) = 8 - n /\ AttemptLeft("running", m) = 8 - m
  BY DEF AttemptLeft
<1>2. CeleryMaxRetries - r \in Nat
  OBVIOUS
<1> QED BY <1>1, <1>2 DEF TaskLeft

\* What a task does moves it alone.
LEMMA StepMovesTask ==
    ASSUME TypeOK, Stage, TypeOK', NEW t \in Tasks, Step(t) \/ ClientUnavailable(t)
    PROVE  /\ TaskLeft(pc'[t], call'[t], retries'[t]) < TaskLeft(pc[t], call[t], retries[t])
           /\ \A u \in Tasks \ {t} : /\ pc'[u] = pc[u] /\ call'[u] = call[u]
                                     /\ retries'[u] = retries[u]
<1>0. /\ call[t] \in 1..6 /\ call'[t] \in 1..6 /\ CeleryMaxRetries \in Nat
      /\ retries[t] \in 0..CeleryMaxRetries /\ retries'[t] \in 0..CeleryMaxRetries
  BY TasksAssumption DEF TypeOK, TasksAssumption
<1> DEFINE Falls ==
              TaskLeft(pc'[t], call'[t], retries'[t]) < TaskLeft(pc[t], call[t], retries[t])
           Alone == \A u \in Tasks \ {t} : /\ pc'[u] = pc[u] /\ call'[u] = call[u]
                                           /\ retries'[u] = retries[u]
<1>1. CASE ClientUnavailable(t) \/ \E w \in Workers : Begin(t, w)
  <2>1. /\ pc[t] = "queued" /\ pc'[t] \in {"running", "finished"}
        /\ call'[t] = call[t] /\ retries'[t] = retries[t]
    BY <1>1 DEF ClientUnavailable, Begin, Finish, TypeOK
  <2>2. Alone
    BY <1>1 DEF ClientUnavailable, Begin, Finish, TypeOK
  <2> QED BY <1>0, <2>1, <2>2, TaskLeftOf
<1>2. CASE CallSucceeds(t)
  <2>1. /\ pc[t] = "running" /\ pc'[t] = "running"
        /\ call'[t] = call[t] + 1 /\ retries'[t] = retries[t]
    BY <1>2 DEF CallSucceeds, TypeOK
  <2>2. Alone
    BY <1>2 DEF CallSucceeds, TypeOK
  <2> QED BY <1>0, <2>1, <2>2, TaskLeftOf
<1>3. CASE CallFails(t) \/ Complete(t)
  <2>1. /\ pc[t] = "running" /\ pc'[t] \in {"failing", "finished"}
        /\ retries'[t] = retries[t]
    BY <1>3 DEF CallFails, Complete, Finish, TypeOK
  <2>2. Alone
    BY <1>3 DEF CallFails, Complete, Finish, TypeOK
  <2> QED BY <1>0, <2>1, <2>2, TaskLeftOf
<1>4. CASE Fail(t)
  <2>1. /\ pc[t] = "failing" /\ call'[t] = call[t]
        /\ \/ pc'[t] = "finished"
           \/ /\ pc'[t] = "queued" /\ retries[t] < CeleryMaxRetries
              /\ retries'[t] = retries[t] + 1
    BY <1>4 DEF Fail, Retry, Finish, TypeOK
  <2>2. Alone
    BY <1>4 DEF Fail, Retry, Finish, TypeOK
  <2> QED BY <1>0, <2>1, <2>2, TaskLeftOf
<1> QED BY <1>1, <1>2, <1>3, <1>4 DEF Step

LEMMA TaskLeftType ==
    ASSUME NEW place \in {"queued", "running", "failing", "finished"}, NEW n \in 1..6,
           NEW r \in 0..CeleryMaxRetries
    PROVE  TaskLeft(place, n, r) \in Nat
<1>1. 8 - n \in Nat /\ CeleryMaxRetries - r \in Nat
  BY TasksAssumption DEF TasksAssumption
<1>2. AttemptLeft(place, n) \in Nat
  BY <1>1 DEF AttemptLeft
<1> QED BY <1>1, <1>2 DEF TaskLeft

LEMMA TasksOnlyFall ==
    ASSUME TypeOK, Stage, TypeOK', Next
    PROVE  TasksFall
<1>1. \A t \in Tasks : TaskLeft(pc[t], call[t], retries[t]) \in Nat
  BY TaskLeftType DEF TypeOK
<1>n. \A t \in Tasks : TaskLeft(pc'[t], call'[t], retries'[t]) \in Nat
  BY TaskLeftType DEF TypeOK
<1>2. ASSUME NEW t \in Tasks, Step(t) \/ ClientUnavailable(t) PROVE TasksFall
  <2> SUFFICES ASSUME NEW u \in Tasks
               PROVE  LET now  == TaskLeft(pc[u], call[u], retries[u])
                          then == TaskLeft(pc'[u], call'[u], retries'[u])
                      IN  then <= now /\ (Step(u) \/ ClientUnavailable(u) => then < now)
    BY DEF TasksFall
  <2> DEFINE now  == TaskLeft(pc[u], call[u], retries[u])
             then == TaskLeft(pc'[u], call'[u], retries'[u])
  <2>1. now \in Nat /\ then \in Nat
    BY <1>1, <1>n
  <2>2. Step(u) \/ ClientUnavailable(u) => then < now
    BY StepMovesTask
  <2>3. ~(Step(u) \/ ClientUnavailable(u)) => then = now
    BY <1>2, StepMovesTask
  <2> HIDE DEF now, then
  <2>4. then <= now /\ (Step(u) \/ ClientUnavailable(u) => then < now)
    BY <2>1, <2>2, <2>3
  <2> QED BY <2>4 DEF now, then
<1>3. ASSUME ~\E t \in Tasks : Step(t) \/ ClientUnavailable(t) PROVE TasksFall
  <2>1. ASSUME NEW t \in Tasks, pc'[t] = "finished" \/ UNCHANGED <<pc, call, retries>>
                                  \/ (pc'[t] = pc[t] /\ call'[t] = call[t] /\ retries' = retries)
        PROVE  TaskLeft(pc'[t], call'[t], retries'[t]) <= TaskLeft(pc[t], call[t], retries[t])
    <3>1. TaskLeft("finished", call'[t], retries'[t]) = 0
      BY DEF TaskLeft
    <3> QED BY <1>1, <2>1, <3>1
  <2>2. CASE \E w \in Workers : Crash(w)
    BY <2>1, <2>2, <1>3 DEF Crash, TasksFall, TypeOK
  <2>3. CASE RemoveNamespace \/ Idle
    BY <2>1, <2>3, <1>3 DEF RemoveNamespace, Idle, vars, TasksFall
  <2> QED BY <1>3, <2>2, <2>3 DEF Next
<1> QED BY <1>2, <1>3

\* Nothing that happens makes the way of a message longer, and every step of its own makes
\* it shorter: retries, crashes and failing calls keep no task for ever (tasks.py:60).
THEOREM TasksShrink == Spec => [][TasksFall]_vars
<1>1. Spec => [](TypeOK /\ Stage)
  BY InitType, NextType, PTL DEF Spec
<1>2. TypeOK /\ Stage /\ TypeOK' /\ [Next]_vars => [TasksFall]_vars
  BY TasksOnlyFall
<1> QED BY <1>1, <1>2, PTL DEF Spec

-----------------------------------------------------------------------------
(* The two beside each other.  Each moves as it does alone.                *)

LEMMA StepsOfParts ==
    [PartsNext]_partsVars => [Next]_vars /\ [OutboxNext]_outboxVars
BY DEF PartsNext, partsVars

\* What MCWorkers checks is the provisioner and the outbox, so what is proved of each
\* holds there.
THEOREM WorkersAreTheParts == PartsSpec => Spec /\ OutboxSpec
<1>1. PartsInit => Init /\ OutboxInit
  BY DEF PartsInit
<1> QED BY <1>1, StepsOfParts, PTL DEF PartsSpec, Spec, OutboxSpec

\* The variables of the provisioner and of the outbox keep their types.
THEOREM WorkersTyped == PartsSpec => []TypesOK
<1>1. OutboxSpec => []OutboxTypeOK
  BY InitOutboxType, NextOutboxType, PTL DEF OutboxSpec
<1>2. TypeOK /\ OutboxTypeOK => TypesOK
  BY DEF TypesOK
<1> QED BY <1>1, <1>2, WorkersAreTheParts, ProvisionerType, PTL
=============================================================================
