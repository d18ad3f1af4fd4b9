------------------------------ MODULE MCWorkers ------------------------------
(* The work done away from requests, for TLC: the provisioner's messages and *)
(* the outbox.  The two share no state, so Init chooses the one that moves   *)
(* (`focus`) and the other keeps its initial state.                          *)
EXTENDS Provisioner, Notifications

\* Duplicates of one provision, and a message that deletes what they create.
Mixed == [p1 |-> "project.provision", p2 |-> "project.provision",
          x1 |-> "project.deprovision"]

\* The provisions carry a key of their sender's, the deletion none.
SenderKeys == [t \in {"p1", "p2"} |-> "provision-1"]

VARIABLE focus

TypesOK == TypeOK /\ OutboxTypeOK

\* Every message taken from the broker ends, however often its worker fails or dies
\* (tasks.py:60).
AllTasksEnd == focus = "provisioner" => TasksEnd

PartsInit ==
    /\ focus \in {"provisioner", "outbox"}
    /\ Init /\ OutboxInit

PartsNext ==
    /\ UNCHANGED focus
    /\ \/ focus = "provisioner" /\ Next /\ UNCHANGED outboxVars
       \/ focus = "outbox" /\ OutboxNext /\ UNCHANGED vars

partsVars == <<focus, vars, outboxVars>>

\* The fairness of the two parts, each while it is the one that moves.
OfProvisioner(A) == focus = "provisioner" /\ A /\ UNCHANGED <<focus, outboxVars>>
OfOutbox(A)      == focus = "outbox" /\ A /\ UNCHANGED <<focus, vars>>

PartsSpec ==
    /\ PartsInit
    /\ [][PartsNext]_partsVars
    /\ \A t \in Tasks : WF_partsVars(OfProvisioner(Step(t)))
    /\ \A s \in Senders : /\ WF_partsVars(OfOutbox(ListQueued(s)))
                         /\ WF_partsVars(OfOutbox(Send(s)))
=============================================================================
