---------------------------- MODULE Notifications ----------------------------
(***************************************************************************)
(* The outbox of notifications.py: a request writes a message and sends it *)
(* at once, and processors, which a worker calls again and again           *)
(* (docs/architecture/notifications.md), send what is queued.  Nobody      *)
(* locks a message: each sends from the copy it listed and saves the       *)
(* fields it sets over what the row has become.                            *)
(***************************************************************************)
EXTENDS Naturals, FiniteSets

CONSTANTS
    Messages,     \* messages that may be written
    Senders,      \* requests and processors that send, each in its own thread
    MaxAttempts,  \* NOTIFICATION_MAX_RETRY_ATTEMPTS
    MaxDeaths     \* bound on senders that die while they send

VARIABLES
    status,       \* NotificationMessage.status, "none" without a row
    attempts,     \* NotificationMessage.attempts
    batch,        \* what each sender has still to send
    copy,         \* attempts in each sender's copy of each message
    sending,      \* the message each sender is handing to the mail server
    handed,       \* times the mail server was called with the message
    deaths

rows == <<status, attempts>>
work == <<batch, copy, sending>>
outboxVars == <<rows, work, handed, deaths>>

NoMessage == "no message"

ASSUME OutboxAssumption ==
    MaxAttempts \in Nat /\ MaxDeaths \in Nat /\ NoMessage \notin Messages

OutboxTypeOK ==
    /\ status \in [Messages -> {"none", "queued", "sending", "sent", "failed",
                                "rate_limited"}]
    /\ attempts \in [Messages -> 0..MaxAttempts]
    /\ batch \in [Senders -> SUBSET Messages]
    /\ copy \in [Senders -> [Messages -> 0..MaxAttempts]]
    /\ sending \in [Senders -> Messages \cup {NoMessage}]
    /\ \A s \in Senders : sending[s] \notin batch[s]
    /\ handed \in [Messages -> Nat]
    /\ deaths \in 0..MaxDeaths

OutboxInit ==
    /\ status = [m \in Messages |-> "none"]
    /\ attempts = [m \in Messages |-> 0]
    /\ batch = [s \in Senders |-> {}]
    /\ copy = [s \in Senders |-> [m \in Messages |-> 0]]
    /\ sending = [s \in Senders |-> NoMessage]
    /\ handed = [m \in Messages |-> 0]
    /\ deaths = 0

-----------------------------------------------------------------------------

Free(s) == batch[s] = {} /\ sending[s] = NoMessage

\* enqueue_notification over the limit of its recipient (see RateLimit): the row says
\* so and is never sent.
RefuseMessage(s, m) ==
    /\ Free(s) /\ status[m] = "none"
    /\ status' = [status EXCEPT ![m] = "rate_limited"]
    /\ UNCHANGED <<attempts, work, handed, deaths>>

\* enqueue_notification: the row is there for every processor before the request comes
\* to send it itself.  Without send_now it does not.
WriteMessage(s, m) ==
    /\ Free(s) /\ status[m] = "none"
    /\ status' = [status EXCEPT ![m] = "queued"]
    /\ \E now \in BOOLEAN :
          batch' = [batch EXCEPT ![s] = IF now THEN {m} ELSE {}]
    /\ copy' = [copy EXCEPT ![s][m] = 0]
    /\ UNCHANGED <<attempts, sending, handed, deaths>>

\* process_queued_notifications reads its whole batch first.
ListQueued(s) ==
    /\ Free(s)
    /\ LET queued == {m \in Messages : status[m] = "queued"} IN
          /\ queued # {}
          /\ batch' = [batch EXCEPT ![s] = queued]
          /\ copy' = [copy EXCEPT ![s] = [m \in Messages |->
                                             IF m \in queued THEN attempts[m] ELSE 0]]
    /\ UNCHANGED <<rows, sending, handed, deaths>>

Exhausted(s, m) == copy[s][m] >= MaxAttempts

\* The top of process_notification, of a copy that has no attempt left.
GiveUp(s, m) ==
    /\ sending[s] = NoMessage /\ m \in batch[s]
    /\ Exhausted(s, m)
    /\ status' = [status EXCEPT ![m] = "failed"]
    /\ batch' = [batch EXCEPT ![s] = @ \ {m}]
    /\ UNCHANGED <<attempts, copy, sending, handed, deaths>>

\* Slip: the attempt is counted when it is over.
TakeUncounted(s, m) ==
    /\ sending[s] = NoMessage /\ m \in batch[s]
    /\ ~Exhausted(s, m)
    /\ status' = [status EXCEPT ![m] = "sending"]
    /\ batch' = [batch EXCEPT ![s] = @ \ {m}]
    /\ sending' = [sending EXCEPT ![s] = m]
    /\ UNCHANGED <<attempts, copy, handed, deaths>>

\* process_notification up to the call of the mail server.
Take(s, m) ==
    /\ sending[s] = NoMessage /\ m \in batch[s]
    /\ ~Exhausted(s, m)
    /\ status' = [status EXCEPT ![m] = "sending"]
    /\ copy' = [copy EXCEPT ![s][m] = @ + 1]
    /\ attempts' = [attempts EXCEPT ![m] = copy[s][m] + 1]
    /\ batch' = [batch EXCEPT ![s] = @ \ {m}]
    /\ sending' = [sending EXCEPT ![s] = m]
    /\ UNCHANGED <<handed, deaths>>

Answer(s, to) ==
    LET m == sending[s] IN
       /\ m # NoMessage
       /\ status' = [status EXCEPT ![m] = to]
       /\ handed' = [handed EXCEPT ![m] = @ + 1]
       /\ sending' = [sending EXCEPT ![s] = NoMessage]
       /\ UNCHANGED <<attempts, batch, copy, deaths>>

MailAccepted(s) == Answer(s, "sent")

\* Slip: the row is left as it is when the server raises.
MailLost(s) == sending[s] # NoMessage /\ Answer(s, "sending")

\* It raised: back to the queue, or given up after the last attempt.
MailRefused(s) ==
    sending[s] # NoMessage
      /\ Answer(s, IF copy[s][sending[s]] < MaxAttempts THEN "queued" ELSE "failed")

\* The process ends while it sends, with the mail handed over or not.
SenderDies(s) ==
    /\ sending[s] # NoMessage /\ deaths < MaxDeaths
    /\ deaths' = deaths + 1
    /\ handed' \in {handed, [handed EXCEPT ![sending[s]] = @ + 1]}
    /\ batch' = [batch EXCEPT ![s] = {}]
    /\ sending' = [sending EXCEPT ![s] = NoMessage]
    /\ UNCHANGED <<rows, copy>>

Send(s) ==
    \/ \E m \in Messages : GiveUp(s, m) \/ Take(s, m)
    \/ MailAccepted(s) \/ MailRefused(s)

\* Nothing is queued, and nobody writes any more.
Quiet ==
    /\ \A s \in Senders : Free(s)
    /\ \A m \in Messages : status[m] \notin {"none", "queued"}
    /\ UNCHANGED outboxVars

OutboxNext ==
    \/ \E s \in Senders : ListQueued(s) \/ Send(s) \/ SenderDies(s)
    \/ \E s \in Senders, m \in Messages : RefuseMessage(s, m) \/ WriteMessage(s, m)
    \/ Quiet

OutboxSpec == OutboxInit /\ [][OutboxNext]_outboxVars

\* The worker calls the processors again and again, and the mail server answers.
OutboxFairness == \A s \in Senders : WF_outboxVars(ListQueued(s)) /\ WF_outboxVars(Send(s))

OutboxFairSpec == OutboxSpec /\ OutboxFairness

-----------------------------------------------------------------------------
(* Properties.                                                             *)

\* Of two senders each may take the row back to one attempt more than it copied: the
\* mail server is called more often than MaxAttempts, but not without end
\* (notifications.py:191).
HandoversEnd ==
    \A m \in Messages : handed[m] <= (MaxAttempts * (MaxAttempts + 1)) \div 2 + MaxAttempts

\* What is queued is sent or given up, unless its sender died: no sender's stale write
\* brings a message back for ever.
QueuedIsSettled ==
    \A m \in Messages :
       status[m] = "queued" ~> status[m] \in {"sent", "failed"} \/ deaths > 0

=============================================================================
