------------------------------- MODULE Billing -------------------------------
(***************************************************************************)
(* The Stripe webhook of one organization: billing_service.py, and what    *)
(* entitlements.py reads from the rows it keeps.  Stripe sends an event    *)
(* for every change of a subscription or an invoice, in any order, and     *)
(* again until it is answered with success.  One delivery is one           *)
(* transaction under READ COMMITTED.  It locks or inserts the row of its   *)
(* event, reads, and commits later: deliveries of other events commit in   *)
(* between.  An error rolls all of it back, the FAILED status of the       *)
(* event's row included.                                                   *)
(***************************************************************************)
EXTENDS Naturals

CONSTANTS
    Subscriptions,   \* Stripe subscriptions of the organization
    Invoices,        \* Stripe invoices of the organization
    InvoiceOf,       \* the subscription each invoice belongs to
    NoSubscription,  \* "no subscription"
    NoEvent,         \* "not sent yet"
    Refusable,       \* objects whose plan or metadata may be wrong
    Deliveries,      \* requests of Stripe the API handles at a time
    MaxEvents        \* bound on the events Stripe sends

ASSUME BillingAssumption ==
    /\ Subscriptions \cap Invoices = {}
    /\ InvoiceOf \in [Invoices -> Subscriptions]
    /\ NoSubscription \notin Subscriptions
    /\ MaxEvents \in Nat

\* "active" stands for trialing too, "incomplete" for unpaid and for Stripe's
\* "paused": they are live, and blocked, alike.
Statuses == {"incomplete", "active", "past_due", "canceled"}
LiveStatuses == {"active", "past_due"}
StripeStatuses == Statuses \cup {"incomplete_expired"}
Events == [object : Subscriptions, status : StripeStatuses]
            \cup [object : Invoices, status : {"open", "paid"}]
EventIds == 1..MaxEvents

ASSUME NoEventAssumption == NoEvent \notin Events

VARIABLES
    stripe,       \* at Stripe: the status of each subscription
    bill,         \* at Stripe: the status of each invoice
    events,       \* the events in the order Stripe made them
    sent,         \* how many there are
    processedAt,  \* WebhookEvent.processed_at as a position, 0 while not PROCESSED
    clock,        \* events processed so far
    subscription, \* Subscription.status, "none" without a row
    invoice,      \* Invoice.status, "none" without a row
    linked,       \* Invoice.subscription
    handling,     \* the event whose row a delivery has locked, 0 for none
    rowRead,      \* the subscription's row a delivery of an invoice has read
    refused       \* objects whose events are answered with a BillingError

tables == <<processedAt, clock, subscription, invoice, linked>>
vars == <<stripe, bill, events, sent, tables, handling, rowRead, refused>>

TypeOK ==
    /\ stripe \in [Subscriptions -> StripeStatuses \cup {"none"}]
    /\ bill \in [Invoices -> {"none", "open", "paid"}]
    /\ events \in [EventIds -> Events \cup {NoEvent}]
    /\ sent \in 0..MaxEvents
    /\ \A n \in EventIds : events[n] # NoEvent <=> n <= sent
    /\ processedAt \in [EventIds -> Nat]
    /\ clock \in Nat
    /\ subscription \in [Subscriptions -> Statuses \cup {"none"}]
    /\ invoice \in [Invoices -> {"none", "open", "paid"}]
    /\ linked \in [Invoices -> Subscriptions \cup {NoSubscription}]
    /\ handling \in [Deliveries -> 0..MaxEvents]
    /\ rowRead \in [Deliveries -> Subscriptions \cup {NoSubscription}]
    /\ refused \subseteq Refusable

Init ==
    /\ stripe = [s \in Subscriptions |-> "none"]
    /\ bill = [i \in Invoices |-> "none"]
    /\ events = [n \in EventIds |-> NoEvent]
    /\ sent = 0
    /\ processedAt = [n \in EventIds |-> 0]
    /\ clock = 0
    /\ subscription = [s \in Subscriptions |-> "none"]
    /\ invoice = [i \in Invoices |-> "none"]
    /\ linked = [i \in Invoices |-> NoSubscription]
    /\ handling = [w \in Deliveries |-> 0]
    /\ rowRead = [w \in Deliveries |-> NoSubscription]
    /\ refused \in SUBSET Refusable

-----------------------------------------------------------------------------
(* Stripe.  A checkout is opened without asking whether the organization   *)
(* has a live subscription, so Stripe may hold several.                    *)

\* An update may also leave the status as it is.
Moves == {<<"none", "incomplete">>, <<"none", "active">>, <<"incomplete", "active">>,
          <<"incomplete", "incomplete_expired">>, <<"incomplete", "canceled">>,
          <<"active", "incomplete">>, <<"active", "past_due">>, <<"active", "canceled">>,
          <<"past_due", "active">>, <<"past_due", "incomplete">>, <<"past_due", "canceled">>}
            \cup {<<status, status>> : status \in {"incomplete", "active", "past_due"}}

Send(object, status) ==
    /\ sent < MaxEvents
    /\ sent' = sent + 1
    /\ events' = [events EXCEPT ![sent + 1] = [object |-> object, status |-> status]]
    /\ UNCHANGED <<tables, handling, rowRead, refused>>

SubscriptionChanges(s, status) ==
    /\ <<stripe[s], status>> \in Moves
    /\ stripe' = [stripe EXCEPT ![s] = status]
    /\ Send(s, status)
    /\ UNCHANGED bill

PaymentFails(i) ==
    /\ bill[i] = "none" /\ stripe[InvoiceOf[i]] # "none"
    /\ bill' = [bill EXCEPT ![i] = "open"]
    /\ Send(i, "open")
    /\ UNCHANGED stripe

InvoicePaid(i) ==
    /\ bill[i] # "paid" /\ stripe[InvoiceOf[i]] # "none"
    /\ bill' = [bill EXCEPT ![i] = "paid"]
    /\ Send(i, "paid")
    /\ UNCHANGED stripe

-----------------------------------------------------------------------------
(* The webhook.                                                            *)

\* Slip: the event's row is read without a lock, so two deliveries may hold it.
AnyHolder(n) == TRUE

\* select_for_update and uniq_webhook_provider_event: a delivery waits for another
\* one of the same event, and reads the row's status after it.
Free(n) == \A w \in Deliveries : handling[w] # n

Row(object) ==
    IF object \in Invoices /\ subscription[InvoiceOf[object]] # "none"
    THEN InvoiceOf[object] ELSE NoSubscription

\* A delivery of an event that is not PROCESSED yet: it gets the event's row and, for
\* an invoice, reads the row of the subscription, if there is one by now.
Begin(w, n) ==
    /\ handling[w] = 0
    /\ n <= sent /\ processedAt[n] = 0 /\ Free(n)
    /\ handling' = [handling EXCEPT ![w] = n]
    /\ rowRead' = [rowRead EXCEPT ![w] = Row(events[n].object)]
    /\ UNCHANGED <<stripe, bill, events, sent, tables, refused>>

Finish(w) ==
    /\ handling' = [handling EXCEPT ![w] = 0]
    /\ rowRead' = [rowRead EXCEPT ![w] = NoSubscription]
    /\ UNCHANGED <<stripe, bill, events, sent, refused>>

\* Slip: the status of Stripe goes to the row as it is.
AnyStatus(status) == status

\* _subscription_status: what the table does not know counts as incomplete.
SubscriptionStatus(status) == IF status \in Statuses THEN status ELSE "incomplete"

\* uniq_live_subscription_per_org
Conflict(s, status) ==
    status \in LiveStatuses /\ \E t \in Subscriptions \ {s} : subscription[t] \in LiveStatuses

\* The write, processed_at and the commit.  From the write on the locks of the rows
\* keep others from them, so nobody comes between the three.
Processed(w) ==
    /\ clock' = clock + 1
    /\ processedAt' = [processedAt EXCEPT ![handling[w]] = clock + 1]
    /\ Finish(w)

\* Slip: the row is created but an existing one is not updated.
CreateOnly(w) ==
    LET e == events[handling[w]] IN
    /\ handling[w] # 0 /\ e.object \in Subscriptions \ refused
    /\ ~Conflict(e.object, e.status)
    /\ subscription' = [subscription EXCEPT ![e.object] =
                           IF @ = "none" THEN SubscriptionStatus(e.status) ELSE @]
    /\ Processed(w)
    /\ UNCHANGED <<invoice, linked>>

\* Slip: the error of the database is logged and the event taken as processed.
SwallowConflict(w) ==
    LET e == events[handling[w]] IN
    /\ handling[w] # 0 /\ e.object \in Subscriptions \ refused
    /\ subscription' = [subscription EXCEPT ![e.object] =
                           IF Conflict(e.object, e.status) THEN @ ELSE SubscriptionStatus(e.status)]
    /\ Processed(w)
    /\ UNCHANGED <<invoice, linked>>

\* _upsert_subscription: the row takes the status the event carries.
UpsertSubscription(w) ==
    LET e == events[handling[w]] IN
    /\ handling[w] # 0 /\ e.object \in Subscriptions \ refused
    /\ ~Conflict(e.object, e.status)
    /\ subscription' = [subscription EXCEPT ![e.object] = SubscriptionStatus(e.status)]
    /\ Processed(w)
    /\ UNCHANGED <<invoice, linked>>

\* _upsert_invoice: the row takes the status the event carries and a link to the
\* subscription's row the delivery has read.
UpsertInvoice(w) ==
    LET e == events[handling[w]] IN
    /\ handling[w] # 0 /\ e.object \in Invoices \ refused
    /\ invoice' = [invoice EXCEPT ![e.object] = e.status]
    /\ linked' = [linked EXCEPT ![e.object] = rowRead[w]]
    /\ Processed(w)
    /\ UNCHANGED subscription

Process(w) == UpsertSubscription(w) \/ UpsertInvoice(w)

\* A conflict, a refused object, another error or the end of the API's process: the
\* transaction is rolled back and leaves no trace, not even the event's row.
Rollback(w) ==
    /\ handling[w] # 0
    /\ Finish(w)
    /\ UNCHANGED tables

\* A replay is answered from the event's row.
Answer(n) == n <= sent /\ processedAt[n] # 0 /\ UNCHANGED vars

\* plan_not_found, customer_organization_mismatch and organization_not_found depend
\* on the plans and on the metadata at Stripe, which people put right, or wrong.
Reconfigure(object) ==
    /\ refused' = IF object \in refused THEN refused \ {object} ELSE refused \cup {object}
    /\ UNCHANGED <<stripe, bill, events, sent, tables, handling, rowRead>>

Next ==
    \/ \E s \in Subscriptions, status \in StripeStatuses : SubscriptionChanges(s, status)
    \/ \E i \in Invoices : PaymentFails(i) \/ InvoicePaid(i)
    \/ \E w \in Deliveries, n \in EventIds : Begin(w, n)
    \/ \E w \in Deliveries : Process(w) \/ Rollback(w)
    \/ \E n \in EventIds : Answer(n)
    \/ \E object \in Refusable : Reconfigure(object)

BeginAny(n) == \E w \in Deliveries : Begin(w, n)
ProcessAny(n) == \E w \in Deliveries : handling[w] = n /\ Process(w)
End(w) == Process(w) \/ Rollback(w)

Spec == Init /\ [][Next]_vars

\* A delivery ends.  Stripe delivers an event again until it is answered with success,
\* and of the deliveries that could succeed not every one dies.
FairSpec ==
    /\ Spec
    /\ \A w \in Deliveries : WF_vars(End(w))
    /\ \A n \in EventIds : SF_vars(BeginAny(n)) /\ SF_vars(ProcessAny(n))

-----------------------------------------------------------------------------
(* Entitlements.                                                           *)

About(object) == {n \in EventIds : processedAt[n] # 0 /\ events[n].object = object}

\* The subscription whose row is youngest, whatever its status.
Current ==
    CHOOSE s \in Subscriptions : \E n \in About(s) :
       \A t \in Subscriptions : About(t) # {} =>
          \E m \in About(t) : processedAt[m] <= processedAt[n]
             /\ \A k \in About(s) : processedAt[n] <= processedAt[k]

\* Without a row the organization is on the free plan; past_due is within its
\* grace period.
ResourceCreationAllowed ==
    (\E s \in Subscriptions : subscription[s] # "none") =>
       subscription[Current] \in LiveStatuses

-----------------------------------------------------------------------------
(* Properties.                                                             *)

\* However often and in whatever order Stripe delivers its events, two deliveries of
\* one event at a time included, each takes effect once: what was processed is never
\* processed again.
AppliedOnce ==
    [][\A n \in EventIds : processedAt[n] # 0 => processedAt'[n] = processedAt[n]]_vars

Newest(n, object) ==
    n \in About(object) /\ \A m \in About(object) : processedAt[m] <= processedAt[n]

\* The rows tell what the events processed last said, and an invoice is linked only
\* to a subscription whose row was there before: no delivery in between, replay or
\* rolled back one disturbs them.  (An invoice whose delivery looked for the row
\* before the other delivery committed it stays without its link.)
LastProcessedCounts ==
    /\ \A s \in Subscriptions, n \in EventIds :
          Newest(n, s) => subscription[s] = SubscriptionStatus(events[n].status)
    /\ \A i \in Invoices, n \in EventIds :
          Newest(n, i) =>
             /\ invoice[i] = events[n].status
             /\ linked[i] \in {NoSubscription, InvoiceOf[i]}
             /\ linked[i] = InvoiceOf[i] =>
                   \E m \in About(InvoiceOf[i]) : processedAt[m] < processedAt[n]

\* The events of one object were processed in the order Stripe made them.
InOrder ==
    \A m, n \in EventIds :
       /\ m < n /\ processedAt[m] # 0 /\ processedAt[n] # 0
       /\ events[m].object = events[n].object
       => processedAt[m] < processedAt[n]

OneLiveAtStripe ==
    \A s, t \in Subscriptions :
       stripe[s] \in LiveStatuses /\ stripe[t] \in LiveStatuses => s = t

Mirrored ==
    /\ \A s \in Subscriptions : subscription[s] = (IF stripe[s] = "none" THEN "none" ELSE SubscriptionStatus(stripe[s]))
    /\ \A i \in Invoices : invoice[i] = bill[i]

\* If the events of each object are processed in order, Stripe is left with one live
\* subscription and no object stays refused, the database comes to agree with Stripe:
\* an event rolled back by the live-subscription constraint, by a BillingError or by a
\* dying process is taken up by a later delivery.
Mirrors == []InOrder /\ <>[](OneLiveAtStripe /\ refused = {}) => <>[]Mirrored

\* entitlements.md, section 4: "active" gives full access according to the plan.
ActiveHasFullAccess ==
    (\E s \in Subscriptions : subscription[s] = "active") => ResourceCreationAllowed

=============================================================================
