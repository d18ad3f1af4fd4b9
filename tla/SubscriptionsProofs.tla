------------------------ MODULE SubscriptionsProofs -------------------------
(***************************************************************************)
(* Proofs about what a plan allows and what is counted against it:         *)
(* webhooks, keys, metered usage and the counters of the cache, for any    *)
(* subscriptions, invoices, clients, collectors and limits.                *)
(***************************************************************************)
EXTENDS MCSubscriptions, LostUpdates, FiniteSetTheorems, TLAPS

-----------------------------------------------------------------------------
(* Webhooks.                                                               *)

USE BillingAssumption, NoEventAssumption

-----------------------------------------------------------------------------
(* Type correctness.                                                       *)

LEMMA InitType == Init => TypeOK
BY DEF Init, TypeOK, EventIds

\* What Stripe sends names a subscription or an invoice, never both.
LEMMA SendType ==
    ASSUME TypeOK, NEW object, NEW new, [object |-> object, status |-> new] \in Events,
           Send(object, new)
    PROVE  /\ events' \in [EventIds -> Events \cup {NoEvent}]
           /\ sent' \in 0..MaxEvents
           /\ \A n \in EventIds : events'[n] # NoEvent <=> n <= sent'
           /\ sent' = sent + 1 /\ sent + 1 \in EventIds
           /\ UNCHANGED <<processedAt, clock, subscription, invoice, linked, handling, rowRead,
                          refused>>
           /\ \A n \in EventIds : n # sent + 1 => events'[n] = events[n]
<1> DEFINE e == [object |-> object, status |-> new]
<1>1. /\ events \in [EventIds -> Events \cup {NoEvent}] /\ sent \in 0..MaxEvents
      /\ \A n \in EventIds : events[n] # NoEvent <=> n <= sent
      /\ sent < MaxEvents
      /\ sent' = sent + 1
      /\ events' = [events EXCEPT ![sent + 1] = e]
      /\ UNCHANGED <<processedAt, clock, subscription, invoice, linked, handling, rowRead, refused>>
  BY DEF TypeOK, Send, tables
<1>2. e \in Events /\ NoEvent \notin Events
  BY DEF Events
<1> HIDE DEF e
<1>3. sent + 1 \in EventIds /\ sent' \in 0..MaxEvents
  BY <1>1 DEF EventIds
<1>4. events' \in [EventIds -> Events \cup {NoEvent}] /\ events'[sent + 1] = e
  BY <1>1, <1>2, <1>3
<1>5. \A n \in EventIds : n # sent + 1 => events'[n] = events[n]
  BY <1>1
<1>6. \A n \in EventIds : events'[n] # NoEvent <=> n <= sent'
  BY <1>1, <1>2, <1>3, <1>4, <1>5 DEF EventIds
<1> QED BY <1>1, <1>3, <1>4, <1>5, <1>6

\* A delivery in flight has locked an event of Stripe that is not processed, and no
\* other delivery has.
InFlight ==
    \A w \in Deliveries :
       handling[w] # 0 =>
          /\ handling[w] <= sent /\ processedAt[handling[w]] = 0
          /\ \A v \in Deliveries : handling[v] = handling[w] => v = w

\* The event of a delivery and what becomes of its row.
LEMMA EventInFlight ==
    ASSUME TypeOK, InFlight, NEW w \in Deliveries, handling[w] # 0
    PROVE  /\ handling[w] \in EventIds /\ handling[w] <= sent
           /\ processedAt[handling[w]] = 0
           /\ events[handling[w]] \in Events
           /\ SubscriptionStatus(events[handling[w]].status) \in Statuses
           /\ events[handling[w]].object \in Invoices =>
                 events[handling[w]].status \in {"open", "paid"}
<1>1. handling[w] \in EventIds /\ handling[w] <= sent /\ processedAt[handling[w]] = 0
  BY DEF TypeOK, InFlight, EventIds
<1>2. events[handling[w]] \in Events
  BY <1>1 DEF TypeOK
<1>3. SubscriptionStatus(events[handling[w]].status) \in Statuses
  BY DEF SubscriptionStatus, Statuses
<1>4. events[handling[w]].object \in Invoices => events[handling[w]].status \in {"open", "paid"}
  BY <1>2 DEF Events
<1> QED BY <1>1, <1>2, <1>3, <1>4

LEMMA FinishType ==
    ASSUME TypeOK, NEW w \in Deliveries, Finish(w)
    PROVE  /\ UNCHANGED <<stripe, bill, events, sent, refused>>
           /\ handling' \in [Deliveries -> 0..MaxEvents]
           /\ rowRead' \in [Deliveries -> Subscriptions \cup {NoSubscription}]
           /\ handling'[w] = 0 /\ rowRead'[w] = NoSubscription
           /\ \A v \in Deliveries : v # w => handling'[v] = handling[v] /\ rowRead'[v] = rowRead[v]
BY DEF Finish, TypeOK

LEMMA ProcessedType ==
    ASSUME TypeOK, InFlight, NEW w \in Deliveries, handling[w] # 0, Processed(w)
    PROVE  /\ clock' \in Nat /\ clock' = clock + 1
           /\ processedAt' \in [EventIds -> Nat]
           /\ processedAt'[handling[w]] = clock + 1
           /\ \A n \in EventIds : n # handling[w] => processedAt'[n] = processedAt[n]
           /\ Finish(w)
<1>1. handling[w] \in EventIds
  BY EventInFlight
<1> QED BY <1>1 DEF Processed, TypeOK

LEMMA NextType == TypeOK /\ InFlight /\ [Next]_vars => TypeOK'
<1> SUFFICES ASSUME TypeOK, InFlight, [Next]_vars PROVE TypeOK'
  OBVIOUS
<1>1. ASSUME NEW s \in Subscriptions, NEW new \in StripeStatuses,
             SubscriptionChanges(s, new)
      PROVE  TypeOK'
  <2>1. [object |-> s, status |-> new] \in Events
    BY DEF Events
  <2> QED BY <1>1, <2>1, SendType DEF SubscriptionChanges, TypeOK
<1>2. ASSUME NEW i \in Invoices, PaymentFails(i) \/ InvoicePaid(i) PROVE TypeOK'
  <2>1. /\ [object |-> i, status |-> "open"] \in Events
        /\ [object |-> i, status |-> "paid"] \in Events
    BY DEF Events
  <2>2. CASE PaymentFails(i)
    BY <2>1, <2>2, SendType DEF PaymentFails, TypeOK
  <2>3. CASE InvoicePaid(i)
    BY <2>1, <2>3, SendType DEF InvoicePaid, TypeOK
  <2> QED BY <1>2, <2>2, <2>3
<1>3. ASSUME NEW w \in Deliveries, NEW n \in EventIds, Begin(w, n) PROVE TypeOK'
  <2>1. Row(events[n].object) \in Subscriptions \cup {NoSubscription}
    BY DEF Row
  <2>2. n \in 0..MaxEvents
    BY DEF EventIds
  <2> QED BY <1>3, <2>1, <2>2 DEF Begin, tables, TypeOK
<1>4. ASSUME NEW w \in Deliveries, UpsertSubscription(w) PROVE TypeOK'
  <2>1. handling[w] # 0 /\ Processed(w) /\ UNCHANGED <<invoice, linked>>
    BY <1>4 DEF UpsertSubscription
  <2>2. subscription' \in [Subscriptions -> Statuses \cup {"none"}]
    BY <1>4, <2>1, EventInFlight DEF UpsertSubscription, TypeOK
  <2> QED BY <2>1, <2>2, ProcessedType, FinishType DEF TypeOK
<1>5. ASSUME NEW w \in Deliveries, UpsertInvoice(w) PROVE TypeOK'
  <2>1. /\ handling[w] # 0 /\ Processed(w) /\ UNCHANGED subscription
        /\ events[handling[w]].object \in Invoices
    BY <1>5 DEF UpsertInvoice
  <2>2. /\ invoice' \in [Invoices -> {"none", "open", "paid"}]
        /\ linked' \in [Invoices -> Subscriptions \cup {NoSubscription}]
    BY <1>5, <2>1, EventInFlight DEF UpsertInvoice, TypeOK
  <2> QED BY <2>1, <2>2, ProcessedType, FinishType DEF TypeOK
<1>6. ASSUME NEW w \in Deliveries, Rollback(w) PROVE TypeOK'
  BY <1>6, FinishType DEF Rollback, tables, TypeOK
<1>7. ASSUME NEW object \in Refusable, Reconfigure(object) PROVE TypeOK'
  BY <1>7 DEF Reconfigure, tables, TypeOK
<1>8. CASE UNCHANGED vars
  BY <1>8 DEF vars, tables, TypeOK
<1>9. ASSUME NEW n \in EventIds, Answer(n) PROVE TypeOK'
  BY <1>8, <1>9 DEF Answer
<1> QED BY <1>1, <1>2, <1>3, <1>4, <1>5, <1>6, <1>7, <1>8, <1>9 DEF Next, Process

\* A delivery that ends leaves the events of the others alone.
LEMMA NextDelivery == TypeOK /\ InFlight /\ [Next]_vars => InFlight'
<1> SUFFICES ASSUME TypeOK, InFlight, [Next]_vars PROVE InFlight'
  OBVIOUS
<1>1. ASSUME NEW object, NEW new, Send(object, new) PROVE InFlight'
  <2>1. /\ handling' = handling /\ processedAt' = processedAt /\ sent' = sent + 1
        /\ sent \in Nat /\ \A w \in Deliveries : handling[w] \in Nat
    BY <1>1 DEF Send, tables, TypeOK
  <2> QED BY <2>1 DEF InFlight
<1>2. ASSUME NEW w \in Deliveries, NEW n \in EventIds, Begin(w, n) PROVE InFlight'
  <2>1. /\ n <= sent /\ processedAt[n] = 0 /\ sent' = sent /\ processedAt' = processedAt
        /\ \A v \in Deliveries : handling[v] # n
        /\ handling'[w] = n /\ \A v \in Deliveries : v # w => handling'[v] = handling[v]
    BY <1>2 DEF Begin, Free, tables, TypeOK
  <2> QED BY <2>1 DEF InFlight
<1>3. ASSUME NEW w \in Deliveries, Process(w) PROVE InFlight'
  <2>1. handling[w] # 0 /\ Processed(w)
    BY <1>3 DEF Process, UpsertSubscription, UpsertInvoice
  <2>2. /\ sent' = sent /\ handling'[w] = 0
        /\ \A v \in Deliveries : v # w => handling'[v] = handling[v]
        /\ \A n \in EventIds : n # handling[w] => processedAt'[n] = processedAt[n]
    BY <2>1, ProcessedType, FinishType
  <2>3. \A v \in Deliveries : handling[v] # 0 => handling[v] \in EventIds
    BY EventInFlight
  <2> QED BY <2>2, <2>3 DEF InFlight
<1>4. ASSUME NEW w \in Deliveries, Rollback(w) PROVE InFlight'
  <2>1. /\ sent' = sent /\ processedAt' = processedAt /\ handling'[w] = 0
        /\ \A v \in Deliveries : v # w => handling'[v] = handling[v]
    BY <1>4, FinishType DEF Rollback, tables
  <2> QED BY <2>1 DEF InFlight
<1>5. CASE UNCHANGED <<sent, processedAt, handling>>
  BY <1>5 DEF InFlight
<1> QED
  BY <1>1, <1>2, <1>3, <1>4, <1>5
  DEF Next, SubscriptionChanges, PaymentFails, InvoicePaid, Answer, Reconfigure, vars, tables

LEMMA FlightHolds == Spec => [](TypeOK /\ InFlight)
<1>1. Init => InFlight
  BY DEF Init, InFlight
<1> QED BY <1>1, InitType, NextType, NextDelivery, PTL DEF Spec

\* The variables of Billing keep their types; in particular a row never holds a
\* status that _subscription_status does not produce.
THEOREM BillingType == Spec => []TypeOK
BY FlightHolds, PTL

-----------------------------------------------------------------------------
(* The order of processing.  LastProcessedCounts is not inductive: a       *)
(* delivery gives the newest position only if no position lies beyond the  *)
(* clock, it tells the rows apart only if positions are not shared, and    *)
(* what it read of the subscription, whoever commits meanwhile, must still *)
(* be there.                                                               *)

Positions ==
    /\ \A n \in EventIds : processedAt[n] <= clock
    /\ \A n \in EventIds : processedAt[n] # 0 => n <= sent
    /\ \A m, n \in EventIds : processedAt[m] = processedAt[n] /\ processedAt[n] # 0 => m = n

\* A subscription has a row exactly when an event about it was processed.
RowsFromEvents ==
    \A s \in Subscriptions : subscription[s] = "none" <=> About(s) = {}

\* The row a delivery has read is that of its invoice's subscription.
FoundRows ==
    \A w \in Deliveries :
       rowRead[w] # NoSubscription =>
          /\ handling[w] # 0
          /\ events[handling[w]].object \in Invoices
          /\ rowRead[w] = InvoiceOf[events[handling[w]].object]
          /\ About(rowRead[w]) # {}

OrderInv == TypeOK /\ InFlight /\ Positions /\ RowsFromEvents /\ FoundRows /\ LastProcessedCounts

LEMMA InitOrder == Init => OrderInv
<1> SUFFICES ASSUME Init PROVE OrderInv
  OBVIOUS
<1>1. \A o : About(o) = {}
  BY DEF Init, About
<1>2. Positions
  BY DEF Init, Positions, EventIds
<1>3. InFlight /\ FoundRows
  BY DEF Init, InFlight, FoundRows
<1> QED BY <1>1, <1>2, <1>3, InitType DEF OrderInv, RowsFromEvents, LastProcessedCounts, Newest, Init

\* A new event of Stripe is not processed: it disturbs no row's history.
LEMMA SendKeepsOrder ==
    ASSUME OrderInv, TypeOK', InFlight', NEW object, NEW new, Send(object, new),
           [object |-> object, status |-> new] \in Events
    PROVE  OrderInv'
<1>1. /\ UNCHANGED <<processedAt, clock, subscription, invoice, linked, handling, rowRead>>
      /\ sent' = sent + 1 /\ sent + 1 \in EventIds
      /\ \A n \in EventIds : n # sent + 1 => events'[n] = events[n]
  BY SendType DEF OrderInv
<1>2. processedAt[sent + 1] = 0
  BY <1>1 DEF OrderInv, TypeOK, Positions
<1>3. \A n \in EventIds : processedAt[n] # 0 => events'[n] = events[n]
  BY <1>1, <1>2
<1>4. \A o : About(o)' = About(o)
  BY <1>1, <1>3 DEF About
<1>5. Positions'
  BY <1>1 DEF OrderInv, Positions, TypeOK
<1>6. \A o : \A n \in EventIds : Newest(n, o)' => Newest(n, o) /\ events'[n] = events[n]
  BY <1>1, <1>3, <1>4 DEF Newest, About
<1>7. \A w \in Deliveries : handling[w] # 0 => events'[handling[w]] = events[handling[w]]
  <2>1. sent \in Nat
    BY DEF OrderInv, TypeOK
  <2> QED BY <1>1, <2>1, EventInFlight DEF OrderInv, EventIds
<1>8. FoundRows'
  BY <1>1, <1>4, <1>7 DEF OrderInv, FoundRows
<1> QED BY <1>1, <1>4, <1>5, <1>6, <1>8 DEF OrderInv, RowsFromEvents, LastProcessedCounts

\* A delivery takes the newest position, and only its own object has a new event.
LEMMA ProcessedOrder ==
    ASSUME OrderInv, NEW w \in Deliveries, NEW n, n = handling[w], n # 0, Processed(w)
    PROVE  /\ n \in EventIds /\ n \notin About(events[n].object)
           /\ Positions'
           /\ n \in About(events[n].object)'
           /\ \A o : o # events[n].object => About(o)' = About(o)
           /\ About(events[n].object)' = About(events[n].object) \cup {n}
           /\ events' = events
           /\ processedAt'[n] = clock + 1
           /\ \A m \in EventIds : m # n => processedAt'[m] = processedAt[m]
           /\ \A m \in EventIds : processedAt[m] <= clock /\ processedAt[m] \in Nat
           /\ clock \in Nat
<1>1. /\ events' = events /\ sent' = sent /\ clock' = clock + 1
      /\ processedAt'[n] = clock + 1
      /\ \A m \in EventIds : m # n => processedAt'[m] = processedAt[m]
      /\ clock \in Nat
      /\ \A m \in EventIds : processedAt[m] <= clock /\ processedAt[m] \in Nat
      /\ n \in EventIds /\ n <= sent /\ processedAt[n] = 0
  BY EventInFlight, ProcessedType, FinishType DEF OrderInv, TypeOK, Positions
<1>2. Positions'
  <2>1. \A m \in EventIds : processedAt'[m] <= clock'
    BY <1>1
  <2>2. \A m \in EventIds : processedAt'[m] # 0 => m <= sent'
    BY <1>1 DEF OrderInv, Positions
  <2>3. \A l, m \in EventIds : processedAt'[l] = processedAt'[m] /\ processedAt'[m] # 0 => l = m
    BY <1>1 DEF OrderInv, Positions
  <2> QED BY <2>1, <2>2, <2>3 DEF Positions
<1>3. \A o : About(o)' = IF o = events[n].object THEN About(o) \cup {n} ELSE About(o)
  BY <1>1 DEF About
<1>4. n \notin About(events[n].object)
  BY <1>1 DEF About
<1> QED BY <1>1, <1>2, <1>3, <1>4

\* So the newest event of its object is the one delivered, and other objects keep
\* the newest they had.
LEMMA NewestMoves ==
    ASSUME OrderInv, NEW w \in Deliveries, NEW n, n = handling[w], n # 0, Processed(w),
           NEW m \in EventIds, NEW o, Newest(m, o)'
    PROVE  /\ o = events[n].object => m = n
           /\ o # events[n].object => m # n /\ Newest(m, o)
<1>1. About(o) \subseteq EventIds
  BY DEF About
<1>2. n \notin About(o)
  <2>1. processedAt[n] = 0
    BY EventInFlight DEF OrderInv
  <2> QED BY <2>1 DEF About
<1>3. CASE o = events[n].object
  BY <1>3, ProcessedOrder DEF Newest
<1>4. CASE o # events[n].object
  BY <1>1, <1>2, <1>4, ProcessedOrder DEF Newest
<1> QED BY <1>3, <1>4

\* What the other deliveries have read is still there.
LEMMA ProcessedKeepsFound ==
    ASSUME OrderInv, NEW w \in Deliveries, handling[w] # 0, Processed(w)
    PROVE  FoundRows'
<1>1. /\ events' = events /\ rowRead'[w] = NoSubscription
      /\ \A v \in Deliveries : v # w => handling'[v] = handling[v] /\ rowRead'[v] = rowRead[v]
  BY ProcessedType, FinishType DEF OrderInv
<1>2. \A o : About(o) \subseteq About(o)'
  BY ProcessedOrder
<1>3. ASSUME NEW v \in Deliveries, rowRead'[v] # NoSubscription
      PROVE  /\ v # w /\ rowRead[v] # NoSubscription
             /\ rowRead'[v] = rowRead[v] /\ handling'[v] = handling[v]
  BY <1>1, <1>3
<1> QED BY <1>1, <1>2, <1>3 DEF OrderInv, FoundRows

LEMMA UpsertSubscriptionKeepsOrder ==
    ASSUME OrderInv, TypeOK', InFlight', NEW w \in Deliveries, UpsertSubscription(w)
    PROVE  OrderInv'
<1> DEFINE n == handling[w]
<1>1. n # 0 /\ Processed(w) /\ events[n].object \in Subscriptions
  BY DEF UpsertSubscription
<1>2. /\ subscription'[events[n].object] = SubscriptionStatus(events[n].status)
      /\ \A s \in Subscriptions : s # events[n].object => subscription'[s] = subscription[s]
      /\ invoice' = invoice /\ linked' = linked
  BY DEF UpsertSubscription, OrderInv, TypeOK
<1>3. SubscriptionStatus(events[n].status) # "none"
  BY DEF SubscriptionStatus, Statuses
<1>4. RowsFromEvents'
  BY <1>1, <1>2, <1>3, ProcessedOrder DEF OrderInv, RowsFromEvents
<1>5. ASSUME NEW s \in Subscriptions, NEW m \in EventIds, Newest(m, s)'
      PROVE  subscription'[s] = SubscriptionStatus(events'[m].status)
  BY <1>1, <1>2, <1>5, NewestMoves, ProcessedOrder DEF OrderInv, LastProcessedCounts
<1>6. ASSUME NEW i \in Invoices, NEW m \in EventIds, Newest(m, i)'
      PROVE  /\ invoice'[i] = events'[m].status
             /\ linked'[i] \in {NoSubscription, InvoiceOf[i]}
             /\ linked'[i] = InvoiceOf[i] =>
                   \E k \in About(InvoiceOf[i])' : processedAt'[k] < processedAt'[m]
  <2>1. i # events[n].object
    BY <1>1
  <2>2. Newest(m, i) /\ m # n
    BY <1>1, <1>6, <2>1, NewestMoves
  <2>3. /\ invoice[i] = events[m].status
        /\ linked[i] \in {NoSubscription, InvoiceOf[i]}
        /\ linked[i] = InvoiceOf[i] =>
              \E k \in About(InvoiceOf[i]) : processedAt[k] < processedAt[m]
    BY <2>2 DEF OrderInv, LastProcessedCounts
  <2>4. n \notin About(InvoiceOf[i]) /\ About(InvoiceOf[i]) \subseteq EventIds
    <3>1. processedAt[n] = 0
      BY <1>1, EventInFlight DEF OrderInv
    <3> QED BY <3>1 DEF About
  <2>5. About(InvoiceOf[i]) \subseteq About(InvoiceOf[i])'
    BY <1>1, ProcessedOrder
  <2>6. \A k \in About(InvoiceOf[i]) : processedAt'[k] = processedAt[k]
    BY <1>1, <2>4, ProcessedOrder
  <2>7. processedAt'[m] = processedAt[m] /\ events'[m] = events[m]
    BY <1>1, <2>2, ProcessedOrder
  <2> QED BY <1>2, <2>3, <2>5, <2>6, <2>7
<1> QED BY <1>1, <1>4, <1>5, <1>6, ProcessedOrder, ProcessedKeepsFound
        DEF OrderInv, LastProcessedCounts

LEMMA UpsertInvoiceKeepsOrder ==
    ASSUME OrderInv, TypeOK', InFlight', NEW w \in Deliveries, UpsertInvoice(w)
    PROVE  OrderInv'
<1> DEFINE n == handling[w]
           own == events[n].object
<1>1. n # 0 /\ Processed(w) /\ own \in Invoices
  BY DEF UpsertInvoice
<1>2. /\ invoice'[own] = events[n].status
      /\ linked'[own] = rowRead[w]
      /\ \A i \in Invoices : i # own => invoice'[i] = invoice[i] /\ linked'[i] = linked[i]
      /\ subscription' = subscription
  BY DEF UpsertInvoice, OrderInv, TypeOK
<1>3. \A s \in Subscriptions : s # own /\ About(s)' = About(s)
  BY <1>1, ProcessedOrder
<1>4. \A i \in Invoices : InvoiceOf[i] \in Subscriptions
  OBVIOUS
<1>5. RowsFromEvents'
  BY <1>2, <1>3 DEF OrderInv, RowsFromEvents
<1>6. ASSUME NEW s \in Subscriptions, NEW m \in EventIds, Newest(m, s)'
      PROVE  subscription'[s] = SubscriptionStatus(events'[m].status)
  BY <1>1, <1>2, <1>3, <1>6, NewestMoves, ProcessedOrder DEF OrderInv, LastProcessedCounts
<1>7. ASSUME NEW i \in Invoices, NEW m \in EventIds, Newest(m, i)'
      PROVE  /\ invoice'[i] = events'[m].status
             /\ linked'[i] \in {NoSubscription, InvoiceOf[i]}
             /\ linked'[i] = InvoiceOf[i] =>
                   \E k \in About(InvoiceOf[i])' : processedAt'[k] < processedAt'[m]
  <2>1. n \notin About(InvoiceOf[i]) /\ About(InvoiceOf[i]) \subseteq EventIds
    <3>1. processedAt[n] = 0
      BY <1>1, EventInFlight DEF OrderInv
    <3> QED BY <3>1 DEF About
  <2>2. About(InvoiceOf[i])' = About(InvoiceOf[i])
    BY <1>3, <1>4
  <2>3. CASE i = own
    <3>1. m = n
      BY <1>1, <1>7, <2>3, NewestMoves
    <3>2. rowRead[w] # NoSubscription => rowRead[w] = InvoiceOf[i] /\ About(InvoiceOf[i]) # {}
      BY <2>3 DEF OrderInv, FoundRows
    <3>3. \A k \in About(InvoiceOf[i]) : processedAt'[k] < processedAt'[n]
      BY <1>1, <2>1, ProcessedOrder
    <3>4. InvoiceOf[i] # NoSubscription
      BY <1>4
    <3> QED BY <1>1, <1>2, <2>2, <2>3, <3>1, <3>2, <3>3, <3>4, ProcessedOrder
  <2>4. CASE i # own
    <3>1. Newest(m, i) /\ m # n
      BY <1>1, <1>7, <2>4, NewestMoves
    <3>2. /\ invoice[i] = events[m].status
          /\ linked[i] \in {NoSubscription, InvoiceOf[i]}
          /\ linked[i] = InvoiceOf[i] =>
                \E k \in About(InvoiceOf[i]) : processedAt[k] < processedAt[m]
      BY <3>1 DEF OrderInv, LastProcessedCounts
    <3>3. \A k \in About(InvoiceOf[i]) : processedAt'[k] = processedAt[k]
      BY <1>1, <2>1, ProcessedOrder
    <3> QED BY <1>1, <1>2, <2>2, <2>4, <3>1, <3>2, <3>3, ProcessedOrder
  <2> QED BY <2>3, <2>4
<1> QED BY <1>1, <1>5, <1>6, <1>7, ProcessedOrder, ProcessedKeepsFound
        DEF OrderInv, LastProcessedCounts

\* Beginning, ending without success and changing plans write no row.
LEMMA RowsUnchanged ==
    ASSUME OrderInv, TypeOK', InFlight', FoundRows', UNCHANGED <<events, sent, tables>>
    PROVE  OrderInv'
<1>1. \A o : About(o)' = About(o)
  BY DEF About, tables
<1> QED BY <1>1 DEF tables, OrderInv, Positions, RowsFromEvents, LastProcessedCounts, Newest

LEMMA BeginKeepsFound ==
    ASSUME OrderInv, NEW w \in Deliveries, NEW n \in EventIds, Begin(w, n)
    PROVE  FoundRows'
<1>1. /\ events' = events /\ processedAt' = processedAt
      /\ handling'[w] = n /\ rowRead'[w] = Row(events[n].object)
      /\ \A v \in Deliveries : v # w => handling'[v] = handling[v] /\ rowRead'[v] = rowRead[v]
  BY DEF Begin, tables, OrderInv, TypeOK
<1>2. \A o : About(o)' = About(o)
  BY <1>1 DEF About
<1>3. Row(events[n].object) # NoSubscription =>
         /\ events[n].object \in Invoices
         /\ Row(events[n].object) = InvoiceOf[events[n].object]
         /\ About(InvoiceOf[events[n].object]) # {}
  BY DEF Row, OrderInv, RowsFromEvents
<1>4. n # 0
  BY DEF EventIds
<1> QED BY <1>1, <1>2, <1>3, <1>4 DEF OrderInv, FoundRows

LEMMA NextOrder == OrderInv /\ [Next]_vars => OrderInv'
<1> SUFFICES ASSUME OrderInv, [Next]_vars PROVE OrderInv'
  OBVIOUS
<1>1. TypeOK' /\ InFlight'
  BY NextType, NextDelivery DEF OrderInv
<1>2. ASSUME NEW s \in Subscriptions, NEW new \in StripeStatuses,
             SubscriptionChanges(s, new)
      PROVE  OrderInv'
  <2>1. [object |-> s, status |-> new] \in Events
    BY DEF Events
  <2> QED BY <1>1, <1>2, <2>1, SendKeepsOrder DEF SubscriptionChanges
<1>3. ASSUME NEW i \in Invoices, PaymentFails(i) \/ InvoicePaid(i) PROVE OrderInv'
  <2>1. /\ [object |-> i, status |-> "open"] \in Events
        /\ [object |-> i, status |-> "paid"] \in Events
    BY DEF Events
  <2> QED BY <1>1, <1>3, <2>1, SendKeepsOrder DEF PaymentFails, InvoicePaid
<1>4. ASSUME NEW w \in Deliveries, NEW n \in EventIds, Begin(w, n) PROVE OrderInv'
  <2>1. FoundRows'
    BY <1>4, BeginKeepsFound
  <2> QED BY <1>1, <1>4, <2>1, RowsUnchanged DEF Begin
<1>5. ASSUME NEW w \in Deliveries, Process(w) PROVE OrderInv'
  BY <1>1, <1>5, UpsertSubscriptionKeepsOrder, UpsertInvoiceKeepsOrder DEF Process
<1>6. ASSUME NEW w \in Deliveries, Rollback(w) PROVE OrderInv'
  <2>1. /\ Finish(w) /\ UNCHANGED <<events, sent, tables>> /\ processedAt' = processedAt
    BY <1>6 DEF Rollback, Finish, tables
  <2>2. \A o : About(o)' = About(o)
    BY <2>1 DEF About
  <2>3. /\ rowRead'[w] = NoSubscription
        /\ \A v \in Deliveries : v # w => handling'[v] = handling[v] /\ rowRead'[v] = rowRead[v]
    BY <2>1, FinishType DEF OrderInv
  <2>4. FoundRows'
    BY <2>1, <2>2, <2>3 DEF OrderInv, FoundRows
  <2> QED BY <1>1, <2>1, <2>4, RowsUnchanged
<1>7. CASE UNCHANGED <<events, sent, tables, handling, rowRead>>
  <2>1. FoundRows'
    BY <1>7 DEF tables, OrderInv, FoundRows, About
  <2> QED BY <1>1, <1>7, <2>1, RowsUnchanged
<1> QED BY <1>2, <1>3, <1>4, <1>5, <1>6, <1>7 DEF Next, Answer, Reconfigure, vars

LEMMA OrderHolds == Spec => []OrderInv
BY InitOrder, NextOrder, PTL DEF Spec

\* The rows tell what the events processed last said, through replays, deliveries that
\* are rolled back and deliveries that commit between another's read and its write.
THEOREM LastCounts == Spec => []LastProcessedCounts
BY OrderHolds, PTL DEF OrderInv

-----------------------------------------------------------------------------
(* An event takes effect once.                                             *)

\* That the event in flight is not processed yet, although the delivery looked long
\* ago, is InFlight: no other delivery has the event.
LEMMA NextOnce ==
    ASSUME TypeOK, InFlight, [Next]_vars, NEW n \in EventIds, processedAt[n] # 0
    PROVE  processedAt'[n] = processedAt[n]
<1>1. ASSUME NEW w \in Deliveries, Process(w) PROVE processedAt'[n] = processedAt[n]
  <2>1. handling[w] # 0 /\ Processed(w)
    BY <1>1 DEF Process, UpsertSubscription, UpsertInvoice
  <2>2. n # handling[w]
    BY <2>1, EventInFlight
  <2> QED BY <2>1, <2>2, ProcessedType
<1>2. ASSUME NEW object, NEW new, Send(object, new) PROVE processedAt'[n] = processedAt[n]
  BY <1>2 DEF Send, tables
<1>3. CASE UNCHANGED tables
  BY <1>3 DEF tables
<1> QED
  BY <1>1, <1>2, <1>3
  DEF Next, SubscriptionChanges, PaymentFails, InvoicePaid, Begin, Rollback, Answer,
      Reconfigure, vars

\* However often an event is delivered, by how many deliveries at a time, what was
\* processed is not processed again.
THEOREM Once == Spec => AppliedOnce
<1>1. TypeOK /\ InFlight /\ [Next]_vars =>
        [\A n \in EventIds : processedAt[n] # 0 => processedAt'[n] = processedAt[n]]_vars
  BY NextOnce
<1> QED BY <1>1, FlightHolds, PTL DEF Spec, AppliedOnce

HIDE BillingAssumption
HIDE NoEventAssumption

-----------------------------------------------------------------------------
(* Keys of the API.                                                        *)

USE KeysAssumption

\* The status alone does not tell whether the key is in force: a late expiry may have
\* written it over a revocation.  With revoked_at it does.
RowAgrees ==
    /\ status = "none" => ~revoked /\ told = 0
    /\ status = "active" /\ ~revoked => told = secret

\* What a client saw is what the members had been told at that time.
CopyAgrees(c) == held[c] # 0 /\ NotRevoked(c) => copy[c].told = held[c]

CopiesAgree == \A c \in Clients : CopyAgrees(c)

IInv == KeyTypeOK /\ RowAgrees /\ CopiesAgree /\ TheKeyInForceWorks

LEMMA InitIInv == ASSUME KeyInit PROVE IInv
<1>1. KeyTypeOK
  <2>1. 0 \in 0..MaxSecrets
    BY SMT
  <2>2. NoCopy \in [status : {"none", "active", "revoked", "expired"},
                    revoked : BOOLEAN, told : 0..MaxSecrets]
    BY <2>1 DEF NoCopy
  <2> QED BY <2>1, <2>2 DEF KeyInit, KeyTypeOK
<1>2. RowAgrees /\ CopiesAgree /\ TheKeyInForceWorks
  BY DEF KeyInit, RowAgrees, CopiesAgree, CopyAgrees, TheKeyInForceWorks
<1> QED BY <1>1, <1>2 DEF IInv

\* What members and the clock do leaves the clients alone.
LEMMA RowChanges ==
    ASSUME IInv,
           \/ CreateKey \/ Expire
           \/ \E m \in Managers : \/ \E what \in {"rotate", "revoke"} : LoadKey(m, what)
                                  \/ RotateKey(m) \/ RevokeKey(m) \/ RotationsEnd(m)
    PROVE  IInv'
<1>1. UNCHANGED clients
  BY DEF CreateKey, Expire, LoadKey, RotateKey, RevokeKey, RotationsEnd
<1>2. CopiesAgree'
  BY <1>1 DEF IInv, CopiesAgree, CopyAgrees, NotRevoked, clients
<1>3. CASE CreateKey
  <2>1. KeyTypeOK'
    BY <1>1, <1>3, SMT DEF IInv, KeyTypeOK, CreateKey, clients
  <2>2. RowAgrees' /\ TheKeyInForceWorks'
    BY <1>3 DEF IInv, RowAgrees, TheKeyInForceWorks, CreateKey
  <2> QED BY <1>2, <2>1, <2>2 DEF IInv
<1>4. CASE Expire
  <2>1. KeyTypeOK'
    BY <1>1, <1>4 DEF IInv, KeyTypeOK, Expire, members, clients
  <2>2. RowAgrees' /\ TheKeyInForceWorks'
    BY <1>4 DEF IInv, RowAgrees, TheKeyInForceWorks, Expire, members
  <2> QED BY <1>2, <2>1, <2>2 DEF IInv
<1>5. ASSUME NEW m \in Managers,
             \/ \E what \in {"rotate", "revoke"} : LoadKey(m, what)
             \/ RotateKey(m) \/ RevokeKey(m) \/ RotationsEnd(m)
      PROVE  IInv'
  <2>1. job' \in [Managers -> {"none", "rotate", "revoke"}]
    BY <1>5 DEF IInv, KeyTypeOK, LoadKey, RotateKey, RevokeKey, RotationsEnd
  <2>2. CASE \/ \E what \in {"rotate", "revoke"} : LoadKey(m, what)
             \/ RotationsEnd(m)
    <3>1. UNCHANGED <<row, told, issued>>
      BY <2>2 DEF LoadKey, RotationsEnd
    <3> QED BY <1>1, <1>2, <2>1, <3>1
         DEF IInv, KeyTypeOK, RowAgrees, TheKeyInForceWorks, row, clients
  <2>3. CASE RotateKey(m)
    <3>1. issued + 1 \in 1..MaxSecrets
      BY <2>3, SMT DEF IInv, KeyTypeOK, RotateKey
    <3>2. /\ secret' \in 0..MaxSecrets /\ told' \in 0..MaxSecrets
          /\ issued' \in 0..MaxSecrets
      BY <2>3, <3>1, SMT DEF RotateKey
    <3>3. KeyTypeOK'
      BY <1>1, <2>1, <2>3, <3>2 DEF IInv, KeyTypeOK, RotateKey, clients
    <3>4. RowAgrees' /\ TheKeyInForceWorks'
      BY <2>3 DEF RowAgrees, TheKeyInForceWorks, RotateKey
    <3> QED BY <1>2, <3>3, <3>4 DEF IInv
  <2>4. CASE RevokeKey(m)
    <3>1. KeyTypeOK'
      BY <1>1, <2>1, <2>4, SMT DEF IInv, KeyTypeOK, RevokeKey, clients
    <3>2. RowAgrees' /\ TheKeyInForceWorks'
      BY <2>4 DEF RowAgrees, TheKeyInForceWorks, RevokeKey
    <3> QED BY <1>2, <3>1, <3>2 DEF IInv
  <2> QED BY <1>5, <2>2, <2>3, <2>4
<1> QED BY <1>3, <1>4, <1>5

LEMMA LookUpIInv ==
    ASSUME IInv, NEW c \in Clients,
           NEW n \in 1..MaxSecrets, LookUp(c, n)
    PROVE  IInv'
<1> DEFINE found == [status |-> status, revoked |-> revoked, told |-> told]
<1>1. n \in 0..MaxSecrets
  BY SMT
<1>2. held' = [held EXCEPT ![c] = n] /\ copy' = [copy EXCEPT ![c] = found]
  BY DEF LookUp
<1>3. UNCHANGED <<row, members>>
  BY DEF LookUp
<1>4. KeyTypeOK'
  <2>1. held' \in [Clients -> 0..MaxSecrets]
    BY <1>1, <1>2 DEF IInv, KeyTypeOK
  <2>2. copy' \in [Clients -> [status : {"none", "active", "revoked", "expired"},
                               revoked : BOOLEAN, told : 0..MaxSecrets]]
    BY <1>2 DEF IInv, KeyTypeOK
  <2> QED BY <1>3, <2>1, <2>2 DEF IInv, KeyTypeOK, row, members
<1>5. ASSUME NEW d \in Clients PROVE CopyAgrees(d)'
  <2>1. CASE d = c
    <3>1. held'[d] = n /\ copy'[d] = found
      BY <1>2, <2>1 DEF IInv, KeyTypeOK
    <3>2. n = secret
      BY DEF LookUp
    <3>3. found.status = "active" /\ ~found.revoked => found.told = n
      BY <3>2 DEF IInv, RowAgrees
    <3> QED BY <3>1, <3>3 DEF CopyAgrees, NotRevoked
  <2>2. CASE d # c
    BY <1>2, <2>2 DEF IInv, KeyTypeOK, CopiesAgree, CopyAgrees, NotRevoked
  <2> QED BY <2>1, <2>2
<1> QED BY <1>3, <1>4, <1>5
     DEF IInv, RowAgrees, CopiesAgree, TheKeyInForceWorks, row, members

LEMMA LeaveIInv ==
    ASSUME IInv, NEW c \in Clients,
           Admit(c) \/ SaveExpired(c) \/ Refuse(c)
    PROVE  IInv'
<1>1. held' = [held EXCEPT ![c] = 0] /\ copy' = [copy EXCEPT ![c] = NoCopy]
  BY DEF Admit, SaveExpired, Refuse, Leave
<1>2. UNCHANGED <<revoked, secret, expired, job, told, issued>>
  BY DEF Admit, SaveExpired, Refuse, row, members
<1>3. status' = status \/ (expired /\ status' = "expired")
  BY DEF Admit, SaveExpired, Refuse, row
<1>4. KeyTypeOK'
  <2>1. held' \in [Clients -> 0..MaxSecrets]
    BY <1>1, SMT DEF IInv, KeyTypeOK
  <2>2. NoCopy \in [status : {"none", "active", "revoked", "expired"},
                    revoked : BOOLEAN, told : 0..MaxSecrets]
    BY SMT DEF NoCopy
  <2>3. copy' \in [Clients -> [status : {"none", "active", "revoked", "expired"},
                               revoked : BOOLEAN, told : 0..MaxSecrets]]
    BY <1>1, <2>2 DEF IInv, KeyTypeOK
  <2> QED BY <1>2, <1>3, <2>1, <2>3 DEF IInv, KeyTypeOK
<1>5. ASSUME NEW d \in Clients PROVE CopyAgrees(d)'
  <2>1. CASE d = c
    BY <1>1, <2>1 DEF IInv, KeyTypeOK, CopyAgrees
  <2>2. CASE d # c
    BY <1>1, <2>2 DEF IInv, KeyTypeOK, CopiesAgree, CopyAgrees, NotRevoked
  <2> QED BY <2>1, <2>2
<1>6. RowAgrees' /\ TheKeyInForceWorks'
  BY <1>2, <1>3 DEF IInv, RowAgrees, TheKeyInForceWorks
<1> QED BY <1>4, <1>5, <1>6 DEF IInv, CopiesAgree

LEMMA StepIInv == ASSUME IInv, [KeyNext]_keyVars PROVE IInv'
<1>1. CASE UNCHANGED keyVars
  BY <1>1 DEF keyVars, row, members, clients, IInv, KeyTypeOK, RowAgrees, CopiesAgree,
              CopyAgrees, NotRevoked, TheKeyInForceWorks
<1>2. CASE KeyNext
  BY <1>2, RowChanges, LookUpIInv, LeaveIInv DEF KeyNext
<1> QED BY <1>1, <1>2

\* Only the value members were told last is admitted, and it works until it expires,
\* whatever rotations, revocations and expiries interleave with the requests
\* (api_key_authentication.py:31, api_keys.py:58).
THEOREM InForce ==
    KeySpec => [](KeyTypeOK /\ KeyInForce)
<1>1. IInv => KeyTypeOK /\ KeyInForce
  BY DEF IInv, CopiesAgree, CopyAgrees, KeyInForce, OnlyTheKeyInForce, Authenticated
<1>2. KeyInit => IInv
  BY InitIInv
<1>3. IInv /\ [KeyNext]_keyVars => IInv'
  BY StepIInv
<1> QED BY <1>1, <1>2, <1>3, PTL DEF KeySpec

HIDE KeysAssumption

-----------------------------------------------------------------------------
(* Metering.  What is recorded and not reported is a sum over calls, which *)
(* is the size of a set: the units each call has recorded.  While nobody   *)
(* was alerted at a threshold, what was reported and what the calls that   *)
(* found it not reached have recorded is below it in some plan.            *)

Units(f, S) == {u \in S \X (1..MaxUsage) : u[2] <= f[u[1]]}

Compared(t) == {c \in Collectors : pc[c] \in {"comparing", "creating"} /\ t \notin due[c]}

AmountsOK ==
    \A c \in Collectors : amount[c] \in 0..MaxUsage /\ (pc[c] = "idle" => amount[c] = 0)

InFlightIsCounted == reported + Cardinality(Units(amount, Collectors)) <= hours

Unalerted(t) ==
    LET passed == reported + Cardinality(Units(amount, Compared(t))) IN
       alerts[t] = 0 => passed = 0 \/ \E l \in Limits : 100 * passed < t * l

MeterInv ==
    /\ MeterTypeOK /\ AmountsOK /\ InFlightIsCounted
    /\ \A t \in Thresholds : Unalerted(t)

LEMMA UnitsFinite ==
    ASSUME NEW f, NEW S \in SUBSET Collectors
    PROVE  IsFiniteSet(Units(f, S)) /\ Cardinality(Units(f, S)) \in Nat
<1>1. IsFiniteSet(S)
  BY MeterAssumption, FS_Subset
<1>2. IsFiniteSet(1..MaxUsage)
  BY MeterAssumption, FS_Interval
<1>3. IsFiniteSet(S \X (1..MaxUsage))
  BY <1>1, <1>2, FS_Product
<1>4. Units(f, S) \in SUBSET (S \X (1..MaxUsage))
  BY DEF Units
<1>5. IsFiniteSet(Units(f, S))
  BY <1>3, <1>4, FS_Subset
<1> QED BY <1>5, FS_CardinalityType

LEMMA UnitsOfFewer ==
    ASSUME NEW f, NEW T \in SUBSET Collectors, NEW S \in SUBSET T
    PROVE  Cardinality(Units(f, S)) <= Cardinality(Units(f, T))
<1>1. Units(f, S) \in SUBSET Units(f, T)
  BY DEF Units
<1> QED BY <1>1, UnitsFinite, FS_Subset

LEMMA UnitsAgree ==
    ASSUME NEW f, NEW g, NEW S \in SUBSET Collectors, \A c \in S : f[c] = g[c]
    PROVE  Units(f, S) = Units(g, S)
BY DEF Units

\* A call adds what it has recorded.
LEMMA UnitsOfOneMore ==
    ASSUME NEW f, NEW S \in SUBSET Collectors, NEW c \in Collectors, c \notin S,
           f[c] \in 0..MaxUsage
    PROVE  Cardinality(Units(f, S \cup {c})) = Cardinality(Units(f, S)) + f[c]
<1> DEFINE Own == {c} \X (1..f[c])
<1>1. Units(f, S \cup {c}) = Units(f, S) \cup Own
  <2>1. Own = {u \in {c} \X (1..MaxUsage) : u[2] <= f[u[1]]}
    BY MeterAssumption
  <2> QED BY <2>1 DEF Units
<1>2. Units(f, S) \cap Own = {}
  BY DEF Units
<1>3. IsFiniteSet(1..f[c]) /\ Cardinality(1..f[c]) = f[c]
  BY FS_Interval, SMTT(20)
<1>4. IsFiniteSet({c}) /\ Cardinality({c}) = 1
  BY FS_Singleton
<1>5. IsFiniteSet(Own) /\ Cardinality(Own) = 1 * f[c]
  BY <1>3, <1>4, FS_Product, ZenonT(30)
<1>6. Cardinality({}) = 0
  BY FS_EmptySet
<1>7. IsFiniteSet(Units(f, S)) /\ Cardinality(Units(f, S)) \in Nat
  BY UnitsFinite
<1>8. Cardinality(Units(f, S) \cup Own)
         = Cardinality(Units(f, S)) + Cardinality(Own) - Cardinality(Units(f, S) \cap Own)
  BY <1>5, <1>7, FS_Union
<1>9. Cardinality(Units(f, S) \cap Own) = 0 /\ Cardinality(Own) = f[c]
  BY <1>2, <1>5, <1>6
<1> HIDE DEF Own
<1>10. f[c] \in Nat
  BY MeterAssumption
<1>11. Cardinality(Units(f, S)) + f[c] - 0 = Cardinality(Units(f, S)) + f[c]
  BY <1>7, <1>10
<1>12. Cardinality(Units(f, S) \cup Own) = Cardinality(Units(f, S)) + f[c] - 0
  BY <1>8, <1>9, Zenon
<1> QED BY <1>1, <1>11, <1>12, Zenon

\* A call that has recorded something else.
LEMMA UnitsOfChange ==
    ASSUME NEW f \in [Collectors -> 0..MaxUsage], NEW c \in Collectors, NEW q \in 0..MaxUsage
    PROVE  Cardinality(Units([f EXCEPT ![c] = q], Collectors))
              = Cardinality(Units(f, Collectors)) - f[c] + q
<1> DEFINE g == [f EXCEPT ![c] = q]
           Others == Collectors \ {c}
<1>1. Others \cup {c} = Collectors /\ Others \in SUBSET Collectors /\ c \notin Others
  OBVIOUS
<1>2. Units(f, Others) = Units(g, Others)
  BY <1>1, UnitsAgree
<1>3. f[c] \in 0..MaxUsage /\ g[c] = q
  OBVIOUS
<1> HIDE DEF g, Others
<1>4. Cardinality(Units(f, Others \cup {c})) = Cardinality(Units(f, Others)) + f[c]
  BY <1>1, <1>3, UnitsOfOneMore
<1>5. Cardinality(Units(g, Others \cup {c})) = Cardinality(Units(g, Others)) + q
  BY <1>1, <1>3, UnitsOfOneMore
<1>6. Cardinality(Units(f, Others)) \in Nat
  BY <1>1, UnitsFinite
<1>7. Cardinality(Units(g, Collectors)) = Cardinality(Units(f, Collectors)) - f[c] + q
  BY <1>1, <1>2, <1>3, <1>4, <1>5, <1>6
<1> QED BY <1>7 DEF g

LEMMA NextDueIsDue ==
    ASSUME NEW c \in Collectors, MeterTypeOK, due[c] # {}
    PROVE  NextDue(c) \in due[c]
<1>1. due[c] \subseteq {80, 90, 100}
  BY DEF MeterTypeOK, Thresholds
<1>2. \E t \in due[c] : \A u \in due[c] : t <= u
  <2>1. CASE 80 \in due[c]
    BY <1>1, <2>1
  <2>2. CASE 80 \notin due[c] /\ 90 \in due[c]
    BY <1>1, <2>2
  <2>3. CASE 80 \notin due[c] /\ 90 \notin due[c]
    BY <1>1, <2>3
  <2> QED BY <2>1, <2>2, <2>3
<1> QED BY <1>2 DEF NextDue

LEMMA InitMeter == MeterInit => MeterInv
<1> SUFFICES ASSUME MeterInit PROVE MeterInv
  OBVIOUS
<1>1. MeterTypeOK /\ AmountsOK
  BY MeterAssumption DEF MeterInit, MeterTypeOK, AmountsOK, Thresholds
<1>2. \A S \in SUBSET Collectors : Units(amount, S) = {}
  BY MeterAssumption DEF MeterInit, Units
<1>3. Cardinality({}) = 0
  BY FS_EmptySet
<1>4. InFlightIsCounted
  BY <1>2, <1>3 DEF MeterInit, InFlightIsCounted
<1>5. ASSUME NEW t \in Thresholds PROVE Unalerted(t)
  <2>1. Compared(t) = {}
    BY DEF MeterInit, Compared
  <2>2. Cardinality(Units(amount, Compared(t))) = 0
    BY <1>2, <1>3, <2>1
  <2> QED BY <2>2 DEF MeterInit, Unalerted
<1> QED BY <1>1, <1>4, <1>5 DEF MeterInv

\* The type invariant but for its relation of reported and hours.
MeterFieldsOK ==
    /\ limit \in Limits
    /\ hours \in Nat /\ days \in Nat /\ reported \in Nat
    /\ alerts \in [Thresholds -> Nat]
    /\ pc \in [Collectors -> {"idle", "recorded", "comparing", "creating"}]
    /\ amount \in [Collectors -> Amounts \cup {0}]
    /\ due \in [Collectors -> SUBSET Thresholds]
    /\ \A c \in Collectors : pc[c] = "creating" => due[c] # {}

LEMMA FieldsOfInv ==
    ASSUME MeterInv
    PROVE  /\ MeterFieldsOK
           /\ amount \in [Collectors -> 0..MaxUsage]
BY MeterAssumption DEF MeterInv, MeterTypeOK, AmountsOK, MeterFieldsOK

LEMMA NextMeterFields == MeterInv /\ [MeterNext]_meterVars => MeterFieldsOK' /\ AmountsOK'
<1> SUFFICES ASSUME MeterInv, [MeterNext]_meterVars PROVE MeterFieldsOK' /\ AmountsOK'
  OBVIOUS
<1>0. MeterFieldsOK /\ AmountsOK /\ MeterTypeOK
  BY FieldsOfInv DEF MeterInv
<1> USE <1>0, MeterAssumption DEF MeterFieldsOK, AmountsOK, Go, rows, calls
<1>1. ASSUME NEW c \in Collectors, NEW q \in Amounts, RecordUsage(c, q)
      PROVE  MeterFieldsOK' /\ AmountsOK'
  BY <1>1 DEF RecordUsage
<1>2. ASSUME NEW c \in Collectors, Compare(c) PROVE MeterFieldsOK' /\ AmountsOK'
  BY <1>2 DEF Compare
<1>3. ASSUME NEW c \in Collectors, GetAlert(c) PROVE MeterFieldsOK' /\ AmountsOK'
  <2>1. due' \in [Collectors -> SUBSET Thresholds]
    BY <1>3 DEF GetAlert
  <2> QED BY <1>3, <2>1 DEF GetAlert
<1>4. ASSUME NEW c \in Collectors, GetAlertFails(c) \/ CollectorDies(c)
      PROVE  MeterFieldsOK' /\ AmountsOK'
  BY <1>4 DEF GetAlertFails, CollectorDies
<1>5. ASSUME NEW c \in Collectors, CreateAlert(c) PROVE MeterFieldsOK' /\ AmountsOK'
  <2>1. NextDue(c) \in Thresholds
    BY <1>5, NextDueIsDue DEF CreateAlert
  <2>2. due' \in [Collectors -> SUBSET Thresholds]
    BY <1>5 DEF CreateAlert
  <2> QED BY <1>5, <2>1, <2>2 DEF CreateAlert
<1>6. ASSUME NEW c \in Collectors, ReportUsage(c) PROVE MeterFieldsOK' /\ AmountsOK'
  BY <1>6 DEF ReportUsage
<1>7. CASE AggregateDaily \/ ChangePlan \/ UNCHANGED meterVars
  BY <1>7 DEF AggregateDaily, ChangePlan, meterVars
<1> QED BY <1>1, <1>2, <1>3, <1>4, <1>5, <1>6, <1>7 DEF MeterNext

LEMMA NextInFlight == MeterInv /\ [MeterNext]_meterVars => InFlightIsCounted'
<1> SUFFICES ASSUME MeterInv, [MeterNext]_meterVars PROVE InFlightIsCounted'
  OBVIOUS
<1>0. /\ MeterFieldsOK /\ AmountsOK /\ InFlightIsCounted
      /\ amount \in [Collectors -> 0..MaxUsage] /\ MaxUsage \in Nat /\ 0 \in 0..MaxUsage
      /\ hours \in Nat /\ reported \in Nat
      /\ Cardinality(Units(amount, Collectors)) \in Nat
  BY FieldsOfInv, MeterAssumption, UnitsFinite DEF MeterInv, MeterFieldsOK
<1>1. ASSUME NEW c \in Collectors, NEW q \in Amounts, RecordUsage(c, q)
      PROVE  InFlightIsCounted'
  <2>1. q \in 0..MaxUsage /\ amount[c] = 0
    BY <1>0, <1>1, MeterAssumption DEF RecordUsage, AmountsOK
  <2>2. Cardinality(Units([amount EXCEPT ![c] = q], Collectors))
           = Cardinality(Units(amount, Collectors)) - 0 + q
    BY <1>0, <2>1, UnitsOfChange
  <2> QED BY <1>0, <1>1, <2>1, <2>2 DEF RecordUsage, InFlightIsCounted
<1>2. ASSUME NEW c \in Collectors
      PROVE  /\ amount[c] \in Nat
             /\ Cardinality(Units([amount EXCEPT ![c] = 0], Collectors))
                  = Cardinality(Units(amount, Collectors)) - amount[c] + 0
  <2>1. Cardinality(Units([amount EXCEPT ![c] = 0], Collectors))
           = Cardinality(Units(amount, Collectors)) - amount[c] + 0
    BY <1>0, UnitsOfChange
  <2>2. amount[c] \in Nat
    BY <1>0
  <2> QED BY <2>1, <2>2
<1>3. ASSUME NEW c \in Collectors, GetAlertFails(c) \/ CollectorDies(c)
      PROVE  InFlightIsCounted'
  BY <1>0, <1>2, <1>3 DEF GetAlertFails, CollectorDies, InFlightIsCounted, rows
<1>4. ASSUME NEW c \in Collectors, ReportUsage(c) PROVE InFlightIsCounted'
  <2>1. /\ reported' = reported + amount[c] /\ hours' = hours
        /\ amount' = [amount EXCEPT ![c] = 0]
    BY <1>4 DEF ReportUsage, rows
  <2>2. Cardinality(Units(amount', Collectors))
           = Cardinality(Units(amount, Collectors)) - amount[c] + 0
    BY <1>2, <2>1
  <2>3. reported' + Cardinality(Units(amount', Collectors)) <= hours'
    BY <1>0, <1>2, <2>1, <2>2 DEF InFlightIsCounted
  <2> QED BY <2>3 DEF InFlightIsCounted
<1>5. CASE UNCHANGED <<hours, amount, reported>>
  BY <1>0, <1>5 DEF InFlightIsCounted
<1> QED
  BY <1>1, <1>3, <1>4, <1>5
  DEF MeterNext, Compare, GetAlert, CreateAlert, AggregateDaily, ChangePlan, meterVars,
      rows, calls

\* A threshold stays unalerted while what has passed it does not grow.
LEMMA StillUnalerted ==
    ASSUME MeterInv, NEW t \in Thresholds, alerts'[t] = alerts[t],
           reported' \in Nat, Cardinality(Units(amount', Compared(t)')) \in Nat,
           reported' + Cardinality(Units(amount', Compared(t)'))
              <= reported + Cardinality(Units(amount, Compared(t)))
    PROVE  Unalerted(t)'
<1> DEFINE passed == reported + Cardinality(Units(amount, Compared(t)))
           next == reported' + Cardinality(Units(amount', Compared(t)'))
<1>1. passed \in Nat /\ next \in Nat /\ next <= passed
  BY FieldsOfInv, UnitsFinite DEF Compared, MeterFieldsOK
<1>2. alerts[t] = 0 => passed = 0 \/ \E l \in Limits : 100 * passed < t * l
  BY DEF MeterInv, Unalerted
<1>3. t \in Nat /\ Limits \subseteq Nat
  BY MeterAssumption DEF Thresholds
<1> HIDE DEF passed, next
<1>4. alerts'[t] = 0 => next = 0 \/ \E l \in Limits : 100 * next < t * l
  <2> SUFFICES ASSUME alerts'[t] = 0, next # 0 PROVE \E l \in Limits : 100 * next < t * l
    OBVIOUS
  <2>1. PICK l \in Limits : 100 * passed < t * l
    BY <1>1, <1>2
  <2>2. t * l \in Nat
    BY <1>3
  <2>3. 100 * next < t * l
    BY <1>1, <2>1, <2>2
  <2> QED BY <2>3
<1> QED BY <1>4 DEF Unalerted, passed, next

LEMMA NextUnalerted ==
    ASSUME MeterInv, [MeterNext]_meterVars, NEW t \in Thresholds
    PROVE  Unalerted(t)'
<1>0. /\ MeterFieldsOK /\ AmountsOK /\ InFlightIsCounted /\ MeterFieldsOK' /\ AmountsOK'
      /\ InFlightIsCounted'
      /\ amount \in [Collectors -> 0..MaxUsage] /\ MaxUsage \in Nat
  BY FieldsOfInv, NextMeterFields, NextInFlight, MeterAssumption DEF MeterInv
<1>1. /\ Compared(t) \subseteq Collectors /\ Compared(t)' \subseteq Collectors
      /\ reported \in Nat /\ reported' \in Nat
      /\ \A f : \A S \in SUBSET Collectors : Cardinality(Units(f, S)) \in Nat
  BY <1>0, UnitsFinite DEF Compared, MeterFieldsOK
<1>2. ASSUME NEW c \in Collectors, NEW q \in Amounts, RecordUsage(c, q)
      PROVE  Unalerted(t)'
  <2>1. Compared(t)' = Compared(t) /\ c \notin Compared(t)
    BY <1>0, <1>2 DEF RecordUsage, Compared, Go, MeterFieldsOK
  <2>2. Units(amount, Compared(t)) = Units(amount', Compared(t))
    <3>1. \A d \in Compared(t) : amount[d] = amount'[d]
      BY <1>0, <1>1, <1>2, <2>1 DEF RecordUsage
    <3> QED BY <1>1, <3>1, UnitsAgree
  <2>3. alerts'[t] = alerts[t] /\ reported' = reported
    BY <1>2 DEF RecordUsage
  <2> QED BY <1>1, <2>1, <2>2, <2>3, StillUnalerted
<1>3. ASSUME NEW c \in Collectors, Compare(c) PROVE Unalerted(t)'
  <2>1. CASE t \in due'[c]
    <3>1. Compared(t)' = Compared(t)
      BY <1>0, <1>3, <2>1 DEF Compare, Compared, Go, MeterFieldsOK
    <3>2. alerts'[t] = alerts[t] /\ reported' = reported /\ amount' = amount
      BY <1>3 DEF Compare
    <3> QED BY <1>1, <3>1, <3>2, StillUnalerted
  <2>2. CASE t \notin due'[c]
    <3>1. ~(100 * (hours + days) >= t * limit)
      BY <1>0, <1>3, <2>2 DEF Compare, ReachedBy, MeterFieldsOK
    <3>2. /\ hours \in Nat /\ days \in Nat /\ t * limit \in Nat /\ limit \in Limits
      BY <1>0, MeterAssumption DEF MeterFieldsOK, Thresholds
    <3>3. /\ hours' = hours /\ limit' = limit /\ alerts' = alerts /\ amount' = amount
          /\ reported' = reported
      BY <1>3 DEF Compare, rows
    <3>4. Cardinality(Units(amount, Compared(t)')) <= Cardinality(Units(amount, Collectors))
      BY <1>1, UnitsOfFewer
    <3>5. reported + Cardinality(Units(amount, Compared(t)')) <= hours
      BY <1>0, <1>1, <3>2, <3>4 DEF InFlightIsCounted
    <3>6. 100 * (reported + Cardinality(Units(amount, Compared(t)'))) < t * limit
      BY <1>1, <3>1, <3>2, <3>5
    <3> QED BY <3>2, <3>3, <3>6 DEF Unalerted
  <2> QED BY <2>1, <2>2
<1>4. ASSUME NEW c \in Collectors, GetAlert(c) PROVE Unalerted(t)'
  <2>1. /\ alerts' = alerts /\ reported' = reported /\ amount' = amount
        /\ due[c] # {} /\ pc[c] = "comparing"
    BY <1>4 DEF GetAlert
  <2>2. CASE alerts[NextDue(c)] = 1 /\ t = NextDue(c)
    BY <2>1, <2>2 DEF Unalerted
  <2>3. CASE alerts[NextDue(c)] = 1 /\ t # NextDue(c)
    <3>1. Compared(t)' = Compared(t)
      BY <1>0, <1>4, <2>3 DEF GetAlert, Compared, MeterFieldsOK
    <3> QED BY <1>1, <2>1, <3>1, StillUnalerted
  <2>4. CASE alerts[NextDue(c)] # 1
    <3>1. Compared(t)' = Compared(t)
      BY <1>0, <1>4, <2>4 DEF GetAlert, Compared, Go, MeterFieldsOK
    <3> QED BY <1>1, <2>1, <3>1, StillUnalerted
  <2> QED BY <2>2, <2>3, <2>4
<1>5. ASSUME NEW c \in Collectors, GetAlertFails(c) \/ CollectorDies(c)
      PROVE  Unalerted(t)'
  <2>1. /\ alerts' = alerts /\ reported' = reported
        /\ \A d \in Collectors \ {c} : amount'[d] = amount[d] /\ pc'[d] = pc[d]
                                        /\ due'[d] = due[d]
        /\ pc'[c] = "idle"
    BY <1>0, <1>5 DEF GetAlertFails, CollectorDies, Go, MeterFieldsOK
  <2>2. Compared(t)' = Compared(t) \ {c}
    BY <2>1 DEF Compared
  <2>3. Units(amount, Compared(t)') = Units(amount', Compared(t)')
    BY <1>1, <2>1, <2>2, UnitsAgree
  <2>4. Cardinality(Units(amount, Compared(t)')) <= Cardinality(Units(amount, Compared(t)))
    BY <1>1, <2>2, UnitsOfFewer
  <2> QED BY <1>1, <2>1, <2>3, <2>4, StillUnalerted
<1>6. ASSUME NEW c \in Collectors, CreateAlert(c) PROVE Unalerted(t)'
  <2>1. NextDue(c) \in due[c] /\ NextDue(c) \in Thresholds
    BY <1>0, <1>6, NextDueIsDue DEF CreateAlert, MeterFieldsOK, MeterInv
  <2>2. alerts' = [alerts EXCEPT ![NextDue(c)] = alerts[NextDue(c)] + 1]
        /\ reported' = reported /\ amount' = amount
    BY <1>6 DEF CreateAlert
  <2>3. CASE t = NextDue(c)
    BY <1>0, <2>1, <2>2, <2>3 DEF Unalerted, MeterFieldsOK
  <2>4. CASE t # NextDue(c)
    <3>1. Compared(t)' = Compared(t)
      BY <1>0, <1>6, <2>4 DEF CreateAlert, Compared, Go, MeterFieldsOK
    <3>2. alerts'[t] = alerts[t]
      BY <1>0, <2>2, <2>4 DEF MeterFieldsOK
    <3> QED BY <1>1, <2>2, <3>1, <3>2, StillUnalerted
  <2> QED BY <2>3, <2>4
<1>7. ASSUME NEW c \in Collectors, ReportUsage(c) PROVE Unalerted(t)'
  <2>1. /\ alerts' = alerts /\ reported' = reported + amount[c]
        /\ \A d \in Collectors \ {c} : amount'[d] = amount[d] /\ pc'[d] = pc[d]
        /\ due' = due /\ pc'[c] = "idle"
        /\ pc[c] = "comparing" /\ t \notin due[c]
    BY <1>0, <1>7 DEF ReportUsage, Go, MeterFieldsOK
  <2>2. Compared(t)' = Compared(t) \ {c} /\ c \in Compared(t)
    BY <2>1 DEF Compared
  <2>3. Units(amount, Compared(t)') = Units(amount', Compared(t)')
    BY <1>1, <2>1, <2>2, UnitsAgree
  <2>4. Compared(t) = Compared(t)' \cup {c} /\ c \notin Compared(t)'
        /\ amount[c] \in 0..MaxUsage
    BY <1>0, <2>2
  <2>5. Cardinality(Units(amount, Compared(t)' \cup {c}))
           = Cardinality(Units(amount, Compared(t)')) + amount[c]
    BY <1>1, <2>4, UnitsOfOneMore
  <2>6. reported' + Cardinality(Units(amount', Compared(t)'))
           = reported + Cardinality(Units(amount, Compared(t)))
    BY <1>0, <1>1, <2>1, <2>3, <2>4, <2>5
  <2> QED BY <1>1, <2>1, <2>6, StillUnalerted
<1>8. CASE UNCHANGED <<alerts, pc, amount, due, reported>>
  <2>1. Compared(t)' = Compared(t)
    BY <1>8 DEF Compared
  <2> QED BY <1>1, <1>8, <2>1, StillUnalerted
<1> QED
  BY <1>2, <1>3, <1>4, <1>5, <1>6, <1>7, <1>8
  DEF MeterNext, AggregateDaily, ChangePlan, meterVars, rows, calls

LEMMA NextMeter == MeterInv /\ [MeterNext]_meterVars => MeterInv'
<1> SUFFICES ASSUME MeterInv, [MeterNext]_meterVars PROVE MeterInv'
  OBVIOUS
<1>1. MeterFieldsOK' /\ AmountsOK' /\ InFlightIsCounted'
  BY NextMeterFields, NextInFlight
<1>2. Cardinality(Units(amount', Collectors)) \in Nat
  BY UnitsFinite
<1>3. reported' \in 0..hours'
  BY <1>1, <1>2 DEF InFlightIsCounted, MeterFieldsOK
<1> QED BY <1>1, <1>3, NextUnalerted DEF MeterInv, MeterFieldsOK, MeterTypeOK

\* What was reported and reaches a threshold of every plan was alerted, for any number of
\* collectors, any amounts and limits (metering.py:221).
THEOREM ReportsAreAlerted == MeterSpec => []ReportedIsAlerted
<1>1. MeterInv => ReportedIsAlerted
  <2> SUFFICES ASSUME MeterInv, NEW t \in Thresholds, reported > 0,
                      \A l \in Limits : 100 * reported >= t * l
               PROVE  alerts[t] > 0
    BY DEF ReportedIsAlerted
  <2>1. /\ reported \in Nat /\ t \in Nat /\ Limits \subseteq Nat /\ alerts[t] \in Nat
        /\ Cardinality(Units(amount, Compared(t))) \in Nat
    BY FieldsOfInv, UnitsFinite, MeterAssumption DEF MeterFieldsOK, Compared, Thresholds
  <2>2. ASSUME NEW l \in Limits,
               100 * (reported + Cardinality(Units(amount, Compared(t)))) < t * l
        PROVE  FALSE
    <3>1. t * l \in Nat /\ 100 * reported >= t * l
      BY <2>1
    <3> QED BY <2>1, <2>2, <3>1
  <2> QED BY <2>1, <2>2 DEF MeterInv, Unalerted
<1> QED BY InitMeter, NextMeter, <1>1, PTL DEF MeterSpec

-----------------------------------------------------------------------------
(* RateLimit.  Of the two threads of a process, what was let through and   *)
(* what can still be let through together never grow: LostUpdates says how *)
(* much that is.  The other processes have counters of their own.          *)

Threads(p) == {c \in Callers : Home[c] = p}

\* Of the process of a caller.
Count(c) == count[Home[c]]
Granted(c) == granted[Home[c]]

\* What a caller has read and not written; a failed attempt will read the count.
Unwritten(c) ==
    CASE step[c] = "writing" -> seen[c]
      [] step[c] = "failed" -> Count(c)
      [] step[c] \in {"idle", "admitted"} -> Limit

\* A mail or key that is let through when it is written.
Owed(c) ==
    IF step[c] = "writing" /\ (kind = "mail" \/ (kind = "key" /\ seen[c] < Limit))
    THEN 1 ELSE 0

\* Twice the attempt of a caller that was admitted before the limit was reached.
Late(c) == IF step[c] = "admitted" /\ Count(c) >= Limit THEN 2 ELSE 0

Most == Limit * Limit + 3 * Limit

StepsOfKind(c) ==
    /\ kind = "key" => step[c] \in {"idle", "writing"}
    /\ kind = "mail" => step[c] # "failed"

LateIsAlone(a, b) == step[a] = "admitted" /\ Count(a) >= Limit => step[b] = "idle"

Left(a, b) == RestTwo(Limit, Unwritten(a), Unwritten(b), Count(a))

PairInv(a, b) ==
    /\ CounterTypeOK /\ Home[a] = Home[b]
    /\ StepsOfKind(a) /\ StepsOfKind(b)
    /\ LateIsAlone(a, b) /\ LateIsAlone(b, a)
    /\ Consistent(Limit, Unwritten(a), Unwritten(b), Count(a))
    /\ 2 * (Granted(a) + Owed(a) + Owed(b)) + Left(a, b) + Late(a) + Late(b) <= Most

LEMMA InitCounterType == CounterInit => CounterTypeOK
BY DEF CounterInit, CounterTypeOK

LEMMA NextCounterType == CounterTypeOK /\ [CounterNext]_counterVars => CounterTypeOK'
<1> SUFFICES ASSUME CounterTypeOK, [CounterNext]_counterVars PROVE CounterTypeOK'
  OBVIOUS
<1> USE DEF CounterTypeOK, MoveTo
<1>1. ASSUME NEW c \in Callers, Ask(c) \/ Fail(c) \/ Get(c) \/ Set(c) \/ Clear(c)
      PROVE  CounterTypeOK'
  <2>1. CASE Ask(c) \/ Fail(c) \/ Clear(c)
    BY <2>1, LimitAssumption DEF Ask, Fail, Clear
  <2>2. CASE Get(c)
    BY <2>2, LimitAssumption DEF Get
  <2>3. CASE Set(c)
    <3>1. Home[c] \in Processes /\ seen[c] + 1 \in Nat /\ granted[Home[c]] + 1 \in Nat
      BY LimitAssumption
    <3>2. count' \in [Processes -> Nat]
      BY <2>3, <3>1 DEF Set
    <3>3. granted' \in [Processes -> Nat]
      BY <2>3, <3>1 DEF Set
    <3> QED BY <2>3, <3>2, <3>3 DEF Set
  <2> QED BY <1>1, <2>1, <2>2, <2>3
<1>2. CASE UNCHANGED counterVars
  BY <1>2 DEF counterVars
<1> QED BY <1>1, <1>2 DEF CounterNext, Refused

LEMMA PairFacts ==
    ASSUME NEW a \in Callers, NEW b \in Callers, PairInv(a, b)
    PROVE  /\ Limit \in Nat /\ Limit > 0 /\ Most \in Nat
           /\ Home[a] \in Processes /\ Home[b] = Home[a]
           /\ Count(b) = Count(a) /\ Count(b)' = Count(a)'
           /\ Granted(b) = Granted(a) /\ Granted(b)' = Granted(a)'
           /\ Count(a) \in Nat /\ Granted(a) \in Nat /\ seen[a] \in Nat /\ seen[b] \in Nat
           /\ step[a] \in {"idle", "admitted", "failed", "writing"}
           /\ step[b] \in {"idle", "admitted", "failed", "writing"}
           /\ Unwritten(a) \in Nat /\ Unwritten(b) \in Nat
           /\ Owed(a) \in {0, 1} /\ Owed(b) \in {0, 1}
           /\ Late(a) \in {0, 2} /\ Late(b) \in {0, 2}
           /\ Left(a, b) \in Nat
<1>0. /\ Home[a] \in Processes /\ Home[b] = Home[a]
      /\ Count(b) = Count(a) /\ Count(b)' = Count(a)'
      /\ Granted(b) = Granted(a) /\ Granted(b)' = Granted(a)'
  BY LimitAssumption DEF PairInv, Count, Granted
<1>1. /\ Limit \in Nat /\ Limit > 0
      /\ Count(a) \in Nat /\ Granted(a) \in Nat /\ seen[a] \in Nat /\ seen[b] \in Nat
      /\ step[a] \in {"idle", "admitted", "failed", "writing"}
      /\ step[b] \in {"idle", "admitted", "failed", "writing"}
  BY <1>0, LimitAssumption DEF PairInv, CounterTypeOK, Count, Granted
<1>2. Unwritten(a) \in Nat /\ Unwritten(b) \in Nat
  BY <1>0, <1>1 DEF Unwritten
<1>3. Left(a, b) \in Nat
  BY <1>1, <1>2, RestIsCount DEF PairInv, Left
<1>4. /\ Owed(a) \in {0, 1} /\ Owed(b) \in {0, 1} /\ Late(a) \in {0, 2} /\ Late(b) \in {0, 2}
  BY DEF Owed, Late
<1>5. Most \in Nat
  BY <1>1 DEF Most
<1> QED BY <1>0, <1>1, <1>2, <1>3, <1>4, <1>5

LEMMA PairTurned ==
    ASSUME NEW a \in Callers, NEW b \in Callers, PairInv(a, b)
    PROVE  PairInv(b, a)
<1>1. Left(a, b) = Left(b, a) /\ Consistent(Limit, Unwritten(b), Unwritten(a), Count(a))
  BY PairFacts, RestIsCount DEF PairInv, Left
<1>2. 2 * (Granted(b) + Owed(b) + Owed(a)) + Left(b, a) + Late(b) + Late(a) <= Most
  BY <1>1, PairFacts DEF PairInv
<1> QED BY <1>1, <1>2, PairFacts DEF PairInv

LEMMA AskKeeps ==
    ASSUME NEW a \in Callers, NEW b \in Callers, a # b, PairInv(a, b), Ask(a), CounterTypeOK'
    PROVE  PairInv(a, b)'
<1>1. /\ Count(a) < Limit /\ step[a] = "idle" /\ step'[a] = "admitted" /\ step'[b] = step[b]
      /\ kind' = kind /\ kind # "key" /\ Count(a)' = Count(a) /\ seen' = seen /\ Granted(a)' = Granted(a)
  BY PairFacts DEF Ask, Reached, MoveTo, PairInv, CounterTypeOK, Count, Granted
<1>2. /\ Unwritten(a)' = Unwritten(a) /\ Unwritten(b)' = Unwritten(b)
      /\ Owed(a)' = Owed(a) /\ Owed(b)' = Owed(b)
      /\ Late(a)' = Late(a) /\ Late(b)' = Late(b)
  BY <1>1, PairFacts DEF Unwritten, Owed, Late
<1>3. StepsOfKind(a)' /\ StepsOfKind(b)' /\ LateIsAlone(a, b)' /\ LateIsAlone(b, a)'
  BY <1>1, PairFacts DEF PairInv, StepsOfKind, LateIsAlone
<1>4. Left(a, b)' = Left(a, b)
  BY <1>1, <1>2 DEF Left
<1> QED BY <1>1, <1>2, <1>3, <1>4 DEF PairInv, Most

\* A caller that reads or will read the count, and is let through with that.
LEMMA ReadKeeps ==
    ASSUME NEW a \in Callers, NEW b \in Callers, a # b, PairInv(a, b), CounterTypeOK',
           kind' = kind, Count(a)' = Count(a), step'[b] = step[b], seen'[b] = seen[b],
           StepsOfKind(a)', StepsOfKind(b)', step'[a] \notin {"idle", "admitted"},
           Unwritten(a) = Limit, Unwritten(a)' = Count(a),
           step[a] = "admitted" \/ Count(a) < Limit,
           Granted(a)' + Owed(a)' = Granted(a) + Owed(a) + 1
    PROVE  PairInv(a, b)'
<1> USE PairFacts
<1>1. /\ Unwritten(b)' = Unwritten(b) /\ Owed(b)' = Owed(b) /\ Late(b)' = Late(b)
      /\ Late(a)' = 0
  BY DEF Unwritten, Owed, Late
<1>2. Granted(a)' \in Nat /\ Owed(a)' \in {0, 1}
  BY DEF CounterTypeOK, Owed, Granted
<1>3. LateIsAlone(a, b)' /\ LateIsAlone(b, a)'
  <2>1. ~(step[b] = "admitted" /\ Count(a) >= Limit)
    BY DEF PairInv, LateIsAlone
  <2> QED BY <2>1 DEF LateIsAlone
<1>4. CASE Count(a) < Limit
  <2>1. Left(a, b)' = Left(a, b) - 2
        /\ Consistent(Limit, Count(a), Unwritten(b), Count(a))
    BY <1>1, <1>4, ReadCounts DEF Left
  <2>2. 2 * (Granted(a)' + Owed(a)' + Owed(b)') + Left(a, b)' + Late(a)' + Late(b)' <= Most
    BY <1>1, <1>2, <2>1 DEF PairInv
  <2> QED BY <1>1, <1>3, <2>1, <2>2 DEF PairInv, Most
<1>5. CASE Count(a) >= Limit
  <2>1. step[b] = "idle" /\ Unwritten(b) = Limit /\ Late(a) = 2
    <3>1. step[a] = "admitted"
      BY <1>5
    <3>2. step[b] = "idle"
      BY <1>5, <3>1 DEF PairInv, LateIsAlone
    <3> QED BY <1>5, <3>1, <3>2 DEF Unwritten, Late
  <2>2. Left(a, b)' = Left(a, b) /\ Consistent(Limit, Count(a), Limit, Count(a))
    BY <1>1, <1>5, <2>1 DEF Left, RestTwo, RestOne, Consistent
  <2>3. 2 * (Granted(a)' + Owed(a)' + Owed(b)') + Left(a, b)' + Late(a)' + Late(b)' <= Most
    BY <1>1, <1>2, <2>1, <2>2 DEF PairInv
  <2> QED BY <1>1, <1>3, <2>1, <2>2, <2>3 DEF PairInv, Most
<1> QED BY <1>4, <1>5

LEMMA FailKeeps ==
    ASSUME NEW a \in Callers, NEW b \in Callers, a # b, PairInv(a, b), Fail(a), CounterTypeOK'
    PROVE  PairInv(a, b)'
<1>1. /\ step[a] = "admitted" /\ step'[a] = "failed" /\ step'[b] = step[b]
      /\ kind' = kind /\ kind = "login" /\ Count(a)' = Count(a) /\ seen' = seen
      /\ Granted(a)' = Granted(a) + 1
  BY PairFacts DEF Fail, MoveTo, PairInv, CounterTypeOK, Count, Granted
<1>2. Owed(a) = 0 /\ Owed(a)' = 0 /\ Unwritten(a) = Limit /\ Unwritten(a)' = Count(a)
  BY <1>1 DEF Owed, Unwritten
<1>3. StepsOfKind(a)' /\ StepsOfKind(b)'
  BY <1>1 DEF StepsOfKind
<1>4. Granted(a)' + Owed(a)' = Granted(a) + Owed(a) + 1
  BY <1>1, <1>2, PairFacts
<1> QED BY <1>1, <1>2, <1>3, <1>4, ReadKeeps

LEMMA GetKeeps ==
    ASSUME NEW a \in Callers, NEW b \in Callers, a # b, PairInv(a, b), Get(a), CounterTypeOK'
    PROVE  PairInv(a, b)'
<1> USE PairFacts
<1>1. /\ step'[a] = "writing" /\ step'[b] = step[b] /\ seen'[a] = Count(a) /\ seen'[b] = seen[b]
      /\ kind' = kind /\ Count(a)' = Count(a) /\ Granted(a)' = Granted(a)
      /\ kind \in {"login", "mail", "key"}
      /\ Unwritten(a)' = Count(a)
  BY DEF Get, MoveTo, PairInv, CounterTypeOK, Count, Granted, Unwritten
<1>2. /\ Unwritten(b)' = Unwritten(b) /\ Owed(b)' = Owed(b) /\ Late(b)' = Late(b)
      /\ Late(a)' = 0 /\ StepsOfKind(a)' /\ StepsOfKind(b)'
  BY <1>1 DEF Unwritten, Owed, Late, StepsOfKind, PairInv
<1>3. CASE kind = "login"
  <2>1. step[a] = "failed" /\ Unwritten(a) = Count(a) /\ Owed(a) = 0 /\ Late(a) = 0
    BY <1>3 DEF Get, Unwritten, Owed, Late
  <2>2. Unwritten(a)' = Unwritten(a) /\ Owed(a)' = Owed(a) /\ Left(a, b)' = Left(a, b)
    BY <1>1, <1>2, <1>3, <2>1 DEF Owed, Left
  <2>3. LateIsAlone(a, b)' /\ LateIsAlone(b, a)'
    BY <1>1, <2>1 DEF PairInv, LateIsAlone
  <2> QED BY <1>1, <1>2, <2>1, <2>2, <2>3 DEF PairInv, Most
<1>4. CASE kind = "mail"
  <2>1. /\ step[a] = "admitted" /\ Unwritten(a) = Limit
        /\ Owed(a) = 0 /\ Owed(a)' = 1
    BY <1>1, <1>4 DEF Get, Unwritten, Owed
  <2>2. Granted(a)' + Owed(a)' = Granted(a) + Owed(a) + 1
    BY <1>1, <2>1
  <2> QED BY <1>1, <1>2, <2>1, <2>2, ReadKeeps
<1>5. CASE kind = "key" /\ Count(a) < Limit
  <2>1. /\ step[a] = "idle" /\ Unwritten(a) = Limit /\ Owed(a) = 0 /\ Owed(a)' = 1
    BY <1>1, <1>5 DEF Get, Unwritten, Owed
  <2>2. Granted(a)' + Owed(a)' = Granted(a) + Owed(a) + 1
    BY <1>1, <2>1
  <2> QED BY <1>1, <1>2, <1>5, <2>1, <2>2, ReadKeeps
<1>6. CASE kind = "key" /\ Count(a) >= Limit
  <2>1. /\ step[a] = "idle" /\ Unwritten(a) = Limit /\ Owed(a) = 0 /\ Owed(a)' = 0
        /\ Late(a) = 0
    BY <1>1, <1>6 DEF Get, Unwritten, Owed, Late
  <2>2. Left(a, b)' = Left(a, b) /\ Consistent(Limit, Count(a), Unwritten(b), Count(a))
    BY <1>1, <1>2, <1>6, <2>1 DEF Left, RestTwo, Consistent
  <2>3. LateIsAlone(a, b)' /\ LateIsAlone(b, a)'
    BY <1>1, <1>6 DEF PairInv, LateIsAlone, StepsOfKind
  <2> QED BY <1>1, <1>2, <2>1, <2>2, <2>3 DEF PairInv, Most
<1> QED BY <1>1, <1>3, <1>4, <1>5, <1>6

LEMMA SetKeeps ==
    ASSUME NEW a \in Callers, NEW b \in Callers, a # b, PairInv(a, b), Set(a), CounterTypeOK'
    PROVE  PairInv(a, b)'
<1> DEFINE x == seen[a]
<1> USE PairFacts
<1>1. /\ step[a] = "writing" /\ step'[a] = "idle" /\ step'[b] = step[b]
      /\ kind' = kind /\ Count(a)' = x + 1 /\ seen' = seen
  BY DEF Set, MoveTo, PairInv, CounterTypeOK, Count, Granted
<1>2. Unwritten(a) = x /\ Unwritten(a)' = Limit /\ Late(a) = 0 /\ Late(a)' = 0
      /\ Owed(a)' = 0 /\ Owed(b)' = Owed(b)
  BY <1>1 DEF Unwritten, Late, Owed
<1>3. Granted(a)' = Granted(a) + Owed(a)
  BY <1>1 DEF Set, Owed, Passed, Granted, PairInv, CounterTypeOK
<1>4. Unwritten(b)' = IF step[b] = "failed" THEN x + 1 ELSE Unwritten(b)
  BY <1>1 DEF Unwritten
<1>5. step[b] = "failed" => Unwritten(b) = Count(a)
  BY DEF Unwritten
<1>6. Left(a, b)' <= Left(a, b)
  <2>1. /\ RestTwo(Limit, Limit, Unwritten(b), x + 1) <= Left(a, b)
        /\ Unwritten(b) = Count(a) => RestTwo(Limit, Limit, x + 1, x + 1) <= Left(a, b)
    BY <1>2, WriteFalls DEF PairInv, Left
  <2> QED BY <1>1, <1>2, <1>4, <1>5, <2>1 DEF Left
<1>7. /\ Consistent(Limit, Limit, Unwritten(b)', x + 1)
      /\ StepsOfKind(a)' /\ StepsOfKind(b)' /\ LateIsAlone(a, b)' /\ LateIsAlone(b, a)'
  BY <1>1 DEF Consistent, StepsOfKind, LateIsAlone, PairInv
<1>8. Left(a, b)' \in Nat /\ Late(b)' \in {0, 2}
  <2>1. Unwritten(b)' \in Nat /\ x + 1 \in Nat
    BY <1>4
  <2>2. RestTwo(Limit, Limit, Unwritten(b)', x + 1) \in Nat
    BY <1>7, <2>1, RestIsCount
  <2> QED BY <1>1, <1>2, <2>2 DEF Left, Late
<1>9. Left(a, b)' + Late(b)' <= Left(a, b) + Late(b)
  <2>1. CASE Late(b)' = 0
    BY <1>6, <1>8, <2>1
  <2>2. CASE Late(b)' # 0
    <3>1. step[b] = "admitted" /\ x + 1 >= Limit /\ Late(b)' = 2
      BY <1>1, <2>2 DEF Late
    <3>2. Count(a) < Limit /\ Unwritten(b) = Limit
      BY <1>1, <3>1 DEF PairInv, LateIsAlone, Unwritten
    <3>3. Left(a, b) >= 2
      BY <3>2, RestIsCount DEF Left, PairInv
    <3>4. Left(a, b)' = RestTwo(Limit, Limit, Limit, x + 1)
      BY <1>1, <1>2, <1>4, <3>1, <3>2 DEF Left
    <3>5. RestTwo(Limit, Limit, Limit, x + 1) = Rest(Limit, x + 1)
      BY DEF RestTwo, RestOne
    <3>6. Rest(Limit, x + 1) = 0
      <4>1. x + 1 \in Nat
        OBVIOUS
      <4> QED BY <3>1, <4>1, RestOfCount
    <3> QED BY <3>1, <3>3, <3>4, <3>5, <3>6
  <2> QED BY <2>1, <2>2
<1>10. 2 * (Granted(a)' + Owed(a)' + Owed(b)') + Left(a, b)' + Late(a)' + Late(b)' <= Most
  BY <1>2, <1>3, <1>8, <1>9 DEF PairInv
<1> QED BY <1>1, <1>2, <1>7, <1>10 DEF PairInv, Most

LEMMA ClearKeeps ==
    ASSUME NEW a \in Callers, NEW b \in Callers, a # b, PairInv(a, b), Clear(a),
           CounterTypeOK'
    PROVE  PairInv(a, b)'
<1> USE PairFacts
<1>1. /\ step[a] = "admitted" /\ step'[a] = "idle" /\ step'[b] = step[b]
      /\ kind' = kind /\ kind = "login" /\ Count(a)' = 0 /\ Granted(a)' = 0 /\ seen' = seen
  BY DEF Clear, MoveTo, PairInv, CounterTypeOK, Count, Granted
<1>2. /\ Owed(a)' = 0 /\ Owed(b)' = 0 /\ Late(a)' = 0 /\ Late(b)' = 0
      /\ Unwritten(a)' = Limit /\ Unwritten(b)' \in Nat
  BY <1>1 DEF Owed, Late, Unwritten
<1>3. Left(a, b)' <= Most
  BY <1>1, <1>2, RestFromZero DEF Left, Most
<1>4. /\ Consistent(Limit, Limit, Unwritten(b)', 0)
      /\ StepsOfKind(a)' /\ StepsOfKind(b)' /\ LateIsAlone(a, b)' /\ LateIsAlone(b, a)'
  BY <1>1 DEF Consistent, StepsOfKind, LateIsAlone
<1>5. Left(a, b)' \in Nat
  BY <1>1, <1>2, <1>4, RestIsCount DEF Left
<1>6. 2 * (Granted(a)' + Owed(a)' + Owed(b)') + Left(a, b)' + Late(a)' + Late(b)' <= Most
  BY <1>1, <1>2, <1>3, <1>5
<1> QED BY <1>1, <1>2, <1>4, <1>6 DEF PairInv, Most

\* A step of either thread, from its side; the threads of other processes have nothing
\* to do with their counter.
LEMMA NextPair ==
    ASSUME NEW a \in Callers, NEW b \in Callers, a # b, Threads(Home[a]) = {a, b},
           PairInv(a, b), [CounterNext]_counterVars
    PROVE  PairInv(a, b)' \/ PairInv(b, a)'
<1>0. PairInv(b, a)
  BY PairTurned
<1>1. CounterTypeOK'
  BY NextCounterType DEF PairInv
<1>2. ASSUME Ask(a) \/ Fail(a) \/ Get(a) \/ Set(a) \/ Clear(a) PROVE PairInv(a, b)'
  BY <1>1, <1>2, AskKeeps, FailKeeps, GetKeeps, SetKeeps, ClearKeeps
<1>3. ASSUME Ask(b) \/ Fail(b) \/ Get(b) \/ Set(b) \/ Clear(b) PROVE PairInv(b, a)'
  BY <1>0, <1>1, <1>3, AskKeeps, FailKeeps, GetKeeps, SetKeeps, ClearKeeps
<1>4. ASSUME NEW c \in Callers, Home[c] # Home[a],
             Ask(c) \/ Fail(c) \/ Get(c) \/ Set(c) \/ Clear(c)
      PROVE  PairInv(a, b)'
  <2>1. /\ c # a /\ c # b
        /\ Home[a] \in Processes /\ Home[c] \in Processes
        /\ CounterTypeOK /\ Home[b] = Home[a]
    BY <1>4, LimitAssumption DEF PairInv
  <2>2. /\ kind' = kind /\ step'[a] = step[a] /\ step'[b] = step[b]
        /\ seen'[a] = seen[a] /\ seen'[b] = seen[b]
    BY <1>4, <2>1 DEF Ask, Fail, Get, Set, Clear, MoveTo, CounterTypeOK
  <2>3. count'[Home[a]] = count[Home[a]] /\ granted'[Home[a]] = granted[Home[a]]
    BY <1>4, <2>1 DEF Ask, Fail, Get, Set, Clear, CounterTypeOK
  <2> QED
    BY <1>1, <2>1, <2>2, <2>3
    DEF PairInv, StepsOfKind, LateIsAlone, Unwritten, Left, Owed, Late, Most, Count, Granted
<1>5. CASE UNCHANGED counterVars
  BY <1>5
  DEF counterVars, PairInv, CounterTypeOK, StepsOfKind, LateIsAlone, Unwritten, Left, Owed,
      Late, Most, Count, Granted
<1>6. ASSUME NEW c \in Callers, Home[c] = Home[a] PROVE c = a \/ c = b
  BY <1>6 DEF Threads
<1> QED BY <1>2, <1>3, <1>4, <1>5, <1>6 DEF CounterNext, Refused

\* The pairs of all processes.
PairsInv ==
    /\ CounterTypeOK
    /\ \A a, b \in Callers :
          a # b /\ Threads(Home[a]) = {a, b} => PairInv(a, b) \/ PairInv(b, a)

LEMMA InitPairs == CounterInit => PairsInv
<1> SUFFICES ASSUME CounterInit PROVE PairsInv
  OBVIOUS
<1>1. CounterTypeOK /\ Limit \in Nat
  BY InitCounterType, LimitAssumption
<1>2. ASSUME NEW a \in Callers, NEW b \in Callers, a # b, Threads(Home[a]) = {a, b}
      PROVE  PairInv(a, b)
  <2>1. Home[a] = Home[b] /\ Home[a] \in Processes
    BY <1>2, LimitAssumption DEF Threads
  <2>2. /\ Unwritten(a) = Limit /\ Unwritten(b) = Limit /\ Owed(a) = 0 /\ Owed(b) = 0
        /\ Late(a) = 0 /\ Late(b) = 0 /\ Count(a) = 0 /\ Granted(a) = 0
    BY <2>1 DEF CounterInit, Unwritten, Owed, Late, Count, Granted
  <2>3. Left(a, b) <= Most /\ Left(a, b) \in Nat /\ Consistent(Limit, Limit, Limit, 0)
    <3>1. Consistent(Limit, Limit, Limit, 0)
      BY <1>1 DEF Consistent
    <3> QED BY <1>1, <2>2, <3>1, RestFromZero, RestIsCount DEF Left, Most
  <2>4. 2 * (Granted(a) + Owed(a) + Owed(b)) + Left(a, b) + Late(a) + Late(b) <= Most
    BY <1>1, <2>2, <2>3 DEF Most
  <2>5. StepsOfKind(a) /\ StepsOfKind(b) /\ LateIsAlone(a, b) /\ LateIsAlone(b, a)
    BY DEF CounterInit, StepsOfKind, LateIsAlone
  <2> QED BY <1>1, <2>1, <2>2, <2>3, <2>4, <2>5 DEF PairInv
<1> QED BY <1>1, <1>2 DEF PairsInv

LEMMA NextPairs == PairsInv /\ [CounterNext]_counterVars => PairsInv'
<1> SUFFICES ASSUME PairsInv, [CounterNext]_counterVars PROVE PairsInv'
  OBVIOUS
<1>1. CounterTypeOK'
  BY NextCounterType DEF PairsInv
<1>2. ASSUME NEW a \in Callers, NEW b \in Callers, a # b, Threads(Home[a]) = {a, b}
      PROVE  PairInv(a, b)' \/ PairInv(b, a)'
  <2>1. PairInv(a, b)
    BY <1>2, PairTurned DEF PairsInv
  <2> QED BY <1>2, <2>1, NextPair
<1>3. \A a \in Callers : Threads(Home[a])' = Threads(Home[a])
  BY DEF Threads
<1> QED BY <1>1, <1>2, <1>3 DEF PairsInv

\* What each process lets through is bounded, so is what all of them do.
LEMMA SumOfProcesses ==
    ASSUME CounterTypeOK, Ceiling \in Nat, \A p \in Processes : granted[p] <= Ceiling
    PROVE  LossIsBounded
<1>1. IsFiniteSet(Processes) /\ IsFiniteSet(1..Ceiling) /\ Cardinality(1..Ceiling) = Ceiling
  BY LimitAssumption, FS_Interval
<1>2. /\ IsFiniteSet(Processes \X (1..Ceiling))
      /\ Cardinality(Processes \X (1..Ceiling)) = Cardinality(Processes) * Ceiling
  BY <1>1, FS_Product
<1>3. Attempts \subseteq Processes \X (1..Ceiling)
  BY DEF Attempts, CounterTypeOK
<1> QED BY <1>2, <1>3, FS_Subset DEF LossIsBounded

\* With two threads in each of them, any number of processes never let more through
\* than the Ceiling for each, whatever the limit and however reads and writes
\* interleave (auth_utils.py:104, notifications.py:201, api_keys.py:123).  A process
\* with one thread is one whose second thread takes no step.
THEOREM ProcessesStayBelowCeiling ==
    ASSUME \A p \in Processes : \E a, b \in Callers : a # b /\ Threads(p) = {a, b}
    PROVE  CounterSpec => []LossIsBounded
<1>1. PairsInv => LossIsBounded
  <2> SUFFICES ASSUME PairsInv PROVE LossIsBounded
    OBVIOUS
  <2>1. CounterTypeOK /\ Ceiling \in Nat
    BY LimitAssumption DEF PairsInv, Ceiling
  <2>2. ASSUME NEW p \in Processes PROVE granted[p] <= Ceiling
    <3>1. PICK a \in Callers, b \in Callers : a # b /\ Threads(p) = {a, b}
      OBVIOUS
    <3>2. Home[a] = p
      BY <3>1 DEF Threads
    <3>3. PairInv(a, b)
      BY <3>1, <3>2, PairTurned DEF PairsInv
    <3>4. 2 * Granted(a) <= Most
      BY <3>3, PairFacts DEF PairInv
    <3>5. Granted(a) \in Nat /\ Limit \in Nat
      BY <3>3, PairFacts
    <3> QED BY <3>2, <3>4, <3>5, HalfOfBound DEF Most, Granted, Ceiling
  <2> QED BY <2>1, <2>2, SumOfProcesses
<1> QED BY <1>1, InitPairs, NextPairs, PTL DEF CounterSpec

-----------------------------------------------------------------------------
(* The four beside each other.  Each moves as it does alone.               *)

LEMMA StepsOfParts ==
    [PartsNext]_partsVars =>
       /\ [Next]_vars /\ [MeterNext]_meterVars
       /\ [KeyNext]_keyVars /\ [CounterNext]_counterVars
BY DEF PartsNext, partsVars

\* What MCSubscriptions checks is webhooks, usage, keys and counters, so what is proved
\* of each holds there.
THEOREM SubscriptionsAreTheParts ==
    PartsSpec => Spec /\ MeterSpec /\ KeySpec /\ CounterSpec
<1>1. PartsInit => Init /\ MeterInit /\ KeyInit /\ CounterInit
  BY DEF PartsInit
<1> QED BY <1>1, StepsOfParts, PTL DEF PartsSpec, Spec, MeterSpec, KeySpec, CounterSpec

\* The variables of the four keep their types.
THEOREM SubscriptionsTyped == PartsSpec => []TypesOK
<1>1. MeterSpec => []MeterTypeOK
  <2>1. MeterInv => MeterTypeOK
    BY DEF MeterInv
  <2> QED BY <2>1, InitMeter, NextMeter, PTL DEF MeterSpec
<1>2. KeySpec => []KeyTypeOK
  <2>1. KeyTypeOK /\ KeyInForce => KeyTypeOK
    OBVIOUS
  <2> QED BY <2>1, InForce, PTL
<1>3. CounterSpec => []CounterTypeOK
  BY InitCounterType, NextCounterType, PTL DEF CounterSpec
<1>4. TypeOK /\ MeterTypeOK /\ KeyTypeOK /\ CounterTypeOK => TypesOK
  BY DEF TypesOK
<1> QED BY <1>1, <1>2, <1>3, <1>4, SubscriptionsAreTheParts, BillingType, PTL
=============================================================================
