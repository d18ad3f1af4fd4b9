------------------------------ MODULE Metering ------------------------------
(***************************************************************************)
(* The usage of one organization in one limited metric (metering.py): a    *)
(* call of record_storage_usage or record_transfer_usage writes its hourly *)
(* row and then compares all rows with the plan; the daily job adds up the *)
(* hours in rows of its own.  Each statement commits by itself.            *)
(***************************************************************************)
EXTENDS Naturals, FiniteSets

CONSTANTS
    Collectors,   \* recording calls at the same time
    Amounts,      \* quantities a sample may have
    Limits,       \* limits of the plans the organization may have
    MaxUsage      \* bound on the usage recorded

ASSUME MeterAssumption ==
    /\ IsFiniteSet(Collectors)
    /\ Amounts \subseteq Nat /\ Limits \subseteq Nat /\ MaxUsage \in Nat

VARIABLES
    limit,        \* the limit of the plan
    hours,        \* sum of the rows of source metering:hourly
    days,         \* sum of the rows of source metering:daily
    alerts,       \* SecurityEvents per threshold
    pc,           \* where each recording call is
    amount,       \* what it has recorded
    due,          \* thresholds it has found reached and not come to yet
    reported      \* usage whose recording call returned

rows  == <<hours, days>>
calls == <<pc, amount, due>>
meterVars == <<limit, rows, alerts, calls, reported>>

Thresholds == {80, 90, 100}

MeterTypeOK ==
    /\ limit \in Limits
    /\ hours \in Nat /\ days \in Nat /\ reported \in 0..hours
    /\ alerts \in [Thresholds -> Nat]
    /\ pc \in [Collectors -> {"idle", "recorded", "comparing", "creating"}]
    /\ amount \in [Collectors -> Amounts \cup {0}]
    /\ due \in [Collectors -> SUBSET Thresholds]
    /\ \A c \in Collectors : pc[c] = "creating" => due[c] # {}

MeterInit ==
    /\ limit \in Limits
    /\ hours = 0 /\ days = 0
    /\ alerts = [t \in Thresholds |-> 0]
    /\ pc = [c \in Collectors |-> "idle"]
    /\ amount = [c \in Collectors |-> 0]
    /\ due = [c \in Collectors |-> {}]
    /\ reported = 0

-----------------------------------------------------------------------------

Go(c, step) == pc' = [pc EXCEPT ![c] = step]

\* _aggregate_samples creates the row.
RecordUsage(c, q) ==
    /\ pc[c] = "idle" /\ hours + q <= MaxUsage
    /\ hours' = hours + q
    /\ amount' = [amount EXCEPT ![c] = q]
    /\ Go(c, "recorded")
    /\ UNCHANGED <<limit, days, alerts, due, reported>>

\* Slip: a threshold is reached when it is passed.
PassedBy(total, t) == 100 * total > t * limit

\* normalized >= Decimal(limit) * threshold
ReachedBy(total, t) == 100 * total >= t * limit

\* _evaluate_metric reads the limit and the sum, of hours and days alike.
Compare(c) ==
    /\ pc[c] = "recorded"
    /\ due' = [due EXCEPT ![c] = {t \in Thresholds : ReachedBy(hours + days, t)}]
    /\ Go(c, "comparing")
    /\ UNCHANGED <<limit, rows, alerts, amount, reported>>

\* THRESHOLDS in their order.
NextDue(c) == CHOOSE t \in due[c] : \A u \in due[c] : t <= u

\* The get of get_or_create, for the next threshold.
GetAlert(c) ==
    /\ pc[c] = "comparing" /\ due[c] # {}
    /\ alerts[NextDue(c)] <= 1
    /\ IF alerts[NextDue(c)] = 1
       THEN due' = [due EXCEPT ![c] = @ \ {NextDue(c)}] /\ UNCHANGED pc
       ELSE Go(c, "creating") /\ UNCHANGED due
    /\ UNCHANGED <<limit, rows, alerts, amount, reported>>

\* MultipleObjectsReturned: nobody comes past this threshold any more.
GetAlertFails(c) ==
    /\ pc[c] = "comparing" /\ due[c] # {}
    /\ alerts[NextDue(c)] > 1
    /\ due' = [due EXCEPT ![c] = {}]
    /\ amount' = [amount EXCEPT ![c] = 0]
    /\ Go(c, "idle")
    /\ UNCHANGED <<limit, rows, alerts, reported>>

\* Its create; no constraint keeps a second event out.
CreateAlert(c) ==
    /\ pc[c] = "creating"
    /\ alerts' = [alerts EXCEPT ![NextDue(c)] = @ + 1]
    /\ due' = [due EXCEPT ![c] = @ \ {NextDue(c)}]
    /\ Go(c, "comparing")
    /\ UNCHANGED <<limit, rows, amount, reported>>

ReportUsage(c) ==
    /\ pc[c] = "comparing" /\ due[c] = {}
    /\ reported' = reported + amount[c]
    /\ amount' = [amount EXCEPT ![c] = 0]
    /\ Go(c, "idle")
    /\ UNCHANGED <<limit, rows, alerts, due>>

CollectorDies(c) ==
    /\ pc[c] # "idle"
    /\ amount' = [amount EXCEPT ![c] = 0]
    /\ due' = [due EXCEPT ![c] = {}]
    /\ Go(c, "idle")
    /\ UNCHANGED <<limit, rows, alerts, reported>>

\* aggregate_daily, which may run again for the same day and compares nothing.
AggregateDaily ==
    /\ hours > 0 /\ days + hours <= MaxUsage
    /\ days' = days + hours
    /\ UNCHANGED <<limit, hours, alerts, calls, reported>>

ChangePlan ==
    /\ limit' \in Limits
    /\ UNCHANGED <<rows, alerts, calls, reported>>

MeterNext ==
    \/ \E c \in Collectors :
          \/ \E q \in Amounts : RecordUsage(c, q)
          \/ Compare(c) \/ GetAlert(c) \/ GetAlertFails(c) \/ CreateAlert(c)
          \/ ReportUsage(c) \/ CollectorDies(c)
    \/ AggregateDaily
    \/ ChangePlan

MeterSpec == MeterInit /\ [][MeterNext]_meterVars

-----------------------------------------------------------------------------
(* Properties.                                                             *)

\* Usage that was reported and reaches a threshold of every plan was alerted at that
\* threshold, whatever the calls, the daily job and the plan did meanwhile; the calls that
\* a duplicate alert stops report nothing (metering.py:47, 221).
ReportedIsAlerted ==
    \A t \in Thresholds :
       reported > 0 /\ (\A l \in Limits : 100 * reported >= t * l) => alerts[t] > 0

=============================================================================
