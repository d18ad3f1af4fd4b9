----------------------------- MODULE MCBilling -----------------------------
(* Two subscriptions, the second with an invoice, for TLC. *)
EXTENDS Billing
CONSTANTS s1, s2, i1

TwoSubscriptions == {s1, s2}
OneInvoice == {i1}
InvoiceOfSecond == [i \in {i1} |-> s2]
=============================================================================
