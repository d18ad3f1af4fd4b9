\* A checkout that is abandoned while another subscription is active.
CONSTANTS
    s1 = s1
    s2 = s2
    i1 = i1
    Subscriptions <- TwoSubscriptions
    Invoices <- OneInvoice
    InvoiceOf <- InvoiceOfSecond
    NoSubscription = none
    NoEvent = noevent
    Refusable = {}
    Deliveries = {d1, d2}
    MaxEvents = 3
SPECIFICATION Spec
INVARIANT ActiveHasFullAccess
