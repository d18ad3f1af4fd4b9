\* Any order of delivery, two at a time, replays and refused events; two collectors,
\* managers and clients, and two threads in each of two processes.
CONSTANTS
    s1 = s1
    s2 = s2
    i1 = i1
    Subscriptions <- TwoSubscriptions
    Invoices <- OneInvoice
    InvoiceOf <- InvoiceOfSecond
    NoSubscription = none
    NoEvent = noevent
    Refusable = {s2}
    Deliveries = {d1, d2}
    MaxEvents = 3
    Collectors = {c1, c2}
    Amounts = {4, 5}
    Limits = {5, 10}
    MaxUsage = 12
    Managers = {m1, m2}
    Clients = {k1, k2}
    MaxSecrets = 3
    p1 = p1
    p2 = p2
    a1 = a1
    a2 = a2
    b1 = b1
    b2 = b2
    Processes <- TwoProcesses
    Callers = {a1, a2, b1, b2}
    Home <- TwoThreadsEach
    Limit = 2
SPECIFICATION PartsSpec
INVARIANTS TypesOK LastProcessedCounts ReportedIsAlerted KeyInForce LossIsBounded
PROPERTIES AppliedOnce Mirrors
