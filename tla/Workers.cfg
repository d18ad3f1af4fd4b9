\* Two provisions and a deprovision in one worker process that may die; one message in
\* the outbox and two that send, one of which may die.
CONSTANTS
    Workers = {w1}
    NoWorker = none
    Operation <- Mixed
    ExplicitKey <- SenderKeys
    MaxRetryAttempts = 8
    CeleryMaxRetries = 1
    MaxCrashes = 1
    Messages = {m1}
    Senders = {s1, s2}
    MaxAttempts = 2
    MaxDeaths = 1
SPECIFICATION PartsSpec
INVARIANTS TypesOK Delivered AnswersAreEarned HandoversEnd
PROPERTIES AllTasksEnd QueuedIsSettled
