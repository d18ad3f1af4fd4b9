------------------------------ MODULE RateLimit ------------------------------
(***************************************************************************)
(* The counters the platform keeps in its cache: failed sign-ins           *)
(* (auth_utils.py), mails to one recipient (notifications.py) and requests *)
(* of one API key (api_keys.py).  All three are a get followed by a set,   *)
(* without an atomic increment, so callers at the same time lose counts.   *)
(* The cache is LocMemCache: every process of the API has a counter of its *)
(* own.  One key of it, within one window of its expiry.                   *)
(***************************************************************************)
EXTENDS Naturals, FiniteSets

CONSTANTS
    Processes,    \* processes of the API: replicas, and those that replace stopped ones
    Callers,      \* their threads, each serving one request at a time
    Home,         \* the process of each
    Limit         \* attempts the settings allow in a window

ASSUME LimitAssumption ==
    /\ Limit \in Nat \ {0}
    /\ IsFiniteSet(Processes)
    /\ Home \in [Callers -> Processes]

VARIABLES
    kind,         \* which of the three counters this is
    count,        \* the number in the cache of each process
    step,         \* where each caller is
    seen,         \* the number each caller read
    granted       \* attempts each process let through: a password tried, a mail sent, a
                  \* key accepted

counterVars == <<kind, count, step, seen, granted>>

\* A stale writer may take the counter back to one above what it read, once for every
\* value below the limit, and between two of these the others climb to the limit.
Ceiling == Limit + (Limit * (Limit + 1)) \div 2

CounterTypeOK ==
    /\ kind \in {"login", "mail", "key"}
    /\ count \in [Processes -> Nat]
    /\ step \in [Callers -> {"idle", "admitted", "failed", "writing"}]
    /\ seen \in [Callers -> Nat]
    /\ granted \in [Processes -> Nat]

CounterInit ==
    /\ kind \in {"login", "mail", "key"}
    /\ count = [p \in Processes |-> 0]
    /\ step = [c \in Callers |-> "idle"]
    /\ seen = [c \in Callers |-> 0]
    /\ granted = [p \in Processes |-> 0]

MoveTo(c, s) == step' = [step EXCEPT ![c] = s]

\* Slip: the attempt that reaches the limit does not count.
ReachedLate(n) == n > Limit

\* is_login_rate_limited, is_rate_limited
Reached(n) == n >= Limit

\* What increment_rate_limit returns of the number it wrote.
Passed(n) == n > Limit

\* Sign-ins and mails look at the counter first.
Ask(c) ==
    /\ kind # "key" /\ step[c] = "idle"
    /\ ~Reached(count[Home[c]])
    /\ MoveTo(c, "admitted")
    /\ UNCHANGED <<kind, count, seen, granted>>

\* The password, the code or the recovery code was wrong.
Fail(c) ==
    /\ kind = "login" /\ step[c] = "admitted"
    /\ granted' = [granted EXCEPT ![Home[c]] = @ + 1]
    /\ MoveTo(c, "failed")
    /\ UNCHANGED <<kind, count, seen>>

\* The get of record_failed_login, record_send_attempt and increment_rate_limit, which
\* is the first thing done with an API key.
Get(c) ==
    /\ step[c] = CASE kind = "login" -> "failed" [] kind = "mail" -> "admitted"
                   [] OTHER -> "idle"
    /\ kind = "key" => count[Home[c]] <= Limit   \* bound: later keys are refused anyway
    /\ seen' = [seen EXCEPT ![c] = count[Home[c]]]
    /\ MoveTo(c, "writing")
    /\ UNCHANGED <<kind, count, granted>>

\* The set, after which a mail goes out and a key within its limit is looked up.
Set(c) ==
    /\ step[c] = "writing"
    /\ count' = [count EXCEPT ![Home[c]] = seen[c] + 1]
    /\ granted' = IF kind = "mail" \/ (kind = "key" /\ ~Passed(seen[c] + 1))
                  THEN [granted EXCEPT ![Home[c]] = @ + 1] ELSE granted
    /\ MoveTo(c, "idle")
    /\ UNCHANGED <<kind, seen>>

\* clear_failed_logins: who signs in ends what this process counted, except by those
\* who have read the counter and not written it.
Clear(c) ==
    /\ kind = "login" /\ step[c] = "admitted"
    /\ count' = [count EXCEPT ![Home[c]] = 0]
    /\ granted' = [granted EXCEPT ![Home[c]] = 0]
    /\ MoveTo(c, "idle")
    /\ UNCHANGED <<kind, seen>>

\* Everybody is refused until the window ends.
Refused ==
    /\ \A p \in Processes : IF kind = "key" THEN Passed(count[p]) ELSE Reached(count[p])
    /\ \A c \in Callers : step[c] = "idle"
    /\ UNCHANGED counterVars

CounterNext ==
    \/ \E c \in Callers : Ask(c) \/ Fail(c) \/ Get(c) \/ Set(c) \/ Clear(c)
    \/ Refused

CounterSpec == CounterInit /\ [][CounterNext]_counterVars

-----------------------------------------------------------------------------

\* What the processes let through together.
Attempts == UNION {{p} \X (1..granted[p]) : p \in Processes}

\* Lost counts let more through than the limit, and every process counts for itself; but
\* with two threads in each, all of them never let more through than the Ceiling for
\* each process, however reads and writes interleave (auth_utils.py:104,
\* notifications.py:201, api_keys.py:123).
LossIsBounded == Cardinality(Attempts) <= Cardinality(Processes) * Ceiling

=============================================================================
