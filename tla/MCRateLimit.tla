----------------------------- MODULE MCRateLimit -----------------------------
(* Two processes of the API with two threads each, for TLC.                   *)
EXTENDS RateLimit
CONSTANTS p1, p2, a1, a2, b1, b2

TwoProcesses == {p1, p2}
TwoThreadsEach == [c \in {a1, a2, b1, b2} |-> IF c \in {a1, a2} THEN p1 ELSE p2]
=============================================================================
