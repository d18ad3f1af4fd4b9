---------------------------- MODULE MCMembership ----------------------------
(* Small organizations for TLC. *)
EXTENDS Membership, TLC

\* Requests are interchangeable, and so are the users but the founder.
MemberSymmetry == Permutations(Users \ {Founder}) \cup Permutations(Requests)
=============================================================================
