------------------------------- MODULE ApiKeys -------------------------------
(***************************************************************************)
(* One API key between the members who create, rotate and revoke it        *)
(* (api_keys.py, api_key_views.py) and the requests that use it            *)
(* (api_key_authentication.py).  Nothing runs in a transaction and nobody  *)
(* locks the row: each handler loads it and saves the fields it sets.      *)
(***************************************************************************)
EXTENDS Naturals

CONSTANTS
    Managers,     \* requests of members who may manage keys
    Clients,      \* requests that bring the key
    MaxSecrets    \* bound on rotations

ASSUME KeysAssumption == MaxSecrets \in Nat \ {0}

VARIABLES
    status,       \* ApiKey.status, "none" without a row
    revoked,      \* ApiKey.revoked_at is set
    secret,       \* number of the key value whose prefix and hash the row has, 0 for none
    expired,      \* the clock has passed ApiKey.expires_at
    job,          \* what each member's request loaded the row for
    held,         \* the key value each client sends, 0 for none
    copy,         \* what the client's lookup found of that value
    told,         \* what members were told last: the number of the key that works now,
                  \* or 0 after it was revoked
    issued        \* key values made so far

row     == <<status, revoked, secret, expired>>
members == <<job, told, issued>>
clients == <<held, copy>>
keyVars == <<row, members, clients>>

NoCopy == [status |-> "none", revoked |-> FALSE, told |-> 0]

KeyTypeOK ==
    /\ status \in {"none", "active", "revoked", "expired"}
    /\ revoked \in BOOLEAN /\ expired \in BOOLEAN
    /\ secret \in 0..MaxSecrets /\ told \in 0..MaxSecrets
    /\ issued \in 0..MaxSecrets
    /\ job \in [Managers -> {"none", "rotate", "revoke"}]
    /\ held \in [Clients -> 0..MaxSecrets]
    /\ copy \in [Clients -> [status : {"none", "active", "revoked", "expired"},
                             revoked : BOOLEAN, told : 0..MaxSecrets]]

KeyInit ==
    /\ status = "none" /\ revoked = FALSE /\ secret = 0 /\ expired = FALSE
    /\ job = [m \in Managers |-> "none"]
    /\ held = [c \in Clients |-> 0]
    /\ copy = [c \in Clients |-> NoCopy]
    /\ told = 0 /\ issued = 0

-----------------------------------------------------------------------------
(* Members.                                                                *)

CreateKey ==
    /\ status = "none"
    /\ status' = "active"
    /\ secret' = 1 /\ told' = 1 /\ issued' = 1
    /\ UNCHANGED <<revoked, expired, job, clients>>

\* The views load the row, whatever its status.
LoadKey(m, what) ==
    /\ job[m] = "none" /\ status # "none"
    /\ job' = [job EXCEPT ![m] = what]
    /\ UNCHANGED <<row, told, issued, clients>>

\* rotate_api_key: the key works again whatever it was, unless it has expired.
RotateKey(m) ==
    /\ job[m] = "rotate" /\ issued < MaxSecrets
    /\ issued' = issued + 1
    /\ secret' = issued + 1 /\ told' = issued + 1
    /\ status' = "active" /\ revoked' = FALSE
    /\ job' = [job EXCEPT ![m] = "none"]
    /\ UNCHANGED <<expired, clients>>

\* revoke_api_key
RevokeKey(m) ==
    /\ job[m] = "revoke"
    /\ status' = "revoked" /\ revoked' = TRUE
    /\ told' = 0
    /\ job' = [job EXCEPT ![m] = "none"]
    /\ UNCHANGED <<secret, expired, issued, clients>>

\* Bound: no more rotations.
RotationsEnd(m) ==
    /\ job[m] = "rotate" /\ issued = MaxSecrets
    /\ job' = [job EXCEPT ![m] = "none"]
    /\ UNCHANGED <<row, told, issued, clients>>

-----------------------------------------------------------------------------
(* Requests with the key.                                                  *)

Expire ==
    /\ ~expired /\ status # "none"
    /\ expired' = TRUE
    /\ UNCHANGED <<status, revoked, secret, members, clients>>

\* authenticate up to its query: only the value the row has is found.
LookUp(c, n) ==
    /\ held[c] = 0
    /\ n = secret /\ n # 0
    /\ held' = [held EXCEPT ![c] = n]
    /\ copy' = [copy EXCEPT ![c] = [status |-> status, revoked |-> revoked, told |-> told]]
    /\ UNCHANGED <<row, members>>

\* api_key.status != ACTIVE or api_key.revoked_at
NotRevoked(c) == copy[c].status = "active" /\ ~copy[c].revoked

Leave(c) ==
    /\ held' = [held EXCEPT ![c] = 0]
    /\ copy' = [copy EXCEPT ![c] = NoCopy]

\* authenticate, of a key that has not expired.
Authenticated(c) == held[c] # 0 /\ NotRevoked(c) /\ ~expired

\* Slip: the object that was loaded is saved with all of its fields.
MarkWholeRow(c) ==
    /\ Authenticated(c)
    /\ status' = copy[c].status /\ revoked' = copy[c].revoked /\ secret' = held[c]
    /\ Leave(c)
    /\ UNCHANGED <<expired, members>>

\* has_api_key_permission ends in mark_api_key_used, which saves no field that is read.
Admit(c) ==
    /\ Authenticated(c)
    /\ Leave(c)
    /\ UNCHANGED <<row, members>>

\* The expiry is saved over what the row has become.
SaveExpired(c) ==
    /\ held[c] # 0 /\ NotRevoked(c) /\ expired
    /\ status' = "expired"
    /\ Leave(c)
    /\ UNCHANGED <<revoked, secret, expired, members>>

Refuse(c) ==
    /\ held[c] # 0 /\ ~NotRevoked(c)
    /\ Leave(c)
    /\ UNCHANGED <<row, members>>

KeyNext ==
    \/ CreateKey \/ Expire
    \/ \E m \in Managers :
          \/ \E what \in {"rotate", "revoke"} : LoadKey(m, what)
          \/ RotateKey(m) \/ RevokeKey(m) \/ RotationsEnd(m)
    \/ \E c \in Clients :
          \/ \E n \in 1..MaxSecrets : LookUp(c, n)
          \/ Admit(c) \/ SaveExpired(c) \/ Refuse(c)

KeySpec == KeyInit /\ [][KeyNext]_keyVars

-----------------------------------------------------------------------------
(* Properties.                                                             *)

\* A client is admitted only if its key was, when it was looked up, the one members were
\* told last that works: not after a revocation, whose status an expiry that was seen
\* earlier may overwrite, and not with a rotated value (api_key_authentication.py:31).
OnlyTheKeyInForce == \A c \in Clients : Authenticated(c) => copy[c].told = held[c]

\* The key a member was given last works until it expires, also after it was revoked and
\* rotated by two members at the same time (api_keys.py:58).
TheKeyInForceWorks == told # 0 /\ ~expired => secret = told /\ status = "active" /\ ~revoked

\* The key in force is the one members were told last, neither more nor less.
KeyInForce == OnlyTheKeyInForce /\ TheKeyInForceWorks

=============================================================================
