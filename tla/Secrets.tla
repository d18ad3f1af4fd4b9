------------------------------- MODULE Secrets -------------------------------
(***************************************************************************)
(* The secrets of one name in one environment: secrets.py below the views  *)
(* of secret_views.py.  A view loads the secret first; the transaction     *)
(* that follows counts the next version from that copy and relies on the   *)
(* constraints of the tables to refuse what somebody else did meanwhile.   *)
(***************************************************************************)
EXTENDS Naturals, FiniteSets, Sequences

CONSTANTS
    Rows,         \* ProjectSecret rows that may be created
    Writers,      \* requests in flight, each with a value of its own to store
    MaxVersions,  \* bound on the versions of a row
    NoRow         \* "no row"

ASSUME SecretsAssumption ==
    /\ MaxVersions \in Nat \ {0}
    /\ "none" \notin Writers /\ NoRow \notin Rows

VARIABLES
    state,        \* ProjectSecret.status, "none" without a row
    current,      \* ProjectSecret.current_version
    metadata,     \* which request's metadata the row has
    versions,     \* ProjectSecretVersion: (row, version) to the request whose value it is
    writerPc,     \* where each request is in its handler
    copy,         \* row and current_version each request loaded
    accepted      \* values that requests were told are stored, per row, oldest first

tables   == <<state, current, metadata, versions>>
handlers == <<writerPc, copy>>
secretVars == <<tables, handlers, accepted>>

SecretTypeOK ==
    /\ state \in [Rows -> {"none", "active", "deleted"}]
    /\ current \in [Rows -> 0..MaxVersions]
    /\ metadata \in [Rows -> Writers \cup {"none"}]
    /\ versions \in [Rows -> [1..MaxVersions -> Writers \cup {"none"}]]
    /\ writerPc \in [Writers -> {"idle", "loaded"}]
    /\ copy \in [Writers -> [row : Rows \cup {NoRow}, current : 0..MaxVersions]]
    /\ \A r \in Writers : writerPc[r] = "loaded" <=> copy[r].row # NoRow
    /\ accepted \in [Rows -> Seq(Writers)]

SecretInit ==
    /\ state = [s \in Rows |-> "none"]
    /\ current = [s \in Rows |-> 0]
    /\ metadata = [s \in Rows |-> "none"]
    /\ versions = [s \in Rows |-> [n \in 1..MaxVersions |-> "none"]]
    /\ writerPc = [r \in Writers |-> "idle"]
    /\ copy = [r \in Writers |-> [row |-> NoRow, current |-> 0]]
    /\ accepted = [s \in Rows |-> <<>>]

-----------------------------------------------------------------------------

Has(s, n) == versions[s][n] # "none"

\* The version that runtime_secret_values_for_project gives of an active secret.
Newest(s) ==
    versions[s][CHOOSE n \in 1..MaxVersions : Has(s, n) /\ ~\E k \in n + 1..MaxVersions : Has(s, k)]

EndWriter(r) ==
    /\ writerPc' = [writerPc EXCEPT ![r] = "idle"]
    /\ copy' = [copy EXCEPT ![r] = [row |-> NoRow, current |-> 0]]

\* create_secret: refused by uniq_active_secret_env_name while the name is in use.
CreateSecret(r, s) ==
    /\ writerPc[r] = "idle" /\ state[s] = "none"
    /\ \A t \in Rows : state[t] # "active"
    /\ state' = [state EXCEPT ![s] = "active"]
    /\ current' = [current EXCEPT ![s] = 1]
    /\ metadata' = [metadata EXCEPT ![s] = r]
    /\ versions' = [versions EXCEPT ![s][1] = r]
    /\ accepted' = [accepted EXCEPT ![s] = <<r>>]
    /\ UNCHANGED <<handlers>>

\* context_or_error of the detail views.
LoadSecret(r, s) ==
    /\ writerPc[r] = "idle" /\ state[s] = "active"
    /\ writerPc' = [writerPc EXCEPT ![r] = "loaded"]
    /\ copy' = [copy EXCEPT ![r] = [row |-> s, current |-> current[s]]]
    /\ UNCHANGED <<tables, accepted>>

\* Slip: update_or_create of the next version.
StoreOver(r) ==
    LET s == copy[r].row
        next == copy[r].current + 1 IN
       /\ next <= MaxVersions
       /\ versions' = [versions EXCEPT ![s][next] = r]
       /\ current' = [current EXCEPT ![s] = next]
       /\ accepted' = [accepted EXCEPT ![s] = Append(@, r)]

\* _create_next_version: uniq_secret_version refuses a number that is taken.
StoreNext(r) ==
    LET s == copy[r].row
        next == copy[r].current + 1 IN
       /\ next <= MaxVersions
       /\ ~Has(s, next)
       /\ versions' = [versions EXCEPT ![s][next] = r]
       /\ current' = [current EXCEPT ![s] = next]
       /\ accepted' = [accepted EXCEPT ![s] = Append(@, r)]

\* update_secret with a value, and rotate_secret.  Metadata in the same request is lost:
\* refresh_from_db reads the old metadata back before it is saved.
StoreValue(r) ==
    /\ writerPc[r] = "loaded"
    /\ StoreNext(r)
    /\ EndWriter(r)
    /\ UNCHANGED <<state, metadata>>

\* The transaction is rolled back, the answer is an error.
StoreRefused(r) ==
    /\ writerPc[r] = "loaded"
    /\ copy[r].current < MaxVersions => Has(copy[r].row, copy[r].current + 1)
    /\ EndWriter(r)
    /\ UNCHANGED <<tables, accepted>>

\* update_secret with metadata alone.
StoreMetadata(r) ==
    /\ writerPc[r] = "loaded"
    /\ metadata' = [metadata EXCEPT ![copy[r].row] = r]
    /\ EndWriter(r)
    /\ UNCHANGED <<state, current, versions, accepted>>

DeleteSecret(r) ==
    /\ writerPc[r] = "loaded"
    /\ state' = [state EXCEPT ![copy[r].row] = "deleted"]
    /\ EndWriter(r)
    /\ UNCHANGED <<current, metadata, versions, accepted>>

\* No row is left to create.
AllDeleted ==
    /\ \A s \in Rows : state[s] = "deleted"
    /\ \A r \in Writers : writerPc[r] = "idle"
    /\ UNCHANGED secretVars

SecretNext ==
    \/ \E r \in Writers, s \in Rows : CreateSecret(r, s) \/ LoadSecret(r, s)
    \/ \E r \in Writers : StoreValue(r) \/ StoreRefused(r) \/ StoreMetadata(r)
                             \/ DeleteSecret(r)
    \/ AllDeleted

SecretSpec == SecretInit /\ [][SecretNext]_secretVars

-----------------------------------------------------------------------------

\* Every value a request was told is stored has a version of its own, in the order in
\* which they were stored, the last one is current and it is the one the runtime gets:
\* no request overwrites another's (secrets.py:117, secrets-management.md:102).
VersionsAreHistory ==
    \A s \in Rows :
       /\ current[s] = Len(accepted[s])
       /\ \A n \in 1..MaxVersions : Has(s, n) <=> n <= current[s]
       /\ \A n \in 1..current[s] : versions[s][n] = accepted[s][n]
       /\ state[s] = "active" => Newest(s) = accepted[s][Len(accepted[s])]

=============================================================================
