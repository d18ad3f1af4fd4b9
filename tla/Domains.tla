------------------------------- MODULE Domains -------------------------------
(***************************************************************************)
(* The custom domain rows of one hostname: custom_domains.py, with the     *)
(* certificate rows of certificates.py.  A claim is one call that adds the *)
(* hostname, from whatever organization, and the row and token it makes.   *)
(* Requests and the periodic checker interleave; the provisioner is told   *)
(* inside the transaction, before it commits.                              *)
(***************************************************************************)
EXTENDS Naturals

CONSTANTS
    Claims,      \* calls that add the hostname
    Requests,    \* requests in flight at the same time
    Checker,     \* the periodic check of pending domains, one of them
    NoClaim,     \* "no claim"
    MaxCrashes   \* bound on requests that die

ASSUME DomainsAssumption ==
    /\ Checker \in Requests
    /\ NoClaim \notin Claims
    /\ MaxCrashes \in Nat

VARIABLES
    txt,          \* tokens in the TXT records of the hostname
    shown,        \* tokens that were ever there
    status,       \* Domain.status, "none" without a row
    adding,       \* claims that found the hostname free and insert their row next
    deleted,      \* claims whose Domain.deleted_at is set
    verified,     \* claims whose Domain.verified_at is set
    served,       \* claims the provisioner was last told to route
    certificates, \* number of Certificate rows of each domain
    certificate,  \* Certificate.status, "none" without a row
    pc,           \* where each request is in its handler
    job,          \* the claim it works on
    plan,         \* what an open verification does with the certificate row
    crashes       \* requests that died

vars == <<txt, shown, adding, status, deleted, verified, served, certificates,
          certificate, pc, job, plan, crashes>>

DomainStatuses == {"none", "pending_verification", "verified", "active", "failed",
                   "disabled", "deleted"}
\* A new request tells only failed and expired rows ("failed") from the rest.
CertificateStatuses == {"pending", "failed"}
Phases == {"idle", "listed", "loaded", "matched", "mismatched", "verifying", "disabling"}
Plans == {"none", "create", "reset", "keep"}

TypeOK ==
    /\ txt \subseteq Claims /\ shown \subseteq Claims /\ adding \subseteq Claims
    /\ status \in [Claims -> DomainStatuses]
    /\ deleted \subseteq Claims /\ verified \subseteq Claims /\ served \subseteq Claims
    /\ certificates \in [Claims -> Nat]
    /\ certificate \in [Claims -> CertificateStatuses \cup {"none"}]
    /\ pc \in [Requests -> Phases]
    /\ job \in [Requests -> Claims \cup {NoClaim}]
    /\ \A r \in Requests : pc[r] = "idle" <=> job[r] = NoClaim
    /\ plan \in [Requests -> Plans]
    /\ crashes \in 0..MaxCrashes

Init ==
    /\ txt = {} /\ shown = {} /\ adding = {}
    /\ status = [c \in Claims |-> "none"]
    /\ deleted = {} /\ verified = {} /\ served = {}
    /\ certificates = [c \in Claims |-> 0]
    /\ certificate = [c \in Claims |-> "none"]
    /\ pc = [r \in Requests |-> "idle"]
    /\ job = [r \in Requests |-> NoClaim]
    /\ plan = [r \in Requests |-> "none"]
    /\ crashes = 0

-----------------------------------------------------------------------------

\* Slip: the row is read without select_for_update.
NeverLocked(c) == FALSE

\* select_for_update holds the domain's row until the transaction ends.
Locked(c) == \E r \in Requests : pc[r] \in {"verifying", "disabling"} /\ job[r] = c

Work(r, phase, c) ==
    /\ pc' = [pc EXCEPT ![r] = phase]
    /\ job' = [job EXCEPT ![r] = c]

End(r) ==
    /\ Work(r, "idle", NoClaim)
    /\ plan' = [plan EXCEPT ![r] = "none"]

domain == <<adding, status, deleted, verified>>
certs  == <<certificates, certificate>>
dns    == <<txt, shown>>

\* The rows that uniq_active_domain_hostname and the handlers' lookups see.
Live == {c \in Claims : status[c] # "none" /\ c \notin deleted}

-----------------------------------------------------------------------------
(* The owner of the hostname, who alone writes its TXT records.            *)

PublishToken(c) ==
    /\ status[c] # "none" /\ c \notin txt
    /\ txt' = txt \cup {c} /\ shown' = shown \cup {c}
    /\ UNCHANGED <<domain, served, certs, pc, job, plan, crashes>>

RemoveToken(c) ==
    /\ c \in txt
    /\ txt' = txt \ {c}
    /\ UNCHANGED <<shown, domain, served, certs, pc, job, plan, crashes>>

-----------------------------------------------------------------------------
(* create_domain                                                           *)

\* _ensure_hostname_available, before the transaction.
FindAvailable(c) ==
    /\ status[c] = "none" /\ c \notin adding
    /\ Live = {}
    /\ adding' = adding \cup {c}
    /\ UNCHANGED <<dns, status, deleted, verified, served, certs, pc, job, plan, crashes>>

\* Slip: the unique constraint is missing from the migration.
AddUnchecked(c) ==
    /\ c \in adding
    /\ adding' = adding \ {c}
    /\ status' = [status EXCEPT ![c] = "pending_verification"]
    /\ UNCHANGED <<dns, deleted, verified, served, certs, pc, job, plan, crashes>>

\* The row, or the IntegrityError of uniq_active_domain_hostname.
AddDomain(c) ==
    /\ c \in adding
    /\ adding' = adding \ {c}
    /\ status' = IF Live = {} THEN [status EXCEPT ![c] = "pending_verification"]
                 ELSE status
    /\ UNCHANGED <<dns, deleted, verified, served, certs, pc, job, plan, crashes>>

-----------------------------------------------------------------------------
(* verify_domain                                                           *)

\* check_pending_domains lists the pending rows and goes through the list; a row
\* may have changed when its turn comes.
ListPending(c) ==
    /\ pc[Checker] = "idle" /\ c \in Live /\ status[c] = "pending_verification"
    /\ Work(Checker, "listed", c)
    /\ UNCHANGED <<dns, domain, served, certs, plan, crashes>>

\* Slip: any TXT record will do.
AnyToken(c) == txt # {}

TokenFound(c) == c \in txt

\* The row is loaded, whatever its status, unless it is deleted.
LoadDomain(r, c) ==
    /\ c \in Live
    /\ \/ r # Checker /\ pc[r] = "idle"
       \/ pc[r] = "listed" /\ job[r] = c
    /\ Work(r, "loaded", c)
    /\ UNCHANGED <<dns, domain, served, certs, plan, crashes>>

ResolveTxt(r) ==
    /\ pc[r] = "loaded"
    /\ Work(r, IF TokenFound(job[r]) THEN "matched" ELSE "mismatched", job[r])
    /\ UNCHANGED <<dns, domain, served, certs, plan, crashes>>

\* Slip: the error is raised before the status is saved.
RaiseOnly(r) ==
    /\ pc[r] = "mismatched"
    /\ End(r)
    /\ UNCHANGED <<dns, domain, served, certs, crashes>>

\* No record matches: the object loaded before the lookup is saved, outside any
\* transaction, over whatever the row has become.
FailVerification(r) ==
    /\ pc[r] = "mismatched" /\ ~Locked(job[r])
    /\ status' = [status EXCEPT ![job[r]] = "failed"]
    /\ End(r)
    /\ UNCHANGED <<dns, adding, deleted, verified, served, certs, crashes>>

\* Slip: the row's own status is taken for the plan.
StatusAsPlan(c) == certificate[c]

\* request_certificate_for_domain: get_or_create, and a row that failed or
\* expired starts again.
CertificatePlan(c) ==
    IF certificates[c] = 0 THEN "create"
    ELSE IF certificate[c] = "failed" THEN "reset" ELSE "keep"

\* The transaction up to its commit; the provisioner is told to route.  The row is
\* locked by its key alone: it may have been disabled or deleted meanwhile.
BeginVerified(r) ==
    LET c == job[r] IN
    /\ pc[r] = "matched" /\ ~Locked(c)
    /\ plan' = [plan EXCEPT ![r] = CertificatePlan(c)]
    /\ served' = served \cup {c}
    /\ Work(r, "verifying", c)
    /\ UNCHANGED <<dns, domain, certs, crashes>>

CommitVerified(r) ==
    LET c == job[r] IN
    /\ pc[r] = "verifying"
    /\ status' = [status EXCEPT ![c] = "verified"]
    /\ verified' = verified \cup {c}
    /\ certificates' = IF plan[r] = "create" THEN [certificates EXCEPT ![c] = @ + 1]
                       ELSE certificates
    /\ certificate' = IF plan[r] = "keep" THEN certificate
                      ELSE [certificate EXCEPT ![c] = "pending"]
    /\ End(r)
    /\ UNCHANGED <<dns, adding, deleted, served, crashes>>

-----------------------------------------------------------------------------
(* The other operations on a domain and its certificate.                   *)

\* mark_domain_active
MarkActive(c) ==
    /\ c \in Live /\ ~Locked(c) /\ c \in verified
    /\ status' = [status EXCEPT ![c] = "active"]
    /\ UNCHANGED <<dns, adding, deleted, verified, served, certs, pc, job, plan, crashes>>

\* Slip: the provisioner is told before the row is locked.
DeprovisionUnlocked(r, c) ==
    /\ r # Checker /\ pc[r] = "idle" /\ c \in Live
    /\ served' = served \ {c}
    /\ Work(r, "disabling", c)
    /\ UNCHANGED <<dns, domain, certs, plan, crashes>>

\* disable_domain up to its commit; the provisioner is told to stop routing.
BeginDisabled(r, c) ==
    /\ r # Checker /\ pc[r] = "idle" /\ c \in Live /\ ~Locked(c)
    /\ served' = served \ {c}
    /\ Work(r, "disabling", c)
    /\ UNCHANGED <<dns, domain, certs, plan, crashes>>

CommitDisabled(r) ==
    /\ pc[r] = "disabling"
    /\ status' = [status EXCEPT ![job[r]] = "disabled"]
    /\ End(r)
    /\ UNCHANGED <<dns, adding, deleted, verified, served, certs, crashes>>

\* request_organization_deletion: the rows of an organization that is to be erased
\* are deleted; the provisioner is not told.
DeleteDomain(c) ==
    /\ c \in Live /\ ~Locked(c)
    /\ status' = [status EXCEPT ![c] = "deleted"]
    /\ deleted' = deleted \cup {c}
    /\ UNCHANGED <<dns, adding, verified, served, certs, pc, job, plan, crashes>>

\* update_certificate_status and request_certificate_renewal, on reports of the
\* certificate manager in any order; a row that is being reset is locked.
CertificateChanges(c, new) ==
    /\ certificates[c] # 0 /\ new # certificate[c]
    /\ \A r \in Requests : ~(job[r] = c /\ plan[r] = "reset")
    /\ certificate' = [certificate EXCEPT ![c] = new]
    /\ UNCHANGED <<dns, domain, served, certificates, pc, job, plan, crashes>>

\* The listed row was deleted: DoesNotExist ends the check.
ListedIsGone ==
    /\ pc[Checker] = "listed" /\ job[Checker] \notin Live
    /\ End(Checker)
    /\ UNCHANGED <<dns, domain, served, certs, crashes>>

\* A request dies: what it has not committed is lost, what it told the
\* provisioner is not taken back.
Die(r) ==
    /\ pc[r] # "idle" /\ crashes < MaxCrashes
    /\ crashes' = crashes + 1
    /\ End(r)
    /\ UNCHANGED <<dns, domain, served, certs>>

-----------------------------------------------------------------------------

Advance(r) ==
    \/ ResolveTxt(r) \/ FailVerification(r)
    \/ BeginVerified(r) \/ CommitVerified(r) \/ CommitDisabled(r)

CheckPending == ListedIsGone \/ \E c \in Claims : ListPending(c) \/ LoadDomain(Checker, c)

Next ==
    \/ \E c \in Claims :
          \/ PublishToken(c) \/ RemoveToken(c)
          \/ FindAvailable(c) \/ AddDomain(c)
          \/ MarkActive(c) \/ DeleteDomain(c)
          \/ \E new \in CertificateStatuses : CertificateChanges(c, new)
          \/ \E r \in Requests : LoadDomain(r, c) \/ BeginDisabled(r, c)
    \/ CheckPending
    \/ \E r \in Requests : Advance(r) \/ Die(r)

Spec == Init /\ [][Next]_vars

\* The checker runs again and again, and a handler that does not die goes on.
FairSpec == Spec /\ WF_vars(CheckPending) /\ \A r \in Requests : WF_vars(Advance(r))

-----------------------------------------------------------------------------
(* Properties.                                                             *)

\* The hostname belongs to one claim at a time, although every request looks
\* whether it is free before it inserts its row, and late requests still write the
\* rows of claims that were deleted.
OneHolder == \A c, d \in Live : c = d

\* Whatever a claim got (verified_at, traffic, a certificate row) it got after its
\* own token was in the DNS of the hostname, also from a transaction that died.
Earned ==
    \A c \in Claims :
       c \in verified \/ c \in served \/ certificates[c] # 0 => c \in shown

\* A domain has one certificate row if it was ever verified and none before,
\* although nothing in the schema keeps verifications from creating several.
OneCertificate ==
    \A c \in Claims : certificates[c] = IF c \in verified THEN 1 ELSE 0

\* As long as no request died, the router and the table agree once a row's
\* transactions are over: a verified domain is routed, a disabled one is not,
\* however verifications and disabling overtake each other.
RoutingFollowsStatus ==
    crashes = 0 =>
       \A c \in Claims : ~Locked(c) =>
          /\ status[c] = "verified" => c \in served
          /\ status[c] = "disabled" => c \notin served

\* A pending domain does not stay pending: the checker decides it if nobody else
\* does.
PendingIsDecided ==
    \A c \in Claims :
       status[c] = "pending_verification" ~> status[c] # "pending_verification"

=============================================================================
