--------------------------- MODULE DeliveryProofs ---------------------------
(***************************************************************************)
(* Proofs about what a published project rests on: hostnames, secrets and  *)
(* files, and about exports, for any claims, requests and deployments.     *)
(***************************************************************************)
EXTENDS MCDelivery, SequenceTheorems, TLAPS

-----------------------------------------------------------------------------
(* Hostnames.                                                              *)

USE DomainsAssumption

-----------------------------------------------------------------------------
(* Type correctness.                                                       *)

LEMMA InitType == Init => TypeOK
BY DEF Init, TypeOK, DomainStatuses, CertificateStatuses, Phases, Plans

LEMMA NextType == TypeOK /\ [Next]_vars => TypeOK'
<1> SUFFICES ASSUME TypeOK, [Next]_vars PROVE TypeOK'
  OBVIOUS
<1> USE DEF TypeOK, DomainStatuses, CertificateStatuses, Phases, Plans, Live,
            End, Work, domain, certs, dns, CertificatePlan
<1>1. ASSUME NEW c \in Claims, PublishToken(c) PROVE TypeOK'
  BY <1>1 DEF PublishToken
<1>2. ASSUME NEW c \in Claims, RemoveToken(c) PROVE TypeOK'
  BY <1>2 DEF RemoveToken
<1>3. ASSUME NEW c \in Claims, FindAvailable(c) PROVE TypeOK'
  BY <1>3 DEF FindAvailable
<1>4. ASSUME NEW c \in Claims, AddDomain(c) PROVE TypeOK'
  BY <1>4 DEF AddDomain
<1>5. ASSUME NEW c \in Claims, MarkActive(c) PROVE TypeOK'
  BY <1>5 DEF MarkActive
<1>6. ASSUME NEW c \in Claims, DeleteDomain(c) PROVE TypeOK'
  BY <1>6 DEF DeleteDomain
<1>7. ASSUME NEW c \in Claims, NEW new \in CertificateStatuses,
              CertificateChanges(c, new) PROVE TypeOK'
  BY <1>7 DEF CertificateChanges
<1>8. ASSUME NEW c \in Claims, ListPending(c) PROVE TypeOK'
  BY <1>8 DEF ListPending
<1>9. ASSUME NEW r \in Requests, NEW c \in Claims, LoadDomain(r, c) PROVE TypeOK'
  BY <1>9 DEF LoadDomain
<1>10. ASSUME NEW r \in Requests, NEW c \in Claims, BeginDisabled(r, c) PROVE TypeOK'
  BY <1>10 DEF BeginDisabled
<1>11. ASSUME ListedIsGone PROVE TypeOK'
  BY <1>11 DEF ListedIsGone
<1>12. ASSUME NEW r \in Requests, ResolveTxt(r) PROVE TypeOK'
  BY <1>12 DEF ResolveTxt, TokenFound
<1>13. ASSUME NEW r \in Requests, FailVerification(r) PROVE TypeOK'
  BY <1>13 DEF FailVerification
<1>14. ASSUME NEW r \in Requests, BeginVerified(r) PROVE TypeOK'
  BY <1>14 DEF BeginVerified, CertificatePlan
<1>15. ASSUME NEW r \in Requests, CommitVerified(r) PROVE TypeOK'
  BY <1>15 DEF CommitVerified
<1>16. ASSUME NEW r \in Requests, CommitDisabled(r) PROVE TypeOK'
  BY <1>16 DEF CommitDisabled
<1>17. ASSUME NEW r \in Requests, Die(r) PROVE TypeOK'
  BY <1>17 DEF Die
<1>18. CASE UNCHANGED vars
  BY <1>18 DEF vars
<1> QED
  BY <1>1, <1>2, <1>3, <1>4, <1>5, <1>6, <1>7, <1>8, <1>9, <1>10,
     <1>11, <1>12, <1>13, <1>14, <1>15, <1>16, <1>17, <1>18
  DEF Next, CheckPending, Advance

\* The variables of Domains keep their types; an idle request works on no claim.
THEOREM DomainsType == Spec => []TypeOK
BY InitType, NextType, PTL DEF Spec

-----------------------------------------------------------------------------
(* The inductive invariant.                                                *)

\* One open transaction holds a row at a time.
OneLock ==
    \A q, r \in Requests :
       /\ pc[q] \in {"verifying", "disabling"}
       /\ pc[r] \in {"verifying", "disabling"}
       /\ job[q] = job[r]
       => q = r

\* Handlers work on rows that are there, and rows stay.
WorkHasRow == \A r \in Requests : pc[r] # "idle" => status[job[r]] # "none"

\* What a handler matched had been shown.
MatchWasShown ==
    /\ txt \subseteq shown
    /\ \A r \in Requests : pc[r] \in {"matched", "verifying"} => job[r] \in shown

\* The certificate row that a verification means to create is still missing.
PlanFits ==
    \A r \in Requests :
       pc[r] = "verifying" => (plan[r] = "create" <=> certificates[job[r]] = 0)

\* The provisioner knows before the row says so.
ToldFirst ==
    crashes = 0 =>
       \A r \in Requests :
          /\ pc[r] = "verifying" => job[r] \in served
          /\ pc[r] = "disabling" => job[r] \notin served

Inv ==
    /\ OneLock /\ WorkHasRow /\ MatchWasShown /\ PlanFits /\ ToldFirst
    /\ OneHolder /\ Earned /\ OneCertificate /\ RoutingFollowsStatus

LEMMA InitInv == Init => Inv
BY DEF Init, Inv, OneLock, WorkHasRow, MatchWasShown, PlanFits, ToldFirst,
       OneHolder, Earned, OneCertificate, RoutingFollowsStatus, Live

LEMMA NextInv == TypeOK /\ Inv /\ [Next]_vars => Inv'
<1> SUFFICES ASSUME TypeOK, TypeOK', Inv, [Next]_vars PROVE Inv'
  BY NextType
<1> USE DEF TypeOK, Inv, OneLock, WorkHasRow, MatchWasShown, PlanFits, ToldFirst,
            OneHolder, Earned, OneCertificate, RoutingFollowsStatus, Live, Locked,
            End, Work, domain, certs, dns
<1>1. ASSUME NEW c \in Claims, PublishToken(c) PROVE Inv'
  BY <1>1 DEF PublishToken
<1>2. ASSUME NEW c \in Claims, RemoveToken(c) PROVE Inv'
  BY <1>2 DEF RemoveToken
<1>3. ASSUME NEW c \in Claims, FindAvailable(c) PROVE Inv'
  BY <1>3 DEF FindAvailable
<1>4. ASSUME NEW c \in Claims, AddDomain(c) PROVE Inv'
  BY <1>4 DEF AddDomain
<1>5. ASSUME NEW c \in Claims, MarkActive(c) PROVE Inv'
  BY <1>5 DEF MarkActive
<1>6. ASSUME NEW c \in Claims, DeleteDomain(c) PROVE Inv'
  BY <1>6 DEF DeleteDomain
<1>7. ASSUME NEW c \in Claims, NEW new \in CertificateStatuses,
              CertificateChanges(c, new) PROVE Inv'
  BY <1>7 DEF CertificateChanges
<1>8. ASSUME NEW c \in Claims, ListPending(c) PROVE Inv'
  BY <1>8 DEF ListPending
<1>9. ASSUME NEW r \in Requests, NEW c \in Claims, LoadDomain(r, c) PROVE Inv'
  BY <1>9 DEF LoadDomain
<1>10. ASSUME NEW r \in Requests, NEW c \in Claims, BeginDisabled(r, c) PROVE Inv'
  BY <1>10 DEF BeginDisabled
<1>11. ASSUME ListedIsGone PROVE Inv'
  BY <1>11 DEF ListedIsGone
<1>12. ASSUME NEW r \in Requests, ResolveTxt(r) PROVE Inv'
  BY <1>12 DEF ResolveTxt, TokenFound
<1>13. ASSUME NEW r \in Requests, FailVerification(r) PROVE Inv'
  BY <1>13 DEF FailVerification
<1>14. ASSUME NEW r \in Requests, BeginVerified(r) PROVE Inv'
  BY <1>14 DEF BeginVerified, CertificatePlan
<1>15. ASSUME NEW r \in Requests, CommitVerified(r) PROVE Inv'
  BY <1>15 DEF CommitVerified
<1>16. ASSUME NEW r \in Requests, CommitDisabled(r) PROVE Inv'
  BY <1>16 DEF CommitDisabled
<1>17. ASSUME NEW r \in Requests, Die(r) PROVE Inv'
  BY <1>17 DEF Die
<1>18. CASE UNCHANGED vars
  BY <1>18 DEF vars
<1> QED
  BY <1>1, <1>2, <1>3, <1>4, <1>5, <1>6, <1>7, <1>8, <1>9, <1>10,
     <1>11, <1>12, <1>13, <1>14, <1>15, <1>16, <1>17, <1>18
  DEF Next, CheckPending, Advance

LEMMA InvHolds == Spec => []Inv
BY InitType, InitInv, NextType, NextInv, PTL DEF Spec

-----------------------------------------------------------------------------
(* The safety properties.                                                  *)

\* create_domain: at most one live row has the hostname, whoever adds, verifies,
\* disables or erases it, and whatever late handlers write.
THEOREM HostnameHasOneHolder == Spec => []OneHolder
BY InvHolds, PTL DEF Inv

\* verify_domain: nothing is verified, routed or certified before its own token
\* was in DNS, also where the transaction died after telling the provisioner.
THEOREM TokenCameFirst == Spec => []Earned
BY InvHolds, PTL DEF Inv

\* request_certificate_for_domain: get_or_create makes one row for a verified
\* domain, because verifications of a domain take turns on its lock.
THEOREM CertificateIsUnique == Spec => []OneCertificate
BY InvHolds, PTL DEF Inv

\* verify_domain and disable_domain tell the provisioner under the row's lock, so
\* what it heard last agrees with the row when the lock is free, unless one died.
THEOREM RouterAgrees == Spec => []RoutingFollowsStatus
BY InvHolds, PTL DEF Inv

HIDE DomainsAssumption

-----------------------------------------------------------------------------
(* Secrets.  A copy may be stale, never ahead of its row: the next version *)
(* of a copy that is stale is taken, that of the others is the next one of *)
(* the row.                                                                *)

HistoryOf(s) ==
    /\ current[s] = Len(accepted[s])
    /\ \A n \in 1..MaxVersions : Has(s, n) <=> n <= current[s]
    /\ \A n \in 1..current[s] : versions[s][n] = accepted[s][n]
    /\ state[s] = "none" <=> current[s] = 0

CopyIsBehind(r) ==
    writerPc[r] = "loaded" => /\ state[copy[r].row] # "none"
                              /\ copy[r].current <= current[copy[r].row]

SecretInv ==
    /\ SecretTypeOK
    /\ \A s \in Rows : HistoryOf(s)
    /\ \A r \in Writers : CopyIsBehind(r)

LEMMA InitSecret == SecretInit => SecretInv
<1> SUFFICES ASSUME SecretInit PROVE SecretInv
  OBVIOUS
<1> USE SecretsAssumption DEF SecretInit
<1>1. SecretTypeOK
  BY DEF SecretTypeOK
<1>2. \A s \in Rows : HistoryOf(s)
  BY DEF HistoryOf, Has
<1>3. \A r \in Writers : CopyIsBehind(r)
  BY DEF CopyIsBehind
<1> QED BY <1>1, <1>2, <1>3 DEF SecretInv

\* What a request that has loaded a row may do with it.
LEMMA CopyOfRow ==
    ASSUME SecretInv, NEW r \in Writers, writerPc[r] = "loaded"
    PROVE  /\ copy[r].row \in Rows /\ copy[r].current \in 0..MaxVersions
           /\ state[copy[r].row] # "none"
           /\ copy[r].current <= current[copy[r].row]
BY DEF SecretInv, SecretTypeOK, CopyIsBehind

\* A version that is accepted is the next one of its row.
LEMMA NextOfRow ==
    ASSUME SecretInv, NEW r \in Writers, writerPc[r] = "loaded", StoreNext(r)
    PROVE  \E s \in Rows :
              /\ s = copy[r].row
              /\ current[s] \in Nat /\ current[s] + 1 \in 1..MaxVersions
              /\ versions' = [versions EXCEPT ![s] = [versions[s] EXCEPT ![current[s] + 1] = r]]
              /\ current' = [current EXCEPT ![s] = current[s] + 1]
              /\ accepted' = [accepted EXCEPT ![s] = Append(accepted[s], r)]
<1> DEFINE s == copy[r].row
<1>1. s \in Rows /\ copy[r].current \in 0..MaxVersions /\ copy[r].current <= current[s]
  BY CopyOfRow
<1>2. current[s] \in 0..MaxVersions /\ MaxVersions \in Nat
  BY <1>1, SecretsAssumption DEF SecretInv, SecretTypeOK
<1>3. ~Has(s, copy[r].current + 1) /\ copy[r].current + 1 <= MaxVersions
  BY DEF StoreNext
<1>4. copy[r].current + 1 > current[s]
  BY <1>1, <1>2, <1>3 DEF SecretInv, HistoryOf
<1>5. copy[r].current = current[s]
  BY <1>1, <1>2, <1>4
<1>6. current[s] + 1 \in 1..MaxVersions
  BY <1>2, <1>3, <1>5
<1>7. versions' = [versions EXCEPT ![s] = [versions[s] EXCEPT ![current[s] + 1] = r]]
  BY <1>5 DEF StoreNext
<1>8. /\ current' = [current EXCEPT ![s] = current[s] + 1]
      /\ accepted' = [accepted EXCEPT ![s] = Append(accepted[s], r)]
  BY <1>5 DEF StoreNext
<1>9. s \in Rows /\ s = copy[r].row /\ current[s] \in Nat
  BY <1>1, <1>2
<1> QED BY ONLY <1>6, <1>7, <1>8, <1>9

LEMMA NextSecretType == SecretInv /\ [SecretNext]_secretVars => SecretTypeOK'
<1> SUFFICES ASSUME SecretInv, [SecretNext]_secretVars PROVE SecretTypeOK'
  OBVIOUS
<1> USE SecretsAssumption DEF SecretTypeOK, tables, handlers, EndWriter
<1>1. ASSUME NEW r \in Writers, NEW s \in Rows, CreateSecret(r, s) PROVE SecretTypeOK'
  <2>1. <<r>> \in Seq(Writers)
    OBVIOUS
  <2> QED BY <1>1, <2>1 DEF CreateSecret, SecretInv
<1>2. ASSUME NEW r \in Writers, NEW s \in Rows, LoadSecret(r, s) PROVE SecretTypeOK'
  BY <1>2 DEF LoadSecret, SecretInv
<1>3. ASSUME NEW r \in Writers, StoreValue(r) PROVE SecretTypeOK'
  <2>1. PICK s \in Rows :
          /\ current[s] + 1 \in 1..MaxVersions
          /\ versions' = [versions EXCEPT ![s] = [versions[s] EXCEPT ![current[s] + 1] = r]]
          /\ current' = [current EXCEPT ![s] = current[s] + 1]
          /\ accepted' = [accepted EXCEPT ![s] = Append(accepted[s], r)]
    BY <1>3, NextOfRow DEF StoreValue
  <2>2. Append(accepted[s], r) \in Seq(Writers)
    BY DEF SecretInv
  <2>3. accepted' \in [Rows -> Seq(Writers)]
    BY <2>1, <2>2 DEF SecretInv
  <2>4. versions' \in [Rows -> [1..MaxVersions -> Writers \cup {"none"}]]
        /\ current' \in [Rows -> 0..MaxVersions]
    BY <2>1 DEF SecretInv
  <2> QED BY <1>3, <2>3, <2>4, SMTT(20) DEF StoreValue, SecretInv
<1>4. ASSUME NEW r \in Writers, StoreRefused(r) PROVE SecretTypeOK'
  BY <1>4 DEF StoreRefused, SecretInv
<1>5. ASSUME NEW r \in Writers, StoreMetadata(r) PROVE SecretTypeOK'
  BY <1>5 DEF StoreMetadata, SecretInv
<1>6. ASSUME NEW r \in Writers, DeleteSecret(r) PROVE SecretTypeOK'
  BY <1>6 DEF DeleteSecret, SecretInv
<1>7. CASE UNCHANGED secretVars
  BY <1>7 DEF secretVars, SecretInv
<1> QED BY <1>1, <1>2, <1>3, <1>4, <1>5, <1>6, <1>7 DEF SecretNext, AllDeleted

LEMMA NextHistory ==
    ASSUME SecretInv, [SecretNext]_secretVars, NEW s \in Rows
    PROVE  HistoryOf(s)'
<1>0. SecretTypeOK /\ SecretTypeOK' /\ HistoryOf(s) /\ MaxVersions \in Nat \ {0}
  BY NextSecretType, SecretsAssumption DEF SecretInv
<1>1. ASSUME NEW r \in Writers, NEW t \in Rows, CreateSecret(r, t) PROVE HistoryOf(s)'
  <2>1. CASE s = t
    <3>1. current[s] = 0 /\ current'[s] = 1 /\ accepted'[s] = <<r>> /\ state'[s] = "active"
      BY <1>0, <1>1, <2>1 DEF CreateSecret, HistoryOf, SecretTypeOK
    <3>2. versions'[s] = [versions[s] EXCEPT ![1] = r] /\ r # "none"
      BY <1>0, <1>1, <2>1, SecretsAssumption DEF CreateSecret, SecretTypeOK
    <3>3. versions[s] \in [1..MaxVersions -> Writers \cup {"none"}]
      BY <1>0 DEF SecretTypeOK
    <3>4. \A n \in 1..MaxVersions : versions'[s][n] # "none" <=> n <= 1
      BY <1>0, <3>1, <3>2, <3>3 DEF HistoryOf, Has
    <3> QED BY <1>0, <3>1, <3>2, <3>3, <3>4 DEF HistoryOf, Has
  <2>2. CASE s # t
    BY <1>0, <1>1, <2>2 DEF CreateSecret, HistoryOf, Has, SecretTypeOK
  <2> QED BY <2>1, <2>2
<1>2. ASSUME NEW r \in Writers, StoreValue(r) PROVE HistoryOf(s)'
  <2> DEFINE n == current[s]
  <2>0. PICK t \in Rows :
          /\ t = copy[r].row
          /\ current[t] + 1 \in 1..MaxVersions
          /\ versions' = [versions EXCEPT ![t] = [versions[t] EXCEPT ![current[t] + 1] = r]]
          /\ current' = [current EXCEPT ![t] = current[t] + 1]
          /\ accepted' = [accepted EXCEPT ![t] = Append(accepted[t], r)]
    BY <1>2, NextOfRow DEF StoreValue
  <2>1. UNCHANGED state /\ state[t] # "none"
    BY <1>2, <2>0, CopyOfRow DEF StoreValue
  <2>2. CASE s = t
    <3>1. /\ n + 1 \in 1..MaxVersions /\ current'[s] = n + 1
          /\ versions'[s] = [versions[s] EXCEPT ![n + 1] = r]
          /\ accepted'[s] = Append(accepted[s], r)
      BY <1>0, <2>0, <2>2 DEF SecretTypeOK
    <3>2. versions[s] \in [1..MaxVersions -> Writers \cup {"none"}] /\ r # "none"
          /\ accepted[s] \in Seq(Writers) /\ n \in Nat
      BY <1>0, SecretsAssumption DEF SecretTypeOK
    <3>4. Len(accepted'[s]) = n + 1 /\ accepted'[s][n + 1] = r
          /\ \A i \in 1..n : accepted'[s][i] = accepted[s][i]
      BY <1>0, <3>1, <3>2 DEF HistoryOf
    <3>5. \A i \in 1..MaxVersions : versions'[s][i] # "none" <=> i <= n + 1
      BY <1>0, <3>1, <3>2 DEF HistoryOf, Has
    <3>6. \A i \in 1..n + 1 : versions'[s][i] = accepted'[s][i]
      BY <1>0, <3>1, <3>2, <3>4 DEF HistoryOf
    <3>7. state'[s] # "none" /\ n + 1 # 0
      BY <2>1, <2>2, <3>2
    <3> QED BY <3>1, <3>4, <3>5, <3>6, <3>7 DEF HistoryOf, Has
  <2>3. CASE s # t
    BY <1>0, <2>0, <2>1, <2>3 DEF HistoryOf, Has, SecretTypeOK
  <2> QED BY <2>2, <2>3
<1>3. ASSUME NEW r \in Writers, DeleteSecret(r) PROVE HistoryOf(s)'
  BY <1>0, <1>3, CopyOfRow DEF DeleteSecret, HistoryOf, Has, SecretTypeOK
<1>4. CASE UNCHANGED <<state, current, versions, accepted>>
  BY <1>0, <1>4 DEF HistoryOf, Has
<1> QED
  BY <1>1, <1>2, <1>3, <1>4
  DEF SecretNext, AllDeleted, LoadSecret, StoreRefused, StoreMetadata, secretVars, tables

LEMMA NextCopies ==
    ASSUME SecretInv, [SecretNext]_secretVars, NEW r \in Writers
    PROVE  CopyIsBehind(r)'
<1>0. SecretTypeOK /\ SecretTypeOK' /\ CopyIsBehind(r) /\ MaxVersions \in Nat \ {0}
  BY NextSecretType, SecretsAssumption DEF SecretInv
<1> USE DEF CopyIsBehind, SecretTypeOK, EndWriter, tables, handlers
<1>1. ASSUME NEW q \in Writers, NEW s \in Rows, CreateSecret(q, s) PROVE CopyIsBehind(r)'
  BY <1>0, <1>1 DEF CreateSecret
<1>2. ASSUME NEW q \in Writers, NEW s \in Rows, LoadSecret(q, s) PROVE CopyIsBehind(r)'
  BY <1>0, <1>2 DEF LoadSecret
<1>3. ASSUME NEW q \in Writers, StoreValue(q) PROVE CopyIsBehind(r)'
  <2>1. PICK s \in Rows : current' = [current EXCEPT ![s] = current[s] + 1]
    BY <1>3, NextOfRow DEF StoreValue
  <2>2. \A t \in Rows : current[t] <= current'[t]
    BY <1>0, <2>1, SMTT(20)
  <2>3. writerPc'[r] = "loaded" => writerPc[r] = "loaded" /\ copy'[r] = copy[r]
    BY <1>0, <1>3 DEF StoreValue
  <2>4. writerPc[r] = "loaded" => copy[r].row \in Rows
    BY CopyOfRow
  <2> QED BY <1>0, <1>3, <2>2, <2>3, <2>4, SMTT(20) DEF StoreValue
<1>4. ASSUME NEW q \in Writers, StoreRefused(q) \/ StoreMetadata(q) \/ DeleteSecret(q)
      PROVE  CopyIsBehind(r)'
  BY <1>0, <1>4, SMTT(20) DEF StoreRefused, StoreMetadata, DeleteSecret
<1>5. CASE UNCHANGED secretVars
  BY <1>0, <1>5 DEF secretVars
<1> QED BY <1>1, <1>2, <1>3, <1>4, <1>5 DEF SecretNext, AllDeleted

\* The runtime is given the current version.
LEMMA NewestIsCurrent ==
    ASSUME SecretInv, NEW s \in Rows, state[s] = "active"
    PROVE  Newest(s) = accepted[s][Len(accepted[s])]
<1>1. current[s] \in 1..MaxVersions /\ MaxVersions \in Nat
      /\ \A n \in 1..MaxVersions : Has(s, n) <=> n <= current[s]
  BY SecretsAssumption DEF SecretInv, SecretTypeOK, HistoryOf
<1> DEFINE Last(n) == Has(s, n) /\ ~\E k \in n + 1..MaxVersions : Has(s, k)
<1>2. Last(current[s])
  BY <1>1
<1>3. ASSUME NEW n \in 1..MaxVersions, Last(n) PROVE n = current[s]
  BY <1>1, <1>3
<1>4. (CHOOSE n \in 1..MaxVersions : Last(n)) = current[s]
  BY <1>1, <1>2, <1>3
<1>5. versions[s][current[s]] = accepted[s][current[s]] /\ current[s] = Len(accepted[s])
  BY <1>1 DEF SecretInv, HistoryOf
<1> QED BY <1>4, <1>5 DEF Newest

LEMMA NextSecret == SecretInv /\ [SecretNext]_secretVars => SecretInv'
BY NextSecretType, NextHistory, NextCopies DEF SecretInv

\* No value that was accepted is overwritten, the last one is current and given to the
\* runtime, for any rows, writers and versions (secrets.py:117).
THEOREM HistoryIsKept == SecretSpec => []VersionsAreHistory
<1>1. SecretInv => VersionsAreHistory
  BY NewestIsCurrent DEF SecretInv, HistoryOf, VersionsAreHistory
<1> QED BY InitSecret, NextSecret, <1>1, PTL DEF SecretSpec

-----------------------------------------------------------------------------
(* Static sites.  Each deployment has a prefix of its own, which only its  *)
(* own request writes, and only until its row has the prefix.              *)

\* The files at its prefix are those of its ZIP and the manifest.
Whole(d) == \A f \in contents[d] \cup {ManifestPath} : store[d][f] = d

UploadAt(d) ==
    /\ uploadPc[d] = "copying" =>
          \A f \in contents[d] : f \in todo[d] \/ store[d][f] = d
    /\ uploadPc[d] = "uploaded" => Whole(d)
    /\ imageRef[d] # "none" => uploadPc[d] = "ended" /\ imageRef[d] = d /\ Whole(d)

SiteInv == SiteTypeOK /\ \A d \in Deploys : UploadAt(d)

LEMMA InitSite == SiteInit => SiteInv
BY SitesAssumption DEF SiteInit, SiteInv, SiteTypeOK, UploadAt, Nobody, Files, Prefixes

LEMMA NextSiteType == SiteTypeOK /\ [SiteNext]_siteVars => SiteTypeOK'
<1> SUFFICES ASSUME SiteTypeOK, [SiteNext]_siteVars PROVE SiteTypeOK'
  OBVIOUS
<1> USE SitesAssumption DEF SiteTypeOK, RequestGoes, requests, rows
<1>1. ASSUME NEW d \in Deploys, Unpack(d) PROVE SiteTypeOK'
  BY <1>1 DEF Unpack
<1>2. ASSUME NEW d \in Deploys, RefuseZip(d) PROVE SiteTypeOK'
  BY <1>2 DEF RefuseZip
<1>3. ASSUME NEW d \in Deploys, CreateRows(d) PROVE SiteTypeOK'
  BY <1>3 DEF CreateRows
<1>4. ASSUME NEW d \in Deploys, ScanBlocks(d) PROVE SiteTypeOK'
  BY <1>4 DEF ScanBlocks
<1>5. ASSUME NEW d \in Deploys, ScanAccepts(d) PROVE SiteTypeOK'
  BY <1>5 DEF ScanAccepts
<1>6. ASSUME NEW d \in Deploys, BeginUpload(d) PROVE SiteTypeOK'
  BY <1>6 DEF BeginUpload, Nobody, Prefix, Prefixes, Files
<1>7. ASSUME NEW d \in Deploys, NEW f \in Files, CopyFile(d, f) PROVE SiteTypeOK'
  BY <1>7 DEF CopyFile, Prefix, Prefixes, Files
<1>8. ASSUME NEW d \in Deploys, WriteManifest(d) PROVE SiteTypeOK'
  BY <1>8 DEF WriteManifest, Prefix, Prefixes, Files
<1>9. ASSUME NEW d \in Deploys, Activate(d) PROVE SiteTypeOK'
  BY <1>9 DEF Activate, SwitchTo, Prefix, Prefixes, Files
<1>10. ASSUME NEW d \in Deploys, UploadDies(d) PROVE SiteTypeOK'
  BY <1>10 DEF UploadDies
<1>11. ASSUME NEW d \in Deploys, Rollback(d) PROVE SiteTypeOK'
  BY <1>11 DEF Rollback, SwitchTo
<1>12. CASE UNCHANGED siteVars
  BY <1>12 DEF siteVars
<1> QED
  BY <1>1, <1>2, <1>3, <1>4, <1>5, <1>6, <1>7, <1>8, <1>9, <1>10, <1>11, <1>12
  DEF SiteNext, AllRefused

LEMMA NextSite == SiteInv /\ [SiteNext]_siteVars => SiteInv'
<1> SUFFICES ASSUME SiteInv, [SiteNext]_siteVars, NEW e \in Deploys PROVE UploadAt(e)'
  BY NextSiteType DEF SiteInv
<1> USE SitesAssumption
    DEF SiteInv, SiteTypeOK, UploadAt, Whole, RequestGoes, requests, rows, Prefix, Files, Prefixes
<1>1. ASSUME NEW d \in Deploys, Unpack(d) PROVE UploadAt(e)'
  BY <1>1 DEF Unpack
<1>2. ASSUME NEW d \in Deploys, RefuseZip(d) PROVE UploadAt(e)'
  BY <1>2 DEF RefuseZip
<1>3. ASSUME NEW d \in Deploys, CreateRows(d) PROVE UploadAt(e)'
  BY <1>3 DEF CreateRows
<1>4. ASSUME NEW d \in Deploys, ScanBlocks(d) PROVE UploadAt(e)'
  BY <1>4 DEF ScanBlocks
<1>5. ASSUME NEW d \in Deploys, ScanAccepts(d) PROVE UploadAt(e)'
  BY <1>5 DEF ScanAccepts
<1>6. ASSUME NEW d \in Deploys, BeginUpload(d) PROVE UploadAt(e)'
  BY <1>6 DEF BeginUpload, Nobody
<1>7. ASSUME NEW d \in Deploys, NEW f \in Files, CopyFile(d, f) PROVE UploadAt(e)'
  BY <1>7 DEF CopyFile
<1>8. ASSUME NEW d \in Deploys, WriteManifest(d) PROVE UploadAt(e)'
  BY <1>8 DEF WriteManifest
<1>9. ASSUME NEW d \in Deploys, Activate(d) PROVE UploadAt(e)'
  BY <1>9 DEF Activate, SwitchTo
<1>10. ASSUME NEW d \in Deploys, UploadDies(d) PROVE UploadAt(e)'
  BY <1>10 DEF UploadDies
<1>11. ASSUME NEW d \in Deploys, Rollback(d) PROVE UploadAt(e)'
  BY <1>11 DEF Rollback, SwitchTo
<1>12. CASE UNCHANGED siteVars
  BY <1>12 DEF siteVars
<1> QED
  BY <1>1, <1>2, <1>3, <1>4, <1>5, <1>6, <1>7, <1>8, <1>9, <1>10, <1>11, <1>12
  DEF SiteNext, AllRefused

\* A deployment that runs is served the files of its own ZIP, all of them, for any
\* uploads, paths and failures (static_deployments.py:260).
THEOREM ServedWhole == SiteSpec => []ServedIsComplete
<1>1. SiteInv => ServedIsComplete
  BY DEF SiteInv, UploadAt, Whole, ServedIsComplete
<1> QED BY <1>1, InitSite, NextSite, PTL DEF SiteSpec

-----------------------------------------------------------------------------
(* Exports.  What the row and the file are at each step of the request.    *)

ExportAt(e) ==
    /\ exportPc[e] = "idle" => exportStatus[e] = "none" /\ scope[e] = "none"
    /\ exportPc[e] = "created" => exportStatus[e] = "queued"
    /\ exportPc[e] \in {"collecting", "writing", "written"} => exportStatus[e] = "processing"
    /\ exportPc[e] = "recorded" => exportStatus[e] = "completed"
    /\ exportPc[e] \in {"written", "recorded"} => file[e] = "complete"

\* Nothing opens the file again once the row was saved with its path.
RecordedIsWhole(e) ==
    /\ located[e] => exportPc[e] \in {"recorded", "ended"} /\ file[e] = "complete"
    /\ exportStatus[e] = "completed" => located[e]

\* Only a failure takes the status back, and never after the answer.
LinkedIsCompleted(e) ==
    linked[e] => /\ exportPc[e] = "ended"
                 /\ exportStatus[e] \in {"completed", "none"}

ExportInv ==
    /\ ExportTypeOK
    /\ \A e \in Exports : ExportAt(e) /\ RecordedIsWhole(e) /\ LinkedIsCompleted(e)

USE FaultsAssumption

LEMMA InitExport == ExportInit => ExportInv
BY DEF ExportInit, ExportInv, ExportTypeOK, ExportAt, RecordedIsWhole, LinkedIsCompleted

LEMMA NextExport == ExportInv /\ [ExportNext]_exportVars => ExportInv'
<1> SUFFICES ASSUME ExportInv, [ExportNext]_exportVars PROVE ExportInv'
  OBVIOUS
<1> USE DEF ExportInv, ExportTypeOK, ExportAt, RecordedIsWhole, LinkedIsCompleted, Statuses,
            SetStatus, ExportGoes, row, request
<1>1. ASSUME NEW e \in Exports, NEW s \in {"user", "organization"}, RequestExport(e, s)
      PROVE  ExportInv'
  BY <1>1 DEF RequestExport
<1>2. ASSUME NEW e \in Exports, StartProcessing(e) PROVE ExportInv'
  BY <1>2 DEF StartProcessing
<1>3. ASSUME NEW e \in Exports, OpenFile(e) PROVE ExportInv'
  BY <1>3 DEF OpenFile
<1>4. ASSUME NEW e \in Exports, CloseFile(e) PROVE ExportInv'
  BY <1>4 DEF CloseFile
<1>5. ASSUME NEW e \in Exports, RecordFile(e) PROVE ExportInv'
  BY <1>5 DEF RecordFile
<1>6. ASSUME NEW e \in Exports, AnswerLink(e) PROVE ExportInv'
  BY <1>6 DEF AnswerLink
<1>7. ASSUME NEW e \in Exports, FailExport(e) PROVE ExportInv'
  BY <1>7 DEF FailExport
<1>8. ASSUME NEW e \in Exports, ExportDies(e) PROVE ExportInv'
  BY <1>8 DEF ExportDies
<1>9. ASSUME NEW e \in Exports, Expire(e) PROVE ExportInv'
  BY <1>9 DEF Expire
<1>10. CASE HideOrganization
  BY <1>10 DEF HideOrganization
<1>11. CASE EraseOrganization
  BY <1>11 DEF EraseOrganization
<1>12. CASE UNCHANGED exportVars
  BY <1>12 DEF exportVars
<1> QED
  BY <1>1, <1>2, <1>3, <1>4, <1>5, <1>6, <1>7, <1>8, <1>9, <1>10, <1>11, <1>12
  DEF ExportNext, Ended

LEMMA ExportAlways == ExportSpec => []ExportInv
BY InitExport, NextExport, PTL DEF ExportSpec

\* A link that was answered serves the whole file until it expires or its organization is
\* erased, for any exports and faults (data_protection.py:79).
THEOREM LinksHold == ExportSpec => []LinksServe
<1>1. ExportInv => LinksServe
  BY DEF ExportInv, ExportTypeOK, ExportAt, RecordedIsWhole, LinkedIsCompleted, LinksServe,
         Downloads
<1> QED BY <1>1, ExportAlways, PTL

HIDE FaultsAssumption

-----------------------------------------------------------------------------
(* The four beside each other.  Each moves as it does alone.               *)

LEMMA StepsOfParts ==
    [PartsNext]_<<focus, vars, secretVars, siteVars, exportVars>> =>
       /\ [Next]_vars /\ [SecretNext]_secretVars
       /\ [SiteNext]_siteVars /\ [ExportNext]_exportVars
BY DEF PartsNext

\* What MCDelivery checks is hostnames, secrets, sites and exports, so what is proved of
\* each holds there.
THEOREM DeliveryIsTheParts ==
    PartsSpec => Spec /\ SecretSpec /\ SiteSpec /\ ExportSpec
<1>1. PartsInit => Init /\ SecretInit /\ SiteInit /\ ExportInit
  BY DEF PartsInit
<1> QED BY <1>1, StepsOfParts, PTL DEF PartsSpec, Spec, SecretSpec, SiteSpec, ExportSpec

\* The variables of the four keep their types.
THEOREM DeliveryTyped == PartsSpec => []TypesOK
<1>1. SecretSpec => []SecretTypeOK
  <2>1. SecretInv => SecretTypeOK
    BY DEF SecretInv
  <2> QED BY <2>1, InitSecret, NextSecret, PTL DEF SecretSpec
<1>2. SiteSpec => []SiteTypeOK
  <2>1. SiteInit => SiteTypeOK
    BY InitSite DEF SiteInv
  <2> QED BY <2>1, NextSiteType, PTL DEF SiteSpec
<1>3. ExportSpec => []ExportTypeOK
  <2>1. ExportInv => ExportTypeOK
    BY DEF ExportInv
  <2> QED BY <2>1, ExportAlways, PTL
<1>4. TypeOK /\ SecretTypeOK /\ SiteTypeOK /\ ExportTypeOK => TypesOK
  BY DEF TypesOK
<1> QED BY <1>1, <1>2, <1>3, <1>4, DeliveryIsTheParts, DomainsType, PTL
=============================================================================
