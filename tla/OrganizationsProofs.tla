------------------------ MODULE OrganizationsProofs -------------------------
(***************************************************************************)
(* Proofs about what the platform keeps of its tenants: members, accounts  *)
(* and backups, for any users, requests, passwords and archives; projects are *)
(* TenancyProofs'.                                                         *)
(***************************************************************************)
EXTENDS MCOrganizations, TenancyProofs, FiniteSetTheorems, TLAPS

-----------------------------------------------------------------------------
(* Members.                                                                *)

USE MembersAssumption, JobAssumption

-----------------------------------------------------------------------------
(* Type correctness.  A member's row and its role appear together only     *)
(* because a handler loads the row before it writes one of its fields.     *)

RowLoaded ==
    \A r \in Requests :
       pc[r] \in {"counting", "saving"} => membership[job[r].member] # "none"

TypeInv == TypeOK /\ RowLoaded

LEMMA InitType == Init => TypeInv
BY DEF Init, TypeInv, TypeOK, RowLoaded, Roles

\* What a request in flight was sent to do.
LEMMA JobFields ==
    ASSUME TypeOK, NEW r \in Requests, pc[r] # "idle"
    PROVE  job[r].member \in Users /\ job[r].role \in Roles /\ job[r].role # "none"
BY DEF TypeOK, Jobs, Roles

LEMMA NextType == TypeInv /\ [Next]_vars => TypeInv'
<1> SUFFICES ASSUME TypeInv, [Next]_vars PROVE TypeInv'
  OBVIOUS
<1> USE DEF TypeInv, TypeOK, RowLoaded, End
<1>1. ASSUME NEW r \in Requests, NEW actor \in Users, NEW j \in Jobs, Authorize(r, actor, j)
      PROVE  TypeInv'
  BY <1>1 DEF Authorize
<1>2. ASSUME NEW r \in Requests, Handle(r) PROVE TypeInv'
  <2>1. pc[r] # "idle"
    BY <1>2 DEF Handle, AddMember, LoadRemoved, Reactivate, LoadMember, CountOwners,
                ChangeRole, RemoveMember, DeleteOrganization, EraseOrganization
  <2>2. job[r].member \in Users /\ job[r].role \in Roles /\ job[r].role # "none"
    BY <2>1, JobFields
  <2>3. \A q \in Requests : pc[q] # "idle" => job[q].member \in Users
    BY JobFields
  <2>4. CASE AddMember(r)
    BY <2>2, <2>3, <2>4 DEF AddMember
  <2>5. CASE LoadRemoved(r)
    BY <2>5 DEF LoadRemoved
  <2>6. CASE Reactivate(r)
    BY <2>2, <2>3, <2>6 DEF Reactivate
  <2>7. CASE LoadMember(r)
    BY <2>7 DEF LoadMember
  <2>8. CASE CountOwners(r)
    BY <2>8 DEF CountOwners
  <2>9. CASE ChangeRole(r)
    BY <2>2, <2>9 DEF ChangeRole
  <2>10. CASE RemoveMember(r)
    BY <2>2, <2>3, <2>10 DEF RemoveMember
  <2>11. CASE DeleteOrganization(r)
    BY <2>11 DEF DeleteOrganization
  <2>12. CASE EraseOrganization(r)
    BY <2>3, <2>12 DEF EraseOrganization
  <2> QED BY <1>2, <2>4, <2>5, <2>6, <2>7, <2>8, <2>9, <2>10, <2>11, <2>12 DEF Handle
<1>3. CASE Ended \/ UNCHANGED vars
  BY <1>3 DEF Ended, vars
<1> QED BY <1>1, <1>2, <1>3 DEF Next

LEMMA TypeInvHolds == Spec => []TypeInv
BY InitType, NextType, PTL DEF Spec

\* The variables of Membership keep their types, and a row has a role exactly
\* when it has a status, serialized or not.
THEOREM MembershipType == Spec => []TypeOK
BY TypeInvHolds, PTL DEF TypeInv

-----------------------------------------------------------------------------
(* One transaction at a time: what a handler has read stays true until it  *)
(* writes.                                                                 *)

\* Only one request is in flight, and only in an organization that goes on.
OneInFlight ==
    /\ \A q, r \in Requests : pc[q] # "idle" /\ pc[r] # "idle" => q = r
    /\ \A r \in Requests : pc[r] # "idle" => organization = "active"

\* A handler that counts owners was sent to change or remove one.  A handler about
\* to save takes up a removed row, or leaves another owner, or does nothing to an
\* owner.
Checked ==
    /\ \A r \in Requests : pc[r] = "counting" => job[r].op # "add"
    /\ \A r \in Requests : pc[r] = "saving" =>
       LET u == job[r].member IN
       /\ job[r].op = "add" => membership[u] = "removed"
       /\ job[r].op \in {"change", "remove"} /\ TouchesOwner(role[u], job[r])
             => Owners \ {u} # {}

SerialInv == OneInFlight /\ Checked /\ OwnerRemains /\ DeletedStaysClosed

LEMMA InitSerial == Init => SerialInv
BY DEF Init, SerialInv, OneInFlight, Checked, OwnerRemains, DeletedStaysClosed, Owners

\* What active_owner_count() > 1 tells: whoever goes, an owner stays.
LEMMA AnotherOwner ==
    ASSUME TypeOK, ~(Cardinality(Owners) <= 1), NEW u
    PROVE  Owners \ {u} # {}
<1> SUFFICES ASSUME Owners \subseteq {u} PROVE FALSE
  OBVIOUS
<1>1. IsFiniteSet({u}) /\ Cardinality({u}) = 1
  BY FS_Singleton
<1>2. IsFiniteSet(Owners) /\ Cardinality(Owners) <= 1
  BY <1>1, FS_Subset
<1> QED BY <1>2

\* A step by which the open request ends, or passes on without a write.
LEMMA SerialEnds ==
    ASSUME TypeOK, SerialInv, NEW r \in Requests, pc[r] # "idle",
           pc' = [pc EXCEPT ![r] = "idle"]
    PROVE  OneInFlight' /\ Checked'
BY DEF TypeOK, SerialInv, OneInFlight, Checked

LEMMA NextSerial == Serialized /\ TypeInv /\ SerialInv /\ [Next]_vars => SerialInv'
<1> SUFFICES ASSUME Serialized, TypeInv, SerialInv, [Next]_vars PROVE SerialInv'
  OBVIOUS
<1> TypeOK
  BY DEF TypeInv
<1>1. ASSUME NEW r \in Requests, NEW actor \in Users, NEW j \in Jobs, Authorize(r, actor, j)
      PROVE  SerialInv'
  BY <1>1 DEF Authorize, MayOpen, TypeOK, SerialInv, OneInFlight, Checked, OwnerRemains,
              DeletedStaysClosed, Owners
<1>2. ASSUME NEW r \in Requests, Handle(r) PROVE SerialInv'
  <2>1. pc[r] # "idle" /\ organization = "active"
    BY <1>2 DEF Handle, AddMember, LoadRemoved, Reactivate, LoadMember, CountOwners,
                ChangeRole, RemoveMember, DeleteOrganization, EraseOrganization,
                SerialInv, OneInFlight
  <2>2. job[r].member \in Users
    BY <2>1, JobFields
  <2>3. Owners # {}
    BY <2>1 DEF SerialInv, OwnerRemains
  <2>4. ASSUME End(r), UNCHANGED <<organization, role, membership>> PROVE SerialInv'
    BY <2>1, <2>4, SerialEnds
       DEF End, SerialInv, OwnerRemains, DeletedStaysClosed, Owners
  <2>5. CASE AddMember(r) \/ Reactivate(r)
    <3>1. membership[job[r].member] # "active"
      BY <2>5 DEF AddMember, Reactivate, SerialInv, Checked
    <3>2. Owners \subseteq Owners'
      BY <2>5, <3>1 DEF AddMember, Reactivate, Owners, TypeOK
    <3>3. End(r) /\ UNCHANGED organization
      BY <2>5 DEF AddMember, Reactivate
    <3> QED BY <2>1, <2>3, <3>2, <3>3, SerialEnds
            DEF End, SerialInv, OwnerRemains, DeletedStaysClosed
  <2>6. CASE LoadRemoved(r)
    <3>1. CASE membership[job[r].member] = "removed"
      BY <2>1, <2>6, <3>1 DEF LoadRemoved, TypeOK, SerialInv, OneInFlight, Checked,
                              OwnerRemains, DeletedStaysClosed, Owners
    <3> QED BY <2>4, <2>6, <3>1 DEF LoadRemoved
  <2>7. CASE LoadMember(r)
    <3>1. CASE membership[job[r].member] # "none"
      BY <2>1, <2>7, <3>1 DEF LoadMember, TypeOK, SerialInv, OneInFlight, Checked,
                              OwnerRemains, DeletedStaysClosed, Owners
    <3> QED BY <2>4, <2>7, <3>1 DEF LoadMember
  <2>8. CASE CountOwners(r)
    <3>1. CASE ~(Cardinality(Owners) <= 1)
      <4>1. Owners \ {job[r].member} # {}
        BY <3>1, AnotherOwner
      <4>2. UNCHANGED <<Owners, organization, role, membership, job>>
        BY <2>8, <3>1 DEF CountOwners, Owners
      <4>3. pc' = [pc EXCEPT ![r] = "saving"]
        BY <2>8, <3>1 DEF CountOwners
      <4>4. job[r].op # "add"
        BY <2>8 DEF CountOwners, SerialInv, Checked
      <4> QED BY <2>1, <4>1, <4>2, <4>3, <4>4
              DEF TypeOK, SerialInv, OneInFlight, Checked, OwnerRemains, DeletedStaysClosed
    <3> QED BY <2>4, <2>8, <3>1 DEF CountOwners
  <2>9. CASE ChangeRole(r)
    <3>1. Owners' # {}
      BY <2>2, <2>3, <2>9 DEF ChangeRole, SerialInv, Checked, TouchesOwner, Owners, TypeOK
    <3> QED BY <2>1, <2>9, <3>1, SerialEnds
            DEF ChangeRole, End, SerialInv, OwnerRemains, DeletedStaysClosed
  <2>10. CASE RemoveMember(r)
    <3>1. Owners' # {}
      BY <2>2, <2>3, <2>10 DEF RemoveMember, SerialInv, Checked, TouchesOwner, Owners, TypeOK
    <3> QED BY <2>1, <2>10, <3>1, SerialEnds
            DEF RemoveMember, End, SerialInv, OwnerRemains, DeletedStaysClosed
  <2>11. CASE DeleteOrganization(r)
    BY <2>1, <2>11, SerialEnds
       DEF DeleteOrganization, End, SerialInv, OneInFlight, OwnerRemains, DeletedStaysClosed
  <2>12. CASE EraseOrganization(r)
    BY <2>1, <2>12, SerialEnds
       DEF EraseOrganization, End, TypeOK, SerialInv, OneInFlight, OwnerRemains,
           DeletedStaysClosed
  <2> QED BY <1>2, <2>5, <2>6, <2>7, <2>8, <2>9, <2>10, <2>11, <2>12 DEF Handle
<1>3. CASE Ended \/ UNCHANGED vars
  BY <1>3 DEF Ended, vars, SerialInv, OneInFlight, Checked, OwnerRemains,
              DeletedStaysClosed, Owners
<1> QED BY <1>1, <1>2, <1>3 DEF Next

LEMMA SerialInvHolds == ASSUME Serialized PROVE Spec => []SerialInv
<1>1. TypeInv /\ SerialInv /\ [Next]_vars => SerialInv'
  BY NextSerial
<1> QED BY <1>1, InitSerial, TypeInvHolds, PTL DEF Spec

\* On a database that runs one transaction at a time an organization always
\* keeps an active owner, whoever asks for what in whatever order.
THEOREM OwnerStays == ASSUME Serialized PROVE Spec => []OwnerRemains
BY SerialInvHolds, PTL DEF SerialInv

\* On such a database nobody becomes an active member of an organization again
\* once its deletion was requested.
THEOREM ClosedStays == ASSUME Serialized PROVE Spec => []DeletedStaysClosed
BY SerialInvHolds, PTL DEF SerialInv

HIDE MembersAssumption
HIDE JobAssumption

-----------------------------------------------------------------------------
(* Accounts.  No session carries another hash than that of the password    *)
(* that was typed for it.                                                  *)

AccountInv ==
    /\ AccountTypeOK
    /\ \A b \in Browsers : session[b].hash = session[b].typed

\* What a request may set in its copy, one field at a time.
LEMMA CopyFields ==
    ASSUME NEW k \in CopyRecords
    PROVE  /\ \A h \in 0..MaxPasswords : [k EXCEPT !.hash = h] \in CopyRecords
           /\ \A d \in 0..MaxDevices : [k EXCEPT !.device = d] \in CopyRecords
           /\ \A d \in 0..MaxDevices, c \in Codes :
                 [k EXCEPT !.device = d, !.code = c] \in CopyRecords
           /\ \A t \in Tokens : [k EXCEPT !.token = t] \in CopyRecords
           /\ [k EXCEPT !.code = "none"] \in CopyRecords
<1>1. \A h \in 0..MaxPasswords : [k EXCEPT !.hash = h] \in CopyRecords
  BY DEF CopyRecords
<1>2. \A d \in 0..MaxDevices : [k EXCEPT !.device = d] \in CopyRecords
  BY DEF CopyRecords
<1>3. \A t \in Tokens : [k EXCEPT !.token = t] \in CopyRecords
  BY DEF CopyRecords
<1>4. [k EXCEPT !.code = "none"] \in CopyRecords
  BY DEF CopyRecords
<1>5. ASSUME NEW d \in 0..MaxDevices, NEW c \in Codes
      PROVE  [k EXCEPT !.device = d, !.code = c] \in CopyRecords
  <2>1. \A r \in CopyRecords : [r EXCEPT !.code = c] \in CopyRecords
    BY DEF CopyRecords
  <2> QED BY <1>2, <2>1
<1> QED BY <1>1, <1>2, <1>3, <1>4, <1>5

LEMMA EmptyRecords == NoCopy \in CopyRecords /\ NoSession \in SessionRecords
BY AccountsAssumption DEF NoCopy, NoSession, CopyRecords, SessionRecords

LEMMA InitAccount == AccountInit => AccountInv
<1> SUFFICES ASSUME AccountInit PROVE AccountInv
  OBVIOUS
<1>1. AccountTypeOK
  <2>1. password \in 0..MaxPasswords /\ chosen \in Passwords /\ device \in 0..MaxDevices
    BY AccountsAssumption DEF AccountInit, Passwords
  <2>2. /\ active \in BOOLEAN /\ manager \in BOOLEAN /\ mfa \in BOOLEAN
        /\ enabled \in BOOLEAN
    BY DEF AccountInit
  <2>3. /\ progress \in [Browsers -> Steps] /\ session \in [Browsers -> SessionRecords]
        /\ copy \in [Browsers -> CopyRecords]
        /\ code \in [Codes -> {"none", "unused", "used"}]
    BY EmptyRecords DEF AccountInit, Steps, NoCodes
  <2> QED BY <2>1, <2>2, <2>3 DEF AccountInit, AccountTypeOK
<1>2. \A b \in Browsers : session[b].hash = session[b].typed
  BY DEF AccountInit, NoSession
<1> QED BY <1>1, <1>2 DEF AccountInv

LEMMA NextAccountType == AccountTypeOK /\ [AccountNext]_accountVars => AccountTypeOK'
<1> SUFFICES ASSUME AccountTypeOK, [AccountNext]_accountVars PROVE AccountTypeOK'
  OBVIOUS
<1> USE DEF AccountTypeOK
<1>0. /\ MaxPasswords \in Nat \ {0} /\ MaxDevices \in Nat
      /\ NoCopy \in CopyRecords /\ NoSession \in SessionRecords
      /\ NoCodes \in [Codes -> {"none", "unused", "used"}]
      /\ \A b \in Browsers : copy[b] \in CopyRecords /\ session[b] \in SessionRecords
      /\ user' = user => UNCHANGED <<password, active, manager, mfa>>
      /\ factors' = factors => UNCHANGED <<device, enabled, code>>
      /\ requests' = requests => UNCHANGED <<progress, copy>>
  BY AccountsAssumption, EmptyRecords DEF user, factors, requests, NoCodes
<1>1. ASSUME NEW b \in Browsers, NEW s \in Steps, Go(b, s)
      PROVE  progress' \in [Browsers -> Steps]
  BY <1>1 DEF Go
<1>2. /\ {"idle", "authenticated", "code_read", "factor_ok", "signing_in",
          "changing", "token_read", "token_used", "saved", "enabling", "enabled",
          "coding", "disabling", "disabled"} \subseteq Steps
  BY DEF Steps
<1>3. ASSUME NEW b \in Browsers, EndRequest(b)
      PROVE  progress' \in [Browsers -> Steps] /\ copy' \in [Browsers -> CopyRecords]
  BY <1>0, <1>1, <1>2, <1>3 DEF EndRequest
<1>4. ASSUME NEW b \in Browsers, Fail(b) PROVE AccountTypeOK'
  BY <1>0, <1>3, <1>4 DEF Fail
<1>5. ASSUME NEW b \in Browsers, SignIn(b) PROVE AccountTypeOK'
  <2>1. CASE Authenticate(b)
    <3>1. copy' \in [Browsers -> CopyRecords]
      BY <1>0, <2>1, CopyFields DEF Authenticate
    <3> QED BY <1>0, <1>1, <1>2, <2>1, <3>1 DEF Authenticate
  <2>2. CASE PassWithoutFactor(b)
    BY <1>0, <1>1, <1>2, <2>2 DEF PassWithoutFactor
  <2>3. CASE AskFactor(b)
    <3>1. /\ [copy[b] EXCEPT !.device = device] \in CopyRecords
          /\ \A c \in Codes : [copy[b] EXCEPT !.device = device, !.code = c] \in CopyRecords
      BY <1>0, CopyFields
    <3>2. CASE Fail(b)
      BY <1>4, <3>2
    <3>3. CASE /\ Go(b, "factor_ok")
               /\ copy' = [copy EXCEPT ![b].device = device]
               /\ UNCHANGED <<user, factors, token, session, chosen, userErasure>>
      BY <1>0, <1>1, <1>2, <3>1, <3>3
    <3>4. ASSUME NEW c \in Codes, Go(b, "code_read"),
                 copy' = [copy EXCEPT ![b].device = device, ![b].code = c],
                 UNCHANGED <<user, factors, token, session, chosen, userErasure>>
          PROVE  AccountTypeOK'
      BY <1>0, <1>1, <1>2, <3>1, <3>4
    <3> QED BY <2>3, <3>2, <3>3, <3>4 DEF AskFactor
  <2>4. CASE MarkCode(b)
    <3>1. /\ \A c : [code EXCEPT ![c] = "used"] \in [Codes -> {"none", "unused", "used"}]
          /\ [copy[b] EXCEPT !.code = "none"] \in CopyRecords
      BY <1>0, CopyFields
    <3> QED BY <1>0, <1>1, <1>2, <1>4, <2>4, <3>1 DEF MarkCode
  <2>5. CASE TouchDevice(b)
    <3>1. 0 \in 0..MaxDevices
      BY <1>0
    <3>2. [copy[b] EXCEPT !.device = 0] \in CopyRecords
      BY <1>0, <3>1, CopyFields
    <3> QED BY <1>0, <1>1, <1>2, <1>4, <2>5, <3>2 DEF TouchDevice
  <2>6. CASE OpenSession(b)
    <3>1. [hash |-> copy[b].hash, typed |-> copy[b].hash] \in SessionRecords
      BY <1>0 DEF CopyRecords, SessionRecords
    <3> QED BY <1>0, <1>3, <2>6, <3>1 DEF OpenSession
  <2>7. CASE Logout(b)
    BY <1>0, <2>7 DEF Logout
  <2> QED BY <1>5, <2>1, <2>2, <2>3, <2>4, <2>5, <2>6, <2>7 DEF SignIn
<1>6. ASSUME NEW b \in Browsers, Credentials(b) PROVE AccountTypeOK'
  <2>1. CASE BeginChange(b)
    BY <1>0, <1>1, <1>2, <2>1 DEF BeginChange
  <2>2. CASE UseToken(b)
    <3>1. token' \in [Tokens -> {"none", "issued", "used", "expired"}]
      BY <2>2 DEF UseToken
    <3>2. progress' \in [Browsers -> Steps] /\ copy' \in [Browsers -> CopyRecords]
      BY <1>1, <1>2, <1>3, <2>2 DEF UseToken
    <3> QED BY <1>0, <2>2, <3>1, <3>2 DEF UseToken
  <2>3. CASE SavePassword(b)
    <3>1. chosen' \in Passwords /\ password' \in 0..MaxPasswords
      BY <1>0, <2>3 DEF SavePassword, Passwords
    <3>2. copy' \in [Browsers -> CopyRecords]
      BY <1>0, <2>3, <3>1, CopyFields DEF SavePassword
    <3> QED BY <1>0, <1>1, <1>2, <2>3, <3>1, <3>2 DEF SavePassword
  <2>4. CASE PasswordsEnd(b)
    BY <1>4, <2>4 DEF PasswordsEnd
  <2>5. CASE DropSessions(b)
    <3>1. session' \in [Browsers -> SessionRecords]
      BY <1>0, <2>5 DEF DropSessions
    <3> QED BY <1>0, <1>3, <2>5, <3>1 DEF DropSessions
  <2>6. CASE SetUpDevice(b)
    <3>1. device' \in 0..MaxDevices
      BY <1>0, <2>6 DEF SetUpDevice
    <3> QED BY <1>0, <2>6, <3>1 DEF SetUpDevice
  <2>7. CASE BeginEnable(b) \/ BeginDisable(b)
    <3>1. [copy[b] EXCEPT !.device = device] \in CopyRecords
      BY <1>0, CopyFields
    <3> QED BY <1>0, <1>1, <1>2, <2>7, <3>1 DEF BeginEnable, BeginDisable
  <2>8. CASE EnableDevice(b)
    BY <1>0, <1>1, <1>2, <1>4, <2>8 DEF EnableDevice
  <2>9. CASE DeleteDevice(b)
    <3>1. /\ device' \in 0..MaxDevices /\ enabled' \in BOOLEAN
          /\ code' \in [Codes -> {"none", "unused", "used"}]
      <4>1. CASE copy[b].device = device
        <5>1. device' = 0 /\ enabled' = FALSE /\ code' = NoCodes
          BY <2>9, <4>1 DEF DeleteDevice
        <5>2. enabled' \in BOOLEAN
          BY <5>1, Zenon
        <5> QED BY <1>0, <5>1, <5>2
      <4>2. CASE copy[b].device # device
        BY <1>0, <2>9, <4>2 DEF DeleteDevice
      <4> QED BY <4>1, <4>2
    <3>2. [copy[b] EXCEPT !.device = 0] \in CopyRecords
      <4>1. 0 \in 0..MaxDevices
        BY <1>0, SMT
      <4>2. copy[b] \in CopyRecords
        BY <1>0
      <4> QED BY <4>1, <4>2, CopyFields, Zenon
    <3>3. progress' \in [Browsers -> Steps] /\ copy' \in [Browsers -> CopyRecords]
      BY <1>1, <1>2, <2>9, <3>2 DEF DeleteDevice
    <3>4. UNCHANGED <<password, active, manager, mfa, token, session, chosen, userErasure>>
      BY <1>0, <2>9 DEF DeleteDevice
    <3> QED BY <3>1, <3>3, <3>4
  <2>10. CASE SaveMfa(b)
    <3>1. progress' \in [Browsers -> Steps] /\ copy' \in [Browsers -> CopyRecords]
      BY <1>1, <1>2, <1>3, <2>10 DEF SaveMfa
    <3> QED BY <1>0, <2>10, <3>1 DEF SaveMfa
  <2>11. CASE MakeCodes(b)
    <3>1. CASE copy[b].device = device
      <4>1. code' \in [Codes -> {"none", "unused", "used"}]
        BY <2>11, <3>1 DEF MakeCodes
      <4> QED BY <1>0, <1>3, <2>11, <3>1, <4>1 DEF MakeCodes
    <3>2. CASE copy[b].device # device
      BY <1>4, <2>11, <3>2 DEF MakeCodes
    <3> QED BY <3>1, <3>2
  <2> QED
    BY <1>6, <2>1, <2>2, <2>3, <2>4, <2>5, <2>6, <2>7, <2>8, <2>9, <2>10, <2>11
    DEF Credentials
<1>7. ASSUME NEW b \in Browsers, EraseUser(b) PROVE AccountTypeOK'
  <2>1. session' \in [Browsers -> SessionRecords]
    BY <1>0, <1>7 DEF EraseUser
  <2> QED BY <1>0, <1>7, <2>1 DEF EraseUser
<1>8. ASSUME NEW t \in Tokens, MailToken(t) \/ TokenExpires(t) PROVE AccountTypeOK'
  BY <1>0, <1>8 DEF MailToken, TokenExpires
<1>9. ASSUME NEW b \in Browsers, NEW t \in Tokens, ReadToken(b, t) PROVE AccountTypeOK'
  <2>1. [copy[b] EXCEPT !.token = t] \in CopyRecords
    BY <1>0, CopyFields
  <2> QED BY <1>0, <1>1, <1>2, <1>9, <2>1 DEF ReadToken
<1>10. CASE ManagerChanges
  BY <1>0, <1>10 DEF ManagerChanges
<1>11. CASE AnonymizeUser
  BY <1>0, <1>11 DEF AnonymizeUser
<1>12. CASE UNCHANGED accountVars
  BY <1>0, <1>12 DEF accountVars
<1> QED BY <1>5, <1>6, <1>7, <1>8, <1>9, <1>10, <1>11, <1>12 DEF AccountNext

\* Of the steps that write sessions each writes one that was typed as it is, or none.
LEMMA NextSessions ==
    ASSUME AccountInv, [AccountNext]_accountVars, NEW c \in Browsers
    PROVE  session'[c].hash = session'[c].typed
<1> USE DEF AccountInv, AccountTypeOK
<1>1. ASSUME NEW b \in Browsers, OpenSession(b) PROVE session'[c].hash = session'[c].typed
  BY <1>1 DEF OpenSession
<1>2. ASSUME NEW b \in Browsers, Logout(b) \/ DropSessions(b) \/ EraseUser(b)
      PROVE  session'[c].hash = session'[c].typed
  BY <1>2 DEF Logout, DropSessions, EraseUser, NoSession
<1>3. CASE UNCHANGED session
  BY <1>3
<1> QED
  BY <1>1, <1>2, <1>3
  DEF AccountNext, SignIn, Credentials, Fail, Authenticate, PassWithoutFactor, AskFactor,
      MarkCode, TouchDevice, BeginChange, UseToken, SavePassword, PasswordsEnd, SetUpDevice,
      BeginEnable, BeginDisable, EnableDevice, DeleteDevice, SaveMfa, MakeCodes, MailToken,
      TokenExpires, ReadToken, ManagerChanges, AnonymizeUser, accountVars

\* No session counts that was opened with an older password than the user's, for any
\* browsers, tokens, passwords and devices (auth_utils.py:223-248).
THEOREM SessionsAreOfThePassword == AccountSpec => []OldPasswordsAreOut
<1>1. AccountInv /\ [AccountNext]_accountVars => AccountInv'
  BY NextAccountType, NextSessions DEF AccountInv
<1>2. AccountInv => OldPasswordsAreOut
  BY DEF AccountInv, OldPasswordsAreOut, SignedIn
<1> QED BY InitAccount, <1>1, <1>2, PTL DEF AccountSpec

-----------------------------------------------------------------------------
(* Backups.                                                                *)

\* A release the database knows has its files, or an erasure is removing it.
RowsHaveFiles == rows \subseteq storage \cup unlinked

\* The dump has rows of releases that had their files when the walk began, and the walk
\* misses none of those but what an erasure has removed under it.
DumpIsCopied ==
    /\ step \in {0, 1} => dump = {} /\ walked = {}
    /\ step = 2 => dump \subseteq storage \cup unlinked /\ walked = {}
    /\ step = 3 => /\ dump \subseteq storage \cup unlinked
                   /\ walked # {} => dump \subseteq walked \cup unlinked
    /\ step \in 4..6 => dump \subseteq copied \cup unlinked

Restorable(contents) == contents.rows \ contents.erased \subseteq contents.files

ArchivesRestore == Restorable(staging) /\ \A a \in Archives : Restorable(archive[a])

\* What a backup writes is too young for its own retention.
TargetRemains ==
    /\ step # 0 => target \in Archives /\ target \notin old
    /\ step \in {5, 6} => archive[target].kind = "complete"
    /\ ABackupRemains

BackupInv == BackupTypeOK /\ RowsHaveFiles /\ DumpIsCopied /\ ArchivesRestore /\ TargetRemains

\* The five steps of a backup.
LEMMA StepsOfBackup ==
    /\ Len(Order) = 5
    /\ At("dump") <=> step = 1
    /\ At("read") <=> step = 2
    /\ At("copy") <=> step = 3
    /\ At("write") <=> step = 4
    /\ At("retain") <=> step = 5
<1>1. Len(Order) = 5 /\ Order[1] = "dump" /\ Order[2] = "read" /\ Order[3] = "copy"
      /\ Order[4] = "write" /\ Order[5] = "retain"
  BY DEF Order
<1>2. \A i \in 1..5 : i = 1 \/ i = 2 \/ i = 3 \/ i = 4 \/ i = 5
  OBVIOUS
<1> QED BY <1>1, <1>2 DEF At

LEMMA InitBackup == BackupInit => BackupInv
<1> SUFFICES ASSUME BackupInit PROVE BackupInv
  OBVIOUS
<1>1. None \in Contents /\ Restorable(None)
  BY DEF None, Contents, Restorable
<1>2. BackupTypeOK
  <2>1. archive \in [Archives -> Contents] /\ staging \in Contents
    BY <1>1 DEF BackupInit
  <2>2. step \in 0..Len(Order) + 1 /\ crashes \in 0..MaxCrashes
    BY ArchivesAssumption, StepsOfBackup DEF BackupInit
  <2> QED BY <2>1, <2>2 DEF BackupInit, BackupTypeOK
<1>3. ArchivesRestore
  BY <1>1 DEF BackupInit, ArchivesRestore
<1>4. RowsHaveFiles /\ DumpIsCopied /\ TargetRemains
  BY DEF BackupInit, RowsHaveFiles, DumpIsCopied, TargetRemains, ABackupRemains
<1> QED BY <1>2, <1>3, <1>4 DEF BackupInv

LEMMA NextBackupType == BackupInv /\ [BackupNext]_backupVars => BackupTypeOK'
<1> SUFFICES ASSUME BackupInv, [BackupNext]_backupVars PROVE BackupTypeOK'
  OBVIOUS
<1> USE ArchivesAssumption, StepsOfBackup
    DEF BackupInv, BackupTypeOK, platform, payload
<1>1. ASSUME NEW x \in Releases,
             UploadRelease(x) \/ RecordRelease(x) \/ UnlinkRelease(x) \/ ForgetRelease(x)
      PROVE  BackupTypeOK'
  BY <1>1 DEF UploadRelease, RecordRelease, UnlinkRelease, ForgetRelease
<1>2. ASSUME NEW a \in Archives, StartBackup(a) \/ RestoreToStaging(a) PROVE BackupTypeOK'
  BY <1>2 DEF StartBackup, RestoreToStaging
<1>3. CASE DumpRows \/ EndDump \/ BeginWalk \/ EndWalk
  BY <1>3 DEF DumpRows, EndDump, BeginWalk, EndWalk
<1>4. ASSUME NEW x \in Releases, DumpMeanwhile(x) \/ CopyFiles(x) PROVE BackupTypeOK'
  BY <1>4 DEF DumpMeanwhile, CopyFiles
<1>5. CASE BeginWrite \/ EndWrite
  BY <1>5 DEF BeginWrite, EndWrite, Partial, Contents
<1>6. CASE ApplyRetention
  BY <1>6 DEF ApplyRetention, None, Contents
<1>7. CASE ReturnBackup
  BY <1>7 DEF ReturnBackup, Clean
<1>8. CASE BackupDies
  BY <1>8 DEF BackupDies, Clean
<1>9. CASE RetentionPasses
  BY <1>9 DEF RetentionPasses
<1>10. CASE UNCHANGED backupVars
  BY <1>10 DEF backupVars
<1> QED
  BY <1>1, <1>2, <1>3, <1>4, <1>5, <1>6, <1>7, <1>8, <1>9, <1>10
  DEF BackupNext, Backup, Rest

LEMMA NextRows == BackupInv /\ [BackupNext]_backupVars => RowsHaveFiles'
BY DEF BackupInv, RowsHaveFiles, BackupNext, Backup, Rest, UploadRelease, RecordRelease,
       UnlinkRelease, ForgetRelease, StartBackup, RestoreToStaging, DumpRows,
       DumpMeanwhile, EndDump, BeginWalk, EndWalk, CopyFiles, BeginWrite, EndWrite, ApplyRetention, ReturnBackup, BackupDies,
       RetentionPasses, Clean, backupVars, platform

LEMMA NextDump == BackupInv /\ [BackupNext]_backupVars => DumpIsCopied'
<1> SUFFICES ASSUME BackupInv, [BackupNext]_backupVars PROVE DumpIsCopied'
  OBVIOUS
<1> USE StepsOfBackup
    DEF BackupInv, BackupTypeOK, RowsHaveFiles, DumpIsCopied, platform, payload
<1>1. ASSUME NEW x \in Releases,
             UploadRelease(x) \/ RecordRelease(x) \/ UnlinkRelease(x) \/ ForgetRelease(x)
      PROVE  DumpIsCopied'
  BY <1>1 DEF UploadRelease, RecordRelease, UnlinkRelease, ForgetRelease
<1>2. ASSUME NEW a \in Archives, StartBackup(a) \/ RestoreToStaging(a) PROVE DumpIsCopied'
  BY <1>2 DEF StartBackup, RestoreToStaging
<1>3. CASE DumpRows \/ EndDump
  BY <1>3 DEF DumpRows, EndDump
<1>4. CASE BeginWalk
  BY <1>4 DEF BeginWalk
<1>5. CASE EndWalk
  BY <1>5 DEF EndWalk
<1>6. ASSUME NEW x \in Releases, DumpMeanwhile(x) \/ CopyFiles(x) PROVE DumpIsCopied'
  BY <1>6 DEF DumpMeanwhile, CopyFiles
<1>7. CASE BeginWrite \/ EndWrite \/ ApplyRetention
  BY <1>7 DEF BeginWrite, EndWrite, ApplyRetention
<1>8. CASE ReturnBackup \/ BackupDies \/ RetentionPasses
  BY <1>8 DEF ReturnBackup, BackupDies, RetentionPasses, Clean
<1>9. CASE UNCHANGED backupVars
  BY <1>9 DEF backupVars
<1> QED
  BY <1>1, <1>2, <1>3, <1>4, <1>5, <1>6, <1>7, <1>8, <1>9 DEF BackupNext, Backup, Rest

LEMMA NextArchives == BackupInv /\ [BackupNext]_backupVars => ArchivesRestore'
<1> SUFFICES ASSUME BackupInv, [BackupNext]_backupVars PROVE ArchivesRestore'
  OBVIOUS
<1>1. Restorable(None) /\ Restorable(Partial)
  BY DEF Restorable, None, Partial
<1> USE StepsOfBackup DEF BackupInv, BackupTypeOK, ArchivesRestore, Restorable
<1>2. CASE UNCHANGED <<archive, staging>>
  BY <1>2
<1>3. ASSUME NEW a \in Archives, RestoreToStaging(a) PROVE ArchivesRestore'
  BY <1>3 DEF RestoreToStaging
<1>4. CASE BeginWrite
  BY <1>4, <1>1 DEF BeginWrite, Partial
<1>5. CASE EndWrite
  <2>1. dump \subseteq copied \cup unlinked
    BY <1>5 DEF EndWrite, DumpIsCopied
  <2> QED BY <1>5, <2>1 DEF EndWrite
<1>6. CASE ApplyRetention
  BY <1>6, <1>1 DEF ApplyRetention, None
<1> QED
  BY <1>2, <1>3, <1>4, <1>5, <1>6
  DEF BackupNext, Backup, Rest, UploadRelease, RecordRelease, UnlinkRelease, ForgetRelease,
      StartBackup, DumpRows, DumpMeanwhile, EndDump, BeginWalk, EndWalk, CopyFiles,
      ReturnBackup, BackupDies, RetentionPasses, backupVars

LEMMA NextTarget == BackupInv /\ [BackupNext]_backupVars => TargetRemains'
<1> SUFFICES ASSUME BackupInv, [BackupNext]_backupVars PROVE TargetRemains'
  OBVIOUS
<1> USE StepsOfBackup DEF BackupInv, BackupTypeOK, TargetRemains, ABackupRemains
<1>1. CASE UNCHANGED <<step, target, archive, old, taken>>
  BY <1>1
<1>2. ASSUME NEW a \in Archives, StartBackup(a) PROVE TargetRemains'
  BY <1>2 DEF StartBackup
<1>3. CASE DumpRows \/ EndDump \/ EndWalk
  BY <1>3 DEF DumpRows, EndDump, EndWalk
<1>4. CASE BeginWrite
  BY <1>4 DEF BeginWrite
<1>5. CASE EndWrite
  BY <1>5 DEF EndWrite
<1>6. CASE ApplyRetention
  BY <1>6 DEF ApplyRetention
<1>7. CASE ReturnBackup
  BY <1>7 DEF ReturnBackup, Clean
<1>8. CASE BackupDies \/ RetentionPasses
  BY <1>8 DEF BackupDies, RetentionPasses, Clean
<1> QED
  BY <1>1, <1>2, <1>3, <1>4, <1>5, <1>6, <1>7, <1>8
  DEF BackupNext, Backup, Rest, UploadRelease, RecordRelease, UnlinkRelease, ForgetRelease,
      DumpMeanwhile, BeginWalk, CopyFiles, RestoreToStaging, backupVars, platform

LEMMA BackupAlways == BackupSpec => []BackupInv
<1>1. BackupInv /\ [BackupNext]_backupVars => BackupInv'
  BY NextBackupType, NextRows, NextDump, NextArchives, NextTarget DEF BackupInv
<1> QED BY InitBackup, <1>1, PTL DEF BackupSpec

\* What is restored has the files of every release its database knows, for any releases,
\* archives and crashes: the rows are dumped before the files are copied
\* (backups.py:61-63).
THEOREM RestoreServes == BackupSpec => []RestoredServes
<1>1. BackupInv => RestoredServes
  BY DEF BackupInv, ArchivesRestore, Restorable, RestoredServes
<1> QED BY <1>1, BackupAlways, PTL

\* Once a backup was taken there is always a complete one, whatever dies and however
\* retention runs (backups.py:75-78).
THEOREM BackupStays == BackupSpec => []ABackupRemains
<1>1. BackupInv => ABackupRemains
  BY DEF BackupInv, TargetRemains
<1> QED BY <1>1, BackupAlways, PTL

-----------------------------------------------------------------------------
(* The four beside each other.  Each moves as it does alone.               *)

LEMMA StepsOfParts ==
    [PartsNext]_<<focus, vars, tenancyVars, accountVars, backupVars>> =>
       /\ [Next]_vars /\ [TenancyNext]_tenancyVars
       /\ [AccountNext]_accountVars /\ [BackupNext]_backupVars
BY DEF PartsNext

\* What MCOrganizations checks is members, projects, accounts and backups, so what is
\* proved of each holds there.
THEOREM OrganizationsAreTheParts ==
    PartsSpec => Spec /\ TenancySpec /\ AccountSpec /\ BackupSpec
<1>1. PartsInit => Init /\ TenancyInit /\ AccountInit /\ BackupInit
  BY DEF PartsInit
<1> QED BY <1>1, StepsOfParts, PTL DEF PartsSpec, Spec, TenancySpec, AccountSpec, BackupSpec

\* The variables of the four keep their types, on a database that runs one transaction
\* at a time.
THEOREM OrganizationsTyped == ASSUME Setting PROVE PartsSpec => []TypesOK
<1>1. TenancySpec => []TenancyTypeOK
  <2>1. TenancyTypeOK /\ BlockStopsDeploys => TenancyTypeOK
    OBVIOUS
  <2> QED BY <2>1, BlockHolds, PTL
<1>2. AccountSpec => []AccountTypeOK
  <2>1. AccountInit => AccountTypeOK
    BY InitAccount DEF AccountInv
  <2> QED BY <2>1, NextAccountType, PTL DEF AccountSpec
<1>3. BackupSpec => []BackupTypeOK
  <2>1. BackupInv => BackupTypeOK
    BY DEF BackupInv
  <2> QED BY <2>1, BackupAlways, PTL
<1>4. TypeOK /\ TenancyTypeOK /\ AccountTypeOK /\ BackupTypeOK => TypesOK
  BY DEF TypesOK
<1> QED BY <1>1, <1>2, <1>3, <1>4, OrganizationsAreTheParts, MembershipType, PTL
=============================================================================
