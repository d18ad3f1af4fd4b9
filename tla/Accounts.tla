------------------------------ MODULE Accounts ------------------------------
(***************************************************************************)
(* One user's account: the handlers of auth_views.py over auth_utils.py,   *)
(* and its erasure in data_protection.py.  No handler of auth_views.py     *)
(* runs in a transaction: each step is what it does up to its next write.  *)
(* Django's part (external) is that a session carries the hash of the      *)
(* password of the object that was signed in, and counts only while that   *)
(* hash is the user's and the user is active.                              *)
(***************************************************************************)
EXTENDS Naturals, FiniteSets

CONSTANTS
    Browsers,     \* clients, each with one request and one session at a time
    Tokens,       \* password reset tokens that may be mailed
    MaxPasswords, \* bound on passwords the user ever has
    MaxDevices,   \* rows a two-factor device may have, the next one after a deleted one
    Codes         \* rows of recovery codes at a time

ASSUME AccountsAssumption ==
    MaxPasswords \in Nat \ {0} /\ MaxDevices \in Nat /\ "none" \notin Codes

VARIABLES
    password,     \* number of the user's password; 0 when it was made unusable
    active,       \* User.is_active
    manager,      \* some organization has the user as an active owner or admin
    device,       \* TwoFactorDevice: its number, 0 without a row
    enabled,      \* TwoFactorDevice.enabled_at is set
    mfa,          \* User.mfa_enabled
    code,         \* TwoFactorRecoveryCode: those made together are one row
    token,        \* AuthToken of the purpose password_reset
    session,      \* each browser's session
    progress,     \* where each browser's request is
    copy,         \* what it has read and still needs
    chosen,       \* passwords made so far
    userErasure   \* DataDeletionRequest.status of the user

user     == <<password, active, manager, mfa>>
factors  == <<device, enabled, code>>
requests == <<progress, copy>>
accountVars == <<user, factors, token, session, requests, chosen, userErasure>>

Passwords == 1..MaxPasswords
NoSession == [hash |-> 0, typed |-> 0]
NoCopy    == [hash |-> 0, device |-> 0, code |-> "none", token |-> "none"]
NoCodes   == [c \in Codes |-> "none"]

\* Where a request waits between two statements.
Steps == {"idle", "authenticated", "code_read", "factor_ok", "signing_in",
          "changing", "token_read", "token_used", "saved", "enabling", "enabled",
          "coding", "disabling", "disabled"}

SessionRecords == [hash : 0..MaxPasswords, typed : 0..MaxPasswords]

CopyRecords == [hash : 0..MaxPasswords, device : 0..MaxDevices,
                code : Codes \cup {"none"}, token : Tokens \cup {"none"}]

AccountTypeOK ==
    /\ password \in 0..MaxPasswords /\ chosen \in Passwords
    /\ active \in BOOLEAN /\ manager \in BOOLEAN /\ mfa \in BOOLEAN
    /\ device \in 0..MaxDevices /\ enabled \in BOOLEAN
    /\ code \in [Codes -> {"none", "unused", "used"}]
    /\ token \in [Tokens -> {"none", "issued", "used", "expired"}]
    /\ session \in [Browsers -> SessionRecords]
    /\ progress \in [Browsers -> Steps]
    /\ copy \in [Browsers -> CopyRecords]
    /\ userErasure \in {"none", "soft_deleted", "hard_deleted"}

AccountInit ==
    /\ password = 1 /\ chosen = 1
    /\ active = TRUE /\ manager = FALSE /\ mfa = FALSE
    /\ device = 0 /\ enabled = FALSE /\ code = NoCodes
    /\ token = [t \in Tokens |-> "none"]
    /\ session = [b \in Browsers |-> NoSession]
    /\ progress = [b \in Browsers |-> "idle"]
    /\ copy = [b \in Browsers |-> NoCopy]
    /\ userErasure = "none"

-----------------------------------------------------------------------------

\* django.contrib.auth.get_user (external)
SignedIn(b) == active /\ session[b].hash # 0 /\ session[b].hash = password

Go(b, step) == progress' = [progress EXCEPT ![b] = step]

EndRequest(b) ==
    /\ Go(b, "idle")
    /\ copy' = [copy EXCEPT ![b] = NoCopy]

\* An answer that changes nothing else.
Fail(b) ==
    /\ EndRequest(b)
    /\ UNCHANGED <<user, factors, token, session, chosen, userErasure>>

-----------------------------------------------------------------------------
(* Signing in.                                                             *)

\* authenticate() with the password as it is now.
Authenticate(b) ==
    /\ progress[b] = "idle" /\ active /\ password # 0
    /\ Go(b, "authenticated")
    /\ copy' = [copy EXCEPT ![b].hash = password]
    /\ UNCHANGED <<user, factors, token, session, chosen, userErasure>>

\* user_requires_2fa
Required == manager

PassWithoutFactor(b) ==
    /\ progress[b] = "authenticated" /\ ~Required
    /\ Go(b, "signing_in")
    /\ UNCHANGED <<user, factors, token, session, copy, chosen, userErasure>>

\* Refused without an enabled device; else a code of the device or a recovery code.
AskFactor(b) ==
    /\ progress[b] = "authenticated" /\ Required
    /\ IF ~enabled THEN Fail(b)
       ELSE \/ Fail(b)
            \/ /\ Go(b, "factor_ok")
               /\ copy' = [copy EXCEPT ![b].device = device]
               /\ UNCHANGED <<user, factors, token, session, chosen, userErasure>>
            \/ \E c \in Codes :
                  /\ code[c] = "unused"
                  /\ Go(b, "code_read")
                  /\ copy' = [copy EXCEPT ![b].device = device, ![b].code = c]
                  /\ UNCHANGED <<user, factors, token, session, chosen, userErasure>>

\* mark_used of the row it has read, whatever that says now: a row that was deleted
\* meanwhile, with its device or for new codes, cannot be updated.
MarkCode(b) ==
    /\ progress[b] = "code_read"
    /\ IF code[copy[b].code] = "none" THEN Fail(b)
       ELSE /\ code' = [code EXCEPT ![copy[b].code] = "used"]
            /\ Go(b, "factor_ok")
            /\ copy' = [copy EXCEPT ![b].code = "none"]
            /\ UNCHANGED <<user, device, enabled, token, session, chosen, userErasure>>

\* last_used_at is saved, if the device is still there.
TouchDevice(b) ==
    /\ progress[b] = "factor_ok"
    /\ IF copy[b].device # device THEN Fail(b)
       ELSE /\ Go(b, "signing_in")
            /\ copy' = [copy EXCEPT ![b].device = 0]
            /\ UNCHANGED <<user, factors, token, session, chosen, userErasure>>

\* Slip: the user is read again for login().
OpenFresh(b) ==
    /\ progress[b] = "signing_in"
    /\ session' = [session EXCEPT ![b] = [hash |-> password, typed |-> copy[b].hash]]
    /\ EndRequest(b)
    /\ UNCHANGED <<user, factors, token, chosen, userErasure>>

\* login() of the object that was authenticated.
OpenSession(b) ==
    /\ progress[b] = "signing_in"
    /\ session' = [session EXCEPT ![b] = [hash |-> copy[b].hash, typed |-> copy[b].hash]]
    /\ EndRequest(b)
    /\ UNCHANGED <<user, factors, token, chosen, userErasure>>

Logout(b) ==
    /\ progress[b] = "idle" /\ session[b] # NoSession
    /\ session' = [session EXCEPT ![b] = NoSession]
    /\ UNCHANGED <<user, factors, token, requests, chosen, userErasure>>

-----------------------------------------------------------------------------
(* Passwords.                                                              *)

\* PasswordChangeView up to set_password: the current password was right.
BeginChange(b) ==
    /\ progress[b] = "idle" /\ SignedIn(b)
    /\ Go(b, "changing")
    /\ UNCHANGED <<user, factors, token, session, copy, chosen, userErasure>>

\* create_password_reset_token; older tokens stay good.
MailToken(t) ==
    /\ active /\ token[t] = "none"
    /\ token' = [token EXCEPT ![t] = "issued"]
    /\ UNCHANGED <<user, factors, session, requests, chosen, userErasure>>

TokenExpires(t) ==
    /\ token[t] = "issued"
    /\ token' = [token EXCEPT ![t] = "expired"]
    /\ UNCHANGED <<user, factors, session, requests, chosen, userErasure>>

\* consume_auth_token finds the token unused, and marks it in a second statement.
ReadToken(b, t) ==
    /\ progress[b] = "idle" /\ token[t] = "issued"
    /\ Go(b, "token_read")
    /\ copy' = [copy EXCEPT ![b].token = t]
    /\ UNCHANGED <<user, factors, token, session, chosen, userErasure>>

\* Without a password in the request the token is used up for nothing.
UseToken(b) ==
    /\ progress[b] = "token_read"
    /\ token' = [token EXCEPT ![copy[b].token] = "used"]
    /\ EndRequest(b) \/ (Go(b, "token_used") /\ UNCHANGED copy)
    /\ UNCHANGED <<user, factors, session, chosen, userErasure>>

\* set_password and save, of a change or of a reset.
SavePassword(b) ==
    /\ progress[b] \in {"changing", "token_used"} /\ chosen < MaxPasswords
    /\ chosen' = chosen + 1
    /\ password' = chosen + 1
    /\ Go(b, "saved")
    /\ copy' = [copy EXCEPT ![b].hash = chosen + 1]
    /\ UNCHANGED <<active, manager, mfa, factors, token, session, userErasure>>

\* Bound: no more passwords.
PasswordsEnd(b) ==
    /\ progress[b] \in {"changing", "token_used"} /\ chosen = MaxPasswords
    /\ Fail(b)

\* invalidate_user_sessions of the hash this request saved; a change ends with logout,
\* a reset has no session of its own.
DropSessions(b) ==
    /\ progress[b] = "saved"
    /\ session' = [c \in Browsers |->
                     IF session[c].hash # copy[b].hash \/ (c = b /\ copy[b].token = "none")
                     THEN NoSession ELSE session[c]]
    /\ EndRequest(b)
    /\ UNCHANGED <<user, factors, token, chosen, userErasure>>

-----------------------------------------------------------------------------
(* The second factor.                                                      *)

\* get_or_create: a new row, which no request has loaded.
SetUpDevice(b) ==
    /\ progress[b] = "idle" /\ SignedIn(b)
    /\ device = 0
    /\ device' \in (1..MaxDevices) \ {copy[c].device : c \in Browsers}
    /\ enabled' = FALSE /\ code' = NoCodes
    /\ UNCHANGED <<user, token, session, requests, chosen, userErasure>>

\* TwoFactorEnableView and TwoFactorDisableView load the device ...
BeginEnable(b) ==
    /\ progress[b] = "idle" /\ SignedIn(b) /\ device # 0
    /\ Go(b, "enabling")
    /\ copy' = [copy EXCEPT ![b].device = device]
    /\ UNCHANGED <<user, factors, token, session, chosen, userErasure>>

BeginDisable(b) ==
    /\ progress[b] = "idle" /\ SignedIn(b) /\ device # 0
    /\ Go(b, "disabling")
    /\ copy' = [copy EXCEPT ![b].device = device]
    /\ UNCHANGED <<user, factors, token, session, chosen, userErasure>>

\* ... save it or delete it with its codes ...
EnableDevice(b) ==
    /\ progress[b] = "enabling"
    /\ IF copy[b].device # device THEN Fail(b)
       ELSE /\ enabled' = TRUE
            /\ Go(b, "enabled")
            /\ UNCHANGED <<user, device, code, token, session, copy, chosen, userErasure>>

DeleteDevice(b) ==
    /\ progress[b] = "disabling"
    /\ IF copy[b].device = device
       THEN device' = 0 /\ enabled' = FALSE /\ code' = NoCodes
       ELSE UNCHANGED factors
    /\ Go(b, "disabled")
    /\ copy' = [copy EXCEPT ![b].device = 0]
    /\ UNCHANGED <<user, token, session, chosen, userErasure>>

\* ... and then the user.
SaveMfa(b) ==
    /\ progress[b] \in {"enabled", "disabled"}
    /\ mfa' = (progress[b] = "enabled")
    /\ IF progress[b] = "enabled" THEN Go(b, "coding") /\ UNCHANGED copy
       ELSE EndRequest(b)
    /\ UNCHANGED <<password, active, manager, factors, token, session, chosen, userErasure>>

\* Rows of codes that no request has read.
Unread == Codes \ {copy[b].code : b \in Browsers}

\* generate_recovery_codes, unless the device was deleted meanwhile: the unused codes
\* are deleted and new ones made.  Used ones stay, for those who have read them.
MakeCodes(b) ==
    /\ progress[b] = "coding"
    /\ IF copy[b].device # device THEN Fail(b)
       ELSE /\ Unread # {}
            /\ code' = [c \in Codes |->
                          IF c = CHOOSE new \in Unread : TRUE THEN "unused"
                          ELSE IF code[c] = "used" /\ c \notin Unread THEN "used" ELSE "none"]
            /\ EndRequest(b)
            /\ UNCHANGED <<user, device, enabled, token, session, chosen, userErasure>>

-----------------------------------------------------------------------------
(* Others.                                                                 *)

\* The user becomes an owner or admin of an organization, or no longer is one.
ManagerChanges ==
    /\ manager' = ~manager
    /\ UNCHANGED <<password, active, mfa, factors, token, session, requests, chosen,
                   userErasure>>

\* request_user_deletion: the sessions it deletes are those whose encoded data contains
\* the digits of the user's key, which says nothing of whose they are.
EraseUser(b) ==
    /\ progress[b] = "idle" /\ SignedIn(b)
    /\ active' = FALSE
    /\ userErasure' = "soft_deleted"
    /\ \E hit \in SUBSET Browsers :
          session' = [c \in Browsers |-> IF c \in hit \cup {b} THEN NoSession ELSE session[c]]
    /\ UNCHANGED <<password, manager, mfa, factors, token, requests, chosen>>

\* finalize_expired_deletions, when every token has long expired.
AnonymizeUser ==
    /\ userErasure = "soft_deleted"
    /\ \A b \in Browsers : progress[b] = "idle"
    /\ \A t \in Tokens : token[t] # "issued"
    /\ password' = 0
    /\ userErasure' = "hard_deleted"
    /\ UNCHANGED <<active, manager, mfa, factors, token, session, requests, chosen>>

SignIn(b) ==
    \/ Authenticate(b) \/ PassWithoutFactor(b) \/ AskFactor(b) \/ MarkCode(b)
    \/ TouchDevice(b) \/ OpenSession(b) \/ Logout(b)

Credentials(b) ==
    \/ BeginChange(b) \/ UseToken(b) \/ SavePassword(b) \/ PasswordsEnd(b) \/ DropSessions(b)
    \/ SetUpDevice(b) \/ BeginEnable(b) \/ BeginDisable(b) \/ EnableDevice(b)
    \/ DeleteDevice(b) \/ SaveMfa(b) \/ MakeCodes(b)

AccountNext ==
    \/ \E b \in Browsers : SignIn(b) \/ Credentials(b) \/ EraseUser(b)
    \/ \E t \in Tokens : MailToken(t) \/ TokenExpires(t)
    \/ \E b \in Browsers, t \in Tokens : ReadToken(b, t)
    \/ ManagerChanges \/ AnonymizeUser

AccountSpec == AccountInit /\ [][AccountNext]_accountVars

-----------------------------------------------------------------------------
(* Properties.                                                             *)

\* Once a new password is saved no session counts that was opened with an older one,
\* also by a sign-in that had passed the check before and opens it later
\* (auth_utils.py:223-248, auth_views.py:128, 148).
OldPasswordsAreOut == \A b \in Browsers : SignedIn(b) => session[b].typed = password

\* What authentication.md says of a reset token: it serves one request.  The code finds
\* it unused and marks it in a second statement, without a lock (auth_utils.py:199-205),
\* so two requests may both go on to set a password of their own.
ResetTokenServesOnce ==
    \A b, c \in Browsers :
       progress[b] = "token_used" /\ progress[c] = "token_used" /\ copy[b].token = copy[c].token
       => b = c

=============================================================================
