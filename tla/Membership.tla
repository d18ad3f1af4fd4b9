----------------------------- MODULE Membership -----------------------------
(***************************************************************************)
(* The members of one organization: organization_views.py, with the roles  *)
(* of rbac.py and the organization's two ways to end.  A request runs in   *)
(* one transaction, but reads before it writes and locks nothing it reads: *)
(* under READ COMMITTED requests interleave between their statements.      *)
(***************************************************************************)
EXTENDS Naturals, FiniteSets

CONSTANTS
    Users,        \* everybody who may be a member
    Founder,      \* who created the organization
    Requests,     \* requests in flight at the same time
    NoJob,        \* "no job"
    Serialized    \* TRUE: one transaction at a time (SQLite)

\* "developer" stands for every role that may not manage members.
Roles == {"owner", "admin", "developer"}
Jobs  == [op : {"add", "change", "remove", "delete", "erase"},
          member : Users, role : Roles]

ASSUME MembersAssumption == Founder \in Users /\ IsFiniteSet(Users)
ASSUME JobAssumption == NoJob \notin Jobs
ASSUME SerializedAssumption == Serialized \in BOOLEAN

VARIABLES
    organization, \* its status
    role,         \* role of each member's row
    membership,   \* status of each member's row, "none" without a row
    pc,           \* where each request is in its handler
    job           \* what each request was sent to do

vars == <<organization, role, membership, pc, job>>

Owners == {u \in Users : membership[u] = "active" /\ role[u] = "owner"}

TypeOK ==
    /\ organization \in {"active", "deleted", "pending_deletion"}
    /\ role \in [Users -> Roles \cup {"none"}]
    /\ membership \in [Users -> {"none", "active", "removed", "disabled"}]
    /\ pc \in [Requests -> {"idle", "authorized", "counting", "saving"}]
    /\ job \in [Requests -> Jobs \cup {NoJob}]
    /\ \A r \in Requests : pc[r] = "idle" <=> job[r] = NoJob
    /\ \A u \in Users : membership[u] = "none" <=> role[u] = "none"

Init ==
    /\ organization = "active"
    /\ role = [u \in Users |-> IF u = Founder THEN "owner" ELSE "none"]
    /\ membership = [u \in Users |-> IF u = Founder THEN "active" ELSE "none"]
    /\ pc = [r \in Requests |-> "idle"]
    /\ job = [r \in Requests |-> NoJob]

-----------------------------------------------------------------------------

MayOpen(r) == Serialized => \A q \in Requests \ {r} : pc[q] = "idle"

\* Member changes need MEMBER_MANAGE, the end of the organization its owner.
Permits(myRole, op) ==
    IF op \in {"delete", "erase"} THEN myRole = "owner" ELSE myRole \in {"owner", "admin"}

End(r) ==
    /\ pc' = [pc EXCEPT ![r] = "idle"]
    /\ job' = [job EXCEPT ![r] = NoJob]

\* The organization is visible to its active members until it ends, and the
\* role of the one who asks permits the job.
Authorize(r, actor, j) ==
    /\ pc[r] = "idle"
    /\ MayOpen(r)
    /\ organization = "active"
    /\ membership[actor] = "active"
    /\ Permits(role[actor], j.op)
    /\ pc' = [pc EXCEPT ![r] = "authorized"]
    /\ job' = [job EXCEPT ![r] = j]
    /\ UNCHANGED <<organization, role, membership>>

\* POST: a new row, unless there is one.
AddMember(r) ==
    LET u == job[r].member IN
    /\ pc[r] = "authorized" /\ job[r].op = "add"
    /\ membership[u] = "none"
    /\ role' = [role EXCEPT ![u] = job[r].role]
    /\ membership' = [membership EXCEPT ![u] = "active"]
    /\ End(r)
    /\ UNCHANGED organization

\* POST: of the rows there are, only a removed one is taken up again.
LoadRemoved(r) ==
    LET u == job[r].member IN
    /\ pc[r] = "authorized" /\ job[r].op = "add"
    /\ membership[u] # "none"
    /\ IF membership[u] = "removed"
       THEN pc' = [pc EXCEPT ![r] = "saving"] /\ UNCHANGED job
       ELSE End(r)
    /\ UNCHANGED <<organization, role, membership>>

Reactivate(r) ==
    LET u == job[r].member IN
    /\ pc[r] = "saving" /\ job[r].op = "add"
    /\ role' = [role EXCEPT ![u] = job[r].role]
    /\ membership' = [membership EXCEPT ![u] = "active"]
    /\ End(r)
    /\ UNCHANGED organization

\* Whether a change of a member with this role makes the handler count owners.
TouchesOwner(loaded, j) ==
    loaded = "owner" /\ (j.op = "change" => j.role # "owner")

\* Slip: the member is not looked up before it is changed.
LoadAnyMember(r) ==
    /\ pc[r] = "authorized" /\ job[r].op \in {"change", "remove"}
    /\ pc' = [pc EXCEPT ![r] = "saving"]
    /\ UNCHANGED <<organization, role, membership, job>>

\* PATCH and DELETE: the member, whatever its status, with its role.
LoadMember(r) ==
    LET u == job[r].member IN
    /\ pc[r] = "authorized" /\ job[r].op \in {"change", "remove"}
    /\ IF membership[u] = "none" THEN End(r)
       ELSE /\ pc' = [pc EXCEPT ![r] =
                         IF TouchesOwner(role[u], job[r]) THEN "counting" ELSE "saving"]
            /\ UNCHANGED job
    /\ UNCHANGED <<organization, role, membership>>

\* Slip: the last owner is counted as one too many.
CountToZero(r) ==
    /\ pc[r] = "counting"
    /\ IF Cardinality(Owners) <= 0 THEN End(r)
       ELSE pc' = [pc EXCEPT ![r] = "saving"] /\ UNCHANGED job
    /\ UNCHANGED <<organization, role, membership>>

\* active_owner_count: the last owner is neither removed nor downgraded.
CountOwners(r) ==
    /\ pc[r] = "counting"
    /\ IF Cardinality(Owners) <= 1 THEN End(r)
       ELSE pc' = [pc EXCEPT ![r] = "saving"] /\ UNCHANGED job
    /\ UNCHANGED <<organization, role, membership>>

\* save(update_fields=["role"])
ChangeRole(r) ==
    /\ pc[r] = "saving" /\ job[r].op = "change"
    /\ role' = [role EXCEPT ![job[r].member] = job[r].role]
    /\ End(r)
    /\ UNCHANGED <<organization, membership>>

\* save(update_fields=["status"])
RemoveMember(r) ==
    /\ pc[r] = "saving" /\ job[r].op = "remove"
    /\ membership' = [membership EXCEPT ![job[r].member] = "removed"]
    /\ End(r)
    /\ UNCHANGED <<organization, role>>

\* DELETE of the organization: its members keep their rows.
DeleteOrganization(r) ==
    /\ pc[r] = "authorized" /\ job[r].op = "delete"
    /\ organization' = "deleted"
    /\ End(r)
    /\ UNCHANGED <<role, membership>>

\* Slip: the members are left out of the deletion request.
EraseOnly(r) ==
    /\ pc[r] = "authorized" /\ job[r].op = "erase"
    /\ organization' = "pending_deletion"
    /\ End(r)
    /\ UNCHANGED <<role, membership>>

\* request_organization_deletion: every member not removed is disabled.
EraseOrganization(r) ==
    /\ pc[r] = "authorized" /\ job[r].op = "erase"
    /\ organization' = "pending_deletion"
    /\ membership' = [u \in Users |-> IF membership[u] \in {"none", "removed"}
                                      THEN membership[u] ELSE "disabled"]
    /\ End(r)
    /\ UNCHANGED role

Handle(r) ==
    \/ AddMember(r) \/ LoadRemoved(r) \/ Reactivate(r)
    \/ LoadMember(r) \/ CountOwners(r) \/ ChangeRole(r) \/ RemoveMember(r)
    \/ DeleteOrganization(r) \/ EraseOrganization(r)

\* Nobody can ask anything of an organization that has ended.
Ended ==
    /\ organization # "active"
    /\ \A r \in Requests : pc[r] = "idle"
    /\ UNCHANGED vars

Next ==
    \/ \E r \in Requests :
          \/ Handle(r)
          \/ \E actor \in Users, j \in Jobs : Authorize(r, actor, j)
    \/ Ended

Spec == Init /\ [][Next]_vars

-----------------------------------------------------------------------------
(* Properties.                                                             *)

\* An organization that has not ended has an active owner, after any sequence of
\* additions, removals and role changes by owners and admins, also of members
\* who were removed before.
OwnerRemains == organization = "active" => Owners # {}

\* With one transaction at a time, nobody is an active member of an organization
\* whose deletion was requested: no handler authorized before brings one back.
DeletedStaysClosed ==
    organization = "pending_deletion" => \A u \in Users : membership[u] # "active"

=============================================================================
