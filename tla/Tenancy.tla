------------------------------- MODULE Tenancy -------------------------------
(***************************************************************************)
(* The projects of one organization between its members, the operators who *)
(* flag and block (abuse.py), the deploy endpoints that ask whether they   *)
(* may, and the erasure of the organization (data_protection.py).  Project *)
(* handlers run in a transaction; operators, deploys and the view of the   *)
(* erasure load what they need before they write, outside of any.          *)
(***************************************************************************)
EXTENDS Naturals, FiniteSets

CONSTANTS
    Projects,     \* projects that may be created
    Threads,      \* of the web server, each with one request at a time
    Limit,        \* projects the plan allows
    MaxFailures,  \* bound on sweeps that fail half-way
    Backend,      \* STATIC_DEPLOYMENT_STORAGE_BACKEND: "local" or "s3"
    SingleWriter  \* TRUE: one transaction at a time (SQLite)

VARIABLES
    orgStatus,    \* Organization.status, "erased" without a row
    orgHidden,    \* Organization.deleted_at is set
    orgAbuse,     \* Organization.abuse_status
    status,       \* Project.status, "none" without a row
    hidden,       \* projects whose deleted_at is set
    abuse,        \* Project.abuse_status
    ruling,       \* what operators said last of each project
    orgRuling,    \* what operators said last of the organization
    files,        \* projects with release files under the organization's prefix
    deletion,     \* DataDeletionRequest.status of the row each request made
    sweep,        \* where finalize_expired_deletions is
    stage,        \* where each thread is in its handler
    task,         \* what it was sent to do
    loaded,       \* a deploy's copy of the project, and the ruling at that time
    failures      \* sweeps that failed

tenant       == <<orgStatus, orgHidden, orgAbuse, orgRuling>>
projects     == <<status, hidden, abuse, ruling>>
erasure      == <<deletion, sweep, files, failures>>
handlers     == <<stage, task, loaded>>
tenancyVars  == <<tenant, projects, erasure, handlers>>

\* Handlers in a transaction from their first read on.
Transactions == {"create", "archive", "delete", "restore"}
Operators    == {"flag", "block", "unblock"}
OnProject    == Transactions \cup Operators \cup {"deploy"}
OnOrg        == {"block_org", "unblock_org", "erase", "close"}
Tasks        == [op : OnProject, project : Projects] \cup [op : OnOrg]
NoTask       == [op |-> "none"]
Nothing      == [status |-> "none", abuse |-> "clear", ruling |-> "clear"]

ProjectStatuses == {"none", "active", "suspended", "pending_deletion", "deleted"}
AbuseStatuses   == {"clear", "flagged", "blocked"}

TenancyTypeOK ==
    /\ orgStatus \in {"active", "suspended", "pending_deletion", "deleted", "erased"}
    /\ orgHidden \in BOOLEAN
    /\ orgAbuse \in {"clear", "blocked"} /\ orgRuling \in {"clear", "blocked"}
    /\ status \in [Projects -> ProjectStatuses]
    /\ hidden \subseteq Projects /\ files \subseteq Projects
    /\ abuse \in [Projects -> AbuseStatuses] /\ ruling \in [Projects -> AbuseStatuses]
    /\ deletion \in [Threads -> {"none", "soft_deleted", "hard_deleted"}]
    /\ sweep \in {"idle", "unlinked"}
    /\ stage \in [Threads -> {"idle", "loaded", "deploying"}]
    /\ task \in [Threads -> Tasks \cup {NoTask}]
    /\ \A r \in Threads :
          /\ stage[r] = "idle" <=> task[r] = NoTask
          /\ stage[r] = "deploying" => task[r].op = "deploy"
    /\ loaded \in [Threads -> [status : ProjectStatuses, abuse : AbuseStatuses,
                                ruling : AbuseStatuses]]
    /\ failures \in 0..MaxFailures

TenancyInit ==
    /\ orgStatus = "active" /\ orgHidden = FALSE
    /\ orgAbuse = "clear" /\ orgRuling = "clear"
    /\ status = [p \in Projects |-> "none"]
    /\ hidden = {} /\ files = {}
    /\ abuse = [p \in Projects |-> "clear"] /\ ruling = [p \in Projects |-> "clear"]
    /\ deletion = [r \in Threads |-> "none"]
    /\ sweep = "idle"
    /\ stage = [r \in Threads |-> "idle"]
    /\ task = [r \in Threads |-> NoTask]
    /\ loaded = [r \in Threads |-> Nothing]
    /\ failures = 0

-----------------------------------------------------------------------------

InTransaction(r) == stage[r] = "loaded" /\ task[r].op \in Transactions

\* No transaction of somebody else is open, where there is one at a time.
Alone(r) ==
    SingleWriter => sweep = "idle" /\ \A q \in Threads \ {r} : ~InTransaction(q)

Row(p) == status[p] # "none"

\* project_queryset_for_organization
Findable(p) == status[p] \notin {"none", "deleted"} /\ p \notin hidden

\* _active_project_count: archived and blocked projects count.
Live == {p \in Projects : Findable(p)}

\* Slip: the limit may be passed by one.
AlmostBelowLimit == Cardinality(Live) <= Limit

\* can_create_project
BelowLimit == Cardinality(Live) < Limit

\* What the views look up before a handler starts; anything else is answered with
\* an error that changes nothing.
Accepts(j) ==
    \/ j.op = "create" /\ ~orgHidden /\ ~Row(j.project) /\ BelowLimit
    \/ j.op = "restore" /\ ~orgHidden /\ Row(j.project)
    \/ j.op \in {"archive", "delete", "deploy"} /\ ~orgHidden /\ Findable(j.project)
    \/ j.op \in Operators /\ Row(j.project) /\ j.project \notin hidden
    \/ j.op \in OnOrg /\ ~orgHidden

Arrive(r, j) ==
    /\ stage[r] = "idle"
    /\ Accepts(j)
    /\ j.op \in Transactions => Alone(r)
    /\ j.op = "erase" => deletion[r] = "none"
    /\ stage' = [stage EXCEPT ![r] = "loaded"]
    /\ task' = [task EXCEPT ![r] = j]
    /\ loaded' = [loaded EXCEPT ![r] =
                    IF j.op # "deploy" THEN Nothing
                    ELSE [status |-> status[j.project], abuse |-> abuse[j.project],
                          ruling |-> ruling[j.project]]]
    /\ UNCHANGED <<tenant, projects, erasure>>

EndTask(r) ==
    /\ stage' = [stage EXCEPT ![r] = "idle"]
    /\ task' = [task EXCEPT ![r] = NoTask]
    /\ loaded' = [loaded EXCEPT ![r] = Nothing]

\* The handler of this operation comes to its write.
Saves(r, op) == stage[r] = "loaded" /\ task[r].op = op /\ Alone(r)

-----------------------------------------------------------------------------
(* Members.                                                                *)

CreateProject(r) ==
    /\ Saves(r, "create")
    /\ status' = [status EXCEPT ![task[r].project] = "active"]
    /\ EndTask(r)
    /\ UNCHANGED <<tenant, hidden, abuse, ruling, erasure>>

ArchiveProject(r) ==
    /\ Saves(r, "archive")
    /\ status' = [status EXCEPT ![task[r].project] = "suspended"]
    /\ EndTask(r)
    /\ UNCHANGED <<tenant, hidden, abuse, ruling, erasure>>

DeleteProject(r) ==
    /\ Saves(r, "delete")
    /\ status' = [status EXCEPT ![task[r].project] = "deleted"]
    /\ hidden' = hidden \cup {task[r].project}
    /\ EndTask(r)
    /\ UNCHANGED <<tenant, abuse, ruling, erasure>>

\* The project comes back active, whatever it was and whatever the limit.
RestoreProject(r) ==
    /\ Saves(r, "restore")
    /\ status' = [status EXCEPT ![task[r].project] = "active"]
    /\ hidden' = hidden \ {task[r].project}
    /\ EndTask(r)
    /\ UNCHANGED <<tenant, abuse, ruling, erasure>>

-----------------------------------------------------------------------------
(* Operators.  Each saves the fields it sets over what the row has become. *)

FlagProject(r) ==
    /\ Saves(r, "flag")
    /\ abuse' = [abuse EXCEPT ![task[r].project] = "flagged"]
    /\ ruling' = [ruling EXCEPT ![task[r].project] = "flagged"]
    /\ EndTask(r)
    /\ UNCHANGED <<tenant, status, hidden, erasure>>

BlockProject(r) ==
    /\ Saves(r, "block")
    /\ abuse' = [abuse EXCEPT ![task[r].project] = "blocked"]
    /\ ruling' = [ruling EXCEPT ![task[r].project] = "blocked"]
    /\ status' = [status EXCEPT ![task[r].project] = "suspended"]
    /\ EndTask(r)
    /\ UNCHANGED <<tenant, hidden, erasure>>

UnblockProject(r) ==
    /\ Saves(r, "unblock")
    /\ abuse' = [abuse EXCEPT ![task[r].project] = "clear"]
    /\ ruling' = [ruling EXCEPT ![task[r].project] = "clear"]
    /\ status' = [status EXCEPT ![task[r].project] = "active"]
    /\ EndTask(r)
    /\ UNCHANGED <<tenant, hidden, erasure>>

BlockOrganization(r) ==
    /\ Saves(r, "block_org")
    /\ orgAbuse' = "blocked" /\ orgRuling' = "blocked"
    /\ orgStatus' = "suspended"
    /\ EndTask(r)
    /\ UNCHANGED <<orgHidden, projects, erasure>>

UnblockOrganization(r) ==
    /\ Saves(r, "unblock_org")
    /\ orgAbuse' = "clear" /\ orgRuling' = "clear"
    /\ orgStatus' = "active"
    /\ EndTask(r)
    /\ UNCHANGED <<orgHidden, projects, erasure>>

-----------------------------------------------------------------------------
(* Deploys.                                                                *)

\* Slip: suspension alone is asked for.
SuspendedOnly(copy) == orgStatus # "suspended" /\ copy.status # "suspended"

\* ensure_project_can_deploy: the project as it was loaded, its organization as it
\* is read now.
CanDeploy(copy) ==
    /\ orgAbuse # "blocked" /\ orgStatus # "suspended"
    /\ copy.abuse # "blocked" /\ copy.status # "suspended"

\* The environment, which is deleted when the erasure is asked for, is looked up
\* after the check.
CheckDeploy(r) ==
    /\ stage[r] = "loaded" /\ task[r].op = "deploy"
    /\ IF CanDeploy(loaded[r]) /\ \A q \in Threads : deletion[q] = "none"
       THEN stage' = [stage EXCEPT ![r] = "deploying"] /\ UNCHANGED <<task, loaded>>
       ELSE EndTask(r)
    /\ UNCHANGED <<tenant, projects, erasure>>

\* The pipeline asks for neither again before it publishes.
Publish(r) ==
    /\ stage[r] = "deploying"
    /\ files' = files \cup {task[r].project}
    /\ EndTask(r)
    /\ UNCHANGED <<tenant, projects, deletion, sweep, failures>>

-----------------------------------------------------------------------------
(* The end of the organization.                                            *)

\* DELETE of the organization
CloseOrganization(r) ==
    /\ Saves(r, "close")
    /\ orgStatus' = "deleted" /\ orgHidden' = TRUE
    /\ EndTask(r)
    /\ UNCHANGED <<orgAbuse, orgRuling, projects, erasure>>

\* request_organization_deletion: one transaction, which does not look again
\* whether somebody else has asked.
RequestErasure(r) ==
    /\ Saves(r, "erase")
    /\ deletion' = [deletion EXCEPT ![r] = "soft_deleted"]
    /\ orgStatus' = "pending_deletion" /\ orgHidden' = TRUE
    /\ status' = [p \in Projects |-> IF Row(p) /\ p \notin hidden THEN "pending_deletion"
                                     ELSE status[p]]
    /\ hidden' = {p \in Projects : Row(p)}
    /\ EndTask(r)
    /\ UNCHANGED <<orgAbuse, orgRuling, abuse, ruling, sweep, files, failures>>

\* A sweep starts when the retention is over, long after the last request.
SweepStarts ==
    /\ sweep = "idle" /\ orgStatus # "erased"
    /\ \E r \in Threads : deletion[r] = "soft_deleted"
    /\ \A r \in Threads : stage[r] = "idle"

\* Only the local root is swept: the objects of a bucket stay.
Unlinkable == IF Backend = "local" THEN files ELSE {}

\* Slip: shutil.rmtree with ignore_errors.
UnlinkSome ==
    /\ SweepStarts
    /\ \E gone \in SUBSET Unlinkable : files' = files \ gone
    /\ sweep' = "unlinked"
    /\ UNCHANGED <<tenant, projects, deletion, failures, handlers>>

\* _delete_deployment_files_for_organization, in the transaction but not of it.
Unlink ==
    /\ SweepStarts
    /\ files' = files \ Unlinkable
    /\ sweep' = "unlinked"
    /\ UNCHANGED <<tenant, projects, deletion, failures, handlers>>

\* rmtree raises half-way: the transaction of the whole sweep is rolled back.
UnlinkFails ==
    /\ SweepStarts /\ failures < MaxFailures
    /\ \E gone \in SUBSET Unlinkable : files' = files \ gone
    /\ failures' = failures + 1
    /\ UNCHANGED <<tenant, projects, deletion, sweep, handlers>>

\* The sweep dies, or another deletion of its batch fails, before it commits.
SweepDies ==
    /\ sweep = "unlinked" /\ failures < MaxFailures
    /\ sweep' = "idle"
    /\ failures' = failures + 1
    /\ UNCHANGED <<tenant, projects, deletion, files, handlers>>

\* organization.delete() with all that hangs on it.  A deletion row that is not due
\* yet loses its organization and is never completed.
FinalizeDeletion ==
    /\ sweep = "unlinked"
    /\ sweep' = "idle"
    /\ \E due \in SUBSET {r \in Threads : deletion[r] = "soft_deleted"} :
          /\ due # {}
          /\ deletion' = [r \in Threads |-> IF r \in due THEN "hard_deleted"
                                             ELSE deletion[r]]
    /\ orgStatus' = "erased"
    /\ status' = [p \in Projects |-> "none"]
    /\ hidden' = {}
    /\ abuse' = [p \in Projects |-> "clear"] /\ ruling' = [p \in Projects |-> "clear"]
    /\ UNCHANGED <<orgHidden, orgAbuse, orgRuling, files, failures, handlers>>

-----------------------------------------------------------------------------

Serve(r) ==
    \/ CreateProject(r) \/ ArchiveProject(r) \/ DeleteProject(r) \/ RestoreProject(r)
    \/ FlagProject(r) \/ BlockProject(r) \/ UnblockProject(r)
    \/ BlockOrganization(r) \/ UnblockOrganization(r)
    \/ CheckDeploy(r) \/ Publish(r)
    \/ CloseOrganization(r) \/ RequestErasure(r)

Sweep == Unlink \/ UnlinkFails \/ SweepDies \/ FinalizeDeletion

\* Nobody finds an organization that was closed or erased.
TenantIsGone ==
    /\ orgHidden /\ sweep = "idle" /\ \A r \in Threads : stage[r] = "idle"
    /\ UNCHANGED tenancyVars

TenancyNext ==
    \/ \E r \in Threads : Serve(r) \/ \E j \in Tasks : Arrive(r, j)
    \/ Sweep
    \/ TenantIsGone

TenancySpec == TenancyInit /\ [][TenancyNext]_tenancyVars

-----------------------------------------------------------------------------
(* Properties.                                                             *)

\* No deploy runs that was sent when operators had blocked the project: not after
\* members archived, deleted or restored it, which makes it ACTIVE again, and not
\* of a copy that was loaded before they did.
BlockStopsDeploys ==
    \A r \in Threads : stage[r] = "deploying" => loaded[r].ruling # "blocked"

\* Once the erasure was asked for nothing of the organization can be found again,
\* however late a handler saves that loaded it before.
ErasureHides ==
    (\E r \in Threads : deletion[r] # "none") =>
       orgHidden /\ \A p \in Projects : Row(p) => p \in hidden

\* A project is created only within the plan's limit, counted with the project, also
\* when members restore others meanwhile.
CreationKeepsLimit ==
    [][(\E p \in Projects : ~Row(p) /\ status'[p] # "none")
          => Cardinality(Live') <= Limit]_tenancyVars

Reported == \E r \in Threads : deletion[r] = "hard_deleted"

\* When a deletion is reported as done the rows are gone, and the files where they are
\* kept on the local root, after any number of sweeps that failed half-way.
ErasedLeavesNothing ==
    Reported => /\ orgStatus = "erased"
                /\ Backend = "local" => files = {}
                /\ \A p \in Projects : ~Row(p)

\* Nothing can be found from the day the erasure is asked for, nothing is left when it is
\* reported.
ErasureHolds == ErasureHides /\ ErasedLeavesNothing

=============================================================================
