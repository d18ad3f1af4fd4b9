# Verification of the hosting control plane

The repository is the control plane of a multi-tenant hosting platform: a Django
API (`apps/api`), a provisioner service that talks to Kubernetes
(`apps/provisioner-service`), a deployment worker (`apps/deployment-worker`) and a
web dashboard (`apps/dashboard`). This directory holds TLA+ models of it, TLC
configurations that check them on small instances, and TLAPS proofs of the
theorems that matter most. The code is the reference: where a document and the
code disagree, the model follows the code; section 6 lists the disagreements, and five
of them are runs that TLC refutes.

## 1. Inventory

| part | state it keeps | operations | hard behaviours | what makes it correct | module |
|---|---|---|---|---|---|
| Static and container deployments (`static_deployments.py`, `container_deployments.py`) | BuildJob, Deployment, RuntimeInstance rows; the cluster's workload | deploy, roll back | requests interleave between statements; a snapshot is stale when its UPDATE commits; row-lock cycles; a refused insert; crashes | one live instance, only accepted releases run, the records agree, every request ends | `Deployments`, `RuntimeSlot` |
| Files of static sites (`static_deployments.py`) | the storage backend's objects | unpack, upload, roll back | an upload breaks off half-way; a ZIP with a manifest of its own | what runs is served whole | `StaticSites` |
| Artifact scanning (`artifact_scanning.py`) | ArtifactScan rows | scan, enforce, override | an override between the scan and the decision | as the first row | `Deployments` |
| Provisioner (`provisioner_service/`) | store of each worker; Kubernetes objects | six Celery tasks | duplicates side by side, half-done handlers, late API errors, retries, lost workers | success means delivered; messages end | `Provisioner` |
| Deployment worker (`deployment_worker/`) | statuses in each process's memory | four Celery tasks | redelivery, late tasks, the hard time limit | nothing is active that no scan found clean | `DeploymentWorker` |
| Organizations and members (`organization_views.py`, `rbac.py`) | Organization, OrganizationMember rows | add, change, remove, delete, erase | count, then write | an owner remains; an ended organization stays closed | `Membership` |
| Projects and abuse handling (`project_views.py`, `entitlements.py`, `abuse.py`, `operator_views.py`) | Project and Organization rows | create, archive, restore, delete; flag, block, unblock | members and operators write over each other; a deploy decides on a copy | a blocked project deploys nothing; the plan's limit | `Tenancy`, `Billing` |
| Data protection (`data_protection.py`) | deletion and export requests, files | request, sweep, export, download | a sweep or an export fails half-way; late handlers | what is erased stays erased; a link serves a whole file | `Tenancy`, `Membership`, `Accounts`, `DataExports` |
| Billing (`billing_service.py`) | WebhookEvent, Subscription, Invoice rows | Stripe webhook | two deliveries at a time, replays, reordering, refused events | each event counts once; the rows come to agree with Stripe | `Billing` |
| Metering (`metering.py`) | usage rows, SecurityEvents | record, compare, daily sums | two collectors, a plan that changes, a daily job in between | usage that reaches a threshold is alerted | `Metering` |
| Domains and certificates (`custom_domains.py`, `certificates.py`) | Domain, Certificate rows | add, verify, disable, status callbacks | DNS is read before the lock | one live claim of a hostname, nothing without its token, router and table agree | `Domains` |
| Accounts (`auth_utils.py`, `auth_views.py`) | User, TwoFactorDevice, AuthToken, sessions | sign in, change and reset the password, second factor, erase | a sign-in that passed the check before the password changed | old passwords open nothing | `Accounts` |
| API keys (`api_keys.py`, `api_key_authentication.py`) | ApiKey row | create, rotate, revoke, use, expire | each handler saves over what the row has become | only the key in force works, and it works | `ApiKeys` |
| Counters (`auth_utils.py`, `notifications.py`, `api_keys.py`) | integers in the cache of each process | ask, count | read, then write back; a counter per process | what callers at once can lose is bounded | `RateLimit` |
| Secrets (`secrets.py`) | ProjectSecret, ProjectSecretVersion rows | create, update, rotate, delete | the next version is computed from a stale copy | no value that was accepted is lost or replaced | `Secrets` |
| Notifications (`notifications.py`) | NotificationMessage rows | enqueue, process, retry | two processors with copies of their own; a sender that dies | bounded repetition; what is queued is settled | `Notifications` |
| Backups (`backups.py`) | archives in a directory | back up, retain, restore | no snapshot; deploys and erasures meanwhile; a run that dies | what is restored is served; a backup remains | `Backups` |
| Audit log, OpenAPI, routing, settings, migrations, dashboard, infrastructure | append-only rows, files, none | | | | not modelled (section 8) |

Components interact through the database. A request is served by its own worker process;
it reads and writes rows in transactions of its own, so handlers interleave between
transactions and, under READ COMMITTED, between the statements of one transaction. The
settings default to SQLite (`config/settings/production.py`), where committed transactions
behave as if run one at a time; ADR-0003 chooses PostgreSQL. The constants `Serialized` of
`Deployments` and `Membership` and `SingleWriter` of `Tenancy` select between the two. The
provisioner and the deployment worker are reached by Celery messages, Stripe by its
webhook.

The hazards of this code, each at its line, are listed in `PROJECT.json`; a hazard
without a property says why none covers it.

## 2. Modules

`RuntimeSlot` is the abstract specification of what an environment's runtime
promises: a slot that holds one release, that only accepted releases enter, that
passes from one release to the next in one step and is never empty again.

`Deployments` models one environment. A request is named; a deploy `d` creates
one BuildJob and one Deployment that carry its name. `pc` is the request's place in
its handler: `created` after the first transaction, `scanned` after an accepted
scan, `started` after `runtime_client.deploy`, `locked` after a rollback's
`select_for_update`, `superseding` and `replacing` after the snapshots of the two
`UPDATE ... WHERE` statements, `failing` and `job_failed` on the failure path. A
statement's snapshot is a variable (`seenRunning`, `seenLive`), and its effect is
applied at commit to the rows of the snapshot that still match, which is what
READ COMMITTED does with an `UPDATE`. `Die` is every exception that leaves the
handler and every crash: the open transaction has no effect and nothing else
cleans up. `Occupant` and `Slot` map the module to `RuntimeSlot`.

`Provisioner` models the messages of one project and one of its domains. A handler
is a sequence of Kubernetes calls; each succeeds, fails, or is carried out and
reported as failed. Workers have their own idempotency store, lost in a crash
together with the messages they had acknowledged. A message may carry a key of its
sender's (`ExplicitKey`), which stands for one operation (`KeysAssumption`): a sender that
uses one key for two operations is answered with the success of the wrong one.

`Membership` models one organization. A request is authorized, then loads the
member, then perhaps counts owners, then saves; each is a step because each is a
statement, and a request that is refused ends without a trace.

`Billing` models one organization's subscriptions and invoices at Stripe and in
the database, under READ COMMITTED. A delivery is a transaction that begins by locking or
inserting the row of its event (`Begin`), so deliveries of one event exclude each other
(`Free`); for an invoice it also reads the subscription's row there, and what others
commit until it writes it does not see (`rowRead`). Its write, `processed_at` and commit
are one step (`Process`), since from the write on it holds the locks that keep others
from these rows. An error, be it `uniq_live_subscription_per_org`, a `BillingError` of an
object in `refused` or the end of the process, rolls everything back, the FAILED status of
the event's row included (`Rollback`). Which objects are refused may change
(`Reconfigure`): plans and metadata are put right, or wrong, by people. `processedAt`
orders the events as `processed_at` does.

`Domains` models the rows of one hostname. A claim is one call of `create_domain`,
with the row and token it makes; requests and the periodic checker
(`docs/security/custom-domains.md:23`) verify and disable. `loaded` and `matched` are the
places before and after the DNS lookup, outside any transaction; `verifying` and
`disabling` hold the row's lock after the provisioner was told and before the commit, so
a request that dies there leaves the provisioner with what no row says.
`DomainProvisionerClient` answers at once and is replaced in deployment; `served` is
what it was last told. Of `Certificate.status` only "failed or expired" against the
rest is kept, which is all a new request reads.

`Tenancy` models the projects of one organization. Members' handlers run in a
transaction from their first read; operators, deploys and the view of the erasure load
before they write, outside of any. `ruling` is what operators said last of a project and
`loaded` the copy a deploy decides on. The sweep of due deletions unlinks files before
its transaction commits, so a failure leaves rows without files and a later sweep starts
again. `Backend` is where the files are: the sweep finds those of the local backend only
(`Unlinkable`).

`StaticSites` models the files of one environment: a deploy unpacks, is made, uploads
path by path and becomes RUNNING; on the local backend the prefix is removed first.

`DeploymentWorker` models the worker's tasks with a status table per process and an
external control plane that sends, repeats and gives up on tasks. A process that meets
the hard time limit loses its table.

`Accounts` models one user with several browsers. Every write commits by itself; a session
carries the hash of the password it was opened with (Django's part, external). The codes
made together are one row of `Codes`; enabling the second factor deletes the unused ones
and makes new ones (`MakeCodes`) while a sign-in may hold one it has read. `RateLimit` is
the counter of one key of the cache, used three ways. The cache is `LocMemCache`
(`config/settings/base.py:35-40`, which no settings file overrides), so every process has
a counter of its own: `Processes` are the replicas of the API and their successors,
`Callers` their threads, `Home` where each lives. `ApiKeys` is one key: members rotate and
revoke it from copies of its row while clients look it up and save what they saw.
`Secrets` is the rows of one name; the tables' unique constraints refuse what a stale copy
would write.

`Metering` is one limited metric of one organization: recording calls write their hourly
row and walk through the thresholds, one statement after the other. `Notifications` is
the outbox: whoever sends works on the copy it listed and writes its attempts and status
over the row. `DataExports` follows the row, the file and the link of an export.
`Backups` is the dump, the walk, the archive, the retention and the restore, beside
deploys and erasures that go on. The dump is the snapshot of `pg_dump`, or what `dumpdata`
gathers table after table while rows come and go (`DumpMeanwhile`). An archive remembers,
for the property alone, whose files had been erased when it was written.

The MC modules give the constants their values. Four of them put parts side by side that
share no state their properties read (`MCOrganizations`, `MCSubscriptions`, `MCDelivery`,
`MCWorkers`), and `MCReleases` the API's releases and the worker's: `Init` chooses in
`focus` the part that moves while the others stay as they began, so the states of the
parts add up and do not multiply. They extend their parts, so the proofs speak of the very
specification that TLC runs.

The modules with proofs follow the runs: `DeploymentsProofs`, `DeploymentWorkerProofs`,
`WorkersProofs`, `OrganizationsProofs` with `TenancyProofs`, `SubscriptionsProofs` and
`DeliveryProofs`; `LostUpdates` holds the arithmetic that two of them share.

A definition marked `Slip` is a plausible mistake in the operation it stands next to;
it is used by no specification, only to show that a property notices it (`mutants` in
`PROJECT.json`).

## 3. Runs

| run | instance | states | shows |
|---|---|---|---|
| `deployments` | 1 static and 2 container deploys, a rollback of each kind, READ COMMITTED, symmetry | 201,216 | type, one live instance, only clean code runs, records agree, the slot is implemented |
| `deployments_live` | 1 deploy and 1 rollback of each kind, READ COMMITTED, no symmetry | 6,717 | every request that came is answered or its worker died |
| `releases_serial` | 3 container deploys, 2 rollbacks, one transaction at a time; 2 worker processes, 4 tasks, 1 kill | 159,482 | at most one RUNNING deployment, and it is the one with the live instance; the worker releases nothing that was not scanned |
| `workers` | 2 provisions with one key and 1 deprovision, 1 worker process, 1 retry, 1 crash; 1 message, 2 senders, 2 attempts, 1 death | 181,134 | success means delivered, answers from the store are earned, messages end; a mail is handed over a bounded number of times and what is queued is settled |
| `organizations` | 3 users and 2 requests; 2 projects, limit 1, 1 failing sweep, local files; 2 browsers, 3 passwords, 1 reset token, 2 rows of codes; 2 releases and 2 archives; one transaction at a time, symmetry | 2,259,590 | an owner remains, an organization being erased has no active member, blocks stop deploys, erasures are final, creations keep the limit, old passwords open nothing, backups restore |
| `subscriptions` | 2 subscriptions, of which one may be refused, 1 invoice, 3 events, 2 deliveries at a time; 2 collectors; 2 members, 2 clients, 3 key values; 2 processes with 2 threads, limit 2 | 204,469 | each event counts once, the rows tell what was processed last, rolled back events are taken up again and the rows come to agree with Stripe; usage is alerted, only the key in force works, counters lose a bounded number |
| `delivery` | 2 claims, 1 request beside the checker, 1 crash; 2 secret rows, 2 writers, 3 versions; 2 deploys; 2 exports | 377,974 | one live claim, nothing without its token, one certificate row, router and table agree, pending rows are decided; versions are the history, what runs is whole, links serve |

Bounds. Requests, tasks and users are finite sets; the number of interleaved requests is
what the hazards need: two container deploys to collide on the instance, a rollback of
each kind to lock and to meet a failing or finished deploy, two rollbacks for a lock
cycle, two requests for two owners and a third user to pass the role to, a duplicate
beside a provision and a deprovision that undoes it, two claims that find the hostname
free at once, and a request and the checker that verify the same row or verify and disable
it. A second project takes what the limit of one leaves when the first is archived and
restored; two threads are a deploy and an operator, or a creation and a restore, and the
sweep comes between. Three passwords are the first one, one that replaces it while a
sign-in is under way, and one more. `MaxDevices` 1 leaves out a second device after a
deleted one, which no property tells apart. `Amounts` {4, 5} and `Limits` {5, 10} reach
80%, 90% and 100% of either plan in one or two samples, and `MaxUsage` 12 leaves room for
the double sums of the daily job. `MaxSecrets` 3 gives two members a rotation each.
`Limit` 2 in each of two processes lets a stale caller take a counter back from more than
one value beside a second counter; two rows of `Codes` are one that a request holds and
one made meanwhile. `MaxAttempts` is 2 instead of the setting's 3: with two attempts the
senders already write over each other's count, and the mutant that forgets it passes the
bound of `HandoversEnd`. `MaxCrashes`, `MaxDeaths`, `MaxKills`, `MaxFailures` and
`MaxFaults` cap what dies; `CeleryMaxRetries` is smaller than Celery's default of 3 in
`workers` to keep the run short, `MaxRetryAttempts` is the setting's 8. `MaxEvents` caps
what Stripe sends: three events are the beginning of a subscription, that of a second one
which comes too early, and the end of the first; or a subscription, its failed payment and
an invoice that overtakes them. `Deliveries` are two, which is what one needs to commit
while the other has read; `Refusable` is one subscription, whose events are refused and go
through later beside those of one that is never refused. `MaxSent` 4 is a build, a scan, a
release and one repetition. The proofs hold for every value of the constants they are
about.

Symmetry is used for interchangeable requests, users, browsers and processes, in runs
without liveness properties only. The deadlock check is on in every run; `Quiescent`,
`Idle`, `Ended`, `TenantIsGone`, `Finished`, `Rest` and their like are the states in which
a part may really stay.

Five of the disagreements in section 6 have a run of their own, which TLC refutes:
`deployments_two_running`, `deployments_scanned`, `membership_race`, `billing_denied` and
`reset_token_twice`.

## 4. Fairness

`Deployments`: weak fairness of `Advance(p)`, the steps of the handler of one request: a
worker that does not crash runs its handler to the end. Nothing is assumed of requests
arriving, operators or crashes. `Provisioner`: weak fairness of `Step(t)`, workers take
messages and run what they took; API failures are a choice inside the step, so no call is
assumed ever to succeed. `Notifications`: weak fairness of each sender's `ListQueued` and
`Send`: the processor is called again and again (`docs/architecture/notifications.md`),
and whether the mail server accepts is a choice inside the step. `Billing`: weak fairness
of `End(w)`, a delivery ends; strong fairness of beginning a delivery of each event and of
its success, since Stripe delivers again until it is answered with success (for days, in
reality; the property needs finitely many attempts) and not every delivery that could
succeed dies. A delivery that is refused or in conflict is not among those that could.
`Domains`: weak fairness of `Advance(r)` as in `Deployments`, and of `CheckPending`, the
checker that is run again and again; its resolver answers, perhaps with no records, and an
owner need never publish anything. In a composed run the same fairness is stated for the
part in `focus`. `Mirrors` states its premises explicitly: events of one object are
processed in order, Stripe settles on one live subscription, and no object stays refused.

## 5. Proofs

TLAPS proves, for every value of the constants that satisfies the stated
assumptions:

* `DeploymentsProofs`: `TypeCorrect`, `OneLive`, `CleanCode`, `Records` and
  `SlotRefinement` for READ COMMITTED as well as serialized; `SerialOneRunning` and
  `SerialTablesAgree` for serialized. None of the invariants is inductive: a live instance
  is clean only because its request was. `IInv` adds what a request's place says about its
  rows (`DeployStage`: past the scan the verdict is clean, before the end nothing is
  published; `RollbackStage`: a locked container target is published; `LiveStage`: live
  instances belong to finished requests). The refinement then takes each action to
  `Accept`, `Occupy` or a stutter. `SerialInv` adds that only one transaction is open and
  that its snapshot misses no RUNNING row, `TablesInv` that its snapshot of the live
  instances is exact and that the two tables name one release. The same module proves what
  of `RequestsFinish` is a matter of states and steps. `HandlersShrink`: whatever a
  request does leaves it fewer steps to go (`StepsLeft`), and the others as many.
  `HandlersNeverStall`: a request that cannot go on waits for a transaction that can.
  Transactions wait for row locks of rollbacks only, so a state in which all wait holds a
  circle of them, and who is in a circle can be made its victim. `CanAdvance` spells out
  the guards of the handler's steps, since the provers do not take `ENABLED`.
* `DeploymentWorkerProofs`: `WorkerScans`. A task is sent when the one before it was
  answered with success, so a release task in the queue or in a process means that the
  image was found clean (`ScannedFirst`), through any repetition and any kill.
* `WorkersProofs`, the provisioner: `ProvisionerType`, `DeliveredHolds`, `Earned`. The
  invariant `Accounts` follows the calls a running task has behind it, and the records
  that promise a success, up to the moment a removing task begins. `TasksShrink`: a step
  of a task leaves fewer steps in `TaskLeft`, which counts later retries too, and nothing
  else adds any.
* `WorkersProofs`, the outbox: `HandoversOfTwoEnd`, for two senders. An attempt that is
  lost by a stale write can be made again, and each such write lets the count fall only
  as far as its writer had read. `Rest` of `LostUpdates` bounds how often a counter can
  still be read below its limit from where it stands and what the writers carry; it is
  doubled so that its sums need no division. `MessageInv` says that the calls made, the
  calls under way and half that rest stay below the bound.
* `OrganizationsProofs`, members: `MembershipType` for any isolation; `OwnerStays` and
  `ClosedStays` under `Serialized`. `Checked` says that what a handler has read is still
  true when it saves; that it fails without `Serialized` is the run `membership_race`.
* `OrganizationsProofs`, accounts: `SessionsAreOfThePassword`. A session carries the hash of
  the password that was typed for it (`AccountInv`), since the sign-in computes it from
  the copy it checked: one that passed the check before a change opens a session that does
  not count after it.
* `OrganizationsProofs`, backups: `RestoreServes` and `BackupStays`. A row's files are
  there unless an erasure unlinked them (`RowsHaveFiles`), a dump's rows have their files
  in the archive as far as the walk has come (`DumpIsCopied`), a complete archive restores
  with them (`ArchivesRestore`), and the archive just written is not the one its own
  retention removes (`TargetRemains`).
* `TenancyProofs`: `BlockHolds`, `ErasureIsFinal` and `LimitHolds`, under `SingleWriter`.
  The invariant adds that a handler's row is still there when it saves (`JobsFit`), that
  whoever could show a project again was done before the erasure began (`NobodyShows`),
  where a sweep is (`SweepFits`, `ErasedFits`), and that a row says what operators said
  last of it (`RulingsAgree`).
* `SubscriptionsProofs`, webhooks: `BillingType`, `LastCounts`, `Once`. No delivery holds
  an event that another one holds or that was processed (`InFlight`), which is what the
  lock of the event's row gives. `Positions` says
  that processing positions lie within the clock and are not shared, `RowsFromEvents`
  that a row exists exactly when an event about it was processed, and `FoundRows` that the
  row a delivery has read was made by an event processed before: it stays true while
  others commit.
* `SubscriptionsProofs`, keys: `InForce`. The status alone does not tell whether a key is
  in force, since a late expiry may overwrite a revocation; with `revoked_at` it does
  (`RowAgrees`), and what a client saw is what members had been told at that time
  (`CopiesAgree`).
* `SubscriptionsProofs`, usage: `ReportsAreAlerted`. The invariant compares the total with
  what the collectors under way have added and not yet compared. A sum over a set of any
  size cannot be defined by recursion here; it is the size of a set of units, a pair of a
  collector and a number up to its amount for each unit it added.
* `SubscriptionsProofs`, counters: `ProcessesStayBelowCeiling`, for any number of processes
  with two threads each. A process by itself is bounded with the same `Rest` as the outbox
  (`PairsInv`), and the attempts of all are a set of pairs whose size is at most the sum
  (`SumOfProcesses`); an attempt that was admitted before the limit was reached
  is counted apart, and then nobody else is under way (`LateIsAlone`).
* `DeliveryProofs`, hostnames: `DomainsType`, `HostnameHasOneHolder`, `TokenCameFirst`,
  `CertificateIsUnique`, `RouterAgrees`. The properties need what handlers carry from one
  step to the next: a late handler's row is there (`WorkHasRow`), what matched was
  shown (`MatchWasShown`), one transaction holds a row (`OneLock`), the certificate row it
  means to create is still missing (`PlanFits`), and the provisioner knows already
  (`ToldFirst`).
* `DeliveryProofs`, secrets: `HistoryIsKept`. A writer's copy is never ahead of its row,
  and the row's number is that of its newest version, so what a stale copy computes either
  exists, and the constraint refuses it, or is the next one.
* `DeliveryProofs`, files: `ServedWhole`. A deployment's prefix is written only by its own
  request and only before its row says that it runs.
* `DeliveryProofs`, exports: `LinksHold`. The file is whole before its row is ready, and
  the row before its link.
* `WorkersAreTheParts`, `OrganizationsAreTheParts`, `SubscriptionsAreTheParts` and
  `DeliveryIsTheParts`: the compositions take no step but those of their parts, so what is
  proved of a part holds of the specification that TLC runs. The type invariants of the
  compositions (`WorkersTyped` and its like) follow.

Assumptions on the constants are named in the modules that declare them, or in the
statement (`Setting` of `TenancyProofs`, `Serialized`, and `Senders = {a, b}` or two
callers at home in each process): disjointness of the kinds of requests, distinct "none"
values, natural bounds, finite `Users`, `Projects`, `Collectors` and `Processes`. TLC
evaluates the named ones in every run.

Only model-checked: the liveness properties `RequestsFinish`, `AllTasksEnd`,
`QueuedIsSettled`, `Mirrors` and `PendingIsDecided`, which rest on fairness and are out of
the prover's reach. The state-and-step part of the first two is proved; that a measure
which only falls reaches its end is an induction over the measure, and stays with TLC.
`HandoversEnd` and `LossIsBounded` are proved for two senders and two callers in a
process, the number the runs have: with three, the counter can fall to what any of several
stale writers had read, for which `Rest` is no bound.

## 6. Where documents and code disagree

* `deployments_scanned`: `docs/architecture/deployment-pipeline.md:335` says the
  target of a rollback passed the scan policy; the static rollback accepts any
  deployment.
* `deployments_two_running`: `docs/security/artifact-scanning.md:64` promises an atomic
  switch of the active deployment; two activations can leave two.
* `membership_race`: `docs/architecture/domain-model.md:604` says an owner always
  remains; two requests that count at the same time leave none.
* `billing_denied`: `docs/architecture/entitlements.md:49` gives an active subscription
  full access; a younger incomplete row takes it away.
* `reset_token_twice`: `docs/security/authentication.md:72` calls a reset token single-use;
  two requests that find it unused both set a password. Recovery codes (`:87`) are found
  and marked in the same way.

Met while reading and not made runs.

*Releases.* A static deploy over a container leaves the container's instance RUNNING
(`TablesAgree` is stated for environments without static requests). A ZIP with a
`manifest.json` of its own overwrites the platform's (`static_deployments.py:267`). The
storage limit is checked before any transaction. In the worker, a task that meets the time
limit leaves no status although `docs/architecture/deployment-pipeline.md` says `failed`;
a rollback without a target raises and leaves `deploying`; static artifacts have no
`image_ref`, so `deploy_to_runtime` refuses them; the transitions of
`deployment-pipeline.md:141` are guarded nowhere; nothing in the repository sends the
tasks.

*Provisioner.* `docs/architecture/provisioner.md:204` speaks of 8 attempts, while the
tasks leave Celery's limit at its default of 3. `provisioner.md:161` says that one key makes
one active job whose success answers later calls; duplicates run beside each other, and the
late failure of one replaces the success of the other in the store (`idempotency.py:39`),
after which a third call runs again. The calls are idempotent, so what a success delivered
stays (`Delivered`).

*Tenants.* Flagging a blocked project replaces BLOCKED by FLAGGED, after which a member's
restore lets it deploy. A restore asks for neither the limit nor the block. A deploy that
was checked goes live after a block, since nothing asks again, and the rollback endpoints
never ask (`ensure_project_can_deploy` is called by the two deploy endpoints alone):
`BlockStopsDeploys` is about deploys that are sent while the block stands. Nothing in the
repository calls `finalize_expired_deletions`; one deletion that fails rolls back the
whole batch, and a second request for an organization that an earlier sweep erased is
never completed. `request_user_deletion` leaves memberships active and deletes sessions
whose data contains the digits of the user's key. With the S3 backend the sweep reports an
organization erased and leaves its objects in the bucket (`data_protection.py:272-278`
walks the local root only), although `docs/security/data-protection.md:87` speaks of
physical removal: the clause of `ErasureHolds` about files is stated for the local
backend. Export archives are never deleted, although
`docs/security/data-protection.md:153` asks for it, and survive the erasure. Erasing an
organization deletes its domain rows without telling the provisioner, where
`docs/architecture/domain-model.md:623` asks for the routing to be removed first; a
disabled domain keeps its active certificate (`domain-model.md:611`).

*Accounts and keys.* `docs/security/authentication.md:87` says that who has enabled
two-factor authentication needs a code to sign in; it is asked of owners, admins and
platform staff only (`auth_utils.py:229`). Owners without a device cannot sign in. Older
reset tokens stay valid; a reset token is consumed before the password is found missing.
Rotating reactivates a revoked key; the project of a key is compared only where the view
has a project in its path; EXPIRED may overwrite REVOKED. An update of a secret with a
value and metadata loses the metadata.

*Counters.* `docs/architecture/notifications.md:36` limits mails for each recipient; the
counter is one of each process, and `values-production.yaml` runs 3 to 12 replicas of the
API. What `LossIsBounded` promises is therefore a bound for each process, which its threads
may exceed only by lost counts: with the limit 5 of a sign-in and two threads at most 20
attempts in a process and 240 in twelve, 60 of them without a lost count. A process that is
replaced starts from nothing.

*Queues and money.* An invoice whose delivery looked for its subscription before another
delivery committed the row stays without the link until its next event
(`billing_service.py:240`), although the subscription's event was processed first. Mails
that are sent again carry a redacted link; rows of a sender that died stay SENDING; SENT
can go back to QUEUED. Daily usage rows are summed with the hourly ones; two collectors
that write the same alert make every later comparison raise.
`docs/runbooks/incident-response.md:101` watches `WebhookEvent.failed`, which the
transaction rolls back. Two backups within a second share an id, and `verify` ignores the
`.sha256` beside an archive.

## 7. Plan

1. Done: the modules of section 2 and the proofs of section 5.
2. Proofs: an abstract roster that `Membership` implements under `Serialized` and an
   abstract history that `Secrets` implements, each with its refinement; `HandoversEnd` and
   `LossIsBounded` for any number of writers, with the bound that this needs.
3. `Accounts`: registration and verification of the e-mail address. `Tenancy`: the
   environments of a project, renaming. `StaticSites`: the storage limit against what is
   stored.
4. A composition of `Tenancy` and `Deployments` that follows a block through a running
   pipeline.

## 8. Not modelled

The audit log appends rows in the transaction of its caller and nothing reads them to
decide. OpenAPI, routing, health, settings and logging keep no state. Migrations create
the schema that `models.py` describes and the seed script fills it once. The dashboard is
a client with display state only. Infrastructure is configuration. Within the modelled
parts: request validation that refuses before anything is written, the contents of
archives, manifests, mails and exports, rows no property reads, encryption, and time as a
number (expiry is an event that may come; grace periods and back-off are left out).
