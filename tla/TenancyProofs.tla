---------------------------- MODULE TenancyProofs ----------------------------
(* Proofs about the projects of an organization on a database that runs one  *)
(* transaction at a time: what a block stops, what the plan allows and what  *)
(* an erasure leaves, for any projects, requests and failures.               *)
EXTENDS Tenancy, FiniteSetTheorems, TLAPS

\* The assumptions of every statement below.
Setting ==
    /\ Limit \in Nat /\ MaxFailures \in Nat
    /\ IsFiniteSet(Projects)
    /\ SingleWriter

Erasing == \E r \in Threads : deletion[r] # "none"

\* The row a handler loaded is there until everybody has ended; a creation that counted
\* the projects has the plan's permission until it commits.
JobFits(r) ==
    /\ stage[r] # "idle" /\ task[r].op \in {"archive", "delete", "restore"} \cup Operators
          => Row(task[r].project)
    /\ stage[r] = "loaded" /\ task[r].op = "create" => ~Row(task[r].project) /\ BelowLimit

JobsFit == \A r \in Threads : JobFits(r)

\* Whoever could show something again was done before the erasure began.
NobodyShows ==
    Erasing => \A r \in Threads :
                  stage[r] = "loaded" => task[r].op \notin {"create", "restore"}

AllIdle == \A r \in Threads : stage[r] = "idle"

\* What a sweep that got through leaves of the files.
Swept == Backend = "local" => files = {}

SweepFits == sweep = "unlinked" => Erasing /\ Swept /\ AllIdle

ErasedFits ==
    /\ orgStatus = "erased" =>
          Erasing /\ sweep = "idle" /\ Swept /\ AllIdle /\ \A p \in Projects : ~Row(p)
    /\ \A r \in Threads : deletion[r] = "hard_deleted" => orgStatus = "erased"

\* The row says what the operators said last, and so did each copy.
RulingsAgree ==
    /\ ruling = abuse
    /\ \A r \in Threads : loaded[r].ruling = loaded[r].abuse

IInv ==
    /\ TenancyTypeOK
    /\ JobsFit
    /\ NobodyShows
    /\ SweepFits
    /\ ErasedFits
    /\ RulingsAgree
    /\ BlockStopsDeploys
    /\ ErasureHides

Copies == [status : ProjectStatuses, abuse : AbuseStatuses, ruling : AbuseStatuses]

HandlersTyped ==
    /\ stage \in [Threads -> {"idle", "loaded", "deploying"}]
    /\ task \in [Threads -> Tasks \cup {NoTask}]
    /\ \A r \in Threads :
          /\ stage[r] = "idle" <=> task[r] = NoTask
          /\ stage[r] = "deploying" => task[r].op = "deploy"
    /\ loaded \in [Threads -> Copies]

LEMMA TypeParts == TenancyTypeOK => HandlersTyped
BY DEF TenancyTypeOK, HandlersTyped, Copies

LEMMA NothingTyped == Nothing \in Copies /\ NoTask \notin Tasks
BY DEF Nothing, Copies, ProjectStatuses, AbuseStatuses, NoTask, Tasks, OnProject, OnOrg,
       Transactions, Operators

\* A request with a task on a project names one.
LEMMA JobProject ==
    ASSUME TenancyTypeOK, NEW r \in Threads, stage[r] # "idle"
    PROVE  /\ task[r] \in Tasks
           /\ task[r].op \in OnProject => task[r].project \in Projects
<1>1. task[r] \in Tasks
  BY DEF TenancyTypeOK
<1>2. OnProject \cap OnOrg = {}
  BY DEF OnProject, OnOrg, Transactions, Operators
<1> QED BY <1>1, <1>2 DEF Tasks

LEMMA AfterEnd ==
    ASSUME TenancyTypeOK, NEW r \in Threads, EndTask(r)
    PROVE  /\ HandlersTyped'
           /\ stage'[r] = "idle" /\ loaded'[r] = Nothing
           /\ \A q \in Threads : q # r => /\ stage'[q] = stage[q] /\ task'[q] = task[q]
                                          /\ loaded'[q] = loaded[q]
<1>1. HandlersTyped
  BY TypeParts
<1> QED BY <1>1, NothingTyped DEF HandlersTyped, EndTask

LEMMA InitIInv == ASSUME Setting, TenancyInit PROVE IInv
<1>1. TenancyTypeOK
  <2>1. Nothing \in [status : ProjectStatuses, abuse : AbuseStatuses,
                     ruling : AbuseStatuses]
    BY NothingTyped DEF Copies
  <2>2. failures \in 0..MaxFailures
    BY SMT DEF TenancyInit, Setting
  <2> QED BY <2>1, <2>2 DEF TenancyInit, TenancyTypeOK, ProjectStatuses, AbuseStatuses
<1>2. ~Erasing /\ AllIdle
  BY DEF TenancyInit, Erasing, AllIdle
<1>3. RulingsAgree /\ BlockStopsDeploys
  BY DEF TenancyInit, RulingsAgree, BlockStopsDeploys, Nothing
<1>4. JobsFit
  BY DEF TenancyInit, JobsFit, JobFits
<1>5. SweepFits /\ ErasedFits
  BY DEF TenancyInit, SweepFits, ErasedFits
<1> QED BY <1>1, <1>2, <1>3, <1>4, <1>5 DEF IInv, NobodyShows, ErasureHides, Erasing

-----------------------------------------------------------------------------
(* Threads arrive.                                                        *)

\* Once the erasure was asked for nobody finds anything.
LEMMA NothingAccepted ==
    ASSUME IInv, Erasing, NEW j \in Tasks
    PROVE  ~Accepts(j)
<1>1. orgHidden /\ \A p \in Projects : Row(p) => p \in hidden
  BY DEF IInv, ErasureHides, Erasing
<1>2. j.op \in Operators => j.project \in Projects
  BY DEF Tasks, OnProject, OnOrg, Transactions, Operators
<1> QED BY <1>1, <1>2 DEF Accepts

LEMMA ArriveIInv ==
    ASSUME Setting, IInv, NEW r \in Threads, NEW j \in Tasks, Arrive(r, j)
    PROVE  IInv'
<1>1. Accepts(j) /\ ~Erasing
  BY NothingAccepted DEF Arrive
<1>2. UNCHANGED <<tenant, projects, erasure>>
  BY DEF Arrive
<1>3. ~Erasing'
  BY <1>1, <1>2 DEF Erasing, erasure
<1> DEFINE found == IF j.op # "deploy" THEN Nothing
                    ELSE [status |-> status[j.project], abuse |-> abuse[j.project],
                          ruling |-> ruling[j.project]]
<1>4. found \in Copies /\ found.ruling = found.abuse
  <2>1. CASE j.op = "deploy"
    <3>1. j.project \in Projects
      BY <2>1 DEF Tasks, OnProject, OnOrg, Transactions, Operators
    <3> QED BY <2>1, <3>1 DEF IInv, TenancyTypeOK, RulingsAgree, Copies
  <2>2. CASE j.op # "deploy"
    BY <2>2, NothingTyped DEF Nothing
  <2> QED BY <2>1, <2>2
<1>5. /\ stage' = [stage EXCEPT ![r] = "loaded"]
      /\ task' = [task EXCEPT ![r] = j]
      /\ loaded' = [loaded EXCEPT ![r] = found]
  BY DEF Arrive
<1> HIDE DEF found
<1>6. HandlersTyped'
  <2>1. HandlersTyped
    BY TypeParts DEF IInv
  <2> QED BY <2>1, <1>4, <1>5, NothingTyped DEF HandlersTyped
<1>7. TenancyTypeOK'
  BY <1>2, <1>6 DEF IInv, TenancyTypeOK, HandlersTyped, Copies, tenant, projects, erasure
<1>8. JobsFit'
  <2> SUFFICES ASSUME NEW q \in Threads PROVE JobFits(q)'
    BY DEF JobsFit
  <2>1. CASE q = r
    <3>1. stage'[q] = "loaded" /\ task'[q] = j
      BY <2>1, <1>5 DEF IInv, TenancyTypeOK
    <3>2. j.op \in {"archive", "delete", "restore"} \cup Operators => Row(j.project)
      BY <1>1 DEF Accepts, Findable, Row, Operators, OnOrg
    <3>3. j.op = "create" => ~Row(j.project) /\ BelowLimit
      BY <1>1 DEF Accepts, Operators, OnOrg
    <3> QED BY <1>2, <3>1, <3>2, <3>3
         DEF JobFits, Row, BelowLimit, Live, Findable, projects
  <2>2. CASE q # r
    <3>1. stage'[q] = stage[q] /\ task'[q] = task[q]
      BY <2>2, <1>5 DEF IInv, TenancyTypeOK
    <3> QED BY <1>2, <3>1
         DEF IInv, JobsFit, JobFits, Row, BelowLimit, Live, Findable, projects
  <2> QED BY <2>1, <2>2
<1>9. BlockStopsDeploys' /\ RulingsAgree'
  BY <1>2, <1>4, <1>5 DEF IInv, TenancyTypeOK, BlockStopsDeploys, RulingsAgree, projects
<1>10. SweepFits' /\ ErasedFits'
  BY <1>1, <1>2 DEF IInv, SweepFits, ErasedFits, Erasing, tenant, projects, erasure
<1> QED BY <1>3, <1>7, <1>8, <1>9, <1>10 DEF IInv, NobodyShows, ErasureHides, Erasing

-----------------------------------------------------------------------------
(* Handlers write.                                                         *)

\* Who writes alone finds no other transaction open.
LEMMA WritesAlone ==
    ASSUME Setting, IInv, NEW r \in Threads, NEW op, Saves(r, op), EndTask(r)
    PROVE  /\ task[r].op = op /\ stage[r] = "loaded"
           /\ sweep = "idle" /\ orgStatus # "erased"
           /\ \A q \in Threads : stage'[q] = "loaded" =>
                 task'[q].op \notin {"create", "archive", "delete", "restore"}
<1>1. task[r].op = op /\ stage[r] = "loaded" /\ Alone(r)
  BY DEF Saves
<1>2. sweep = "idle" /\ \A q \in Threads \ {r} : ~InTransaction(q)
  BY <1>1 DEF Alone, Setting
<1>3. orgStatus # "erased"
  BY <1>1 DEF IInv, ErasedFits, AllIdle
<1>4. ASSUME NEW q \in Threads, stage'[q] = "loaded"
      PROVE  task'[q].op \notin {"create", "archive", "delete", "restore"}
  <2>1. q # r /\ stage[q] = "loaded" /\ task'[q] = task[q]
    BY <1>4, AfterEnd DEF IInv
  <2>2. ~InTransaction(q)
    BY <1>2, <2>1
  <2> QED BY <2>1, <2>2 DEF InTransaction, Transactions
<1> QED BY <1>1, <1>2, <1>3, <1>4

\* What a handler that writes leaves of the other handlers.
LEMMA WriterLeaves ==
    ASSUME Setting, IInv, NEW r \in Threads, NEW op, Saves(r, op), EndTask(r),
           \A p \in Projects : Row(p) => Row(p)'
    PROVE  /\ JobsFit'
           /\ Erasing' => \A q \in Threads :
                 stage'[q] = "loaded" => task'[q].op \notin {"create", "restore"}
<1>1. ASSUME NEW q \in Threads PROVE JobFits(q)'
  <2>1. CASE q = r
    BY <2>1, AfterEnd DEF IInv, JobFits
  <2>2. CASE q # r
    <3>1. stage'[q] = stage[q] /\ task'[q] = task[q]
      BY <2>2, AfterEnd DEF IInv
    <3>2. stage[q] # "idle" /\ task[q].op \in OnProject => task[q].project \in Projects
      BY JobProject DEF IInv
    <3>3. stage'[q] = "loaded" => task'[q].op # "create"
      BY WritesAlone
    <3>4. JobFits(q)
      BY DEF IInv, JobsFit
    <3> QED BY <3>1, <3>2, <3>3, <3>4 DEF JobFits, OnProject, Transactions, Row
  <2> QED BY <2>1, <2>2
<1>2. \A q \in Threads :
         stage'[q] = "loaded" => task'[q].op \notin {"create", "restore"}
  BY WritesAlone
<1> QED BY <1>1, <1>2 DEF JobsFit

LEMMA CreateIInv ==
    ASSUME Setting, IInv, NEW r \in Threads, CreateProject(r)
    PROVE  IInv' /\ Cardinality(Live') <= Limit
<1> DEFINE p == task[r].project
<1>1. /\ Saves(r, "create") /\ EndTask(r)
      /\ status' = [status EXCEPT ![p] = "active"]
      /\ UNCHANGED <<tenant, hidden, abuse, ruling, erasure>>
  BY DEF CreateProject
<1>2. /\ task[r].op = "create" /\ stage[r] = "loaded"
      /\ sweep = "idle" /\ orgStatus # "erased"
  BY <1>1, WritesAlone
<1>3. p \in Projects /\ ~Row(p) /\ BelowLimit
  BY <1>2, JobProject DEF IInv, JobsFit, JobFits, OnProject, Transactions
<1>4. ~Erasing /\ ~Erasing'
  BY <1>1, <1>2 DEF IInv, NobodyShows, Erasing, erasure
<1>5. HandlersTyped'
  BY <1>1, AfterEnd DEF IInv
<1>6. TenancyTypeOK'
  BY <1>1, <1>3, <1>5
     DEF IInv, TenancyTypeOK, HandlersTyped, Copies, tenant, erasure, ProjectStatuses
<1>7. \A q \in Projects : Row(q) => Row(q)'
  BY <1>1, <1>3 DEF Row, IInv, TenancyTypeOK
<1>8. JobsFit'
  BY <1>1, <1>7, WriterLeaves
<1>9. SweepFits' /\ ErasedFits'
  BY <1>1, <1>2, <1>4 DEF IInv, SweepFits, ErasedFits, Erasing, tenant, erasure
<1>10. RulingsAgree' /\ BlockStopsDeploys'
  BY <1>1, AfterEnd, NothingTyped DEF IInv, RulingsAgree, BlockStopsDeploys, Nothing
<1>11. Cardinality(Live') <= Limit
  <2>1. IsFiniteSet(Live)
    BY FS_Subset DEF Setting, Live
  <2>2. Live' = Live \cup {p}  \/ Live' = Live
    BY <1>1, <1>3 DEF Live, Findable, Row, IInv, TenancyTypeOK
  <2>3. Cardinality(Live \cup {p}) <= Cardinality(Live) + 1 /\ Cardinality(Live) \in Nat
    <3>1. Cardinality(Live) \in Nat
      BY <2>1, FS_CardinalityType
    <3>2. Cardinality(Live \cup {p}) =
             IF p \in Live THEN Cardinality(Live) ELSE Cardinality(Live) + 1
      BY <2>1, FS_AddElement
    <3> QED BY <3>1, <3>2, SMT
  <2>4. Cardinality(Live) < Limit
    BY <1>3 DEF BelowLimit
  <2>5. Limit \in Nat
    BY DEF Setting
  <2>6. Cardinality(Live \cup {p}) <= Limit /\ Cardinality(Live) <= Limit
    <3>1. \A m, n, l \in Nat : m <= n + 1 /\ n < l => m <= l /\ n <= l
      BY SMT
    <3>2. Cardinality(Live \cup {p}) \in Nat
      BY <2>1, FS_AddElement, FS_CardinalityType
    <3> QED BY <2>3, <2>4, <2>5, <3>1, <3>2
  <2> QED BY <2>2, <2>6
<1> QED BY <1>4, <1>6, <1>8, <1>9, <1>10, <1>11
        DEF IInv, NobodyShows, ErasureHides, Erasing

\* The writes of members and operators to a project that is there.
ProjectWrite(r) ==
    \/ ArchiveProject(r) \/ DeleteProject(r) \/ RestoreProject(r)
    \/ FlagProject(r) \/ BlockProject(r) \/ UnblockProject(r)

LEMMA ProjectWriteIInv ==
    ASSUME Setting, IInv, NEW r \in Threads, ProjectWrite(r)
    PROVE  IInv' /\ \A p \in Projects : ~Row(p) => ~Row(p)'
<1> DEFINE p == task[r].project
<1>1. PICK op \in {"archive", "delete", "restore"} \cup Operators : Saves(r, op)
  BY DEF ProjectWrite, ArchiveProject, DeleteProject, RestoreProject, FlagProject,
         BlockProject, UnblockProject, Operators
<1>2. EndTask(r) /\ UNCHANGED <<tenant, erasure>>
  BY DEF ProjectWrite, ArchiveProject, DeleteProject, RestoreProject, FlagProject,
         BlockProject, UnblockProject
<1>3. /\ task[r].op = op /\ stage[r] = "loaded"
      /\ sweep = "idle" /\ orgStatus # "erased"
  BY <1>1, <1>2, WritesAlone
<1>4. p \in Projects /\ Row(p)
  BY <1>3, JobProject DEF IInv, JobsFit, JobFits, OnProject, Transactions
<1>5. \/ status' = status
      \/ \E s \in ProjectStatuses \ {"none"} : status' = [status EXCEPT ![p] = s]
  BY DEF ProjectWrite, ArchiveProject, DeleteProject, RestoreProject, FlagProject,
         BlockProject, UnblockProject, ProjectStatuses
<1>6. hidden' = hidden \/ hidden' = hidden \cup {p}
         \/ (hidden' = hidden \ {p} /\ Saves(r, "restore"))
  BY DEF ProjectWrite, ArchiveProject, DeleteProject, RestoreProject, FlagProject,
         BlockProject, UnblockProject
<1>7. \/ abuse' = abuse /\ ruling' = ruling
      \/ \E v \in AbuseStatuses : /\ abuse' = [abuse EXCEPT ![p] = v]
                                 /\ ruling' = [ruling EXCEPT ![p] = v]
  BY DEF ProjectWrite, ArchiveProject, DeleteProject, RestoreProject, FlagProject,
         BlockProject, UnblockProject, AbuseStatuses
<1> HIDE DEF p
<1>8. \A q \in Projects : Row(q) <=> Row(q)'
  BY <1>4, <1>5 DEF Row, IInv, TenancyTypeOK
<1>9. HandlersTyped'
  BY <1>2, AfterEnd DEF IInv
<1>10. TenancyTypeOK'
  <2>1. status' \in [Projects -> ProjectStatuses]
    BY <1>4, <1>5 DEF IInv, TenancyTypeOK
  <2>2. abuse' \in [Projects -> AbuseStatuses] /\ ruling' \in [Projects -> AbuseStatuses]
    BY <1>4, <1>7 DEF IInv, TenancyTypeOK
  <2>3. hidden' \subseteq Projects
    BY <1>4, <1>6 DEF IInv, TenancyTypeOK
  <2> QED BY <1>2, <1>9, <2>1, <2>2, <2>3
          DEF IInv, TenancyTypeOK, HandlersTyped, Copies, tenant, erasure
<1>11. /\ JobsFit'
       /\ Erasing' => \A q \in Threads :
             stage'[q] = "loaded" => task'[q].op \notin {"create", "restore"}
  BY <1>1, <1>2, <1>8, WriterLeaves
<1>12. SweepFits' /\ ErasedFits'
  BY <1>2, <1>3 DEF IInv, SweepFits, ErasedFits, Erasing, tenant, erasure
<1>13. RulingsAgree'
  <2>1. ruling' = abuse'
    BY <1>7 DEF IInv, RulingsAgree
  <2>2. \A q \in Threads : loaded'[q].ruling = loaded'[q].abuse
    BY <1>2, AfterEnd DEF IInv, RulingsAgree, Nothing
  <2> QED BY <2>1, <2>2 DEF RulingsAgree
<1>14. BlockStopsDeploys'
  BY <1>2, AfterEnd DEF IInv, BlockStopsDeploys, Nothing
<1>15. ErasureHides'
  <2> SUFFICES ASSUME Erasing PROVE orgHidden' /\ \A q \in Projects : Row(q)' => q \in hidden'
    BY <1>2 DEF ErasureHides, Erasing, erasure
  <2>1. ~Saves(r, "restore")
    BY <1>3 DEF IInv, NobodyShows, Saves
  <2>2. hidden \subseteq hidden'
    BY <1>6, <2>1
  <2> QED BY <1>2, <1>8, <2>2 DEF IInv, ErasureHides, Erasing, tenant
<1> QED BY <1>8, <1>10, <1>11, <1>12, <1>13, <1>14, <1>15 DEF IInv, NobodyShows

-----------------------------------------------------------------------------
(* The organization, deploys and sweeps.                                   *)

LEMMA OrganizationWriteIInv ==
    ASSUME Setting, IInv, NEW r \in Threads,
           BlockOrganization(r) \/ UnblockOrganization(r) \/ CloseOrganization(r)
    PROVE  IInv' /\ UNCHANGED projects
<1>1. PICK op \in OnOrg : Saves(r, op)
  BY DEF BlockOrganization, UnblockOrganization, CloseOrganization, OnOrg
<1>2. EndTask(r) /\ UNCHANGED <<projects, erasure>>
  BY DEF BlockOrganization, UnblockOrganization, CloseOrganization
<1>3. sweep = "idle" /\ orgStatus # "erased"
  BY <1>1, <1>2, WritesAlone
<1>4. /\ orgStatus' \in {"active", "suspended", "deleted"}
      /\ orgHidden' \in BOOLEAN /\ (orgHidden => orgHidden')
      /\ orgAbuse' \in {"clear", "blocked"} /\ orgRuling' \in {"clear", "blocked"}
  BY DEF BlockOrganization, UnblockOrganization, CloseOrganization, IInv, TenancyTypeOK
<1>5. TenancyTypeOK'
  <2>1. HandlersTyped'
    BY <1>2, AfterEnd DEF IInv
  <2> QED BY <1>2, <1>4, <2>1
          DEF IInv, TenancyTypeOK, HandlersTyped, Copies, projects, erasure
<1>6. \A p \in Projects : Row(p) <=> Row(p)'
  BY <1>2 DEF Row, projects
<1>7. /\ JobsFit'
      /\ Erasing' => \A q \in Threads :
            stage'[q] = "loaded" => task'[q].op \notin {"create", "restore"}
  BY <1>1, <1>2, <1>6, WriterLeaves
<1>8. SweepFits' /\ ErasedFits'
  BY <1>2, <1>3, <1>4 DEF IInv, SweepFits, ErasedFits, Erasing, erasure
<1>9. RulingsAgree' /\ BlockStopsDeploys'
  BY <1>2, AfterEnd DEF IInv, RulingsAgree, BlockStopsDeploys, Nothing, projects
<1>10. ErasureHides'
  <2>1. Erasing' <=> Erasing
    BY <1>2 DEF Erasing, erasure
  <2>2. hidden' = hidden
    BY <1>2 DEF projects
  <2>3. Erasing => orgHidden /\ \A p \in Projects : Row(p) => p \in hidden
    BY DEF IInv, ErasureHides, Erasing
  <2>4. Erasing' => orgHidden' /\ \A p \in Projects : Row(p)' => p \in hidden'
    BY <1>4, <1>6, <2>1, <2>2, <2>3
  <2> QED BY <2>4 DEF ErasureHides, Erasing
<1> QED BY <1>2, <1>5, <1>7, <1>8, <1>9, <1>10 DEF IInv, NobodyShows

LEMMA EraseIInv ==
    ASSUME Setting, IInv, NEW r \in Threads, RequestErasure(r)
    PROVE  IInv' /\ \A p \in Projects : ~Row(p) => ~Row(p)'
<1>1. /\ Saves(r, "erase") /\ EndTask(r)
      /\ deletion' = [deletion EXCEPT ![r] = "soft_deleted"]
      /\ orgStatus' = "pending_deletion" /\ orgHidden' = TRUE
      /\ status' = [p \in Projects |-> IF Row(p) /\ p \notin hidden THEN "pending_deletion"
                                       ELSE status[p]]
      /\ hidden' = {p \in Projects : Row(p)}
      /\ UNCHANGED <<orgAbuse, orgRuling, abuse, ruling, sweep, files, failures>>
  BY DEF RequestErasure
<1>2. sweep = "idle" /\ orgStatus # "erased"
  BY <1>1, WritesAlone
<1>3. \A p \in Projects : Row(p) <=> Row(p)'
  BY <1>1 DEF Row
<1>4. TenancyTypeOK'
  <2>1. HandlersTyped'
    BY <1>1, AfterEnd DEF IInv
  <2>2. status' \in [Projects -> ProjectStatuses]
    BY <1>1 DEF IInv, TenancyTypeOK, ProjectStatuses
  <2>3. deletion' \in [Threads -> {"none", "soft_deleted", "hard_deleted"}]
    BY <1>1 DEF IInv, TenancyTypeOK
  <2> QED BY <1>1, <2>1, <2>2, <2>3 DEF IInv, TenancyTypeOK, HandlersTyped, Copies
<1>5. /\ JobsFit'
      /\ Erasing' => \A q \in Threads :
            stage'[q] = "loaded" => task'[q].op \notin {"create", "restore"}
  BY <1>1, <1>3, WriterLeaves
<1>6. SweepFits' /\ ErasedFits'
  <2>1. \A q \in Threads : deletion[q] # "hard_deleted"
    BY <1>2 DEF IInv, ErasedFits
  <2>2. \A q \in Threads : deletion'[q] # "hard_deleted"
    BY <1>1, <2>1 DEF IInv, TenancyTypeOK
  <2> QED BY <1>1, <1>2, <2>2 DEF SweepFits, ErasedFits
<1>7. RulingsAgree' /\ BlockStopsDeploys'
  BY <1>1, AfterEnd DEF IInv, RulingsAgree, BlockStopsDeploys, Nothing
<1>8. ErasureHides'
  BY <1>1, <1>3 DEF ErasureHides
<1> QED BY <1>3, <1>4, <1>5, <1>6, <1>7, <1>8 DEF IInv, NobodyShows

LEMMA DeployIInv ==
    ASSUME Setting, IInv, NEW r \in Threads, CheckDeploy(r) \/ Publish(r)
    PROVE  IInv' /\ UNCHANGED projects
<1>1. UNCHANGED <<tenant, projects, deletion, sweep, failures>>
  BY DEF CheckDeploy, Publish, erasure
<1>2. stage[r] # "idle" /\ task[r].op = "deploy"
  BY DEF CheckDeploy, Publish, IInv, TenancyTypeOK
<1>3. sweep # "unlinked" /\ orgStatus # "erased"
  BY <1>2 DEF IInv, SweepFits, ErasedFits, AllIdle
<1>4. files' \subseteq Projects
  <2>1. task[r].project \in Projects
    BY <1>2, JobProject DEF IInv, OnProject
  <2> QED BY <2>1 DEF IInv, TenancyTypeOK, CheckDeploy, Publish, erasure
<1>5. \/ EndTask(r)
      \/ /\ stage' = [stage EXCEPT ![r] = "deploying"]
         /\ CanDeploy(loaded[r])
         /\ UNCHANGED <<task, loaded>>
  BY DEF CheckDeploy, Publish
<1>6. /\ HandlersTyped'
      /\ \A q \in Threads : stage'[q] = "loaded" => q # r /\ stage[q] = "loaded"
      /\ \A q \in Threads : q # r => stage'[q] = stage[q] /\ task'[q] = task[q]
      /\ \A q \in Threads : loaded'[q] \in {loaded[q], Nothing}
      /\ stage'[r] = "idle" \/ task'[r] = task[r]
  <2>1. CASE EndTask(r)
    BY <2>1, AfterEnd DEF IInv
  <2>2. CASE stage' = [stage EXCEPT ![r] = "deploying"] /\ UNCHANGED <<task, loaded>>
    <3>1. HandlersTyped /\ task[r] # NoTask
      BY <1>2, TypeParts DEF IInv, TenancyTypeOK
    <3> QED BY <1>2, <2>2, <3>1 DEF HandlersTyped
  <2> QED BY <1>5, <2>1, <2>2
<1>7. TenancyTypeOK'
  BY <1>1, <1>4, <1>6
     DEF IInv, TenancyTypeOK, HandlersTyped, Copies, tenant, projects
<1>8. JobsFit'
  <2> SUFFICES ASSUME NEW q \in Threads PROVE JobFits(q)'
    BY DEF JobsFit
  <2>1. CASE q = r
    BY <1>2, <1>6, <2>1 DEF JobFits, Operators
  <2>2. CASE q # r
    BY <1>1, <1>6, <2>2
       DEF IInv, JobsFit, JobFits, Row, BelowLimit, Live, Findable, projects
  <2> QED BY <2>1, <2>2
<1>9. NobodyShows'
  BY <1>1, <1>6 DEF IInv, NobodyShows, Erasing
<1>10. SweepFits' /\ ErasedFits'
  BY <1>1, <1>3 DEF IInv, SweepFits, ErasedFits, tenant
<1>11. RulingsAgree'
  BY <1>1, <1>6 DEF IInv, RulingsAgree, Nothing, projects
<1>12. BlockStopsDeploys'
  <2> SUFFICES ASSUME NEW q \in Threads, stage'[q] = "deploying"
               PROVE  loaded'[q].ruling # "blocked"
    BY DEF BlockStopsDeploys
  <2>1. CASE q = r
    <3>1. ~EndTask(r)
      BY <2>1, AfterEnd DEF IInv
    <3>2. loaded' = loaded /\ loaded[r].abuse # "blocked"
      BY <1>5, <3>1 DEF CanDeploy
    <3> QED BY <2>1, <3>2 DEF IInv, RulingsAgree
  <2>2. CASE q # r
    <3>1. stage[q] = "deploying"
      BY <1>6, <2>2
    <3> QED BY <1>6, <3>1 DEF IInv, BlockStopsDeploys, Nothing
  <2> QED BY <2>1, <2>2
<1>13. ErasureHides'
  BY <1>1 DEF IInv, ErasureHides, Row, tenant, projects
<1> QED BY <1>1, <1>7, <1>8, <1>9, <1>10, <1>11, <1>12, <1>13 DEF IInv

LEMMA SweepIInv ==
    ASSUME Setting, IInv, Sweep
    PROVE  IInv' /\ \A p \in Projects : ~Row(p) => ~Row(p)'
<1>1. AllIdle /\ UNCHANGED handlers
  BY DEF Sweep, Unlink, UnlinkFails, SweepDies, FinalizeDeletion, SweepStarts, AllIdle,
         IInv, SweepFits
<1>2. JobsFit' /\ BlockStopsDeploys'
  BY <1>1 DEF JobsFit, JobFits, BlockStopsDeploys, AllIdle, handlers
<1>3. \A r \in Threads : loaded'[r].ruling = loaded'[r].abuse
  BY <1>1 DEF IInv, RulingsAgree, handlers
<1>4. orgStatus # "erased" /\ Erasing
  BY DEF Sweep, Unlink, UnlinkFails, SweepDies, FinalizeDeletion, SweepStarts, Erasing,
         IInv, SweepFits, ErasedFits
<1>5. CASE Unlink \/ UnlinkFails \/ SweepDies
  <2>1. UNCHANGED <<tenant, projects, deletion>>
    BY <1>5 DEF Unlink, UnlinkFails, SweepDies
  <2>2. failures' \in 0..MaxFailures
    BY <1>5, SMT DEF Unlink, UnlinkFails, SweepDies, IInv, TenancyTypeOK, Setting
  <2>3. files' \subseteq files
    BY <1>5 DEF Unlink, UnlinkFails, SweepDies
  <2>4. sweep' \in {"idle", "unlinked"} /\ (sweep' = "unlinked" => Swept')
    BY <1>5 DEF Unlink, UnlinkFails, SweepDies, SweepStarts, Unlinkable, Swept
  <2>5. TenancyTypeOK'
    BY <1>1, <2>1, <2>2, <2>3, <2>4
       DEF IInv, TenancyTypeOK, tenant, projects, handlers
  <2>6. SweepFits' /\ ErasedFits'
    BY <1>1, <1>4, <2>1, <2>4
       DEF IInv, SweepFits, ErasedFits, Erasing, AllIdle, tenant, projects, handlers
  <2>7. RulingsAgree' /\ ErasureHides' /\ NobodyShows'
    BY <1>1, <1>3, <2>1
       DEF IInv, RulingsAgree, ErasureHides, NobodyShows, Erasing, Row, AllIdle,
           tenant, projects, handlers
  <2> QED BY <1>2, <2>1, <2>5, <2>6, <2>7 DEF IInv, Row, projects
<1>6. CASE FinalizeDeletion
  <2>1. /\ sweep' = "idle" /\ orgStatus' = "erased" /\ hidden' = {}
        /\ status' = [p \in Projects |-> "none"]
        /\ abuse' = [p \in Projects |-> "clear"] /\ ruling' = [p \in Projects |-> "clear"]
        /\ UNCHANGED <<orgHidden, orgAbuse, orgRuling, files, failures, handlers>>
    BY <1>6 DEF FinalizeDeletion
  <2>2. PICK due \in SUBSET {r \in Threads : deletion[r] = "soft_deleted"} :
           /\ due # {}
           /\ deletion' = [r \in Threads |-> IF r \in due THEN "hard_deleted"
                                              ELSE deletion[r]]
    BY <1>6 DEF FinalizeDeletion
  <2>3. Erasing' /\ deletion' \in [Threads -> {"none", "soft_deleted", "hard_deleted"}]
    BY <2>2 DEF Erasing, IInv, TenancyTypeOK
  <2>4. \A p \in Projects : ~Row(p)'
    BY <2>1 DEF Row
  <2>5. TenancyTypeOK'
    BY <2>1, <2>3
       DEF IInv, TenancyTypeOK, ProjectStatuses, AbuseStatuses, handlers
  <2>6. Swept
    BY <1>6 DEF FinalizeDeletion, IInv, SweepFits
  <2>7. SweepFits' /\ ErasedFits'
    BY <1>1, <2>1, <2>3, <2>4, <2>6
       DEF SweepFits, ErasedFits, Swept, AllIdle, handlers
  <2>8. RulingsAgree'
    BY <1>3, <2>1 DEF RulingsAgree
  <2>9. NobodyShows'
    BY <1>1 DEF NobodyShows, AllIdle, handlers
  <2>10. ErasureHides'
    BY <1>4, <2>1, <2>4 DEF IInv, ErasureHides, Erasing
  <2> QED BY <1>2, <2>4, <2>5, <2>7, <2>8, <2>9, <2>10 DEF IInv
<1> QED BY <1>5, <1>6 DEF Sweep

-----------------------------------------------------------------------------

LEMMA StepIInv ==
    ASSUME Setting, IInv, [TenancyNext]_tenancyVars
    PROVE  /\ IInv'
           /\ \/ Cardinality(Live') <= Limit
              \/ \A p \in Projects : ~Row(p) => ~Row(p)'
<1>1. CASE UNCHANGED tenancyVars
  BY <1>1, ZenonT(30)
  DEF tenancyVars, tenant, projects, erasure, handlers, IInv, TenancyTypeOK, JobsFit,
     JobFits, NobodyShows, SweepFits, ErasedFits, Swept, RulingsAgree, BlockStopsDeploys,
     ErasureHides, Erasing, AllIdle, Row, BelowLimit, Live, Findable
<1>2. CASE \E r \in Threads : \E j \in Tasks : Arrive(r, j)
  BY <1>2, ArriveIInv DEF Arrive, projects, Row
<1>3. CASE \E r \in Threads : Serve(r)
  <2> PICK r \in Threads : Serve(r)
    BY <1>3
  <2>1. CASE CreateProject(r)
    BY <2>1, CreateIInv
  <2>2. CASE ProjectWrite(r)
    BY <2>2, ProjectWriteIInv
  <2>3. CASE BlockOrganization(r) \/ UnblockOrganization(r) \/ CloseOrganization(r)
    BY <2>3, OrganizationWriteIInv DEF projects, Row
  <2>4. CASE CheckDeploy(r) \/ Publish(r)
    BY <2>4, DeployIInv DEF projects, Row
  <2>5. CASE RequestErasure(r)
    BY <2>5, EraseIInv
  <2> QED BY <2>1, <2>2, <2>3, <2>4, <2>5 DEF Serve, ProjectWrite
<1>4. CASE Sweep
  BY <1>4, SweepIInv
<1> QED BY <1>1, <1>2, <1>3, <1>4 DEF TenancyNext, TenantIsGone

\* A deploy that was sent after the operators' block does not run, whatever members and
\* operators did to the project meanwhile (abuse.py:120).
THEOREM BlockHolds == ASSUME Setting
                     PROVE  TenancySpec => [](TenancyTypeOK /\ BlockStopsDeploys)
<1>1. TenancyInit => IInv
  BY InitIInv
<1>2. IInv /\ [TenancyNext]_tenancyVars => IInv'
  BY StepIInv
<1>3. IInv => TenancyTypeOK /\ BlockStopsDeploys
  BY DEF IInv
<1> QED BY <1>1, <1>2, <1>3, PTL DEF TenancySpec

\* Nothing of an organization that is being erased can be found again, and when the
\* erasure is reported its rows are gone, and its files where the backend is the local
\* root (data_protection.py:188, 272).
THEOREM ErasureIsFinal == ASSUME Setting PROVE TenancySpec => []ErasureHolds
<1>1. TenancyInit => IInv
  BY InitIInv
<1>2. IInv /\ [TenancyNext]_tenancyVars => IInv'
  BY StepIInv
<1>3. IInv => ErasureHolds
  BY DEF IInv, ErasedFits, Swept, ErasureHolds, ErasedLeavesNothing, Reported
<1> QED BY <1>1, <1>2, <1>3, PTL DEF TenancySpec

\* A creation leaves no more projects than the plan allows (project_views.py:58).
THEOREM LimitHolds == ASSUME Setting PROVE TenancySpec => CreationKeepsLimit
<1>1. TenancyInit => IInv
  BY InitIInv
<1>2. IInv /\ [TenancyNext]_tenancyVars => IInv'
  BY StepIInv
<1>3. IInv /\ [TenancyNext]_tenancyVars =>
         [(\E p \in Projects : ~Row(p) /\ status'[p] # "none")
             => Cardinality(Live') <= Limit]_tenancyVars
  BY StepIInv DEF Row
<1> QED BY <1>1, <1>2, <1>3, PTL DEF TenancySpec, CreationKeepsLimit

=============================================================================
