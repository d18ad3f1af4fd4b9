------------------------------- MODULE Backups -------------------------------
(***************************************************************************)
(* create_backup and restore_to_staging (backups.py) while static releases *)
(* are deployed and organizations erased.  A backup is no snapshot: it     *)
(* dumps the database, walks over the release files and writes one         *)
(* encrypted archive, one component after the other.                       *)
(***************************************************************************)
EXTENDS Naturals, Sequences

CONSTANTS
    Releases,     \* static releases that may be deployed
    Archives,     \* backup ids, one for each run
    MaxCrashes    \* bound on backups that die or raise

ASSUME ArchivesAssumption == "none" \notin Archives /\ MaxCrashes \in Nat

VARIABLES
    storage,      \* releases whose files are on the storage
    rows,         \* releases the database knows
    unlinked,     \* releases whose files an erasure has removed
    step,         \* how far the backup is, 0 when none runs
    target,       \* the archive it will write
    dump,         \* rows of its dump
    walked,       \* releases that were on the storage when its walk began
    copied,       \* releases whose files it has copied
    archive,      \* the archives in the output directory
    old,          \* those whose retention is over
    taken,        \* some backup has returned
    staging,      \* what was restored last
    crashes

platform == <<storage, rows, unlinked>>
payload  == <<dump, walked, copied>>
backupVars == <<platform, step, target, payload, archive, old, taken, staging, crashes>>

\* An archive; `erased` is not in it but tells what an erasure had removed by the time it
\* was written.
None    == [kind |-> "none", rows |-> {}, files |-> {}, erased |-> {}]
Partial == [kind |-> "partial", rows |-> {}, files |-> {}, erased |-> {}]
Contents == [kind : {"none", "partial", "complete"}, rows : SUBSET Releases,
             files : SUBSET Releases, erased : SUBSET Releases]

\* Slip: the files are copied before the rows are dumped.
FilesFirst == <<"copy", "dump", "read", "write", "retain">>

\* Slip: room is made before the new archive is written.
RetainFirst == <<"dump", "read", "copy", "retain", "write">>

\* The steps of create_backup; those that read nothing others change are left out.
Order == <<"dump", "read", "copy", "write", "retain">>

BackupTypeOK ==
    /\ storage \subseteq Releases /\ rows \subseteq Releases /\ unlinked \subseteq Releases
    /\ step \in 0..Len(Order) + 1
    /\ target \in Archives \cup {"none"}
    /\ dump \subseteq Releases /\ walked \subseteq Releases /\ copied \subseteq Releases
    /\ archive \in [Archives -> Contents]
    /\ old \subseteq Archives /\ taken \in BOOLEAN
    /\ staging \in Contents /\ crashes \in 0..MaxCrashes

BackupInit ==
    /\ storage = {} /\ rows = {} /\ unlinked = {}
    /\ step = 0 /\ target = "none"
    /\ dump = {} /\ walked = {} /\ copied = {}
    /\ archive = [a \in Archives |-> None]
    /\ old = {} /\ taken = FALSE
    /\ staging = None /\ crashes = 0

-----------------------------------------------------------------------------
(* The platform meanwhile.                                                 *)

\* A deploy uploads the files before it writes the row.
UploadRelease(x) ==
    /\ x \notin storage /\ x \notin rows /\ x \notin unlinked
    /\ storage' = storage \cup {x}
    /\ UNCHANGED <<rows, unlinked, step, target, payload, archive, old, taken, staging, crashes>>

RecordRelease(x) ==
    /\ x \in storage /\ x \notin rows
    /\ rows' = rows \cup {x}
    /\ UNCHANGED <<storage, unlinked, step, target, payload, archive, old, taken, staging,
                   crashes>>

\* finalize_expired_deletions removes the files, and the rows when it commits.
UnlinkRelease(x) ==
    /\ x \in storage /\ x \in rows
    /\ storage' = storage \ {x}
    /\ unlinked' = unlinked \cup {x}
    /\ UNCHANGED <<rows, step, target, payload, archive, old, taken, staging, crashes>>

ForgetRelease(x) ==
    /\ x \in unlinked /\ x \in rows
    /\ rows' = rows \ {x}
    /\ UNCHANGED <<storage, unlinked, step, target, payload, archive, old, taken, staging,
                   crashes>>

-----------------------------------------------------------------------------
(* create_backup                                                           *)

At(what) == step \in 1..Len(Order) /\ Order[step] = what

StartBackup(a) ==
    /\ step = 0 /\ archive[a].kind = "none" /\ a \notin old
    /\ step' = 1 /\ target' = a
    /\ UNCHANGED <<platform, payload, archive, old, taken, staging, crashes>>

\* _backup_postgresql: pg_dump reads the rows as they are when it begins.
DumpRows ==
    /\ At("dump")
    /\ dump' = rows
    /\ step' = step + 1
    /\ UNCHANGED <<platform, target, walked, copied, archive, old, taken, staging, crashes>>

\* Without pg_dump, dumpdata reads table after table outside of any transaction: a row
\* that comes or goes meanwhile is in the dump or not.
DumpMeanwhile(x) ==
    /\ At("read")
    /\ \/ x \in rows \ dump /\ dump' = dump \cup {x}
       \/ x \in dump \ rows /\ dump' = dump \ {x}
    /\ UNCHANGED <<platform, step, target, walked, copied, archive, old, taken, staging, crashes>>

EndDump ==
    /\ At("read")
    /\ step' = step + 1
    /\ UNCHANGED <<platform, target, payload, archive, old, taken, staging, crashes>>

\* _backup_deployment_files walks over the storage; what comes or goes under the walk
\* may be copied or not.
BeginWalk ==
    /\ At("copy") /\ walked = {} /\ copied = {}
    /\ walked' = storage
    /\ storage # {}
    /\ UNCHANGED <<platform, step, target, dump, copied, archive, old, taken, staging, crashes>>

CopyFiles(x) ==
    /\ At("copy") /\ walked # {}
    /\ x \in storage \ copied
    /\ copied' = copied \cup {x}
    /\ UNCHANGED <<platform, step, target, dump, walked, archive, old, taken, staging, crashes>>

EndWalk ==
    /\ At("copy")
    /\ IF walked = {} THEN storage = {} ELSE walked \cap storage \subseteq copied
    /\ step' = step + 1
    /\ UNCHANGED <<platform, target, payload, archive, old, taken, staging, crashes>>

\* write_bytes is not atomic: who reads the file meanwhile finds a part of it.
BeginWrite ==
    /\ At("write") /\ archive[target].kind = "none"
    /\ archive' = [archive EXCEPT ![target] = Partial]
    /\ UNCHANGED <<platform, step, target, payload, old, taken, staging, crashes>>

EndWrite ==
    /\ At("write") /\ archive[target].kind = "partial"
    /\ archive' = [archive EXCEPT ![target] = [kind |-> "complete", rows |-> dump,
                                               files |-> copied, erased |-> unlinked]]
    /\ step' = step + 1
    /\ UNCHANGED <<platform, target, payload, old, taken, staging, crashes>>

\* _apply_retention, unless the settings keep everything.
ApplyRetention ==
    /\ At("retain")
    /\ archive' \in {archive, [a \in Archives |-> IF a \in old THEN None ELSE archive[a]]}
    /\ step' = step + 1
    /\ UNCHANGED <<platform, target, payload, old, taken, staging, crashes>>

Clean ==
    /\ step' = 0 /\ target' = "none"
    /\ dump' = {} /\ walked' = {} /\ copied' = {}

ReturnBackup ==
    /\ step = Len(Order) + 1
    /\ taken' = TRUE
    /\ Clean
    /\ UNCHANGED <<platform, archive, old, staging, crashes>>

\* It dies, or raises: the dump fails, a file vanishes before it is copied.  Its
\* temporary directory is dropped, what it has written to the output stays.
BackupDies ==
    /\ step # 0 /\ crashes < MaxCrashes
    /\ crashes' = crashes + 1
    /\ Clean
    /\ UNCHANGED <<platform, archive, old, taken, staging>>

\* Days pass between two backups.
RetentionPasses ==
    /\ step = 0
    /\ old' = {a \in Archives : archive[a].kind # "none"}
    /\ old' # old
    /\ UNCHANGED <<platform, step, target, payload, archive, taken, staging, crashes>>

-----------------------------------------------------------------------------

\* restore_to_staging: verify_backup refuses what cannot be decrypted, and production
\* is refused before.
RestoreToStaging(a) ==
    /\ archive[a].kind = "complete"
    /\ staging' = archive[a]
    /\ UNCHANGED <<platform, step, target, payload, archive, old, taken, crashes>>

Backup ==
    \/ DumpRows \/ EndDump \/ BeginWalk \/ EndWalk \/ BeginWrite \/ EndWrite
    \/ ApplyRetention \/ ReturnBackup

\* Nothing is left to deploy and no id to back it up under.
Rest ==
    /\ step = 0 /\ \A a \in Archives : archive[a].kind # "none" \/ a \in old
    /\ UNCHANGED backupVars

BackupNext ==
    \/ \E x \in Releases :
          \/ UploadRelease(x) \/ RecordRelease(x) \/ UnlinkRelease(x) \/ ForgetRelease(x)
          \/ DumpMeanwhile(x) \/ CopyFiles(x)
    \/ \E a \in Archives : StartBackup(a) \/ RestoreToStaging(a)
    \/ Backup \/ BackupDies \/ RetentionPasses
    \/ Rest

BackupSpec == BackupInit /\ [][BackupNext]_backupVars

-----------------------------------------------------------------------------
(* Properties.                                                             *)

\* Every release that a restored database knows has its files beside it, whatever was
\* deployed during the backup, but for those whose files an erasure had removed before
\* the archive was written: the rows are dumped before the files are copied
\* (backups.py:61-63).
RestoredServes == staging.rows \ staging.erased \subseteq staging.files

\* Once a backup was taken there is one to restore from, also when later ones die half
\* way: retention runs after the new archive is complete (backups.py:75-78).
ABackupRemains == taken => \E a \in Archives : archive[a].kind = "complete"

=============================================================================
