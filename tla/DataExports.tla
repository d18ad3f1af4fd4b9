----------------------------- MODULE DataExports -----------------------------
(***************************************************************************)
(* Exports of the data of a user or of an organization: data_protection.py *)
(* below data_protection_views.py.  A request writes the file and answers  *)
(* with a link whose token only its hash remembers; no transaction binds   *)
(* the row to the file.  The organization may be erased later.             *)
(***************************************************************************)
EXTENDS Naturals

CONSTANTS
    Exports,      \* exports that may be asked for, one request each
    MaxFaults     \* bound on exceptions and deaths

ASSUME FaultsAssumption == MaxFaults \in Nat

VARIABLES
    organization, \* "there", "hidden" once its erasure was asked for, "erased"
    scope,        \* DataExportRequest.scope, "none" before the request
    exportStatus, \* DataExportRequest.status, "none" without a row
    located,      \* file_path, file_sha256 and download_token_hash are set
    expired,      \* the clock has passed download_expires_at
    file,         \* what is at DATA_EXPORT_STORAGE_ROOT/<public_id>.zip
    exportPc,     \* where the request is
    linked,       \* the request was answered with the link
    faults

row     == <<scope, exportStatus, located, expired>>
request == <<exportPc, linked>>
exportVars == <<organization, row, file, request, faults>>

Statuses == {"queued", "processing", "completed", "failed"}

ExportTypeOK ==
    /\ organization \in {"there", "hidden", "erased"}
    /\ scope \in [Exports -> {"none", "user", "organization"}]
    /\ exportStatus \in [Exports -> Statuses \cup {"none"}]
    /\ located \in [Exports -> BOOLEAN] /\ expired \in [Exports -> BOOLEAN]
    /\ file \in [Exports -> {"none", "partial", "complete"}]
    /\ exportPc \in [Exports -> {"idle", "created", "collecting", "writing", "written",
                           "recorded", "ended"}]
    /\ linked \in [Exports -> BOOLEAN]
    /\ faults \in 0..MaxFaults

ExportInit ==
    /\ organization = "there"
    /\ scope = [e \in Exports |-> "none"]
    /\ exportStatus = [e \in Exports |-> "none"]
    /\ located = [e \in Exports |-> FALSE] /\ expired = located
    /\ file = [e \in Exports |-> "none"]
    /\ exportPc = [e \in Exports |-> "idle"]
    /\ linked = [e \in Exports |-> FALSE]
    /\ faults = 0

-----------------------------------------------------------------------------

ExportGoes(e, from, to) == exportPc[e] = from /\ exportPc' = [exportPc EXCEPT ![e] = to]

SetStatus(e, s) == exportStatus' = [exportStatus EXCEPT ![e] = s]

\* request_user_export and request_organization_export up to the row; an owner finds
\* the organization until its erasure is asked for.
RequestExport(e, s) ==
    /\ s = "organization" => organization = "there"
    /\ ExportGoes(e, "idle", "created")
    /\ scope' = [scope EXCEPT ![e] = s]
    /\ SetStatus(e, "queued")
    /\ UNCHANGED <<organization, located, expired, file, linked, faults>>

StartProcessing(e) ==
    /\ ExportGoes(e, "created", "collecting")
    /\ SetStatus(e, "processing")
    /\ UNCHANGED <<organization, scope, located, expired, file, linked, faults>>

\* The payload is complete before the file is opened.
OpenFile(e) ==
    /\ ExportGoes(e, "collecting", "writing")
    /\ file' = [file EXCEPT ![e] = "partial"]
    /\ UNCHANGED <<organization, row, linked, faults>>

\* Slip: what is written is recorded before the file is closed.
LeaveOpen(e) ==
    /\ ExportGoes(e, "writing", "written")
    /\ UNCHANGED <<organization, row, file, linked, faults>>

CloseFile(e) ==
    /\ ExportGoes(e, "writing", "written")
    /\ file' = [file EXCEPT ![e] = "complete"]
    /\ UNCHANGED <<organization, row, linked, faults>>

\* Token, path, hash, expiry and status in one save.
RecordFile(e) ==
    /\ ExportGoes(e, "written", "recorded")
    /\ SetStatus(e, "completed")
    /\ located' = [located EXCEPT ![e] = TRUE]
    /\ UNCHANGED <<organization, scope, expired, file, linked, faults>>

AnswerLink(e) ==
    /\ ExportGoes(e, "recorded", "ended")
    /\ linked' = [linked EXCEPT ![e] = TRUE]
    /\ UNCHANGED <<organization, row, file, faults>>

\* generate_export catches what is raised, also by the audit entry of a file that is
\* already recorded; the file stays where it is.
FailExport(e) ==
    /\ exportPc[e] \in {"collecting", "writing", "written", "recorded"}
    /\ faults < MaxFaults /\ faults' = faults + 1
    /\ exportPc' = [exportPc EXCEPT ![e] = "ended"]
    /\ SetStatus(e, "failed")
    /\ UNCHANGED <<organization, scope, located, expired, file, linked>>

ExportDies(e) ==
    /\ exportPc[e] \notin {"idle", "ended"}
    /\ faults < MaxFaults /\ faults' = faults + 1
    /\ exportPc' = [exportPc EXCEPT ![e] = "ended"]
    /\ UNCHANGED <<organization, row, file, linked>>

\* DATA_EXPORT_URL_TTL_SECONDS are over; nothing removes the file.
Expire(e) ==
    /\ located[e] /\ ~expired[e]
    /\ expired' = [expired EXCEPT ![e] = TRUE]
    /\ UNCHANGED <<organization, scope, exportStatus, located, file, request, faults>>

\* request_organization_deletion
HideOrganization ==
    /\ organization = "there" /\ organization' = "hidden"
    /\ UNCHANGED <<row, file, request, faults>>

\* finalize_expired_deletions, long after the last request: the rows of its exports go
\* with the organization, their files do not.
EraseOrganization ==
    /\ organization = "hidden" /\ organization' = "erased"
    /\ \A e \in Exports : scope[e] = "organization" => exportPc[e] = "ended"
    /\ exportStatus' = [e \in Exports |-> IF scope[e] = "organization" THEN "none"
                                       ELSE exportStatus[e]]
    /\ UNCHANGED <<scope, located, expired, file, request, faults>>

\* Nothing is left to ask for or to expire.
Ended ==
    /\ organization = "erased"
    /\ \A e \in Exports : exportPc[e] = "ended" /\ (located[e] => expired[e])
    /\ UNCHANGED exportVars

ExportNext ==
    \/ \E e \in Exports :
          \/ \E s \in {"user", "organization"} : RequestExport(e, s)
          \/ StartProcessing(e) \/ OpenFile(e) \/ CloseFile(e)
          \/ RecordFile(e) \/ AnswerLink(e)
          \/ FailExport(e) \/ ExportDies(e) \/ Expire(e)
    \/ HideOrganization \/ EraseOrganization
    \/ Ended

ExportSpec == ExportInit /\ [][ExportNext]_exportVars

-----------------------------------------------------------------------------

\* DataExportDownloadView for the requester with the token: verify_export_download, then
\* the file is opened.
Downloads(e) == exportStatus[e] = "completed" /\ located[e] /\ ~expired[e]

\* A link that was answered serves the whole file until it expires or its organization is
\* erased, and no row that could be downloaded points to a file that is not whole, whatever
\* failed or died half-way (data_protection.py:79).
LinksServe ==
    \A e \in Exports :
       /\ Downloads(e) => file[e] = "complete"
       /\ linked[e] /\ ~expired[e] => Downloads(e) \/ exportStatus[e] = "none"

=============================================================================
