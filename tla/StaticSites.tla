---------------------------- MODULE StaticSites ----------------------------
(***************************************************************************)
(* The files of the static deployments of one environment: what            *)
(* deploy_static_zip unpacks, uploads under a prefix and makes RUNNING,   *)
(* and what a rollback returns to (static_deployments.py).  How requests   *)
(* interleave between the statements of the database is module             *)
(* Deployments; here the two transactions of a deploy and that of a        *)
(* rollback are one step each, and the copying of files is many.           *)
(***************************************************************************)
EXTENDS Naturals, FiniteSets

CONSTANTS
    Deploys,      \* requests that upload a ZIP, each with the deployment it makes
    Paths,        \* paths a ZIP may contain
    ManifestPath, \* "manifest.json", which the platform writes and a ZIP may contain
    MaxBroken     \* bound on uploads that end half-way

ASSUME SitesAssumption == {"none", "pending"} \cap Deploys = {} /\ MaxBroken \in Nat

VARIABLES
    backend,      \* STATIC_DEPLOYMENT_STORAGE_BACKEND
    contents,     \* paths of each request's ZIP, its manifest
    uploadPc,     \* where each request is in its handler
    todo,         \* paths it has still to upload
    uploadStatus, \* Deployment.status, "none" without a row
    imageRef,     \* Deployment.image_ref: "none" for the "pending" it is created with,
                  \* or the prefix
    store,        \* (prefix, path) to whose file is there, "none" for nobody's
    broken

requests == <<contents, uploadPc, todo>>
rows     == <<uploadStatus, imageRef>>
siteVars == <<backend, requests, rows, store, broken>>

Files    == Paths \cup {ManifestPath}
\* Where a deployment's files may be; "pending" is the prefix of no deployment.
Prefixes == Deploys \cup {"pending"}

SiteTypeOK ==
    /\ backend \in {"local", "s3"}
    /\ contents \in [Deploys -> SUBSET Files]
    /\ uploadPc \in [Deploys -> {"idle", "unpacked", "scanning", "uploading", "copying",
                           "uploaded", "ended"}]
    /\ todo \in [Deploys -> SUBSET Files]
    /\ uploadStatus \in [Deploys -> {"none", "deploying", "running", "rolled_back",
                                     "failed"}]
    /\ imageRef \in [Deploys -> Prefixes \cup {"none"}]
    /\ store \in [Prefixes -> [Files -> Deploys \cup {"none"}]]
    /\ broken \in 0..MaxBroken

Nobody == [f \in Files |-> "none"]

SiteInit ==
    /\ backend \in {"local", "s3"}
    /\ contents = [d \in Deploys |-> {}]
    /\ uploadPc = [d \in Deploys |-> "idle"]
    /\ todo = [d \in Deploys |-> {}]
    /\ uploadStatus = [d \in Deploys |-> "none"]
    /\ imageRef = [d \in Deploys |-> "none"]
    /\ store = [p \in Prefixes |-> Nobody]
    /\ broken = 0

-----------------------------------------------------------------------------

RequestGoes(d, from, to) == uploadPc[d] = from /\ uploadPc' = [uploadPc EXCEPT ![d] = to]

\* _validate_upload, unpack_static_zip and _check_storage_limit: a ZIP that is accepted
\* has at least one file.  All is in a directory of the request's own.
Unpack(d) ==
    /\ RequestGoes(d, "idle", "unpacked")
    /\ \E files \in SUBSET Files \ {{}} : contents' = [contents EXCEPT ![d] = files]
    /\ UNCHANGED <<backend, todo, rows, store, broken>>

\* Any check of the ZIP fails before a row is written.
RefuseZip(d) ==
    /\ RequestGoes(d, "idle", "ended")
    /\ UNCHANGED <<backend, contents, todo, rows, store, broken>>

\* The first transaction.
CreateRows(d) ==
    /\ RequestGoes(d, "unpacked", "scanning")
    /\ uploadStatus' = [uploadStatus EXCEPT ![d] = "deploying"]
    /\ UNCHANGED <<backend, contents, todo, imageRef, store, broken>>

ScanBlocks(d) ==
    /\ RequestGoes(d, "scanning", "ended")
    /\ uploadStatus' = [uploadStatus EXCEPT ![d] = "failed"]
    /\ UNCHANGED <<backend, contents, todo, imageRef, store, broken>>

ScanAccepts(d) ==
    /\ RequestGoes(d, "scanning", "uploading")
    /\ UNCHANGED <<backend, contents, todo, rows, store, broken>>

\* Slip: the prefix of a deployment that is not known yet, which all share.
SharedPrefix(d) == "pending"

\* _deployment_prefix
Prefix(d) == d

\* _upload_local removes what is at the prefix; _upload_s3 writes over it.
BeginUpload(d) ==
    /\ RequestGoes(d, "uploading", "copying")
    /\ todo' = [todo EXCEPT ![d] = contents[d]]
    /\ store' = IF backend = "local" THEN [store EXCEPT ![Prefix(d)] = Nobody] ELSE store
    /\ UNCHANGED <<backend, contents, rows, broken>>

CopyFile(d, f) ==
    /\ uploadPc[d] = "copying" /\ f \in todo[d]
    /\ store' = [store EXCEPT ![Prefix(d)][f] = d]
    /\ todo' = [todo EXCEPT ![d] = @ \ {f}]
    /\ UNCHANGED <<backend, contents, uploadPc, rows, broken>>

\* The platform's manifest, over a file of that name that the ZIP had.
WriteManifest(d) ==
    /\ RequestGoes(d, "copying", "uploaded")
    /\ todo[d] = {}
    /\ store' = [store EXCEPT ![Prefix(d)][ManifestPath] = d]
    /\ UNCHANGED <<backend, contents, todo, rows, broken>>

\* The other RUNNING rows are rolled back.
SwitchTo(d) ==
    uploadStatus' = [e \in Deploys |-> IF e = d THEN "running"
                                 ELSE IF uploadStatus[e] = "running" THEN "rolled_back"
                                 ELSE uploadStatus[e]]

\* The log beside the files, and the second transaction commits.
Activate(d) ==
    /\ RequestGoes(d, "uploaded", "ended")
    /\ SwitchTo(d)
    /\ imageRef' = [imageRef EXCEPT ![d] = Prefix(d)]
    /\ UNCHANGED <<backend, contents, todo, store, broken>>

\* An exception of the file system or of S3, or the end of the process: nothing
\* cleans up, neither rows nor files.
UploadDies(d) ==
    /\ uploadPc[d] \in {"unpacked", "scanning", "uploading", "copying", "uploaded"}
    /\ broken < MaxBroken /\ broken' = broken + 1
    /\ uploadPc' = [uploadPc EXCEPT ![d] = "ended"]
    /\ UNCHANGED <<backend, contents, todo, rows, store>>

\* rollback_static_deployment, whose test of image_ref refuses no row: it is never empty.
Rollback(d) ==
    /\ uploadStatus[d] # "none"
    /\ SwitchTo(d)
    /\ UNCHANGED <<backend, requests, imageRef, store, broken>>

\* Every request was refused.
AllRefused ==
    /\ \A d \in Deploys : uploadPc[d] = "ended" /\ uploadStatus[d] = "none"
    /\ UNCHANGED siteVars

SiteNext ==
    \/ \E d \in Deploys :
          \/ Unpack(d) \/ RefuseZip(d) \/ CreateRows(d)
          \/ ScanBlocks(d) \/ ScanAccepts(d)
          \/ BeginUpload(d) \/ \E f \in Files : CopyFile(d, f)
          \/ WriteManifest(d) \/ Activate(d)
          \/ UploadDies(d) \/ Rollback(d)
    \/ AllRefused

SiteSpec == SiteInit /\ [][SiteNext]_siteVars

-----------------------------------------------------------------------------

\* A deployment that runs with an artifact is served the files of its own ZIP, all of
\* them, with the platform's manifest beside them or in place of the ZIP's own: also after
\* a rollback to it, with later uploads going on or broken off (static_deployments.py:260).
ServedIsComplete ==
    \A d \in Deploys :
       uploadStatus[d] = "running" /\ imageRef[d] # "none" =>
          \A f \in contents[d] \cup {ManifestPath} : store[imageRef[d]][f] = d

=============================================================================
