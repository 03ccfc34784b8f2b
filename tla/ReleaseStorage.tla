----------------------------- MODULE ReleaseStorage -----------------------------
(***************************************************************************)
(* App releases across the file system and the database                    *)
(* (internal/httpapi/handlers_releases.go, internal/store/releases.go,     *)
(* cmd/storage-audit).  A release is a row and an APK in the storage       *)
(* directory.  An upload finalizes the file before it inserts the row, a   *)
(* deletion quarantines the file before it deletes the row; the server may *)
(* die anywhere, and the audit, a process of its own, may run meanwhile    *)
(* and remove the files that it knows no row of.                           *)
(*                                                                         *)
(* A file is there or not: it is moved by renaming only, and its contents  *)
(* are verified whenever it is looked for.                                 *)
(***************************************************************************)
EXTENDS Naturals

CONSTANTS
  Releases,  \* a release id is made for one upload
  Admins,    \* requests to publish or delete, handled at the same time
  NoRelease

ASSUME ReleasesAssumption == NoRelease \notin Releases

VARIABLES
  row,         \* app_releases: "none", "draft", "published", "deleted"
  file,        \* releases with a file under its final name
  quarantine,  \* releases with a file under its quarantine name
  upload,      \* where the upload of each release is: "new", "temp", "named", "inserted", "over"
  admin,       \* where each other request is, and about which release
  audit,       \* the audit: "idle", "listed", "read"
  referenced,  \* the releases it has listed
  found,       \* the files it has read and not yet looked at
  interrupted, \* history: releases of which an operation ended before it had cleaned up
  torn,        \* history: releases of which the row was inserted and the file removed
  pending,     \* history: uploads begun and not inserted when the audit last listed
  swept        \* history: releases of which the audit removed the file

disk        == <<file, quarantine>>
auditor     == <<audit, referenced, found>>
past        == <<interrupted, torn, pending, swept>>
releaseVars == <<row, disk, upload, admin, auditor, past>>

Rows     == {r \in Releases : row[r] \in {"draft", "published"}}
Resting  == [at |-> "idle", release |-> NoRelease]
Interrupt(rs) == interrupted' = interrupted \cup rs

ReleasesInit ==
  /\ row = [r \in Releases |-> "none"]
  /\ file = {} /\ quarantine = {}
  /\ upload = [r \in Releases |-> "new"]
  /\ admin = [a \in Admins |-> Resting]
  /\ audit = "idle" /\ referenced = {} /\ found = {}
  /\ interrupted = {} /\ torn = {} /\ pending = {} /\ swept = {}

-----------------------------------------------------------------------------
\* adminUploadRelease: the artifact is copied to a temporary file, checked and renamed ...
UploadTo(r, place) == upload' = [upload EXCEPT ![r] = place]

StartUpload(r) ==
  /\ upload[r] = "new"
  /\ UploadTo(r, "temp")
  /\ UNCHANGED <<row, disk, admin, auditor, past>>

FinalizeArtifact(r) ==
  /\ upload[r] = "temp"
  /\ file' = file \cup {r}
  /\ UploadTo(r, "named")
  /\ UNCHANGED <<row, quarantine, admin, auditor, past>>

\* ... or refused, or the temporary file could not be written: it is removed.
RefuseUpload(r) ==
  /\ upload[r] = "temp"
  /\ UploadTo(r, "over")
  /\ UNCHANGED <<row, disk, admin, auditor, past>>

\* CreateRelease inserts a draft; then it is published if the upload asks for it, without a look at
\* the file.
InsertRelease(r) ==
  /\ upload[r] = "named"
  /\ row' = [row EXCEPT ![r] = "draft"]
  /\ \/ UploadTo(r, "inserted")
     \/ UploadTo(r, "over")
  /\ UNCHANGED <<disk, admin, auditor, past>>

\* The directory is not synchronized or the row not inserted: the file is removed, if that succeeds;
\* also when the row was inserted and the answer of the INSERT lost.
WithoutArtifactKept(r) == file
WithoutArtifact(r)     == file \ {r}

FailUpload(r) ==
  /\ upload[r] = "named"
  /\ \/ file' = WithoutArtifact(r) /\ interrupted' = interrupted
     \/ file' = file /\ Interrupt({r})
  /\ \/ row' = row /\ torn' = torn
     \/ row' = [row EXCEPT ![r] = "draft"] /\ torn' = torn \cup {r}
  /\ UploadTo(r, "over")
  /\ UNCHANGED <<quarantine, admin, auditor, pending, swept>>

PublishUpload(r) ==
  /\ upload[r] = "inserted"
  /\ row' = IF r \in Rows THEN [row EXCEPT ![r] = "published"] ELSE row
  /\ UploadTo(r, "over")
  /\ UNCHANGED <<disk, admin, auditor, past>>

LeaveDraft(r) ==
  /\ upload[r] = "inserted"
  /\ UploadTo(r, "over")
  /\ UNCHANGED <<row, disk, admin, auditor, past>>

-----------------------------------------------------------------------------
\* adminPublishRelease verifies the file and then updates the row, if it is still there.
At(a, place)       == admin[a].at = place
Of(a)              == admin[a].release
Go(a, place, r)    == admin' = [admin EXCEPT ![a] = [at |-> place, release |-> r]]
Rest(a)            == admin' = [admin EXCEPT ![a] = Resting]

VerifyForPublish(a, r) ==
  /\ At(a, "idle") /\ r \in Rows /\ r \in file
  /\ Go(a, "publish", r)
  /\ UNCHANGED <<row, disk, upload, auditor, past>>

Publish(a) ==
  /\ At(a, "publish")
  /\ row' = IF Of(a) \in Rows THEN [row EXCEPT ![Of(a)] = "published"] ELSE row
  /\ Rest(a)
  /\ UNCHANGED <<disk, upload, auditor, past>>

\* adminDeleteRelease reads the row, renames the file, without which it refuses ...
StartDelete(a, r) ==
  /\ At(a, "idle") /\ r \in Rows
  /\ Go(a, "delete", r)
  /\ UNCHANGED <<row, disk, upload, auditor, past>>

QuarantineNothing(r) == quarantine' = quarantine
QuarantineArtifact(r) == quarantine' = quarantine \cup {r}

Isolate(a) ==
  /\ At(a, "delete")
  /\ IF Of(a) \in file
     THEN file' = file \ {Of(a)} /\ QuarantineArtifact(Of(a)) /\ Go(a, "isolated", Of(a))
     ELSE UNCHANGED disk /\ Rest(a)
  /\ UNCHANGED <<row, upload, auditor, past>>

\* ... deletes the row, which is not there any more when another request has deleted it ...
DeleteRow(a) ==
  /\ At(a, "isolated") /\ Of(a) \in Rows
  /\ row' = [row EXCEPT ![Of(a)] = "deleted"]
  /\ Go(a, "deleted", Of(a))
  /\ UNCHANGED <<disk, upload, auditor, past>>

\* ... and renames the file back when that fails, whose answer may be lost, too; or not even that
\* succeeds.
RestoredNothing(r) == file
Restored(r)        == file \cup {r}

RestoreArtifact(a) ==
  /\ At(a, "isolated")
  /\ file' = Restored(Of(a)) /\ quarantine' = quarantine \ {Of(a)}
  /\ \/ row' = row /\ interrupted' = interrupted
     \/ row' = [row EXCEPT ![Of(a)] = "deleted"] /\ Interrupt({Of(a)})
  /\ Rest(a)
  /\ UNCHANGED <<upload, auditor, torn, pending, swept>>

FailRestore(a) ==
  /\ At(a, "isolated")
  /\ Interrupt({Of(a)})
  /\ Rest(a)
  /\ UNCHANGED <<row, disk, upload, auditor, torn, pending, swept>>

RemoveQuarantined(a) ==
  /\ At(a, "deleted")
  /\ \/ quarantine' = quarantine \ {Of(a)} /\ interrupted' = interrupted
     \/ quarantine' = quarantine /\ Interrupt({Of(a)})
  /\ Rest(a)
  /\ UNCHANGED <<row, file, upload, auditor, torn, pending, swept>>

\* The server dies; whatever is under way stops where it is.
CrashServer ==
  /\ Interrupt({r \in Releases : upload[r] = "named"}
               \cup {Of(a) : a \in {b \in Admins : admin[b].at \in {"isolated", "deleted"}}})
  /\ upload' = [r \in Releases |-> IF upload[r] = "new" THEN "new" ELSE "over"]
  /\ admin' = [a \in Admins |-> Resting]
  /\ UNCHANGED <<row, disk, auditor, torn, pending, swept>>

-----------------------------------------------------------------------------
\* storage-audit -delete-orphans lists the rows, then the directory, and removes files one by one.
\* A quarantined file has another extension and is none of its business.
ListRows ==
  /\ audit = "idle"
  /\ audit' = "listed" /\ referenced' = Rows
  /\ pending' = {r \in Releases : upload[r] \in {"new", "temp", "named"}}
  /\ UNCHANGED <<row, disk, upload, admin, found, interrupted, torn, swept>>

ReadDirectory ==
  /\ audit = "listed"
  /\ audit' = "read" /\ found' = file
  /\ UNCHANGED <<row, disk, upload, admin, referenced, past>>

IsOrphanAlways(r) == TRUE
IsOrphan(r)       == r \notin referenced

\* A file that has gone meanwhile ends the audit (log.Fatal).
LookAt(r) ==
  /\ audit = "read" /\ r \in found
  /\ IF IsOrphan(r) /\ r \notin file
     THEN audit' = "idle" /\ found' = {}
     ELSE audit' = audit /\ found' = found \ {r}
  /\ IF IsOrphan(r) /\ r \in file
     THEN file' = file \ {r} /\ swept' = swept \cup {r}
     ELSE UNCHANGED <<file, swept>>
  /\ UNCHANGED <<row, quarantine, upload, admin, referenced, interrupted, torn, pending>>

FinishAudit ==
  /\ audit \in {"listed", "read"} /\ (audit = "read" => found = {})
  /\ audit' = "idle" /\ found' = {}
  /\ UNCHANGED <<row, disk, upload, admin, referenced, past>>

ReleasesNext ==
  \/ \E r \in Releases :
       \/ StartUpload(r) \/ FinalizeArtifact(r) \/ RefuseUpload(r) \/ InsertRelease(r) \/ FailUpload(r)
       \/ PublishUpload(r) \/ LeaveDraft(r) \/ LookAt(r)
  \/ \E a \in Admins :
       \/ \E r \in Releases : VerifyForPublish(a, r) \/ StartDelete(a, r)
       \/ Publish(a) \/ Isolate(a) \/ DeleteRow(a) \/ RestoreArtifact(a) \/ FailRestore(a) \/ RemoveQuarantined(a)
  \/ CrashServer \/ ListRows \/ ReadDirectory \/ FinishAudit

ReleasesSpec == ReleasesInit /\ [][ReleasesNext]_releaseVars

-----------------------------------------------------------------------------
ReleasesTypeOK ==
  /\ row \in [Releases -> {"none", "draft", "published", "deleted"}]
  /\ file \subseteq Releases /\ quarantine \subseteq Releases
  /\ upload \in [Releases -> {"new", "temp", "named", "inserted", "over"}]
  /\ admin \in [Admins -> [at : {"idle", "publish", "delete", "isolated", "deleted"}, release : Releases \cup {NoRelease}]]
  /\ audit \in {"idle", "listed", "read"} /\ referenced \subseteq Releases /\ found \subseteq Releases
  /\ interrupted \subseteq Releases /\ torn \subseteq Releases /\ pending \subseteq Releases /\ swept \subseteq Releases

Deleting(r) == \E a \in Admins : At(a, "isolated") /\ Of(a) = r

\* A release that is listed can be downloaded, unless it is being deleted at the moment, its deletion
\* was interrupted, its upload was answered as failed, or the audit swept its file.
ListedMeansThere ==
  \A r \in Rows : r \in file \/ Deleting(r) \/ r \in interrupted \cup torn \cup swept

\* Whenever the server dies and whatever fails, no artifact is lost before its row: it lies under
\* its final or its quarantine name, unless its upload was answered as failed or the audit swept it.
ArtifactKept == Rows \subseteq file \cup quarantine \cup torn \cup swept

\* Files without a row belong to an operation that is under way or was interrupted.
NoStrayFiles ==
  \A r \in (file \cup quarantine) \ Rows :
    upload[r] = "named" \/ r \in interrupted \/ \E a \in Admins : Of(a) = r /\ At(a, "deleted")

\* The audit takes the file of a release that has a row only when the row was not there yet as it
\* listed the rows.
SweptWhileUploading ==
  [][\A r \in swept' \ swept : r \in Rows => r \in pending]_releaseVars

\* What uploads, deletions and the audit know.
Unborn(r) == upload[r] \in {"new", "temp", "named"}

UploadsFit ==
  \A r \in Releases :
    /\ Unborn(r) => row[r] = "none" /\ r \notin quarantine
    /\ upload[r] \in {"new", "temp"} => r \notin file
    /\ upload[r] = "named" => r \in file \cup swept
    /\ upload[r] = "inserted" => row[r] # "none"

Holds(a) == admin[a].at \in {"isolated", "deleted"}

AdminsFit ==
  \A a \in Admins :
    /\ ~At(a, "idle") => Of(a) \in Releases /\ row[Of(a)] # "none"
    /\ Holds(a) => Of(a) \in quarantine \ file
    /\ Holds(a) => \A b \in Admins \ {a} : Holds(b) => Of(b) # Of(a)
    /\ At(a, "isolated") => Of(a) \in Rows \cup interrupted
    /\ At(a, "deleted") => row[Of(a)] = "deleted"

AuditFits ==
  audit # "idle" => \A r \in Releases : r \in Rows \ referenced \/ Unborn(r) => r \in pending

\* The inductive invariant.
ReleasesInv ==
  ReleasesTypeOK /\ ListedMeansThere /\ ArtifactKept /\ NoStrayFiles /\ UploadsFit /\ AdminsFit /\ AuditFits
=============================================================================
