-------------------------------- MODULE Backup ------------------------------
(***************************************************************************)
(* The backup script (scripts/dbBackup.js): mongodump into a directory,    *)
(* tar and gzip to an archive beside it, PutObject of the archive, removal *)
(* of what is older than seven days; once a day, or once and exit.         *)
(*                                                                         *)
(* tar runs under child_process.exec, which decodes what tar writes as     *)
(* UTF-8, and after 1 MiB kills tar and destroys the stream, so that the   *)
(* archive is never finished.  A tar that ends early by itself ends the    *)
(* stream like one that succeeded.                                         *)
(***************************************************************************)
EXTENDS Naturals, FiniteSets

CONSTANTS
  Dump,     \* runs of performBackup
  Old,      \* files and directories older than the retention period
  MaxFailed \* bound: steps that fail

ASSUME BackupAssumption == MaxFailed \in Nat

VARIABLES
  once,      \* RUN_BACKUP_ONCE
  s3Enabled, \* S3_BACKUP_ENABLED
  exited,    \* "no", or the exit code
  dump,      \* [Dump -> where performBackup is]
  archive,   \* [Dump -> what its .tar.gz holds]
  object,    \* [Dump -> what the bucket holds]
  listing,   \* calls of cleanupOldBackups whose readdir is under way
  doomed,    \* old files with a removal under way
  kept,      \* old files that are there
  failed     \* the steps that failed

backupVars == <<once, s3Enabled, exited, dump, archive, object, listing,
                doomed, kept, failed>>

Content == {"none", "whole", "garbled", "partial"}
Step == {"mongodump", "tar", "stream", "upload", "readdir", "remove"}

BackupTypeOK ==
  /\ once \in BOOLEAN /\ s3Enabled \in BOOLEAN
  /\ exited \in {"no", "0", "1"}
  /\ dump \in [Dump -> {"idle", "dumping", "compressing", "uploading",
                        "done", "failed", "hung"}]
  /\ archive \in [Dump -> Content] /\ object \in [Dump -> Content]
  /\ listing \subseteq Dump
  /\ doomed \subseteq kept /\ kept \subseteq Old
  /\ failed \subseteq Dump \X Step

BackupInit ==
  /\ once \in BOOLEAN /\ s3Enabled \in BOOLEAN
  /\ exited = "no"
  /\ dump = [d \in Dump |-> "idle"]
  /\ archive = [d \in Dump |-> "none"] /\ object = [d \in Dump |-> "none"]
  /\ listing = {} /\ doomed = {} /\ kept = Old /\ failed = {}

Running(d, stage) == exited = "no" /\ dump[d] = stage

FailStep(d, step) ==
  /\ Cardinality(failed) < MaxFailed
  /\ failed' = failed \cup {<<d, step>>}

(* catch: a single backup exits with 1, the service waits for the next day. *)
Reject(d, step) ==
  /\ FailStep(d, step)
  /\ dump' = [dump EXCEPT ![d] = "failed"]
  /\ exited' = IF once THEN "1" ELSE "no"

(* cleanupOldBackups returns before readdir calls back, so a single backup *)
(* exits with nothing removed.                                             *)
CleanUp(d) ==
  /\ dump' = [dump EXCEPT ![d] = "done"]
  /\ IF once THEN exited' = "0" /\ UNCHANGED listing
     ELSE exited' = "no" /\ listing' = listing \cup {d}

-----------------------------------------------------------------------------
(* cron, whether the run before is over or not; or the only run. *)
StartBackup(d) ==
  /\ Running(d, "idle")
  /\ once => \A e \in Dump : dump[e] = "idle"
  /\ dump' = [dump EXCEPT ![d] = "dumping"]
  /\ UNCHANGED <<once, s3Enabled, exited, archive, object, listing, doomed,
                 kept, failed>>

Dumped(d) ==
  /\ Running(d, "dumping")
  /\ \/ /\ dump' = [dump EXCEPT ![d] = "compressing"]
        /\ UNCHANGED <<exited, failed>>
     \/ Reject(d, "mongodump")
  /\ UNCHANGED <<once, s3Enabled, archive, object, listing, doomed, kept>>

(* compressBackup: "finish" of the output, or an error of gzip or of the   *)
(* file.  Where there is nothing to upload the next call is the cleaning.  *)
Compressed(d) ==
  /\ Running(d, "compressing")
  /\ \E content \in Content \ {"none"} :
       /\ archive' = [archive EXCEPT ![d] = content]
       /\ content = "partial" => FailStep(d, "tar")
       /\ content # "partial" => UNCHANGED failed
  /\ IF s3Enabled
       THEN dump' = [dump EXCEPT ![d] = "uploading"]
            /\ UNCHANGED <<exited, listing>>
       ELSE CleanUp(d)
  /\ UNCHANGED <<once, s3Enabled, object, doomed, kept>>

CompressFails(d) ==
  /\ Running(d, "compressing")
  /\ archive' = [archive EXCEPT ![d] = "partial"]
  /\ Reject(d, "stream")
  /\ UNCHANGED <<once, s3Enabled, object, listing, doomed, kept>>

(* More than exec takes: the promise is never settled.  A single backup    *)
(* has nothing left to wait for and ends, with 0.                          *)
CompressHangs(d) ==
  /\ Running(d, "compressing")
  /\ archive' = [archive EXCEPT ![d] = "partial"]
  /\ dump' = [dump EXCEPT ![d] = "hung"]
  /\ exited' = IF once THEN "0" ELSE "no"
  /\ UNCHANGED <<once, s3Enabled, object, listing, doomed, kept, failed>>

(* uploadToS3 returns false where PutObject fails, and nobody looks. *)
Uploaded(d) ==
  /\ Running(d, "uploading")
  /\ \/ object' = [object EXCEPT ![d] = archive[d]] /\ UNCHANGED failed
     \/ UNCHANGED object /\ FailStep(d, "upload")
  /\ CleanUp(d)
  /\ UNCHANGED <<once, s3Enabled, archive, doomed, kept>>

(* Mutant: the age is compared the wrong way round. *)
ListYoung(d) ==
  /\ exited = "no" /\ d \in listing
  /\ listing' = listing \ {d}
  /\ UNCHANGED <<once, s3Enabled, exited, dump, archive, object, doomed, kept,
                 failed>>

(* readdir and stat: the removal of every old file begins. *)
List(d) ==
  /\ exited = "no" /\ d \in listing
  /\ listing' = listing \ {d}
  /\ \/ doomed' = kept /\ UNCHANGED failed
     \/ UNCHANGED doomed /\ FailStep(d, "readdir")
  /\ UNCHANGED <<once, s3Enabled, exited, dump, archive, object, kept>>

(* rm or unlink; where two runs remove the same file one of them fails,    *)
(* and the file is gone as well.                                           *)
Remove(f) ==
  /\ exited = "no" /\ f \in doomed
  /\ doomed' = doomed \ {f}
  /\ \/ kept' = kept \ {f} /\ UNCHANGED failed
     \/ UNCHANGED kept /\ \E d \in Dump : dump[d] = "done" /\ FailStep(d, "remove")
  /\ UNCHANGED <<once, s3Enabled, exited, dump, archive, object, listing>>

BackupNext ==
  \/ \E d \in Dump :
       \/ StartBackup(d) \/ Dumped(d) \/ Compressed(d) \/ CompressFails(d)
       \/ CompressHangs(d) \/ Uploaded(d) \/ List(d)
  \/ \E f \in Old : Remove(f)

-----------------------------------------------------------------------------
(***************************************************************************)
(* What a finished backup promises, and where it does not hold it.  An     *)
(* archive that is finished is readable unless tar ended early or wrote    *)
(* bytes that are not UTF-8; the bucket has it, as it is, unless PutObject *)
(* failed, which the exit code does not tell.  After a scheduled backup    *)
(* nothing old is left once its removals are over, unless one of them or   *)
(* readdir failed; a single backup removes nothing (dbBackup.js:65-99,     *)
(* 140-143, 178-194, 208-252).                                             *)
(***************************************************************************)
BackupIsExplained ==
  /\ \A d \in Dump : dump[d] = "done" =>
       /\ archive[d] # "none"
       /\ archive[d] = "partial" => <<d, "tar">> \in failed
       /\ s3Enabled => object[d] = archive[d] \/ <<d, "upload">> \in failed
  /\ (\E d \in Dump : dump[d] = "done") /\ listing = {} /\ doomed = {} =>
       \/ kept = {} \/ once
       \/ \E d \in Dump, step \in {"readdir", "remove"} : <<d, step>> \in failed
=============================================================================
