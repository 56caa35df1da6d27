------------------------------- MODULE Backup -------------------------------
(***************************************************************************)
(* Backups of the database: secure_backup_db and rotate_backups            *)
(* (src/111/src/db.rs), the hourly task of the node and the command        *)
(* BackupNow (src/111/src/main.rs).  Every change of the file system is a  *)
(* step of its own: an I/O error can end the backup before it and a crash  *)
(* can fall between any two.                                               *)
(*                                                                         *)
(* RocksDB lets one process open the database, so BackupNow and the node   *)
(* exclude each other.  Backups are named after now_ms; the clock is taken *)
(* to go forward between two backups, which also orders their modification *)
(* times.                                                                  *)
(***************************************************************************)
EXTENDS Naturals, FiniteSets

CONSTANTS
    Keep,     \* the 3 of rotate_backups(parent_dir, 3)
    MaxTime,  \* bound: backups that are begun
    Faults    \* what may go wrong: "crash", "io"

ASSUME KeepAssumption == Keep \in Nat \ {0}
ASSUME BoundAssumption == MaxTime \in Nat

Times == 1 .. MaxTime

VARIABLES
    node,    \* the node is running
    holder,  \* who holds maintenance_lock: "nobody", "task" or "backup"
    pc,      \* where secure_backup_db is; "idle" when it is not running
    now,     \* now_ms of the last backup begun
    files,   \* the files of each backup, by their suffix; "dir" is the
             \* checkpoint directory itself
    full,    \* the backups whose archive has all of the checkpoint
    victim,  \* the backup whose signature rotate_backups is about to remove
    result   \* how the last backup ended

backup_vars == <<node, holder, pc, now, files, full, victim, result>>

Suffixes == {"dir", "zip.tmp", "zip", "sig.tmp", "sig"}

Idle == pc = "idle"

\* The checkpoint directory exists and its cleanup is due.
Working == {"zip", "fill", "sign", "finish", "sign_name", "rotate", "rotate_sig"}

BackupInit ==
    /\ node = FALSE
    /\ holder = "nobody"
    /\ pc = "idle"
    /\ now = 0
    /\ files = [t \in Times |-> {}]
    /\ full = {}
    /\ victim = 0
    /\ result = "none"

-----------------------------------------------------------------------------
(* Who makes backups.                                                      *)

\* Commands::RunNode starts the task.
StartNode ==
    /\ ~node /\ Idle
    /\ node' = TRUE
    /\ UNCHANGED <<holder, pc, now, files, full, victim, result>>

\* Slip: the task leaves the locking to secure_backup_db.
HourlyBackupUnlocked ==
    /\ node /\ Idle
    /\ now < MaxTime
    /\ pc' = "lock"
    /\ result' = "none"
    /\ UNCHANGED <<node, holder, now, files, full, victim>>

\* The task locks maintenance_lock and calls secure_backup_db.
HourlyBackup ==
    /\ node /\ Idle
    /\ holder = "nobody"
    /\ holder' = "task"
    /\ pc' = "lock"
    /\ result' = "none"
    /\ UNCHANGED <<node, now, files, full, victim>>

\* Ctrl-C: the task is aborted at its .await.
StopNode ==
    /\ node /\ pc \in {"idle", "lock"}
    /\ node' = FALSE
    /\ holder' = "nobody"
    /\ pc' = "idle"
    /\ UNCHANGED <<now, files, full, victim, result>>

\* AdminSubcommand::BackupNow, with a lock of its own.
BackupNow ==
    /\ ~node /\ Idle
    /\ now < MaxTime
    /\ pc' = "lock"
    /\ result' = "none"
    /\ UNCHANGED <<node, holder, now, files, full, victim>>

-----------------------------------------------------------------------------
(* secure_backup_db.                                                       *)

Passes(from, to) == pc = from /\ pc' = to

\* Slip: the lock is asked for twice.
LockTwice ==
    /\ Passes("lock", "lock")
    /\ holder = "nobody"
    /\ holder' = "backup"
    /\ UNCHANGED <<node, now, files, full, victim, result>>

\* maintenance_lock.lock(): granted when nobody holds it.
Lock ==
    /\ Passes("lock", "checkpoint")
    /\ holder = "nobody"
    /\ holder' = "backup"
    /\ UNCHANGED <<node, now, files, full, victim, result>>

AddFile(t, s) == files' = [files EXCEPT ![t] = @ \cup {s}]

Rename(t, s, r) == files' = [files EXCEPT ![t] = (@ \ {s}) \cup {r}]

CreateCheckpoint ==
    /\ Passes("checkpoint", "zip")
    /\ now' = now + 1
    /\ AddFile(now', "dir")
    /\ UNCHANGED <<node, holder, full, victim, result>>

\* OpenOptions::create_new; the archive grows from here.
CreateZip ==
    /\ Passes("zip", "fill")
    /\ AddFile(now, "zip.tmp")
    /\ UNCHANGED <<node, holder, now, full, victim, result>>

\* Slip: an error of add_dir_to_zip is ignored.
FinishZipUnchecked ==
    /\ Passes("fill", "sign")
    /\ full' \in {full, full \cup {now}}
    /\ UNCHANGED <<node, holder, now, files, victim, result>>

\* add_dir_to_zip and zip.finish()
FinishZip ==
    /\ Passes("fill", "sign")
    /\ full' = full \cup {now}
    /\ UNCHANGED <<node, holder, now, files, victim, result>>

\* The archive is read back and its signature is written.
Sign ==
    /\ Passes("sign", "finish")
    /\ AddFile(now, "sig.tmp")
    /\ UNCHANGED <<node, holder, now, full, victim, result>>

RenameZip ==
    /\ Passes("finish", "sign_name")
    /\ Rename(now, "zip.tmp", "zip")
    /\ UNCHANGED <<node, holder, now, full, victim, result>>

RenameSig ==
    /\ Passes("sign_name", "rotate")
    /\ Rename(now, "sig.tmp", "sig")
    /\ UNCHANGED <<node, holder, now, full, victim, result>>

Zips == {t \in Times : "zip" \in files[t]}

\* The archives that are not among the `keep' newest ones.
Surplus == {t \in Zips : Cardinality({u \in Zips : u > t}) >= Keep}

\* rotate_backups removes the surplus archives, the newest first.
RotateZip ==
    /\ Passes("rotate", "rotate_sig")
    /\ \E t \in Surplus :
          /\ \A u \in Surplus : u <= t
          /\ victim' = t
          /\ files' = [files EXCEPT ![t] = @ \ {"zip"}]
    /\ UNCHANGED <<node, holder, now, full, result>>

\* Slip: the signature of the backup just made is removed.
RotateSigOfNewest ==
    /\ Passes("rotate_sig", "rotate")
    /\ files' = [files EXCEPT ![now] = @ \ {"sig"}]
    /\ victim' = 0
    /\ UNCHANGED <<node, holder, now, full, result>>

\* ... each with its signature; fs::remove_file(sig).ok() ignores an error.
RotateSig ==
    /\ Passes("rotate_sig", "rotate")
    /\ \/ files' = [files EXCEPT ![victim] = @ \ {"sig"}]
       \/ "io" \in Faults /\ UNCHANGED files
    /\ victim' = 0
    /\ UNCHANGED <<node, holder, now, full, result>>

RotateDone ==
    /\ Passes("rotate", "cleanup")
    /\ Surplus = {}
    /\ result' = "ok"
    /\ UNCHANGED <<node, holder, now, files, full, victim>>

\* The `?' of any step of the blocking part, an unreadable signing key
\* included; the deferred cleanup runs on the way out.
Fail ==
    /\ "io" \in Faults
    /\ pc \in Working \ {"rotate_sig"}
    /\ pc' = "cleanup"
    /\ result' = "err"
    /\ UNCHANGED <<node, holder, now, files, full, victim>>

\* An error before the checkpoint directory exists.
FailEarly ==
    /\ Passes("checkpoint", "idle")
    /\ "io" \in Faults
    /\ holder' = "nobody"
    /\ result' = "err"
    /\ UNCHANGED <<node, now, files, full, victim>>

\* defer!: the checkpoint directory is removed; an error is logged.
Cleanup ==
    /\ Passes("cleanup", "idle")
    /\ \/ files' = [files EXCEPT ![now] = @ \ {"dir"}]
       \/ "io" \in Faults /\ UNCHANGED files
    /\ holder' = "nobody"
    /\ UNCHANGED <<node, now, full, victim, result>>

\* The process dies; what it has written to files stays.
Crash ==
    /\ "crash" \in Faults
    /\ node \/ ~Idle
    /\ node' = FALSE
    /\ holder' = "nobody"
    /\ pc' = "idle"
    /\ victim' = 0
    /\ result' = "none"
    /\ UNCHANGED <<now, files, full>>

SecureBackupDb ==
    \/ Lock \/ CreateCheckpoint \/ CreateZip \/ FinishZip \/ Sign \/ RenameZip
    \/ RenameSig \/ RotateZip \/ RotateSig \/ RotateDone \/ Cleanup

BackupNext ==
    \/ StartNode \/ StopNode \/ HourlyBackup \/ BackupNow
    \/ SecureBackupDb \/ Fail \/ FailEarly \/ Crash

BackupSpec == BackupInit /\ [][BackupNext]_backup_vars

\* A backup that has begun is a task or a thread that goes on running.
FairBackupSpec == BackupSpec /\ WF_backup_vars(SecureBackupDb)

-----------------------------------------------------------------------------

BackupTypeOK ==
    /\ node \in BOOLEAN
    /\ holder \in {"nobody", "task", "backup"}
    /\ pc \in {"idle", "lock", "checkpoint", "cleanup"} \cup Working
    /\ now \in 0 .. MaxTime
    /\ pc \in Working \cup {"cleanup"} => now \in Times
    /\ files \in [Times -> SUBSET Suffixes]
    /\ full \subseteq Times
    /\ victim \in 0 .. MaxTime
    /\ pc = "rotate_sig" => victim \in Times
    /\ result \in {"none", "ok", "err"}

\* A backup is of use when it has an archive and a signature under their final
\* names and the archive is complete.
Verified == {t \in Times : {"zip", "sig"} \subseteq files[t] /\ t \in full}

Store == INSTANCE BackupStore WITH verified <- Verified

\* secure_backup_db and rotate_backups implement BackupStore: whatever fails
\* and wherever the process dies, backups that can be verified appear one by
\* one and the newest of them is never removed, although rotate_backups counts
\* archives without a signature among those it keeps.
NewestSurvives == Store!Spec

\* No archive that crashes or errors have cut short ever has the name .zip,
\* and a signature whose archive is missing is only left of a backup that a
\* newer one with both has replaced.
FinalNamesAreFinal ==
    \A t \in Times :
        /\ "zip" \in files[t] => t \in full
        /\ "sig" \in files[t] /\ "zip" \notin files[t] =>
              \E u \in Times : u > t /\ {"zip", "sig"} \subseteq files[u]

\* rotate_backups(_, 3): a backup that reports success leaves at most `keep'
\* archives, also those that earlier crashes have left in excess.
AtMostKeep ==
    Idle /\ result = "ok" => Cardinality(Zips) <= Keep

\* What is found under the final names is of use and within the limit.
ArchivesSound == FinalNamesAreFinal /\ AtMostKeep

\* A backup that the command has begun ends.
CommandEnds == pc = "lock" /\ ~node ~> Idle

\* While the node runs nothing is backed up: its hourly task holds
\* maintenance_lock when secure_backup_db asks for it again (main.rs 219,
\* db.rs 92), so that only BackupNow ever writes a file.
NoBackupWhileRunning == [][node => files' = files]_backup_vars
=============================================================================
