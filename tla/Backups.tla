------------------------------ MODULE Backups -------------------------------
(***************************************************************************)
(* Backups of the database, how long they are kept, and their restore.     *)
(* scripts/backup_db.py, which cron runs daily and scripts/deploy.sh at    *)
(* each deploy, scripts/restore_db.sh, and the drills restore_drill.py and *)
(* restore-drill.sh.                                                       *)
(*                                                                         *)
(* What is in the database is "live", or "empty" after an accident.        *)
(* pg_restore runs without a transaction: it drops the tables, and while   *)
(* it brings them back one by one the database is "half" there, with its   *)
(* plans but without what comes later.                                     *)
(***************************************************************************)
EXTENDS Naturals, FiniteSets

CONSTANTS
    Runs,           \* runs of backup_db.py that can overlap: of cron, of a deploy
    LocalDays,      \* LOCAL_RETENTION_DAYS
    RemoteDays,     \* R2_RETENTION_DAYS
    FinalDay,       \* bound: days
    MaxDumps        \* bound: runs begun

ASSUME BackupsAssumption ==
    LocalDays \in Nat /\ RemoteDays \in Nat /\ FinalDay \in Nat /\ MaxDumps \in Nat

VARIABLES
    db,         \* what the production database holds
    today,      \* the day
    dumps,      \* runs begun
    disk,       \* archives under BACKUP_DIR: their day, and what the dump holds
    bucket,     \* archives in the bucket
    run,        \* run[r]: the step of a run, and its dump
    restoring,  \* what restore_db.sh is loading, or "no"
    torn,       \* a restore ran beside a run of the backup, or stopped half-way
    safe        \* a good archive has been in both places

backupVars == <<db, today, dumps, disk, bucket, run, restoring, torn, safe>>

Contents == {"live", "empty", "half"}
Archives == [day : 0 .. FinalDay, holds : Contents]

BackupsTypeOK ==
    /\ db \in Contents /\ today \in 0 .. FinalDay /\ dumps \in 0 .. MaxDumps
    /\ disk \subseteq Archives /\ bucket \subseteq Archives
    /\ run \in [Runs -> [pc : {"idle", "dumped", "checked", "encrypted", "uploaded", "pruned"},
                         holds : Contents]]
    /\ restoring \in Contents \union {"no"}
    /\ torn \in BOOLEAN /\ safe \in BOOLEAN

NoRun == [pc |-> "idle", holds |-> "empty"]

BackupsInit ==
    /\ db = "live" /\ today = 0 /\ dumps = 0
    /\ disk = {} /\ bucket = {}
    /\ run = [r \in Runs |-> NoRun]
    /\ restoring = "no" /\ torn = FALSE /\ safe = FALSE

\* More than days old.
Old(archives, days) == {a \in archives : a.day + days < today}

Good(archives) == \E a \in archives : a.holds = "live"

\* A count of the plans that is at least five.
HasPlans(content) == content \in {"live", "half"}

Step(r, from, to) == run[r].pc = from /\ run' = [run EXCEPT ![r].pc = to]

Ours(r) == [day |-> today, holds |-> run[r].holds]

-----------------------------------------------------------------------------
(* backup_db.py main                                                       *)

\* pg_dump reads one snapshot.
Dump(r) ==
    /\ run[r].pc = "idle" /\ dumps < MaxDumps
    /\ dumps' = dumps + 1
    /\ run' = [run EXCEPT ![r] = [pc |-> "dumped", holds |-> db]]
    /\ torn' = (torn \/ restoring # "no")
    /\ UNCHANGED <<db, today, disk, bucket, restoring, safe>>

\* A fault: the sanity gate is passed without a look.
NoCheck(r) ==
    /\ Step(r, "dumped", "checked")
    /\ UNCHANGED <<db, today, dumps, disk, bucket, restoring, torn, safe>>

\* "refusing to back up a non-live DB": the database is asked, after the dump.
CheckSanity(r) ==
    /\ HasPlans(db)
    /\ Step(r, "dumped", "checked")
    /\ UNCHANGED <<db, today, dumps, disk, bucket, restoring, torn, safe>>

\* zip, age, and the plain files are removed.
Encrypt(r) ==
    /\ Step(r, "checked", "encrypted")
    /\ disk' = disk \union {Ours(r)}
    /\ UNCHANGED <<db, today, dumps, bucket, restoring, torn, safe>>

Upload(r) ==
    /\ Step(r, "encrypted", "uploaded")
    /\ bucket' = bucket \union {Ours(r)}
    /\ safe' = (safe \/ run[r].holds = "live")
    /\ UNCHANGED <<db, today, dumps, disk, restoring, torn>>

\* A fault: retention comes before the upload.
PruneFirst(r) ==
    /\ run[r].pc = "checked"
    /\ disk' = disk \ Old(disk, LocalDays)
    /\ UNCHANGED <<db, today, dumps, bucket, run, restoring, torn, safe>>

PruneDisk(r) ==
    /\ Step(r, "uploaded", "pruned")
    /\ disk' = disk \ Old(disk, LocalDays)
    /\ UNCHANGED <<db, today, dumps, bucket, restoring, torn, safe>>

\* Best effort: an error ends it early, and the run has succeeded.
PruneBucket(r) ==
    /\ run[r].pc = "pruned"
    /\ \E gone \in SUBSET Old(bucket, RemoteDays) : bucket' = bucket \ gone
    /\ run' = [run EXCEPT ![r] = NoRun]
    /\ UNCHANGED <<db, today, dumps, disk, restoring, torn, safe>>

\* FAIL: pg_dump, the sanity gate, no key, age or the upload fails, or the process is killed.
\* Nothing is retried, and the plain dump or zip stays where it is.
RunFails(r) ==
    /\ run[r].pc # "idle"
    /\ run' = [run EXCEPT ![r] = NoRun]
    /\ UNCHANGED <<db, today, dumps, disk, bucket, restoring, torn, safe>>

-----------------------------------------------------------------------------
(* restore_db.sh, accidents, days                                          *)

\* The operator names the archive and, for production, sets FORCE_PROD_RESTORE.
RestoreFrom(a) ==
    /\ restoring = "no" /\ a \in disk \union bucket
    /\ restoring' = a.holds
    /\ db' = "empty"
    /\ torn' = (torn \/ \E r \in Runs : run[r].pc # "idle")
    /\ UNCHANGED <<today, dumps, disk, bucket, run, safe>>

\* Its tables come back one after the other; an error, or a kill, leaves it there.
RestoreGoesOn ==
    /\ restoring # "no"
    /\ \/ db = "empty" /\ HasPlans(restoring) /\ db' = "half" /\ UNCHANGED <<restoring, torn>>
       \/ db' = restoring /\ restoring' = "no" /\ UNCHANGED torn
       \/ UNCHANGED db /\ restoring' = "no" /\ torn' = (torn \/ db = "half")
    /\ UNCHANGED <<today, dumps, disk, bucket, run, safe>>

\* The production database is wiped, as it was on 2026-08-14.
Accident ==
    /\ restoring = "no"
    /\ db' = "empty"
    /\ UNCHANGED <<today, dumps, disk, bucket, run, restoring, torn, safe>>

\* A run takes less than a day.
NextDay ==
    /\ today < FinalDay /\ \A r \in Runs : run[r].pc = "idle"
    /\ today' = today + 1
    /\ UNCHANGED <<db, dumps, disk, bucket, run, restoring, torn, safe>>

BackupsNext ==
    \/ \E r \in Runs :
          \/ Dump(r) \/ CheckSanity(r) \/ Encrypt(r) \/ Upload(r)
          \/ PruneDisk(r) \/ PruneBucket(r) \/ RunFails(r)
    \/ \E a \in Archives : RestoreFrom(a)
    \/ RestoreGoesOn \/ Accident \/ NextDay

BackupsSpec == BackupsInit /\ [][BackupsNext]_backupVars

-----------------------------------------------------------------------------
(* The drills                                                              *)

\* restore_drill.py: pg_restore must not fail, and the plans are counted.
DrillPasses(a) == HasPlans(a.holds)

\* restore-drill.sh: the errors of pg_restore are counted and forgotten, alembic makes the
\* tables that are missing, and no number is looked at.
WeeklyDrillPasses(a) == TRUE

-----------------------------------------------------------------------------
(* Correctness.                                                            *)

\* Once a good archive has been stored, one is on the disk and one in the bucket from then
\* on, however long the database stays broken and the uploads fail, and every archive passes
\* the drill: unless a restore ran beside a backup, which reads the database twice, or
\* stopped half-way, which the sanity gate does not see.
GoodBackupKept ==
    torn \/ /\ safe => Good(disk) /\ Good(bucket)
            /\ \A a \in disk \union bucket : DrillPasses(a)
=============================================================================
