--------------------------- MODULE BackupRestore ---------------------------
(***************************************************************************)
(* api/backup.rs, scheduler/backup_scheduler.rs and the start-up restore   *)
(* of main.rs: archives of the data directory, and the replacement of all  *)
(* its files by those of an archive, with a restore point to go back to.   *)
(*                                                                         *)
(* An operation is cut at each file that it copies, deletes or renames.    *)
(* The database is kept out of the way by the lock of the pool; no lock    *)
(* keeps scripts from being saved, nor commands, git and the AI from       *)
(* writing files, while a restore replaces them.                           *)
(* Outside the code in src/: every file operation may fail; the server     *)
(* may stop at any time and is started again; the handler of a client that *)
(* goes away is dropped at an await (a blocking thread that it left behind *)
(* is taken to have finished, or not to have begun).  Left out: temporary  *)
(* copies of uploads, permissions, the names of files, and the size limits *)
(* of an archive, which Refused stands for.                                *)
(***************************************************************************)
EXTENDS Naturals, FiniteSets, Functions

CONSTANTS
    Files,       \* what the data directory holds
    Db,          \* the one of them that is app.db, with its WAL
    Handlers,    \* requests and scheduled backups at one time; a slot is reused
    Boot,        \* the start-up of the server
    Earlier,     \* how many backups were on the remote server before
    MaxOps,      \* bound: backups and restores ever begun, with those
    MaxRev,      \* bound: commits, and how often a file is written
    max_backups, \* how many remote backups the configuration keeps
    Missing,     \* the content of a file that is not there
    NoArchive,   \* no archive, or no staging directory
    NoOne        \* no actor

Actors == Handlers \union {Boot}
Ids == 1..MaxOps
Sources == {"own", "past", "fresh", "mixed", "other"}
Contents == [src : Sources, rev : 0..MaxRev]
Archives == [Files -> Contents \union {Missing}]
Promises == UNION {[S -> Contents \union {Missing}] : S \in SUBSET Files}

ASSUME BackupAssumption ==
    /\ Db \in Files
    /\ Boot \notin Handlers /\ NoOne \notin Handlers \union {Boot}
    /\ Missing \notin Contents /\ NoArchive \notin Archives
    /\ MaxOps \in Nat /\ MaxRev \in Nat
    /\ Earlier \in 0..MaxOps /\ max_backups \in Nat \ {0}

VARIABLES
    data,      \* the data directory: the content of each of its files
    staging,   \* the staging directory of each actor, if any
    points,    \* the restore points beside the data directory, by operation
    remote,    \* the backups on the WebDAV or S3 server, by operation
    held,      \* the archives that users hold
    pool,      \* the connection pool: "open", "closed", or "down" with the server
    lock,      \* who holds BACKUP_OPERATION_LOCK
    server,    \* "serving", "booting" or "off"
    op,        \* the operations in progress, and their locals
    ops,       \* counts operations
    shown,     \* history: the data that was last promised to the users, but for the
               \* files that others wrote while a restore was under way
    goal       \* history: the archive whose activation began last

vars == <<data, staging, points, remote, held, pool, lock, server, op, ops,
          shown, goal>>
outside == <<remote, held>>
process == <<pool, server>>
history == <<shown, goal>>

File(src) == [src |-> src, rev |-> 0]
Whole(src) == [f \in Files |-> File(src)]
Nothing == [f \in Files |-> Missing]

\* Stands for every archive that unpacking or validation refuses for good.
Refused == Nothing

Idle == [kind |-> "none", pc |-> "idle", id |-> 0, archive |-> NoArchive,
         copy |-> Nothing, todo |-> {}, undo |-> FALSE]

Kinds == {"none", "restore", "download", "scheduled", "boot"}
Stages == {"idle", "lock", "fetch", "copy", "prepare", "close", "clear", "rename",
           "open", "discard", "send", "list", "prune"}
Locked == {"copy", "prepare", "close", "clear", "rename", "open", "discard"}

Operations ==
    [kind : Kinds, pc : Stages, id : 0..MaxOps, archive : Archives \union {NoArchive},
     copy : Archives, todo : SUBSET (Files \union Ids), undo : BOOLEAN]

TypeOK ==
    /\ data \in Archives
    /\ staging \in [Actors -> Archives \union {NoArchive}]
    /\ points \in [Ids -> Archives \union {NoArchive}]
    /\ DOMAIN remote \subseteq Ids /\ remote \in [DOMAIN remote -> Archives]
    /\ held \subseteq Archives
    /\ pool \in {"open", "closed", "down"} /\ server \in {"serving", "booting", "off"}
    /\ lock \in Handlers \union {NoOne}
    /\ \A a \in Handlers : lock = a <=> op[a].pc \in Locked
    /\ op \in [Actors -> Operations]
    /\ ops \in 0..MaxOps
    /\ shown \in Promises /\ Db \in DOMAIN shown
    /\ goal \in Archives \union {NoArchive}

Init ==
    /\ data = Whole("own") /\ shown = Whole("own") /\ goal = NoArchive
    /\ staging = [a \in Actors |-> NoArchive]
    /\ points = [i \in Ids |-> NoArchive]
    /\ remote = [i \in 1..Earlier |-> Whole("past")]
    /\ held = {Whole("past"), Refused}
    /\ pool = "open" /\ lock = NoOne /\ server = "serving"
    /\ op = [a \in Actors |-> Idle] /\ ops = Earlier

-----------------------------------------------------------------------------
Present(archive) == {f \in Files : archive[f] # Missing}

At(a, pc) == op[a].pc = pc
To(a, pc, todo) == op' = [op EXCEPT ![a].pc = pc, ![a].todo = todo]
Finish(a) == op' = [op EXCEPT ![a] = Idle]
Release(a) == lock' = IF lock = a THEN NoOne ELSE lock

\* A restore holds the write lock of the pool from the checkpoint to the end.
Excluded == \E a \in Handlers : lock = a /\ op[a].kind = "restore"
                                /\ op[a].pc # "discard"

\* a is changing the data directory.
Replacing(a) ==
    \/ op[a].pc \in {"clear", "rename"}
    \/ op[a].undo /\ op[a].pc = "prepare"
    \/ a # Boot /\ op[a].pc = "open"

\* What was promised is there, as far as it was promised.
Has(d, promise) == d # NoArchive /\ \A f \in DOMAIN promise : d[f] = promise[f]
Keeps == Has(data, shown)

\* What a restore makes of what was promised.
Restored(archive) == Restrict(archive, DOMAIN shown)

\* A restore is under way, and what is written to f comes too late for it.
TooLate(a, f) ==
    \/ Replacing(a) \/ op[a].pc \in {"prepare", "close"}
    \/ op[a].pc = "copy" /\ op[a].kind \in {"restore", "boot"} /\ f \notin op[a].todo

\* The tables are made where there are none.
init_db(d) == IF d[Db] = Missing THEN [d EXCEPT ![Db] = File("fresh")] ELSE d

\* A handler commits a transaction.
Commit ==
    /\ pool = "open" /\ ~Excluded
    /\ data[Db].rev < MaxRev
    /\ data' = [data EXCEPT ![Db].rev = @ + 1]
    /\ shown' = IF Keeps THEN [shown EXCEPT ![Db] = data'[Db]] ELSE shown
    /\ UNCHANGED <<staging, points, outside, process, lock, op, ops, goal>>

Rewritten(c) == [src |-> "other", rev |-> IF c = Missing THEN 1 ELSE c.rev + 1]

\* A script is saved, or a command, git or the AI writes a file, also one that was
\* started before the server stopped.  Nobody looks at a lock.
WriteFile(f) ==
    /\ f # Db
    /\ Rewritten(data[f]) \in Contents
    /\ data' = [data EXCEPT ![f] = Rewritten(data[f])]
    /\ shown' = IF \E a \in Actors : TooLate(a, f) THEN Restrict(shown, DOMAIN shown \ {f})
                ELSE IF Keeps THEN [g \in DOMAIN shown \union {f} |-> data'[g]]
                ELSE shown
    /\ UNCHANGED <<staging, points, outside, process, lock, op, ops, goal>>

Begin(a, kind, pc, archive) ==
    /\ server = "serving" /\ ops < MaxOps
    /\ At(a, "idle")
    /\ ops' = ops + 1
    /\ op' = [op EXCEPT ![a] = [Idle EXCEPT !.kind = kind, !.pc = pc, !.id = ops',
                                            !.archive = archive]]
    /\ UNCHANGED <<data, staging, points, outside, process, lock, history>>

\* The upload is complete and the TOTP code, which is in the database, fits.
restore_backup(a) ==
    /\ pool = "open" /\ ~Excluded
    /\ \E archive \in held : Begin(a, "restore", "lock", archive)

create_backup(a) == pool = "open" /\ ~Excluded /\ Begin(a, "download", "lock", NoArchive)

\* By the cron job or by the button; needs no database.
perform_backup(a) == Begin(a, "scheduled", "lock", NoArchive)

-----------------------------------------------------------------------------
(* The archive of the current data.                                        *)

StartCopy(a) ==
    /\ staging' = [b \in Actors |-> NoArchive]  \* cleanup_restore_staging
    /\ To(a, "copy", Present(data))

\* Variant: a backup does not wait for the operation in progress.
LockBackup_Unlocked(a) ==
    /\ At(a, "lock") /\ op[a].kind # "restore"
    /\ StartCopy(a)
    /\ UNCHANGED <<data, points, outside, process, lock, ops, history>>

\* create_backup_file, under the lock of its own.
LockBackup(a) ==
    /\ At(a, "lock") /\ op[a].kind # "restore"
    /\ lock = NoOne /\ lock' = a
    /\ StartCopy(a)
    /\ UNCHANGED <<data, points, outside, process, ops, history>>

\* The restore takes the operation lock and the pool, and empties the WAL.
LockRestore(a) ==
    /\ At(a, "lock") /\ op[a].kind = "restore"
    /\ lock = NoOne /\ lock' = a
    /\ pool = "open"
    /\ StartCopy(a)
    /\ shown' = IF Keeps THEN data ELSE shown
    /\ UNCHANGED <<data, points, outside, process, ops, goal>>

\* Variant: only a busy database is an error, a closed pool is waited for.
CheckpointFail_Busy(a) ==
    /\ At(a, "lock") /\ op[a].kind = "restore"
    /\ lock = NoOne /\ pool = "open"
    /\ Finish(a)
    /\ UNCHANGED <<data, staging, points, outside, process, lock, ops, history>>

\* The checkpoint finds the database busy, or the pool closed.
CheckpointFail(a) ==
    /\ At(a, "lock") /\ op[a].kind = "restore"
    /\ lock = NoOne
    /\ Finish(a)
    /\ UNCHANGED <<data, staging, points, outside, process, lock, ops, history>>

\* A copy of the database may mix two states of it while others commit.
CopyFile(a, f) ==
    /\ At(a, "copy") /\ f \in op[a].todo
    /\ \E content \in {data[f]} \union
                      (IF f = Db /\ pool = "open" /\ ~Excluded THEN {File("mixed")} ELSE {}) :
          op' = [op EXCEPT ![a].copy[f] = content, ![a].todo = @ \ {f}]
    /\ UNCHANGED <<data, staging, points, outside, process, lock, ops, history>>

\* The restore point is complete; at start-up, too.
KeepPoint(a) ==
    /\ At(a, "copy") /\ op[a].todo = {} /\ op[a].kind \in {"restore", "boot"}
    /\ points' = [points EXCEPT ![op[a].id] = op[a].copy]
    /\ To(a, "prepare", {})
    /\ UNCHANGED <<data, staging, outside, process, lock, ops, history>>

\* The archive to download or to upload is complete.
FinishBackup(a) ==
    /\ At(a, "copy") /\ op[a].todo = {} /\ op[a].kind \in {"download", "scheduled"}
    /\ Release(a)
    /\ To(a, "send", {})
    /\ UNCHANGED <<data, staging, points, outside, process, ops, history>>

\* Variant: the early return keeps the lock.
CopyFail_Locked(a) ==
    /\ At(a, "copy") /\ a # Boot
    /\ Finish(a)
    /\ UNCHANGED <<data, staging, points, outside, process, lock, ops, history>>

\* The archive cannot be written: nothing was changed.
CopyFail(a) ==
    /\ At(a, "copy") /\ a # Boot
    /\ Release(a) /\ Finish(a)
    /\ UNCHANGED <<data, staging, points, outside, process, ops, history>>

Download(a) ==
    /\ At(a, "send") /\ op[a].kind = "download"
    /\ held' = held \union {op[a].copy}
    /\ Finish(a)
    /\ UNCHANGED <<data, staging, points, remote, process, lock, ops, history>>

upload_file(a) ==
    /\ At(a, "send") /\ op[a].kind = "scheduled"
    /\ remote' = [i \in DOMAIN remote \union {op[a].id} |->
                     IF i = op[a].id THEN op[a].copy ELSE remote[i]]
    /\ To(a, "list", {})
    /\ UNCHANGED <<data, staging, points, held, process, lock, ops, history>>

\* The file cannot be read, sent or listed; or nothing is left to delete.
EndBackup(a) ==
    /\ op[a].pc \in {"send", "list", "prune"}
    /\ Finish(a)
    /\ UNCHANGED <<data, staging, points, outside, process, lock, ops, history>>

\* Variant: sorted the other way round.
Surplus_Ascending(listed) ==
    {i \in listed : Cardinality({j \in listed : j < i}) >= max_backups}

\* The listed backups but the newest max_backups, by the times in their names.
Surplus(listed) ==
    {i \in listed : Cardinality({j \in listed : j > i}) >= max_backups}

cleanup_old_backups(a) ==
    /\ At(a, "list")
    /\ To(a, "prune", Surplus(DOMAIN remote))
    /\ UNCHANGED <<data, staging, points, outside, process, lock, ops, history>>

\* An old backup is deleted, or its deletion fails.
DeleteOld(a, i) ==
    /\ At(a, "prune") /\ i \in op[a].todo
    /\ op' = [op EXCEPT ![a].todo = @ \ {i}]
    /\ \/ remote' = Restrict(remote, DOMAIN remote \ {i})
       \/ UNCHANGED remote
    /\ UNCHANGED <<data, staging, points, held, process, lock, ops, history>>

-----------------------------------------------------------------------------
(* The replacement of the data: prepare_backup_file, activate_prepared_    *)
(* backup and init_db, first for the archive and, should that fail, for    *)
(* the restore point.                                                      *)

\* Variant: the rollback unpacks the uploaded archive again.
Source_Uploaded(a) == op[a].archive

Source(a) == IF op[a].undo THEN points[op[a].id] ELSE op[a].archive

\* The process ends with an error.
Exit ==
    /\ server' = "off" /\ pool' = "down" /\ lock' = NoOne
    /\ op' = [a \in Actors |-> Idle]

\* Nobody can undo any more: a request leaves the pool closed, a start-up ends.
GiveUp(a) ==
    IF a = Boot THEN Exit
    ELSE Finish(a) /\ Release(a) /\ UNCHANGED <<pool, server>>

\* The archive is unpacked into a new staging directory and validated.
prepare_backup_file(a) ==
    /\ At(a, "prepare") /\ Source(a)[Db] # Missing
    /\ staging' = [b \in Actors |-> IF b = a THEN Source(a) ELSE NoArchive]
    /\ IF op[a].kind = "restore" /\ ~op[a].undo
       THEN To(a, "close", {}) /\ UNCHANGED goal
       ELSE /\ To(a, "clear", Present(data))
            /\ goal' = IF op[a].undo THEN goal ELSE op[a].archive
    /\ UNCHANGED <<data, points, outside, process, lock, ops, shown>>

\* Refused before anything was changed: the restore point is removed.
PrepareFail(a) ==
    /\ At(a, "prepare") /\ ~op[a].undo
    /\ staging' = [b \in Actors |-> NoArchive]
    /\ points' = IF op[a].id = 0 THEN points ELSE [points EXCEPT ![op[a].id] = NoArchive]
    /\ GiveUp(a)
    /\ UNCHANGED <<data, outside, ops, history>>

\* Variant: the restore point is removed, as on the other paths.
RollbackFail_Tidy(a) ==
    /\ op[a].undo /\ op[a].pc \in {"prepare", "clear", "rename", "open"}
    /\ GiveUp(a)
    /\ points' = [points EXCEPT ![op[a].id] = NoArchive]
    /\ UNCHANGED <<data, staging, outside, ops, history>>

RollbackFail(a) ==
    /\ op[a].undo /\ op[a].pc \in {"prepare", "clear", "rename", "open"}
    /\ GiveUp(a)
    /\ UNCHANGED <<data, staging, points, outside, ops, history>>

ClosePool(a) ==
    /\ At(a, "close")
    /\ pool' = "closed" /\ goal' = op[a].archive
    /\ To(a, "clear", Present(data))
    /\ UNCHANGED <<data, staging, points, outside, server, lock, ops, shown>>

\* clear_directory_contents_except, file by file.
ClearFile(a, f) ==
    /\ At(a, "clear") /\ f \in op[a].todo
    /\ data' = [data EXCEPT ![f] = Missing]
    /\ op' = [op EXCEPT ![a].todo = @ \ {f}]
    /\ UNCHANGED <<staging, points, outside, process, lock, ops, history>>

ListStaged(a) ==
    /\ At(a, "clear") /\ op[a].todo = {} /\ staging[a] # NoArchive
    /\ To(a, "rename", Present(staging[a]))
    /\ UNCHANGED <<data, staging, points, outside, process, lock, ops, history>>

RenameFile(a, f) ==
    /\ At(a, "rename") /\ f \in op[a].todo /\ staging[a] # NoArchive
    /\ data' = [data EXCEPT ![f] = staging[a][f]]
    /\ staging' = [staging EXCEPT ![a][f] = Missing]
    /\ op' = [op EXCEPT ![a].todo = @ \ {f}]
    /\ UNCHANGED <<points, outside, process, lock, ops, history>>

\* The empty staging directory is removed.  A start-up is then done with its
\* restore point, whether or not it had to be used.
RemoveStaging(a) ==
    /\ At(a, "rename") /\ op[a].todo = {}
    /\ staging' = [staging EXCEPT ![a] = NoArchive]
    /\ To(a, "open", {})
    /\ IF a = Boot /\ op[a].id # 0
       THEN points' = [points EXCEPT ![op[a].id] = NoArchive]
       ELSE UNCHANGED points
    /\ shown' = IF a = Boot /\ ~op[a].undo THEN Restored(goal) ELSE shown
    /\ UNCHANGED <<data, outside, process, lock, ops, goal>>

\* Any step of the activation may fail: the rollback begins, where there is a
\* restore point for it.
ActivateFail(a) ==
    /\ ~op[a].undo
    /\ op[a].pc \in IF a = Boot THEN {"clear", "rename"} ELSE {"clear", "rename", "open"}
    /\ IF a = Boot /\ op[a].id = 0 THEN Exit
       ELSE /\ op' = [op EXCEPT ![a].undo = TRUE, ![a].pc = "prepare", ![a].todo = {}]
            /\ UNCHANGED <<pool, server, lock>>
    /\ UNCHANGED <<data, staging, points, outside, ops, history>>

\* init_db after a restore: the new pool takes the place of the old one.
Reopen(a) ==
    /\ At(a, "open") /\ a # Boot /\ ~op[a].undo
    /\ data' = init_db(data)
    /\ pool' = "open" /\ shown' = Restored(goal)
    /\ To(a, "discard", {})
    /\ UNCHANGED <<staging, points, outside, server, lock, ops, goal>>

DiscardPoint(a) ==
    /\ At(a, "discard")
    /\ points' = [points EXCEPT ![op[a].id] = NoArchive]
    /\ Release(a) /\ Finish(a)
    /\ UNCHANGED <<data, staging, outside, process, ops, history>>

\* init_db after a rollback: the restore point is left where it is.
ReopenOld(a) ==
    /\ At(a, "open") /\ a # Boot /\ op[a].undo
    /\ data' = init_db(data)
    /\ pool' = "open"
    /\ Release(a) /\ Finish(a)
    /\ UNCHANGED <<staging, points, outside, server, ops, history>>

-----------------------------------------------------------------------------
(* The server stops, starts, and loses clients.                            *)

Crash ==
    /\ server # "off"
    /\ Exit
    /\ UNCHANGED <<data, staging, points, outside, ops, history>>

Start ==
    /\ server = "off" /\ server' = "booting"
    /\ op' = [op EXCEPT ![Boot] = [Idle EXCEPT !.kind = "boot", !.pc = "fetch"]]
    /\ UNCHANGED <<data, staging, points, outside, pool, lock, ops, history>>

\* No automatic restore, or no backup there.
SkipRestore ==
    /\ At(Boot, "fetch")
    /\ To(Boot, "open", {})
    /\ UNCHANGED <<data, staging, points, outside, process, lock, ops, history>>

\* The newest backup is downloaded; a restore point is made if there is a database.
download_latest_backup ==
    /\ At(Boot, "fetch")
    /\ \E latest \in DOMAIN remote :
          /\ \A i \in DOMAIN remote : i <= latest
          /\ IF data[Db] # Missing
             THEN /\ ops < MaxOps /\ ops' = ops + 1
                  /\ op' = [op EXCEPT ![Boot].pc = "copy", ![Boot].archive = remote[latest],
                                      ![Boot].id = ops', ![Boot].todo = Present(data)]
                  /\ staging' = [b \in Actors |-> NoArchive]
             ELSE /\ op' = [op EXCEPT ![Boot].pc = "prepare", ![Boot].archive = remote[latest]]
                  /\ UNCHANGED <<staging, ops>>
    /\ shown' = IF Keeps THEN data ELSE shown
    /\ UNCHANGED <<data, points, outside, process, lock, goal>>

\* The download, the restore point or the database fails: main returns the error.
BootFail ==
    /\ op[Boot].pc \in {"fetch", "copy", "open"} /\ ~op[Boot].undo
    /\ Exit
    /\ UNCHANGED <<data, staging, points, outside, ops, history>>

\* The pool is opened, and the server listens.
BootOpen ==
    /\ At(Boot, "open")
    /\ data' = init_db(data)
    /\ pool' = "open" /\ server' = "serving"
    /\ shown' = IF ~Keeps /\ goal # NoArchive /\ Has(data, Restored(goal))
                THEN Restored(goal) ELSE shown
    /\ Finish(Boot)
    /\ UNCHANGED <<staging, points, outside, lock, ops, goal>>

\* The client of a request goes away.
Disconnect(a) ==
    /\ op[a].kind \in {"restore", "download"}
    /\ Finish(a) /\ Release(a)
    /\ UNCHANGED <<data, staging, points, outside, process, ops, history>>

-----------------------------------------------------------------------------
BackupStep(a) ==
    \/ LockBackup(a) \/ FinishBackup(a) \/ Download(a) \/ upload_file(a)
    \/ EndBackup(a) \/ cleanup_old_backups(a) \/ \E i \in Ids : DeleteOld(a, i)

RestoreStep(a) ==
    \/ LockRestore(a) \/ CheckpointFail(a) \/ ClosePool(a)
    \/ Reopen(a) \/ DiscardPoint(a) \/ ReopenOld(a)

ReplaceStep(a) ==
    \/ CopyFail(a) \/ KeepPoint(a) \/ \E f \in Files : CopyFile(a, f)
    \/ prepare_backup_file(a) \/ PrepareFail(a) \/ RollbackFail(a)
    \/ ListStaged(a) \/ RemoveStaging(a) \/ ActivateFail(a)
    \/ \E f \in Files : ClearFile(a, f) \/ RenameFile(a, f)

BootStep == SkipRestore \/ download_latest_backup \/ BootFail \/ BootOpen
            \/ ReplaceStep(Boot)

Work(a) == BackupStep(a) \/ RestoreStep(a) \/ ReplaceStep(a)

Next ==
    \/ Commit \/ \E f \in Files : WriteFile(f)
    \/ \E a \in Handlers :
          restore_backup(a) \/ create_backup(a) \/ perform_backup(a)
          \/ Work(a) \/ Disconnect(a)
    \/ Crash \/ Start \/ BootStep

Spec == Init /\ [][Next]_vars

\* The runtime polls every handler, and the start-up runs; nobody has to ask
\* for anything, or to start a server that has stopped.
FairSpec == Spec /\ WF_vars(BootStep) /\ \A a \in Handlers : WF_vars(Work(a))

-----------------------------------------------------------------------------
\* No data is lost but what was written in between, whatever fails, stops or goes
\* away: what the server last promised to keep is in the data directory, or complete
\* in a restore point beside it (restore_backup and restore_latest_backup remove
\* their restore point only when the new data is in place or the old data untouched).
\* The promise leaves out the files that others write while a restore is under way,
\* once they were copied for its restore point: what they write is lost when the data
\* is replaced, also if it is rolled back.
NothingLost == Keeps \/ \E i \in Ids : Has(points[i], shown)

\* While files are being replaced the database is closed, only one operation
\* replaces them, and nobody takes its staged files away (each backup begins
\* with cleanup_restore_staging, which removes the staging directories of all).
ReplacedInPrivate ==
    \A a \in Actors : Replacing(a) =>
        /\ pool # "open"
        /\ \A b \in Actors : Replacing(b) => b = a
        /\ op[a].pc \in {"clear", "rename"} => staging[a] # NoArchive

\* Retention never removes a backup with fewer than max_backups newer ones
\* left: two clean-ups that run together, each with a list of its own, do not
\* delete more than they should (cleanup_old_backups and its twin for S3).
NewestKept ==
    [][\A i \in DOMAIN remote \ DOMAIN remote' :
          Cardinality({j \in DOMAIN remote' : j > i}) >= max_backups]_vars

\* Every operation comes to its end, with its rollback if need be, and so does
\* a start-up: no lock stays taken and the pool is not left closed half-way.
OperationsEnd == \A a \in Actors : op[a].pc # "idle" ~> op[a].pc = "idle"

\* With its service hidden behind six modes, the detailed protocol keeps the
\* contract: the data shown is the old or the new, unless a replacement was cut
\* off or could not be undone (the messages of restore_backup promise as much).
Mode ==
    IF \E a \in Actors : Replacing(a)
    THEN IF \E a \in Actors : Replacing(a) /\ op[a].id # 0 /\ Has(points[op[a].id], shown)
         THEN "replacing" ELSE "mending"
    ELSE IF Keeps THEN IF pool = "open" THEN "up" ELSE "down"
    ELSE IF pool = "open" THEN "torn" ELSE "broken"

\* What may be promised when one file is written: all that was, but for that file.
AfterWrite(d) ==
    {p \in Promises : \E f \in Files : \A g \in DOMAIN d \ {f} :
                        g \in DOMAIN p /\ p[g] = d[g]}
Less(d) == {Restrict(d, DOMAIN d \ {f}) : f \in Files}
Contract == INSTANCE RestoreContract
              WITH mode <- Mode, Datas <- Promises, Written <- AfterWrite, Less <- Less
KeepsRestoreContract == Contract!Spec
=============================================================================
