# Verification of zhuque's task platform

zhuque (`src/`) is a scheduler for scripts: a Rust server (axum, tokio, SQLite) that
runs shell commands as cron, manual, webhook or start-up tasks, installs the packages
these need, synchronises script repositories, backs its data up, and has a web front
end. This directory holds TLA+ models of the parts in which order and failure decide
whether the server is right, the TLC runs that check them, and TLAPS proofs of the
properties that matter most.

Nearly all of the interesting behaviour is concurrency inside one process: request
handlers, spawned tasks and timers of the tokio runtime share maps behind `RwLock`s,
a semaphore and a database, and may be interleaved at every `await`. Handlers are
dropped at an `await` when their client goes away.

## 1. Inventory

| part | state | operations | what is hard | what makes it right |
|---|---|---|---|---|
| **Task executor** `services/executor.rs` | `running_tasks`, `log_channels`, `log_buffers`, `executions`, the token registry; child processes | `execute_with_mode`, `kill_task_with_log`, the watchdog, `schedule_token_cleanup` | triggers, kills, timeouts and exits of processes race; pids are reused; early returns | no process without a caller; one verdict per call; map entries neither stale nor missing; tokens live as long as the commands |
| **Cron job registry** `scheduler/mod.rs`, `api/task.rs` | table `tasks`, jobs of the cron scheduler, `job_ids` | `reload_tasks`, `add_`, `remove_`, `update_task_in_scheduler`, the handlers that call them | the row is written, removed and read in different steps; only some are under the lock; failures and disconnections in the middle | the scheduler runs what the rows say; `job_ids` names live jobs; one task's handler leaves the others alone |
| **Triggers** `scheduler/mod.rs`, `main.rs` | none of their own | cron jobs, `run_task_now`, webhook, start-up and supplement tasks | several triggers of one task | all go through the executor's guard |
| **Dependence queue** `services/dependence.rs` | table `dependences`, one semaphore permit, spawned installers, installed packages | `create`, `create_batch`, `ensure_dependencies`, `update`, `delete`, `soft_delete`, `reinstall`, `install_on_startup` | check-then-insert; installers that outlive their row; restarts; dropped deletions | every status is backed by work in progress; installs and removals never overlap; the start-up loop ends |
| **Tasks, groups, logs** `services/{task,task_group,log}.rs` | tables | single statements, `create` checks the name first | name check and insert | names are unique |
| **Backup and restore** `api/backup.rs`, `scheduler/backup_scheduler.rs`, `services/{webdav,s3}.rs`, `main.rs` | data directory, staging directories, restore points, the pool, `BACKUP_OPERATION_LOCK`, the backups on the remote server | back up, upload, retain, restore, activate, roll back, automatic restore at start-up, clean up | crash, error or dropped handler between two file operations; backups next to restores; files that others write meanwhile, without any lock | old or new data, and nothing lost that was there when the restore point was made; the pool is open again; retention keeps the newest |
| **Subscriptions** `services/subscription.rs`, `scheduler/subscription_scheduler.rs`, `api/subscription.rs` | rows with a run status, jobs and `job_ids`, directories | create, update, delete, run, reload | concurrent runs, also of two rows at one file; rows that an update moves; schedules nobody validates; reloads that fail or are dropped; a stop leaves `running` and half a clone | one job per enabled subscription with a schedule that can be parsed; the status tells the last run's result |
| **AI agent** `api/ai.rs` | `AI_JOBS`, pending approval and its `Notify`, event history and broadcast channel, the active job of a session | create, run, approve, cancel, delete the session; publish, replay | answers race the wait for them, cancellation and the next call; two jobs of one session; sockets that lag | nothing runs unapproved; no event is missed; a cancelled job ends |
| **Authentication, TOTP** `services/{auth,totp}.rs`, `api/auth.rs`, `middleware/auth.rs` | four configuration rows, tokens | log in, verify, set up, enable, disable, regenerate; PUT and DELETE of any row by `api/config.rs` | read-modify-write of the codes in separate statements; lists that the client sends | a used code comes back only with those who had it or its list in hand |
| **Scripts and debug runs** `services/script.rs`, `api/script.rs` | files; processes, temporary files and `running_processes` of debug runs | file operations; execute, read the stream, kill | kill against the end of the process; the client goes away | a run that ended leaves nothing behind |
| **Terminal, notifications, configuration, users, system** | ptys, rows | single operations | mostly input and output | outside this project |

The parts meet in few places: every trigger calls the executor; the executor reads the token
registry that `script_notify` checks; handlers and restores call the job registry; subscription
imports call `ensure_dependencies`; start-up tasks wait for the signal of `install_on_startup`;
a restore finds and leaves the rows that all others work on. `PROJECT.json` lists the
components with what is left out, and, line by line, the hazards of this code with the
properties that cover them.

## 2. Modules

### TaskExecution (with TaskContract, MCTaskExecution, TaskExecutionProofs)

An *execution* is one call of `execute_with_mode`; `pc` says which stretch of code between two
awaits comes next: `Skip`/`Admit` (the guard), `Register`, `PrepareFail`/`Prepare`,
`PreSucceed`/`PreFail`, `SpawnFail`/`Spawn`, `Track` (`running_tasks.insert`), `Arm`
(watchdog), `Reap`/`WaitFail`, `ReturnKilled`/`Exited`, `Untrack`, `Post`, `Close`. A *killer*
is one call of `kill_task_with_log`, cut in the same way. `proc` is the operating system: the
main process of each pid, alive, zombie or gone, whether other members of its process group are
left (`kids`), and whether some process that left the group (by `setsid`, as a daemon) still
holds its pipes (`away`). A pid is reused once the main process and the group are gone; kills
reach the group only. The output loop goes on while anybody holds the pipes: certainly while
one is `away`, and perhaps while background children are left, which may have closed theirs.
Back-to-back map updates that no other task can tell apart are one step; the order of updates
across awaits is the code's. Log lines, texts and environment variables are left out, as no
step depends on them.

`TaskContract` is what a caller may rely on, without maps, processes or timers: a call is
declined (and told `success`, with a message, as the code does), or accepted and then ended
once with one verdict, and `killed` is the verdict only of a launched call that was asked to
stop and that never settled. `ImplementsContract` maps `pc` to its phases, `outcome` to the
verdict and the `killed_externally` flags to the requests.

History variables: `overlapped` (tasks of which two calls were admitted at once) and
`signalled` (executions killed on behalf of a request). They let the properties say what
holds *as long as calls do not overlap*, which the guard does not ensure.

### DependenceQueue (with MCDependenceQueue, DependenceQueueProofs)

`rows` is the table, `queue` the semaphore: its head holds the permit, the rest wait in order
of arrival (tokio's semaphore is fair). `spawned` are installers that were spawned and not
polled yet. `req[c]` holds the locals of a handler: the names still to do, the rows made, the
copy of the row it works on. Each handler is cut at its database and semaphore awaits.
`startup` is the list of the start-up loop, `ready` its signal. `Restart` drops everything in
memory and runs `install_on_startup`; `Disconnect` drops one handler, also between the UPDATE
of a reinstallation and the spawn of its installer (`marked`). A removal goes on to `removed`
whether or not its command took the package off, as nothing looks at the exit status; only a
command that cannot be spawned leaves the status as it was. `abandoned` remembers the rows that
some handler left half-way, `purged` the packages that a deletion removed; both only weaken or
state properties, never a guard.

### JobRegistry (with MCJobRegistry, JobRegistryProofs, ScheduleProofs)

`rows` is the table of tasks: the number of the request that wrote each row, and its cron
expressions (each valid or not); `jobs` what the cron scheduler holds, each with the
version of the row it was made from; `job_ids` the list; `lock` its write lock. A handler
goes `remove` → `drain` → `get` → `schedule` → `register`, as far as its request needs; a
reload goes `reload` → `clear` → `read` → `refill` and holds the lock from the second on. What
it drained or is about to register is in its `hand`. `Disconnect` leaves any part of the
current step done, and loses the drained entries, as dropping a `Drain` does. A restore
replaces the table by any other and then reloads.

### BackupRestore (with RestoreContract, MCBackupRestore, BackupRestoreProofs)

`data` is the data directory as a function from files to contents; a content names the
data it belongs to and, for the database, its revision, so that a mixture of two
archives can be told from either. An operation (`op`) is cut at every file that it
copies, deletes or renames: `create_backup` and `perform_backup` take the lock, clean the
staging directories up, copy, upload and retain; `restore_backup` also stages, makes a
restore point, closes the pool, prepares, clears, renames, opens, and on failure goes the
same way back (`undo`). `BootStep` is the automatic restore of `main.rs` before the
pool is opened. `Crash` ends the process between any two of these steps, `Disconnect` drops one
handler, and every file operation may fail. `WriteFile` is everybody who writes into the
data directory without a lock: scripts that are saved, the AI, git, and commands, also one that
outlives the server. So only the database is kept still while a restore copies and replaces files.

`shown` is what the server has promised: the data as it was when last nothing was under way,
and after a restore that of the archive. What is written to a file after it was copied for the
restore point is lost with the clearing (`backup.rs` 322-335), also when the restore is rolled
back; `TooLate` says when, and from then on `shown` says nothing of that file, until a later
write finds everything in its place. `NothingLost` is about all that is left.

`RestoreContract` is what a user may rely on, without files or locks: six modes of the service,
and the data last promised. Only a replacement that is cut off, or that can neither be finished
nor undone, breaks the data. `KeepsRestoreContract` maps the directory, the pool and the
restore points to the mode. The step `Write` is a commit or a file that is written in peace,
`WriteLate` one that a restore does not see. `Mend`, and the `Mended` of `WriteLate`, came from
the proof: broken data can become, by what its users write, just what was promised, or the
promise loses the only file that was not as promised.

### AgentJobs and EventStream (with StreamContract, MCAgents, AgentJobsProofs, AgentsProofs)

`AgentJobs` follows a job from `create_agent_job` (`named`, `listed`) through its turns
(`turn`, `ask`), the calls of one turn (`call`, `preview`, `card`, the wait, the tool), to its
end (`cancel`, `clear`, `done`, `unlist`). The wait for an approval is three stages, because
the code reads the decision, and only then waits for `Notify` or for the cancellation: `permit`
is the permit that `Notify` stores. The user's steps, `approve`, `cancel_job` and
`delete_session`, may come at any time. `cards`, `said` and `ran` are history: the calls a card
was shown for, what the user allowed, and the tools that were started. An answer names a call
by its id, and where the provider sends none the code makes do with `"tool-call"` or `""`: the
calls in `Unnamed` share the id 0. So `NothingUnapproved` says that the user approved a card
with the *id* of the call that runs, or one of an earlier call to remember. For calls with ids
of their own that is this very call; of calls without, one answer too many may approve the
next, and the property says no more than that the user had approved one.

`EventStream` is the way of a job's events to a socket: numbered and kept under one lock, sent
to a broadcast channel that drops its oldest for whoever lags, replayed from the history when a
socket subscribes or is told that it lagged, and filtered by the client by their number. The
client keeps its last numbers when its socket is gone (`Left`). `hole` is history: the client
has seen an event and not the one before it.

`StreamContract` is what the client behind a socket is promised, without channel, queues,
replays or lags: the events of the job that it watches, one after the other, none twice and
none before it was published, or all that there are at once. `KeepsStreamContract` maps the
socket's `current` and `last` and the counts of events to it. What the abstraction hides is the
reason that it is not obvious: a replay sends again what the channel still holds, and only the
filter by number (the comment in the `Lagged` arm: the front end removes duplicates by `seq`)
turns the two into one sequence.

### DebugRuns (in MCAgents)

A debug run is a handler (`spawn`, `list`) and then the stream its client reads (`read`,
`wait`, `remove`, `unlist`); `kill_execution` takes the pid under the write lock (`killing`)
and signals it. Processes, those they have started, and the clients are the environment. A
temporary file that cannot be removed stays, as the code ignores the error (`stuck`).

### SubscriptionRuns (in MCApi, with ApiProofs)

Calls of the API change a row and then reload the jobs: `reload` waits for the lock, `drain`
removes the jobs on the list, `add` makes those of the rows that were read; runs go through
`sync_git` (pull, check, reset, reclone) or `download_file` and report. A row is `on` if it is
enabled with a schedule that can be parsed; nothing validates schedules, and a reload passes
over a row with another, so such a row counts as `off`, and over a job that the cron scheduler
refuses (`refused`). A row names a `place`: a directory by its name, which is unique, or a file
by its save path, which other rows may have, too. `update` may move a row anywhere, with its
status left as it is. `copy` is what is on disk in each place: nothing, a part, or the whole;
the URL and the branch are left out, as a pull goes on with those of the clone. `Restart` cuts
everything; `upset` remembers the subscriptions whose last run was not alone at its place or
that were moved since it read its row, and `cut` those whose run never reported.
`SuccessIsWhole` speaks of subscriptions that exist, which its proof made necessary: a run that
is asked for before a deletion and marked after it clears `upset`, and the row, gone by then,
keeps its old "success". It takes four calls, one more than TLC explores in the run. What it
does not promise of moved subscriptions the code does not do: "success" stays over a place
where nothing was ever fetched, until the next run.

### TotpLogin (in MCApi, with ApiProofs)

The three rows the second factor is read from (a fourth, a hash, is read by nothing), written
one after the other, each by a look and a write. A request is a login, `verify_code` before a
change, the setup, the removal, or a PUT or DELETE of one of the rows by `api/config.rs`, which
has no exception for them; all its statements may interleave with others', and `Cut` ends it
between two of them. A setup (`generate_setup`) only shows a secret and codes: what
`enable_totp` stores is the list that the client sends, of any codes it was ever shown. Values
that nothing accepts (another word than "true", a list that is none) count as no row.

Spent codes do come back: by a client that sends them again within the time its TOTP code is
good for, or by a PUT, and by a late write of a list that was read before (`totp.rs` 149-160).
`SpentStaySpent` says that there is no other way. Each request carries, as `back`, the codes it
may bring back, because they were spent after it had read its list or before it was sent; every
other request may use and store anything but a spent code.

### Parts explored side by side

`MCApi` and `MCAgents` each hold three parts that share neither state nor calls. A step of
one can neither enable nor disable a step of another, and no property speaks of two, so
their product shows nothing that the parts do not: only one of them leaves its initial
state in a behaviour, and the runs cover each completely. Where fairness is
assumed, none of the fair steps is possible in an initial state, so that it demands
nothing of the parts that rest.

## 3. Runs

| run | instance | checks |
|---|---|---|
| `execution_safety` | 2 calls of one task with a timeout, 1 killer slot, 2 pids | type; `NoAbandonedProcess`, `TokenWhileRunning`, `TrackedIsOwn`, `TrackedUnlessTaken`, `ReportedIsClosed`; refinement `ImplementsContract` |
| `execution_liveness` | 2 tasks, one call each, 1 shared pid, 1 killer | `TimedTaskStops`, `TokensExpire` |
| `execution_reentry`, `execution_killed` | as `execution_safety` | *violated:* `NoReentry`, `KilledSkipsPost` |
| `dependence_safety` | the queue: 2 clients, 2 names with one key, 2 rows, load 2, 1 restart; subscriptions: 2 rows, 2 places of which one is a file, 3 calls, 2 runs, 1 stop; TOTP: 2 requests, 2 sets of 1 code | types; `InstallingIsPending`, `RemovalInProgress`, `NoInstallDuringRemoval`; `OneJobEach`, `RunningIsRun`, `SuccessIsWhole`; `SpentStaySpent` |
| `dependence_restart` | 1 client, otherwise the same | `StartupFinishes`, `InstallationSettles` |
| `dependence_duplicate`, `dependence_ghost` | 2 clients, no restart | *violated:* `NoDuplicateRows`, `DeletedStaysUninstalled` |
| `jobs_safety` | 2 tasks, 3 clients that may go away, 3 requests | type; `ListedAreLive`, `CurrentIsScheduled`, `ScheduledOnce`, `OthersUndisturbed` |
| `jobs_stale` | 1 task, 2 patient clients, 3 requests | *violated:* `NoStaleJob` |
| `backup_restore` | 2 files, 2 handlers, 1 backup from before and 2 operations, 1 commit and 1 write, any number of crashes, 2 backups to keep | type; `NothingLost`, `ReplacedInPrivate`, `NewestKept`; refinement `KeepsRestoreContract`; `OperationsEnd` |
| `agents` | jobs: 2 of one session, 3 jobs and calls, those of one job without ids; events: 1 socket opened twice, a channel of 2, 3 events of each job; 2 debug runs | types; `NothingUnapproved`, `NothingAfterRefusal`, `SessionShowsLive`, `AnswerHeeded`, `CancelEnds`; `NoGap`, `EventsArrive`; refinement `KeepsStreamContract`; `NothingLeft` |

**Bounds.** Every interaction in these modules is between two parties over one task, row or
pid, or between one party and a third that holds the lock or the permit. Two calls of a task
cover every overlap; two pids allow a kill or a watchdog to hit the wrong process, and one
shared pid the reuse across tasks. Two rows are what it takes for a batch that fails half-way,
for a duplicate, and for a start-up list longer than one; load 2 (requests plus queued
installers) is a queue in which somebody waits. Three requests, of which the first may be a
restore that brings any table, let two handlers race over any state of the other task. One file
besides the database is enough to tell a mixture from an archive, and the one write to it falls
before, between and after all steps of a restore. Two operations on top of an old backup give
retention, which keeps two, one to delete, and two clean-ups a list each; the number of the
start-up's restore point comes out of the same three. Two jobs of one session are what it takes
to overwrite `active_job_id`; a call after a refused one needs two calls of one job. A channel
of two with three events lags. Three calls let a reload overlap a change and a deletion of
another subscription, or a creation, an update and a run move a row away from its place or onto
another's; two sets of codes let a late write, or a client, bring back codes of the first. A
larger bound in any direction multiplies the states beyond what a run of minutes explores; the
theorems of section 5 have no bounds.

**Symmetry and view.** Symmetry is used only in runs without liveness. `QueueView` leaves
out the packages, `purged` and the names in handlers' copies: no guard reads them and
no property of those two runs mentions them, so states that agree on the view have
successors that agree on it. `ApiView` is `QueueView` next to all variables of the other
two parts. The two violation runs of the queue use no view.

**Deadlock** is not checked in these runs: all have a last request or a last call after
which the bounded system may stop, and a server that has stopped need not be started again.

**Violations.** The five violation runs are disagreements between the code and its
comments, quoted in `PROJECT.json` under `findings`:

- *NoReentry*: the guard looks for an entry that is made only after the spawn (and
  removed before the post-command), so two triggers of a task may run together.
- *KilledSkipsPost*: after a call failed in `create_dir_all`, its `ExecutionInfo` stays;
  a kill request may flag that one and kill the process of the next call, which then
  runs its post-command and reports `failed`.
- *NoDuplicateRows*: two requests pass the existence check before either inserts.
- *DeletedStaysUninstalled*: an installer that was queued behind a deletion installs the
  package again, although its row is gone.
- *NoStaleJob*: a removal does not see jobs that are made but not registered yet, so a
  deleted task, or an older version of it, keeps firing.

## 4. Fairness

`TaskExecution`: the runtime polls every task that can go on and fires its timers (`WF` of each
call's own steps, of the token timer, of the watchdog). Nothing is owed by users or by
commands: a main command, a pre- or post-command and background children may run for ever, in
the process group or out of it. That is why `Reap` is owed only when nobody in the group or out
of it can hold the pipes, and why `TimedTaskStops` says something: it is the watchdog that
kills the whole group. Whom it does not reach is a process that left the group and keeps stdout
or stderr open; as the output loop (`executor.rs` 906-941) has no timeout of its own, such a
command keeps its call waiting for ever, whatever its timeout is. `TimedTaskStops` excepts just
these calls.

`DependenceQueue`: `WF` of each handler's steps, of polling the oldest spawned installer,
of the start-up loop and of the installer that holds the permit. The last one assumes that
package commands end, which the code does not enforce by a timeout: with a hung command
neither liveness property holds. No request, disconnection or restart is owed.

`JobRegistry` has no liveness property: nothing in it waits for anything but a lock.

`BackupRestore`: `WF` of each handler's own steps and of the start-up's. File operations and
uploads end or fail; WebDAV has a timeout, for S3 it is an assumption. Neither requests, nor
commits, nor crashes, nor the restart of a stopped server are owed.

`AgentJobs`: `WF` of each job's steps; that includes that the provider answers or fails
and that a tool returns, for which the code has no time limit of its own. The user owes
no answer: `CancelEnds` holds although a card is never answered. `EventStream`: `WF` of the
socket's handler, none of the publishing job or of the client. `DebugRuns`: `WF` of
the stream, which the client reads on or drops, and of the end of a kill; no process has to end.

`SubscriptionRuns` and `TotpLogin` are checked for safety only.

## 5. Proofs

All theorems hold for every value of the constants that satisfies the module's ASSUME. The
assumptions only name what kind of thing a constant is: bounds are numbers, a value that stands
for "none" (`NoName`, `NoJob`, `NoRun`, `Nobody`, `Missing`, `NoArchive`) or for an internal
actor (the installers of the queue, the `"deleted"` mark of a session) is none of the ordinary
ones, and the database is one of the files. No theorem bounds how many tasks, clients, rows,
files or jobs there are. Each inductive invariant was checked by TLC on the instance of its
component's run before it was proved, in two steps: as an invariant of the run, and then step
by step in the proof, which showed what it still lacked.

`TaskExecutionProofs`

- `TypeCorrect`: `TypeOK`, which also says that the locals a step uses are set. Inductive
  as it stands; one step per action.
- `NoChildAbandoned`: `NoAbandonedProcess`. The strengthening says that each unreaped
  process is owned by exactly the call whose `pid` it is, at a stage where it will still
  wait; only `Spawn` makes a process, on a free pid, and only `Reap`/`WaitFail` collect it.
- `TokenKept`: `TokenWhileRunning`, strengthened by what the early returns and kill
  requests may do to tokens and to the timers that retire them.
- `EntriesOwned` and `CommandsFound`: `TrackedIsOwn`, `TrackedUnlessTaken`. They hold
  together (`TrackInv`): two calls of a task are never under way at once unless it counts as
  overlapped, an entry is then that of the call at the stages between `Track` and
  `Untrack`, a kill request knows only calls of its own task, and a call that it has chosen
  has no entry any more. So nobody but its owner removes an entry, and nobody overwrites it.
- `VerdictCloses`: `ReportedIsClosed`. The verdict is sent in the step that drops the
  entries; that no step opens an entry for a call that has returned is the rest.
- `TimersOwed`: the safety behind `TimedTaskStops` and `TokensExpire`. While a timed command is
  waited for, its watchdog is armed or has killed the whole group (`WatchdogOwed`), and from
  then on nobody new comes to hold the pipes: those that are `away` then are all that can be
  (`NoNewHolder`). A token that a call left behind has its timer (`TokenOwed`).
- `KeepsContract`: `ImplementsContract`, step simulation: each action maps to an action
  of `TaskContract` or to a stutter. It needs the invariant that relates `outcome`
  and `pc`.

`JobRegistryProofs` and `ScheduleProofs`

- `RegistryTypeCorrect`: `TypeOK`, including that the lock is held by the one handler whose
  stage says so. A lemma reduces each step to what the one handler it moves has to keep.
- `ListedStayLive`: `ListedAreLive`. By itself it is not inductive: registering jobs
  could put removed ones on the list. `ListInv` adds that jobs carry the number of the
  request that made them, that numbers are never shared, that the jobs of a handler still at
  work are neither on the list nor drained from it, and that the list is empty while
  anybody holds its lock. So a removal can hit only jobs that no other hand holds.
- `OthersStayScheduled`: `OthersUndisturbed`, from the invariant that only a reload is ever
  at the stage that clears everything.
- `NothingUnscheduled`: `CurrentIsScheduled`. The invariant is a debt: whenever a task is not
  scheduled as its row says, some handler still owes it (`Owes`): it is before its read of the
  row, or has read the row as it still is. Whoever writes a row is before its read; whoever
  removes jobs takes the debt over before it does so. When the handlers of the task are
  done nobody owes anything, so the task is scheduled. A deletion has to be told apart
  (`StaysDeleted`): it owes nothing, because its row is gone and stays gone.
- `NothingTwice`: `ScheduledOnce`. Where handlers of a task never met, there is one at most
  (`AloneAt`), and `Phase` says what that one has found and left of the jobs: all known
  before it drains, none until it makes some, then those of the row in its hand.

`DependenceQueueProofs`

- `QueueKept`: the type invariant with `QueueInv`, which is inductive.
- `RemovalHoldsPermit` and `PermitSeparates`: `RemovalInProgress`, `NoInstallDuringRemoval`.
  `PermitInv` says who may be in the queue (a client only while it deletes), that a client or
  the start-up loop is there once, that a client at work is at the head, and that the
  start-up loop waits with the first row of its list. Installers report at the head of the
  queue, and there is one head.
- `PermitGoesRound`: the safety behind `StartupFinishes` and `InstallationSettles`. Whoever has
  the permit has a step left to do (`HolderAtWork`); nobody in the queue is overtaken, or leaves
  it unserved unless its request is over (`InTurn`); and the start-up list loses one row
  at a time, its first one, and only when that is settled (`AsListed`).
- `InstallersCome`: `InstallingIsPending`. Each step that takes a row out of one of the five
  places where an installer may be pending either settles its status or puts it into
  another; the proof follows the row, as the places are sequences that shift.

`BackupRestoreProofs`

- `RestoreTyped` and `DataSurvives`: `TypeOK`, `NothingLost`, with the inductive invariant
  `BackupInv`: which operation can be at which stage (`Shape`), that the numbers of operations
  and with them the restore points are their own, and how far the one inside of the lock has
  come (`AtWork`): what was copied is what is there, while files are replaced a restore point
  holds what was promised, and each file is either still staged or already in its place. All of
  that is said of the files in `DOMAIN shown` only, those that nobody wrote too late; the
  lemmas `WriteMove` and `CommitMove` show that a write at any stage, by taking its file out of
  the domain or by finding the data as promised, leaves it true of the others.
- `AloneAtTheFiles`: `ReplacedInPrivate`, from the same invariant; the lock keeps handlers
  apart, and the start-up runs while nothing is served.
- `RetentionKeeps`: `NewestKept`. A clean-up deletes by a list that may be old; the
  invariant `PruneInv` says that each backup on any such list keeps `max_backups` newer ones,
  which the deletions of others cannot break because whatever they delete is on their lists.
- `ContractKept`: `KeepsRestoreContract`, step simulation with `BackupInv`. A write is a
  `Write`, `WriteLate` or `Mend` of the contract, by what it finds under way and whether it
  makes the data what was promised.
- `NeverTurnsBack`: the safety behind `OperationsEnd`. Each step of an operation takes it to a
  later stage, to its way back, to its end, or works off one of the files or backups on its list;
  nobody else moves it but to its end.

`AgentJobsProofs`

- `ApprovedFirst` and `RefusalEnds`: `NothingUnapproved`, `NothingAfterRefusal`. `JobInv`
  follows one job: its calls come in order and run once, a decision is present only while it is
  awaited and is the user's on the id of the call at hand, a remembered permission comes from
  the request or from an answer to the id of an earlier call, and every card before the call at
  hand was followed by its tool. Nothing is assumed of ids: `Unnamed` is any set of calls, and
  `said` takes down an answer only while some call with the id it names has not run. A step of another job leaves all of that as it is.
- `ShownIsLive`: `SessionShowsLive`, with the job that a session shows being one of its own.
- `JobsTyped`: `TypeOK`, whose bound on the calls of all jobs together is the cardinality of a set
  of pairs, so that what a turn adds is counted without a sum over the jobs.
- `AnswerWakes`: the safety behind `AnswerHeeded`. An answer that comes while the job is about to
  wait leaves a permit (`NoLostAnswer`), and with an answer there every step of the wait
  is nearer to heeding it (`NearerAnswer`).
- `CancelShortens`: the safety behind `CancelEnds`. `Left` counts the steps a cancelled job has
  left, from its stage and its calls; it is a number, each step of the job lowers it, and no
  step of anybody else changes it.

`AgentsProofs` (about `EventStream` and `DebugRuns`, as parts of `MCAgents`)

- `WellTyped`: `AgentsTypeOK`, from `JobsTyped` and the types of the two other parts.
- `StreamContractKept`: `KeepsStreamContract`, step simulation. Each action of the socket is a step
  of the contract or a stutter; that a delivery shows just the next event needs the
  invariant of `GapFree`.
- `NextIsComing`: the safety behind `EventsArrive`. A client that is behind has the very next
  event in its queue, or is about to get a replay, or will be told that it lagged.
- `CleanEnd`: the safety behind `NothingLeft`. When the stream of a debug run has ended, its
  process is gone and so are output and entry, and the file unless it could not be removed, and
  before that it has a process to wait for.
- `GapFree`: `NoGap`. The invariant says where the events are that a client has not seen:
  unless its socket is closed, has lagged or is about to replay, each of them is in its queue
  (`CaughtUp`), and a queue holds the events of a job in their order (`InOrder`). So the next
  one that is delivered is the one after the last, or is older and filtered. A lag drops
  events, but only from a socket that replays the history before it delivers anything; a new
  job has no events before one socket, the one that starts it, is subscribed (`LifeInv`).

`ApiProofs` (about `SubscriptionRuns` and `TotpLogin`, as parts of `MCApi`)

- `OneJob`: `OneJobEach`. `CallInv` says that the lock is held by exactly the one call or
  start-up that is between its first and last step of a reload; `ReloadInv`, that while this
  one adds jobs and nothing has changed since it read the rows, each row that is `on` has one
  listed job, was refused, or is still among those found. Nobody else touches the list meanwhile.
- `RunningRuns`: `RunningIsRun`. It needs that nothing was ever done for a row still to be
  created (`UnusedInv`), or a new row could start with a status.
- `SuccessWhole`: `SuccessIsWhole`. `AloneInv` says of a subscription left alone that at most
  one run or call that is about to spawn one is at work for it, that nobody else is at work at
  the place its row names, that this is the place its run works in, that its status is
  "running" for as long, and that a run about to report success left a complete copy; so
  "success" is never shown while anything is written there.
- `SpentStays`: `SpentStaySpent`, for any lists that clients send. It becomes inductive with
  `SpentInv`: all codes at hand, stored or in a request, were generated before, so that the
  codes of a new set are none of them; a request never saves the code that it used; and that
  save is the last of its list of rows, so a request that ends has nothing left that could
  bring it back. A code becomes spent in one step, which adds it to the `back` of every request
  that has it in hand, and a save that puts one back takes it from `spent`.
- `ApiTypes`: `ApiTypeOK`, from the invariants above, the one of the dependence queue, and
  `Hands`: what a request has still to save ends with the codes, and a request that is to
  save a secret has one.

A behaviour of `MCApi` or `MCAgents` is one of each part, for the variables of that
part, and that is all the proofs use of the composition.

**Only model-checked:** the nine liveness properties, as the prover has neither ENABLED
nor the well-founded induction that leads from steps to an end. What is proved of each is what the
code contributes: that whatever has to happen stays possible and owed (`TimersOwed`,
`NextIsComing`, `CleanEnd`, `PermitGoesRound`), or that every step towards it counts
(`AnswerWakes`, `CancelShortens`, `NeverTurnsBack`). That fair steps are then taken until they
are used up is for TLC to show on its instances. TLC also finds the formulas of these theorems true
on the instances of their components' runs. Every other property of the passing runs is a theorem.

## 6. Not modelled, and the plan

Not modelled for good: text handling (output lines, cron syntax, environment and path
resolution), what scripts contain (that they are written, without a lock, is `WriteFile`),
ptys, outside services (notification channels, WebDAV, S3, AI providers), the front end,
single-statement tables. Their effects on the models, where there are any, are choices of a
step: a command, a download or a file operation fails; a row of `JobRegistry` has any
expressions, valid or not; a row of `SubscriptionRuns` is `on` or `off`, where `off` stands for
an invalid schedule as well.

Left out of modules that exist: the older agent endpoint without jobs, conversations with
their storage and compression (only a hazard is listed); the life time of login tokens and the
password; what an import of a subscription parses; the formats of archives and the
protocols of their servers; `reload_backup_job`, whose job calls the modelled
`perform_backup`.

Planned:

1. `RunningUpdates`/`LogStream`: snapshot-then-subscribe of logs and task updates.

## 7. Running

    tlc -workers 2 -config ExecutionSafety.cfg MCTaskExecution
    tlc -workers 2 -config DependenceSafety.cfg MCApi
    tlc -workers 2 -config DependenceRestart.cfg MCDependenceQueue
    tlc -workers 2 -config JobsSafety.cfg MCJobRegistry
    tlc -workers 2 -config BackupRestore.cfg MCBackupRestore
    tlc -workers 2 -config Agents.cfg MCAgents
    tlapm TaskExecutionProofs.tla
    tlapm JobRegistryProofs.tla
    tlapm ScheduleProofs.tla
    tlapm DependenceQueueProofs.tla
    tlapm BackupRestoreProofs.tla
    tlapm AgentJobsProofs.tla
    tlapm AgentsProofs.tla
    tlapm ApiProofs.tla

The other configurations are run in the same way, each with the MC module of its
component.
