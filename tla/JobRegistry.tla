---------------------------- MODULE JobRegistry ----------------------------
(***************************************************************************)
(* scheduler/mod.rs: the jobs that the cron scheduler holds for the rows of *)
(* the table `tasks`, and job_ids, the list through which they are found   *)
(* again.  The handlers of api/task.rs write the row first and bring the   *)
(* scheduler up to date afterwards; restore_backup reloads everything.     *)
(*                                                                         *)
(* A job carries the copy of the task it was made from and keeps running   *)
(* it until it is removed.  A handler is cut at each await of the lock of  *)
(* job_ids, of the database and of the cron scheduler; it is dropped at an *)
(* await when its client goes away.  A row is its last writer and its cron *)
(* expressions, each valid or not; when it is disabled or not of type cron *)
(* it has none.                                                            *)
(***************************************************************************)
EXTENDS Naturals, Sequences, FiniteSets

CONSTANTS
    Tasks,        \* task ids; AUTOINCREMENT gives each to one row only
    Clients,      \* concurrent requests; a slot is reused
    CronLists,    \* what requests write: sequences of "is this one valid"
    MaxRequests,  \* bound: requests ever served
    Impatient,    \* the clients that may go away before their answer
    NoTask        \* the task of a request that is for none

Free == "free"  \* nobody holds the lock

ASSUME RegistryAssumption ==
    /\ CronLists \subseteq Seq(BOOLEAN)
    /\ MaxRequests \in Nat /\ Impatient \subseteq Clients
    /\ NoTask \notin Tasks /\ Free \notin Clients

Versions == 1..MaxRequests
NoRow == [ver |-> 0, crons |-> <<>>]
Rows == [ver : Versions, crons : CronLists]
Jobs == [task : Tasks, ver : Versions, by : Versions, nth : Nat]

VARIABLES
    rows,      \* the table: the latest version of each task, or NoRow
    used,      \* ids that a row has had
    jobs,      \* the jobs of the cron scheduler
    job_ids,   \* the jobs that the list knows
    lock,      \* who holds the write lock of job_ids
    client,    \* the requests being served: stage, task, rows read, jobs in hand
    requests,  \* counts requests
    cut,       \* history: tasks that a handler did not finish with, or was at
               \* when the table was replaced
    raced      \* history: tasks that two handlers were at, or whose jobs may
               \* have been lost from the list

vars == <<rows, used, jobs, job_ids, lock, client, requests, cut, raced>>
tableVars == <<rows, used>>
historyVars == <<cut, raced>>

Table == [Tasks -> Rows \union {NoRow}]
Empty == [t \in Tasks |-> NoRow]
Idle == [stage |-> "idle", op |-> "none", task |-> NoTask, no |-> 0,
         read |-> Empty, hand |-> {}]
Stages == {"idle", "remove", "drain", "get", "schedule", "register",
           "reload", "clear", "read", "refill"}
Handlers == [stage : Stages, op : {"none", "create", "update", "delete", "reload"},
             task : Tasks \union {NoTask}, no : 0..MaxRequests,
             read : Table, hand : SUBSET Jobs]

TypeOK ==
    /\ rows \in Table /\ used \subseteq Tasks
    /\ jobs \subseteq Jobs /\ job_ids \subseteq Jobs
    /\ lock \in Clients \union {Free}
    /\ client \in [Clients -> Handlers]
    /\ requests \in 0..MaxRequests
    /\ cut \subseteq Tasks /\ raced \subseteq Tasks
    \* A row is in use; the locals a step is about to use are there.
    /\ \A t \in Tasks : rows[t] # NoRow => t \in used
    /\ \A c \in Clients :
          /\ lock = c <=> client[c].stage \in {"drain", "clear", "read", "refill"}
          /\ client[c].stage \in {"remove", "drain", "get", "schedule", "register"} =>
                client[c].task \in Tasks
          /\ client[c].stage = "schedule" => client[c].read[client[c].task] # NoRow
          /\ client[c].stage # "idle" => client[c].no # 0

Init ==
    /\ rows = Empty /\ used = {}
    /\ jobs = {} /\ job_ids = {} /\ lock = Free
    /\ client = [c \in Clients |-> Idle]
    /\ requests = 0 /\ cut = {} /\ raced = {}

-----------------------------------------------------------------------------
JobsOf(S, t) == {j \in S : j.task = t}
At(t) == {c \in Clients : client[c].stage # "idle" /\ client[c].task \in {t, NoTask}}

\* add_task of one row stops at the first expression that is not valid; the
\* jobs made by then stay in the scheduler.
Valid(row) == \A n \in DOMAIN row.crons : row.crons[n]
add_task(t, row, by) ==
    {[task |-> t, ver |-> row.ver, by |-> by, nth |-> n] :
        n \in {n \in DOMAIN row.crons : \A m \in 1..n : row.crons[m]}}

\* What add_task makes of the row of t that the handler has read.
NewJobs(c, t) == add_task(t, client[c].read[t], client[c].no)

\* A request for task t, or for all of them, begins.
Receive(c, op, stage, t) ==
    /\ client[c].stage = "idle"
    /\ requests < MaxRequests
    /\ requests' = requests + 1
    /\ client' = [client EXCEPT ![c] = [stage |-> stage, op |-> op, task |-> t,
                                        no |-> requests + 1, read |-> Empty, hand |-> {}]]
    /\ raced' = raced \union {u \in Tasks : t \in {u, NoTask} /\ At(u) # {}}

Finish(c) == client' = [client EXCEPT ![c] = Idle]

-----------------------------------------------------------------------------
(* The handlers of api/task.rs up to their call of the scheduler.          *)

create_task(c) ==
    /\ \E t \in Tasks \ used, crons \in CronLists :
          /\ Receive(c, "create", "get", t)
          /\ rows' = [rows EXCEPT ![t] = [ver |-> requests + 1, crons |-> crons]]
          /\ used' = used \union {t}
    /\ UNCHANGED <<jobs, job_ids, lock, cut>>

update_task(c) ==
    /\ \E t \in Tasks, crons \in CronLists :
          /\ rows[t] # NoRow
          /\ Receive(c, "update", "remove", t)
          /\ rows' = [rows EXCEPT ![t] = [ver |-> requests + 1, crons |-> crons]]
    /\ UNCHANGED <<used, jobs, job_ids, lock, cut>>

delete_task(c) ==
    /\ \E t \in Tasks :
          /\ rows[t] # NoRow
          /\ Receive(c, "delete", "remove", t)
          /\ rows' = [rows EXCEPT ![t] = NoRow]
    /\ UNCHANGED <<used, jobs, job_ids, lock, cut>>

\* The restored database has rows of its own, written before or elsewhere, and
\* gives ids out again from there; then everything is reloaded.
restore_backup(c) ==
    /\ Receive(c, "reload", "reload", NoTask)
    /\ rows' \in [Tasks -> {NoRow} \union
                     {[ver |-> requests + 1, crons |-> crons] : crons \in CronLists}]
    /\ used' = {t \in Tasks : rows'[t] # NoRow}
    /\ cut' = cut \union {t \in Tasks : At(t) # {}}
    /\ UNCHANGED <<jobs, job_ids, lock>>

-----------------------------------------------------------------------------
(* remove_task_from_scheduler and add_task_to_scheduler.                   *)

\* The list is drained into the handler's hands under the write lock.
RemoveBegin(c) ==
    /\ client[c].stage = "remove" /\ lock = Free
    /\ lock' = c
    /\ client' = [client EXCEPT ![c].stage = "drain", ![c].hand = job_ids]
    /\ job_ids' = {}
    /\ UNCHANGED <<tableVars, jobs, requests, historyVars>>

\* Variant: the jobs of all tasks are removed.
RemoveEnd_DropOthers(c) ==
    /\ client[c].stage = "drain"
    /\ lock' = Free
    /\ jobs' = jobs \ client[c].hand
    /\ job_ids' = {}
    /\ IF client[c].op = "update"
       THEN client' = [client EXCEPT ![c].stage = "get", ![c].hand = {}]
       ELSE Finish(c)
    /\ UNCHANGED <<tableVars, requests, historyVars>>

\* Variant: the list is put back as it was.
RemoveEnd_KeepAll(c) ==
    LET mine == JobsOf(client[c].hand, client[c].task) IN
    /\ client[c].stage = "drain"
    /\ lock' = Free
    /\ jobs' = jobs \ mine
    /\ job_ids' = client[c].hand
    /\ IF client[c].op = "update"
       THEN client' = [client EXCEPT ![c].stage = "get", ![c].hand = {}]
       ELSE Finish(c)
    /\ UNCHANGED <<tableVars, requests, historyVars>>

\* The jobs of the task are removed, the other entries are put back.
RemoveEnd(c) ==
    LET mine == JobsOf(client[c].hand, client[c].task) IN
    /\ client[c].stage = "drain"
    /\ lock' = Free
    /\ jobs' = jobs \ mine
    /\ job_ids' = client[c].hand \ mine
    /\ IF client[c].op = "update"
       THEN client' = [client EXCEPT ![c].stage = "get", ![c].hand = {}]
       ELSE Finish(c)
    /\ UNCHANGED <<tableVars, requests, historyVars>>

\* The row as it is now; a row that is gone or has nothing to run ends it.
Get(c) ==
    LET row == rows[client[c].task] IN
    /\ client[c].stage = "get"
    /\ IF row.crons = <<>> THEN Finish(c)
       ELSE client' = [client EXCEPT ![c].stage = "schedule", ![c].read[client[c].task] = row]
    /\ UNCHANGED <<tableVars, jobs, job_ids, lock, requests, historyVars>>

\* An invalid expression makes the handler fail: its jobs are on no list.
Schedule(c) ==
    LET t == client[c].task IN
    /\ client[c].stage = "schedule"
    /\ jobs' = jobs \union NewJobs(c, t)
    /\ IF Valid(client[c].read[t])
       THEN /\ client' = [client EXCEPT ![c].stage = "register", ![c].hand = NewJobs(c, t)]
            /\ UNCHANGED historyVars
       ELSE /\ Finish(c)
            /\ cut' = cut \union {t} /\ raced' = raced \union {t}
    /\ UNCHANGED <<tableVars, job_ids, lock, requests>>

\* Variant: the new entries replace the list.
Register_Replace(c) ==
    /\ client[c].stage = "register" /\ lock = Free
    /\ job_ids' = client[c].hand
    /\ Finish(c)
    /\ UNCHANGED <<tableVars, jobs, lock, requests, historyVars>>

Register(c) ==
    /\ client[c].stage = "register" /\ lock = Free
    /\ job_ids' = job_ids \union client[c].hand
    /\ Finish(c)
    /\ UNCHANGED <<tableVars, jobs, lock, requests, historyVars>>

-----------------------------------------------------------------------------
(* reload_tasks, which holds the lock from its first line to its last.     *)

\* Variant: the list is emptied without the write lock.
ReloadBegin_NoLock(c) ==
    /\ client[c].stage = "reload"
    /\ client' = [client EXCEPT ![c].stage = "clear", ![c].hand = job_ids]
    /\ job_ids' = {}
    /\ UNCHANGED <<tableVars, jobs, lock, requests, historyVars>>

ReloadBegin(c) ==
    /\ client[c].stage = "reload" /\ lock = Free
    /\ lock' = c
    /\ client' = [client EXCEPT ![c].stage = "clear", ![c].hand = job_ids]
    /\ job_ids' = {}
    /\ UNCHANGED <<tableVars, jobs, requests, historyVars>>

ReloadClear(c) ==
    /\ client[c].stage = "clear"
    /\ jobs' = jobs \ client[c].hand
    /\ client' = [client EXCEPT ![c].stage = "read", ![c].hand = {}]
    /\ UNCHANGED <<tableVars, job_ids, lock, requests, historyVars>>

\* The enabled tasks as they are now.
ReloadRead(c) ==
    /\ client[c].stage = "read"
    /\ client' = [client EXCEPT ![c].stage = "refill", ![c].read = rows]
    /\ UNCHANGED <<tableVars, jobs, job_ids, lock, requests, historyVars>>

\* The SELECT fails: nothing is scheduled any more.
ReloadFail(c) ==
    /\ client[c].stage = "read"
    /\ lock' = Free
    /\ Finish(c)
    /\ cut' = Tasks
    /\ UNCHANGED <<tableVars, jobs, job_ids, requests, raced>>

\* A task with an invalid expression is left out; its jobs stay off the list.
ReloadRefill(c) ==
    LET broken == {t \in Tasks : ~Valid(client[c].read[t])} IN
    /\ client[c].stage = "refill"
    /\ lock' = Free
    /\ jobs' = jobs \union UNION {NewJobs(c, t) : t \in Tasks}
    /\ job_ids' = UNION {NewJobs(c, t) : t \in Tasks \ broken}
    /\ Finish(c)
    /\ cut' = cut \union broken /\ raced' = raced \union broken
    /\ UNCHANGED <<tableVars, requests>>

-----------------------------------------------------------------------------
\* The jobs that the handler is removing, or adding, where it stands.
Leaving(c) ==
    {j \in client[c].hand : \/ client[c].stage = "clear"
                            \/ (client[c].stage = "drain" /\ j.task = client[c].task)}
Coming(c) ==
    UNION {NewJobs(c, t) : t \in {t \in Tasks :
        client[c].stage = "refill" \/ (client[c].stage = "schedule" /\ t = client[c].task)}}

\* The tasks that a reload has entered in the list, where it stands.
Refilled(c) == {t \in Tasks : client[c].stage = "refill" /\ Valid(client[c].read[t])}

\* The handler is dropped at an await: a part of what it was doing to the cron
\* scheduler is done, and what it had drained from the list is lost.
Disconnect(c) ==
    LET its == IF client[c].task = NoTask THEN Tasks ELSE {client[c].task} IN
    /\ c \in Impatient /\ client[c].stage # "idle"
    /\ \E gone \in SUBSET Leaving(c), new \in SUBSET Coming(c), done \in SUBSET Refilled(c) :
          LET known == UNION {NewJobs(c, t) : t \in done} IN
          /\ jobs' = (jobs \ gone) \union new \union known
          /\ job_ids' = job_ids \union known
    /\ lock' = IF lock = c THEN Free ELSE lock
    /\ Finish(c)
    /\ cut' = cut \union its
    /\ raced' = IF lock = c THEN Tasks ELSE raced \union its
    /\ UNCHANGED <<tableVars, requests>>

Arrive(c) == create_task(c) \/ update_task(c) \/ delete_task(c) \/ restore_backup(c)

Handle(c) ==
    \/ RemoveBegin(c) \/ RemoveEnd(c) \/ Get(c) \/ Schedule(c) \/ Register(c)
    \/ ReloadBegin(c) \/ ReloadClear(c) \/ ReloadRead(c) \/ ReloadFail(c)
    \/ ReloadRefill(c)

Next == \E c \in Clients : Arrive(c) \/ Handle(c) \/ Disconnect(c)

Spec == Init /\ [][Next]_vars

-----------------------------------------------------------------------------
(* Properties.                                                             *)

\* Whatever handlers run into each other or are dropped, an entry of job_ids is
\* the id of a job of the cron scheduler: no removal is ever spent on nothing.
ListedAreLive == job_ids \subseteq jobs

\* However the handlers of a task race, once they are done it is scheduled as
\* its row now says: the last writer reads the row after its own write, and
\* whoever removes its jobs schedules the row again.
CurrentIsScheduled ==
    \A t \in Tasks \ cut : At(t) = {} =>
        \A n \in DOMAIN rows[t].crons :
            \E j \in jobs : j.task = t /\ j.ver = rows[t].ver /\ j.nth = n

\* A task whose handlers never met is scheduled exactly as its row says, once,
\* and the list (perhaps in the hands of a handler of another task) knows its jobs.
ScheduledOnce ==
    \A t \in Tasks \ (raced \union cut) : At(t) = {} =>
        /\ \A i, j \in JobsOf(jobs, t) : i.nth = j.nth => i = j
        /\ \A j \in JobsOf(jobs, t) :
              /\ j.ver = rows[t].ver
              /\ j \in job_ids \union IF lock = Free THEN {} ELSE client[lock].hand

\* A handler of one task never removes a job of another one.
OthersUndisturbed ==
    [][\A j \in jobs \ jobs' :
          \E c \in Clients : client[c].task = j.task \/ client[c].op = "reload"]_vars

\* What the comments promise: the removal takes all jobs of the task, and the
\* update schedules its latest state; so no job of an older row, or of a deleted
\* one, is left once the handlers of the task are done.
NoStaleJob ==
    \A j \in jobs : (At(j.task) = {} /\ j.task \notin cut) => j.ver = rows[j.task].ver
=============================================================================
