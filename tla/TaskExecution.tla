--------------------------- MODULE TaskExecution ---------------------------
(***************************************************************************)
(* services/executor.rs: the life of one call of execute_with_mode, the    *)
(* kill handler kill_task_with_log, the timeout watchdog and the timers    *)
(* that retire notify tokens, running concurrently over the executor's     *)
(* shared maps and the operating system's process table.                   *)
(*                                                                         *)
(* An execution is one call.  Its steps are cut where the code awaits a    *)
(* lock, a child process or the disk; map updates made back to back that   *)
(* no other task can tell apart are one step.  Output lines, texts and     *)
(* environment variables are left out: no step depends on them.            *)
(***************************************************************************)
EXTENDS Naturals, FiniteSets

CONSTANTS
    Tasks,       \* task ids
    Executions,  \* calls of execute_with_mode; each call is used once
    Killers,     \* concurrent kill requests; a request slot is reused
    Pids,        \* process ids the kernel hands out, reused once free
    TaskOf,      \* the task each call is for
    Timed,       \* the tasks with timeout > 0
    NoTask,      \* a kill request slot that serves no request
    NoPid,       \* None of Option<u32>
    NoExec       \* None of Option<ExecutionInfo>

ASSUME ConstantsAssumption ==
    /\ TaskOf \in [Executions -> Tasks]
    /\ Timed \subseteq Tasks
    /\ NoTask \notin Tasks
    /\ NoPid \notin Pids
    /\ NoExec \notin Executions

VARIABLES
    pc,          \* where each call stands
    pid,         \* the local pid of each call
    ok,          \* the local overall_success of each call
    outcome,     \* what each call returned
    running,     \* running_tasks: task id -> pid
    channels,    \* keys of log_channels
    buffers,     \* keys of log_buffers
    infos,       \* keys of executions
    tokens,      \* keys of token_registry
    cleanups,    \* executions whose token a sleeping timer will remove
    killedFlag,  \* executions whose killed_externally is set
    timedOut,    \* executions whose timed_out is set
    watchdog,    \* the timeout watchdog of each execution
    proc,        \* the process table: the main process and its group
    kpc, kTask, kExec, kPid,  \* the kill requests and their locals
    notices,     \* result notifications sent for each execution
    overlapped,  \* history: tasks that had two admitted calls at once
    signalled    \* history: executions killed by a request that had found an
                 \* execution of their task to close

execVars == <<pc, pid, ok, outcome>>
mapVars == <<running, channels, buffers, infos, tokens, cleanups>>
flagVars == <<killedFlag, timedOut, watchdog>>
killVars == <<kpc, kTask, kExec, kPid>>
vars == <<execVars, mapVars, flagVars, proc, killVars, notices, overlapped, signalled>>

(***************************************************************************)
(* From "pre" to "closing" the notify token must be usable by the commands *)
(* of the task.  "reading" covers the output loop and the wait that        *)
(* follows it.                                                             *)
(***************************************************************************)
CommandStages == {"pre", "main", "spawned", "tracked", "reading", "reaped",
                  "exited", "post", "closing"}
ChildStages == {"spawned", "tracked", "reading"}
Stages == {"idle", "admitted", "registered", "returned"} \union CommandStages
Verdicts == {"success", "failed", "killed"}
Outcomes == {"none", "error"} \union Verdicts

Process == [main : {"alive", "zombie", "gone"},  \* "zombie": exited, not waited for
            code0 : BOOLEAN,                     \* it exited with code 0
            kids : BOOLEAN,                      \* others live in its process group
            away : BOOLEAN,                      \* one that left the group holds its pipes
            owner : Executions \union {NoExec}]

TypeOK ==
    /\ pc \in [Executions -> Stages]
    /\ pid \in [Executions -> Pids \union {NoPid}]
    /\ ok \in [Executions -> BOOLEAN]
    /\ outcome \in [Executions -> Outcomes]
    /\ running \in [Tasks -> Pids \union {NoPid}]
    /\ channels \subseteq Executions /\ buffers \subseteq Executions
    /\ infos \subseteq Executions /\ tokens \subseteq Executions
    /\ cleanups \subseteq Executions /\ killedFlag \subseteq Executions
    /\ timedOut \subseteq Executions
    /\ watchdog \in [Executions -> {"off", "armed", "firing", "spent"}]
    /\ proc \in [Pids -> Process]
    /\ kpc \in [Killers -> {"idle", "found", "taken", "flagged", "signalled"}]
    /\ kTask \in [Killers -> Tasks \union {NoTask}]
    /\ kExec \in [Killers -> Executions \union {NoExec}]
    /\ kPid \in [Killers -> Pids \union {NoPid}]
    /\ notices \in [Executions -> SUBSET Verdicts]
    /\ overlapped \subseteq Tasks /\ signalled \subseteq Executions
    /\ \A p \in Pids : proc[p].main = "alive" => proc[p].owner \in Executions
    \* The locals a step is about to use are there.
    /\ \A e \in Executions :
          pc[e] \in ChildStages \/ watchdog[e] # "off" => pid[e] \in Pids
    /\ \A k \in Killers :
          /\ kpc[k] # "idle" => kTask[k] \in Tasks
          /\ kpc[k] \in {"taken", "flagged", "signalled"} => kPid[k] \in Pids
          /\ kpc[k] = "signalled" => kExec[k] \in Executions

NoProcess ==
    [main |-> "gone", code0 |-> FALSE, kids |-> FALSE, away |-> FALSE, owner |-> NoExec]

Init ==
    /\ pc = [e \in Executions |-> "idle"]
    /\ pid = [e \in Executions |-> NoPid]
    /\ ok = [e \in Executions |-> TRUE]
    /\ outcome = [e \in Executions |-> "none"]
    /\ running = [t \in Tasks |-> NoPid]
    /\ channels = {} /\ buffers = {} /\ infos = {} /\ tokens = {} /\ cleanups = {}
    /\ killedFlag = {} /\ timedOut = {}
    /\ watchdog = [e \in Executions |-> "off"]
    /\ proc = [p \in Pids |-> NoProcess]
    /\ kpc = [k \in Killers |-> "idle"]
    /\ kTask = [k \in Killers |-> NoTask]
    /\ kExec = [k \in Killers |-> NoExec]
    /\ kPid = [k \in Killers |-> NoPid]
    /\ notices = [e \in Executions |-> {}]
    /\ overlapped = {} /\ signalled = {}

-----------------------------------------------------------------------------
(* The operating system.                                                   *)

\* A pid is handed out again only when its process and its group are gone.
Free(p) == proc[p].main = "gone" /\ ~proc[p].kids

\* A process whose main part is m, in a group that has other members or not.
Became(P, m, code0, kids) ==
    [main |-> m, code0 |-> code0, kids |-> kids, away |-> P.away, owner |-> P.owner]

\* What kill(-pid, SIGKILL) leaves of a process group; it does not reach those that
\* left the group.
Struck(P) == IF P.main = "alive" THEN Became(P, "zombie", FALSE, FALSE)
                                 ELSE Became(P, P.main, P.code0, FALSE)

\* kill_process_tree: on an empty group it fails and changes nothing.
kill_process_tree(p) == proc' = [proc EXCEPT ![p] = Struck(@)]

\* The main process ends by itself, perhaps leaving background children.
ProcessExit(p) ==
    /\ proc[p].main = "alive"
    /\ \E code0, kids \in BOOLEAN :
          proc' = [proc EXCEPT ![p] = Became(@, "zombie", code0, kids)]
    /\ UNCHANGED <<execVars, mapVars, flagVars, killVars, notices, overlapped, signalled>>

\* The last background child of a group ends.
ChildrenExit(p) ==
    /\ proc[p].main # "alive" /\ proc[p].kids
    /\ proc' = [proc EXCEPT ![p] = Became(@, @.main, @.code0, FALSE)]
    /\ UNCHANGED <<execVars, mapVars, flagVars, killVars, notices, overlapped, signalled>>

\* A member leaves the group (setsid, a daemon) and keeps stdout or stderr open.
Escape(p) ==
    /\ proc[p].main # "gone"
    /\ proc[p].main = "alive" \/ proc[p].kids
    /\ proc' = [proc EXCEPT ![p].away = TRUE]
    /\ UNCHANGED <<execVars, mapVars, flagVars, killVars, notices, overlapped, signalled>>

\* The last of those closes the pipes or ends.
EscapedExit(p) ==
    /\ proc[p].away
    /\ proc' = [proc EXCEPT ![p].away = FALSE]
    /\ UNCHANGED <<execVars, mapVars, flagVars, killVars, notices, overlapped, signalled>>

-----------------------------------------------------------------------------
(* execute_with_mode.                                                      *)

Goto(e, stage) == pc' = [pc EXCEPT ![e] = stage]

Return(e, result) ==
    /\ Goto(e, "returned")
    /\ outcome' = [outcome EXCEPT ![e] = result]

Active(e) == pc[e] \notin {"idle", "returned"}

\* The re-entry guard: a call that finds its task in running_tasks is skipped, with
\* the status of a success.
Skip(e) ==
    /\ pc[e] = "idle"
    /\ running[TaskOf[e]] # NoPid
    /\ Return(e, "success")
    /\ UNCHANGED <<pid, ok, mapVars, flagVars, proc, killVars, notices, overlapped, signalled>>

Admit(e) ==
    /\ pc[e] = "idle"
    /\ running[TaskOf[e]] = NoPid
    /\ Goto(e, "admitted")
    /\ overlapped' = overlapped \union
          {TaskOf[d] : d \in {d \in Executions : Active(d) /\ TaskOf[d] = TaskOf[e]}}
    /\ UNCHANGED <<pid, ok, outcome, mapVars, flagVars, proc, killVars, notices, signalled>>

\* Open the log channel, the log buffer and the ExecutionInfo.
Register(e) ==
    /\ pc[e] = "admitted"
    /\ Goto(e, "registered")
    /\ channels' = channels \union {e}
    /\ buffers' = buffers \union {e}
    /\ infos' = infos \union {e}
    /\ UNCHANGED <<pid, ok, outcome, running, tokens, cleanups, flagVars, proc,
                   killVars, notices, overlapped, signalled>>

\* create_dir_all fails: the `?` returns with the three entries still there.
PrepareFail(e) ==
    /\ pc[e] = "registered"
    /\ Return(e, "error")
    /\ UNCHANGED <<pid, ok, mapVars, flagVars, proc, killVars, notices, overlapped, signalled>>

\* The environment is ready and the notify token is registered.
Prepare(e) ==
    /\ pc[e] = "registered"
    /\ Goto(e, "pre")
    /\ tokens' = tokens \union {e}
    /\ UNCHANGED <<pid, ok, outcome, running, channels, buffers, infos, cleanups,
                   flagVars, proc, killVars, notices, overlapped, signalled>>

schedule_token_cleanup(e) == cleanups' = cleanups \union {e}

\* The pre-command succeeds, or the task has none.
PreSucceed(e) ==
    /\ pc[e] = "pre"
    /\ Goto(e, "main")
    /\ UNCHANGED <<pid, ok, outcome, mapVars, flagVars, proc, killVars, notices,
                   overlapped, signalled>>

\* The pre-command exits with an error or (`ran` is FALSE) could not be run
\* at all: then, the code forgets to drop the log buffer.
PreFail(e, ran) ==
    /\ pc[e] = "pre"
    /\ Return(e, "failed")
    /\ channels' = channels \ {e}
    /\ buffers' = IF ran THEN buffers \ {e} ELSE buffers
    /\ infos' = infos \ {e}
    /\ schedule_token_cleanup(e)
    /\ UNCHANGED <<pid, ok, running, tokens, flagVars, proc, killVars, notices,
                   overlapped, signalled>>

\* Variant: the token is forgotten when the main command cannot be spawned.
SpawnFail_KeepToken(e) ==
    /\ pc[e] = "main"
    /\ Return(e, "error")
    /\ UNCHANGED <<pid, ok, mapVars, flagVars, proc, killVars, notices,
                   overlapped, signalled>>

\* cmd.spawn fails: only the token is retired.
SpawnFail(e) ==
    /\ pc[e] = "main"
    /\ Return(e, "error")
    /\ schedule_token_cleanup(e)
    /\ UNCHANGED <<pid, ok, running, channels, buffers, infos, tokens, flagVars, proc,
                   killVars, notices, overlapped, signalled>>

Spawn(e) ==
    /\ pc[e] = "main"
    /\ \E p \in Pids :
          /\ Free(p)
          /\ proc' = [proc EXCEPT ![p] = [main |-> "alive", code0 |-> FALSE,
                                          kids |-> FALSE, away |-> FALSE, owner |-> e]]
          /\ pid' = [pid EXCEPT ![e] = p]
    /\ Goto(e, "spawned")
    /\ UNCHANGED <<ok, outcome, mapVars, flagVars, killVars, notices, overlapped, signalled>>

\* The pid is recorded without looking at the entry again.
Track(e) ==
    /\ pc[e] = "spawned"
    /\ Goto(e, "tracked")
    /\ running' = [running EXCEPT ![TaskOf[e]] = pid[e]]
    /\ UNCHANGED <<pid, ok, outcome, channels, buffers, infos, tokens, cleanups,
                   flagVars, proc, killVars, notices, overlapped, signalled>>

\* The "started" update, the pid of the ExecutionInfo, and the watchdog.
Arm(e) ==
    /\ pc[e] = "tracked"
    /\ Goto(e, "reading")
    /\ watchdog' = [watchdog EXCEPT ![e] = IF TaskOf[e] \in Timed THEN "armed" ELSE "off"]
    /\ UNCHANGED <<pid, ok, outcome, mapVars, killedFlag, timedOut, proc, killVars,
                   notices, overlapped, signalled>>

\* The process table once the main process has been waited for.
Collect(p) ==
    proc' = [proc EXCEPT ![p] = Became(NoProcess, "gone", FALSE, proc[p].kids)]

\* Both pipes are at their end, which takes that nobody who left the group holds
\* them (those in the group may have closed theirs), and the child is waited for.
Reap(e) ==
    /\ pc[e] = "reading"
    /\ ~proc[pid[e]].away
    /\ proc[pid[e]].main = "zombie"
    /\ Goto(e, "reaped")
    /\ ok' = [ok EXCEPT ![e] = proc[pid[e]].code0]
    /\ Collect(pid[e])
    /\ UNCHANGED <<pid, outcome, mapVars, flagVars, killVars, notices, overlapped, signalled>>

\* Variant: the call gives up on the child without waiting for its end.
WaitFail_NoWait(e) ==
    /\ pc[e] = "reading"
    /\ Return(e, "error")
    /\ schedule_token_cleanup(e)
    /\ UNCHANGED <<pid, ok, running, channels, buffers, infos, tokens, flagVars, proc,
                   killVars, notices, overlapped, signalled>>

\* child.wait reports an error: only the token is retired.
WaitFail(e) ==
    /\ pc[e] = "reading"
    /\ ~proc[pid[e]].away
    /\ proc[pid[e]].main = "zombie"
    /\ Return(e, "error")
    /\ Collect(pid[e])
    /\ schedule_token_cleanup(e)
    /\ UNCHANGED <<pid, ok, running, channels, buffers, infos, tokens, flagVars,
                   killVars, notices, overlapped, signalled>>

\* killed_externally is set: the call returns and leaves its entries to the killer.
ReturnKilled(e) ==
    /\ pc[e] = "reaped"
    /\ e \in killedFlag
    /\ Return(e, "killed")
    /\ schedule_token_cleanup(e)
    /\ UNCHANGED <<pid, ok, running, channels, buffers, infos, tokens, flagVars, proc,
                   killVars, notices, overlapped, signalled>>

\* Variant: killed_externally is not consulted on this path.
Exited_IgnoreFlag(e) ==
    /\ pc[e] = "reaped"
    /\ Goto(e, "exited")
    /\ ok' = [ok EXCEPT ![e] = @ /\ e \notin timedOut]
    /\ UNCHANGED <<pid, outcome, mapVars, flagVars, proc, killVars, notices,
                   overlapped, signalled>>

\* Not killed: a timeout or an exit code other than 0 makes it a failure.
Exited(e) ==
    /\ pc[e] = "reaped"
    /\ e \notin killedFlag
    /\ Goto(e, "exited")
    /\ ok' = [ok EXCEPT ![e] = @ /\ e \notin timedOut]
    /\ UNCHANGED <<pid, outcome, mapVars, flagVars, proc, killVars, notices,
                   overlapped, signalled>>

\* Variant: the token is retired before the post-command has run.
Untrack_TokenEarly(e) ==
    /\ pc[e] = "exited"
    /\ Goto(e, "post")
    /\ running' = [running EXCEPT ![TaskOf[e]] = NoPid]
    /\ schedule_token_cleanup(e)
    /\ UNCHANGED <<pid, ok, outcome, channels, buffers, infos, tokens,
                   flagVars, proc, killVars, notices, overlapped, signalled>>

\* The entry of the task is removed, whichever pid it holds.
Untrack(e) ==
    /\ pc[e] = "exited"
    /\ Goto(e, "post")
    /\ running' = [running EXCEPT ![TaskOf[e]] = NoPid]
    /\ UNCHANGED <<pid, ok, outcome, channels, buffers, infos, tokens, cleanups,
                   flagVars, proc, killVars, notices, overlapped, signalled>>

\* The post-command, if any, runs whether the main command succeeded or not.
Post(e) ==
    /\ pc[e] = "post"
    /\ Goto(e, "closing")
    /\ \E success \in BOOLEAN : ok' = [ok EXCEPT ![e] = @ /\ success]
    /\ UNCHANGED <<pid, outcome, mapVars, flagVars, proc, killVars, notices,
                   overlapped, signalled>>

\* Variant: the ExecutionInfo of a failed call is kept.
Close_KeepInfo(e) ==
    LET verdict == IF ok[e] THEN "success" ELSE "failed" IN
    /\ pc[e] = "closing"
    /\ Return(e, verdict)
    /\ channels' = channels \ {e}
    /\ infos' = IF ok[e] THEN infos \ {e} ELSE infos
    /\ schedule_token_cleanup(e)
    /\ notices' = [notices EXCEPT ![e] = @ \union {verdict}]
    /\ UNCHANGED <<pid, ok, running, buffers, tokens, flagVars, proc, killVars,
                   overlapped, signalled>>

\* Drop the channel and the info (the buffer stays), retire the token, notify.
Close(e) ==
    LET verdict == IF ok[e] THEN "success" ELSE "failed" IN
    /\ pc[e] = "closing"
    /\ Return(e, verdict)
    /\ channels' = channels \ {e}
    /\ infos' = infos \ {e}
    /\ schedule_token_cleanup(e)
    /\ notices' = [notices EXCEPT ![e] = @ \union {verdict}]
    /\ UNCHANGED <<pid, ok, running, buffers, tokens, flagVars, proc, killVars,
                   overlapped, signalled>>

-----------------------------------------------------------------------------
(* Timers: the token cleanup and the watchdog, which nothing ever aborts.  *)

TokenExpire(e) ==
    /\ e \in cleanups
    /\ cleanups' = cleanups \ {e}
    /\ tokens' = tokens \ {e}
    /\ UNCHANGED <<execVars, running, channels, buffers, infos, flagVars, proc,
                   killVars, notices, overlapped, signalled>>

WatchdogFire(e) ==
    /\ watchdog[e] = "armed"
    /\ watchdog' = [watchdog EXCEPT ![e] = "firing"]
    /\ timedOut' = timedOut \union {e}
    /\ UNCHANGED <<execVars, mapVars, killedFlag, proc, killVars, notices,
                   overlapped, signalled>>

\* Variant: only the main process is killed, not its group.
WatchdogKill_NotGroup(e) ==
    /\ watchdog[e] = "firing"
    /\ watchdog' = [watchdog EXCEPT ![e] = "spent"]
    /\ proc' = [proc EXCEPT ![pid[e]] = [Struck(@) EXCEPT !.kids = proc[pid[e]].kids]]
    /\ UNCHANGED <<execVars, mapVars, killedFlag, timedOut, killVars, notices,
                   overlapped, signalled>>

WatchdogKill(e) ==
    /\ watchdog[e] = "firing"
    /\ watchdog' = [watchdog EXCEPT ![e] = "spent"]
    /\ kill_process_tree(pid[e])
    /\ UNCHANGED <<execVars, mapVars, killedFlag, timedOut, killVars, notices,
                   overlapped, signalled>>

-----------------------------------------------------------------------------
(* kill_task_with_log.                                                     *)

\* executions.values().find: any execution of the task will do.
KillLookup(k) ==
    /\ kpc[k] = "idle"
    /\ kpc' = [kpc EXCEPT ![k] = "found"]
    /\ \E t \in Tasks :
          LET candidates == {e \in infos : TaskOf[e] = t} IN
          /\ kTask' = [kTask EXCEPT ![k] = t]
          /\ \E e \in IF candidates = {} THEN {NoExec} ELSE candidates :
                kExec' = [kExec EXCEPT ![k] = e]
    /\ UNCHANGED <<execVars, mapVars, flagVars, proc, kPid, notices, overlapped, signalled>>

\* The request is over: its locals are dropped.
KillReturn(k) ==
    /\ kpc' = [kpc EXCEPT ![k] = "idle"]
    /\ kTask' = [kTask EXCEPT ![k] = NoTask]
    /\ kExec' = [kExec EXCEPT ![k] = NoExec]
    /\ kPid' = [kPid EXCEPT ![k] = NoPid]

\* Variant: the pid is read under the read lock and the entry is left there.
KillTake_Peek(k) ==
    /\ kpc[k] = "found"
    /\ \/ /\ running[kTask[k]] = NoPid
          /\ KillReturn(k)
       \/ /\ running[kTask[k]] # NoPid
          /\ kpc' = [kpc EXCEPT ![k] = "taken"]
          /\ kPid' = [kPid EXCEPT ![k] = running[kTask[k]]]
          /\ UNCHANGED <<kTask, kExec>>
    /\ UNCHANGED <<execVars, mapVars, flagVars, proc, notices, overlapped, signalled>>

\* Take the entry out of running_tasks, if there is one.
KillTake(k) ==
    /\ kpc[k] = "found"
    /\ \/ /\ running[kTask[k]] = NoPid
          /\ KillReturn(k)
          /\ UNCHANGED running
       \/ /\ running[kTask[k]] # NoPid
          /\ kpc' = [kpc EXCEPT ![k] = "taken"]
          /\ kPid' = [kPid EXCEPT ![k] = running[kTask[k]]]
          /\ running' = [running EXCEPT ![kTask[k]] = NoPid]
          /\ UNCHANGED <<kTask, kExec>>
    /\ UNCHANGED <<execVars, channels, buffers, infos, tokens, cleanups, flagVars,
                   proc, notices, overlapped, signalled>>

\* Variant: the flag is stored without checking that there is an ExecutionInfo.
KillFlag_Unchecked(k) ==
    /\ kpc[k] = "taken"
    /\ kpc' = [kpc EXCEPT ![k] = "flagged"]
    /\ killedFlag' = killedFlag \union {kExec[k]}
    /\ UNCHANGED <<execVars, mapVars, timedOut, watchdog, proc, kTask, kExec, kPid,
                   notices, overlapped, signalled>>

\* Variant: a request that found no ExecutionInfo gives up after taking the entry.
KillFlag_GiveUp(k) ==
    /\ kpc[k] = "taken"
    /\ \/ kExec[k] = NoExec /\ KillReturn(k) /\ UNCHANGED killedFlag
       \/ /\ kExec[k] # NoExec
          /\ kpc' = [kpc EXCEPT ![k] = "flagged"]
          /\ killedFlag' = killedFlag \union {kExec[k]}
          /\ UNCHANGED <<kTask, kExec, kPid>>
    /\ UNCHANGED <<execVars, mapVars, timedOut, watchdog, proc, notices,
                   overlapped, signalled>>

KillFlag(k) ==
    /\ kpc[k] = "taken"
    /\ kpc' = [kpc EXCEPT ![k] = "flagged"]
    /\ killedFlag' = killedFlag \union ({kExec[k]} \ {NoExec})
    /\ UNCHANGED <<execVars, mapVars, timedOut, watchdog, proc, kTask, kExec, kPid,
                   notices, overlapped, signalled>>

\* Signal the group; an empty group is an error, and without an ExecutionInfo
\* there is nothing left to do.
KillSignal(k) ==
    /\ kpc[k] = "flagged"
    /\ \/ /\ Free(kPid[k])
          /\ KillReturn(k)
          /\ UNCHANGED <<proc, signalled>>
       \/ /\ ~Free(kPid[k])
          /\ kill_process_tree(kPid[k])
          /\ signalled' = IF proc[kPid[k]].main = "alive" /\ kExec[k] # NoExec
                          THEN signalled \union {proc[kPid[k]].owner} ELSE signalled
          /\ \/ /\ kExec[k] = NoExec
                /\ KillReturn(k)
             \/ /\ kExec[k] # NoExec
                /\ kpc' = [kpc EXCEPT ![k] = "signalled"]
                /\ UNCHANGED <<kTask, kExec, kPid>>
    /\ UNCHANGED <<execVars, mapVars, flagVars, notices, overlapped>>

\* Drop the entries of the execution found at the start and notify "killed".
KillClose(k) ==
    LET e == kExec[k] IN
    /\ kpc[k] = "signalled"
    /\ KillReturn(k)
    /\ infos' = infos \ {e}
    /\ channels' = channels \ {e}
    /\ schedule_token_cleanup(e)
    /\ buffers' = buffers \ {e}
    /\ notices' = [notices EXCEPT ![e] = @ \union {"killed"}]
    /\ UNCHANGED <<execVars, running, tokens, flagVars, proc, overlapped, signalled>>

-----------------------------------------------------------------------------
ExecuteStep(e) ==
    \/ Skip(e) \/ Admit(e) \/ Register(e) \/ PrepareFail(e) \/ Prepare(e)
    \/ PreSucceed(e) \/ PreFail(e, TRUE) \/ PreFail(e, FALSE)
    \/ SpawnFail(e) \/ Spawn(e) \/ Track(e) \/ Arm(e)
    \/ Reap(e) \/ WaitFail(e) \/ ReturnKilled(e) \/ Exited(e)
    \/ Untrack(e) \/ Post(e) \/ Close(e)

TimerStep(e) == TokenExpire(e) \/ WatchdogFire(e) \/ WatchdogKill(e)

ProcessStep(p) == ProcessExit(p) \/ ChildrenExit(p) \/ Escape(p) \/ EscapedExit(p)

KillStep(k) == KillLookup(k) \/ KillTake(k) \/ KillFlag(k) \/ KillSignal(k) \/ KillClose(k)

Next ==
    \/ \E e \in Executions : ExecuteStep(e) \/ TimerStep(e)
    \/ \E k \in Killers : KillStep(k)
    \/ \E p \in Pids : ProcessStep(p)

Spec == Init /\ [][Next]_vars

(***************************************************************************)
(* Fairness.  The tokio runtime keeps polling a task that can go on and    *)
(* fires its timers; the kernel lets a reaped pid be reused.  Nothing is   *)
(* assumed of users (new triggers, kill requests).  A main command may run *)
(* for ever, so may its background children, in its process group or out   *)
(* of it, and Reap is only owed once none of them can hold the pipes open. *)
(***************************************************************************)
OwnSteps(e) ==
    \/ Register(e) \/ PrepareFail(e) \/ Prepare(e)
    \/ SpawnFail(e) \/ Spawn(e) \/ Track(e) \/ Arm(e)
    \/ ReturnKilled(e) \/ Exited(e) \/ Untrack(e) \/ Close(e)
    \/ /\ pc[e] = "reading" /\ ~proc[pid[e]].kids
       /\ Reap(e) \/ WaitFail(e)

Fairness ==
    \A e \in Executions : /\ WF_vars(OwnSteps(e))
                          /\ WF_vars(TokenExpire(e))
                          /\ WF_vars(WatchdogFire(e) \/ WatchdogKill(e))

FairSpec == Spec /\ Fairness

-----------------------------------------------------------------------------
(* Properties.                                                             *)

\* A running main command always has a call waiting for it: execute_with_mode
\* never returns, nor goes on to the post-command, and leaves its child behind.
NoAbandonedProcess ==
    \A p \in Pids : proc[p].main # "gone" =>
        /\ proc[p].owner \in Executions
        /\ pc[proc[p].owner] \in ChildStages
        /\ pid[proc[p].owner] = p

\* The notify token works for as long as a command of the call can use it,
\* unless a kill request chose this call: script_notify looks it up here.
TokenWhileRunning ==
    \A e \in Executions : pc[e] \in CommandStages =>
        e \in killedFlag \/ (e \in tokens /\ e \notin cleanups)

\* In a task whose calls never overlapped, an entry of running_tasks is the pid
\* of a call that is still on its way to remove it, or whose wait failed: a
\* stale entry would make the guard skip the task for ever and make the next
\* kill request hit whatever process owns the pid by then.
TrackedIsOwn ==
    \A t \in Tasks \ overlapped : running[t] # NoPid =>
        \E e \in Executions :
            /\ TaskOf[e] = t /\ pid[e] = running[t]
            /\ pc[e] \in {"tracked", "reading", "reaped", "exited"} \/ outcome[e] = "error"

\* Conversely, while the main command of such a task runs, its pid is in
\* running_tasks, so that the guard holds and a kill request can find it,
\* unless a kill request has just taken it out or has already killed it.
TrackedUnlessTaken ==
    \A e \in Executions :
        (pc[e] \in {"tracked", "reading"} /\ TaskOf[e] \notin overlapped) =>
            \/ running[TaskOf[e]] = pid[e]
            \/ \E k \in Killers : kpc[k] \in {"taken", "flagged"} /\ kPid[k] = pid[e]
            \/ proc[pid[e]].main = "zombie"

\* A call that reports success or failure leaves no entry behind through which a
\* client could still list it or subscribe to it, and it sent that one verdict.
ReportedIsClosed ==
    \A e \in Executions : notices[e] \intersect {"success", "failed"} # {} =>
        /\ e \notin infos /\ e \notin channels
        /\ notices[e] \ {"killed"} = {outcome[e]}

\* A task with a timeout never keeps its caller waiting on the main command for
\* ever, even if the command and its group ignore everything and never exit.  The
\* output loop has no timeout of its own, so one thing is excepted: a process that
\* left the group, which the kill does not reach, and holds the pipes for good.
TimedTaskStops ==
    \A e \in Executions :
        \/ watchdog[e] = "armed" ~> pc[e] # "reading"
        \/ <>[](pc[e] = "reading" /\ proc[pid[e]].away)

\* Whatever way a call returns, its notify token is removed in the end.
TokensExpire ==
    \A e \in Executions : pc[e] = "returned" ~> e \notin tokens

\* How far a call is, seen from outside the executor.
PhaseOf(stage) ==
    CASE stage = "idle" -> "waiting"
      [] stage \in {"admitted", "registered", "pre", "main"} -> "accepted"
      [] stage \in {"spawned", "tracked", "reading", "reaped"} -> "launched"
      [] stage \in {"exited", "post", "closing"} -> "settling"
      [] stage = "returned" -> "ended"

Contract == INSTANCE TaskContract WITH
    phase <- [e \in Executions |-> PhaseOf(pc[e])], verdict <- outcome, asked <- killedFlag

\* The executor keeps the contract of TaskContract: one verdict per call, and
\* "killed" only for a launched call that was asked to stop and never settled.
ImplementsContract == Contract!Spec

\* What the comment at the guard promises: a call is not admitted while another
\* one of the same task is at work.
NoReentry ==
    \A d, e \in Executions :
        (d # e /\ TaskOf[d] = TaskOf[e]) => ~(Active(d) /\ Active(e))

\* What the comment after the wait promises: an execution that a kill request
\* killed runs no post-command and sends no result of its own.  Overlapping
\* calls, and requests that came before the call was registered, are set aside.
KilledSkipsPost ==
    \A e \in signalled :
        TaskOf[e] \in overlapped \/ pc[e] \notin {"exited", "post", "closing"}
=============================================================================
