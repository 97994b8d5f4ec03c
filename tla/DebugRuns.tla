----------------------------- MODULE DebugRuns -----------------------------
(***************************************************************************)
(* services/script.rs and api/script.rs: running a script for a client     *)
(* that reads its output, and killing such a run.  The handler writes a    *)
(* temporary file (execute_content), spawns the process and lists its pid; *)
(* the rest is done by the stream that the client reads, and not at all    *)
(* if the client goes away.                                                *)
(*                                                                         *)
(* Outside the code in src/: a process ends when it likes and may close    *)
(* its output before that, what it has started may keep the output open    *)
(* for longer, and a pid that was waited for may be given to another       *)
(* process.  Left out: the lines of the output, the environment,           *)
(* notifications, and the files of scripts.                                *)
(***************************************************************************)
CONSTANTS
    Debugs,      \* the runs ever asked for
    NoRun        \* nobody holds the lock of running_processes to kill

VARIABLES
    step,        \* what the handler or the stream of each run does next
    process,     \* its process: running, ended, or waited for
    output,      \* whether somebody holds its output open
    temp,        \* whether there is a temporary file
    stuck,       \* history: whether the file could not be removed
    running_processes,   \* the runs whose pid is listed
    killing      \* the run whose pid a request has taken, under the write lock

vars == <<step, process, output, temp, stuck, running_processes, killing>>

Steps == {"none", "spawn", "list", "read", "wait", "remove", "unlist", "end", "dropped"}

\* The types of the state.
TypeOK ==
    /\ step \in [Debugs -> Steps]
    /\ process \in [Debugs -> {"none", "running", "ended", "gone"}]
    /\ output \subseteq Debugs /\ temp \subseteq Debugs /\ stuck \subseteq Debugs
    /\ running_processes \subseteq Debugs /\ killing \in Debugs \union {NoRun}

Init ==
    /\ step = [d \in Debugs |-> "none"]
    /\ process = [d \in Debugs |-> "none"]
    /\ output = {} /\ temp = {} /\ stuck = {}
    /\ running_processes = {} /\ killing = NoRun

Does(d, from, to) == step[d] = from /\ step' = [step EXCEPT ![d] = to]
Process(d, p) == process' = [process EXCEPT ![d] = p]
Unlocked == killing = NoRun

-----------------------------------------------------------------------------
\* A saved script, without a file of its own.
execute_script(d) ==
    /\ Does(d, "none", "spawn")
    /\ UNCHANGED <<process, output, temp, stuck, running_processes, killing>>

execute_content(d) ==
    /\ Does(d, "none", "spawn")
    /\ temp' = temp \union {d}
    /\ UNCHANGED <<process, output, stuck, running_processes, killing>>

\* The interpreter is unknown, or cannot be started: the file stays.
SpawnFail(d) ==
    /\ Does(d, "spawn", "dropped")
    /\ UNCHANGED <<process, output, temp, stuck, running_processes, killing>>

Spawn(d) ==
    /\ Does(d, "spawn", "list")
    /\ Process(d, "running") /\ output' = output \union {d}
    /\ UNCHANGED <<temp, stuck, running_processes, killing>>

List(d) ==
    /\ Does(d, "list", "read") /\ Unlocked
    /\ running_processes' = running_processes \union {d}
    /\ UNCHANGED <<process, output, temp, stuck, killing>>

\* The stream reads until the output ends, which the exit alone need not bring.
ReadEnd(d) ==
    /\ Does(d, "read", "wait") /\ d \notin output
    /\ UNCHANGED <<process, output, temp, stuck, running_processes, killing>>

Wait(d) ==
    /\ Does(d, "wait", "remove") /\ process[d] = "ended"
    /\ Process(d, "gone")
    /\ UNCHANGED <<output, temp, stuck, running_processes, killing>>

\* Variant: the file is removed by whoever also takes the run off the list.
RemoveFile_Listed(d) ==
    /\ Does(d, "remove", "unlist")
    /\ temp' = IF d \in running_processes THEN temp \ {d} ELSE temp
    /\ UNCHANGED <<process, output, stuck, running_processes, killing>>

\* An error of the removal is ignored: the file stays.
RemoveFile(d) ==
    /\ Does(d, "remove", "unlist")
    /\ \/ temp' = temp \ {d} /\ UNCHANGED stuck
       \/ d \in temp /\ stuck' = stuck \union {d} /\ UNCHANGED temp
    /\ UNCHANGED <<process, output, running_processes, killing>>

Unlist(d) ==
    /\ Does(d, "unlist", "end") /\ Unlocked
    /\ running_processes' = running_processes \ {d}
    /\ UNCHANGED <<process, output, temp, stuck, killing>>

\* The client goes away: the process runs on, with its file and its entry.
Disconnect(d) ==
    /\ step[d] \notin {"none", "end", "dropped"}
    /\ step' = [step EXCEPT ![d] = "dropped"]
    /\ UNCHANGED <<process, output, temp, stuck, running_processes, killing>>

-----------------------------------------------------------------------------
\* kill_execution keeps the write lock while it runs kill -9, which stops the
\* process itself but nothing that it has started.
kill_execution(d) ==
    /\ Unlocked /\ d \in running_processes
    /\ running_processes' = running_processes \ {d}
    /\ killing' = d
    /\ UNCHANGED <<step, process, output, temp, stuck>>

\* A pid that was waited for meanwhile may belong to another run by now.
Killed(d) ==
    /\ killing = d
    /\ \/ process[d] = "running" /\ Process(d, "ended")
       \/ process[d] # "running" /\ UNCHANGED process
       \/ process[d] = "gone" /\ \E e \in Debugs : process[e] = "running" /\ Process(e, "ended")
    /\ killing' = NoRun
    /\ UNCHANGED <<step, output, temp, stuck, running_processes>>

Exit(d) ==
    /\ process[d] = "running" /\ Process(d, "ended")
    /\ UNCHANGED <<step, output, temp, stuck, running_processes, killing>>

OutputEnd(d) ==
    /\ d \in output
    /\ output' = output \ {d}
    /\ UNCHANGED <<step, process, temp, stuck, running_processes, killing>>

\* The runtime waits for the process of a stream that was dropped.
Reap(d) ==
    /\ step[d] = "dropped" /\ process[d] = "ended"
    /\ Process(d, "gone")
    /\ UNCHANGED <<step, output, temp, stuck, running_processes, killing>>

-----------------------------------------------------------------------------
StreamStep(d) == List(d) \/ ReadEnd(d) \/ Wait(d) \/ RemoveFile(d) \/ Unlist(d)

DebugStep(d) ==
    \/ execute_script(d) \/ execute_content(d) \/ SpawnFail(d) \/ Spawn(d) \/ StreamStep(d)
    \/ Disconnect(d) \/ kill_execution(d) \/ Killed(d) \/ Exit(d) \/ OutputEnd(d) \/ Reap(d)

Next == \E d \in Debugs : DebugStep(d)

Spec == Init /\ [][Next]_vars

\* The client reads on and kill returns; no process has to end by itself.
FairSpec == Spec /\ \A d \in Debugs : WF_vars(StreamStep(d)) /\ WF_vars(Killed(d))

-----------------------------------------------------------------------------
\* Once the process of a run has ended and nobody holds its output any more, it is
\* waited for and its entry goes away, and its file too unless it cannot be removed,
\* killed or not and whenever the kill came, unless the client went away
\* (execute_content, kill_execution).
NothingLeft ==
    \A d \in Debugs : step[d] = "read" /\ process[d] = "ended" /\ d \notin output ~>
        \/ /\ step[d] = "end" /\ process[d] = "gone" /\ d \notin running_processes
           /\ d \in temp => d \in stuck
        \/ step[d] = "dropped"
=============================================================================
