-------------------------- MODULE SubscriptionRuns --------------------------
(***************************************************************************)
(* services/subscription.rs, scheduler/subscription_scheduler.rs and       *)
(* api/subscription.rs: subscriptions, the jobs that run them on schedule, *)
(* and the runs that fetch a git repository or a single file.              *)
(*                                                                         *)
(* A row names a place under scripts/: a git directory by its name, which  *)
(* is unique, or a file by its save path, which need not be.  An update    *)
(* may move a row to another place (name, type, save path), change when it *)
(* runs, or whether: the schedule is not validated, so an enabled row may  *)
(* have one that the cron scheduler does not understand.                   *)
(*                                                                         *)
(* Outside the code in src/: git and downloads succeed or fail; git clone  *)
(* needs a directory that is not there, and git pull a complete clone; the *)
(* cron scheduler may refuse a job.  Left out: the address and the branch  *)
(* (git pull goes on with those that the clone was made with), validation, *)
(* what the parsed dependencies do (DependenceQueue), and lists and logs.  *)
(***************************************************************************)
EXTENDS Naturals

CONSTANTS
    Subs,        \* the subscriptions ever created
    Places,      \* what a row may name: the directories of clones, and files
    Files,       \* those places that are files
    Nobody,      \* the lock of job_ids is free, or no subscription, or no place
    MaxCalls,    \* bound: the calls of the API and of jobs
    MaxRuns,     \* bound: the runs spawned
    MaxStops     \* bound: how often the process is stopped

CallNos == 1..MaxCalls
Runs == 1..MaxRuns
Boot == 0        \* the start-up, which reloads the jobs like a call

VARIABLES
    row,      \* the row of a subscription: "on" if enabled with a schedule that can
              \* be parsed, "off" if disabled or with one that cannot, or not there
    place,    \* what it names
    status,   \* its last_run_status
    call,     \* where each call is, for which subscription, and for whom
    lock,     \* who holds the write lock of job_ids
    job_ids,  \* how many jobs of each subscription the registry lists
    live,     \* how many the cron scheduler holds
    found,    \* the rows that the reload under way has still to schedule
    fetch,    \* where each run is, and for which subscription
    copy,     \* what is in a directory, or in a file
    stops,
    dirty,    \* history: rows changed, or jobs were lost, since they were read
    refused,  \* history: those that the cron scheduler refused since then
    upset,    \* history: subscriptions whose last run was not left alone, or that
              \* were moved since
    cut       \* history: those that a run was cut off, or not reported, for

table == <<row, place, status>>
jobs == <<lock, job_ids, live, found, refused>>
disk == <<fetch, copy>>
vars == <<table, call, jobs, disk, stops, dirty, upset, cut>>

Callers == CallNos \union {Boot}
Stages == {"idle", "remove", "mark", "spawn", "reload", "drain", "add", "end"}
Work == {"start", "pull", "clone", "check", "reset", "retry", "clear", "reclone",
         "cloning", "recloning", "download", "write", "good", "bad"}

\* The types of the state; every job that the registry lists is live.
TypeOK ==
    /\ row \in [Subs -> {"none", "on", "off", "gone"}]
    /\ place \in [Subs -> Places \union {Nobody}]
    /\ status \in [Subs -> {"never", "running", "success", "failed"}]
    /\ call \in [Callers -> [at : Stages, sub : Subs \union {Nobody},
                         place : Places \union {Nobody}, job : BOOLEAN]]
    /\ lock \in Callers \union {Nobody} /\ found \subseteq Subs
    /\ job_ids \in [Subs -> Nat] /\ live \in [Subs -> Nat]
    /\ \A s \in Subs : job_ids[s] <= live[s]
    /\ fetch \in [Runs -> [at : Work \union {"none", "end"}, sub : Subs \union {Nobody},
                       place : Places \union {Nobody}]]
    /\ copy \in [Places -> {"none", "part", "whole"}] /\ stops \in 0..MaxStops
    /\ dirty \in BOOLEAN /\ refused \subseteq Subs /\ upset \subseteq Subs /\ cut \subseteq Subs

Idle == [at |-> "idle", sub |-> Nobody, place |-> Nobody, job |-> FALSE]
Done == [Idle EXCEPT !.at = "end"]
NoRun == [at |-> "none", sub |-> Nobody, place |-> Nobody]

Init ==
    /\ row = [s \in Subs |-> "none"] /\ place = [s \in Subs |-> Nobody]
    /\ status = [s \in Subs |-> "never"]
    /\ call = [c \in Callers |-> Idle]
    /\ lock = Nobody /\ found = {}
    /\ job_ids = [s \in Subs |-> 0] /\ live = job_ids
    /\ fetch = [r \in Runs |-> NoRun]
    /\ copy = [p \in Places |-> "none"] /\ stops = 0
    /\ dirty = FALSE /\ refused = {} /\ upset = {} /\ cut = {}

-----------------------------------------------------------------------------
Begins(c, r) ==
    /\ call[c].at = "idle" /\ call[Boot].at = "idle"
    /\ \A d \in 1..(c - 1) : call[d].at # "idle"
    /\ call' = [call EXCEPT ![c] = r]
CallAt(c, stage) == call[c].at = stage
CallTo(c, stage) == call' = [call EXCEPT ![c].at = stage]
\* The start-up is over, another call has been answered.
CallEnds(c) == call' = [call EXCEPT ![c] = IF c = Boot THEN Idle ELSE Done]
Exists(s) == row[s] \in {"on", "off"}
\* What a row of s may say; a name that another row has is refused.
Says(s, on, p) ==
    /\ p \in Files \/ \A t \in Subs \ {s} : Exists(t) => place[t] # p
    /\ row' = [row EXCEPT ![s] = on] /\ place' = [place EXCEPT ![s] = p]

create(c, s) ==
    /\ Begins(c, [Idle EXCEPT !.at = "reload"])
    /\ row[s] = "none"
    /\ \E on \in {"on", "off"}, p \in Places : Says(s, on, p)
    /\ dirty' = TRUE
    /\ UNCHANGED <<status, jobs, disk, stops, upset, cut>>

\* The status stays, and what was fetched, wherever the row now points.
update(c, s) ==
    /\ Begins(c, [Idle EXCEPT !.at = "reload"])
    /\ Exists(s)
    /\ \E on \in {"on", "off"}, p \in Places :
          /\ Says(s, on, p)
          /\ upset' = IF p = place[s] THEN upset ELSE upset \union {s}
    /\ dirty' = TRUE
    /\ UNCHANGED <<status, jobs, disk, stops, cut>>

\* A deletion first removes the clone, also while a run works in it; a file stays.
delete(c, s) ==
    /\ Begins(c, [Idle EXCEPT !.at = "remove", !.sub = s])
    /\ Exists(s)
    /\ copy' = IF place[s] \in Files THEN copy ELSE [copy EXCEPT ![place[s]] = "none"]
    /\ upset' = upset \union {s}
    /\ UNCHANGED <<table, jobs, fetch, stops, dirty, cut>>

DeleteRow(c) ==
    LET s == call[c].sub IN
    /\ CallAt(c, "remove")
    /\ row' = [row EXCEPT ![s] = "gone"]
    /\ IF Exists(s) THEN CallTo(c, "reload") /\ dirty' = TRUE
                    ELSE CallEnds(c) /\ UNCHANGED dirty
    /\ UNCHANGED <<place, status, jobs, disk, stops, upset, cut>>

\* The row is read: the run will work on this copy of it.  Nothing looks
\* whether a run is under way already.
run(c, s) ==
    /\ \E job \in BOOLEAN :
          /\ job => live[s] > 0
          /\ Begins(c, [at |-> "mark", sub |-> s, place |-> place[s], job |-> job])
    /\ Exists(s)
    /\ UNCHANGED <<table, jobs, disk, stops, dirty, upset, cut>>

\* A run of it has begun, or is about to.
Busy(s) ==
    \/ \E r \in Runs : fetch[r].sub = s /\ fetch[r].at \in Work
    \/ \E c \in CallNos : call[c].sub = s /\ CallAt(c, "spawn")
BusyAt(p) ==
    \/ \E r \in Runs : fetch[r].place = p /\ fetch[r].at \in Work
    \/ \E c \in CallNos : call[c].place = p /\ CallAt(c, "spawn")

update_run_status(c) ==
    LET s == call[c].sub  p == call[c].place IN
    /\ CallAt(c, "mark")
    /\ status' = IF Exists(s) THEN [status EXCEPT ![s] = "running"] ELSE status
    /\ cut' = cut \ {s}
    /\ upset' = {t \in Subs : IF t = s THEN Busy(s) \/ BusyAt(p) \/ place[s] # p
                                       ELSE t \in upset \/ place[t] = p}
    /\ CallTo(c, "spawn")
    /\ UNCHANGED <<row, place, jobs, disk, stops, dirty>>

Spawn(c, r) ==
    LET s == call[c].sub IN
    /\ CallAt(c, "spawn") /\ fetch[r].at = "none"
    /\ \A q \in 1..(r - 1) : fetch[q].at # "none"
    /\ fetch' = [fetch EXCEPT ![r] = [at |-> "start", sub |-> s, place |-> call[c].place]]
    /\ CallEnds(c)
    /\ UNCHANGED <<table, jobs, copy, stops, dirty, upset, cut>>

-----------------------------------------------------------------------------
(* reload_subscriptions, under the write lock of job_ids from the first to  *)
(* the last of these steps.                                                 *)

\* Variant: the jobs are guarded by a lock that any number of calls may hold.
Lock_Shared(c) ==
    /\ CallAt(c, "reload")
    /\ lock' = c
    /\ CallTo(c, "drain")
    /\ UNCHANGED <<table, job_ids, live, found, refused, disk, stops, dirty, upset, cut>>

Lock(c) ==
    /\ CallAt(c, "reload") /\ lock = Nobody
    /\ lock' = c
    /\ CallTo(c, "drain")
    /\ UNCHANGED <<table, job_ids, live, found, refused, disk, stops, dirty, upset, cut>>

Remove(c, s) ==
    /\ CallAt(c, "drain") /\ job_ids[s] > 0
    /\ job_ids' = [job_ids EXCEPT ![s] = @ - 1]
    /\ live' = [live EXCEPT ![s] = @ - 1]
    /\ UNCHANGED <<table, call, lock, found, refused, disk, stops, dirty, upset, cut>>

Drained(c) == CallAt(c, "drain") /\ \A s \in Subs : job_ids[s] = 0

\* A row whose schedule cannot be parsed is passed over.
list_enabled(c) ==
    /\ Drained(c)
    /\ found' = {s \in Subs : row[s] = "on"} /\ dirty' = FALSE /\ refused' = {}
    /\ CallTo(c, "add")
    /\ UNCHANGED <<table, lock, job_ids, live, disk, stops, upset, cut>>

\* Then nothing is scheduled any more; a start-up that fails is tried again.
ListFail(c) ==
    /\ Drained(c) /\ c # Boot
    /\ CallEnds(c) /\ lock' = Nobody /\ dirty' = TRUE
    /\ UNCHANGED <<table, job_ids, live, found, refused, disk, stops, upset, cut>>

\* A job that the cron scheduler refuses is passed over.
Add(c, s) ==
    /\ CallAt(c, "add") /\ s \in found
    /\ \/ /\ live' = [live EXCEPT ![s] = @ + 1] /\ job_ids' = [job_ids EXCEPT ![s] = @ + 1]
          /\ UNCHANGED refused
       \/ refused' = refused \union {s} /\ UNCHANGED <<live, job_ids>>
    /\ found' = found \ {s}
    /\ UNCHANGED <<table, call, lock, disk, stops, dirty, upset, cut>>

Unlock(c) ==
    /\ CallAt(c, "add") /\ found = {}
    /\ lock' = Nobody
    /\ CallEnds(c)
    /\ UNCHANGED <<table, job_ids, live, found, refused, disk, stops, dirty, upset, cut>>

\* The handler of a client that went away is dropped at an await.  The registry
\* forgets the jobs that a drain had still to remove, and the one that the
\* scheduler was just given; a status "running" stays without a run.
Disconnect(c) ==
    /\ ~call[c].job /\ c # Boot /\ call[c].at \notin {"idle", "end"}
    /\ CallEnds(c)
    /\ cut' = IF CallAt(c, "spawn") THEN cut \union {call[c].sub} ELSE cut
    /\ IF lock = c
       THEN /\ lock' = Nobody /\ found' = {} /\ dirty' = TRUE
            /\ job_ids' = IF CallAt(c, "drain") THEN [s \in Subs |-> 0] ELSE job_ids
            /\ live' = live \/ \E s \in found : live' = [live EXCEPT ![s] = @ + 1]
       ELSE UNCHANGED <<lock, found, job_ids, live, dirty>>
    /\ UNCHANGED <<table, disk, stops, refused, upset>>

-----------------------------------------------------------------------------
(* run_operation: sync_git or download_file, and the report of the result.  *)

RunAt(r, stage) == fetch[r].at = stage
RunTo(r, stage) == fetch' = [fetch EXCEPT ![r].at = stage]
RunEnds(r) == fetch' = [fetch EXCEPT ![r] = [NoRun EXCEPT !.at = "end"]]
Copy(r) == copy[fetch[r].place]
Holds(r, what) == copy' = [copy EXCEPT ![fetch[r].place] = what]
Elsewhere == UNCHANGED <<table, call, jobs, stops, dirty, upset, cut>>

Start(r) ==
    /\ RunAt(r, "start")
    /\ RunTo(r, CASE fetch[r].place \in Files -> "download"
                  [] fetch[r].place \notin Files /\ Copy(r) # "none" -> "pull"
                  [] OTHER -> "clone")
    /\ UNCHANGED copy /\ Elsewhere

\* A failed pull is repeated once, if the reset before it succeeds.
Pull(r) ==
    \/ RunAt(r, "pull") /\ Copy(r) = "whole" /\ RunTo(r, "good")
    \/ RunAt(r, "pull") /\ RunTo(r, "check")
    \/ RunAt(r, "reset") /\ Copy(r) # "none" /\ RunTo(r, "retry")
    \/ RunAt(r, "reset") /\ RunTo(r, "clear")
    \/ RunAt(r, "retry") /\ Copy(r) = "whole" /\ RunTo(r, "good")
    \/ RunAt(r, "retry") /\ RunTo(r, "clear")
PullStep(r) == Pull(r) /\ UNCHANGED copy /\ Elsewhere

CheckClone(r) ==
    /\ RunAt(r, "check")
    /\ RunTo(r, IF Copy(r) = "none" THEN "reclone" ELSE "reset")
    /\ UNCHANGED copy /\ Elsewhere

\* A directory cannot be made, or git cannot be run at all.
GiveUp(r) ==
    /\ fetch[r].at \in {"start", "pull", "clone", "reclone"}
    /\ RunTo(r, "bad") /\ UNCHANGED copy /\ Elsewhere

Clear(r) ==
    /\ RunAt(r, "clear")
    /\ Holds(r, "none") /\ RunTo(r, "reclone") /\ Elsewhere

Failed(r) == RunTo(r, IF RunAt(r, "clone") \/ RunAt(r, "cloning") THEN "check" ELSE "bad")

Clone(r) ==
    /\ fetch[r].at \in {"clone", "reclone"} /\ Elsewhere
    /\ \/ /\ Copy(r) = "none" /\ Holds(r, "part")
          /\ RunTo(r, IF RunAt(r, "clone") THEN "cloning" ELSE "recloning")
       \/ Failed(r) /\ UNCHANGED copy

\* Variant: the exit status of git is not looked at.
Cloned_Unchecked(r) ==
    /\ fetch[r].at \in {"cloning", "recloning"} /\ Elsewhere
    /\ \/ Copy(r) = "part" /\ Holds(r, "whole") /\ RunTo(r, "good")
       \/ (Holds(r, "none") \/ UNCHANGED copy) /\ RunTo(r, "good")

\* A clone that fails takes away what it has made, if git can.
Cloned(r) ==
    /\ fetch[r].at \in {"cloning", "recloning"} /\ Elsewhere
    /\ \/ Copy(r) = "part" /\ Holds(r, "whole") /\ RunTo(r, "good")
       \/ (Holds(r, "none") \/ UNCHANGED copy) /\ Failed(r)

\* Variant: an error of the download returns without a report.
download_file_Silent(r) ==
    /\ Elsewhere
    /\ \/ RunAt(r, "download") /\ Holds(r, "part") /\ RunTo(r, "write")
       \/ RunAt(r, "write") /\ Holds(r, "whole") /\ RunTo(r, "good")
       \/ fetch[r].at \in {"download", "write"} /\ RunEnds(r) /\ UNCHANGED copy

\* The file is truncated before the answer is written to it.
download_file(r) ==
    /\ Elsewhere
    /\ \/ RunAt(r, "download") /\ Holds(r, "part") /\ RunTo(r, "write")
       \/ RunAt(r, "write") /\ Holds(r, "whole") /\ RunTo(r, "good")
       \/ fetch[r].at \in {"download", "write"} /\ RunTo(r, "bad") /\ UNCHANGED copy

\* The dependencies of a repository are looked for before success is reported.
update_status(r) ==
    LET s == fetch[r].sub IN
    /\ fetch[r].at \in {"good", "bad"}
    /\ status' = IF Exists(s)
                 THEN [status EXCEPT ![s] = IF RunAt(r, "good") THEN "success" ELSE "failed"]
                 ELSE status
    /\ RunEnds(r)
    /\ UNCHANGED <<row, place, call, jobs, copy, stops, dirty, upset, cut>>

ReportFail(r) ==
    /\ fetch[r].at \in {"good", "bad"}
    /\ cut' = cut \union {fetch[r].sub}
    /\ RunEnds(r)
    /\ UNCHANGED <<table, call, jobs, copy, stops, dirty, upset>>

-----------------------------------------------------------------------------
\* The process is stopped and started again, with no job until it has reloaded.
Restart ==
    /\ stops < MaxStops /\ stops' = stops + 1
    /\ call' = [c \in Callers |-> IF c = Boot THEN [Idle EXCEPT !.at = "reload"]
                                  ELSE IF CallAt(c, "idle") THEN Idle
                                  ELSE Done]
    /\ lock' = Nobody /\ found' = {} /\ dirty' = TRUE
    /\ job_ids' = [s \in Subs |-> 0] /\ live' = [s \in Subs |-> 0]
    /\ fetch' = [r \in Runs |-> IF fetch[r].at = "none" THEN fetch[r]
                                ELSE [NoRun EXCEPT !.at = "end"]]
    /\ cut' = cut \union {s \in Subs : status[s] = "running"}
    /\ UNCHANGED <<table, copy, refused, upset>>

CallStep(c) ==
    \/ DeleteRow(c) \/ update_run_status(c) \/ \E r \in Runs : Spawn(c, r)
    \/ Lock(c) \/ list_enabled(c) \/ ListFail(c) \/ Unlock(c) \/ Disconnect(c)
    \/ \E s \in Subs : Remove(c, s) \/ Add(c, s)

RunStep(r) ==
    \/ Start(r) \/ PullStep(r) \/ CheckClone(r) \/ GiveUp(r) \/ Clear(r) \/ Clone(r) \/ Cloned(r)
    \/ download_file(r) \/ update_status(r) \/ ReportFail(r)

Next ==
    \/ \E c \in CallNos, s \in Subs : create(c, s) \/ update(c, s) \/ delete(c, s) \/ run(c, s)
    \/ \E c \in Callers : CallStep(c)
    \/ \E r \in Runs : RunStep(r)
    \/ Restart

Spec == Init /\ [][Next]_vars

-----------------------------------------------------------------------------
\* Once the rows have been read and nobody is at work on the jobs, there is
\* exactly one job listed, and live, for each enabled subscription whose schedule
\* can be parsed and whose job the cron scheduler took, and none for the others,
\* however reloads of several calls follow each other and whichever of them fail or
\* are cut off (reload_subscriptions).
OneJobEach ==
    lock = Nobody /\ ~dirty =>
        \A s \in Subs :
            /\ job_ids[s] = (IF row[s] = "on" /\ s \notin refused THEN 1 ELSE 0)
            /\ live[s] >= job_ids[s]

\* A subscription says "running" only while a run of it is on its way to report
\* a result, unless the last one was cut off or could not be reported: no error
\* path of a run ends without its report (run_operation).
RunningIsRun ==
    \A s \in Subs : status[s] = "running" =>
        s \in cut \/ ~Exists(s) \/ Busy(s)

\* A subscription that says "success" has a complete clone or file at the place that
\* it names, of whatever address it named when that was made, unless it was moved
\* since its last run read the row, runs at one place overlapped, another took the
\* place over, or its deletion had begun: neither a failed clone nor what a stopped
\* process left behind is taken for one (sync_git, download_file).
SuccessIsWhole ==
    \A s \in Subs :
        Exists(s) /\ status[s] = "success" /\ s \notin upset => copy[place[s]] = "whole"
=============================================================================
