----------------------------- MODULE AgentJobs -----------------------------
(***************************************************************************)
(* api/ai.rs: the jobs of the AI agent, the approvals that a tool may need *)
(* from the user, and the sessions that name the job at work.  EventStream *)
(* models how the events of jobs reach the web sockets.                    *)
(*                                                                         *)
(* Outside the code in src/: the provider answers or fails, within its     *)
(* retries; a tool ends some time; the user answers and cancels through    *)
(* any socket that shows the job, as late and as often as he likes.  Left  *)
(* out: what a conversation says and how it is compressed and stored,      *)
(* errors of single statements (the code ignores them all), restarts, and  *)
(* the older agent without approvals.                                      *)
(***************************************************************************)
EXTENDS Naturals, Sequences, FiniteSets

CONSTANTS
    Jobs,        \* the jobs ever created
    Sessions,
    NoJob,       \* no job, or a session that shows none
    Unnamed,     \* the calls of each job, by number, that the provider gives no id
    Grants,      \* the permissions that a request may bring along
    MaxWork      \* bound: jobs created and tool calls asked for, together

ASSUME AgentAssumption ==
    /\ NoJob \notin Jobs /\ "deleted" \notin Jobs
    /\ Unnamed \subseteq Jobs \X Nat
    /\ Grants \subseteq SUBSET {"change", "command"}
    /\ MaxWork \in Nat

Permissions == {"change", "command"}
Tools == Permissions \union {"free"}      \* by the permission that they need
Decisions == {"once", "always", "reject"} \* "always" asks to remember
Calls == 1..MaxWork
Ids == Calls \union {0}                   \* 0 stands for no id

VARIABLES
    stage,    \* what each job does next
    session,  \* the session of its request
    asked,    \* the permissions that its request brought along
    allow,    \* allow_commands and allow_changes, its locals
    calls,    \* the tool calls that the provider has asked for so far
    at,       \* how many of them have been begun
    cancel,   \* its CancellationToken
    pending,  \* the decision on the call at hand; "none" if none is awaited
    permit,   \* the permit that approval_notify stores
    AI_JOBS,  \* the registry
    active,   \* active_job_id of each session; "deleted" if it has no row
    doomed,   \* the sessions that delete_session is about to remove
    cards,    \* history: the calls that a card was published for
    said,     \* history: the ids that the user allowed, and how, for calls not run yet
    ran       \* history: the calls whose tool was started

locals == <<session, asked, calls, at, allow>>
approval == <<pending, permit>>
rows == <<active, doomed>>
history == <<cards, said, ran>>
vars == <<stage, locals, cancel, approval, AI_JOBS, rows, history>>

Waiting == {"wait", "poll", "parked"}
Finished == {"done", "unlist", "gone"}
Stages == {"none", "named", "listed", "config", "turn", "ask",
           "call", "preview", "card", "tool", "running", "save", "fail",
           "cancel", "clear"} \union Waiting \union Decisions \union Finished

\* The types of the state.
TypeOK ==
    /\ stage \in [Jobs -> Stages]
    /\ session \in [Jobs -> Sessions]
    /\ asked \in [Jobs -> SUBSET Permissions] /\ allow \in [Jobs -> SUBSET Permissions]
    /\ \A j \in Jobs : calls[j] \in Seq(Tools) /\ Len(calls[j]) <= MaxWork
    /\ at \in [Jobs -> 0..MaxWork] /\ \A j \in Jobs : at[j] <= Len(calls[j])
    /\ cancel \in [Jobs -> BOOLEAN] /\ permit \in [Jobs -> BOOLEAN]
    /\ pending \in [Jobs -> Decisions \union {"none", "open"}]
    /\ AI_JOBS \subseteq Jobs
    /\ active \in [Sessions -> Jobs \union {NoJob, "deleted"}] /\ doomed \subseteq Sessions
    /\ said \in [Jobs -> SUBSET (Ids \X {"once", "always"})]
    /\ ran \in [Jobs -> SUBSET Calls] /\ cards \in [Jobs -> SUBSET Calls]

Init ==
    /\ stage = [j \in Jobs |-> "none"] /\ session \in [Jobs -> Sessions]
    /\ asked = [j \in Jobs |-> {}] /\ allow = asked
    /\ calls = [j \in Jobs |-> <<>>] /\ at = [j \in Jobs |-> 0]
    /\ cancel = [j \in Jobs |-> FALSE]
    /\ pending = [j \in Jobs |-> "none"] /\ permit = [j \in Jobs |-> FALSE]
    /\ AI_JOBS = {}
    /\ active = [s \in Sessions |-> NoJob] /\ doomed = {}
    /\ said = [j \in Jobs |-> {}] /\ ran = said /\ cards = said

-----------------------------------------------------------------------------
At(j, st) == stage[j] = st
Go(j, st) == stage' = [stage EXCEPT ![j] = st]

\* An UPDATE, which finds no row when the session was deleted.
set_session_job(s, j) ==
    active' = IF active[s] = "deleted" THEN active ELSE [active EXCEPT ![s] = j]

tool_permission_granted(tool, allowed) == tool = "free" \/ tool \in allowed

Tool(j) == calls[j][at[j]]

\* The id that a card shows for a call.  The code invents one for a call that comes
\* without, the same for all of them: "tool-call", or nothing.
call_id(j, c) == IF <<j, c>> \in Unnamed THEN 0 ELSE c

\* What the bound counts: the jobs that were created, and their calls.
Created == {j \in Jobs : stage[j] # "none"}
Work == Cardinality(UNION {{j} \X (0..Len(calls[j])) : j \in Created})

-----------------------------------------------------------------------------
(* A job is created by the handler of a socket, and then runs as a task of  *)
(* its own.                                                                 *)

create_agent_job(j, granted) ==
    /\ At(j, "none") /\ Work < MaxWork
    /\ set_session_job(session[j], j)
    /\ asked' = [asked EXCEPT ![j] = granted] /\ allow' = [allow EXCEPT ![j] = granted]
    /\ Go(j, "named")
    /\ UNCHANGED <<session, calls, at, cancel, approval, AI_JOBS, doomed, history>>

Register(j) ==
    /\ At(j, "named")
    /\ AI_JOBS' = AI_JOBS \union {j}
    /\ Go(j, "listed")
    /\ UNCHANGED <<locals, cancel, approval, rows, history>>

Spawn(j) ==
    /\ At(j, "listed")
    /\ Go(j, "config")
    /\ UNCHANGED <<locals, cancel, approval, AI_JOBS, rows, history>>

\* The prompt is stored, and the configuration names a model, or does not.
Configure(j) ==
    /\ At(j, "config")
    /\ Go(j, "turn") \/ Go(j, "fail")
    /\ UNCHANGED <<locals, cancel, approval, AI_JOBS, rows, history>>

\* A conversation that is too long is compressed, by the provider or locally;
\* then cancelled is looked at.
Turn(j) ==
    /\ At(j, "turn")
    /\ Go(j, IF cancel[j] THEN "cancel" ELSE "ask")
    /\ UNCHANGED <<locals, cancel, approval, AI_JOBS, rows, history>>

AskCancelled(j) ==
    /\ At(j, "ask") /\ cancel[j]
    /\ Go(j, "cancel")
    /\ UNCHANGED <<locals, cancel, approval, AI_JOBS, rows, history>>

AskFail(j) ==
    /\ At(j, "ask")
    /\ Go(j, "fail")
    /\ UNCHANGED <<locals, cancel, approval, AI_JOBS, rows, history>>

\* Variant: the calls of a response replace the earlier ones, but not the place.
call_agent_provider_Replace(j) ==
    /\ At(j, "ask")
    /\ \E more \in UNION {[1..n -> Tools] : n \in 0..(MaxWork - Work)} :
          /\ calls' = [calls EXCEPT ![j] = more]
          /\ Go(j, IF more = <<>> THEN "save" ELSE "call")
    /\ UNCHANGED <<session, asked, allow, at, cancel, approval, AI_JOBS, rows, history>>

\* The provider answers, with tool calls or for the last time.
call_agent_provider(j) ==
    /\ At(j, "ask")
    /\ \E more \in UNION {[1..n -> Tools] : n \in 0..(MaxWork - Work)} :
          /\ calls' = [calls EXCEPT ![j] = @ \o more]
          /\ Go(j, IF more = <<>> THEN "save" ELSE "call")
    /\ UNCHANGED <<session, asked, allow, at, cancel, approval, AI_JOBS, rows, history>>

NextCall(j) ==
    /\ At(j, "call")
    /\ at' = [at EXCEPT ![j] = @ + 1]
    /\ Go(j, IF tool_permission_granted(calls[j][at[j] + 1], allow[j]) THEN "tool" ELSE "preview")
    /\ UNCHANGED <<session, asked, allow, calls, cancel, approval, AI_JOBS, rows, history>>

-----------------------------------------------------------------------------
(* Waiting for the user's approval of the call at hand.                     *)

SetPending(j) ==
    /\ At(j, "preview")
    /\ pending' = [pending EXCEPT ![j] = "open"]
    /\ Go(j, "card")
    /\ UNCHANGED <<locals, cancel, permit, AI_JOBS, rows, history>>

ShowCard(j) ==
    /\ At(j, "card")
    /\ cards' = [cards EXCEPT ![j] = @ \union {at[j]}]
    /\ Go(j, "wait")
    /\ UNCHANGED <<locals, cancel, approval, AI_JOBS, rows, said, ran>>

\* One turn of the loop: cancelled is looked at first, then the decision; the
\* lock is held neither until the decision is cleared nor until the job waits.
WaitTurn(j) ==
    /\ At(j, "wait") /\ ~cancel[j]
    /\ Go(j, IF pending[j] = "open" THEN "poll" ELSE pending[j])
    /\ UNCHANGED <<locals, cancel, approval, AI_JOBS, rows, history>>

Park(j) ==
    /\ At(j, "poll")
    /\ Go(j, "parked")
    /\ UNCHANGED <<locals, cancel, approval, AI_JOBS, rows, history>>

WakeUp(j) ==
    /\ At(j, "parked") /\ permit[j]
    /\ permit' = [permit EXCEPT ![j] = FALSE]
    /\ Go(j, "wait")
    /\ UNCHANGED <<locals, cancel, pending, AI_JOBS, rows, history>>

\* Variant: a job that sleeps listens for decisions only.
WaitCancelled_Awake(j) ==
    /\ stage[j] \in {"wait", "poll"} /\ cancel[j]
    /\ pending' = [pending EXCEPT ![j] = "none"]
    /\ Go(j, "reject")
    /\ UNCHANGED <<locals, cancel, permit, AI_JOBS, rows, history>>

WaitCancelled(j) ==
    /\ stage[j] \in Waiting /\ cancel[j]
    /\ pending' = [pending EXCEPT ![j] = "none"]
    /\ Go(j, "reject")
    /\ UNCHANGED <<locals, cancel, permit, AI_JOBS, rows, history>>

\* The decision is cleared; "always" also grants the later calls of its kind.
Approve(j) ==
    /\ stage[j] \in {"once", "always"}
    /\ pending' = [pending EXCEPT ![j] = "none"]
    /\ allow' = IF At(j, "always") THEN [allow EXCEPT ![j] = @ \union {Tool(j)}] ELSE allow
    /\ Go(j, "tool")
    /\ UNCHANGED <<session, asked, calls, at, cancel, permit, AI_JOBS, rows, history>>

\* Variant: the job goes on after a rejected call.
Reject_GoesOn(j) ==
    /\ At(j, "reject")
    /\ pending' = [pending EXCEPT ![j] = "none"]
    /\ Go(j, IF at[j] = Len(calls[j]) THEN "turn" ELSE "call")
    /\ UNCHANGED <<locals, cancel, permit, AI_JOBS, rows, history>>

\* A rejected call is reported, and ends the work of the job.
Reject(j) ==
    /\ At(j, "reject")
    /\ pending' = [pending EXCEPT ![j] = "none"]
    /\ Go(j, "save")
    /\ UNCHANGED <<locals, cancel, permit, AI_JOBS, rows, history>>

execute_agent_tool(j) ==
    /\ At(j, "tool")
    /\ ran' = [ran EXCEPT ![j] = @ \union {at[j]}]
    /\ Go(j, "running")
    /\ UNCHANGED <<locals, cancel, approval, AI_JOBS, rows, cards, said>>

\* A tool that lacks its permission would end the work, too, but none does here.
ToolResult(j) ==
    /\ At(j, "running")
    /\ Go(j, IF at[j] = Len(calls[j]) THEN "turn" ELSE "call")
    /\ UNCHANGED <<locals, cancel, approval, AI_JOBS, rows, history>>

-----------------------------------------------------------------------------
(* The end of a job: its conversation is stored, an event tells how it went,*)
(* the session forgets it, done is published, and it leaves the registry.   *)

TellEnd(j) ==
    /\ stage[j] \in {"save", "fail", "cancel"}
    /\ Go(j, "clear")
    /\ UNCHANGED <<locals, cancel, approval, AI_JOBS, rows, history>>

\* Variant: a cancelled job ends without the UPDATE.
ClearSession_Cancelled(j) ==
    /\ At(j, "clear")
    /\ IF cancel[j] THEN UNCHANGED active ELSE set_session_job(session[j], NoJob)
    /\ Go(j, "done")
    /\ UNCHANGED <<locals, cancel, approval, AI_JOBS, doomed, history>>

ClearSession(j) ==
    /\ At(j, "clear")
    /\ set_session_job(session[j], NoJob)
    /\ Go(j, "done")
    /\ UNCHANGED <<locals, cancel, approval, AI_JOBS, doomed, history>>

Done(j) ==
    /\ At(j, "done")
    /\ Go(j, "unlist")
    /\ UNCHANGED <<locals, cancel, approval, AI_JOBS, rows, history>>

\* The job is removed, and all that is known of it goes with it.
Unlist(j) ==
    /\ At(j, "unlist")
    /\ AI_JOBS' = AI_JOBS \ {j}
    /\ Go(j, "gone")
    /\ asked' = [asked EXCEPT ![j] = {}] /\ allow' = [allow EXCEPT ![j] = {}]
    /\ calls' = [calls EXCEPT ![j] = <<>>] /\ at' = [at EXCEPT ![j] = 0]
    /\ cancel' = [cancel EXCEPT ![j] = FALSE] /\ permit' = [permit EXCEPT ![j] = FALSE]
    /\ cards' = [cards EXCEPT ![j] = {}] /\ said' = [said EXCEPT ![j] = {}]
    /\ ran' = [ran EXCEPT ![j] = {}]
    /\ UNCHANGED <<session, pending, rows>>

-----------------------------------------------------------------------------
(* What the user may ask for, at any time.                                  *)

\* A socket may cancel the job that it shows also after its end, to no effect.
Cancel(j) ==
    /\ j \in AI_JOBS
    /\ cancel' = [cancel EXCEPT ![j] = TRUE]
    /\ UNCHANGED <<stage, locals, approval, AI_JOBS, rows, history>>

\* Variant: which call the decision is for is not looked at.
resolve_tool_approval_AnyCall(j, i, d) ==
    IF pending[j] # "none"
    THEN /\ pending' = [pending EXCEPT ![j] = d]
         /\ permit' = [permit EXCEPT ![j] = TRUE]
    ELSE UNCHANGED approval

\* Variant: only a job that is already waiting is notified.
resolve_tool_approval_NoPermit(j, i, d) ==
    IF pending[j] # "none" /\ i = call_id(j, at[j])
    THEN /\ pending' = [pending EXCEPT ![j] = d]
         /\ permit' = [permit EXCEPT ![j] = At(j, "parked")]
    ELSE UNCHANGED approval

\* The decision counts if the job awaits one on a call of this id; an earlier one
\* that the job has not read yet is replaced.
resolve_tool_approval(j, i, d) ==
    IF pending[j] # "none" /\ i = call_id(j, at[j])
    THEN /\ pending' = [pending EXCEPT ![j] = d]
         /\ permit' = [permit EXCEPT ![j] = TRUE]
    ELSE UNCHANGED approval

\* The user answers a card, in time, late or once more.  The answer names the
\* call by the id on the card, and goes to the job that the socket shows: one that
\* shows another job has no effect.
Answer(j, i, d) ==
    /\ \E c \in cards[j] : i = call_id(j, c)
    /\ resolve_tool_approval(j, i, d)
    /\ said' = IF d # "reject" /\ \E c \in 1..Len(calls[j]) \ ran[j] : i = call_id(j, c)
               THEN [said EXCEPT ![j] = @ \union {<<i, d>>}] ELSE said
    /\ UNCHANGED <<stage, locals, cancel, AI_JOBS, rows, cards, ran>>

-----------------------------------------------------------------------------
(* Sessions: deletion cancels the job that a session shows, and the clean-up*)
(* removes old ones that show none.                                         *)

delete_session(s) ==
    /\ active[s] # "deleted" /\ s \notin doomed
    /\ doomed' = doomed \union {s}
    /\ cancel' = [j \in Jobs |-> cancel[j] \/ (j = active[s] /\ j \in AI_JOBS)]
    /\ UNCHANGED <<stage, locals, approval, AI_JOBS, active, history>>

DeleteRow(s) ==
    /\ s \in doomed
    /\ active' = [active EXCEPT ![s] = "deleted"] /\ doomed' = doomed \ {s}
    /\ UNCHANGED <<stage, locals, cancel, approval, AI_JOBS, history>>

CleanUp(s) ==
    /\ active[s] = NoJob
    /\ active' = [active EXCEPT ![s] = "deleted"]
    /\ UNCHANGED <<stage, locals, cancel, approval, AI_JOBS, doomed, history>>

-----------------------------------------------------------------------------
CreateStep(j) == Register(j) \/ Spawn(j)

AskStep(j) ==
    \/ Configure(j) \/ Turn(j)
    \/ AskCancelled(j) \/ AskFail(j) \/ call_agent_provider(j)

CallStep(j) ==
    \/ NextCall(j) \/ SetPending(j) \/ ShowCard(j) \/ WaitTurn(j) \/ Park(j) \/ WakeUp(j)
    \/ WaitCancelled(j) \/ Approve(j) \/ Reject(j) \/ execute_agent_tool(j) \/ ToolResult(j)

EndStep(j) == TellEnd(j) \/ ClearSession(j) \/ Done(j) \/ Unlist(j)

JobStep(j) == CreateStep(j) \/ AskStep(j) \/ CallStep(j) \/ EndStep(j)

UserStep(j) ==
    \/ \E granted \in Grants : create_agent_job(j, granted)
    \/ Cancel(j)
    \/ \E i \in Ids, d \in Decisions : Answer(j, i, d)

SessionStep(s) == delete_session(s) \/ DeleteRow(s) \/ CleanUp(s)

Next ==
    \/ \E j \in Jobs : JobStep(j) \/ UserStep(j)
    \/ \E s \in Sessions : SessionStep(s)

Spec == Init /\ [][Next]_vars

\* The runtime polls every job; the provider and the tools end their work some
\* time.  No user has to answer, and nobody has to delete a session.
FairSpec == Spec /\ \A j \in Jobs : WF_vars(JobStep(j))

-----------------------------------------------------------------------------
\* A tool that changes something is started only if the request brought the
\* permission along, or the user approved a card with the id of this call, or one
\* with the id of an earlier call of its kind in this job and asked to remember it
\* (run_agent_job_inner).  So an answer never counts for another call, late or doubled
\* as it may be, if the provider names its calls; calls without an id share one, and
\* for them the user has approved one of them before, and not more.
NothingUnapproved ==
    \A j \in Jobs : \A c \in ran[j] :
        LET tool == calls[j][c] IN
        \/ tool \in asked[j] \union {"free"}
        \/ \E d \in {"once", "always"} : <<call_id(j, c), d>> \in said[j]
        \/ \E b \in 1..(c - 1) : calls[j][b] = tool /\ <<call_id(j, b), "always">> \in said[j]

\* No session goes on showing a job that has finished, also when two jobs of
\* one session overlap or the session is being deleted (create_agent_job names
\* the job before the job can end).
SessionShowsLive ==
    \A s \in Sessions : active[s] \in Jobs => stage[active[s]] \notin Finished

\* Nothing is run after a call that the user refused, or left unanswered when he
\* cancelled: not even a tool that needs no permission or that the request
\* allowed (break 'agent_loop).
NothingAfterRefusal ==
    \A j \in Jobs : \A c \in cards[j], b \in ran[j] : b > c => c \in ran[j]

\* A decision on the call at hand wakes the job, whenever it is made: the permit
\* of approval_notify is not lost between reading the decision and waiting.
AnswerHeeded ==
    \A j \in Jobs : pending[j] \in Decisions /\ stage[j] \in Waiting ~> stage[j] \notin Waiting

\* A cancelled job ends and leaves the registry, although nobody answers its
\* card, unless its tool or the provider never returns (run_agent_job).
CancelEnds == \A j \in Jobs : cancel[j] /\ j \in AI_JOBS ~> j \notin AI_JOBS
=============================================================================
