------------------------------ MODULE MCAgents ------------------------------
(***************************************************************************)
(* Constants and properties for what runs in the background for a client   *)
(* that watches: agent jobs, the events that they publish, and the         *)
(* debugging of scripts.  The three share no state (a stream of events is  *)
(* that of any job, see EventStream), so each is explored by itself: only  *)
(* one of them leaves its initial state.                                   *)
(***************************************************************************)
EXTENDS AgentJobs

CONSTANTS
    Sockets, Capacity, MaxEvents, MaxOpens,     \* EventStream
    Debugs, NoRun                               \* DebugRuns

ASSUME AgentsAssumption ==
    /\ Capacity \in Nat \ {0} /\ MaxEvents \in Nat \ {0} /\ MaxOpens \in Nat
    /\ NoRun \notin Debugs

VARIABLES
    life, events, sock, opens,
    step, process, output, temp, stuck, running_processes, killing

Stream == INSTANCE EventStream
Debug == INSTANCE DebugRuns

streamVars == <<life, events, sock, opens>>
debugVars == <<step, process, output, temp, stuck, running_processes, killing>>

\* Requests that bring no permission along, or the one to run commands.
SomeGrants == {{"command"}}

\* The provider of one job gives no call an id, that of the others each its own.
SomeUnnamed == {CHOOSE j \in Jobs : TRUE} \X Calls

AgentsInit == Init /\ Stream!Init /\ Debug!Init

JobsOnly == Stream!Init /\ Debug!Init /\ Next /\ UNCHANGED <<streamVars, debugVars>>

StreamOnly == Init /\ Debug!Init /\ Stream!Next /\ UNCHANGED <<vars, debugVars>>

DebugOnly == Init /\ Stream!Init /\ Debug!Next /\ UNCHANGED <<vars, streamVars>>

\* The fairness is that of each part; none of the fair steps is possible in an
\* initial state, so it asks nothing of the parts that are not explored.
AgentsSpec ==
    /\ AgentsInit
    /\ [][JobsOnly \/ StreamOnly \/ DebugOnly]_<<vars, streamVars, debugVars>>
    /\ \A j \in Jobs : WF_vars(JobStep(j))
    /\ \A k \in Sockets : WF_streamVars(Stream!SocketStep(k))
    /\ \A d \in Debugs : WF_debugVars(Debug!StreamStep(d)) /\ WF_debugVars(Debug!Killed(d))

\* The types of the state of the three.
AgentsTypeOK == TypeOK /\ Stream!TypeOK /\ Debug!TypeOK

\* See EventStream: no gap in the events that a client sees of its job.
NoGap == Stream!NoGap

\* See EventStream: no client is left behind its job for good.
EventsArrive == Stream!EventsArrive

\* See EventStream: what reaches a client keeps the contract of StreamContract.
KeepsStreamContract == Stream!KeepsStreamContract

\* See DebugRuns: a run whose output has ended leaves nothing behind.
NothingLeft == Debug!NothingLeft
=============================================================================
