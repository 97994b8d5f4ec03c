---------------------------- MODULE EventStream ----------------------------
(***************************************************************************)
(* api/ai.rs: how the events of agent jobs reach the web sockets of a      *)
(* user.  A job numbers its events and keeps them; a broadcast channel     *)
(* carries the events of all jobs to all sockets, and drops the oldest for *)
(* whoever reads too slowly; a socket replays the events of the job that   *)
(* it shows.  The client (ScriptAIWorkspace.tsx) ignores an event whose    *)
(* number is not above the last one that it has seen of the job.           *)
(*                                                                         *)
(* Left out: what the events say, the client's other jobs and sessions,    *)
(* and sends that fail, which count as the client going away.              *)
(***************************************************************************)
EXTENDS Naturals, Sequences

CONSTANTS
    Jobs, Sockets,
    NoJob,
    Capacity,    \* how many events the broadcast channel holds
    MaxEvents,   \* bound: the events of a job
    MaxOpens     \* bound: how often sockets are opened

VARIABLES
    life,     \* of each job: "none", "listed", "running" or "removed"
    events,   \* how many events it has published
    sock,     \* the web sockets, and what their clients have seen
    opens     \* counts openings of sockets

vars == <<life, events, sock, opens>>

Closed == [open |-> FALSE, current |-> NoJob, starting |-> NoJob, replay |-> FALSE,
           queue |-> <<>>, lagged |-> FALSE, last |-> 0, hole |-> FALSE]

Queued == [job : Jobs, seq : 1..MaxEvents]

SocketStates ==
    [open : BOOLEAN, current : Jobs \union {NoJob}, starting : Jobs \union {NoJob},
     replay : BOOLEAN, queue : Seq(Queued), lagged : BOOLEAN,
     last : 0..MaxEvents, hole : BOOLEAN]

\* The types of the state; a queue never holds more than the channel.
TypeOK ==
    /\ life \in [Jobs -> {"none", "listed", "running", "removed"}]
    /\ events \in [Jobs -> 0..MaxEvents]
    /\ opens \in 0..MaxOpens
    /\ sock \in [Sockets -> SocketStates]
    /\ \A k \in Sockets : Len(sock[k].queue) <= Capacity

Init ==
    /\ life = [j \in Jobs |-> "none"] /\ events = [j \in Jobs |-> 0]
    /\ sock = [k \in Sockets |-> Closed] /\ opens = 0

-----------------------------------------------------------------------------
\* The channel drops its oldest event when it is full; whoever had not read it
\* is told so (Lagged) before anything else.
Pushed(s, e) ==
    IF ~s.open THEN s
    ELSE [s EXCEPT !.queue = Append(IF Len(@) = Capacity THEN Tail(@) ELSE @, e),
                   !.lagged = @ \/ Len(s.queue) = Capacity]

\* Numbers the event, keeps it and broadcasts it, all under the lock of events.
publish_job(j) ==
    /\ life[j] = "running" /\ events[j] < MaxEvents
    /\ events' = [events EXCEPT ![j] = @ + 1]
    /\ sock' = [k \in Sockets |-> Pushed(sock[k], [job |-> j, seq |-> events[j] + 1])]
    /\ UNCHANGED <<life, opens>>

\* run_agent_job takes a job that has ended out of the registry.
Remove(j) ==
    /\ life[j] = "running"
    /\ life' = [life EXCEPT ![j] = "removed"]
    /\ UNCHANGED <<events, sock, opens>>

-----------------------------------------------------------------------------
Ready(k) == sock[k].open /\ sock[k].starting = NoJob /\ ~sock[k].replay
Keep(k, s) == sock' = [sock EXCEPT ![k] = s] /\ UNCHANGED <<events, opens>>
Listed(j) == j # NoJob /\ life[j] \in {"listed", "running"}

\* What the client keeps when its socket is gone: how far it had come with its job.
Left(s) == [s EXCEPT !.open = FALSE, !.queue = <<>>, !.lagged = FALSE]

Shows(s, j) == [s EXCEPT !.current = j, !.last = 0, !.hole = FALSE]
Asked(s, j) == [Shows(s, IF Listed(j) THEN j ELSE NoJob) EXCEPT !.replay = Listed(j)]

\* The handler creates a job, and does nothing else meanwhile.
Start(k, j) ==
    /\ Ready(k) /\ life[j] = "none"
    /\ life' = [life EXCEPT ![j] = "listed"]
    /\ Keep(k, [sock[k] EXCEPT !.starting = j])

\* job_started is published, the task is spawned, and the socket shows the job.
Started(k, j) ==
    /\ sock[k].starting = j /\ j # NoJob
    /\ life' = [life EXCEPT ![j] = "running"]
    /\ events' = [events EXCEPT ![j] = 1]
    /\ sock' = [i \in Sockets |->
                  LET s == Pushed(sock[i], [job |-> j, seq |-> 1])
                  IN  IF i = k THEN [Shows(s, j) EXCEPT !.starting = NoJob] ELSE s]
    /\ UNCHANGED opens

\* The handler subscribes to the channel before it looks for the job.  A page that is
\* loaded anew has seen nothing; one that connects again goes on with its job, and
\* keeps the number of the last event that it has seen.
Connect(k, j) ==
    /\ ~sock[k].open /\ opens < MaxOpens
    /\ opens' = opens + 1
    /\ \/ sock' = [sock EXCEPT ![k] = [Asked(Closed, j) EXCEPT !.open = TRUE]]
       \/ /\ j = sock[k].current /\ Listed(j)
          /\ sock' = [sock EXCEPT ![k] = [@ EXCEPT !.open = TRUE, !.replay = TRUE]]
    /\ UNCHANGED <<life, events>>

Subscribe(k, j) ==
    /\ Ready(k)
    /\ Keep(k, Asked(sock[k], j)) /\ UNCHANGED life

\* All events of the current job are sent; the client ignores what it has seen.
Replayed(s) == IF s.current = NoJob THEN s ELSE [s EXCEPT !.last = events[s.current]]

\* Variant: the events are replayed only to whoever has seen some already.
Replay_Known(k) ==
    /\ sock[k].replay
    /\ Keep(k, [(IF sock[k].last > 0 THEN Replayed(sock[k]) ELSE sock[k]) EXCEPT !.replay = FALSE])
    /\ UNCHANGED life

Replay(k) ==
    /\ sock[k].replay
    /\ Keep(k, [Replayed(sock[k]) EXCEPT !.replay = FALSE]) /\ UNCHANGED life

\* Variant: the socket goes on with what the channel still holds.
Lagged_Ignored(k) ==
    /\ Ready(k) /\ sock[k].lagged
    /\ Keep(k, [sock[k] EXCEPT !.lagged = FALSE]) /\ UNCHANGED life

Lagged(k) ==
    /\ Ready(k) /\ sock[k].lagged
    /\ Keep(k, [Replayed(sock[k]) EXCEPT !.lagged = FALSE]) /\ UNCHANGED life

\* Variant: the client takes every event of its job for a new one.
Deliver_Again(k) ==
    LET s == sock[k]  e == Head(s.queue) IN
    /\ Ready(k) /\ ~s.lagged /\ s.queue # <<>>
    /\ Keep(k, IF e.job = s.current
               THEN [s EXCEPT !.queue = Tail(@), !.last = e.seq,
                              !.hole = @ \/ e.seq > s.last + 1]
               ELSE [s EXCEPT !.queue = Tail(@)])
    /\ UNCHANGED life

Deliver(k) ==
    LET s == sock[k]  e == Head(s.queue) IN
    /\ Ready(k) /\ ~s.lagged /\ s.queue # <<>>
    /\ Keep(k, IF e.job = s.current /\ e.seq > s.last
               THEN [s EXCEPT !.queue = Tail(@), !.last = e.seq,
                              !.hole = @ \/ e.seq > s.last + 1]
               ELSE [s EXCEPT !.queue = Tail(@)])
    /\ UNCHANGED life

\* A handler that is creating a job finds its socket closed only afterwards.
Disconnect(k) ==
    /\ Ready(k)
    /\ Keep(k, Left(sock[k])) /\ UNCHANGED life

SocketStep(k) == Replay(k) \/ Lagged(k) \/ Deliver(k) \/ \E j \in Jobs : Started(k, j)

ClientStep(k) ==
    \/ \E j \in Jobs : Start(k, j)
    \/ \E j \in Jobs \union {NoJob} : Connect(k, j) \/ Subscribe(k, j)
    \/ Disconnect(k)

Next ==
    \/ \E j \in Jobs : publish_job(j) \/ Remove(j)
    \/ \E k \in Sockets : SocketStep(k) \/ ClientStep(k)

Spec == Init /\ [][Next]_vars

\* The runtime polls the handler of a socket; nobody has to publish or connect.
FairSpec == Spec /\ \A k \in Sockets : WF_vars(SocketStep(k))

-----------------------------------------------------------------------------
\* A client never sees a gap in the events of the job that its socket shows,
\* whatever the channel dropped, however replays and new events interleave, and also
\* when it connects again (handle_agent_ws subscribes before it replays, and replays
\* when it lagged).
NoGap == \A k \in Sockets : ~sock[k].hole

\* A connected client is never left behind for good: when its job publishes no more, it has
\* seen each event of the job that it stays with, also one that the channel had
\* dropped, and also after the job was removed: an approval card is not missed,
\* and nobody waits for a job that is done.
Behind(k) == sock[k].open /\ \E j \in Jobs : sock[k].current = j /\ sock[k].last < events[j]
EventsArrive == \A k \in Sockets : Behind(k) ~> ~Behind(k)

\* Replays, losses and late events together keep the contract: a client sees each
\* event once and in its order, although a replay sends again what the channel still
\* holds, and several jobs use one channel (publish_job, handle_agent_ws).
Contract == INSTANCE StreamContract
              WITH published <- events,
                   shown <- [k \in Sockets |-> sock[k].current],
                   seen <- [k \in Sockets |-> sock[k].last]
KeepsStreamContract == Contract!Spec
=============================================================================
