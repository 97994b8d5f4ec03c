--------------------------- MODULE AgentsProofs ----------------------------
(***************************************************************************)
(* Proofs about the parts that MCAgents explores beside AgentJobs, for any *)
(* jobs, sockets and bounds: what a client sees of the events of its job.  *)
(* A behaviour of MCAgents is one of EventStream for the state of that     *)
(* part, whatever the others do.                                           *)
(***************************************************************************)
EXTENDS MCAgents, AgentJobsProofs

\* A job has no events before it runs, and one socket at most is starting it.
LifeInv ==
    /\ \A j \in Jobs : life[j] \in {"none", "listed"} => events[j] = 0
    /\ \A k \in Sockets : sock[k].starting # NoJob =>
          life[sock[k].starting] = "listed" /\ ~sock[k].replay
    /\ \A k, l \in Sockets :
          sock[k].starting = sock[l].starting /\ sock[k].starting # NoJob => k = l

\* A queue has the events of each job in their order, and none that is not published.
InOrder(q, published) ==
    /\ \A p \in DOMAIN q : q[p].seq <= published[q[p].job]
    /\ \A p, r \in DOMAIN q : p < r /\ q[p].job = q[r].job => q[p].seq < q[r].seq

\* What its client has not seen of the job yet is still in the queue of a socket,
\* or about to be replayed.
CaughtUp(s, published) ==
    (s.open /\ ~s.lagged /\ ~s.replay /\ s.current # NoJob) =>
        \A n \in (s.last + 1)..published[s.current] :
            \E p \in DOMAIN s.queue : s.queue[p] = [job |-> s.current, seq |-> n]

SocketInv(s, published) == InOrder(s.queue, published) /\ CaughtUp(s, published) /\ ~s.hole

\* A socket that is closed has nothing left to do.
Shut(s) == ~s.open => s.queue = <<>> /\ s.starting = NoJob /\ ~s.replay

StreamInv ==
    /\ LifeInv
    /\ \A k \in Sockets : SocketInv(sock[k], events) /\ Shut(sock[k])

-----------------------------------------------------------------------------
(* Queues.                                                                 *)

LEMMA TailFacts ==
    ASSUME NEW q \in Seq(Stream!Queued), q # <<>>
    PROVE  /\ Tail(q) \in Seq(Stream!Queued) /\ Len(Tail(q)) = Len(q) - 1
           /\ 1 \in DOMAIN q /\ Head(q) = q[1] /\ Head(q) \in Stream!Queued
           /\ \A p \in DOMAIN Tail(q) : p + 1 \in DOMAIN q /\ Tail(q)[p] = q[p + 1]
           /\ \A p \in DOMAIN q : p # 1 => p - 1 \in DOMAIN Tail(q) /\ Tail(q)[p - 1] = q[p]
OBVIOUS

LEMMA TailInOrder ==
    ASSUME NEW q \in Seq(Stream!Queued), q # <<>>, NEW published, InOrder(q, published)
    PROVE  InOrder(Tail(q), published)
<1>1. \A p \in DOMAIN Tail(q) : p \in Nat /\ p + 1 \in DOMAIN q /\ Tail(q)[p] = q[p + 1]
  BY TailFacts
<1> QED BY SMTT(20), <1>1 DEF InOrder

LEMMA AppendFacts ==
    ASSUME NEW q \in Seq(Stream!Queued), NEW e \in Stream!Queued
    PROVE  /\ Append(q, e) \in Seq(Stream!Queued) /\ Len(Append(q, e)) = Len(q) + 1
           /\ DOMAIN Append(q, e) = DOMAIN q \union {Len(q) + 1}
           /\ \A p \in DOMAIN q : p < Len(q) + 1 /\ p \in Nat /\ Append(q, e)[p] = q[p]
           /\ Append(q, e)[Len(q) + 1] = e /\ Len(q) + 1 \in Nat
OBVIOUS

\* The next event of a job goes to the end.
LEMMA AppendInOrder ==
    ASSUME NEW q \in Seq(Stream!Queued), NEW published \in [Jobs -> Nat],
           InOrder(q, published), NEW j \in Jobs,
           [job |-> j, seq |-> published[j] + 1] \in Stream!Queued
    PROVE  InOrder(Append(q, [job |-> j, seq |-> published[j] + 1]),
                   [published EXCEPT ![j] = @ + 1])
<1> DEFINE e == [job |-> j, seq |-> published[j] + 1]
           q2 == Append(q, e)
           more == [published EXCEPT ![j] = @ + 1]
<1>1. /\ DOMAIN q2 = DOMAIN q \union {Len(q) + 1}
      /\ \A p \in DOMAIN q : p < Len(q) + 1 /\ p \in Nat /\ q2[p] = q[p]
      /\ q2[Len(q) + 1] = e /\ Len(q) + 1 \in Nat
  BY AppendFacts
<1>2. \A p \in DOMAIN q : q[p].job \in Jobs /\ q[p].seq \in Nat
  <2>1. \A p \in DOMAIN q : q[p] \in Stream!Queued
    OBVIOUS
  <2> QED BY <2>1, AgentsAssumption DEF Stream!Queued
<1>3. ASSUME NEW p \in DOMAIN q2 PROVE q2[p].seq <= more[q2[p].job]
  BY <1>1, <1>2 DEF InOrder
<1>4. ASSUME NEW p \in DOMAIN q2, NEW r \in DOMAIN q2, p < r, q2[p].job = q2[r].job
      PROVE  q2[p].seq < q2[r].seq
  BY <1>1, <1>2, <1>4 DEF InOrder
<1> QED BY <1>3, <1>4 DEF InOrder
-----------------------------------------------------------------------------
(* What the channel does to a socket.                                      *)

\* An event of j is published: whoever is not told of a loss has it in its queue.
LEMMA Publish ==
    ASSUME NEW s \in Stream!SocketStates, NEW published \in [Jobs -> Nat], SocketInv(s, published),
           Len(s.queue) <= Capacity,
           NEW j \in Jobs, [job |-> j, seq |-> published[j] + 1] \in Stream!Queued
    PROVE  LET t == Stream!Pushed(s, [job |-> j, seq |-> published[j] + 1]) IN
           /\ t \in Stream!SocketStates /\ Len(t.queue) <= Capacity
           /\ s.open => SocketInv(t, [published EXCEPT ![j] = @ + 1])
           /\ ~s.open => t = s
           /\ t.starting = s.starting /\ t.open = s.open /\ t.replay = s.replay
           /\ s.open /\ ~t.lagged =>
                 \E p \in DOMAIN t.queue : t.queue[p] = [job |-> j, seq |-> published[j] + 1]
<1> DEFINE e == [job |-> j, seq |-> published[j] + 1]
           q == s.queue
           kept == IF Len(q) = Capacity THEN Tail(q) ELSE q
           t == Stream!Pushed(s, e)
           more == [published EXCEPT ![j] = @ + 1]
<1>1. CASE ~s.open
  BY <1>1 DEF Stream!Pushed
<1>2. CASE s.open
  <2>1. q \in Seq(Stream!Queued) /\ Len(q) \in Nat
    BY DEF Stream!SocketStates
  <2>2. Len(q) = Capacity => q # <<>>
    BY <2>1, AgentsAssumption
  <2>3. /\ kept \in Seq(Stream!Queued) /\ InOrder(kept, published)
        /\ Len(kept) + 1 <= Capacity
    BY <2>1, <2>2, TailFacts, TailInOrder, AgentsAssumption DEF SocketInv
  <2>4. t = [s EXCEPT !.queue = Append(kept, e), !.lagged = @ \/ Len(q) = Capacity]
    BY <1>2 DEF Stream!Pushed
  <2> HIDE DEF kept
  <2>5. /\ Append(kept, e) \in Seq(Stream!Queued) /\ Len(Append(kept, e)) = Len(kept) + 1
        /\ DOMAIN Append(kept, e) = DOMAIN kept \union {Len(kept) + 1}
        /\ \A p \in DOMAIN kept : Append(kept, e)[p] = kept[p]
        /\ Append(kept, e)[Len(kept) + 1] = e
    BY <2>3, AppendFacts
  <2>6. InOrder(Append(kept, e), more)
    BY <2>3, AppendInOrder
  <2> HIDE DEF t, e
  <2>7. /\ t \in Stream!SocketStates /\ t.queue = Append(kept, e)
        /\ t.lagged = (s.lagged \/ Len(q) = Capacity)
        /\ t.starting = s.starting /\ t.open = s.open /\ t.current = s.current
        /\ t.last = s.last /\ t.hole = s.hole /\ t.replay = s.replay
    BY <2>4, <2>5 DEF Stream!SocketStates
  <2>8. CaughtUp(t, more)
    <3> SUFFICES ASSUME ~t.lagged, ~t.replay, t.current # NoJob,
                        NEW n \in (t.last + 1)..more[t.current]
                 PROVE  \E p \in DOMAIN t.queue : t.queue[p] = [job |-> t.current, seq |-> n]
      BY DEF CaughtUp
    <3>1. kept = q /\ s.current \in Jobs /\ s.last \in Nat
      BY <2>7, AgentsAssumption DEF kept, Stream!SocketStates
    <3>2. CASE n \in (s.last + 1)..published[s.current]
      <4>1. PICK p \in DOMAIN q : q[p] = [job |-> s.current, seq |-> n]
        BY <1>2, <2>7, <3>2 DEF SocketInv, CaughtUp
      <4> QED BY <2>5, <2>7, <3>1, <4>1
    <3>3. CASE n \notin (s.last + 1)..published[s.current]
      <4>1. s.current = j /\ n = published[j] + 1
        BY <2>7, <3>1, <3>3
      <4> QED BY <2>5, <2>7, <4>1 DEF e
    <3> QED BY <3>2, <3>3
  <2> QED BY <1>2, <2>3, <2>5, <2>6, <2>7, <2>8 DEF SocketInv, e, t
<1> QED BY <1>1, <1>2
-----------------------------------------------------------------------------
(* The steps.                                                              *)

\* The sockets after a step that changes one of them.
LEMMA OneSocket ==
    ASSUME Stream!TypeOK, StreamInv, NEW k \in Sockets, NEW s, Stream!Keep(k, s),
           s \in Stream!SocketStates, Len(s.queue) <= Capacity, SocketInv(s, events),
           Shut(s)
    PROVE  /\ sock' \in [Sockets -> Stream!SocketStates]
           /\ \A l \in Sockets : Len(sock'[l].queue) <= Capacity
           /\ \A l \in Sockets : SocketInv(sock[l], events)'
                                 /\ Shut(sock'[l])
           /\ sock'[k] = s /\ \A l \in Sockets \ {k} : sock'[l] = sock[l]
           /\ UNCHANGED <<events, opens>>
<1>1. /\ sock' = [sock EXCEPT ![k] = s] /\ events' = events /\ opens' = opens
      /\ sock \in [Sockets -> Stream!SocketStates]
  BY DEF Stream!Keep, Stream!TypeOK
<1>2. \A l \in Sockets : sock'[l] = IF l = k THEN s ELSE sock[l]
  BY <1>1
<1>3. \A l \in Sockets : SocketInv(sock'[l], events)
  BY <1>2 DEF StreamInv
<1>4. \A l \in Sockets : Len(sock'[l].queue) <= Capacity
  BY <1>2 DEF Stream!TypeOK
<1>5. \A l \in Sockets : SocketInv(sock[l], events)'
  BY <1>1, <1>3 DEF SocketInv, InOrder, CaughtUp
<1> QED BY <1>1, <1>2, <1>4, <1>5 DEF StreamInv

\* A socket that has just been told of all events of its job.
LEMMA Caught ==
    ASSUME Stream!TypeOK, NEW s \in Stream!SocketStates, SocketInv(s, events)
    PROVE  LET t == Stream!Replayed(s) IN
           /\ t \in Stream!SocketStates /\ SocketInv(t, events)
           /\ t.queue = s.queue /\ t.starting = s.starting /\ t.open = s.open
           /\ [t EXCEPT !.replay = FALSE] \in Stream!SocketStates
           /\ SocketInv([t EXCEPT !.replay = FALSE], events)
           /\ [t EXCEPT !.lagged = FALSE] \in Stream!SocketStates
           /\ SocketInv([t EXCEPT !.lagged = FALSE], events)
<1> DEFINE t == Stream!Replayed(s)
<1>1. CASE s.current = NoJob
  BY <1>1 DEF Stream!Replayed, SocketInv, CaughtUp, InOrder, Stream!SocketStates
<1>2. CASE s.current # NoJob
  <2>1. s.current \in Jobs /\ events[s.current] \in 0..MaxEvents
    BY <1>2 DEF Stream!SocketStates, Stream!TypeOK
  <2>2. t = [s EXCEPT !.last = events[s.current]]
    BY <1>2 DEF Stream!Replayed
  <2>3. (events[s.current] + 1)..events[s.current] = {}
    BY <2>1, AgentsAssumption
  <2> HIDE DEF t
  <2>4. /\ t \in Stream!SocketStates /\ t.last = events[s.current]
        /\ t.queue = s.queue /\ t.starting = s.starting /\ t.open = s.open
        /\ t.current = s.current /\ t.hole = s.hole
    BY <2>1, <2>2 DEF Stream!SocketStates
  <2>5. ASSUME NEW u, u \in {t, [t EXCEPT !.replay = FALSE], [t EXCEPT !.lagged = FALSE]}
        PROVE  u \in Stream!SocketStates /\ SocketInv(u, events)
    <3>1. /\ u \in Stream!SocketStates /\ u.last = t.last /\ u.queue = t.queue
          /\ u.current = t.current /\ u.hole = t.hole
      BY <2>4, <2>5 DEF Stream!SocketStates
    <3> QED BY <2>3, <2>4, <3>1 DEF SocketInv, CaughtUp, InOrder
  <2> QED BY <2>4, <2>5 DEF t
<1> QED BY <1>1, <1>2

\* Events of j are published to all sockets.
LEMMA Broadcast ==
    ASSUME Stream!TypeOK, StreamInv, NEW j \in Jobs, events[j] < MaxEvents,
           events' = [events EXCEPT ![j] = @ + 1], NEW k \in Sockets
    PROVE  LET t == Stream!Pushed(sock[k], [job |-> j, seq |-> events[j] + 1]) IN
           /\ t \in Stream!SocketStates /\ Len(t.queue) <= Capacity
           /\ SocketInv(t, events') /\ Shut(t)
           /\ t.starting = sock[k].starting /\ t.open = sock[k].open
           /\ t.replay = sock[k].replay
           /\ t.open /\ ~t.lagged =>
                 \E p \in DOMAIN t.queue : t.queue[p] = [job |-> j, seq |-> events[j] + 1]
<1> DEFINE e == [job |-> j, seq |-> events[j] + 1]
           t == Stream!Pushed(sock[k], e)
<1>1. events \in [Jobs -> Nat] /\ e \in Stream!Queued
  BY AgentsAssumption DEF Stream!TypeOK, Stream!Queued
<1>2. /\ sock[k] \in Stream!SocketStates /\ Len(sock[k].queue) <= Capacity
      /\ SocketInv(sock[k], events) /\ Shut(sock[k])
  BY DEF Stream!TypeOK, StreamInv
<1>3. /\ t \in Stream!SocketStates /\ Len(t.queue) <= Capacity
      /\ sock[k].open => SocketInv(t, events')
      /\ ~sock[k].open => t = sock[k]
      /\ t.starting = sock[k].starting /\ t.open = sock[k].open
      /\ t.replay = sock[k].replay
      /\ sock[k].open /\ ~t.lagged => \E p \in DOMAIN t.queue : t.queue[p] = e
  <2>1. events' = [events EXCEPT ![j] = @ + 1]
    OBVIOUS
  <2> DEFINE s == sock[k]
  <2> HIDE DEF s, t
  <2>2. s \in Stream!SocketStates /\ SocketInv(s, events) /\ Len(s.queue) <= Capacity
    BY <1>2 DEF s
  <2>3. t = Stream!Pushed(s, [job |-> j, seq |-> events[j] + 1])
    BY DEF s, t
  <2> DEFINE u == Stream!Pushed(s, [job |-> j, seq |-> events[j] + 1])
  <2>4. /\ u \in Stream!SocketStates /\ Len(u.queue) <= Capacity
        /\ s.open => SocketInv(u, [events EXCEPT ![j] = @ + 1])
        /\ ~s.open => u = s
        /\ u.starting = s.starting /\ u.open = s.open /\ u.replay = s.replay
        /\ s.open /\ ~u.lagged =>
              \E p \in DOMAIN u.queue : u.queue[p] = [job |-> j, seq |-> events[j] + 1]
    BY <1>1, <2>2, Publish
  <2> HIDE DEF u
  <2> QED BY <2>1, <2>3, <2>4 DEF s, u
<1> HIDE DEF t
<1>4. ~sock[k].open => SocketInv(sock[k], events')
  BY <1>2 DEF SocketInv, InOrder, CaughtUp, Shut
<1>5. Shut(t)
  BY <1>2, <1>3 DEF Shut
<1> QED BY <1>2, <1>3, <1>4, <1>5 DEF t

LEMMA StreamTypes ==
    ASSUME Stream!TypeOK, StreamInv
    PROVE  /\ \A k \in Sockets : /\ sock[k] \in Stream!SocketStates
                                 /\ Len(sock[k].queue) <= Capacity
                                 /\ SocketInv(sock[k], events)
           /\ \A j \in Jobs : events[j] \in Nat
           /\ NoJob \notin Jobs
BY AgentAssumption DEF Stream!TypeOK, StreamInv

LEMMA PublishStep ==
    ASSUME Stream!TypeOK, StreamInv, NEW j \in Jobs, Stream!publish_job(j)
    PROVE  Stream!TypeOK' /\ StreamInv'
<1>1. /\ life[j] = "running" /\ events[j] < MaxEvents
      /\ events' = [events EXCEPT ![j] = @ + 1]
      /\ \A k \in Sockets :
            sock'[k] = Stream!Pushed(sock[k], [job |-> j, seq |-> events[j] + 1])
      /\ sock' \in [Sockets -> Stream!SocketStates]
      /\ UNCHANGED <<life, opens>>
  <2>1. sock' = [k \in Sockets |->
                    Stream!Pushed(sock[k], [job |-> j, seq |-> events[j] + 1])]
    BY DEF Stream!publish_job
  <2>2. \A k \in Sockets :
            Stream!Pushed(sock[k], [job |-> j, seq |-> events[j] + 1]) \in Stream!SocketStates
    BY Broadcast DEF Stream!publish_job
  <2> QED BY <2>1, <2>2 DEF Stream!publish_job
<1>2. ASSUME NEW k \in Sockets
      PROVE  /\ Len(sock'[k].queue) <= Capacity /\ SocketInv(sock'[k], events')
             /\ Shut(sock'[k])
             /\ sock'[k].starting = sock[k].starting /\ sock'[k].replay = sock[k].replay
  BY <1>1, Broadcast
<1>3. Stream!TypeOK'
  BY <1>1, <1>2, AgentsAssumption DEF Stream!TypeOK
<1>4. LifeInv'
  <2>1. LifeInv /\ events \in [Jobs -> 0..MaxEvents]
    BY DEF StreamInv, Stream!TypeOK
  <2>2. \A i \in Jobs : life'[i] \in {"none", "listed"} => events'[i] = 0
    BY <1>1, <2>1 DEF LifeInv
  <2> QED BY <1>1, <1>2, <2>1, <2>2 DEF LifeInv
<1> QED BY <1>2, <1>3, <1>4 DEF StreamInv

LEMMA RemoveStep ==
    ASSUME Stream!TypeOK, StreamInv, NEW j \in Jobs, Stream!Remove(j)
    PROVE  Stream!TypeOK' /\ StreamInv'
<1>1. life' = [life EXCEPT ![j] = "removed"] /\ life[j] = "running"
      /\ UNCHANGED <<events, sock, opens>>
  BY DEF Stream!Remove
<1>2. Stream!TypeOK'
  BY <1>1 DEF Stream!TypeOK
<1>3. \A k \in Sockets : SocketInv(sock[k], events)'
  BY <1>1 DEF StreamInv, SocketInv, InOrder, CaughtUp
<1>4. LifeInv'
  BY <1>1 DEF LifeInv, StreamInv, Stream!TypeOK
<1> QED BY <1>1, <1>2, <1>3, <1>4 DEF StreamInv

\* The socket that creates the job shows it from its first event on.
LEMMA StartedStep ==
    ASSUME Stream!TypeOK, StreamInv, NEW k \in Sockets, NEW j \in Jobs, Stream!Started(k, j)
    PROVE  Stream!TypeOK' /\ StreamInv'
<1> DEFINE e == [job |-> j, seq |-> events[j] + 1]
           pushed(l) == Stream!Pushed(sock[l], e)
           shown == [Stream!Shows(pushed(k), j) EXCEPT !.starting = NoJob]
<1>1. /\ sock[k].starting = j /\ j # NoJob /\ life[j] = "listed" /\ events[j] = 0
      /\ events[j] < MaxEvents
  BY AgentsAssumption DEF Stream!Started, StreamInv, LifeInv
<1>2. events' = [events EXCEPT ![j] = @ + 1]
  BY <1>1 DEF Stream!Started, Stream!TypeOK
<1>3. ASSUME NEW l \in Sockets
      PROVE  /\ pushed(l) \in Stream!SocketStates /\ Len(pushed(l).queue) <= Capacity
             /\ SocketInv(pushed(l), events') /\ Shut(pushed(l))
             /\ pushed(l).starting = sock[l].starting /\ pushed(l).open = sock[l].open
             /\ pushed(l).replay = sock[l].replay
             /\ pushed(l).open /\ ~pushed(l).lagged =>
                   \E p \in DOMAIN pushed(l).queue : pushed(l).queue[p] = e
  BY <1>1, <1>2, Broadcast
<1>4. sock' = [l \in Sockets |-> IF l = k THEN shown ELSE pushed(l)]
  <2>1. e = [job |-> j, seq |-> 1]
    BY <1>1
  <2> QED BY <2>1 DEF Stream!Started
<1>5. sock[k].open
  BY <1>1, StreamTypes DEF StreamInv, Shut
<1>6. e = [job |-> j, seq |-> 1]
  BY <1>1
<1> HIDE DEF pushed, e
<1>7. /\ shown \in Stream!SocketStates /\ shown.queue = pushed(k).queue
      /\ shown.open = pushed(k).open /\ shown.lagged = pushed(k).lagged
      /\ shown.current = j /\ shown.last = 0 /\ shown.hole = FALSE /\ shown.starting = NoJob
  <2> DEFINE s == pushed(k)
             t == Stream!Shows(s, j)
  <2>1. s \in Stream!SocketStates
    BY <1>3
  <2> HIDE DEF s
  <2>2. /\ t \in Stream!SocketStates /\ t.queue = s.queue
        /\ t.open = s.open /\ t.lagged = s.lagged
        /\ t.current = j /\ t.last = 0 /\ t.hole = FALSE
    <3>1. 0 \in 0..MaxEvents
      BY AgentsAssumption
    <3>2. t = [s EXCEPT !.current = j, !.last = 0, !.hole = FALSE]
      BY DEF Stream!Shows
    <3> HIDE DEF t
    <3> QED BY <2>1, <3>1, <3>2 DEF Stream!SocketStates
  <2>3. shown = [t EXCEPT !.starting = NoJob]
    BY DEF s
  <2> HIDE DEF t, shown
  <2> QED BY <2>2, <2>3 DEF Stream!SocketStates, s
<1> HIDE DEF shown
<1>8. SocketInv(shown, events')
  <2>1. CaughtUp(shown, events')
    <3>1. events'[j] = 1
      BY <1>1, <1>2 DEF Stream!TypeOK
    <3> QED BY <1>3, <1>5, <1>6, <1>7, <3>1 DEF CaughtUp
  <2> QED BY <1>3, <1>7, <2>1 DEF SocketInv
<1>9. /\ life' = [life EXCEPT ![j] = "running"] /\ opens' = opens
  BY DEF Stream!Started
<1>10. /\ sock' \in [Sockets -> Stream!SocketStates]
       /\ \A l \in Sockets : /\ Len(sock'[l].queue) <= Capacity
                             /\ SocketInv(sock'[l], events')
                             /\ Shut(sock'[l])
       /\ sock'[k].starting = NoJob
       /\ \A l \in Sockets \ {k} : /\ sock'[l].starting = sock[l].starting
                                    /\ sock'[l].replay = sock[l].replay
  BY <1>3, <1>4, <1>5, <1>7, <1>8 DEF Shut
<1>11. Stream!TypeOK'
  BY <1>1, <1>2, <1>9, <1>10, AgentsAssumption DEF Stream!TypeOK
<1>12. LifeInv'
  <2>1. /\ LifeInv /\ life \in [Jobs -> {"none", "listed", "running", "removed"}]
        /\ events \in [Jobs -> 0..MaxEvents]
        /\ \A l \in Sockets : sock[l].starting \in Jobs \union {NoJob}
    BY StreamTypes DEF StreamInv, Stream!TypeOK, Stream!SocketStates
  <2>2. \A i \in Jobs : life'[i] \in {"none", "listed"} => events'[i] = 0
    BY <1>2, <1>9, <2>1 DEF LifeInv
  <2>3. ASSUME NEW l \in Sockets, sock'[l].starting # NoJob
        PROVE  life'[sock'[l].starting] = "listed" /\ ~sock'[l].replay
    BY <1>1, <1>9, <1>10, <2>1, <2>3 DEF LifeInv
  <2>4. \A l, m \in Sockets :
            sock'[l].starting = sock'[m].starting /\ sock'[l].starting # NoJob => l = m
    BY <1>10, <2>1 DEF LifeInv
  <2> QED BY <2>2, <2>3, <2>4 DEF LifeInv
<1> QED BY <1>10, <1>11, <1>12 DEF StreamInv
\* A socket that goes on by itself, and starts no job.
LEMMA Continues ==
    ASSUME Stream!TypeOK, StreamInv, NEW k \in Sockets, NEW s, sock' = [sock EXCEPT ![k] = s],
           s \in Stream!SocketStates, Len(s.queue) <= Capacity, SocketInv(s, events),
           Shut(s), s.starting = NoJob,
           UNCHANGED <<life, events>>, opens' \in 0..MaxOpens
    PROVE  Stream!TypeOK' /\ StreamInv'
<1>1. sock \in [Sockets -> Stream!SocketStates]
  BY DEF Stream!TypeOK
<1>2. \A l \in Sockets : sock'[l] = IF l = k THEN s ELSE sock[l]
  BY <1>1
<1>3. \A l \in Sockets : /\ SocketInv(sock'[l], events) /\ Len(sock'[l].queue) <= Capacity
                         /\ Shut(sock'[l])
  BY <1>2 DEF StreamInv, Stream!TypeOK
<1>4. \A l \in Sockets : SocketInv(sock[l], events)'
  BY <1>3 DEF SocketInv, InOrder, CaughtUp
<1>5. sock' \in [Sockets -> Stream!SocketStates]
  BY <1>1
<1>6. Stream!TypeOK'
  BY <1>3, <1>5 DEF Stream!TypeOK
<1>7. LifeInv'
  BY <1>2 DEF LifeInv, StreamInv
<1> QED BY <1>3, <1>4, <1>6, <1>7 DEF StreamInv

LEMMA StartStep ==
    ASSUME Stream!TypeOK, StreamInv, NEW k \in Sockets, NEW j \in Jobs, Stream!Start(k, j)
    PROVE  Stream!TypeOK' /\ StreamInv'
<1> DEFINE s == [sock[k] EXCEPT !.starting = j]
<1>1. /\ sock[k].open /\ sock[k].starting = NoJob /\ ~sock[k].replay /\ life[j] = "none"
      /\ life' = [life EXCEPT ![j] = "listed"] /\ Stream!Keep(k, s)
  BY DEF Stream!Start, Stream!Ready
<1>2. /\ s \in Stream!SocketStates /\ s.starting = j /\ s.queue = sock[k].queue /\ s.open
      /\ ~s.replay /\ Shut(s)
      /\ Len(s.queue) <= Capacity /\ SocketInv(s, events)
  BY <1>1, StreamTypes DEF Stream!SocketStates, SocketInv, CaughtUp, InOrder, Shut
<1> HIDE DEF s
<1>3. /\ sock' \in [Sockets -> Stream!SocketStates]
      /\ \A l \in Sockets : Len(sock'[l].queue) <= Capacity
      /\ \A l \in Sockets : SocketInv(sock[l], events)'
                            /\ Shut(sock'[l])
      /\ sock'[k] = s /\ \A l \in Sockets \ {k} : sock'[l] = sock[l]
      /\ UNCHANGED <<events, opens>>
  BY <1>1, <1>2, OneSocket
<1>4. Stream!TypeOK'
  BY <1>1, <1>3 DEF Stream!TypeOK
<1>5. LifeInv'
  <2>1. LifeInv /\ life \in [Jobs -> {"none", "listed", "running", "removed"}]
        /\ \A l \in Sockets : sock[l].starting \in Jobs \union {NoJob}
    BY StreamTypes DEF StreamInv, Stream!TypeOK, Stream!SocketStates
  <2>2. \A i \in Jobs : life'[i] \in {"none", "listed"} => events'[i] = 0
    BY <1>1, <1>3, <2>1 DEF LifeInv
  <2>3. ASSUME NEW l \in Sockets, sock'[l].starting # NoJob
        PROVE  life'[sock'[l].starting] = "listed" /\ ~sock'[l].replay
    BY <1>1, <1>2, <1>3, <2>1, <2>3 DEF LifeInv
  <2>4. \A l \in Sockets \ {k} : sock'[l].starting # j
    BY <1>1, <1>3, <2>1, StreamTypes DEF LifeInv
  <2>5. \A l, m \in Sockets :
            sock'[l].starting = sock'[m].starting /\ sock'[l].starting # NoJob => l = m
    BY <1>2, <1>3, <2>1, <2>4 DEF LifeInv
  <2> QED BY <2>2, <2>3, <2>5 DEF LifeInv
<1> QED BY <1>3, <1>4, <1>5 DEF StreamInv

\* Whoever asks for a job that is there is owed its events.
LEMMA Asking ==
    ASSUME Stream!TypeOK, NEW s \in Stream!SocketStates, SocketInv(s, events),
           NEW j \in Jobs \union {NoJob}
    PROVE  LET t == Stream!Asked(s, j) IN
           /\ t \in Stream!SocketStates /\ SocketInv(t, events)
           /\ t.queue = s.queue /\ t.starting = s.starting /\ t.open = s.open
           /\ t.current # NoJob => t.replay
<1> DEFINE shown == Stream!Shows(s, IF Stream!Listed(j) THEN j ELSE NoJob)
           t == Stream!Asked(s, j)
<1>1. 0 \in 0..MaxEvents /\ Stream!Listed(j) \in BOOLEAN
  BY AgentsAssumption DEF Stream!Listed
<1>2. /\ shown \in Stream!SocketStates
      /\ shown.current = (IF Stream!Listed(j) THEN j ELSE NoJob)
      /\ shown.queue = s.queue /\ shown.starting = s.starting /\ shown.open = s.open
      /\ shown.hole = FALSE
  <2> DEFINE i == IF Stream!Listed(j) THEN j ELSE NoJob
  <2>1. shown = [s EXCEPT !.current = i, !.last = 0, !.hole = FALSE] /\ i \in Jobs \union {NoJob}
    BY DEF Stream!Shows
  <2> HIDE DEF i, shown
  <2>2. /\ shown \in Stream!SocketStates /\ shown.current = i
        /\ shown.queue = s.queue /\ shown.starting = s.starting /\ shown.open = s.open
        /\ shown.hole = FALSE
    BY <1>1, <2>1 DEF Stream!SocketStates
  <2> QED BY <2>2 DEF i
<1>3. t = [shown EXCEPT !.replay = Stream!Listed(j)]
  BY DEF Stream!Asked
<1> HIDE DEF shown, t
<1>4. /\ t \in Stream!SocketStates /\ t.replay = Stream!Listed(j) /\ t.current = shown.current
      /\ t.queue = s.queue /\ t.starting = s.starting /\ t.open = s.open /\ t.hole = FALSE
  BY <1>1, <1>2, <1>3 DEF Stream!SocketStates
<1>5. SocketInv(t, events)
  BY <1>2, <1>4 DEF SocketInv, CaughtUp
<1> QED BY <1>2, <1>4, <1>5 DEF t

LEMMA ConnectStep ==
    ASSUME Stream!TypeOK, StreamInv, NEW k \in Sockets, NEW j \in Jobs \union {NoJob},
           Stream!Connect(k, j)
    PROVE  Stream!TypeOK' /\ StreamInv'
<1> DEFINE t == Stream!Asked(Stream!Closed, j)
           loaded == [t EXCEPT !.open = TRUE]
           back == [sock[k] EXCEPT !.open = TRUE, !.replay = TRUE]
<1>1. /\ ~sock[k].open /\ UNCHANGED <<life, events>>
      /\ sock' = [sock EXCEPT ![k] = loaded] \/ sock' = [sock EXCEPT ![k] = back]
      /\ opens < MaxOpens /\ opens' = opens + 1
  BY DEF Stream!Connect
<1>2. Stream!Closed \in Stream!SocketStates /\ SocketInv(Stream!Closed, events)
  BY AgentsAssumption DEF Stream!Closed, Stream!SocketStates, SocketInv, CaughtUp, InOrder
<1>3. /\ t \in Stream!SocketStates /\ SocketInv(t, events)
      /\ t.queue = <<>> /\ t.starting = NoJob /\ (t.current # NoJob => t.replay)
  BY <1>2, Asking DEF Stream!Closed
<1> HIDE DEF t
<1>4. /\ loaded \in Stream!SocketStates /\ SocketInv(loaded, events) /\ loaded.open
      /\ loaded.queue = <<>> /\ loaded.starting = NoJob
  BY <1>3 DEF Stream!SocketStates, SocketInv, CaughtUp, InOrder
<1>5. /\ back \in Stream!SocketStates /\ SocketInv(back, events) /\ back.open
      /\ back.queue = <<>> /\ back.starting = NoJob
  <2>1. /\ sock[k] \in Stream!SocketStates /\ SocketInv(sock[k], events)
        /\ sock[k].queue = <<>> /\ sock[k].starting = NoJob
    BY <1>1, StreamTypes DEF StreamInv, Shut
  <2> QED BY <2>1 DEF Stream!SocketStates, SocketInv, CaughtUp, InOrder
<1> HIDE DEF loaded, back
<1>6. PICK s \in {loaded, back} : sock' = [sock EXCEPT ![k] = s]
  BY <1>1
<1>7. Len(s.queue) <= Capacity /\ opens' \in 0..MaxOpens
  BY <1>1, <1>4, <1>5, AgentsAssumption DEF Stream!TypeOK
<1>8. Shut(s)
  BY <1>4, <1>5 DEF Shut
<1> QED BY <1>1, <1>4, <1>5, <1>6, <1>7, <1>8, Continues

\* A socket that was told of everything, or asked for another job, or was closed.
LEMMA RenewStep ==
    ASSUME Stream!TypeOK, StreamInv, NEW k \in Sockets,
           \/ Stream!Replay(k) \/ Stream!Lagged(k) \/ Stream!Disconnect(k)
           \/ \E j \in Jobs \union {NoJob} : Stream!Subscribe(k, j)
    PROVE  Stream!TypeOK' /\ StreamInv'
<1>1. /\ sock[k] \in Stream!SocketStates /\ Len(sock[k].queue) <= Capacity
      /\ SocketInv(sock[k], events) /\ Shut(sock[k])
      /\ opens \in 0..MaxOpens
  BY StreamTypes DEF Stream!TypeOK, StreamInv
<1>2. CASE Stream!Replay(k)
  <2> DEFINE t == Stream!Replayed(sock[k])
             s == [t EXCEPT !.replay = FALSE]
  <2>1. /\ sock[k].replay /\ sock' = [sock EXCEPT ![k] = s]
        /\ UNCHANGED <<life, events, opens>>
    BY <1>2 DEF Stream!Replay, Stream!Keep
  <2>2. sock[k].open
    BY <1>1, <2>1 DEF Shut
  <2>3. /\ t \in Stream!SocketStates /\ s \in Stream!SocketStates /\ SocketInv(s, events)
        /\ t.queue = sock[k].queue /\ t.starting = sock[k].starting /\ t.open = sock[k].open
    BY <1>1, Caught
  <2> HIDE DEF t
  <2>4. s.queue = sock[k].queue /\ s.starting = sock[k].starting /\ s.open = sock[k].open
    BY <2>3 DEF Stream!SocketStates
  <2>5. sock[k].starting = NoJob
    BY <2>1 DEF StreamInv, LifeInv
  <2> HIDE DEF s
  <2> QED BY <1>1, <2>1, <2>2, <2>3, <2>4, <2>5, Continues DEF Shut
<1>3. CASE Stream!Lagged(k)
  <2> DEFINE t == Stream!Replayed(sock[k])
             s == [t EXCEPT !.lagged = FALSE]
  <2>1. /\ sock[k].open /\ sock[k].starting = NoJob /\ sock' = [sock EXCEPT ![k] = s]
        /\ UNCHANGED <<life, events, opens>>
    BY <1>3 DEF Stream!Lagged, Stream!Keep, Stream!Ready
  <2>2. /\ t \in Stream!SocketStates /\ s \in Stream!SocketStates /\ SocketInv(s, events)
        /\ t.queue = sock[k].queue /\ t.starting = sock[k].starting /\ t.open = sock[k].open
    BY <1>1, Caught
  <2> HIDE DEF t
  <2>3. s.queue = sock[k].queue /\ s.starting = sock[k].starting /\ s.open = sock[k].open
    BY <2>2 DEF Stream!SocketStates
  <2> HIDE DEF s
  <2> QED BY <1>1, <2>1, <2>2, <2>3, Continues DEF Shut
<1>4. CASE Stream!Disconnect(k)
  <2> DEFINE s == Stream!Left(sock[k])
  <2>1. /\ sock' = [sock EXCEPT ![k] = s] /\ UNCHANGED <<life, events, opens>>
    BY <1>4 DEF Stream!Disconnect, Stream!Keep
  <2>2. /\ s \in Stream!SocketStates /\ SocketInv(s, events)
        /\ Len(s.queue) <= Capacity /\ s.starting = NoJob /\ Shut(s)
    <3>1. /\ s \in Stream!SocketStates /\ ~s.open /\ s.queue = <<>> /\ s.hole = sock[k].hole
          /\ s.starting = sock[k].starting /\ s.replay = sock[k].replay
      <4>1. s = [sock[k] EXCEPT !.open = FALSE, !.queue = <<>>, !.lagged = FALSE]
        BY DEF Stream!Left
      <4>2. <<>> \in Seq(Stream!Queued)
        OBVIOUS
      <4> HIDE DEF s
      <4> QED BY <1>1, <4>1, <4>2 DEF Stream!SocketStates
    <3>2. sock[k].starting = NoJob /\ ~sock[k].replay /\ ~sock[k].hole
      BY <1>1, <1>4 DEF Stream!Disconnect, Stream!Ready, SocketInv
    <3> HIDE DEF s
    <3> QED BY <3>1, <3>2, AgentsAssumption DEF SocketInv, CaughtUp, InOrder, Shut
  <2> HIDE DEF s
  <2> QED BY <1>1, <2>1, <2>2, Continues
<1>5. ASSUME NEW j \in Jobs \union {NoJob}, Stream!Subscribe(k, j)
      PROVE  Stream!TypeOK' /\ StreamInv'
  <2> DEFINE s == Stream!Asked(sock[k], j)
  <2>1. /\ sock[k].open /\ sock[k].starting = NoJob /\ sock' = [sock EXCEPT ![k] = s]
        /\ UNCHANGED <<life, events, opens>>
    BY <1>5 DEF Stream!Subscribe, Stream!Keep, Stream!Ready
  <2>2. /\ s \in Stream!SocketStates /\ SocketInv(s, events)
        /\ s.queue = sock[k].queue /\ s.starting = sock[k].starting /\ s.open = sock[k].open
    BY <1>1, Asking
  <2> HIDE DEF s
  <2> QED BY <1>1, <2>1, <2>2, Continues DEF Shut
<1> QED BY <1>2, <1>3, <1>4, <1>5

\* The head of the queue is the next event of the job, or one that was seen.
LEMMA DeliverStep ==
    ASSUME Stream!TypeOK, StreamInv, NEW k \in Sockets, Stream!Deliver(k)
    PROVE  Stream!TypeOK' /\ StreamInv'
<1> DEFINE s == sock[k]
           e == Head(s.queue)
           fresh == e.job = s.current /\ e.seq > s.last
           t == IF fresh THEN [s EXCEPT !.queue = Tail(@), !.last = e.seq,
                                        !.hole = @ \/ e.seq > s.last + 1]
                         ELSE [s EXCEPT !.queue = Tail(@)]
<1>1. /\ s.open /\ s.starting = NoJob /\ ~s.replay /\ ~s.lagged /\ s.queue # <<>>
      /\ sock' = [sock EXCEPT ![k] = t] /\ UNCHANGED <<life, events, opens>>
  BY DEF Stream!Deliver, Stream!Ready, Stream!Keep
<1>2. /\ s \in Stream!SocketStates /\ Len(s.queue) <= Capacity /\ SocketInv(s, events)
      /\ opens \in 0..MaxOpens
  BY StreamTypes DEF Stream!TypeOK
<1> HIDE DEF s
<1>3. /\ s.queue \in Seq(Stream!Queued) /\ s.last \in 0..MaxEvents /\ ~s.hole
      /\ s.current \in Jobs \union {NoJob}
  BY <1>2 DEF Stream!SocketStates, SocketInv
<1>4. /\ Tail(s.queue) \in Seq(Stream!Queued) /\ Len(Tail(s.queue)) = Len(s.queue) - 1
      /\ e = s.queue[1] /\ 1 \in DOMAIN s.queue /\ e \in Stream!Queued
      /\ \A p \in DOMAIN s.queue : p # 1 =>
            p - 1 \in DOMAIN Tail(s.queue) /\ Tail(s.queue)[p - 1] = s.queue[p]
      /\ InOrder(Tail(s.queue), events)
  BY <1>1, <1>2, <1>3, TailFacts, TailInOrder DEF SocketInv
<1> HIDE DEF e
<1>5. e.job \in Jobs /\ e.seq \in 1..MaxEvents
  BY <1>4 DEF Stream!Queued
<1>6. fresh => ~(e.seq > s.last + 1)
  <2> SUFFICES ASSUME fresh, e.seq > s.last + 1 PROVE FALSE
    OBVIOUS
  <2>1. /\ s.current \in Jobs /\ s.current # NoJob /\ e.seq <= events[s.current]
        /\ events[s.current] \in Nat
    BY <1>2, <1>4, <1>5, StreamTypes DEF SocketInv, InOrder
  <2>2. s.last + 1 \in (s.last + 1)..events[s.current]
    BY <1>3, <1>5, <2>1, AgentsAssumption
  <2>3. PICK p \in DOMAIN s.queue : s.queue[p] = [job |-> s.current, seq |-> s.last + 1]
    BY <1>1, <1>2, <2>1, <2>2 DEF SocketInv, CaughtUp
  <2>4. p # 1 /\ 1 < p
    BY <1>3, <1>4, <1>5, <2>3
  <2>5. e.seq < s.last + 1
    BY <1>2, <1>4, <2>3, <2>4 DEF SocketInv, InOrder
  <2> QED BY <1>3, <1>5, <2>5, AgentsAssumption
<1>7. /\ t \in Stream!SocketStates /\ t.queue = Tail(s.queue) /\ t.open /\ t.starting = NoJob
      /\ t.last = (IF fresh THEN e.seq ELSE s.last) /\ t.current = s.current
      /\ t.lagged = s.lagged /\ t.replay = s.replay /\ ~t.hole
  <2>1. CASE fresh
    <3>1. t = [s EXCEPT !.queue = Tail(s.queue), !.last = e.seq,
                        !.hole = s.hole \/ e.seq > s.last + 1]
      BY <2>1
    <3>2. (s.hole \/ e.seq > s.last + 1) = FALSE
      BY <1>3, <1>6, <2>1
    <3>3. e.seq \in 0..MaxEvents
      BY <1>5
    <3> HIDE DEF t
    <3> QED BY <1>1, <1>2, <1>4, <2>1, <3>1, <3>2, <3>3 DEF Stream!SocketStates
  <2>2. CASE ~fresh
    <3>1. t = [s EXCEPT !.queue = Tail(s.queue)]
      BY <2>2
    <3> HIDE DEF t
    <3> QED BY <1>1, <1>2, <1>3, <1>4, <2>2, <3>1 DEF Stream!SocketStates
  <2> QED BY <2>1, <2>2
<1> HIDE DEF t
<1>8. CaughtUp(t, events)
  <2> SUFFICES ASSUME t.current # NoJob, NEW n \in (t.last + 1)..events[t.current]
               PROVE  \E p \in DOMAIN t.queue : t.queue[p] = [job |-> t.current, seq |-> n]
    BY DEF CaughtUp
  <2>1. s.current \in Jobs /\ events[s.current] \in Nat
    BY <1>3, <1>7, StreamTypes
  <2>2. n \in (s.last + 1)..events[s.current] /\ (e.job = s.current => n # e.seq)
    BY <1>3, <1>5, <1>7, <2>1, AgentsAssumption
  <2>3. PICK p \in DOMAIN s.queue : s.queue[p] = [job |-> s.current, seq |-> n]
    BY <1>1, <1>2, <1>7, <2>2 DEF SocketInv, CaughtUp
  <2>4. p # 1
    BY <1>4, <2>2, <2>3
  <2> QED BY <1>4, <1>7, <2>3, <2>4
<1>9. SocketInv(t, events) /\ Len(t.queue) <= Capacity
  BY <1>2, <1>3, <1>4, <1>7, <1>8, AgentsAssumption DEF SocketInv
<1>10. Shut(t)
  BY <1>7 DEF Shut
<1> QED BY <1>1, <1>2, <1>7, <1>9, <1>10, Continues

LEMMA StreamStart == Stream!Init => Stream!TypeOK /\ StreamInv
<1> SUFFICES ASSUME Stream!Init PROVE Stream!TypeOK /\ StreamInv
  OBVIOUS
<1>1. /\ life = [j \in Jobs |-> "none"] /\ events = [j \in Jobs |-> 0]
      /\ sock = [k \in Sockets |-> Stream!Closed] /\ opens = 0
  BY DEF Stream!Init
<1>2. Stream!Closed \in Stream!SocketStates /\ SocketInv(Stream!Closed, events)
  BY AgentsAssumption DEF Stream!Closed, Stream!SocketStates, SocketInv, CaughtUp, InOrder
<1>3. Stream!TypeOK
  BY <1>1, <1>2, AgentsAssumption DEF Stream!TypeOK, Stream!Closed
<1>4. StreamInv
  BY <1>1, <1>2 DEF StreamInv, LifeInv, Shut, Stream!Closed
<1> QED BY <1>3, <1>4

LEMMA StreamStep ==
    Stream!TypeOK /\ StreamInv /\ [Stream!Next]_streamVars => Stream!TypeOK' /\ StreamInv'
<1> SUFFICES ASSUME Stream!TypeOK, StreamInv, [Stream!Next]_streamVars
             PROVE  Stream!TypeOK' /\ StreamInv'
  OBVIOUS
<1>1. CASE UNCHANGED streamVars
  <2>1. UNCHANGED <<life, events, sock, opens>>
    BY <1>1 DEF streamVars
  <2>2. Stream!TypeOK'
    BY <2>1 DEF Stream!TypeOK
  <2>3. \A k \in Sockets : SocketInv(sock[k], events)'
    BY <2>1 DEF StreamInv, SocketInv, CaughtUp, InOrder
  <2> QED BY <2>1, <2>2, <2>3 DEF StreamInv, LifeInv
<1>2. ASSUME NEW j \in Jobs, Stream!publish_job(j) \/ Stream!Remove(j)
      PROVE  Stream!TypeOK' /\ StreamInv'
  BY <1>2, PublishStep, RemoveStep
<1>3. ASSUME NEW k \in Sockets, Stream!SocketStep(k) PROVE Stream!TypeOK' /\ StreamInv'
  BY <1>3, RenewStep, DeliverStep, StartedStep DEF Stream!SocketStep
<1>4. ASSUME NEW k \in Sockets, Stream!ClientStep(k) PROVE Stream!TypeOK' /\ StreamInv'
  BY <1>4, StartStep, ConnectStep, RenewStep DEF Stream!ClientStep
<1> QED BY <1>1, <1>2, <1>3, <1>4 DEF Stream!Next

\* Whatever the channel drops and however replays and new events interleave, no
\* client sees a gap in the events of the job that its socket shows
\* (handle_agent_ws, publish_job).
THEOREM GapFree == AgentsSpec => []NoGap
<1>1. AgentsInit => Stream!TypeOK /\ StreamInv
  BY StreamStart DEF AgentsInit
<1>2. [JobsOnly \/ StreamOnly \/ DebugOnly]_<<vars, streamVars, debugVars>>
         => [Stream!Next]_streamVars
  BY DEF JobsOnly, StreamOnly, DebugOnly
<1>3. StreamInv => NoGap
  BY DEF StreamInv, SocketInv, NoGap, Stream!NoGap
<1> QED BY <1>1, <1>2, <1>3, StreamStep, PTL DEF AgentsSpec
-----------------------------------------------------------------------------
(* The types of the three parts.                                           *)

LEMMA DebugTypes ==
    Debug!TypeOK /\ [Debug!Next]_debugVars => Debug!TypeOK'
<1> SUFFICES ASSUME Debug!TypeOK, [Debug!Next]_debugVars PROVE Debug!TypeOK'
  OBVIOUS
<1> USE DEF Debug!TypeOK, Debug!Does, Debug!Process, Debug!Steps
<1>1. CASE UNCHANGED debugVars
  BY <1>1 DEF debugVars
<1>2. ASSUME NEW d \in Debugs, Debug!DebugStep(d) PROVE Debug!TypeOK'
  <2>1. CASE Debug!StreamStep(d)
    BY <2>1 DEF Debug!StreamStep, Debug!List, Debug!ReadEnd, Debug!Wait, Debug!RemoveFile,
       Debug!Unlist
  <2>2. CASE Debug!kill_execution(d) \/ Debug!Killed(d)
    BY <2>2 DEF Debug!kill_execution, Debug!Killed
  <2>3. CASE Debug!execute_script(d) \/ Debug!execute_content(d) \/ Debug!SpawnFail(d)
             \/ Debug!Spawn(d)
    BY <2>3 DEF Debug!execute_script, Debug!execute_content, Debug!SpawnFail, Debug!Spawn
  <2>4. CASE Debug!Disconnect(d) \/ Debug!Exit(d) \/ Debug!OutputEnd(d) \/ Debug!Reap(d)
    BY <2>4 DEF Debug!Disconnect, Debug!Exit, Debug!OutputEnd, Debug!Reap
  <2> QED BY <1>2, <2>1, <2>2, <2>3, <2>4 DEF Debug!DebugStep
<1> QED BY <1>1, <1>2 DEF Debug!Next

\* The state of the three parts keeps its types: the work of the agent stays within
\* its bound, a queue never holds more than the channel does.
THEOREM WellTyped == AgentsSpec => []AgentsTypeOK
<1>1. AgentsInit => Init /\ Stream!TypeOK /\ StreamInv /\ Debug!TypeOK
  BY StreamStart DEF AgentsInit, Debug!Init, Debug!TypeOK, Debug!Steps
<1>2. [JobsOnly \/ StreamOnly \/ DebugOnly]_<<vars, streamVars, debugVars>>
         => [Next]_vars /\ [Stream!Next]_streamVars /\ [Debug!Next]_debugVars
  BY DEF JobsOnly, StreamOnly, DebugOnly
<1>3. AgentsSpec => Spec
  BY <1>1, <1>2, PTL DEF AgentsSpec, Spec
<1>4. TypeOK /\ Stream!TypeOK /\ Debug!TypeOK => AgentsTypeOK
  BY DEF AgentsTypeOK
<1> QED BY <1>1, <1>2, <1>3, <1>4, JobsTyped, StreamStep, DebugTypes, PTL DEF AgentsSpec
-----------------------------------------------------------------------------
(* What reaches a client keeps the contract of StreamContract.             *)

shownBar == [k \in Sockets |-> sock[k].current]
seenBar == [k \in Sockets |-> sock[k].last]

\* One socket changes.
LEMMA OneWatches ==
    ASSUME Stream!TypeOK, NEW k \in Sockets, NEW s, sock' = [sock EXCEPT ![k] = s]
    PROVE  /\ shownBar' = [shownBar EXCEPT ![k] = s.current]
           /\ seenBar' = [seenBar EXCEPT ![k] = s.last]
<1>1. \A l \in Sockets : sock'[l] = IF l = k THEN s ELSE sock[l]
  BY DEF Stream!TypeOK
<1>2. \A l \in Sockets : /\ sock'[l].current = IF l = k THEN s.current ELSE sock[l].current
                         /\ sock'[l].last = IF l = k THEN s.last ELSE sock[l].last
  BY <1>1
<1>3. shownBar' = [shownBar EXCEPT ![k] = s.current]
  BY <1>2 DEF shownBar
<1>4. seenBar' = [seenBar EXCEPT ![k] = s.last]
  BY <1>2 DEF seenBar
<1> QED BY <1>3, <1>4

LEMMA PushedKeeps ==
    ASSUME NEW s \in Stream!SocketStates, NEW e
    PROVE  Stream!Pushed(s, e).current = s.current /\ Stream!Pushed(s, e).last = s.last
BY DEF Stream!Pushed, Stream!SocketStates

LEMMA AskedShows ==
    ASSUME NEW s \in Stream!SocketStates, NEW j \in Jobs \union {NoJob}
    PROVE  /\ Stream!Asked(s, j).current \in Jobs \union {NoJob} /\ Stream!Asked(s, j).last = 0
           /\ [Stream!Asked(s, j) EXCEPT !.open = TRUE].current = Stream!Asked(s, j).current
           /\ [Stream!Asked(s, j) EXCEPT !.open = TRUE].last = 0
BY DEF Stream!Asked, Stream!Shows, Stream!SocketStates

LEMMA ReplayShows ==
    ASSUME NEW s \in Stream!SocketStates,
           NEW t, t \in {[Stream!Replayed(s) EXCEPT !.replay = FALSE],
                         [Stream!Replayed(s) EXCEPT !.lagged = FALSE]}
    PROVE  /\ t.current = s.current
           /\ t.last = IF s.current = NoJob THEN s.last ELSE events[s.current]
BY DEF Stream!Replayed, Stream!SocketStates

Kept == Stream!Contract!Next \/ UNCHANGED <<events, shownBar, seenBar>>

\* The steps of the contract, in terms of what the clients watch and have seen.
LEMMA Promises ==
    /\ \A j \in Jobs : events' = [events EXCEPT ![j] = @ + 1] /\ UNCHANGED <<shownBar, seenBar>>
          => Kept
    /\ \A k \in Sockets, j \in Jobs \union {NoJob} :
          /\ shownBar' = [shownBar EXCEPT ![k] = j] /\ seenBar' = [seenBar EXCEPT ![k] = 0]
          /\ UNCHANGED events
          => Kept
    /\ \A k \in Sockets, j \in Jobs :
          /\ shownBar' = [shownBar EXCEPT ![k] = j] /\ seenBar' = [seenBar EXCEPT ![k] = 0]
          /\ events[j] = 0 /\ events' = [events EXCEPT ![j] = 1]
          => Kept
    /\ \A k \in Sockets :
          /\ shownBar[k] # NoJob /\ seenBar[k] < events[shownBar[k]]
          /\ seenBar' = [seenBar EXCEPT ![k] = @ + 1] /\ UNCHANGED <<events, shownBar>>
          => Kept
    /\ \A k \in Sockets :
          /\ shownBar[k] # NoJob
          /\ seenBar' = [seenBar EXCEPT ![k] = events[shownBar[k]]]
          /\ UNCHANGED <<events, shownBar>>
          => Kept
<1> USE DEF Kept, Stream!Contract!Next, Stream!Contract!Show, shownBar, seenBar
<1>1. \A j \in Jobs : events' = [events EXCEPT ![j] = @ + 1] /\ UNCHANGED <<shownBar, seenBar>>
         => Kept
  BY DEF Stream!Contract!Publish
<1>2. ASSUME NEW k \in Sockets, NEW j \in Jobs \union {NoJob},
             shownBar' = [shownBar EXCEPT ![k] = j], seenBar' = [seenBar EXCEPT ![k] = 0],
             UNCHANGED events
      PROVE  Kept
  BY <1>2 DEF Stream!Contract!Turn
<1>3. ASSUME NEW k \in Sockets, NEW j \in Jobs,
             shownBar' = [shownBar EXCEPT ![k] = j], seenBar' = [seenBar EXCEPT ![k] = 0],
             events[j] = 0, events' = [events EXCEPT ![j] = 1]
      PROVE  Kept
  BY <1>3 DEF Stream!Contract!Begin
<1>4. ASSUME NEW k \in Sockets, shownBar[k] # NoJob, seenBar[k] < events[shownBar[k]],
             seenBar' = [seenBar EXCEPT ![k] = @ + 1], UNCHANGED <<events, shownBar>>
      PROVE  Kept
  BY <1>4 DEF Stream!Contract!SeeNext
<1>5. ASSUME NEW k \in Sockets, shownBar[k] # NoJob,
             seenBar' = [seenBar EXCEPT ![k] = events[shownBar[k]]],
             UNCHANGED <<events, shownBar>>
      PROVE  Kept
  BY <1>5 DEF Stream!Contract!CatchUp
<1> QED BY <1>1, <1>2, <1>3, <1>4, <1>5

LEMMA PublishKeeps ==
    ASSUME Stream!TypeOK, NEW j \in Jobs, Stream!publish_job(j)
    PROVE  Kept
<1>1. \A k \in Sockets : sock'[k].current = sock[k].current /\ sock'[k].last = sock[k].last
  <2>1. \A k \in Sockets :
           sock'[k] = Stream!Pushed(sock[k], [job |-> j, seq |-> events[j] + 1])
    BY DEF Stream!publish_job
  <2> QED BY <2>1, PushedKeeps DEF Stream!TypeOK
<1>2. UNCHANGED <<shownBar, seenBar>>
  BY <1>1 DEF shownBar, seenBar
<1>3. events' = [events EXCEPT ![j] = @ + 1]
  BY DEF Stream!publish_job
<1> QED BY <1>2, <1>3, Promises

LEMMA StartedKeeps ==
    ASSUME Stream!TypeOK, StreamInv, NEW k \in Sockets, NEW j \in Jobs, Stream!Started(k, j)
    PROVE  Kept
<1> DEFINE pushed(l) == Stream!Pushed(sock[l], [job |-> j, seq |-> 1])
<1>1. events[j] = 0 /\ events' = [events EXCEPT ![j] = 1]
  BY DEF Stream!Started, StreamInv, LifeInv
<1>2. \A l \in Sockets : sock'[l] =
         IF l = k THEN [Stream!Shows(pushed(l), j) EXCEPT !.starting = NoJob] ELSE pushed(l)
  BY DEF Stream!Started
<1>3. \A l \in Sockets : pushed(l).current = sock[l].current /\ pushed(l).last = sock[l].last
  BY PushedKeeps DEF Stream!TypeOK
<1>4. /\ [Stream!Shows(pushed(k), j) EXCEPT !.starting = NoJob].current = j
      /\ [Stream!Shows(pushed(k), j) EXCEPT !.starting = NoJob].last = 0
  BY DEF Stream!Shows, Stream!Pushed, Stream!TypeOK, Stream!SocketStates
<1> HIDE DEF pushed
<1>5. \A l \in Sockets : /\ sock'[l].current = IF l = k THEN j ELSE sock[l].current
                         /\ sock'[l].last = IF l = k THEN 0 ELSE sock[l].last
  BY <1>2, <1>3, <1>4
<1>6. shownBar' = [shownBar EXCEPT ![k] = j]
  BY <1>5 DEF shownBar
<1>7. seenBar' = [seenBar EXCEPT ![k] = 0]
  BY <1>5 DEF seenBar
<1> QED BY <1>1, <1>6, <1>7, Promises

\* A socket is closed or opened for the job that its client goes on with.
LEMMA WatchesOn ==
    ASSUME Stream!TypeOK, NEW k \in Sockets, NEW s, sock' = [sock EXCEPT ![k] = s],
           UNCHANGED events, s.current = sock[k].current, s.last = sock[k].last
    PROVE  Kept
<1>1. /\ shownBar' = [shownBar EXCEPT ![k] = s.current]
      /\ seenBar' = [seenBar EXCEPT ![k] = s.last]
  BY OneWatches
<1>2. UNCHANGED <<shownBar, seenBar>>
  BY <1>1 DEF shownBar, seenBar
<1> QED BY <1>2 DEF Kept

\* The client is shown a job, or none.
LEMMA AskingKeeps ==
    ASSUME Stream!TypeOK, NEW k \in Sockets,
           \/ Stream!Disconnect(k)
           \/ \E j \in Jobs \union {NoJob} : Stream!Connect(k, j) \/ Stream!Subscribe(k, j)
    PROVE  Kept
<1>1. sock[k] \in Stream!SocketStates
  BY DEF Stream!TypeOK
<1>2. CASE Stream!Disconnect(k)
  <2>1. sock' = [sock EXCEPT ![k] = Stream!Left(sock[k])] /\ UNCHANGED events
    BY <1>2 DEF Stream!Disconnect, Stream!Keep
  <2>2. /\ Stream!Left(sock[k]).current = sock[k].current
        /\ Stream!Left(sock[k]).last = sock[k].last
    BY <1>1 DEF Stream!Left, Stream!SocketStates
  <2> QED BY <2>1, <2>2, WatchesOn
<1>3. ASSUME NEW s, sock' = [sock EXCEPT ![k] = s], UNCHANGED events,
             s.current \in Jobs \union {NoJob}, s.last = 0
      PROVE  Kept
  <2>1. /\ shownBar' = [shownBar EXCEPT ![k] = s.current]
        /\ seenBar' = [seenBar EXCEPT ![k] = s.last]
    BY <1>3, OneWatches
  <2> QED BY <1>3, <2>1, Promises
<1>4. ASSUME NEW j \in Jobs \union {NoJob}, Stream!Connect(k, j) PROVE Kept
  <2>1. CASE sock' = [sock EXCEPT ![k] = [Stream!Asked(Stream!Closed, j) EXCEPT !.open = TRUE]]
    <3>1. Stream!Closed \in Stream!SocketStates
      BY AgentsAssumption DEF Stream!Closed, Stream!SocketStates
    <3> QED BY <1>3, <1>4, <2>1, <3>1, AskedShows DEF Stream!Connect
  <2>2. CASE sock' = [sock EXCEPT ![k] = [sock[k] EXCEPT !.open = TRUE, !.replay = TRUE]]
    <3> DEFINE s == [sock[k] EXCEPT !.open = TRUE, !.replay = TRUE]
    <3>1. s.current = sock[k].current /\ s.last = sock[k].last
      BY <1>1 DEF Stream!SocketStates
    <3>2. UNCHANGED events /\ sock' = [sock EXCEPT ![k] = s]
      BY <1>4, <2>2 DEF Stream!Connect
    <3> HIDE DEF s
    <3> QED BY <3>1, <3>2, WatchesOn
  <2> QED BY <1>4, <2>1, <2>2 DEF Stream!Connect
<1>5. ASSUME NEW j \in Jobs \union {NoJob}, Stream!Subscribe(k, j) PROVE Kept
  <2>1. sock' = [sock EXCEPT ![k] = Stream!Asked(sock[k], j)] /\ UNCHANGED events
    BY <1>5 DEF Stream!Subscribe, Stream!Keep
  <2> QED BY <1>1, <1>3, <2>1, AskedShows
<1> QED BY <1>2, <1>4, <1>5

LEMMA ReplayKeeps ==
    ASSUME Stream!TypeOK, NEW k \in Sockets, Stream!Replay(k) \/ Stream!Lagged(k)
    PROVE  Kept
<1>1. PICK s : /\ sock' = [sock EXCEPT ![k] = s] /\ UNCHANGED events
               /\ s.current = sock[k].current
               /\ s.last = IF sock[k].current = NoJob THEN sock[k].last
                           ELSE events[sock[k].current]
  BY ReplayShows DEF Stream!Replay, Stream!Lagged, Stream!Keep, Stream!TypeOK
<1>2. /\ shownBar' = [shownBar EXCEPT ![k] = s.current]
      /\ seenBar' = [seenBar EXCEPT ![k] = s.last]
  BY <1>1, OneWatches
<1>3. shownBar[k] = sock[k].current /\ seenBar[k] = sock[k].last /\ shownBar' = shownBar
  BY <1>1, <1>2 DEF shownBar, seenBar
<1>4. CASE shownBar[k] = NoJob
  <2>1. seenBar' = seenBar
    BY <1>1, <1>2, <1>3, <1>4 DEF seenBar
  <2> QED BY <1>1, <1>3, <2>1 DEF Kept
<1>5. CASE shownBar[k] # NoJob
  BY <1>1, <1>2, <1>3, <1>5, Promises
<1> QED BY <1>4, <1>5

\* The event that the client takes for a new one is the next that it has not seen.
LEMMA DeliverKeeps ==
    ASSUME Stream!TypeOK, StreamInv, StreamInv', NEW k \in Sockets, Stream!Deliver(k)
    PROVE  Kept
<1> DEFINE s == sock[k]
           e == Head(s.queue)
<1>1. /\ s \in Stream!SocketStates /\ SocketInv(s, events) /\ s.queue # <<>>
      /\ UNCHANGED events /\ s.queue \in Seq(Stream!Queued) /\ s.last \in 0..MaxEvents
  BY StreamTypes DEF Stream!Deliver, Stream!Keep, Stream!SocketStates
<1>2. e = s.queue[1] /\ 1 \in DOMAIN s.queue /\ e.job \in Jobs /\ e.seq \in 1..MaxEvents
  <2>1. e \in Stream!Queued
    BY <1>1, TailFacts
  <2> QED BY <1>1, <2>1, TailFacts DEF Stream!Queued
<1> HIDE DEF e
<1>3. CASE ~(e.job = s.current /\ e.seq > s.last)
  <2>1. sock' = [sock EXCEPT ![k] = [s EXCEPT !.queue = Tail(@)]]
    BY <1>3 DEF Stream!Deliver, Stream!Keep, e
  <2>2. [s EXCEPT !.queue = Tail(@)].current = s.current
        /\ [s EXCEPT !.queue = Tail(@)].last = s.last
    BY <1>1 DEF Stream!SocketStates
  <2> DEFINE t == [s EXCEPT !.queue = Tail(@)]
  <2> HIDE DEF t
  <2>3. /\ shownBar' = [shownBar EXCEPT ![k] = t.current]
        /\ seenBar' = [seenBar EXCEPT ![k] = t.last]
    BY <2>1, OneWatches DEF t
  <2>4. UNCHANGED <<shownBar, seenBar>>
    BY <2>2, <2>3 DEF shownBar, seenBar, t
  <2> QED BY <1>1, <2>4 DEF Kept
<1>4. CASE e.job = s.current /\ e.seq > s.last
  <2> DEFINE t == [s EXCEPT !.queue = Tail(@), !.last = e.seq,
                            !.hole = @ \/ e.seq > s.last + 1]
  <2>1. sock' = [sock EXCEPT ![k] = t]
    BY <1>4 DEF Stream!Deliver, Stream!Keep, e
  <2>2. t.current = s.current /\ t.last = e.seq /\ (t.hole <=> s.hole \/ e.seq > s.last + 1)
    BY <1>1 DEF Stream!SocketStates
  <2>3. sock'[k] = t
    BY <2>1 DEF Stream!TypeOK
  <2> HIDE DEF t
  <2>4. ~t.hole
    BY <2>3 DEF StreamInv, SocketInv
  <2>5. e.seq = s.last + 1
    BY <1>1, <1>2, <1>4, <2>2, <2>4, AgentsAssumption
  <2>6. e.seq <= events[s.current] /\ s.current # NoJob /\ events[s.current] \in Nat
    BY <1>1, <1>2, <1>4, StreamTypes DEF SocketInv, InOrder
  <2>7. shownBar[k] = s.current /\ seenBar[k] = s.last
    BY DEF shownBar, seenBar
  <2>8. /\ shownBar' = [shownBar EXCEPT ![k] = t.current]
        /\ seenBar' = [seenBar EXCEPT ![k] = t.last]
    BY <2>1, OneWatches
  <2>9. shownBar' = shownBar
    BY <2>2, <2>8 DEF shownBar
  <2>10. seenBar' = [seenBar EXCEPT ![k] = seenBar[k] + 1]
    BY <2>2, <2>5, <2>7, <2>8
  <2>11. seenBar[k] < events[shownBar[k]]
    BY <1>1, <2>5, <2>6, <2>7
  <2> HIDE DEF s
  <2> QED BY <1>1, <2>6, <2>7, <2>9, <2>10, <2>11, Promises
<1> QED BY <1>3, <1>4

LEMMA StreamKeeps ==
    ASSUME Stream!TypeOK, StreamInv, StreamInv', [Stream!Next]_streamVars
    PROVE  Kept
<1>1. CASE UNCHANGED streamVars
  BY <1>1 DEF streamVars, Kept, shownBar, seenBar
<1>2. ASSUME NEW j \in Jobs, Stream!publish_job(j) \/ Stream!Remove(j) PROVE Kept
  <2>1. CASE Stream!Remove(j)
    BY <2>1 DEF Stream!Remove, Kept, shownBar, seenBar
  <2> QED BY <1>2, <2>1, PublishKeeps
<1>3. ASSUME NEW k \in Sockets, Stream!SocketStep(k) PROVE Kept
  BY <1>3, ReplayKeeps, DeliverKeeps, StartedKeeps DEF Stream!SocketStep
<1>4. ASSUME NEW k \in Sockets, Stream!ClientStep(k) PROVE Kept
  <2>1. ASSUME NEW j \in Jobs, Stream!Start(k, j) PROVE Kept
    <3> DEFINE s == [sock[k] EXCEPT !.starting = j]
    <3>1. sock' = [sock EXCEPT ![k] = s] /\ UNCHANGED events
      BY <2>1 DEF Stream!Start, Stream!Keep
    <3>2. s.current = sock[k].current /\ s.last = sock[k].last
      BY DEF Stream!TypeOK, Stream!SocketStates
    <3> HIDE DEF s
    <3> QED BY <3>1, <3>2, WatchesOn
  <2> QED BY <1>4, <2>1, AskingKeeps DEF Stream!ClientStep
<1> QED BY <1>1, <1>2, <1>3, <1>4 DEF Stream!Next

\* The client of a socket sees each event of the job that it watches once and in its
\* order, or is told of all of them at once: numbering, broadcast, losses, replays and the
\* client's filter implement StreamContract (publish_job, handle_agent_ws).
THEOREM StreamContractKept == AgentsSpec => KeepsStreamContract
<1>1. AgentsInit => Stream!TypeOK /\ StreamInv /\ Stream!Contract!Init
  <2> SUFFICES ASSUME AgentsInit PROVE Stream!TypeOK /\ StreamInv /\ Stream!Contract!Init
    OBVIOUS
  <2>1. Stream!Init
    BY DEF AgentsInit
  <2>2. Stream!Contract!Init
    BY <2>1 DEF Stream!Init, Stream!Contract!Init, Stream!Closed
  <2> QED BY <2>1, <2>2, StreamStart
<1>2. [JobsOnly \/ StreamOnly \/ DebugOnly]_<<vars, streamVars, debugVars>>
         => [Stream!Next]_streamVars
  BY DEF JobsOnly, StreamOnly, DebugOnly
<1>3. Stream!TypeOK /\ StreamInv /\ StreamInv' /\ [Stream!Next]_streamVars
         => [Stream!Contract!Next]_(Stream!Contract!vars)
  BY StreamKeeps DEF Kept, Stream!Contract!vars, shownBar, seenBar
<1> QED
  BY <1>1, <1>2, <1>3, StreamStep, PTL
  DEF AgentsSpec, KeepsStreamContract, Stream!KeepsStreamContract, Stream!Contract!Spec
-----------------------------------------------------------------------------
(* The safety behind EventsArrive and NothingLeft.                         *)

\* The event that a client lacks is on its way.
NeverStranded ==
    \A k \in Sockets : Stream!Behind(k) =>
        \/ sock[k].replay \/ sock[k].lagged
        \/ \E p \in DOMAIN sock[k].queue :
              sock[k].queue[p] = [job |-> sock[k].current, seq |-> sock[k].last + 1]

\* A client that has not seen all events of its job is owed a replay, or has been told
\* that it lost some, or finds the very next event in its queue: it never has to hope
\* for a later event of the job to learn of this one.
THEOREM NextIsComing == AgentsSpec => []NeverStranded
<1>1. AgentsInit => Stream!TypeOK /\ StreamInv
  BY StreamStart DEF AgentsInit
<1>2. [JobsOnly \/ StreamOnly \/ DebugOnly]_<<vars, streamVars, debugVars>>
         => [Stream!Next]_streamVars
  BY DEF JobsOnly, StreamOnly, DebugOnly
<1>3. Stream!TypeOK /\ StreamInv => NeverStranded
  <2> SUFFICES ASSUME Stream!TypeOK, StreamInv, NEW k \in Sockets, Stream!Behind(k),
                      ~sock[k].replay, ~sock[k].lagged
               PROVE  \E p \in DOMAIN sock[k].queue :
                         sock[k].queue[p] = [job |-> sock[k].current, seq |-> sock[k].last + 1]
    BY DEF NeverStranded
  <2>1. /\ sock[k].open /\ sock[k].current \in Jobs /\ sock[k].current # NoJob
        /\ sock[k].last < events[sock[k].current]
    BY StreamTypes DEF Stream!Behind
  <2>2. sock[k].last \in Nat /\ events[sock[k].current] \in Nat
    BY <2>1, StreamTypes, AgentsAssumption DEF Stream!SocketStates
  <2>3. sock[k].last + 1 \in (sock[k].last + 1)..events[sock[k].current]
    BY <2>1, <2>2
  <2> QED BY <2>1, <2>3, StreamTypes DEF SocketInv, CaughtUp
<1> QED BY <1>1, <1>2, <1>3, StreamStep, PTL DEF AgentsSpec

\* Where the process, the output, the file and the entry of a run are at each step of
\* the stream that its client reads.
RunInv ==
    \A d \in Debugs :
        /\ step[d] \in {"none", "spawn"} => d \notin running_processes
        /\ step[d] \in {"list", "read", "wait"} => process[d] \in {"running", "ended"}
        /\ step[d] \in {"wait", "remove", "unlist", "end"} => d \notin output
        /\ step[d] \in {"remove", "unlist", "end"} => process[d] = "gone"
        /\ step[d] \in {"unlist", "end"} => d \notin temp \ stuck
        /\ step[d] = "end" => d \notin running_processes

\* A stream that has ended has left nothing but a file that could not be removed, and
\* one at work has a process to wait for.
EndedClean ==
    \A d \in Debugs :
        /\ step[d] = "end" =>
              process[d] = "gone" /\ d \notin output \union (temp \ stuck) \union running_processes
        /\ step[d] \in {"read", "wait"} => process[d] \in {"running", "ended"}

LEMMA RunStep ==
    ASSUME Debug!TypeOK, RunInv, [Debug!Next]_debugVars
    PROVE  RunInv'
<1> USE DEF Debug!TypeOK, Debug!Does, Debug!Process, RunInv
<1>1. CASE UNCHANGED debugVars
  BY <1>1 DEF debugVars
<1>2. ASSUME NEW d \in Debugs, Debug!DebugStep(d) PROVE RunInv'
  <2>1. CASE Debug!List(d) \/ Debug!ReadEnd(d)
    BY <2>1 DEF Debug!List, Debug!ReadEnd
  <2>2. CASE Debug!Wait(d)
    BY <2>2 DEF Debug!Wait
  <2>3. CASE Debug!RemoveFile(d) \/ Debug!Unlist(d)
    BY <2>3 DEF Debug!RemoveFile, Debug!Unlist
  <2>4. CASE Debug!kill_execution(d)
    BY <2>4 DEF Debug!kill_execution
  <2>5. CASE Debug!Killed(d)
    BY <2>5 DEF Debug!Killed
  <2>6. CASE Debug!execute_script(d) \/ Debug!execute_content(d) \/ Debug!SpawnFail(d)
    BY <2>6 DEF Debug!execute_script, Debug!execute_content, Debug!SpawnFail
  <2>7. CASE Debug!Spawn(d)
    BY <2>7 DEF Debug!Spawn
  <2>8. CASE Debug!Disconnect(d)
    BY <2>8 DEF Debug!Disconnect
  <2>9. CASE Debug!Exit(d) \/ Debug!OutputEnd(d) \/ Debug!Reap(d)
    BY <2>9 DEF Debug!Exit, Debug!OutputEnd, Debug!Reap
  <2> QED BY <1>2, <2>1, <2>2, <2>3, <2>4, <2>5, <2>6, <2>7, <2>8, <2>9
          DEF Debug!DebugStep, Debug!StreamStep
<1> QED BY <1>1, <1>2 DEF Debug!Next

\* However kill requests, the exit of the process and the end of its output interleave,
\* nobody but the stream waits for the process that it is about to wait for, and a stream
\* that has ended has left neither process nor entry, nor a file that could be removed
\* (execute_content, kill_execution).
THEOREM CleanEnd == AgentsSpec => []EndedClean
<1>1. AgentsInit => Debug!TypeOK /\ RunInv
  BY DEF AgentsInit, Debug!Init, Debug!TypeOK, Debug!Steps, RunInv
<1>2. [JobsOnly \/ StreamOnly \/ DebugOnly]_<<vars, streamVars, debugVars>>
         => [Debug!Next]_debugVars
  BY DEF JobsOnly, StreamOnly, DebugOnly
<1>3. RunInv => EndedClean
  BY DEF RunInv, EndedClean
<1> QED BY <1>1, <1>2, <1>3, DebugTypes, RunStep, PTL DEF AgentsSpec
=============================================================================
