----------------------- MODULE DependenceQueueProofs -----------------------
(***************************************************************************)
(* Proofs about DependenceQueue, for any packages and requests, any number *)
(* of clients, rows and restarts: that whoever deletes or installs holds   *)
(* the one permit, that a row which says "installing" is on the way to an  *)
(* installer, and that the queue serves everybody in turn.                 *)
(***************************************************************************)
EXTENDS DependenceQueue, FiniteSetTheorems, SequenceTheorems, TLAPS

Queued == {"waiting", "removing", "dropping"}

\* What a request has in hand at each of its stages.
TaskOK(task) ==
    /\ task.made # <<>> => task.op = "create" /\ task.stage \in {"check", "insert", "fetch"}
    /\ task.stage \in {"check", "insert", "fetch"} => task.op \in {"create", "ensure"}
    /\ task.stage \in Queued => task.op = "delete"
    /\ task.stage = "marked" => task.op = "reinstall"
    /\ task.stage = "insert" => task.todo # <<>>
    /\ task.stage \in Queued \union {"fetch", "found", "marked"} => task.dep \in Deps

TaskInv == \A c \in Clients : TaskOK(req[c])

\* A client in the queue is one that deletes, and one at work is at the head.
QueuedOnly ==
    \A k \in DOMAIN queue : queue[k].who \in Clients => req[queue[k].who].stage \in Queued
AtHead == \A c \in Clients : req[c].stage \in {"removing", "dropping"} => Serves(c)

\* Only installers that were spawned can be in the queue more than once.
OnePlace ==
    \A k, l \in DOMAIN queue :
        queue[k].who = queue[l].who /\ queue[k].who # "job" => k = l

\* The startup loop waits for the first row of those it still has.
StartupFirst ==
    \A k \in DOMAIN queue : queue[k].who = "startup" =>
        startup # <<>> /\ queue[k].dep = Head(startup)

PermitInv == QueuedOnly /\ AtHead /\ OnePlace /\ StartupFirst

QueueInv == TaskInv /\ PermitInv /\ RemovalInProgress /\ InstallingIsPending

-----------------------------------------------------------------------------
(* Sequences: what is left of one, and what is in it.                      *)

LEMMA RemoveAtFacts ==
    ASSUME NEW S, NEW q \in Seq(S), NEW k \in DOMAIN q
    PROVE  /\ RemoveAt(q, k) \in Seq(S) /\ Len(RemoveAt(q, k)) = Len(q) - 1
           /\ \A l \in DOMAIN RemoveAt(q, k) :
                 RemoveAt(q, k)[l] = IF l < k THEN q[l] ELSE q[l + 1]
  <1>1. k \in 1..Len(q) /\ Len(q) \in Nat /\ DOMAIN q = 1..Len(q)
    BY LenProperties
  <1>2. /\ SubSeq(q, 1, k - 1) \in Seq(S) /\ Len(SubSeq(q, 1, k - 1)) = k - 1
        /\ \A l \in 1..(k - 1) : SubSeq(q, 1, k - 1)[l] = q[l]
    BY <1>1
  <1>3. /\ SubSeq(q, k + 1, Len(q)) \in Seq(S) /\ Len(SubSeq(q, k + 1, Len(q))) = Len(q) - k
        /\ \A l \in 1..(Len(q) - k) : SubSeq(q, k + 1, Len(q))[l] = q[l + k]
    BY <1>1
  <1> DEFINE front == SubSeq(q, 1, k - 1)
             back == SubSeq(q, k + 1, Len(q))
  <1>4. /\ front \o back \in Seq(S) /\ Len(front \o back) = Len(front) + Len(back)
        /\ \A l \in 1..(Len(front) + Len(back)) : (front \o back)[l] =
              IF l <= Len(front) THEN front[l] ELSE back[l - Len(front)]
    BY <1>2, <1>3, ConcatProperties
  <1>5. RemoveAt(q, k) = front \o back
    BY DEF RemoveAt
  <1> HIDE DEF front, back
  <1>6. Len(RemoveAt(q, k)) = Len(q) - 1
    BY <1>1, <1>2, <1>3, <1>4, <1>5 DEF front, back
  <1>7. DOMAIN RemoveAt(q, k) = 1..(Len(q) - 1)
    BY <1>4, <1>5, <1>6, LenProperties
  <1>8. ASSUME NEW l \in 1..(Len(q) - 1)
        PROVE  RemoveAt(q, k)[l] = IF l < k THEN q[l] ELSE q[l + 1]
    <2>1. Len(front) = k - 1 /\ Len(back) = Len(q) - k
      BY <1>2, <1>3 DEF front, back
    <2>2. CASE l < k
      <3>1. front[l] = q[l]
        BY <1>1, <1>2, <2>2 DEF front
      <3>2. QED BY <1>1, <1>4, <1>5, <2>1, <2>2, <3>1
    <2>3. CASE ~(l < k)
      <3>1. l - (k - 1) \in 1..(Len(q) - k) /\ l - (k - 1) + k = l + 1
        BY <1>1, <2>3
      <3>2. back[l - (k - 1)] = q[l + 1]
        BY <1>3, <3>1 DEF back
      <3>3. l \in 1..(Len(front) + Len(back)) /\ ~(l <= Len(front))
            /\ l - Len(front) = l - (k - 1)
        BY <1>1, <2>1, <2>3
      <3>4. RemoveAt(q, k)[l] = back[l - (k - 1)]
        BY <1>4, <1>5, <3>3
      <3>5. QED BY <2>3, <3>2, <3>4
    <2>4. QED BY <2>2, <2>3
  <1>9. QED BY <1>4, <1>5, <1>6, <1>7, <1>8

LEMMA TailFacts ==
    ASSUME NEW S, NEW q \in Seq(S), q # <<>>
    PROVE  /\ Tail(q) \in Seq(S) /\ Head(q) \in S /\ Head(q) = q[1] /\ 1 \in DOMAIN q
           /\ Len(Tail(q)) = Len(q) - 1
           /\ \A l \in DOMAIN Tail(q) : Tail(q)[l] = q[l + 1] /\ l + 1 \in DOMAIN q
           /\ \A k \in DOMAIN q : k = 1 \/ (k - 1 \in DOMAIN Tail(q) /\ Tail(q)[k - 1] = q[k])
  <1>1. DOMAIN q = 1..Len(q) /\ Len(q) \in Nat /\ Len(q) # 0
    BY LenProperties, EmptySeq
  <1>2. /\ Head(q) \in S /\ Tail(q) \in Seq(S) /\ Len(Tail(q)) = Len(q) - 1
        /\ \A l \in 1..Len(Tail(q)) : Tail(q)[l] = q[l + 1]
    BY HeadTailProperties
  <1>3. DOMAIN Tail(q) = 1..(Len(q) - 1)
    BY <1>2, LenProperties
  <1>4. Head(q) = q[1] /\ 1 \in DOMAIN q
    BY <1>1
  <1>5. ASSUME NEW k \in DOMAIN q, k # 1
        PROVE  k - 1 \in DOMAIN Tail(q) /\ Tail(q)[k - 1] = q[k]
    <2>1. k - 1 \in 1..(Len(q) - 1) /\ (k - 1) + 1 = k
      BY <1>1, <1>5
    <2>2. QED BY <1>2, <1>3, <2>1
  <1>6. \A l \in DOMAIN Tail(q) : Tail(q)[l] = q[l + 1] /\ l + 1 \in DOMAIN q
    BY <1>1, <1>2, <1>3
  <1>7. QED BY <1>2, <1>4, <1>5, <1>6

LEMMA AppendFacts ==
    ASSUME NEW S, NEW q \in Seq(S), NEW e \in S
    PROVE  /\ Append(q, e) \in Seq(S) /\ Append(q, e) # <<>>
           /\ DOMAIN Append(q, e) = DOMAIN q \union {Len(q) + 1}
           /\ Len(q) + 1 \notin DOMAIN q
           /\ \A k \in DOMAIN q : Append(q, e)[k] = q[k]
           /\ Append(q, e)[Len(q) + 1] = e
           /\ q # <<>> => Head(Append(q, e)) = Head(q)
  <1>1. DOMAIN q = 1..Len(q) /\ Len(q) \in Nat
    BY LenProperties
  <1>2. /\ Append(q, e) \in Seq(S) /\ Append(q, e) # <<>>
        /\ DOMAIN Append(q, e) = 1..(Len(q) + 1)
        /\ \A k \in 1..Len(q) : Append(q, e)[k] = q[k]
        /\ Append(q, e)[Len(q) + 1] = e
    BY AppendProperties, LenProperties
  <1>3. q # <<>> => Head(Append(q, e)) = Head(q)
    <2> HAVE q # <<>>
    <2>1. Head(q) = q[1] /\ 1 \in 1..Len(q)
      BY <1>1, EmptySeq, HeadTailProperties
    <2>2. Head(Append(q, e)) = Append(q, e)[1]
      BY <1>2
    <2>3. QED BY <1>2, <2>1, <2>2
  <1>4. QED BY <1>1, <1>2, <1>3

\* The rows that some copies are of, when copies are added or taken away.
LEMMA IdsFacts ==
    ASSUME NEW deps \in Seq(Deps)
    PROVE  /\ \A dep \in Deps : IdsOf(Append(deps, dep)) = IdsOf(deps) \union {dep.id}
           /\ \A more \in Seq(Deps) : IdsOf(deps \o more) = IdsOf(deps) \union IdsOf(more)
           /\ deps # <<>> => IdsOf(deps) = IdsOf(Tail(deps)) \union {Head(deps).id}
           /\ \A k \in DOMAIN deps :
                 IdsOf(deps) = IdsOf(RemoveAt(deps, k)) \union {deps[k].id}
           /\ IdsOf(<<>>) = {}
  <1>1. \A dep \in Deps : IdsOf(Append(deps, dep)) = IdsOf(deps) \union {dep.id}
    <2> TAKE dep \in Deps
    <2>1. /\ DOMAIN Append(deps, dep) = DOMAIN deps \union {Len(deps) + 1}
          /\ \A k \in DOMAIN deps : Append(deps, dep)[k] = deps[k]
          /\ Append(deps, dep)[Len(deps) + 1] = dep
      BY AppendFacts
    <2>2. QED BY <2>1 DEF IdsOf
  <1>2. ASSUME NEW more \in Seq(Deps)
        PROVE  IdsOf(deps \o more) = IdsOf(deps) \union IdsOf(more)
    <2>1. /\ DOMAIN deps = 1..Len(deps) /\ DOMAIN more = 1..Len(more)
          /\ DOMAIN (deps \o more) = 1..(Len(deps) + Len(more))
          /\ Len(deps) \in Nat /\ Len(more) \in Nat
          /\ \A k \in 1..Len(deps) : (deps \o more)[k] = deps[k]
          /\ \A k \in 1..Len(more) : (deps \o more)[Len(deps) + k] = more[k]
      BY ConcatProperties
    <2>2. \A k \in DOMAIN (deps \o more) :
             k \in DOMAIN deps \/ \E l \in DOMAIN more : k = Len(deps) + l
      <3> TAKE k \in DOMAIN (deps \o more)
      <3>1. k > Len(deps) => k - Len(deps) \in 1..Len(more) /\ k = Len(deps) + (k - Len(deps))
        BY <2>1
      <3>2. QED BY <2>1, <3>1
    <2>3. \A l \in DOMAIN more : Len(deps) + l \in DOMAIN (deps \o more)
      BY <2>1
    <2>4. \A l \in DOMAIN deps : l \in DOMAIN (deps \o more)
      BY <2>1
    <2>5. IdsOf(deps \o more) \subseteq IdsOf(deps) \union IdsOf(more)
      BY <2>1, <2>2 DEF IdsOf
    <2>6. IdsOf(deps) \subseteq IdsOf(deps \o more)
      BY <2>1, <2>4 DEF IdsOf
    <2>7. IdsOf(more) \subseteq IdsOf(deps \o more)
      BY <2>1, <2>3 DEF IdsOf
    <2>8. QED BY <2>5, <2>6, <2>7
  <1>3. ASSUME deps # <<>> PROVE IdsOf(deps) = IdsOf(Tail(deps)) \union {Head(deps).id}
    <2>1. /\ Head(deps) = deps[1] /\ 1 \in DOMAIN deps
          /\ \A l \in DOMAIN Tail(deps) : Tail(deps)[l] = deps[l + 1] /\ l + 1 \in DOMAIN deps
          /\ \A k \in DOMAIN deps :
                k = 1 \/ (k - 1 \in DOMAIN Tail(deps) /\ Tail(deps)[k - 1] = deps[k])
      BY <1>3, TailFacts
    <2>2. IdsOf(deps) \subseteq IdsOf(Tail(deps)) \union {Head(deps).id}
      BY <2>1 DEF IdsOf
    <2>3. IdsOf(Tail(deps)) \union {Head(deps).id} \subseteq IdsOf(deps)
      BY <2>1 DEF IdsOf
    <2>4. QED BY <2>2, <2>3
  <1>4. ASSUME NEW k \in DOMAIN deps
        PROVE  IdsOf(deps) = IdsOf(RemoveAt(deps, k)) \union {deps[k].id}
    <2>1. DOMAIN deps = 1..Len(deps) /\ DOMAIN RemoveAt(deps, k) = 1..(Len(deps) - 1)
          /\ Len(deps) \in Nat /\ k \in 1..Len(deps)
          /\ \A l \in DOMAIN RemoveAt(deps, k) :
                RemoveAt(deps, k)[l] = IF l < k THEN deps[l] ELSE deps[l + 1]
      BY RemoveAtFacts, LenProperties
    <2>2. \A l \in DOMAIN deps : l = k \/
             \E m \in DOMAIN RemoveAt(deps, k) : RemoveAt(deps, k)[m] = deps[l]
      <3> TAKE l \in DOMAIN deps
      <3>1. CASE l < k
        BY <2>1, <3>1
      <3>2. CASE l > k
        <4>1. l - 1 \in DOMAIN RemoveAt(deps, k) /\ RemoveAt(deps, k)[l - 1] = deps[l]
          BY <2>1, <3>2
        <4>2. QED BY <4>1
      <3>3. QED BY <2>1, <3>1, <3>2
    <2>3. \A m \in DOMAIN RemoveAt(deps, k) :
             \E l \in DOMAIN deps : RemoveAt(deps, k)[m] = deps[l]
      BY <2>1
    <2>4. QED BY <2>2, <2>3 DEF IdsOf
  <1>5. IdsOf(<<>>) = {}
    BY DEF IdsOf
  <1>6. QED BY <1>1, <1>2, <1>3, <1>4, <1>5

-----------------------------------------------------------------------------
(* What the operators that actions share leave behind.                     *)

\* The request of c is now t; no other request has changed.
Becomes(c, t) ==
    /\ t \in Tasks /\ req' \in [Clients -> Tasks] /\ req'[c] = t
    /\ \A d \in Clients \ {c} : req'[d] = req[d]

LEMMA Assigned ==
    ASSUME TypeOK, NEW c \in Clients, NEW t \in Tasks, req' = [req EXCEPT ![c] = t]
    PROVE  Becomes(c, t)
  BY DEF TypeOK, Becomes

\* Nothing is in hand when a request is over.
LEMMA IdleOK == Idle \in Tasks /\ TaskOK(Idle) /\ Idle.made = <<>> /\ Idle.stage = "idle"
  <1>1. <<>> \in Seq(Names) /\ <<>> \in Seq(Deps)
    BY EmptySeq
  <1>2. QED BY <1>1 DEF Idle, Tasks, Stages, TaskOK, Queued, NoDep

LEMMA Finished ==
    ASSUME TypeOK, NEW c \in Clients, Finish(c)
    PROVE  Becomes(c, Idle)
  BY Assigned, IdleOK DEF Finish

LEMMA TasksKept ==
    ASSUME TaskInv, NEW c \in Clients, NEW t, TaskOK(t), Becomes(c, t)
    PROVE  TaskInv'
  <1>1. SUFFICES ASSUME NEW d \in Clients PROVE TaskOK(req'[d])
    BY DEF TaskInv, TaskOK
  <1>2. CASE d = c
    BY <1>2 DEF Becomes
  <1>3. CASE d # c
    BY <1>3 DEF Becomes, TaskInv
  <1>4. QED BY <1>2, <1>3

\* A row changes its status only: it neither comes nor goes.
LEMMA StatusSet ==
    ASSUME TypeOK, NEW i \in Ids, NEW s \in Statuses \ {"absent"}, SetStatus(i, s)
    PROVE  /\ rows' \in [Ids -> [status : Statuses, name : Names \union {NoName}]]
           /\ \A j \in Ids : rows'[j].name = rows[j].name
           /\ \A j \in Ids : j # i => rows'[j] = rows[j]
           /\ rows'[i].status = IF Present(i) THEN s ELSE "absent"
           /\ \A j \in Ids : rows'[j].status = "absent" <=> rows[j].status = "absent"
           /\ \A j \in Ids : rows[j] = NoRow => rows'[j] = NoRow
  BY DEF TypeOK, SetStatus, Present, NoRow

LEMMA CopyOfRow ==
    ASSUME TypeOK, NEW i \in Ids, Present(i)
    PROVE  DepOf(i) \in Deps /\ DepOf(i).id = i
  BY DEF TypeOK, Present, DepOf, Deps

LEMMA IdsTyped ==
    ASSUME NEW deps \in Seq(Deps)
    PROVE  IdsOf(deps) \subseteq Ids /\ \A k \in DOMAIN deps : deps[k] \in Deps
  <1>1. \A k \in DOMAIN deps : deps[k] \in Deps
    BY LenProperties, ElementOfSeq
  <1>2. QED BY <1>1 DEF IdsOf, Deps

\* The head of the queue, when something is added at its end.
LEMMA Queueing ==
    ASSUME TypeOK, NEW who \in Clients \union Installers, NEW dep \in Deps,
           queue' = Append(queue, [who |-> who, dep |-> dep])
    PROVE  /\ queue' \in Seq([who : Clients \union Installers, dep : Deps])
           /\ DOMAIN queue' = DOMAIN queue \union {Len(queue) + 1}
           /\ Len(queue) + 1 \notin DOMAIN queue
           /\ \A k \in DOMAIN queue : queue'[k] = queue[k]
           /\ queue'[Len(queue) + 1].who = who /\ queue'[Len(queue) + 1].dep = dep
           /\ \A x : Serves(x) => Serves(x)'
  <1> DEFINE e == [who |-> who, dep |-> dep]
  <1>1. e \in [who : Clients \union Installers, dep : Deps]
    OBVIOUS
  <1>2. /\ queue' \in Seq([who : Clients \union Installers, dep : Deps]) /\ queue' # <<>>
        /\ DOMAIN queue' = DOMAIN queue \union {Len(queue) + 1}
        /\ Len(queue) + 1 \notin DOMAIN queue
        /\ \A k \in DOMAIN queue : queue'[k] = queue[k]
        /\ queue'[Len(queue) + 1] = e
        /\ queue # <<>> => Head(queue') = Head(queue)
    BY SMTT(20), <1>1, AppendFacts DEF TypeOK
  <1>3. QED BY <1>2 DEF Serves

\* Leaving the queue: the others keep their places, and the head if they are there.
LEMMA Leaving ==
    ASSUME TypeOK, OnePlace, NEW c \in Clients, c # "job", Leave(c)
    PROVE  /\ queue' \in Seq([who : Clients \union Installers, dep : Deps])
           /\ \A l \in DOMAIN queue' : \E k \in DOMAIN queue : queue'[l] = queue[k]
           /\ \A l \in DOMAIN queue' : queue'[l].who # c
           /\ \A k \in DOMAIN queue : queue[k].who # c =>
                 \E l \in DOMAIN queue' : queue'[l] = queue[k]
           /\ OnePlace'
           /\ \A x : x # c /\ Serves(x) => Serves(x)'
  <1> DEFINE Q == [who : Clients \union Installers, dep : Deps]
  <1>1. queue \in Seq(Q)
    BY DEF TypeOK
  <1>2. CASE \A k \in DOMAIN queue : queue[k].who # c
    <2>1. queue' = queue
      BY <1>2 DEF Leave
    <2>2. QED BY <1>1, <1>2, <2>1 DEF OnePlace, Serves
  <1>3. CASE ~ \A k \in DOMAIN queue : queue[k].who # c
    <2>1. PICK k \in DOMAIN queue : queue[k].who = c /\ queue' = RemoveAt(queue, k)
      BY <1>3 DEF Leave
    <2>2. /\ DOMAIN queue = 1..Len(queue) /\ Len(queue) \in Nat /\ k \in 1..Len(queue)
          /\ queue' \in Seq(Q) /\ Len(queue') = Len(queue) - 1
          /\ DOMAIN queue' = 1..(Len(queue) - 1)
          /\ \A l \in DOMAIN queue' : queue'[l] = IF l < k THEN queue[l] ELSE queue[l + 1]
      BY <1>1, <2>1, RemoveAtFacts, LenProperties
    <2> HIDE DEF Q
    <2>3. \A l \in DOMAIN queue : queue[l].who = c => l = k
      BY <2>1 DEF OnePlace
    <2>4. \A l \in DOMAIN queue' :
             \E m \in DOMAIN queue : m # k /\ queue'[l] = queue[m]
                                     /\ m = IF l < k THEN l ELSE l + 1
      BY <2>2
    <2>5. \A l \in DOMAIN queue : l # k =>
             \E m \in DOMAIN queue' : queue'[m] = queue[l]
      <3> TAKE l \in DOMAIN queue
      <3>1. CASE l < k
        BY <2>2, <3>1
      <3>2. CASE l > k
        <4>1. l - 1 \in DOMAIN queue' /\ queue'[l - 1] = queue[l]
          BY <2>2, <3>2
        <4>2. QED BY <4>1
      <3>3. QED BY <2>2, <3>1, <3>2
    <2>6. OnePlace'
      <3>1. SUFFICES ASSUME NEW l \in DOMAIN queue', NEW m \in DOMAIN queue',
                            queue'[l].who = queue'[m].who, queue'[l].who # "job"
                     PROVE  l = m
        BY DEF OnePlace
      <3>2. PICK l2 \in DOMAIN queue :
               queue'[l] = queue[l2] /\ l2 = IF l < k THEN l ELSE l + 1
        BY <2>4
      <3>3. PICK m2 \in DOMAIN queue :
               queue'[m] = queue[m2] /\ m2 = IF m < k THEN m ELSE m + 1
        BY <2>4
      <3>4. l2 = m2
        BY <3>1, <3>2, <3>3 DEF OnePlace
      <3>5. QED BY <2>2, <3>2, <3>3, <3>4
    <2>7. ASSUME NEW x, x # c, Serves(x) PROVE Serves(x)'
      <3>1. queue # <<>> /\ Head(queue) = queue[1] /\ 1 \in DOMAIN queue
        BY <1>1, <2>7, TailFacts DEF Serves
      <3>2. k # 1
        BY <2>1, <2>7, <3>1 DEF Serves
      <3>3. 1 \in DOMAIN queue' /\ queue'[1] = queue[1]
        BY <2>2, <3>1, <3>2
      <3>4. queue' # <<>> /\ Head(queue') = queue'[1]
        BY <2>2, <3>3, EmptySeq, TailFacts
      <3>5. QED BY <2>7, <3>1, <3>3, <3>4 DEF Serves
    <2>8. QED BY <2>1, <2>2, <2>3, <2>4, <2>5, <2>6, <2>7 DEF Q
  <1>4. QED BY <1>2, <1>3

-----------------------------------------------------------------------------
(* A request goes on, and neither the table nor the queue changes.         *)

Kept == TypeOK /\ QueueInv

\* What a step of one request must respect when it touches its own task only.
LEMMA RequestStep ==
    ASSUME Kept, NEW c \in Clients, NEW t, TaskOK(t), Becomes(c, t),
           req[c].stage \notin Queued, t.stage \notin Queued,
           abandoned \subseteq abandoned', abandoned' \subseteq Ids,
           spawned' \in Seq(Deps), IdsOf(spawned) \subseteq IdsOf(spawned'),
           IdsOf(req[c].made) \subseteq abandoned' \union IdsOf(t.made) \union IdsOf(spawned'),
           req[c].stage \in Owing => (rows[req[c].dep.id].status # "installing"
               \/ req[c].dep.id \in abandoned' \union IdsOf(t.made) \union IdsOf(spawned')),
           UNCHANGED <<tableVars, packages, queue, bootVars, purged>>
    PROVE  Kept'
  <1>1. /\ rows' = rows /\ nextId' = nextId /\ packages' = packages /\ queue' = queue
        /\ startup' = startup /\ ready' = ready /\ restarts' = restarts /\ purged' = purged
    BY DEF tableVars, bootVars
  <1>2. /\ t \in Tasks /\ req' \in [Clients -> Tasks] /\ req'[c] = t
        /\ \A d \in Clients \ {c} : req'[d] = req[d]
    BY DEF Becomes
  <1>3. TypeOK'
    BY <1>1, <1>2 DEF Kept, TypeOK
  <1>4. TaskInv'
    BY TasksKept DEF Kept, QueueInv
  <1>5. PermitInv'
    <2>1. \A x : Serves(x)' <=> Serves(x)
      BY <1>1 DEF Serves
    <2>2. QueuedOnly /\ AtHead /\ OnePlace /\ StartupFirst
      BY DEF Kept, QueueInv, PermitInv
    <2>3. QueuedOnly'
      BY <1>1, <1>2, <2>2 DEF QueuedOnly
    <2>4. AtHead'
      BY <1>2, <2>1, <2>2 DEF AtHead, Queued
    <2>5. OnePlace' /\ StartupFirst'
      BY <1>1, <2>2 DEF OnePlace, StartupFirst
    <2>6. QED BY <2>3, <2>4, <2>5 DEF PermitInv
  <1>6. RemovalInProgress'
    <2>1. SUFFICES ASSUME NEW i \in Ids, rows[i].status \in {"removing", "removed"},
                          i \notin abandoned
                   PROVE  \E d \in Clients : /\ Serves(d)' /\ req'[d].dep.id = i
                                             /\ req'[d].stage \in {"removing", "dropping"}
      BY <1>1 DEF RemovalInProgress
    <2>2. PICK d \in Clients : /\ Serves(d) /\ req[d].dep.id = i
                               /\ req[d].stage \in {"removing", "dropping"}
      BY <2>1 DEF Kept, QueueInv, RemovalInProgress
    <2>3. req'[d] = req[d] /\ Serves(d)'
      BY <1>1, <1>2, <2>2 DEF Queued, Serves
    <2>4. QED BY <2>2, <2>3
  <1>7. InstallingIsPending'
    <2>1. SUFFICES ASSUME NEW i \in Ids, rows[i].status = "installing", i \notin abandoned'
                   PROVE  Pending(i)'
      BY <1>1 DEF InstallingIsPending
    <2>2. Pending(i)
      BY <2>1 DEF Kept, QueueInv, InstallingIsPending
    <2>3. CASE i \in IdsOf(spawned) \union IdsOf(startup) \union IdsOf(req[c].made)
      BY <1>1, <1>2, <2>1, <2>3 DEF Pending
    <2>4. CASE \E k \in DOMAIN queue : queue[k].who = "job" /\ queue[k].dep.id = i
      BY <1>1, <2>4 DEF Pending
    <2>5. CASE \E d \in Clients \ {c} : i \in IdsOf(req[d].made)
                   \/ (req[d].stage \in Owing /\ req[d].dep.id = i)
      <3>1. PICK d \in Clients \ {c} : i \in IdsOf(req[d].made)
                   \/ (req[d].stage \in Owing /\ req[d].dep.id = i)
        BY <2>5
      <3>2. req'[d] = req[d]
        BY <1>2
      <3>3. QED BY <3>1, <3>2 DEF Pending
    <2>6. CASE req[c].stage \in Owing /\ req[c].dep.id = i
      BY <1>1, <1>2, <2>1, <2>6 DEF Pending
    <2>7. QED BY <2>2, <2>3, <2>4, <2>5, <2>6 DEF Pending
  <1>8. QED BY <1>3, <1>4, <1>5, <1>6, <1>7 DEF Kept, QueueInv

LEMMA Received ==
    ASSUME Kept, NEW c \in Clients, NEW op \in {"create", "ensure", "delete", "reinstall"},
           NEW stage \in {"check", "found"}, NEW todo \in Seq(Names),
           NEW dep \in Deps \union {NoDep}, Receive(c, op, stage, todo, dep),
           stage = "check" => op \in {"create", "ensure"}, stage = "found" => dep \in Deps,
           UNCHANGED <<tableVars, packages, spawned, queue, bootVars, historyVars>>
    PROVE  Kept'
  <1> DEFINE t == [op |-> op, stage |-> stage, todo |-> todo, made |-> <<>>, dep |-> dep]
  <1>1. t \in Tasks /\ TaskOK(t) /\ t.stage = stage
    <2>1. <<>> \in Seq(Deps)
      BY EmptySeq
    <2>2. QED BY <2>1 DEF Tasks, Stages, TaskOK, Queued
  <1>2. req[c].stage = "idle" /\ Becomes(c, t)
    BY <1>1, Assigned DEF Receive, Kept
  <1>3. req[c].made = <<>> /\ IdsOf(<<>>) = {}
    <2>1. TaskOK(req[c])
      BY DEF Kept, QueueInv, TaskInv
    <2>2. QED BY <1>2, <2>1 DEF TaskOK, IdsOf
  <1>4. abandoned' = abandoned /\ purged' = purged /\ spawned' = spawned
    BY DEF historyVars
  <1>5. abandoned \subseteq Ids /\ spawned \in Seq(Deps)
    BY DEF Kept, TypeOK
  <1> HIDE DEF t
  <1>6. QED BY <1>1, <1>2, <1>3, <1>4, <1>5, RequestStep DEF Queued, Owing

LEMMA ArriveStep ==
    ASSUME Kept, NEW c \in Clients, Arrive(c)
    PROVE  Kept'
  <1>1. CASE create_batch(c)
    <2>1. PICK names \in Requests : Receive(c, "create", "check", names, NoDep)
      BY <1>1 DEF create_batch
    <2>2. names \in Seq(Names)
      BY QueueAssumption
    <2>3. QED BY <1>1, <2>1, <2>2, Received DEF create_batch
  <1>2. CASE ensure_dependencies(c)
    <2>1. PICK names \in Requests : Receive(c, "ensure", "check", names, NoDep)
      BY <1>2 DEF ensure_dependencies
    <2>2. names \in Seq(Names)
      BY QueueAssumption
    <2>3. QED BY <1>2, <2>1, <2>2, Received DEF ensure_dependencies
  <1>3. CASE Get(c)
    <2>1. PICK i \in Ids, op \in {"delete", "reinstall"} :
             Present(i) /\ Receive(c, op, "found", <<>>, DepOf(i))
      BY <1>3 DEF Get
    <2>2. DepOf(i) \in Deps /\ <<>> \in Seq(Names)
      BY <2>1, CopyOfRow, EmptySeq DEF Kept
    <2>3. QED BY <1>3, <2>1, <2>2, Received DEF Get
  <1>4. QED BY <1>1, <1>2, <1>3 DEF Arrive

-----------------------------------------------------------------------------
(* create_batch and ensure_dependencies.                                   *)

\* What is known of a request whose stage is not one of the queue.
LEMMA InHand ==
    ASSUME Kept, NEW c \in Clients
    PROVE  /\ TaskOK(req[c]) /\ req[c] \in Tasks
           /\ req[c].todo \in Seq(Names) /\ req[c].made \in Seq(Deps)
           /\ abandoned \subseteq Ids /\ spawned \in Seq(Deps) /\ startup \in Seq(Deps)
           /\ IdsOf(req[c].made) \subseteq Ids /\ IdsOf(<<>>) = {}
  <1>1. TaskOK(req[c]) /\ req[c] \in Tasks /\ abandoned \subseteq Ids
        /\ spawned \in Seq(Deps) /\ startup \in Seq(Deps)
    BY DEF Kept, QueueInv, TaskInv, TypeOK
  <1>2. req[c].todo \in Seq(Names) /\ req[c].made \in Seq(Deps)
    BY <1>1 DEF Tasks
  <1>3. IdsOf(req[c].made) \subseteq Ids /\ IdsOf(<<>>) = {}
    BY <1>2, IdsTyped DEF IdsOf
  <1>4. QED BY <1>1, <1>2, <1>3

LEMMA CheckStep ==
    ASSUME Kept, NEW c \in Clients, CheckNew(c) \/ CheckKnown(c)
    PROVE  Kept'
  <1> DEFINE t == IF CheckNew(c) THEN [req[c] EXCEPT !.stage = "insert"]
                  ELSE [req[c] EXCEPT !.todo = Tail(req[c].todo)]
  <1>1. /\ req[c].stage = "check" /\ req[c].todo # <<>>
        /\ req' = [req EXCEPT ![c] = t]
        /\ UNCHANGED <<tableVars, packages, spawned, queue, bootVars, historyVars>>
    BY DEF CheckNew, CheckKnown
  <1>2. Tail(req[c].todo) \in Seq(Names)
    BY <1>1, InHand, TailFacts
  <1>3. t \in Tasks /\ TaskOK(t) /\ t.stage \in {"check", "insert"} /\ t.made = req[c].made
    BY <1>1, <1>2, InHand DEF Tasks, Stages, TaskOK, Queued
  <1>4. Becomes(c, t)
    BY <1>1, <1>3, Assigned DEF Kept
  <1>5. abandoned' = abandoned /\ purged' = purged /\ spawned' = spawned
    BY <1>1 DEF historyVars
  <1> HIDE DEF t
  <1>6. QED BY <1>1, <1>3, <1>4, <1>5, InHand, RequestStep DEF Queued, Owing

\* The request gives up, or its new row is gone.
LEMMA GiveUpStep ==
    ASSUME Kept, NEW c \in Clients, CheckRefuse(c) \/ FetchNone(c)
    PROVE  Kept'
  <1>1. /\ req[c].stage \in {"check", "fetch"} /\ Finish(c)
        /\ abandoned' = abandoned \union IdsOf(req[c].made)
        /\ req[c].stage = "fetch" => ~Present(req[c].dep.id)
        /\ UNCHANGED <<tableVars, packages, spawned, queue, bootVars, purged>>
    BY DEF CheckRefuse, FetchNone
  <1>2. Becomes(c, Idle)
    BY <1>1, Finished DEF Kept
  <1>3. req[c].stage \in Owing => rows[req[c].dep.id].status # "installing"
    BY <1>1 DEF Present, Owing
  <1>4. QED BY <1>1, <1>2, <1>3, IdleOK, InHand, RequestStep DEF Queued

LEMMA FetchStep ==
    ASSUME Kept, NEW c \in Clients, Fetch(c)
    PROVE  Kept'
  <1> DEFINE dep == DepOf(req[c].dep.id)
  <1>1. /\ req[c].stage = "fetch" /\ Present(req[c].dep.id)
        /\ UNCHANGED <<tableVars, packages, queue, bootVars, historyVars>>
    BY DEF Fetch
  <1>2. req[c].dep.id \in Ids
    BY <1>1, InHand DEF TaskOK, Deps
  <1>3. dep \in Deps /\ dep.id = req[c].dep.id
    BY <1>1, <1>2, CopyOfRow DEF Kept
  <1>4. abandoned' = abandoned /\ purged' = purged
    BY <1>1 DEF historyVars
  <1> HIDE DEF dep
  <1>5. CASE req[c].op = "create"
    <2> DEFINE t == [op |-> "create", stage |-> "check", todo |-> req[c].todo,
                     made |-> Append(req[c].made, dep), dep |-> NoDep]
    <2>1. req' = [req EXCEPT ![c] = t] /\ spawned' = spawned
      BY <1>5, InHand DEF Fetch, dep, Tasks
    <2>2. Append(req[c].made, dep) \in Seq(Deps)
      BY <1>3, InHand, AppendFacts
    <2>3. t \in Tasks /\ TaskOK(t) /\ t.stage = "check"
      BY <2>2, InHand DEF Tasks, Stages, TaskOK, Queued
    <2>4. IdsOf(t.made) = IdsOf(req[c].made) \union {dep.id}
      BY <1>3, InHand, IdsFacts
    <2>5. Becomes(c, t)
      BY <2>1, <2>3, Assigned DEF Kept
    <2> HIDE DEF t
    <2>6. QED BY <1>1, <1>3, <1>4, <2>1, <2>3, <2>4, <2>5, InHand, RequestStep DEF Queued
  <1>6. CASE req[c].op = "ensure"
    <2> DEFINE t == [op |-> "ensure", stage |-> "check", todo |-> req[c].todo,
                     made |-> req[c].made, dep |-> NoDep]
    <2>1. req' = [req EXCEPT ![c] = t] /\ spawned' = Append(spawned, dep)
      BY <1>6, InHand DEF Fetch, dep, Tasks
    <2>2. t \in Tasks /\ TaskOK(t) /\ t.stage = "check" /\ t.made = req[c].made
      BY <1>1, <1>6, InHand DEF Tasks, Stages, TaskOK, Queued
    <2>3. spawned' \in Seq(Deps) /\ IdsOf(spawned') = IdsOf(spawned) \union {dep.id}
      BY <1>3, <2>1, InHand, IdsFacts, AppendFacts
    <2>4. Becomes(c, t)
      BY <2>1, <2>2, Assigned DEF Kept
    <2> HIDE DEF t
    <2>5. QED BY <1>1, <1>3, <1>4, <2>2, <2>3, <2>4, InHand, RequestStep DEF Queued
  <1>7. QED BY <1>5, <1>6 DEF Fetch

LEMMA CreateDoneStep ==
    ASSUME Kept, NEW c \in Clients, CreateDone(c)
    PROVE  Kept'
  <1>1. /\ req[c].stage = "check" /\ Finish(c) /\ spawned' = spawned \o req[c].made
        /\ UNCHANGED <<tableVars, packages, queue, bootVars, historyVars>>
    BY DEF CreateDone
  <1>2. Becomes(c, Idle)
    BY <1>1, Finished DEF Kept
  <1>3. /\ spawned' \in Seq(Deps)
        /\ IdsOf(spawned') = IdsOf(spawned) \union IdsOf(req[c].made)
    BY <1>1, InHand, IdsFacts, ConcatProperties
  <1>4. abandoned' = abandoned /\ purged' = purged
    BY <1>1 DEF historyVars
  <1>5. QED BY <1>1, <1>2, <1>3, <1>4, IdleOK, InHand, RequestStep DEF Queued, Owing

\* The new row is at hand for its handler, which spawns its installer in time.
LEMMA InsertStep ==
    ASSUME Kept, NEW c \in Clients, Insert(c)
    PROVE  Kept'
  <1> DEFINE new == [id |-> nextId, name |-> Head(req[c].todo)]
             t == [req[c] EXCEPT !.stage = "fetch", !.todo = Tail(req[c].todo), !.dep = new]
  <1>1. /\ req[c].stage = "insert" /\ nextId <= MaxId
        /\ rows' = [rows EXCEPT ![nextId] = [status |-> "installing", name |-> new.name]]
        /\ nextId' = nextId + 1 /\ purged' = purged \ {new.name}
        /\ packages' = packages /\ spawned' = spawned /\ queue' = queue
        /\ startup' = startup /\ ready' = ready /\ restarts' = restarts
        /\ abandoned' = abandoned
    BY DEF Insert, bootVars
  <1>2. /\ req[c].todo # <<>> /\ Head(req[c].todo) \in Names /\ Tail(req[c].todo) \in Seq(Names)
        /\ nextId \in Ids /\ new \in Deps
    <2>1. req[c].todo # <<>>
      BY <1>1, InHand DEF TaskOK
    <2>2. Head(req[c].todo) \in Names /\ Tail(req[c].todo) \in Seq(Names)
      BY <2>1, InHand, TailFacts
    <2>3. nextId \in Ids
      BY <1>1, QueueAssumption DEF Kept, TypeOK, Ids
    <2>4. QED BY <2>1, <2>2, <2>3 DEF Deps
  <1>3. t \in Tasks /\ TaskOK(t)
    BY <1>1, <1>2, InHand DEF Tasks, Stages, TaskOK, Queued
  <1>4. req' = [req EXCEPT ![c] = t]
    <2>1. req' = [req EXCEPT ![c].stage = "fetch", ![c].todo = Tail(@), ![c].dep = new]
      BY DEF Insert
    <2> HIDE DEF new
    <2>2. QED BY <2>1 DEF Kept, TypeOK
  <1>5. /\ Becomes(c, t) /\ req'[c].stage = "fetch" /\ req'[c].dep.id = nextId
        /\ req'[c].made = req[c].made /\ \A d \in Clients \ {c} : req'[d] = req[d]
    <2>1. t.stage = "fetch" /\ t.dep.id = nextId /\ t.made = req[c].made
      BY InHand DEF Tasks
    <2> HIDE DEF t
    <2>2. Becomes(c, t)
      BY <1>3, <1>4, Assigned DEF Kept
    <2>3. QED BY <2>1, <2>2 DEF Becomes
  <1> HIDE DEF t
  <1>6. /\ rows' \in [Ids -> [status : Statuses, name : Names \union {NoName}]]
        /\ \A i \in Ids : i # nextId => rows'[i] = rows[i]
        /\ rows'[nextId].status = "installing" /\ rows'[nextId].name \in Names
        /\ rows[nextId].status = "absent"
    BY <1>1, <1>2, QueueAssumption DEF Kept, TypeOK, Statuses, Ids, NoRow
  <1> HIDE DEF new
  <1>7. TypeOK'
    <2>1. /\ nextId' \in 1..(MaxId + 1) /\ \A i \in Ids : i >= nextId' => rows'[i] = NoRow
      BY <1>1, <1>2, <1>6, QueueAssumption DEF Kept, TypeOK, Ids
    <2>2. \A i \in Ids : rows'[i].status = "absent" <=> rows'[i].name = NoName
      BY <1>6, QueueAssumption DEF Kept, TypeOK
    <2>3. req' \in [Clients -> Tasks]
      BY <1>5 DEF Becomes
    <2>4. QED BY <1>1, <1>6, <2>1, <2>2, <2>3 DEF Kept, TypeOK
  <1>8. TaskInv'
    BY <1>3, <1>5, TasksKept DEF Kept, QueueInv
  <1>9. PermitInv'
    <2>1. QueuedOnly /\ AtHead /\ OnePlace /\ StartupFirst
      BY DEF Kept, QueueInv, PermitInv
    <2>2. QueuedOnly' /\ AtHead'
      BY <1>1, <1>5, <2>1 DEF QueuedOnly, AtHead, Queued, Serves
    <2>3. OnePlace' /\ StartupFirst'
      BY <1>1, <2>1 DEF OnePlace, StartupFirst
    <2>4. QED BY <2>2, <2>3 DEF PermitInv
  <1>10. RemovalInProgress'
    <2>1. SUFFICES ASSUME NEW i \in Ids, rows[i].status \in {"removing", "removed"},
                          i \notin abandoned
                   PROVE  \E d \in Clients : /\ Serves(d)' /\ req'[d].dep.id = i
                                             /\ req'[d].stage \in {"removing", "dropping"}
      BY <1>1, <1>6 DEF RemovalInProgress
    <2>2. PICK d \in Clients : /\ Serves(d) /\ req[d].dep.id = i
                               /\ req[d].stage \in {"removing", "dropping"}
      BY <2>1 DEF Kept, QueueInv, RemovalInProgress
    <2>3. req'[d] = req[d] /\ Serves(d)'
      BY <1>1, <1>5, <2>2 DEF Serves
    <2>4. QED BY <2>2, <2>3
  <1>11. InstallingIsPending'
    <2>1. SUFFICES ASSUME NEW i \in Ids, rows'[i].status = "installing", i \notin abandoned
                   PROVE  Pending(i)'
      BY <1>1 DEF InstallingIsPending
    <2>2. CASE i = nextId
      BY <1>5, <2>2 DEF Pending, Owing
    <2>3. CASE i # nextId
      <3>1. Pending(i)
        BY <1>6, <2>1, <2>3 DEF Kept, QueueInv, InstallingIsPending
      <3>2. \A d \in Clients : req'[d].made = req[d].made
                /\ (req[d].stage \in Owing => req'[d] = req[d])
        BY <1>1, <1>5 DEF Owing
      <3>3. QED BY <1>1, <3>1, <3>2 DEF Pending
    <2>4. QED BY <2>2, <2>3
  <1>12. QED BY <1>7, <1>8, <1>9, <1>10, <1>11 DEF Kept, QueueInv

-----------------------------------------------------------------------------
(* delete and reinstall.                                                   *)

\* A client whose turn it is takes the place of no one else.
LEMMA DeleteWaitStep ==
    ASSUME Kept, NEW c \in Clients, DeleteWait(c)
    PROVE  Kept'
  <1> DEFINE t == [req[c] EXCEPT !.stage = "waiting"]
  <1>1. /\ req[c].op = "delete" /\ req[c].stage = "found" /\ req' = [req EXCEPT ![c] = t]
        /\ queue' = Append(queue, [who |-> c, dep |-> req[c].dep])
        /\ rows' = rows /\ nextId' = nextId /\ packages' = packages /\ spawned' = spawned
        /\ startup' = startup /\ ready' = ready /\ restarts' = restarts
        /\ abandoned' = abandoned /\ purged' = purged
    BY DEF DeleteWait, tableVars, bootVars, historyVars
  <1>2. req[c].dep \in Deps /\ req[c].made = <<>>
    BY <1>1, InHand DEF TaskOK
  <1>3. t \in Tasks /\ TaskOK(t)
    BY <1>1, <1>2, InHand DEF Tasks, Stages, TaskOK, Queued
  <1>4. /\ Becomes(c, t) /\ req' \in [Clients -> Tasks] /\ req'[c].stage = "waiting"
        /\ req'[c].made = <<>> /\ \A d \in Clients \ {c} : req'[d] = req[d]
    BY ZenonT(30), <1>1, <1>2, <1>3, Assigned, InHand DEF Kept, Becomes, Tasks
  <1> HIDE DEF t
  <1>5. /\ queue' \in Seq([who : Clients \union Installers, dep : Deps])
        /\ DOMAIN queue' = DOMAIN queue \union {Len(queue) + 1}
        /\ \A k \in DOMAIN queue : queue'[k] = queue[k]
        /\ queue'[Len(queue) + 1].who = c
        /\ \A x : Serves(x) => Serves(x)'
    BY <1>1, <1>2, Queueing DEF Kept
  <1>6. c # "job" /\ c # "startup" /\ c \notin Installers
    BY QueueAssumption DEF Installers
  <1>7. QueuedOnly /\ AtHead /\ OnePlace /\ StartupFirst
    BY DEF Kept, QueueInv, PermitInv
  <1>8. \A k \in DOMAIN queue : queue[k].who # c
    BY <1>1, <1>7 DEF QueuedOnly, Queued
  <1>9. TypeOK'
    BY <1>1, <1>4, <1>5 DEF Kept, TypeOK
  <1>10. TaskInv'
    BY <1>3, <1>4, TasksKept DEF Kept, QueueInv
  <1>11. PermitInv'
    <2>1. QueuedOnly' /\ AtHead'
      BY <1>4, <1>5, <1>7 DEF QueuedOnly, AtHead, Queued
    <2>2. OnePlace'
      BY <1>5, <1>7, <1>8 DEF OnePlace
    <2>3. StartupFirst'
      BY <1>1, <1>5, <1>6, <1>7 DEF StartupFirst
    <2>4. QED BY <2>1, <2>2, <2>3 DEF PermitInv
  <1>12. RemovalInProgress'
    <2>1. \A d \in Clients : Serves(d) /\ req[d].stage \in {"removing", "dropping"}
             => Serves(d)' /\ req'[d] = req[d]
      BY <1>1, <1>4, <1>5
    <2>2. QED BY <1>1, <2>1 DEF Kept, QueueInv, RemovalInProgress
  <1>13. InstallingIsPending'
    <2>1. \A d \in Clients : /\ IdsOf(req[d].made) \subseteq IdsOf(req'[d].made)
                             /\ req[d].stage \in Owing => req'[d] = req[d]
      BY <1>1, <1>2, <1>4, InHand DEF Owing
    <2>2. \A i \in Ids : Pending(i) => Pending(i)'
      BY <1>1, <1>5, <2>1 DEF Pending
    <2>3. QED BY <1>1, <2>2 DEF Kept, QueueInv, InstallingIsPending
  <1>14. QED BY <1>9, <1>10, <1>11, <1>12, <1>13 DEF Kept, QueueInv

\* A deletion at work holds the permit: what is in the queue and in the other
\* requests stays, and the only row that may change is the one it deletes.
LEMMA AtWorkStep ==
    ASSUME Kept, NEW c \in Clients, Serves(c), req[c].stage \in Queued,
           NEW stage \in {"removing", "dropping"}, NEW status \in {"removing", "removed"},
           req' = [req EXCEPT ![c].stage = stage],
           \/ SetStatus(req[c].dep.id, status)
           \/ rows' = rows,
           packages' \subseteq packages, purged' \subseteq Names,
           UNCHANGED <<nextId, spawned, queue, bootVars, abandoned>>
    PROVE  Kept'
  <1> DEFINE t == [req[c] EXCEPT !.stage = stage]
             d == req[c].dep.id
  <1>1. /\ nextId' = nextId /\ spawned' = spawned /\ queue' = queue
        /\ startup' = startup /\ ready' = ready /\ restarts' = restarts
        /\ abandoned' = abandoned /\ req' = [req EXCEPT ![c] = t]
    BY DEF bootVars
  <1>2. req[c].dep \in Deps /\ req[c].made = <<>> /\ d \in Ids
    BY InHand DEF TaskOK, Queued, Deps
  <1>3. t \in Tasks /\ TaskOK(t) /\ t.stage = stage /\ t.made = <<>> /\ t.dep = req[c].dep
    BY <1>2, InHand DEF Tasks, Stages, TaskOK, Queued
  <1> HIDE DEF t
  <1>4. /\ Becomes(c, t) /\ req' \in [Clients -> Tasks] /\ req'[c].stage = stage
        /\ req'[c].made = <<>> /\ req'[c].dep.id = d
        /\ \A e \in Clients \ {c} : req'[e] = req[e]
    BY <1>1, <1>3, Assigned DEF Kept, Becomes
  <1>5. /\ rows' \in [Ids -> [status : Statuses, name : Names \union {NoName}]]
        /\ \A j \in Ids : rows'[j].name = rows[j].name
        /\ \A j \in Ids : j # d => rows'[j] = rows[j]
        /\ \A j \in Ids : rows'[j].status = "absent" <=> rows[j].status = "absent"
        /\ \A j \in Ids : rows[j] = NoRow => rows'[j] = NoRow
        /\ rows'[d].status # "installing" \/ rows'[d].status = rows[d].status
    <2>1. CASE SetStatus(d, status)
      BY <1>2, <2>1, StatusSet DEF Statuses, Kept
    <2>2. CASE rows' = rows
      BY <1>2, <2>2 DEF Kept, TypeOK
    <2>3. QED BY <2>1, <2>2
  <1> HIDE DEF d
  <1>6. TypeOK'
    BY <1>1, <1>4, <1>5 DEF Kept, TypeOK
  <1>7. TaskInv'
    BY <1>3, <1>4, TasksKept DEF Kept, QueueInv
  <1>8. QueuedOnly /\ AtHead /\ OnePlace /\ StartupFirst
    BY DEF Kept, QueueInv, PermitInv
  <1>9. PermitInv'
    <2>1. Serves(c)' /\ \A x : Serves(x) => Serves(x)'
      BY <1>1 DEF Serves
    <2>2. QueuedOnly' /\ AtHead'
      BY <1>1, <1>4, <1>8, <2>1 DEF QueuedOnly, AtHead, Queued
    <2>3. OnePlace' /\ StartupFirst'
      BY <1>1, <1>8 DEF OnePlace, StartupFirst
    <2>4. QED BY <2>2, <2>3 DEF PermitInv
  <1>10. RemovalInProgress'
    <2>1. SUFFICES ASSUME NEW i \in Ids, rows'[i].status \in {"removing", "removed"},
                          i \notin abandoned
                   PROVE  \E e \in Clients : /\ Serves(e)' /\ req'[e].dep.id = i
                                             /\ req'[e].stage \in {"removing", "dropping"}
      BY <1>1 DEF RemovalInProgress
    <2>2. Serves(c)' /\ (\A e \in Clients : Serves(e) => e = c)
      BY <1>1 DEF Serves
    <2>3. CASE i = d
      BY <1>4, <2>2, <2>3
    <2>4. CASE i # d
      BY <1>2, <1>5, <2>1, <2>2, <2>4 DEF Kept, QueueInv, RemovalInProgress, d
    <2>5. QED BY <2>3, <2>4
  <1>11. InstallingIsPending'
    <2>1. \A e \in Clients : /\ IdsOf(req[e].made) \subseteq IdsOf(req'[e].made)
                             /\ req[e].stage \in Owing => req'[e] = req[e]
      BY <1>2, <1>4 DEF Queued, Owing
    <2>2. \A i \in Ids : Pending(i) => Pending(i)'
      BY <1>1, <2>1 DEF Pending
    <2>3. \A i \in Ids : rows'[i].status = "installing" => rows[i].status = "installing"
      BY <1>5
    <2>4. QED BY <1>1, <2>2, <2>3 DEF Kept, QueueInv, InstallingIsPending
  <1>12. QED BY <1>6, <1>7, <1>9, <1>10, <1>11 DEF Kept, QueueInv

LEMMA UninstallStep ==
    ASSUME Kept, NEW c \in Clients, UninstallBegin(c) \/ UninstallEnd(c)
    PROVE  Kept'
  <1>1. Serves(c) /\ req[c].stage \in Queued
    BY DEF UninstallBegin, UninstallEnd, Kept, QueueInv, PermitInv, AtHead, Queued
  <1>2. req[c].dep \in Deps /\ packages \subseteq Names /\ purged \subseteq Names
    BY <1>1, InHand DEF TaskOK, Kept, TypeOK
  <1>3. CASE UninstallBegin(c)
    <2>1. /\ req' = [req EXCEPT ![c].stage = "removing"] /\ purged' = purged
          /\ SetStatus(req[c].dep.id, "removing") /\ packages' = packages
          /\ UNCHANGED <<nextId, spawned, queue, bootVars, abandoned>>
      BY <1>3 DEF UninstallBegin, historyVars
    <2>2. QED BY <1>1, <1>2, <2>1, AtWorkStep
  <1>4. CASE UninstallEnd(c)
    <2>1. /\ req' = [req EXCEPT ![c].stage = "dropping"]
          /\ SetStatus(req[c].dep.id, "removed") \/ rows' = rows
          /\ packages' \subseteq packages
          /\ purged' \subseteq purged \union packages
          /\ UNCHANGED <<nextId, spawned, queue, bootVars, abandoned>>
      BY <1>4 DEF UninstallEnd
    <2>2. QED BY <1>1, <1>2, <2>1, AtWorkStep
  <1>5. QED BY <1>3, <1>4

\* The row goes before the permit does.
LEMMA DeleteStep ==
    ASSUME Kept, NEW c \in Clients, Delete(c)
    PROVE  Kept'
  <1> DEFINE d == req[c].dep.id
  <1>1. /\ req[c].stage = "dropping" /\ Finish(c) /\ Leave(c)
        /\ rows' = [rows EXCEPT ![d] = NoRow]
        /\ nextId' = nextId /\ packages' = packages /\ spawned' = spawned
        /\ startup' = startup /\ ready' = ready /\ restarts' = restarts
        /\ abandoned' = abandoned /\ purged' = purged
    BY DEF Delete, bootVars, historyVars
  <1>2. req[c].dep \in Deps /\ req[c].made = <<>> /\ d \in Ids
    BY <1>1, InHand DEF TaskOK, Queued, Deps
  <1>3. /\ Becomes(c, Idle) /\ req' \in [Clients -> Tasks] /\ req'[c].made = <<>>
        /\ req'[c].stage = "idle" /\ \A e \in Clients \ {c} : req'[e] = req[e]
    BY <1>1, Finished, IdleOK DEF Kept, Becomes
  <1>4. /\ rows' \in [Ids -> [status : Statuses, name : Names \union {NoName}]]
        /\ \A j \in Ids : j # d => rows'[j] = rows[j]
        /\ rows'[d] = NoRow /\ NoRow.status = "absent" /\ NoRow.name = NoName
    BY <1>1, <1>2 DEF Kept, TypeOK, NoRow, Statuses
  <1> HIDE DEF d
  <1>5. QueuedOnly /\ AtHead /\ OnePlace /\ StartupFirst
    BY DEF Kept, QueueInv, PermitInv
  <1>6. c # "job" /\ c # "startup" /\ c \notin Installers
    BY QueueAssumption DEF Installers
  <1>7. /\ queue' \in Seq([who : Clients \union Installers, dep : Deps])
        /\ \A l \in DOMAIN queue' : \E k \in DOMAIN queue : queue'[l] = queue[k]
        /\ \A l \in DOMAIN queue' : queue'[l].who # c
        /\ \A k \in DOMAIN queue : queue[k].who # c =>
              \E l \in DOMAIN queue' : queue'[l] = queue[k]
        /\ OnePlace' /\ \A x : x # c /\ Serves(x) => Serves(x)'
    BY <1>1, <1>5, <1>6, Leaving DEF Kept
  <1>8. TypeOK'
    BY <1>1, <1>2, <1>3, <1>4, <1>7 DEF Kept, TypeOK
  <1>9. TaskInv'
    BY <1>3, IdleOK, TasksKept DEF Kept, QueueInv
  <1>10. PermitInv'
    <2>1. QueuedOnly'
      BY <1>3, <1>5, <1>7 DEF QueuedOnly
    <2>2. AtHead'
      BY <1>3, <1>5, <1>7 DEF AtHead
    <2>3. StartupFirst'
      BY <1>1, <1>5, <1>7 DEF StartupFirst
    <2>4. QED BY <1>7, <2>1, <2>2, <2>3 DEF PermitInv
  <1>11. RemovalInProgress'
    <2>1. SUFFICES ASSUME NEW i \in Ids, rows'[i].status \in {"removing", "removed"},
                          i \notin abandoned
                   PROVE  FALSE
      BY <1>1 DEF RemovalInProgress
    <2>2. i # d /\ rows'[i] = rows[i]
      BY <1>4, <2>1
    <2>3. PICK e \in Clients : /\ Serves(e) /\ req[e].dep.id = i
                               /\ req[e].stage \in {"removing", "dropping"}
      BY <2>1, <2>2 DEF Kept, QueueInv, RemovalInProgress
    <2>4. Serves(c)
      BY <1>1, <1>5 DEF AtHead
    <2>5. e = c
      BY <2>3, <2>4 DEF Serves
    <2>6. QED BY <2>2, <2>3, <2>5 DEF d
  <1>12. InstallingIsPending'
    <2>1. \A e \in Clients : /\ IdsOf(req[e].made) \subseteq IdsOf(req'[e].made)
                             /\ req[e].stage \in Owing => req'[e] = req[e]
      BY <1>1, <1>2, <1>3 DEF Owing
    <2>2. \A k \in DOMAIN queue : queue[k].who = "job" =>
             \E l \in DOMAIN queue' : queue'[l].who = "job" /\ queue'[l].dep = queue[k].dep
      BY <1>6, <1>7
    <2>3. \A i \in Ids : Pending(i) => Pending(i)'
      BY <1>1, <2>1, <2>2 DEF Pending
    <2>4. \A i \in Ids : rows'[i].status = "installing" => rows[i].status = "installing"
      BY <1>4
    <2>5. QED BY <1>1, <2>3, <2>4 DEF Kept, QueueInv, InstallingIsPending
  <1>13. QED BY <1>8, <1>9, <1>10, <1>11, <1>12 DEF Kept, QueueInv

\* The row is to be installed again, and its handler is about to spawn the installer.
LEMMA ReinstallStep ==
    ASSUME Kept, NEW c \in Clients, Reinstall(c)
    PROVE  Kept'
  <1> DEFINE d == req[c].dep.id
             t == [req[c] EXCEPT !.stage = "marked"]
  <1>1. /\ req[c].op = "reinstall" /\ req[c].stage = "found" /\ SetStatus(d, "installing")
        /\ req' = [req EXCEPT ![c] = t] /\ spawned' = spawned
        /\ nextId' = nextId /\ packages' = packages /\ queue' = queue
        /\ startup' = startup /\ ready' = ready /\ restarts' = restarts
        /\ abandoned' = abandoned /\ purged' = purged
    BY DEF Reinstall, bootVars, historyVars
  <1>2. req[c].dep \in Deps /\ req[c].made = <<>> /\ d \in Ids
    BY <1>1, InHand DEF TaskOK, Deps
  <1>0. t \in Tasks /\ TaskOK(t) /\ t.made = <<>> /\ t.stage = "marked" /\ t.dep.id = d
    BY <1>1, <1>2, InHand DEF Tasks, Stages, TaskOK, Queued
  <1>3. /\ Becomes(c, t) /\ req' \in [Clients -> Tasks] /\ req'[c].made = <<>>
        /\ req'[c].stage = "marked" /\ req'[c].dep.id = d
        /\ \A e \in Clients \ {c} : req'[e] = req[e]
    BY <1>0, <1>1, Assigned DEF Kept, Becomes
  <1>4. /\ rows' \in [Ids -> [status : Statuses, name : Names \union {NoName}]]
        /\ \A j \in Ids : rows'[j].name = rows[j].name
        /\ \A j \in Ids : j # d => rows'[j] = rows[j]
        /\ rows'[d].status \in {"installing", "absent"}
        /\ \A j \in Ids : rows'[j].status = "absent" <=> rows[j].status = "absent"
        /\ \A j \in Ids : rows[j] = NoRow => rows'[j] = NoRow
    BY <1>1, <1>2, StatusSet DEF Kept, Statuses
  <1> HIDE DEF d, t
  <1>6. QueuedOnly /\ AtHead /\ OnePlace /\ StartupFirst
    BY DEF Kept, QueueInv, PermitInv
  <1>7. TypeOK'
    BY <1>1, <1>3, <1>4 DEF Kept, TypeOK
  <1>8. TaskInv'
    BY <1>0, <1>3, TasksKept DEF Kept, QueueInv
  <1>9. PermitInv'
    <2>1. QueuedOnly' /\ AtHead'
      BY <1>1, <1>3, <1>6 DEF QueuedOnly, AtHead, Queued, Serves
    <2>2. OnePlace' /\ StartupFirst'
      BY <1>1, <1>6 DEF OnePlace, StartupFirst
    <2>3. QED BY <2>1, <2>2 DEF PermitInv
  <1>10. RemovalInProgress'
    <2>1. \A e \in Clients : Serves(e) /\ req[e].stage \in {"removing", "dropping"}
             => Serves(e)' /\ req'[e] = req[e]
      BY <1>1, <1>3 DEF Serves
    <2>2. \A i \in Ids : rows'[i].status \in {"removing", "removed"} => rows'[i] = rows[i]
      BY <1>4
    <2>3. QED BY <1>1, <2>1, <2>2 DEF Kept, QueueInv, RemovalInProgress
  <1>11. InstallingIsPending'
    <2>1. \A e \in Clients : /\ IdsOf(req[e].made) \subseteq IdsOf(req'[e].made)
                             /\ req[e].stage \in Owing => req'[e] = req[e]
      BY <1>1, <1>2, <1>3 DEF Owing
    <2>2. \A i \in Ids : Pending(i) => Pending(i)'
      BY <1>1, <2>1 DEF Pending
    <2>3. \A i \in Ids : i = d => Pending(i)'
      BY <1>3 DEF Pending, Owing
    <2>4. \A i \in Ids : i # d /\ rows'[i].status = "installing" => rows[i].status = "installing"
      BY <1>4
    <2>5. QED BY <1>1, <2>2, <2>3, <2>4 DEF Kept, QueueInv, InstallingIsPending
  <1>12. QED BY <1>7, <1>8, <1>9, <1>10, <1>11 DEF Kept, QueueInv

\* The installer is spawned, unless the handler was dropped before.
LEMMA ReinstallSpawnStep ==
    ASSUME Kept, NEW c \in Clients, ReinstallSpawn(c)
    PROVE  Kept'
  <1>1. /\ req[c].stage = "marked" /\ Finish(c) /\ spawned' = Append(spawned, req[c].dep)
        /\ UNCHANGED <<tableVars, packages, queue, bootVars, historyVars>>
    BY DEF ReinstallSpawn
  <1>2. Becomes(c, Idle)
    BY <1>1, Finished DEF Kept
  <1>3. req[c].dep \in Deps /\ req[c].made = <<>>
    BY <1>1, InHand DEF TaskOK
  <1>4. /\ spawned' \in Seq(Deps)
        /\ IdsOf(spawned') = IdsOf(spawned) \union {req[c].dep.id}
    BY <1>1, <1>3, InHand, IdsFacts, AppendFacts
  <1>5. abandoned' = abandoned /\ purged' = purged
    BY <1>1 DEF historyVars
  <1>6. IdsOf(req[c].made) \subseteq IdsOf(spawned')
    BY <1>3 DEF IdsOf
  <1>7. QED BY <1>1, <1>2, <1>4, <1>5, <1>6, IdleOK, InHand, RequestStep DEF Queued, Kept, TypeOK

\* soft_delete and update: a row is gone, or has another name.
LEMMA RowStep ==
    ASSUME Kept, soft_delete \/ update
    PROVE  Kept'
  <1>1. PICK i \in Ids : Present(i) /\ ( \/ rows' = [rows EXCEPT ![i] = NoRow]
                                         \/ \E n \in Names : rows' = [rows EXCEPT ![i].name = n] )
    BY DEF soft_delete, update
  <1>2. /\ nextId' = nextId /\ packages' = packages /\ req' = req /\ spawned' = spawned
        /\ queue' = queue /\ startup' = startup /\ ready' = ready /\ restarts' = restarts
        /\ abandoned' = abandoned /\ purged' \subseteq purged
    BY DEF soft_delete, update, bootVars
  <1>3. /\ rows' \in [Ids -> [status : Statuses, name : Names \union {NoName}]]
        /\ \A j \in Ids : rows'[j].status \in {rows[j].status, "absent"}
        /\ \A j \in Ids : rows'[j].status = "absent" <=> rows'[j].name = NoName
        /\ \A j \in Ids : j >= nextId => rows'[j] = NoRow
    <2>1. /\ rows \in [Ids -> [status : Statuses, name : Names \union {NoName}]]
          /\ \A j \in Ids : rows[j].status = "absent" <=> rows[j].name = NoName
          /\ \A j \in Ids : j >= nextId => rows[j] = NoRow
          /\ ~(i >= nextId) /\ rows[i].status # "absent"
      BY <1>1 DEF Kept, TypeOK, NoRow, Present, Ids
    <2>2. CASE rows' = [rows EXCEPT ![i] = NoRow]
      BY <2>1, <2>2 DEF NoRow, Statuses
    <2>3. CASE \E n \in Names : rows' = [rows EXCEPT ![i].name = n]
      <3>1. PICK n \in Names : rows' = [rows EXCEPT ![i].name = n]
        BY <2>3
      <3>2. n # NoName
        BY QueueAssumption
      <3>3. \A j \in Ids : rows'[j].status = rows[j].status
               /\ (j # i => rows'[j] = rows[j]) /\ rows'[i].name = n
        BY <2>1, <3>1
      <3>4. rows' \in [Ids -> [status : Statuses, name : Names \union {NoName}]]
        BY <2>1, <3>1
      <3>5. \A j \in Ids : j >= nextId => rows'[j] = NoRow
        BY <2>1, <3>3
      <3>6. \A j \in Ids : rows'[j].status = "absent" <=> rows'[j].name = NoName
        BY <2>1, <3>2, <3>3
      <3>7. QED BY <3>3, <3>4, <3>5, <3>6
    <2>4. QED BY <1>1, <2>2, <2>3
  <1>4. TypeOK'
    BY <1>2, <1>3 DEF Kept, TypeOK
  <1>5. TaskInv' /\ PermitInv'
    BY <1>2 DEF Kept, QueueInv, TaskInv, TaskOK, PermitInv, QueuedOnly, AtHead, OnePlace,
                StartupFirst, Serves
  <1>6. RemovalInProgress'
    <2>1. \A e : Serves(e)' <=> Serves(e)
      BY <1>2 DEF Serves
    <2>2. QED BY <1>2, <1>3, <2>1 DEF Kept, QueueInv, RemovalInProgress
  <1>7. InstallingIsPending'
    <2>1. \A j \in Ids : Pending(j) => Pending(j)'
      BY <1>2 DEF Pending
    <2>2. QED BY <1>2, <1>3, <2>1 DEF Kept, QueueInv, InstallingIsPending
  <1>8. QED BY <1>4, <1>5, <1>6, <1>7 DEF Kept, QueueInv

-----------------------------------------------------------------------------
(* The installers.                                                         *)

\* An installer comes into the queue: its copy is still there to be installed.
LEMMA InstallerQueues ==
    ASSUME Kept, NEW who \in Installers, NEW dep \in Deps,
           queue' = Append(queue, [who |-> who, dep |-> dep]),
           spawned' \in Seq(Deps),
           IdsOf(spawned) \subseteq IdsOf(spawned') \union IF who = "job" THEN {dep.id} ELSE {},
           who = "startup" => startup # <<>> /\ dep = Head(startup)
                              /\ \A k \in DOMAIN queue : queue[k].who # "startup",
           UNCHANGED <<tableVars, packages, req, bootVars, historyVars>>
    PROVE  Kept'
  <1>1. /\ rows' = rows /\ nextId' = nextId /\ packages' = packages /\ req' = req
        /\ startup' = startup /\ ready' = ready /\ restarts' = restarts
        /\ abandoned' = abandoned /\ purged' = purged
    BY DEF tableVars, bootVars, historyVars
  <1>2. /\ queue' \in Seq([who : Clients \union Installers, dep : Deps])
        /\ DOMAIN queue' = DOMAIN queue \union {Len(queue) + 1}
        /\ \A k \in DOMAIN queue : queue'[k] = queue[k]
        /\ queue'[Len(queue) + 1].who = who /\ queue'[Len(queue) + 1].dep = dep
        /\ \A x : Serves(x) => Serves(x)'
    BY Queueing DEF Kept
  <1>3. who \notin Clients /\ who \in {"job", "startup"}
    BY QueueAssumption DEF Installers
  <1>4. QueuedOnly /\ AtHead /\ OnePlace /\ StartupFirst
    BY DEF Kept, QueueInv, PermitInv
  <1>5. TypeOK'
    BY <1>1, <1>2 DEF Kept, TypeOK
  <1>6. TaskInv'
    BY <1>1 DEF Kept, QueueInv, TaskInv, TaskOK
  <1>7. PermitInv'
    <2>1. QueuedOnly' /\ AtHead'
      BY <1>1, <1>2, <1>3, <1>4 DEF QueuedOnly, AtHead
    <2>2. OnePlace'
      BY <1>2, <1>3, <1>4 DEF OnePlace
    <2>3. StartupFirst'
      BY <1>1, <1>2, <1>4 DEF StartupFirst
    <2>4. QED BY <2>1, <2>2, <2>3 DEF PermitInv
  <1>8. RemovalInProgress'
    BY <1>1, <1>2 DEF Kept, QueueInv, RemovalInProgress
  <1>9. InstallingIsPending'
    <2>1. \A i \in Ids : Pending(i) => Pending(i)'
      BY <1>1, <1>2 DEF Pending
    <2>2. QED BY <1>1, <2>1 DEF Kept, QueueInv, InstallingIsPending
  <1>10. QED BY <1>5, <1>6, <1>7, <1>8, <1>9 DEF Kept, QueueInv

LEMMA PollStep ==
    ASSUME Kept, NEW k \in DOMAIN spawned, Poll(k)
    PROVE  Kept'
  <1>1. /\ spawned' = RemoveAt(spawned, k)
        /\ queue' = Append(queue, [who |-> "job", dep |-> spawned[k]])
        /\ UNCHANGED <<tableVars, packages, req, bootVars, historyVars>>
    BY DEF Poll
  <1>2. spawned \in Seq(Deps)
    BY DEF Kept, TypeOK
  <1>3. spawned[k] \in Deps /\ spawned' \in Seq(Deps)
    BY <1>1, <1>2, IdsTyped, RemoveAtFacts
  <1>4. IdsOf(spawned) = IdsOf(spawned') \union {spawned[k].id}
    BY <1>1, <1>2, IdsFacts
  <1>5. QED BY <1>1, <1>3, <1>4, InstallerQueues DEF Installers

LEMMA StartupWaitStep ==
    ASSUME Kept, StartupWait
    PROVE  Kept'
  <1>1. startup \in Seq(Deps) /\ spawned \in Seq(Deps)
    BY DEF Kept, TypeOK
  <1>2. startup # <<>> /\ Head(startup) \in Deps
    BY <1>1, TailFacts DEF StartupWait
  <1>3. QED BY <1>1, <1>2, InstallerQueues DEF StartupWait, Installers

\* The installer at the head of the queue is done: only its row changes, which is
\* then no longer "installing".
LEMMA InstallStep ==
    ASSUME Kept, InstallJob \/ InstallStartup
    PROVE  Kept'
  <1> DEFINE d == Head(queue).dep.id
  <1>1. PICK who \in Installers :
           /\ Serves(who) /\ install_dependency
           /\ nextId' = nextId /\ req' = req /\ spawned' = spawned /\ restarts' = restarts
           /\ abandoned' = abandoned /\ purged' = purged
           /\ who = "job" => startup' = startup /\ ready' = ready
           /\ who = "startup" => startup' = Tail(startup) /\ ready' = (startup' = <<>>)
    <2>1. CASE InstallJob
      BY <2>1 DEF InstallJob, Installers, bootVars, historyVars
    <2>2. CASE InstallStartup
      BY <2>2 DEF InstallStartup, Installers, historyVars
    <2>3. QED BY <2>1, <2>2
  <1>2. who \notin Clients /\ who \in {"job", "startup"}
    BY QueueAssumption DEF Installers
  <1>3. /\ queue \in Seq([who : Clients \union Installers, dep : Deps])
        /\ queue # <<>> /\ Head(queue) = queue[1] /\ queue[1].who = who /\ 1 \in DOMAIN queue
        /\ Head(queue) \in [who : Clients \union Installers, dep : Deps]
    BY <1>1, TailFacts DEF Kept, TypeOK, Serves
  <1>4. /\ queue' \in Seq([who : Clients \union Installers, dep : Deps])
        /\ \A l \in DOMAIN queue' : queue'[l] = queue[l + 1] /\ l + 1 \in DOMAIN queue
        /\ \A k \in DOMAIN queue : k = 1 \/ (k - 1 \in DOMAIN queue' /\ queue'[k - 1] = queue[k])
        /\ \A l \in DOMAIN queue' : l \in Nat /\ l >= 1
    <2>1. queue' = Tail(queue)
      BY <1>1 DEF install_dependency
    <2>2. \A l \in DOMAIN queue' : l \in Nat /\ l >= 1
      BY <1>3, <2>1, TailFacts, LenProperties
    <2>3. QED BY <1>3, <2>1, <2>2, TailFacts
  <1>5. /\ rows' \in [Ids -> [status : Statuses, name : Names \union {NoName}]]
        /\ \A j \in Ids : rows'[j].name = rows[j].name
        /\ \A j \in Ids : j # d => rows'[j] = rows[j]
        /\ rows'[d].status \in {"installed", "failed", "absent"}
        /\ \A j \in Ids : rows'[j].status = "absent" <=> rows[j].status = "absent"
        /\ \A j \in Ids : rows[j] = NoRow => rows'[j] = NoRow
        /\ packages' \subseteq Names
    <2>1. Head(queue).dep \in Deps /\ d \in Ids /\ Head(queue).dep.name \in Names
      BY <1>3 DEF Deps
    <2>2. CASE SetStatus(d, "installed") /\ packages' = packages \union {Head(queue).dep.name}
      BY <2>1, <2>2, StatusSet DEF Kept, TypeOK, Statuses
    <2>3. CASE SetStatus(d, "failed") /\ packages' = packages
      BY <2>1, <2>3, StatusSet DEF Kept, TypeOK, Statuses
    <2>4. QED BY <1>1, <2>2, <2>3 DEF install_dependency
  <1>6. QueuedOnly /\ AtHead /\ OnePlace /\ StartupFirst
    BY DEF Kept, QueueInv, PermitInv
  <1>7. /\ startup' \in Seq(Deps) /\ (ready' <=> startup' = <<>>) /\ ready' \in BOOLEAN
        /\ who = "startup" => startup # <<>> /\ queue[1].dep = Head(startup)
        /\ \A j \in Ids : j # d /\ j \in IdsOf(startup) => j \in IdsOf(startup')
    <2>1. startup \in Seq(Deps)
      BY DEF Kept, TypeOK
    <2>2. CASE who = "job"
      BY <1>1, <2>2 DEF Kept, TypeOK
    <2>3. CASE who = "startup"
      <3>1. startup # <<>> /\ queue[1].dep = Head(startup) /\ startup' = Tail(startup)
        BY <1>1, <1>3, <1>6, <2>3 DEF StartupFirst
      <3>2. startup' \in Seq(Deps) /\ IdsOf(startup) = IdsOf(startup') \union {Head(startup).id}
        BY <2>1, <3>1, TailFacts, IdsFacts
      <3>3. QED BY <1>1, <1>3, <2>3, <3>1, <3>2
    <2>4. QED BY <1>2, <2>2, <2>3
  <1>8. \A c \in Clients : ~Serves(c)
    BY <1>1, <1>2 DEF Serves
  <1>9. TypeOK'
    BY <1>1, <1>4, <1>5, <1>7 DEF Kept, TypeOK
  <1>10. TaskInv'
    BY <1>1 DEF Kept, QueueInv, TaskInv, TaskOK
  <1>11. PermitInv'
    <2>1. QueuedOnly'
      BY <1>1, <1>4, <1>6 DEF QueuedOnly
    <2>2. AtHead'
      BY <1>1, <1>6, <1>8 DEF AtHead
    <2>3. OnePlace'
      BY SMTT(20), <1>4, <1>6 DEF OnePlace
    <2>4. StartupFirst'
      <3>1. CASE who = "job"
        BY <1>1, <1>4, <1>6, <3>1 DEF StartupFirst
      <3>2. CASE who = "startup"
        <4>1. SUFFICES ASSUME NEW l \in DOMAIN queue', queue'[l].who = "startup"
                       PROVE  FALSE
          BY DEF StartupFirst
        <4>2. queue[l + 1].who = queue[1].who /\ l + 1 \in DOMAIN queue
          BY <1>3, <1>4, <3>2, <4>1
        <4>3. l + 1 = 1
          BY <1>3, <3>2, <1>6, <4>2 DEF OnePlace
        <4>4. QED BY <1>4, <4>1, <4>3
      <3>3. QED BY <1>2, <3>1, <3>2
    <2>5. QED BY <2>1, <2>2, <2>3, <2>4 DEF PermitInv
  <1>12. RemovalInProgress'
    <2>1. \A i \in Ids : rows'[i].status \in {"removing", "removed"} => rows'[i] = rows[i]
      BY <1>5
    <2>2. QED BY <1>1, <1>8, <2>1 DEF Kept, QueueInv, RemovalInProgress
  <1>13. InstallingIsPending'
    <2>1. SUFFICES ASSUME NEW i \in Ids, rows'[i].status = "installing", i \notin abandoned
                   PROVE  Pending(i)'
      BY <1>1 DEF InstallingIsPending
    <2>2. i # d /\ rows'[i] = rows[i]
      BY <1>5, <2>1
    <2>3. Pending(i)
      BY <2>1, <2>2 DEF Kept, QueueInv, InstallingIsPending
    <2>4. CASE \E k \in DOMAIN queue : queue[k].who = "job" /\ queue[k].dep.id = i
      <3>1. PICK k \in DOMAIN queue : queue[k].who = "job" /\ queue[k].dep.id = i
        BY <2>4
      <3>2. k # 1
        BY <1>3, <2>2, <3>1
      <3>3. k - 1 \in DOMAIN queue' /\ queue'[k - 1] = queue[k]
        BY <1>4, <3>2
      <3>4. \E l \in DOMAIN queue' : queue'[l].who = "job" /\ queue'[l].dep.id = i
        BY <3>1, <3>3
      <3>5. QED BY <3>4 DEF Pending
    <2>5. CASE i \in IdsOf(startup)
      BY <1>7, <2>2, <2>5 DEF Pending
    <2>6. CASE \/ i \in IdsOf(spawned)
               \/ \E c \in Clients : i \in IdsOf(req[c].made)
               \/ \E c \in Clients : req[c].stage \in Owing /\ req[c].dep.id = i
      BY <1>1, <2>6 DEF Pending
    <2>7. QED BY <2>3, <2>4, <2>5, <2>6 DEF Pending
  <1>14. QED BY <1>9, <1>10, <1>11, <1>12, <1>13 DEF Kept, QueueInv

-----------------------------------------------------------------------------
(* Clients that go away, and restarts.                                     *)

\* What the dropped handler had in hand counts as abandoned.
LEMMA DisconnectStep ==
    ASSUME Kept, NEW c \in Clients, Disconnect(c)
    PROVE  Kept'
  <1>1. /\ req[c].stage # "idle" /\ Finish(c) /\ Leave(c)
        /\ abandoned' = abandoned \union IdsOf(req[c].made) \union
              IF req[c].stage \in {"fetch", "removing", "dropping", "marked"}
              THEN {req[c].dep.id} ELSE {}
        /\ rows' = rows /\ nextId' = nextId /\ spawned' = spawned /\ purged' = purged
        /\ startup' = startup /\ ready' = ready /\ restarts' = restarts
        /\ packages' \subseteq packages
    BY DEF Disconnect, CutOff, tableVars, bootVars
  <1>2. req[c].stage \in Queued \union {"fetch", "marked"} => req[c].dep.id \in Ids
    BY <1>1, InHand DEF TaskOK, Queued, Deps
  <1>3. /\ Becomes(c, Idle) /\ req' \in [Clients -> Tasks]
        /\ req'[c].stage = "idle" /\ \A e \in Clients \ {c} : req'[e] = req[e]
    BY <1>1, Finished, IdleOK DEF Kept, Becomes
  <1>4. QueuedOnly /\ AtHead /\ OnePlace /\ StartupFirst
    BY DEF Kept, QueueInv, PermitInv
  <1>5. c # "job" /\ c # "startup" /\ c \notin Installers
    BY QueueAssumption DEF Installers
  <1>6. /\ queue' \in Seq([who : Clients \union Installers, dep : Deps])
        /\ \A l \in DOMAIN queue' : \E k \in DOMAIN queue : queue'[l] = queue[k]
        /\ \A l \in DOMAIN queue' : queue'[l].who # c
        /\ \A k \in DOMAIN queue : queue[k].who # c =>
              \E l \in DOMAIN queue' : queue'[l] = queue[k]
        /\ OnePlace' /\ \A x : x # c /\ Serves(x) => Serves(x)'
    BY <1>1, <1>4, <1>5, Leaving DEF Kept
  <1>7. abandoned' \subseteq Ids /\ abandoned \subseteq abandoned'
    BY <1>1, <1>2, InHand DEF Queued
  <1>8. TypeOK'
    BY <1>1, <1>3, <1>6, <1>7 DEF Kept, TypeOK
  <1>9. TaskInv'
    BY <1>3, IdleOK, TasksKept DEF Kept, QueueInv
  <1>10. PermitInv'
    <2>1. QueuedOnly'
      BY <1>3, <1>4, <1>6 DEF QueuedOnly
    <2>2. AtHead'
      BY <1>3, <1>4, <1>6 DEF AtHead
    <2>3. StartupFirst'
      BY <1>1, <1>4, <1>6 DEF StartupFirst
    <2>4. QED BY <1>6, <2>1, <2>2, <2>3 DEF PermitInv
  <1>11. RemovalInProgress'
    <2>1. SUFFICES ASSUME NEW i \in Ids, rows[i].status \in {"removing", "removed"},
                          i \notin abandoned'
                   PROVE  \E e \in Clients : /\ Serves(e)' /\ req'[e].dep.id = i
                                             /\ req'[e].stage \in {"removing", "dropping"}
      BY <1>1 DEF RemovalInProgress
    <2>2. PICK e \in Clients : /\ Serves(e) /\ req[e].dep.id = i
                               /\ req[e].stage \in {"removing", "dropping"}
      BY <1>7, <2>1 DEF Kept, QueueInv, RemovalInProgress
    <2>3. e # c
      BY <1>1, <2>1, <2>2
    <2>4. req'[e] = req[e] /\ Serves(e)'
      BY <1>3, <1>6, <2>2, <2>3
    <2>5. QED BY <2>2, <2>4
  <1>12. InstallingIsPending'
    <2>1. \A k \in DOMAIN queue : queue[k].who = "job" =>
             \E l \in DOMAIN queue' : queue'[l].who = "job" /\ queue'[l].dep = queue[k].dep
      BY <1>5, <1>6
    <2>2. SUFFICES ASSUME NEW i \in Ids, rows[i].status = "installing", i \notin abandoned'
                   PROVE  Pending(i)'
      BY <1>1 DEF InstallingIsPending
    <2>3. Pending(i)
      BY <1>7, <2>2 DEF Kept, QueueInv, InstallingIsPending
    <2>4. i \notin IdsOf(req[c].made) /\ ~(req[c].stage \in Owing /\ req[c].dep.id = i)
      BY <1>1, <2>2 DEF Owing
    <2>5. CASE \E e \in Clients : i \in IdsOf(req[e].made)
                                  \/ (req[e].stage \in Owing /\ req[e].dep.id = i)
      <3>1. PICK e \in Clients : i \in IdsOf(req[e].made)
                                 \/ (req[e].stage \in Owing /\ req[e].dep.id = i)
        BY <2>5
      <3>2. req'[e] = req[e]
        BY <1>3, <2>4, <3>1
      <3>3. QED BY <3>1, <3>2 DEF Pending
    <2>6. CASE i \in IdsOf(spawned) \union IdsOf(startup)
               \/ \E k \in DOMAIN queue : queue[k].who = "job" /\ queue[k].dep.id = i
      BY <1>1, <2>1, <2>6 DEF Pending
    <2>7. QED BY <2>3, <2>5, <2>6 DEF Pending
  <1>13. QED BY <1>8, <1>9, <1>10, <1>11, <1>12 DEF Kept, QueueInv

\* The startup loop takes over every row that says "installing".
LEMMA RestartStep ==
    ASSUME Kept, Restart
    PROVE  Kept'
  <1> DEFINE todo == {i \in Ids : rows'[i].status = "installing"}
  <1>1. /\ restarts < MaxRestarts /\ restarts' = restarts + 1
        /\ rows' = [i \in Ids |-> [rows[i] EXCEPT !.status = ResetStatus(@)]]
        /\ ready' = (startup' = <<>>)
        /\ req' = [c \in Clients |-> Idle] /\ spawned' = <<>> /\ queue' = <<>>
        /\ abandoned' = {i \in Ids : rows[i].status = "removed"}
        /\ nextId' = nextId /\ purged' = purged
    BY DEF Restart
  <1>2. packages' \subseteq Names
    <2>1. CASE CutOff(Clients)
      BY <2>1 DEF CutOff, Kept, TypeOK
    <2>2. CASE queue # <<>> /\ packages' = packages \union {Head(queue).dep.name}
      <3>1. Head(queue) \in [who : Clients \union Installers, dep : Deps]
        BY <2>2, TailFacts DEF Kept, TypeOK
      <3>2. Head(queue).dep.name \in Names
        BY <3>1 DEF Deps
      <3>3. QED BY <2>2, <3>2 DEF Kept, TypeOK
    <2>3. QED BY <2>1, <2>2 DEF Restart
  <1>3. /\ rows' \in [Ids -> [status : Statuses, name : Names \union {NoName}]]
        /\ \A i \in Ids : rows'[i].name = rows[i].name
        /\ \A i \in Ids : rows'[i].status = ResetStatus(rows[i].status)
        /\ \A i \in Ids : rows'[i].status = "absent" <=> rows[i].status = "absent"
        /\ \A i \in Ids : rows[i] = NoRow => rows'[i] = NoRow
    BY <1>1 DEF Kept, TypeOK, ResetStatus, Statuses, NoRow
  <1>4. PICK order \in [1..Cardinality(todo) -> todo] :
           /\ \A i \in todo : \E k \in DOMAIN order : order[k] = i
           /\ startup' = [k \in DOMAIN order |-> DepOf(order[k])]
    BY DEF Restart
  <1>5. Cardinality(todo) \in Nat
    <2>1. IsFiniteSet(Ids)
      BY FS_Interval, QueueAssumption DEF Ids
    <2>2. IsFiniteSet(todo)
      BY <2>1, FS_Subset
    <2>3. QED BY <2>2, FS_CardinalityType
  <1> DEFINE n == Cardinality(todo)
  <1>6. \A i \in todo : i \in Ids /\ DepOf(i) \in Deps /\ DepOf(i).id = i
    BY <1>3, CopyOfRow DEF Kept, Present
  <1> HIDE DEF todo, n
  <1>7. /\ startup' = [k \in 1..n |-> DepOf(order[k])] /\ n \in Nat
        /\ \A k \in 1..n : order[k] \in todo
        /\ \A i \in todo : \E k \in 1..n : order[k] = i
    BY <1>4, <1>5 DEF n
  <1>8. startup' \in Seq(Deps) /\ DOMAIN startup' = 1..n
    <2>1. \A k \in 1..n : DepOf(order[k]) \in Deps
      BY <1>6, <1>7
    <2>2. QED BY <1>7, <2>1, IsASeq
  <1>9. \A i \in todo : i \in IdsOf(startup')
    <2> TAKE i \in todo
    <2>1. PICK k \in 1..n : order[k] = i
      BY <1>7
    <2>2. k \in DOMAIN startup' /\ startup'[k].id = i
      BY <1>6, <1>7, <1>8, <2>1
    <2>3. QED BY <2>2 DEF IdsOf
  <1>10. queue' \in Seq([who : Clients \union Installers, dep : Deps]) /\ spawned' \in Seq(Deps)
         /\ DOMAIN queue' = {}
    BY <1>1, EmptySeq
  <1>11. TypeOK'
    <2>1. req' \in [Clients -> Tasks]
      BY <1>1, IdleOK
    <2>2. restarts' \in 0..MaxRestarts
      BY <1>1, QueueAssumption DEF Kept, TypeOK
    <2>3. abandoned' \subseteq Ids
      BY <1>1
    <2>4. QED
      BY ZenonT(30), <1>1, <1>2, <1>3, <1>8, <1>10, <2>1, <2>2, <2>3 DEF Kept, TypeOK
  <1>12. \A c \in Clients : req'[c] = Idle
    BY <1>1
  <1>13. TaskInv'
    BY <1>12, IdleOK DEF TaskInv, TaskOK
  <1>14. PermitInv'
    BY <1>10, <1>12, IdleOK DEF PermitInv, QueuedOnly, AtHead, OnePlace, StartupFirst
  <1>15. RemovalInProgress'
    <2>1. \A i \in Ids : rows'[i].status \in {"removing", "removed"} => i \in abandoned'
      BY <1>1, <1>3 DEF ResetStatus
    <2>2. QED BY <2>1 DEF RemovalInProgress
  <1>16. InstallingIsPending'
    <2>1. \A i \in Ids : rows'[i].status = "installing" => Pending(i)'
      BY <1>9 DEF Pending, todo
    <2>2. QED BY <2>1 DEF InstallingIsPending
  <1>17. QED BY <1>11, <1>13, <1>14, <1>15, <1>16 DEF Kept, QueueInv

LEMMA KeptStutter == Kept /\ UNCHANGED vars => Kept'
  BY DEF vars, Kept, QueueInv, TypeOK, TaskInv, TaskOK, PermitInv, QueuedOnly, AtHead,
         OnePlace, StartupFirst, Serves, RemovalInProgress, InstallingIsPending, Pending,
         IdsOf

LEMMA KeptInit == Init => Kept
  <1> SUFFICES ASSUME Init PROVE Kept
    OBVIOUS
  <1>1. \A i \in Ids : rows[i] = NoRow
    BY DEF Init
  <1>2. <<>> \in Seq(Deps) /\ DOMAIN queue = {}
        /\ queue \in Seq([who : Clients \union Installers, dep : Deps])
    BY EmptySeq DEF Init
  <1>3. TypeOK
    BY <1>1, <1>2, IdleOK, QueueAssumption DEF Init, TypeOK, NoRow, Statuses
  <1>4. \A c \in Clients : req[c] = Idle
    BY DEF Init
  <1>5. TaskInv
    BY <1>4, IdleOK DEF TaskInv
  <1>6. PermitInv
    BY <1>2, <1>4, IdleOK DEF PermitInv, QueuedOnly, AtHead, OnePlace, StartupFirst
  <1>7. RemovalInProgress /\ InstallingIsPending
    BY <1>1 DEF NoRow, RemovalInProgress, InstallingIsPending
  <1>8. QED BY <1>3, <1>5, <1>6, <1>7 DEF Kept, QueueInv

LEMMA KeptStep == Kept /\ [Next]_vars => Kept'
  <1> SUFFICES ASSUME Kept, [Next]_vars PROVE Kept'
    OBVIOUS
  <1>1. CASE \E c \in Clients : Arrive(c) \/ Handle(c) \/ Disconnect(c)
    <2>1. PICK c \in Clients : Arrive(c) \/ Handle(c) \/ Disconnect(c)
      BY <1>1
    <2>2. CASE CheckNew(c) \/ CheckKnown(c)
      BY <2>2, CheckStep
    <2>3. CASE CheckRefuse(c) \/ FetchNone(c)
      BY <2>3, GiveUpStep
    <2>4. CASE UninstallBegin(c) \/ UninstallEnd(c)
      BY <2>4, UninstallStep
    <2>5. QED BY <2>1, <2>2, <2>3, <2>4, ArriveStep, InsertStep, FetchStep, CreateDoneStep,
                 DeleteWaitStep, DeleteStep, ReinstallStep, ReinstallSpawnStep,
                 DisconnectStep DEF Handle
  <1>2. CASE \E k \in DOMAIN spawned : Poll(k)
    BY <1>2, PollStep
  <1>3. CASE InstallJob \/ InstallStartup
    BY <1>3, InstallStep
  <1>4. CASE soft_delete \/ update
    BY <1>4, RowStep
  <1>5. CASE UNCHANGED vars
    BY <1>5, KeptStutter
  <1>6. QED BY <1>1, <1>2, <1>3, <1>4, <1>5, StartupWaitStep, RestartStep DEF Next

-----------------------------------------------------------------------------
(* What holds of every behaviour.                                          *)

\* The inductive invariant.  RemovalInProgress and InstallingIsPending are part of
\* it; what they lack is who is in the queue, and at which stage of what.
THEOREM QueueKept == Spec => [](TypeOK /\ QueueInv)
  <1>1. Init => Kept
    BY KeptInit
  <1>2. Kept /\ [Next]_vars => Kept'
    BY KeptStep
  <1>3. QED BY <1>1, <1>2, PTL DEF Spec, Kept

\* A row that says "installing" always has an installer to come, unless its handler
\* gave up or was dropped: services/dependence.rs loses no installation otherwise.
THEOREM InstallersCome == Spec => []InstallingIsPending
  <1>1. Kept => InstallingIsPending
    BY DEF Kept, QueueInv
  <1>2. QED BY <1>1, QueueKept, PTL DEF Kept

\* "removing" and "removed" are the marks of a deletion that holds the permit now.
THEOREM RemovalHoldsPermit == Spec => []RemovalInProgress
  <1>1. Kept => RemovalInProgress
    BY DEF Kept, QueueInv
  <1>2. QED BY <1>1, QueueKept, PTL DEF Kept

\* While a deletion uninstalls a package, no installer reports on its row.
THEOREM PermitSeparates == Spec => NoInstallDuringRemoval
  <1> DEFINE Apart == \A i \in Ids : (rows[i].status = "removing" /\ i \notin abandoned) =>
                         rows'[i].status \notin {"installed", "failed"}
  <1>1. Kept /\ [Next]_vars => [Apart]_vars
    <2> SUFFICES ASSUME Kept, Next, NEW i \in Ids,
                        rows[i].status = "removing", i \notin abandoned
                 PROVE  rows'[i].status \notin {"installed", "failed"}
      BY DEF Apart
    <2>1. TypeOK /\ TaskInv
      BY DEF Kept, QueueInv
    <2>2. PICK e \in Clients : Serves(e)
      BY DEF Kept, QueueInv, RemovalInProgress
    <2>3. ~Serves("job") /\ ~Serves("startup")
      BY <2>2, QueueAssumption DEF Serves, Installers
    <2>4. CASE \E c \in Clients : Arrive(c) \/ Handle(c) \/ Disconnect(c)
      <3>1. PICK c \in Clients : Arrive(c) \/ Handle(c) \/ Disconnect(c)
        BY <2>4
      <3>2. TaskOK(req[c])
        BY <2>1 DEF TaskInv
      <3>3. CASE rows' = rows
        BY <3>3
      <3>4. CASE Insert(c)
        <4>1. rows' = [rows EXCEPT ![nextId] = [status |-> "installing",
                                                name |-> Head(req[c].todo)]]
          BY <3>4 DEF Insert
        <4>2. QED BY <2>1, <4>1 DEF TypeOK
      <3>5. CASE Delete(c)
        BY <2>1, <3>5 DEF Delete, TypeOK, NoRow
      <3>6. CASE UninstallBegin(c) \/ UninstallEnd(c) \/ Reinstall(c)
        <4>1. req[c].dep.id \in Ids
          BY <3>2, <3>6, <2>1 DEF UninstallBegin, UninstallEnd, Reinstall, TaskOK, Queued, Deps
        <4>2. \/ rows' = rows
              \/ \E s \in {"removing", "removed", "installing"} : SetStatus(req[c].dep.id, s)
          BY <3>6 DEF UninstallBegin, UninstallEnd, Reinstall
        <4>3. CASE \E s \in {"removing", "removed", "installing"} : SetStatus(req[c].dep.id, s)
          BY <2>1, <4>1, <4>3 DEF SetStatus, TypeOK
        <4>4. QED BY <3>3, <4>2, <4>3
      <3>7. QED BY <3>1, <3>3, <3>4, <3>5, <3>6 DEF Arrive, Handle, create_batch,
                   ensure_dependencies, Get, CheckNew, CheckKnown, CheckRefuse, Fetch,
                   FetchNone, CreateDone, DeleteWait, ReinstallSpawn, Disconnect, tableVars
    <2>5. CASE soft_delete \/ update
      BY SMTT(20), <2>1, <2>5 DEF soft_delete, update, TypeOK, NoRow
    <2>6. CASE Restart
      <3>1. rows' = [k \in Ids |-> [rows[k] EXCEPT !.status = ResetStatus(@)]]
        BY <2>6 DEF Restart
      <3>2. rows'[i].status = ResetStatus(rows[i].status)
        BY <2>1, <3>1 DEF TypeOK
      <3>3. QED BY <3>2 DEF ResetStatus
    <2>7. CASE StartupWait \/ \E k \in DOMAIN spawned : Poll(k)
      BY <2>7 DEF StartupWait, Poll, tableVars
    <2>8. QED BY <2>3, <2>4, <2>5, <2>6, <2>7 DEF Next, InstallJob, InstallStartup
  <1>2. QED BY <1>1, QueueKept, PTL DEF Spec, Kept, NoInstallDuringRemoval
-----------------------------------------------------------------------------
(* What the queue owes to those in it: the safety behind StartupFinishes    *)
(* and InstallationSettles.                                                 *)

Settled == {"absent", "installed", "failed"}

\* Whoever has the permit is an installer, or a deletion that has steps left to do:
\* the others never wait for somebody who is gone.
HolderAtWork ==
    queue # <<>> => \/ Head(queue).who \in Installers
                    \/ \E c \in Clients : Serves(c) /\ req[c].stage \in Queued

\* First come, first served: whoever waits is never overtaken, and leaves the queue only
\* at its head with the row settled, or as a request that is over.
InTurn ==
    [][restarts' = restarts => \A k \in DOMAIN queue :
          \/ k \in DOMAIN queue' /\ queue'[k] = queue[k]
          \/ k - 1 \in DOMAIN queue' /\ queue'[k - 1] = queue[k]
          \/ k = 1 /\ queue[k].who \in Installers /\ rows'[queue[k].dep.id].status \in Settled
          \/ queue[k].who \in Clients /\ req'[queue[k].who] = Idle]_vars

\* The start-up loop settles the rows of its list one after the other, and skips none.
AsListed ==
    [][restarts' = restarts /\ startup' # startup =>
          /\ startup # <<>> /\ startup' = Tail(startup)
          /\ rows'[Head(startup).id].status \in Settled]_vars

\* Leaving the queue moves the ones behind up by one.
LEMMA MovesUp ==
    ASSUME TypeOK, NEW c \in Clients, Leave(c), NEW k \in DOMAIN queue
    PROVE  \/ k \in DOMAIN queue' /\ queue'[k] = queue[k]
           \/ k - 1 \in DOMAIN queue' /\ queue'[k - 1] = queue[k]
           \/ queue[k].who = c
  <1> DEFINE Q == [who : Clients \union Installers, dep : Deps]
  <1>1. queue \in Seq(Q)
    BY DEF TypeOK
  <1>2. CASE queue' = queue
    BY <1>2
  <1>3. CASE queue' # queue
    <2>1. PICK m \in DOMAIN queue : queue[m].who = c /\ queue' = RemoveAt(queue, m)
      BY <1>3 DEF Leave
    <2>2. /\ DOMAIN queue = 1..Len(queue) /\ Len(queue) \in Nat
          /\ queue' \in Seq(Q) /\ Len(queue') = Len(queue) - 1
          /\ DOMAIN queue' = 1..Len(queue')
          /\ \A l \in DOMAIN queue' : queue'[l] = IF l < m THEN queue[l] ELSE queue[l + 1]
      BY <1>1, <2>1, RemoveAtFacts, LenProperties
    <2>3. CASE k < m
      BY <2>2, <2>3
    <2>4. CASE k > m
      <3>1. k - 1 \in DOMAIN queue' /\ ~(k - 1 < m) /\ (k - 1) + 1 = k
        BY <2>2, <2>4
      <3>2. QED BY <2>2, <3>1
    <2>5. QED BY <2>1, <2>2, <2>3, <2>4
  <1>4. QED BY <1>2, <1>3

\* An installer at the head settles the row that it was queued for.
LEMMA HeadServed ==
    ASSUME Kept, InstallJob \/ InstallStartup
    PROVE  /\ queue # <<>> /\ Head(queue) = queue[1] /\ Head(queue).who \in Installers
           /\ rows'[Head(queue).dep.id].status \in Settled
           /\ \A k \in DOMAIN queue : k = 1 \/ (k - 1 \in DOMAIN queue' /\ queue'[k - 1] = queue[k])
  <1> DEFINE i == Head(queue).dep.id
  <1>1. install_dependency /\ queue # <<>> /\ Head(queue).who \in Installers
    BY DEF InstallJob, InstallStartup, Serves, Installers
  <1>2. /\ queue \in Seq([who : Clients \union Installers, dep : Deps])
        /\ rows \in [Ids -> [status : Statuses, name : Names \union {NoName}]]
    BY DEF Kept, TypeOK
  <1>3. /\ Head(queue) \in [who : Clients \union Installers, dep : Deps]
        /\ Head(queue) = queue[1]
        /\ \A k \in DOMAIN queue :
              k = 1 \/ (k - 1 \in DOMAIN Tail(queue) /\ Tail(queue)[k - 1] = queue[k])
    BY <1>1, <1>2, TailFacts
  <1>4. i \in Ids
    BY <1>3 DEF Deps
  <1>5. queue' = Tail(queue) /\ (SetStatus(i, "installed") \/ SetStatus(i, "failed"))
    BY <1>1 DEF install_dependency
  <1>6. rows'[i].status \in Settled
    BY <1>2, <1>4, <1>5 DEF SetStatus, Present, Settled
  <1>7. QED BY <1>1, <1>3, <1>5, <1>6

LEMMA KeepsTurns ==
    ASSUME Kept, Next, restarts' = restarts, NEW k \in DOMAIN queue
    PROVE  \/ k \in DOMAIN queue' /\ queue'[k] = queue[k]
           \/ k - 1 \in DOMAIN queue' /\ queue'[k - 1] = queue[k]
           \/ k = 1 /\ queue[k].who \in Installers /\ rows'[queue[k].dep.id].status \in Settled
           \/ queue[k].who \in Clients /\ req'[queue[k].who] = Idle
  <1>1. TypeOK /\ TaskInv /\ StartupFirst
    BY DEF Kept, QueueInv, PermitInv
  <1>2. CASE \E c \in Clients : DeleteWait(c)
    <2>1. PICK c \in Clients : DeleteWait(c)
      BY <1>2
    <2>2. req[c].dep \in Deps
      BY <1>1, <2>1 DEF TaskInv, TaskOK, DeleteWait
    <2>3. queue' = Append(queue, [who |-> c, dep |-> req[c].dep])
      BY <2>1 DEF DeleteWait
    <2>4. QED BY <1>1, <2>2, <2>3, Queueing
  <1>3. CASE \E c \in Clients : Delete(c) \/ Disconnect(c)
    <2>1. PICK c \in Clients : Delete(c) \/ Disconnect(c)
      BY <1>3
    <2>2. Leave(c) /\ req' = [req EXCEPT ![c] = Idle]
      BY <2>1 DEF Delete, Disconnect, Finish
    <2>3. req'[c] = Idle
      BY <1>1, <2>2 DEF TypeOK
    <2>4. QED BY <1>1, <2>2, <2>3, MovesUp
  <1>4. CASE \E n \in DOMAIN spawned : Poll(n)
    <2>1. PICK n \in DOMAIN spawned : Poll(n)
      BY <1>4
    <2>2. spawned[n] \in Deps
      BY <1>1, IdsFacts DEF TypeOK
    <2>3. queue' = Append(queue, [who |-> "job", dep |-> spawned[n]])
      BY <2>1 DEF Poll
    <2>4. QED BY <1>1, <2>2, <2>3, Queueing DEF Installers
  <1>5. CASE StartupWait
    <2>1. Head(startup) \in Deps
      BY <1>1, <1>5, TailFacts DEF StartupWait, TypeOK
    <2>2. queue' = Append(queue, [who |-> "startup", dep |-> Head(startup)])
      BY <1>5 DEF StartupWait
    <2>3. QED BY <1>1, <2>1, <2>2, Queueing DEF Installers
  <1>6. CASE InstallJob \/ InstallStartup
    BY <1>6, HeadServed
  <1>7. CASE queue' = queue
    BY <1>7
  <1>8. ~Restart
    BY <1>1 DEF TypeOK, Restart
  <1>9. QED
    BY <1>2, <1>3, <1>4, <1>5, <1>6, <1>7, <1>8
    DEF Next, Arrive, Handle, create_batch, ensure_dependencies, Get, CheckNew, CheckKnown,
        CheckRefuse, Insert, Fetch, FetchNone, CreateDone, UninstallBegin, UninstallEnd,
        Reinstall, ReinstallSpawn, soft_delete, update

LEMMA KeepsList ==
    ASSUME Kept, Next, restarts' = restarts, startup' # startup
    PROVE  /\ startup # <<>> /\ startup' = Tail(startup)
           /\ rows'[Head(startup).id].status \in Settled
  <1>1. InstallStartup
    <2>1. ~Restart
      BY DEF Kept, TypeOK, Restart
    <2>2. QED
      BY <2>1
      DEF Next, Arrive, Handle, create_batch, ensure_dependencies, Get, CheckNew, CheckKnown,
          CheckRefuse, Insert, Fetch, FetchNone, CreateDone, DeleteWait, UninstallBegin,
          UninstallEnd, Delete, Reinstall, ReinstallSpawn, Disconnect, Poll, StartupWait, InstallJob,
          soft_delete, update, bootVars
  <1>2. Head(queue).who = "startup" /\ startup' = Tail(startup)
    BY <1>1 DEF InstallStartup, Serves
  <1>3. /\ queue # <<>> /\ Head(queue) = queue[1]
        /\ rows'[Head(queue).dep.id].status \in Settled
    BY <1>1, HeadServed
  <1>4. 1 \in DOMAIN queue
    BY <1>3, TailFacts DEF Kept, TypeOK
  <1>5. startup # <<>> /\ queue[1].dep = Head(startup)
    BY <1>2, <1>3, <1>4 DEF Kept, QueueInv, PermitInv, StartupFirst
  <1>6. QED BY <1>2, <1>3, <1>5

\* The permit is never held by nobody, waiters are served in the order in which they
\* came, and the start-up loop gets through its list: together with the fairness of the
\* semaphore and the end of every package command, that is why the start-up and each
\* installation end.
THEOREM PermitGoesRound == Spec => []HolderAtWork /\ InTurn /\ AsListed
  <1> DEFINE
        Turns == restarts' = restarts => \A k \in DOMAIN queue :
            \/ k \in DOMAIN queue' /\ queue'[k] = queue[k]
            \/ k - 1 \in DOMAIN queue' /\ queue'[k - 1] = queue[k]
            \/ k = 1 /\ queue[k].who \in Installers /\ rows'[queue[k].dep.id].status \in Settled
            \/ queue[k].who \in Clients /\ req'[queue[k].who] = Idle
        List == restarts' = restarts /\ startup' # startup =>
            /\ startup # <<>> /\ startup' = Tail(startup)
            /\ rows'[Head(startup).id].status \in Settled
  <1>1. Kept => HolderAtWork
    <2> SUFFICES ASSUME Kept, queue # <<>>, Head(queue).who \notin Installers
                 PROVE  \E c \in Clients : Serves(c) /\ req[c].stage \in Queued
      BY DEF HolderAtWork
    <2>1. /\ Head(queue) = queue[1] /\ 1 \in DOMAIN queue
          /\ Head(queue) \in [who : Clients \union Installers, dep : Deps]
      BY TailFacts DEF Kept, TypeOK
    <2>2. Head(queue).who \in Clients
      BY <2>1
    <2>3. req[Head(queue).who].stage \in Queued
      BY <2>1, <2>2 DEF Kept, QueueInv, PermitInv, QueuedOnly
    <2>4. QED BY <2>2, <2>3 DEF Serves
  <1>2. Kept /\ [Next]_vars => [Turns]_vars
    BY KeepsTurns
  <1>3. Kept /\ [Next]_vars => [List]_vars
    BY KeepsList
  <1>4. QED BY <1>1, <1>2, <1>3, QueueKept, PTL DEF Spec, Kept, InTurn, AsListed
=============================================================================
