--------------------------- MODULE ScheduleProofs ---------------------------
(***************************************************************************)
(* Proofs about JobRegistry, for any tasks, clients and requests: that the *)
(* cron scheduler has the jobs of a row once the handlers of its task are  *)
(* done, and has them once when no two of them met.                        *)
(***************************************************************************)
EXTENDS JobRegistryProofs, SequenceTheorems

\* Which handler is at which stage.
Ops ==
    \A c \in Clients :
        /\ client[c].stage \in {"get", "schedule", "register"} =>
              client[c].op \in {"create", "update"}
        /\ client[c].stage \in {"remove", "drain"} => client[c].op \in {"update", "delete"}
        /\ client[c].stage \in {"reload", "clear", "read", "refill"} =>
              client[c].op = "reload" /\ client[c].task = NoTask

\* No handler writes a row that was deleted, as long as its deletion is under way.
StaysDeleted ==
    \A c \in Clients :
        (client[c].stage \in {"remove", "drain"} /\ client[c].op = "delete"
           /\ client[c].task \notin cut) =>
              rows[client[c].task] = NoRow /\ client[c].task \in used

\* A handler that will still schedule the row of t as it is now.
Owes(h, t) ==
    \/ /\ h.task = t
       /\ \/ h.stage \in {"remove", "drain"} /\ h.op = "update"
          \/ h.stage = "get"
          \/ h.stage = "schedule" /\ h.read[t] = rows[t]
    \/ h.stage \in {"reload", "clear", "read"}
    \/ h.stage = "refill" /\ h.read[t] = rows[t]

Scheduled(t) ==
    \A n \in DOMAIN rows[t].crons :
        \E j \in jobs : j.task = t /\ j.ver = rows[t].ver /\ j.nth = n

Settled == \A t \in Tasks \ cut : Scheduled(t) \/ \E c \in Clients : Owes(client[c], t)

CurrentInv == Ops /\ StaysDeleted /\ Settled

\* All jobs of t are on the list, or in the hands of the handler that drained it.
Known(t) ==
    JobsOf(jobs, t) \subseteq job_ids \union IF lock = Free THEN {} ELSE client[lock].hand

\* The jobs of t are those of its row, each made once.
Exact(t) ==
    /\ \A i, j \in JobsOf(jobs, t) : i.nth = j.nth => i = j
    /\ \A j \in JobsOf(jobs, t) : j.ver = rows[t].ver

\* What the only handler of t has found and left of its jobs.
Phase(h, t) ==
    /\ h.stage \in {"remove", "drain", "reload", "clear"} => Known(t)
    /\ h.stage \in {"get", "schedule", "read", "refill"} => JobsOf(jobs, t) = {}
    /\ h.stage \in {"schedule", "refill"} => h.read[t] = rows[t]
    /\ h.stage = "register" => JobsOf(jobs, t) \subseteq h.hand /\ Exact(t)

AloneAt(t) ==
    /\ \A c, d \in At(t) : c = d
    /\ At(t) = {} => Exact(t) /\ Known(t)
    /\ \A c \in At(t) : Phase(client[c], t)

OnceInv ==
    /\ lock # Free => job_ids = {}
    /\ \A t \in Tasks \ (raced \union cut) : AloneAt(t)

-----------------------------------------------------------------------------
(* What each step makes of its handler.                                    *)

Others(c) == \A d \in Clients \ {c} : client'[d] = client[d]

LEMMA GoesOn ==
    ASSUME TypeOK, NEW c \in Clients, NEW h, client' = [client EXCEPT ![c] = h]
    PROVE  Others(c) /\ client'[c] = h
  BY DEF TypeOK, Others

LEMMA IsIdle ==
    ASSUME TypeOK, NEW c \in Clients, Finish(c)
    PROVE  Others(c) /\ client'[c].stage = "idle"
  <1>1. Others(c) /\ client'[c] = Idle
    BY GoesOn DEF Finish
  <1>2. QED BY <1>1 DEF Idle

\* The type of a handler, and of what it has read, at the stages that matter.
LEMMA AtStage ==
    ASSUME TypeOK, NEW c \in Clients
    PROVE  /\ client[c] \in Handlers
           /\ client[c].stage \in {"remove", "drain", "get", "schedule", "register"} =>
                 client[c].task \in Tasks
           /\ lock = c <=> client[c].stage \in {"drain", "clear", "read", "refill"}
           /\ lock # Free => lock \in Clients
  BY DEF TypeOK

LEMMA ViewRemoveBegin ==
    ASSUME TypeOK, NEW c \in Clients, RemoveBegin(c)
    PROVE  /\ Others(c) /\ client[c].stage = "remove" /\ client'[c].stage = "drain"
           /\ client'[c].op = client[c].op /\ client'[c].task = client[c].task
           /\ client'[c].hand = job_ids
           /\ job_ids' = {} /\ lock = Free /\ lock' = c
           /\ rows' = rows /\ used' = used /\ jobs' = jobs /\ cut' = cut /\ raced' = raced
  <1>1. client' = [client EXCEPT ![c] = [client[c] EXCEPT !.stage = "drain", !.hand = job_ids]]
    BY DEF RemoveBegin, TypeOK
  <1>2. client'[c] = [client[c] EXCEPT !.stage = "drain", !.hand = job_ids] /\ Others(c)
    BY <1>1, GoesOn
  <1>3. /\ client'[c].stage = "drain" /\ client'[c].hand = job_ids
        /\ client'[c].op = client[c].op /\ client'[c].task = client[c].task
    BY <1>2, AtStage DEF Handlers
  <1>4. /\ client[c].stage = "remove" /\ job_ids' = {} /\ lock = Free /\ lock' = c
        /\ jobs' = jobs /\ rows' = rows /\ used' = used /\ cut' = cut /\ raced' = raced
    BY DEF RemoveBegin, tableVars, historyVars
  <1>5. QED BY <1>2, <1>3, <1>4, AtStage

LEMMA ViewRemoveEnd ==
    ASSUME TypeOK, NEW c \in Clients, RemoveEnd(c)
    PROVE  /\ Others(c) /\ client[c].stage = "drain"
           /\ client[c].op = "update" => client'[c].stage = "get"
                 /\ client'[c].op = "update" /\ client'[c].task = client[c].task
           /\ client[c].op # "update" => client'[c].stage = "idle"
           /\ jobs' = jobs \ JobsOf(client[c].hand, client[c].task)
           /\ job_ids' = client[c].hand \ JobsOf(client[c].hand, client[c].task)
           /\ lock = c /\ lock' = Free
           /\ rows' = rows /\ used' = used /\ cut' = cut /\ raced' = raced
  <1>1. CASE client[c].op = "update"
    <2>1. client' = [client EXCEPT ![c] = [client[c] EXCEPT !.stage = "get", !.hand = {}]]
      BY <1>1 DEF RemoveEnd, TypeOK
    <2>2. client'[c] = [client[c] EXCEPT !.stage = "get", !.hand = {}] /\ Others(c)
      BY <2>1, GoesOn
    <2>3. QED BY <1>1, <2>2, AtStage DEF RemoveEnd, Handlers, tableVars, historyVars
  <1>2. CASE client[c].op # "update"
    <2>1. Finish(c)
      BY <1>2 DEF RemoveEnd
    <2>2. QED BY <1>2, <2>1, IsIdle, AtStage DEF RemoveEnd, tableVars, historyVars
  <1>3. QED BY <1>1, <1>2

LEMMA ViewGet ==
    ASSUME TypeOK, NEW c \in Clients, Get(c)
    PROVE  /\ Others(c) /\ client[c].stage = "get"
           /\ rows[client[c].task].crons = <<>> => client'[c].stage = "idle"
           /\ rows[client[c].task].crons # <<>> => client'[c].stage = "schedule"
                 /\ client'[c].op = client[c].op /\ client'[c].task = client[c].task
                 /\ client'[c].read[client[c].task] = rows[client[c].task]
           /\ rows' = rows /\ used' = used /\ jobs' = jobs /\ job_ids' = job_ids
           /\ lock' = lock /\ cut' = cut /\ raced' = raced
  <1> DEFINE t == client[c].task
  <1>1. /\ client[c].stage = "get"
        /\ rows' = rows /\ used' = used /\ jobs' = jobs /\ job_ids' = job_ids
        /\ lock' = lock /\ cut' = cut /\ raced' = raced
    BY DEF Get, tableVars, historyVars
  <1>2. CASE rows[t].crons = <<>>
    <2>1. Finish(c)
      BY <1>2 DEF Get
    <2>2. QED BY <1>1, <1>2, <2>1, IsIdle
  <1>3. CASE rows[t].crons # <<>>
    <2>1. client' = [client EXCEPT ![c].stage = "schedule", ![c].read[t] = rows[t]]
      BY <1>3 DEF Get
    <2>2. client' = [client EXCEPT ![c] = [client[c] EXCEPT !.stage = "schedule",
                                                            !.read[t] = rows[t]]]
      BY <2>1 DEF TypeOK
    <2>3. client'[c] = [client[c] EXCEPT !.stage = "schedule", !.read[t] = rows[t]] /\ Others(c)
      BY <2>2, GoesOn
    <2>4. t \in Tasks /\ client[c] \in Handlers /\ client[c].read \in Table
      BY <1>1, AtStage DEF Handlers
    <2>5. /\ client'[c].stage = "schedule" /\ client'[c].op = client[c].op
          /\ client'[c].task = t /\ client'[c].read[t] = rows[t]
      BY <2>3, <2>4 DEF Handlers, Table
    <2>6. QED BY <1>1, <1>3, <2>3, <2>5
  <1>4. QED BY <1>2, <1>3

LEMMA ViewSchedule ==
    ASSUME TypeOK, NEW c \in Clients, Schedule(c)
    PROVE  /\ Others(c) /\ client[c].stage = "schedule"
           /\ jobs' = jobs \union NewJobs(c, client[c].task)
           /\ Valid(client[c].read[client[c].task]) =>
                 /\ client'[c].stage = "register" /\ client'[c].op = client[c].op
                 /\ client'[c].task = client[c].task
                 /\ client'[c].hand = NewJobs(c, client[c].task)
                 /\ cut' = cut /\ raced' = raced
           /\ ~Valid(client[c].read[client[c].task]) =>
                 /\ client'[c].stage = "idle"
                 /\ cut' = cut \union {client[c].task} /\ raced' = raced \union {client[c].task}
           /\ rows' = rows /\ used' = used /\ job_ids' = job_ids /\ lock' = lock
  <1> DEFINE t == client[c].task
             new == NewJobs(c, t)
  <1>1. /\ client[c].stage = "schedule" /\ jobs' = jobs \union new
        /\ rows' = rows /\ used' = used /\ job_ids' = job_ids /\ lock' = lock
    BY DEF Schedule, tableVars
  <1>2. CASE Valid(client[c].read[t])
    <2>1. client' = [client EXCEPT ![c].stage = "register", ![c].hand = new]
          /\ cut' = cut /\ raced' = raced
      BY <1>2 DEF Schedule, historyVars
    <2> HIDE DEF new
    <2>2. client' = [client EXCEPT ![c] = [client[c] EXCEPT !.stage = "register", !.hand = new]]
      BY <2>1 DEF TypeOK
    <2>3. client'[c] = [client[c] EXCEPT !.stage = "register", !.hand = new] /\ Others(c)
      BY <2>2, GoesOn
    <2>4. /\ client'[c].stage = "register" /\ client'[c].op = client[c].op
          /\ client'[c].task = t /\ client'[c].hand = new
      BY <2>3, AtStage DEF Handlers
    <2>5. QED BY <1>1, <1>2, <2>1, <2>3, <2>4 DEF new
  <1>3. CASE ~Valid(client[c].read[t])
    <2>1. Finish(c) /\ cut' = cut \union {t} /\ raced' = raced \union {t}
      BY <1>3 DEF Schedule
    <2>2. Others(c) /\ client'[c].stage = "idle"
      BY <2>1, IsIdle
    <2>3. QED BY <1>1, <1>3, <2>1, <2>2
  <1>4. QED BY <1>2, <1>3

LEMMA ViewRegister ==
    ASSUME TypeOK, NEW c \in Clients, Register(c)
    PROVE  /\ Others(c) /\ client[c].stage = "register" /\ client'[c].stage = "idle"
           /\ job_ids' = job_ids \union client[c].hand /\ lock = Free /\ lock' = Free
           /\ rows' = rows /\ used' = used /\ jobs' = jobs /\ cut' = cut /\ raced' = raced
  BY IsIdle DEF Register, tableVars, historyVars

LEMMA ViewReloadBegin ==
    ASSUME TypeOK, NEW c \in Clients, ReloadBegin(c)
    PROVE  /\ Others(c) /\ client[c].stage = "reload" /\ client'[c].stage = "clear"
           /\ client'[c].op = client[c].op /\ client'[c].task = client[c].task
           /\ client'[c].hand = job_ids
           /\ job_ids' = {} /\ lock = Free /\ lock' = c
           /\ rows' = rows /\ used' = used /\ jobs' = jobs /\ cut' = cut /\ raced' = raced
  <1>1. client' = [client EXCEPT ![c] = [client[c] EXCEPT !.stage = "clear", !.hand = job_ids]]
    BY DEF ReloadBegin, TypeOK
  <1>2. client'[c] = [client[c] EXCEPT !.stage = "clear", !.hand = job_ids] /\ Others(c)
    BY <1>1, GoesOn
  <1>3. /\ client'[c].stage = "clear" /\ client'[c].hand = job_ids
        /\ client'[c].op = client[c].op /\ client'[c].task = client[c].task
    BY <1>2, AtStage DEF Handlers
  <1>4. /\ client[c].stage = "reload" /\ job_ids' = {} /\ lock = Free /\ lock' = c
        /\ jobs' = jobs /\ rows' = rows /\ used' = used /\ cut' = cut /\ raced' = raced
    BY DEF ReloadBegin, tableVars, historyVars
  <1>5. QED BY <1>2, <1>3, <1>4, AtStage

LEMMA ViewReloadClear ==
    ASSUME TypeOK, NEW c \in Clients, ReloadClear(c)
    PROVE  /\ Others(c) /\ client[c].stage = "clear" /\ client'[c].stage = "read"
           /\ client'[c].op = client[c].op /\ client'[c].task = client[c].task
           /\ jobs' = jobs \ client[c].hand /\ job_ids' = job_ids /\ lock = c /\ lock' = lock
           /\ rows' = rows /\ used' = used /\ cut' = cut /\ raced' = raced
  <1>1. client' = [client EXCEPT ![c] = [client[c] EXCEPT !.stage = "read", !.hand = {}]]
    BY DEF ReloadClear, TypeOK
  <1>2. client'[c] = [client[c] EXCEPT !.stage = "read", !.hand = {}] /\ Others(c)
    BY <1>1, GoesOn
  <1>3. /\ client'[c].stage = "read"
        /\ client'[c].op = client[c].op /\ client'[c].task = client[c].task
    BY <1>2, AtStage DEF Handlers
  <1>4. /\ client[c].stage = "clear" /\ jobs' = jobs \ client[c].hand
        /\ job_ids' = job_ids /\ lock' = lock
        /\ rows' = rows /\ used' = used /\ cut' = cut /\ raced' = raced
    BY DEF ReloadClear, tableVars, historyVars
  <1>5. QED BY <1>2, <1>3, <1>4, AtStage

LEMMA ViewReloadRead ==
    ASSUME TypeOK, NEW c \in Clients, ReloadRead(c)
    PROVE  /\ Others(c) /\ client[c].stage = "read" /\ client'[c].stage = "refill"
           /\ client'[c].op = client[c].op /\ client'[c].task = client[c].task
           /\ client'[c].read = rows
           /\ jobs' = jobs /\ job_ids' = job_ids /\ lock = c /\ lock' = lock
           /\ rows' = rows /\ used' = used /\ cut' = cut /\ raced' = raced
  <1>1. client' = [client EXCEPT ![c] = [client[c] EXCEPT !.stage = "refill", !.read = rows]]
    BY DEF ReloadRead, TypeOK
  <1>2. client'[c] = [client[c] EXCEPT !.stage = "refill", !.read = rows] /\ Others(c)
    BY <1>1, GoesOn
  <1>3. /\ client'[c].stage = "refill" /\ client'[c].read = rows
        /\ client'[c].op = client[c].op /\ client'[c].task = client[c].task
    BY <1>2, AtStage DEF Handlers
  <1>4. /\ client[c].stage = "read" /\ jobs' = jobs
        /\ job_ids' = job_ids /\ lock' = lock
        /\ rows' = rows /\ used' = used /\ cut' = cut /\ raced' = raced
    BY DEF ReloadRead, tableVars, historyVars
  <1>5. QED BY <1>2, <1>3, <1>4, AtStage

LEMMA ViewReloadRefill ==
    ASSUME TypeOK, NEW c \in Clients, ReloadRefill(c)
    PROVE  /\ Others(c) /\ client[c].stage = "refill" /\ client'[c].stage = "idle"
           /\ jobs' = jobs \union UNION {NewJobs(c, t) : t \in Tasks}
           /\ \A t \in Tasks : Valid(client[c].read[t]) => NewJobs(c, t) \subseteq job_ids'
           /\ \A t \in Tasks : t \notin cut' => Valid(client[c].read[t])
           /\ lock = c /\ lock' = Free
           /\ rows' = rows /\ used' = used /\ cut \subseteq cut' /\ raced \subseteq raced'
  BY IsIdle, AtStage DEF ReloadRefill, tableVars

\* A dropped handler: what is left of it is its effect on the jobs of its task.
LEMMA ViewDisconnect ==
    ASSUME TypeOK, Ops, NEW c \in Clients, Disconnect(c), NEW t \in Tasks, t \notin cut'
    PROVE  /\ Others(c) /\ client[c].stage # "idle" /\ client'[c].stage = "idle"
           /\ client[c].task \notin {t, NoTask}
           /\ JobsOf(jobs', t) = JobsOf(jobs, t) /\ cut \subseteq cut'
           /\ raced \subseteq raced' /\ (t \notin raced' => lock # c)
           /\ lock # c => lock' = lock /\ job_ids' = job_ids
           /\ rows' = rows /\ used' = used
  <1>1. /\ client[c].stage # "idle" /\ Finish(c) /\ rows' = rows /\ used' = used
        /\ cut' = cut \union IF client[c].task = NoTask THEN Tasks ELSE {client[c].task}
        /\ lock' = IF lock = c THEN Free ELSE lock
        /\ raced' = IF lock = c THEN Tasks
                    ELSE raced \union IF client[c].task = NoTask THEN Tasks ELSE {client[c].task}
    BY DEF Disconnect, tableVars
  <1>2. Others(c) /\ client'[c].stage = "idle"
    BY <1>1, IsIdle
  <1>3. client[c].task \notin {t, NoTask}
    BY <1>1
  <1>4. client[c].stage \notin {"reload", "clear", "read", "refill"}
    BY <1>3 DEF Ops
  <1>5. \A j \in Leaving(c) : j.task = client[c].task
    BY <1>4 DEF Leaving
  <1>6. \A j \in Coming(c) : j.task = client[c].task
    <2>1. ASSUME NEW u \in Tasks, client[c].stage = "schedule", u = client[c].task,
                 NEW j \in NewJobs(c, u)
          PROVE  j.task = u
      BY <2>1 DEF NewJobs, add_task
    <2>2. QED BY <1>4, <2>1 DEF Coming
  <1>7. Refilled(c) = {}
    BY <1>4 DEF Refilled
  <1>8. PICK gone \in SUBSET Leaving(c), new \in SUBSET Coming(c) :
           jobs' = (jobs \ gone) \union new /\ job_ids' = job_ids
    <2>1. PICK gone \in SUBSET Leaving(c), new \in SUBSET Coming(c), done \in SUBSET Refilled(c) :
            /\ jobs' = (jobs \ gone) \union new \union UNION {NewJobs(c, u) : u \in done}
            /\ job_ids' = job_ids \union UNION {NewJobs(c, u) : u \in done}
      BY DEF Disconnect
    <2>2. done = {} /\ UNION {NewJobs(c, u) : u \in done} = {}
      BY <1>7
    <2>3. QED BY <2>1, <2>2
  <1>9. JobsOf(jobs', t) = JobsOf(jobs, t)
    BY <1>3, <1>5, <1>6, <1>8 DEF JobsOf
  <1>10. raced \subseteq raced' /\ (t \notin raced' => lock # c) /\ cut \subseteq cut'
    BY <1>1 DEF TypeOK
  <1>11. QED BY <1>1, <1>2, <1>3, <1>8, <1>9, <1>10

\* A request that arrives, and what it writes.
LEMMA ViewArrive ==
    ASSUME TypeOK, NEW c \in Clients, Arrive(c)
    PROVE  /\ Others(c) /\ client[c].stage = "idle"
           /\ jobs' = jobs /\ job_ids' = job_ids /\ lock' = lock /\ cut \subseteq cut'
           /\ raced' = raced \union {u \in Tasks : client'[c].task \in {u, NoTask} /\ At(u) # {}}
           /\ \/ /\ client'[c].task \in Tasks /\ cut' = cut
                 /\ \A t \in Tasks : t # client'[c].task => rows'[t] = rows[t]
                 /\ used \subseteq used'
                 /\ \/ /\ client'[c].stage = "get" /\ client'[c].op = "create"
                       /\ client'[c].task \notin used
                    \/ /\ client'[c].stage = "remove" /\ client'[c].op = "update"
                       /\ rows[client'[c].task] # NoRow
                    \/ /\ client'[c].stage = "remove" /\ client'[c].op = "delete"
                       /\ rows'[client'[c].task] = NoRow /\ client'[c].task \in used'
              \/ /\ client'[c].task = NoTask /\ client'[c].stage = "reload"
                 /\ client'[c].op = "reload"
                 /\ cut' = cut \union {t \in Tasks : At(t) # {}}
  <1>1. ASSUME NEW op, NEW stage, NEW t, Receive(c, op, stage, t)
        PROVE  /\ Others(c) /\ client[c].stage = "idle"
               /\ client'[c].op = op /\ client'[c].stage = stage /\ client'[c].task = t
               /\ raced' = raced \union {u \in Tasks : t \in {u, NoTask} /\ At(u) # {}}
    <2> DEFINE h == [stage |-> stage, op |-> op, task |-> t, no |-> requests + 1,
                     read |-> Empty, hand |-> {}]
    <2>1. client' = [client EXCEPT ![c] = h] /\ client[c].stage = "idle"
          /\ raced' = raced \union {u \in Tasks : t \in {u, NoTask} /\ At(u) # {}}
      BY <1>1 DEF Receive
    <2>2. h.op = op /\ h.stage = stage /\ h.task = t
      OBVIOUS
    <2> HIDE DEF h
    <2>3. client'[c] = h /\ Others(c)
      BY <2>1, GoesOn
    <2>4. QED BY <2>1, <2>2, <2>3
  <1>2. rows \in Table /\ \A t \in Tasks : rows[t] # NoRow => t \in used
    BY DEF TypeOK
  <1>3. CASE create_task(c)
    <2>1. PICK t \in Tasks \ used, crons \in CronLists :
             /\ Receive(c, "create", "get", t)
             /\ rows' = [rows EXCEPT ![t] = [ver |-> requests + 1, crons |-> crons]]
             /\ used' = used \union {t}
      BY <1>3 DEF create_task
    <2>2. jobs' = jobs /\ job_ids' = job_ids /\ lock' = lock /\ cut' = cut
      BY <1>3 DEF create_task
    <2>3. \A u \in Tasks : u # t => rows'[u] = rows[u]
      BY <1>2, <2>1 DEF Table
    <2>4. QED BY <1>1, <2>1, <2>2, <2>3
  <1>4. CASE update_task(c)
    <2>1. PICK t \in Tasks, crons \in CronLists :
             /\ rows[t] # NoRow /\ Receive(c, "update", "remove", t)
             /\ rows' = [rows EXCEPT ![t] = [ver |-> requests + 1, crons |-> crons]]
      BY <1>4 DEF update_task
    <2>2. used' = used /\ jobs' = jobs /\ job_ids' = job_ids /\ lock' = lock /\ cut' = cut
      BY <1>4 DEF update_task
    <2>3. \A u \in Tasks : u # t => rows'[u] = rows[u]
      BY <1>2, <2>1 DEF Table
    <2>4. QED BY <1>1, <2>1, <2>2, <2>3
  <1>5. CASE delete_task(c)
    <2>1. PICK t \in Tasks :
             /\ rows[t] # NoRow /\ Receive(c, "delete", "remove", t)
             /\ rows' = [rows EXCEPT ![t] = NoRow]
      BY <1>5 DEF delete_task
    <2>2. used' = used /\ jobs' = jobs /\ job_ids' = job_ids /\ lock' = lock /\ cut' = cut
      BY <1>5 DEF delete_task
    <2>3. rows'[t] = NoRow /\ t \in used' /\ \A u \in Tasks : u # t => rows'[u] = rows[u]
      BY <1>2, <2>1, <2>2 DEF Table
    <2>4. QED BY <1>1, <2>1, <2>2, <2>3
  <1>6. CASE restore_backup(c)
    <2>1. /\ Receive(c, "reload", "reload", NoTask)
          /\ jobs' = jobs /\ job_ids' = job_ids /\ lock' = lock
          /\ cut' = cut \union {t \in Tasks : At(t) # {}}
      BY <1>6 DEF restore_backup
    <2>2. QED BY <1>1, <2>1
  <1>7. QED BY <1>3, <1>4, <1>5, <1>6 DEF Arrive

-----------------------------------------------------------------------------
(* CurrentIsScheduled.                                                     *)

\* A step of c that neither writes the row of t nor removes its jobs, and after
\* which c owes no less than before unless the row is scheduled.
LEMMA StillSettled ==
    ASSUME Settled, NEW t \in Tasks \ cut, NEW c \in Clients, Others(c),
           rows'[t] = rows[t], JobsOf(jobs, t) \subseteq jobs',
           Owes(client[c], t) => Scheduled(t)' \/ Owes(client[c], t)'
    PROVE  Scheduled(t)' \/ \E d \in Clients : Owes(client[d], t)'
  <1>1. CASE Scheduled(t)
    BY <1>1 DEF Scheduled, JobsOf
  <1>2. CASE \E d \in Clients : Owes(client[d], t)
    <2>1. PICK d \in Clients : Owes(client[d], t)
      BY <1>2
    <2>2. d # c => Owes(client[d], t)'
      BY <2>1 DEF Others, Owes
    <2>3. QED BY <2>1, <2>2
  <1>3. QED BY <1>1, <1>2 DEF Settled

\* The jobs that are made of the row as it is now are all that it needs.
LEMMA MadeIsScheduled ==
    ASSUME NEW c \in Clients, NEW t \in Tasks, TypeOK, client[c].stage # "idle",
           Valid(client[c].read[t]), client[c].read[t] = rows[t],
           rows' = rows, NewJobs(c, t) \subseteq jobs'
    PROVE  Scheduled(t)'
  <1> SUFFICES ASSUME NEW n \in DOMAIN rows[t].crons
               PROVE  \E j \in jobs' : j.task = t /\ j.ver = rows[t].ver /\ j.nth = n
    BY DEF Scheduled
  <1> DEFINE j == [task |-> t, ver |-> rows[t].ver, by |-> client[c].no, nth |-> n]
  <1>1. \A m \in 1..n : rows[t].crons[m]
    <2>1. rows[t].crons \in Seq(BOOLEAN)
      BY RegistryAssumption, EmptySeq DEF TypeOK, Table, Rows, NoRow
    <2>2. DOMAIN rows[t].crons = 1..Len(rows[t].crons) /\ Len(rows[t].crons) \in Nat
      BY <2>1, LenProperties
    <2>3. QED BY <2>2 DEF Valid
  <1>2. j \in NewJobs(c, t)
    BY <1>1 DEF NewJobs, add_task
  <1>3. j \in jobs' /\ j.task = t /\ j.ver = rows[t].ver /\ j.nth = n
    BY <1>2
  <1>4. QED BY <1>3

LEMMA OpsStep ==
    ASSUME TypeOK, Ops, [Next]_vars
    PROVE  Ops'
  <1>1. ASSUME NEW c \in Clients, Others(c),
               client'[c].stage \in {"get", "schedule", "register"} =>
                  client'[c].op \in {"create", "update"},
               client'[c].stage \in {"remove", "drain"} => client'[c].op \in {"update", "delete"},
               client'[c].stage \in {"reload", "clear", "read", "refill"} =>
                  client'[c].op = "reload" /\ client'[c].task = NoTask
        PROVE  Ops'
    BY <1>1 DEF Ops, Others
  <1>2. CASE UNCHANGED vars
    BY <1>2 DEF vars, Ops
  <1>3. CASE Next
    <2>1. PICK c \in Clients : Arrive(c) \/ Handle(c) \/ Disconnect(c)
      BY <1>3 DEF Next
    <2>2. CASE Arrive(c)
      BY <1>1, <2>2, ViewArrive
    <2>3. CASE RemoveBegin(c)
      BY <1>1, <2>3, ViewRemoveBegin DEF Ops
    <2>4. CASE RemoveEnd(c)
      BY <1>1, <2>4, ViewRemoveEnd
    <2>5. CASE Get(c)
      BY <1>1, <2>5, ViewGet DEF Ops
    <2>6. CASE Schedule(c)
      BY <1>1, <2>6, ViewSchedule DEF Ops
    <2>7. CASE Register(c)
      BY <1>1, <2>7, ViewRegister
    <2>8. CASE ReloadBegin(c)
      BY <1>1, <2>8, ViewReloadBegin DEF Ops
    <2>9. CASE ReloadClear(c)
      BY <1>1, <2>9, ViewReloadClear DEF Ops
    <2>10. CASE ReloadRead(c)
      BY <1>1, <2>10, ViewReloadRead DEF Ops
    <2>11. CASE ReloadFail(c)
      BY <1>1, <2>11, IsIdle DEF ReloadFail
    <2>12. CASE ReloadRefill(c)
      BY <1>1, <2>12, ViewReloadRefill
    <2>13. CASE Disconnect(c)
      BY <1>1, <2>13, IsIdle DEF Disconnect
    <2>14. QED BY <2>1, <2>2, <2>3, <2>4, <2>5, <2>6, <2>7, <2>8, <2>9, <2>10, <2>11, <2>12,
                  <2>13 DEF Handle
  <1>4. QED BY <1>2, <1>3

LEMMA DeletedStep ==
    ASSUME TypeOK, Ops, StaysDeleted, [Next]_vars
    PROVE  StaysDeleted'
  <1>1. ASSUME NEW c \in Clients, Others(c), rows' = rows, used' = used, cut \subseteq cut',
               client'[c].stage = "drain" => client[c].stage = "remove"
                  /\ client'[c].op = client[c].op /\ client'[c].task = client[c].task,
               client'[c].stage # "remove"
        PROVE  StaysDeleted'
    BY <1>1 DEF StaysDeleted, Others
  <1>2. CASE UNCHANGED vars
    BY <1>2 DEF vars, StaysDeleted
  <1>3. CASE Next
    <2>1. PICK c \in Clients : Arrive(c) \/ Handle(c) \/ Disconnect(c)
      BY <1>3 DEF Next
    <2>2. CASE Arrive(c)
      <3> SUFFICES ASSUME NEW d \in Clients, client'[d].stage \in {"remove", "drain"},
                          client'[d].op = "delete", client'[d].task \notin cut'
                   PROVE  rows'[client'[d].task] = NoRow /\ client'[d].task \in used'
        BY DEF StaysDeleted
      <3>1. CASE d = c
        BY <2>2, <3>1, ViewArrive
      <3>2. CASE d # c
        <4>1. client'[d] = client[d] /\ client[d].task \in Tasks
          BY <2>2, <3>2, ViewArrive, AtStage DEF Others
        <4>2. rows[client[d].task] = NoRow /\ client[d].task \in used
          BY <2>2, <4>1, ViewArrive DEF StaysDeleted
        <4>3. d \in At(client[d].task)
          BY <4>1 DEF At
        <4>4. CASE client'[c].task \in Tasks
          <5>1. client'[c].task # client[d].task
                \/ (client'[c].op = "delete" /\ rows'[client'[c].task] = NoRow)
            BY <2>2, <4>2, <4>4, ViewArrive, RegistryAssumption
          <5>2. QED BY <2>2, <4>1, <4>2, <4>4, <5>1, ViewArrive, RegistryAssumption
        <4>5. CASE client'[c].task = NoTask
          BY <2>2, <4>1, <4>3, <4>5, ViewArrive, RegistryAssumption
        <4>6. QED BY <2>2, <4>4, <4>5, ViewArrive
      <3>3. QED BY <3>1, <3>2
    <2>3. CASE RemoveBegin(c)
      BY <1>1, <2>3, ViewRemoveBegin
    <2>4. CASE RemoveEnd(c)
      BY <1>1, <2>4, ViewRemoveEnd
    <2>5. CASE Get(c)
      BY <1>1, <2>5, ViewGet
    <2>6. CASE Schedule(c)
      BY <1>1, <2>6, ViewSchedule
    <2>7. CASE Register(c)
      BY <1>1, <2>7, ViewRegister
    <2>8. CASE ReloadBegin(c)
      BY <1>1, <2>8, ViewReloadBegin
    <2>9. CASE ReloadClear(c)
      BY <1>1, <2>9, ViewReloadClear
    <2>10. CASE ReloadRead(c)
      BY <1>1, <2>10, ViewReloadRead
    <2>11. CASE ReloadFail(c)
      <3>1. /\ Others(c) /\ client'[c].stage = "idle" /\ rows' = rows /\ used' = used
            /\ cut' = Tasks
        BY <2>11, IsIdle DEF ReloadFail, tableVars
      <3>2. cut \subseteq cut'
        BY <3>1 DEF TypeOK
      <3>3. QED BY <1>1, <3>1, <3>2
    <2>12. CASE ReloadRefill(c)
      BY <1>1, <2>12, ViewReloadRefill
    <2>13. CASE Disconnect(c)
      <3>1. /\ Others(c) /\ client'[c].stage = "idle" /\ rows' = rows /\ used' = used
            /\ cut \subseteq cut'
        BY <2>13, IsIdle DEF Disconnect, tableVars
      <3>2. QED BY <1>1, <3>1
    <2>14. QED BY <2>1, <2>2, <2>3, <2>4, <2>5, <2>6, <2>7, <2>8, <2>9, <2>10, <2>11, <2>12,
                  <2>13 DEF Handle
  <1>4. QED BY <1>2, <1>3

LEMMA SettledStep ==
    ASSUME TypeOK, CurrentInv, [Next]_vars
    PROVE  Settled'
  <1> DEFINE Good(t) == Scheduled(t)' \/ \E d \in Clients : Owes(client[d], t)'
  <1>1. SUFFICES ASSUME NEW t \in Tasks, t \notin cut' PROVE Good(t)
    BY DEF Settled
  <1>2. Ops /\ StaysDeleted /\ Settled
    BY DEF CurrentInv
  <1>3. NoRow.crons = <<>> /\ DOMAIN NoRow.crons = {}
    BY DEF NoRow
  \* Two ways to be good: nothing to schedule, or c owes it.
  <1>4. rows'[t].crons = <<>> => Good(t)
    BY DEF Scheduled
  <1>5. \A c \in Clients : Owes(client[c], t)' => Good(t)
    OBVIOUS
  <1>6. ASSUME NEW c \in Clients, Others(c), rows'[t] = rows[t], t \notin cut,
               JobsOf(jobs, t) \subseteq jobs',
               Owes(client[c], t) => Scheduled(t)' \/ Owes(client[c], t)'
        PROVE  Good(t)
    BY <1>2, <1>6, StillSettled
  <1>7. ASSUME jobs' = jobs PROVE JobsOf(jobs, t) \subseteq jobs'
    BY <1>7 DEF JobsOf
  <1> HIDE DEF Good
  <1>8. CASE UNCHANGED vars
    <2>1. rows' = rows /\ jobs' = jobs /\ client' = client /\ cut' = cut
      BY <1>8 DEF vars
    <2>2. QED BY <1>1, <1>2, <2>1 DEF Settled, Good, Scheduled, Owes
  <1>9. CASE Next
    <2>1. PICK c \in Clients : Arrive(c) \/ Handle(c) \/ Disconnect(c)
      BY <1>9 DEF Next
    <2>2. CASE Arrive(c)
      <3>1. client[c].stage = "idle" /\ ~Owes(client[c], t) /\ jobs' = jobs /\ t \notin cut
            /\ Others(c)
        BY <1>1, <2>2, ViewArrive DEF Owes
      <3>2. CASE client'[c].task = t
        <4>1. \/ Owes(client[c], t)'
              \/ rows'[t] = NoRow
          BY <2>2, <3>2, ViewArrive, RegistryAssumption DEF Owes
        <4>2. QED BY <1>3, <1>4, <1>5, <4>1
      <3>3. CASE client'[c].task = NoTask
        BY <1>5, <2>2, <3>3, ViewArrive, RegistryAssumption DEF Owes
      <3>4. CASE client'[c].task \notin {t, NoTask}
        <4>1. rows'[t] = rows[t]
          BY <2>2, <3>4, ViewArrive
        <4>2. QED BY <1>6, <1>7, <3>1, <4>1
      <3>5. QED BY <3>2, <3>3, <3>4
    <2>3. CASE RemoveBegin(c)
      <3>1. Owes(client[c], t) => Owes(client[c], t)'
        BY <2>3, ViewRemoveBegin DEF Owes
      <3>2. QED BY <1>1, <1>6, <1>7, <2>3, <3>1, ViewRemoveBegin
    <2>4. CASE RemoveEnd(c)
      <3>1. /\ Others(c) /\ client[c].stage = "drain" /\ rows' = rows /\ cut' = cut
            /\ client[c].op = "update" => client'[c].stage = "get" /\ client'[c].task = client[c].task
            /\ jobs' = jobs \ JobsOf(client[c].hand, client[c].task)
        BY <2>4, ViewRemoveEnd
      <3>2. CASE client[c].task = t
        <4>1. CASE client[c].op = "update"
          BY <1>5, <3>1, <3>2, <4>1 DEF Owes
        <4>2. CASE client[c].op = "delete"
          <5>1. rows[t] = NoRow
            BY <1>1, <1>2, <3>1, <3>2, <4>2 DEF StaysDeleted
          <5>2. QED BY <1>3, <1>4, <3>1, <5>1
        <4>3. QED BY <1>2, <3>1, <4>1, <4>2 DEF Ops
      <3>3. CASE client[c].task # t
        <4>1. JobsOf(jobs, t) \subseteq jobs' /\ ~Owes(client[c], t)
          BY <3>1, <3>3 DEF JobsOf, Owes
        <4>2. QED BY <1>1, <1>6, <3>1, <4>1
      <3>4. QED BY <3>2, <3>3
    <2>5. CASE Get(c)
      <3>1. /\ Others(c) /\ client[c].stage = "get" /\ rows' = rows /\ jobs' = jobs /\ cut' = cut
            /\ rows[client[c].task].crons # <<>> => client'[c].stage = "schedule"
                 /\ client'[c].task = client[c].task
                 /\ client'[c].read[client[c].task] = rows[client[c].task]
        BY <2>5, ViewGet
      <3>2. CASE client[c].task = t
        <4>1. rows[t].crons # <<>> => Owes(client[c], t)'
          BY <3>1, <3>2 DEF Owes
        <4>2. QED BY <1>4, <1>5, <3>1, <4>1
      <3>3. CASE client[c].task # t
        <4>1. ~Owes(client[c], t)
          BY <3>1, <3>3 DEF Owes
        <4>2. QED BY <1>1, <1>6, <1>7, <3>1, <4>1
      <3>4. QED BY <3>2, <3>3
    <2>6. CASE Schedule(c)
      <3>1. /\ Others(c) /\ client[c].stage = "schedule" /\ rows' = rows
            /\ jobs' = jobs \union NewJobs(c, client[c].task)
            /\ cut \subseteq cut'
            /\ client[c].task = t => Valid(client[c].read[t])
        BY <1>1, <2>6, ViewSchedule
      <3>2. Owes(client[c], t) => Scheduled(t)'
        <4> HAVE Owes(client[c], t)
        <4>1. client[c].task = t /\ client[c].read[t] = rows[t]
          BY <3>1 DEF Owes
        <4>2. NewJobs(c, t) \subseteq jobs'
          BY <3>1, <4>1
        <4>3. QED BY <3>1, <4>1, <4>2, MadeIsScheduled
      <3>3. JobsOf(jobs, t) \subseteq jobs'
        BY <3>1 DEF JobsOf
      <3>4. QED BY <1>1, <1>6, <3>1, <3>2, <3>3
    <2>7. CASE Register(c)
      <3>1. ~Owes(client[c], t)
        BY <2>7, ViewRegister DEF Owes
      <3>2. QED BY <1>1, <1>6, <1>7, <2>7, <3>1, ViewRegister
    <2>8. CASE ReloadBegin(c)
      BY <1>5, <2>8, ViewReloadBegin DEF Owes
    <2>9. CASE ReloadClear(c)
      BY <1>5, <2>9, ViewReloadClear DEF Owes
    <2>10. CASE ReloadRead(c)
      BY <1>5, <2>10, ViewReloadRead DEF Owes
    <2>11. CASE ReloadFail(c)
      BY <1>1, <2>11 DEF ReloadFail
    <2>12. CASE ReloadRefill(c)
      <3>1. /\ Others(c) /\ client[c].stage = "refill" /\ rows' = rows /\ cut \subseteq cut'
            /\ jobs' = jobs \union UNION {NewJobs(c, u) : u \in Tasks}
            /\ Valid(client[c].read[t])
        BY <1>1, <2>12, ViewReloadRefill
      <3>2. Owes(client[c], t) => Scheduled(t)'
        <4> HAVE Owes(client[c], t)
        <4>1. client[c].read[t] = rows[t]
          BY <3>1 DEF Owes
        <4>2. NewJobs(c, t) \subseteq jobs'
          BY <3>1
        <4>3. QED BY <3>1, <4>1, <4>2, MadeIsScheduled
      <3>3. JobsOf(jobs, t) \subseteq jobs'
        BY <3>1 DEF JobsOf
      <3>4. QED BY <1>1, <1>6, <3>1, <3>2, <3>3
    <2>13. CASE Disconnect(c)
      <3>1. /\ Others(c) /\ rows' = rows /\ cut \subseteq cut'
            /\ client[c].task \notin {t, NoTask} /\ JobsOf(jobs', t) = JobsOf(jobs, t)
        BY <1>1, <1>2, <2>13, ViewDisconnect
      <3>2. ~Owes(client[c], t)
        BY <1>2, <3>1 DEF Ops, Owes
      <3>3. JobsOf(jobs, t) \subseteq jobs'
        BY <3>1 DEF JobsOf
      <3>4. QED BY <1>1, <1>6, <3>1, <3>2, <3>3
    <2>14. QED BY <2>1, <2>2, <2>3, <2>4, <2>5, <2>6, <2>7, <2>8, <2>9, <2>10, <2>11, <2>12,
                  <2>13 DEF Handle
  <1>10. QED BY <1>8, <1>9 DEF Good

-----------------------------------------------------------------------------
(* ScheduledOnce.                                                          *)

LEMMA EmptiedStep ==
    ASSUME TypeOK, lock # Free => job_ids = {}, [Next]_vars
    PROVE  lock' # Free => job_ids' = {}
  <1>1. CASE UNCHANGED vars
    BY <1>1 DEF vars
  <1>2. CASE Next
    <2>1. PICK c \in Clients : Arrive(c) \/ Handle(c) \/ Disconnect(c)
      BY <1>2 DEF Next
    <2>2. CASE Arrive(c)
      BY <2>2, ViewArrive
    <2>3. CASE Handle(c)
      BY <2>3 DEF Handle, RemoveBegin, RemoveEnd, Get, Schedule, Register, ReloadBegin,
                  ReloadClear, ReloadRead, ReloadFail, ReloadRefill
    <2>4. CASE Disconnect(c)
      <3>1. client[c].stage # "refill" => job_ids' = job_ids
        BY <2>4 DEF Disconnect, Refilled
      <3>2. lock = c => lock' = Free
        BY <2>4 DEF Disconnect
      <3>3. lock # c => lock' = lock /\ client[c].stage # "refill"
        BY <2>4, AtStage DEF Disconnect
      <3>4. QED BY <3>1, <3>2, <3>3
    <2>5. QED BY <2>1, <2>2, <2>3, <2>4
  <1>3. QED BY <1>1, <1>2

\* Who is at t before and after a step of c.
LEMMA WhoIsAt ==
    ASSUME NEW t \in Tasks, NEW c \in Clients, Others(c)
    PROVE  At(t)' = {d \in At(t) : d # c} \union
              (IF client'[c].stage # "idle" /\ client'[c].task \in {t, NoTask} THEN {c} ELSE {})
  BY DEF At, Others

\* The lock's holder, when c did not hold it, has the same jobs in its hands.
LEMMA StillKnown ==
    ASSUME TypeOK, NEW t \in Tasks, NEW c \in Clients, Others(c), Known(t),
           JobsOf(jobs', t) \subseteq JobsOf(jobs, t), lock' = lock, lock # c,
           job_ids \subseteq job_ids'
    PROVE  Known(t)'
  <1>1. lock # Free => client'[lock] = client[lock]
    BY AtStage DEF Others
  <1>2. QED BY <1>1 DEF Known

\* A step of c about other tasks only: what is known of t stays.
LEMMA AwayStep ==
    ASSUME TypeOK, NEW t \in Tasks, NEW c \in Clients, Others(c), AloneAt(t),
           client[c].stage = "idle" \/ client[c].task \notin {t, NoTask},
           client'[c].stage = "idle" \/ client'[c].task \notin {t, NoTask},
           rows'[t] = rows[t], JobsOf(jobs', t) = JobsOf(jobs, t),
           Known(t) => Known(t)'
    PROVE  AloneAt(t)'
  <1>1. c \notin At(t) /\ At(t)' = At(t)
    <2>1. c \notin At(t)
      BY DEF At
    <2>2. QED BY <2>1, WhoIsAt
  <1>2. Exact(t) => Exact(t)'
    BY DEF Exact
  <1>3. \A d \in At(t) : client'[d] = client[d]
    BY <1>1 DEF Others, At
  <1>4. \A d \in At(t) : Phase(client[d], t) => Phase(client[d], t)'
    BY <1>2, <1>3 DEF Phase
  <1>5. QED BY <1>1, <1>2, <1>4 DEF AloneAt

\* A step of the only handler of t: it goes on and keeps what its stage says, or
\* it is done and the jobs of t are in order.
LEMMA OwnStep ==
    ASSUME NEW t \in Tasks, NEW c \in Clients, Others(c), AloneAt(t), At(t) \subseteq {c},
           \/ /\ client'[c].stage # "idle" /\ client'[c].task \in {t, NoTask}
              /\ Phase(client[c], t)'
           \/ client'[c].stage = "idle" /\ Exact(t)' /\ Known(t)'
    PROVE  AloneAt(t)'
  BY WhoIsAt DEF AloneAt

\* What add_task makes of a row that is valid.
LEMMA MadeExact ==
    ASSUME NEW c \in Clients, NEW t \in Tasks, client[c].read[t] = rows'[t],
           JobsOf(jobs', t) \subseteq NewJobs(c, t)
    PROVE  Exact(t)'
  BY DEF Exact, NewJobs, add_task, JobsOf

LEMMA OnceStep ==
    ASSUME TypeOK, TypeOK', Ops, OnceInv, [Next]_vars
    PROVE  OnceInv'
  <1>1. lock' # Free => job_ids' = {}
    BY EmptiedStep DEF OnceInv
  <1>2. SUFFICES ASSUME NEW t \in Tasks, t \notin raced', t \notin cut' PROVE AloneAt(t)'
    BY <1>1 DEF OnceInv
  <1>3. (t \notin raced /\ t \notin cut => AloneAt(t)) /\ (lock # Free => job_ids = {})
    BY DEF OnceInv
  <1>4. ASSUME lock' = lock, NEW c \in Clients, Others(c), lock # c, job_ids' = job_ids,
               JobsOf(jobs', t) \subseteq JobsOf(jobs, t)
        PROVE  Known(t) => Known(t)'
    BY <1>4, StillKnown
  <1>5. CASE UNCHANGED vars
    <2>1. /\ rows' = rows /\ jobs' = jobs /\ client' = client /\ cut' = cut /\ raced' = raced
          /\ lock' = lock /\ job_ids' = job_ids
      BY <1>5 DEF vars
    <2>2. At(t)' = At(t) /\ (Exact(t) => Exact(t)') /\ (Known(t) => Known(t)')
      BY <2>1 DEF At, Exact, Known
    <2>3. \A d \in Clients : Phase(client[d], t) => Phase(client[d], t)'
      BY <2>1, <2>2 DEF Phase
    <2>4. QED BY <1>2, <1>3, <2>1, <2>2, <2>3 DEF AloneAt, At
  <1>6. ASSUME NEW c \in Clients, Arrive(c) PROVE AloneAt(t)'
    <2>1. /\ Others(c) /\ client[c].stage = "idle" /\ client'[c].stage # "idle"
          /\ jobs' = jobs /\ job_ids' = job_ids /\ lock' = lock
          /\ t \notin raced /\ t \notin cut /\ lock # c
          /\ client'[c].task \in {t, NoTask} => At(t) = {}
      BY <1>2, <1>6, ViewArrive, AtStage
    <2>2. AloneAt(t) /\ (Known(t) => Known(t)')
      BY <1>3, <1>4, <2>1
    <2>3. CASE client'[c].task \in {t, NoTask}
      <3>1. Exact(t) /\ Known(t)' /\ At(t) = {}
        BY <2>1, <2>2, <2>3 DEF AloneAt
      <3>2. CASE client'[c].stage \in {"remove", "reload"}
        <4>1. Phase(client[c], t)'
          BY <3>1, <3>2 DEF Phase
        <4>2. QED BY <2>1, <2>2, <2>3, <3>1, <4>1, OwnStep
      <3>3. CASE client'[c].stage = "get"
        <4>1. client'[c].task \notin used /\ client'[c].task = t
          BY <1>6, <2>3, <3>3, ViewArrive, RegistryAssumption
        <4>2. rows[t] = NoRow
          BY <4>1 DEF TypeOK
        <4>3. JobsOf(jobs, t) = {}
          BY <3>1, <4>2, RegistryAssumption DEF Exact, JobsOf, NoRow, TypeOK, Jobs, Versions
        <4>4. Phase(client[c], t)'
          BY <2>1, <3>3, <4>3 DEF Phase, JobsOf
        <4>5. QED BY <2>1, <2>2, <2>3, <3>1, <4>4, OwnStep
      <3>4. QED BY <1>6, <3>2, <3>3, ViewArrive
    <2>4. CASE client'[c].task \notin {t, NoTask}
      <3>1. rows'[t] = rows[t]
        BY <1>6, <2>4, ViewArrive
      <3>2. QED BY <2>1, <2>2, <2>4, <3>1, AwayStep
    <2>5. QED BY <2>3, <2>4
  \* From here on c is a handler at work: one of t, the only one, or one of other tasks.
  <1>7. ASSUME NEW c \in Clients, AloneAt(t), client[c].stage # "idle",
               client[c].task \in {t, NoTask}
        PROVE  At(t) \subseteq {c} /\ c \in At(t) /\ Phase(client[c], t)
    BY <1>7 DEF AloneAt, At
  <1>8. \A c \in Clients : lock = c => lock # Free
    BY RegistryAssumption
  <1>9. ASSUME NEW c \in Clients, RemoveBegin(c) PROVE AloneAt(t)'
    <2>1. /\ Others(c) /\ client[c].stage = "remove" /\ client'[c].stage = "drain"
          /\ client'[c].task = client[c].task /\ client'[c].hand = job_ids
          /\ job_ids' = {} /\ lock = Free /\ lock' = c
          /\ rows' = rows /\ jobs' = jobs /\ cut' = cut /\ raced' = raced
      BY <1>9, ViewRemoveBegin
    <2>2. AloneAt(t) /\ (Known(t) => Known(t)')
      BY <1>2, <1>3, <2>1, RegistryAssumption DEF Known
    <2>3. CASE client[c].task \in {t, NoTask}
      <3>1. At(t) \subseteq {c} /\ Phase(client[c], t)
        BY <1>7, <2>1, <2>2, <2>3
      <3>2. Phase(client[c], t)'
        BY <2>1, <2>2, <3>1 DEF Phase
      <3>3. QED BY <2>1, <2>2, <2>3, <3>1, <3>2, OwnStep
    <2>4. CASE client[c].task \notin {t, NoTask}
      BY <2>1, <2>2, <2>4, AwayStep
    <2>5. QED BY <2>3, <2>4
  <1>10. ASSUME NEW c \in Clients, RemoveEnd(c) PROVE AloneAt(t)'
    <2>1. /\ Others(c) /\ client[c].stage = "drain" /\ client[c].task \in Tasks
          /\ client'[c].stage \in {"get", "idle"}
          /\ client'[c].stage = "get" => client'[c].task = client[c].task
          /\ jobs' = jobs \ JobsOf(client[c].hand, client[c].task)
          /\ job_ids' = client[c].hand \ JobsOf(client[c].hand, client[c].task)
          /\ lock = c /\ lock' = Free /\ job_ids = {}
          /\ rows' = rows /\ cut' = cut /\ raced' = raced
      BY <1>3, <1>8, <1>10, ViewRemoveEnd, AtStage
    <2>2. AloneAt(t) /\ (Known(t) <=> JobsOf(jobs, t) \subseteq client[c].hand)
      BY <1>2, <1>3, <1>8, <2>1 DEF Known
    <2>3. CASE client[c].task = t
      <3>1. At(t) \subseteq {c} /\ Phase(client[c], t)
        BY <1>7, <2>1, <2>2, <2>3
      <3>2. JobsOf(jobs', t) = {}
        BY <2>1, <2>2, <2>3, <3>1 DEF Phase, JobsOf
      <3>3. Exact(t)' /\ Known(t)'
        BY <3>2 DEF Exact, Known
      <3>4. client'[c].stage = "get" => Phase(client[c], t)'
        BY <3>2 DEF Phase
      <3>5. QED BY <2>1, <2>2, <2>3, <3>1, <3>3, <3>4, OwnStep
    <2>4. CASE client[c].task # t
      <3>1. JobsOf(jobs', t) = JobsOf(jobs, t)
        BY <2>1, <2>4 DEF JobsOf
      <3>2. Known(t) => Known(t)'
        BY <2>1, <2>2, <2>4, <3>1 DEF Known, JobsOf
      <3>3. client[c].task # NoTask
        BY <2>1, RegistryAssumption
      <3>4. QED BY <2>1, <2>2, <2>4, <3>1, <3>2, <3>3, AwayStep
    <2>5. QED BY <2>3, <2>4
  <1>11. ASSUME NEW c \in Clients, Get(c) PROVE AloneAt(t)'
    <2>1. /\ Others(c) /\ client[c].stage = "get" /\ client[c].task \in Tasks
          /\ client'[c].stage \in {"schedule", "idle"}
          /\ client'[c].stage = "schedule" => client'[c].task = client[c].task
                /\ client'[c].read[client[c].task] = rows[client[c].task]
          /\ rows' = rows /\ jobs' = jobs /\ job_ids' = job_ids /\ lock' = lock
          /\ cut' = cut /\ raced' = raced /\ lock # c
      BY <1>11, ViewGet, AtStage
    <2>2. AloneAt(t) /\ (Known(t) => Known(t)')
      BY <1>2, <1>3, <1>4, <2>1
    <2>3. CASE client[c].task = t
      <3>1. At(t) \subseteq {c} /\ Phase(client[c], t)
        BY <1>7, <2>1, <2>2, <2>3
      <3>2. JobsOf(jobs', t) = {}
        BY <2>1, <3>1 DEF Phase
      <3>3. Exact(t)' /\ Known(t)'
        BY <3>2 DEF Exact, Known
      <3>4. client'[c].stage = "schedule" => Phase(client[c], t)'
        BY <2>1, <2>3, <3>2 DEF Phase
      <3>5. QED BY <2>1, <2>2, <2>3, <3>1, <3>3, <3>4, OwnStep
    <2>4. CASE client[c].task # t
      <3>1. client[c].task # NoTask
        BY <2>1, RegistryAssumption
      <3>2. QED BY <2>1, <2>2, <2>4, <3>1, AwayStep
    <2>5. QED BY <2>3, <2>4
  <1>12. ASSUME NEW c \in Clients, Schedule(c) PROVE AloneAt(t)'
    <2>1. /\ Others(c) /\ client[c].stage = "schedule" /\ client[c].task \in Tasks
          /\ client'[c].stage \in {"register", "idle"}
          /\ client'[c].stage = "register" => client'[c].task = client[c].task
                /\ client'[c].hand = NewJobs(c, client[c].task)
          /\ client[c].task = t => client'[c].stage = "register"
          /\ jobs' = jobs \union NewJobs(c, client[c].task)
          /\ rows' = rows /\ job_ids' = job_ids /\ lock' = lock
          /\ t \notin cut /\ t \notin raced /\ lock # c
      BY <1>2, <1>12, ViewSchedule, AtStage
    <2>2. AloneAt(t) /\ \A u : \A j \in NewJobs(c, u) : j.task = u
      BY <1>3, <2>1 DEF NewJobs, add_task
    <2>3. CASE client[c].task = t
      <3>1. At(t) \subseteq {c} /\ Phase(client[c], t)
        BY <1>7, <2>1, <2>2, <2>3
      <3>2. JobsOf(jobs', t) \subseteq NewJobs(c, t) /\ client[c].read[t] = rows'[t]
        BY <2>1, <2>3, <3>1 DEF Phase, JobsOf
      <3>3. Exact(t)'
        BY <3>2, MadeExact
      <3>4. Phase(client[c], t)'
        BY <2>1, <2>3, <3>2, <3>3 DEF Phase
      <3>5. QED BY <2>1, <2>2, <2>3, <3>1, <3>4, OwnStep
    <2>4. CASE client[c].task # t
      <3>1. client[c].task # NoTask
        BY <2>1, RegistryAssumption
      <3>2. JobsOf(jobs', t) = JobsOf(jobs, t)
        BY <2>1, <2>2, <2>4 DEF JobsOf
      <3>3. Known(t) => Known(t)'
        BY <1>4, <2>1, <3>2
      <3>4. QED BY <2>1, <2>2, <2>4, <3>1, <3>2, <3>3, AwayStep
    <2>5. QED BY <2>3, <2>4
  <1>13. ASSUME NEW c \in Clients, Register(c) PROVE AloneAt(t)'
    <2>1. /\ Others(c) /\ client[c].stage = "register" /\ client[c].task \in Tasks
          /\ client'[c].stage = "idle"
          /\ job_ids' = job_ids \union client[c].hand /\ lock = Free /\ lock' = Free
          /\ rows' = rows /\ jobs' = jobs /\ cut' = cut /\ raced' = raced
      BY <1>13, ViewRegister, AtStage
    <2>2. AloneAt(t) /\ (Known(t) => Known(t)')
      BY <1>2, <1>3, <2>1 DEF Known
    <2>3. CASE client[c].task = t
      <3>1. At(t) \subseteq {c} /\ Phase(client[c], t)
        BY <1>7, <2>1, <2>2, <2>3
      <3>2. Exact(t)' /\ Known(t)'
        BY <2>1, <3>1 DEF Phase, Exact, Known
      <3>3. QED BY <2>1, <2>2, <3>1, <3>2, OwnStep
    <2>4. CASE client[c].task # t
      <3>1. client[c].task # NoTask
        BY <2>1, RegistryAssumption
      <3>2. QED BY <2>1, <2>2, <2>4, <3>1, AwayStep
    <2>5. QED BY <2>3, <2>4
  \* A reload is a handler of every task.
  <1>14. ASSUME NEW c \in Clients, client[c].stage \in {"reload", "clear", "read", "refill"},
                t \notin raced, t \notin cut
         PROVE  /\ client[c].task = NoTask /\ AloneAt(t) /\ At(t) \subseteq {c}
                /\ Phase(client[c], t)
    BY <1>3, <1>7, <1>14 DEF Ops
  <1>15. ASSUME NEW c \in Clients, ReloadBegin(c) PROVE AloneAt(t)'
    <2>1. /\ Others(c) /\ client[c].stage = "reload" /\ client'[c].stage = "clear"
          /\ client'[c].task = client[c].task /\ client'[c].hand = job_ids
          /\ job_ids' = {} /\ lock = Free /\ lock' = c
          /\ rows' = rows /\ jobs' = jobs /\ cut' = cut /\ raced' = raced
      BY <1>15, ViewReloadBegin
    <2>2. /\ client[c].task = NoTask /\ AloneAt(t) /\ At(t) \subseteq {c}
          /\ Phase(client[c], t)
      BY <1>2, <1>14, <2>1
    <2>3. Phase(client[c], t)'
      BY <1>8, <2>1, <2>2, RegistryAssumption DEF Phase, Known
    <2>4. QED BY <2>1, <2>2, <2>3, OwnStep
  <1>16. ASSUME NEW c \in Clients, ReloadClear(c) PROVE AloneAt(t)'
    <2>1. /\ Others(c) /\ client[c].stage = "clear" /\ client'[c].stage = "read"
          /\ client'[c].task = client[c].task
          /\ jobs' = jobs \ client[c].hand /\ lock = c /\ job_ids = {}
          /\ cut' = cut /\ raced' = raced
      BY <1>3, <1>8, <1>16, ViewReloadClear
    <2>2. /\ client[c].task = NoTask /\ AloneAt(t) /\ At(t) \subseteq {c}
          /\ Phase(client[c], t)
      BY <1>2, <1>14, <2>1
    <2>3. JobsOf(jobs', t) = {}
      BY <1>8, <2>1, <2>2 DEF Phase, Known, JobsOf
    <2>4. Phase(client[c], t)'
      BY <2>1, <2>3 DEF Phase
    <2>5. QED BY <2>1, <2>2, <2>4, OwnStep
  <1>17. ASSUME NEW c \in Clients, ReloadRead(c) PROVE AloneAt(t)'
    <2>1. /\ Others(c) /\ client[c].stage = "read" /\ client'[c].stage = "refill"
          /\ client'[c].task = client[c].task /\ client'[c].read = rows
          /\ jobs' = jobs /\ rows' = rows /\ cut' = cut /\ raced' = raced
      BY <1>17, ViewReloadRead
    <2>2. /\ client[c].task = NoTask /\ AloneAt(t) /\ At(t) \subseteq {c}
          /\ Phase(client[c], t)
      BY <1>2, <1>14, <2>1
    <2>3. Phase(client[c], t)'
      BY <2>1, <2>2 DEF Phase
    <2>4. QED BY <2>1, <2>2, <2>3, OwnStep
  <1>18. ASSUME NEW c \in Clients, ReloadRefill(c) PROVE AloneAt(t)'
    <2>1. /\ Others(c) /\ client[c].stage = "refill" /\ client'[c].stage = "idle"
          /\ jobs' = jobs \union UNION {NewJobs(c, u) : u \in Tasks}
          /\ NewJobs(c, t) \subseteq job_ids'
          /\ lock' = Free /\ rows' = rows /\ t \notin cut /\ t \notin raced
      BY <1>2, <1>18, ViewReloadRefill
    <2>2. AloneAt(t) /\ At(t) \subseteq {c} /\ Phase(client[c], t)
      BY <1>14, <2>1
    <2>3. \A u : \A j \in NewJobs(c, u) : j.task = u
      BY DEF NewJobs, add_task
    <2>4. JobsOf(jobs', t) \subseteq NewJobs(c, t) /\ client[c].read[t] = rows'[t]
      BY <2>1, <2>2, <2>3 DEF Phase, JobsOf
    <2>5. Exact(t)' /\ Known(t)'
      BY <2>1, <2>4, MadeExact DEF Known
    <2>6. QED BY <2>1, <2>2, <2>5, OwnStep
  <1>19. ASSUME NEW c \in Clients, Disconnect(c) PROVE AloneAt(t)'
    <2>1. /\ Others(c) /\ client[c].stage # "idle" /\ client'[c].stage = "idle"
          /\ client[c].task \notin {t, NoTask} /\ JobsOf(jobs', t) = JobsOf(jobs, t)
          /\ lock # c /\ lock' = lock /\ job_ids' = job_ids /\ rows' = rows
          /\ t \notin cut /\ t \notin raced
      BY <1>2, <1>19, ViewDisconnect
    <2>2. AloneAt(t) /\ (Known(t) => Known(t)')
      BY <1>3, <1>4, <2>1
    <2>3. QED BY <2>1, <2>2, AwayStep
  <1>20. ASSUME NEW c \in Clients, ReloadFail(c) PROVE FALSE
    BY <1>2, <1>20 DEF ReloadFail
  <1>21. QED BY <1>5, <1>6, <1>9, <1>10, <1>11, <1>12, <1>13, <1>15, <1>16, <1>17, <1>18,
                <1>19, <1>20 DEF Next, Handle

-----------------------------------------------------------------------------
(* What holds of every behaviour.                                          *)

LEMMA ScheduleInit == Init => CurrentInv /\ OnceInv
  <1> SUFFICES ASSUME Init PROVE CurrentInv /\ OnceInv
    OBVIOUS
  <1>1. /\ \A c \in Clients : client[c].stage = "idle"
        /\ \A t \in Tasks : rows[t] = NoRow
        /\ jobs = {} /\ job_ids = {} /\ lock = Free
    BY DEF Init, Idle, Empty
  <1>2. Ops /\ StaysDeleted
    BY <1>1 DEF Ops, StaysDeleted
  <1>3. Settled
    BY <1>1 DEF Settled, Scheduled, NoRow
  <1>4. OnceInv
    BY <1>1 DEF OnceInv, AloneAt, At, Exact, Known, JobsOf
  <1>5. QED BY <1>2, <1>3, <1>4 DEF CurrentInv

\* The inductive invariant: which handler still owes the jobs of a row, and what
\* the only handler of a task knows of its jobs at each of its stages.
THEOREM ScheduleKept == Spec => [](CurrentInv /\ OnceInv)
  <1>1. Init => CurrentInv /\ OnceInv
    BY ScheduleInit
  <1>2. TypeOK /\ TypeOK' /\ CurrentInv /\ OnceInv /\ [Next]_vars => CurrentInv' /\ OnceInv'
    <2>1. CurrentInv => Ops /\ StaysDeleted
      BY DEF CurrentInv
    <2>2. Ops' /\ StaysDeleted' /\ Settled' => CurrentInv'
      BY DEF CurrentInv
    <2>3. QED BY <2>1, <2>2, OpsStep, DeletedStep, SettledStep, OnceStep
  <1>3. QED BY <1>1, <1>2, RegistryTypeCorrect, PTL DEF Spec

\* However the handlers of a task race, the cron scheduler has the jobs of the row
\* as it now is once they are done, for any number of handlers and tasks.
THEOREM NothingUnscheduled == Spec => []CurrentIsScheduled
  <1>1. CurrentInv => CurrentIsScheduled
    <2> SUFFICES ASSUME CurrentInv, NEW t \in Tasks \ cut, At(t) = {} PROVE Scheduled(t)
      BY DEF CurrentIsScheduled, Scheduled
    <2>1. ASSUME NEW c \in Clients, Owes(client[c], t) PROVE FALSE
      <3>1. client[c].stage # "idle" /\ client[c].task \in {t, NoTask}
        BY <2>1 DEF Owes, CurrentInv, Ops
      <3>2. QED BY <3>1 DEF At
    <2>2. QED BY <2>1 DEF CurrentInv, Settled
  <1>2. QED BY <1>1, ScheduleKept, PTL

\* A task whose handlers never met is scheduled once, as its row says, and its
\* jobs can be found again to be removed.
THEOREM NothingTwice == Spec => []ScheduledOnce
  <1>1. OnceInv => ScheduledOnce
    <2> SUFFICES ASSUME OnceInv, NEW t \in Tasks \ (raced \union cut), At(t) = {}
                 PROVE  Exact(t) /\ Known(t)
      BY DEF ScheduledOnce, Exact, Known
    <2>1. QED BY DEF OnceInv, AloneAt
  <1>2. QED BY <1>1, ScheduleKept, PTL
=============================================================================
