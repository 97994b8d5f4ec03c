------------------------- MODULE JobRegistryProofs -------------------------
(***************************************************************************)
(* Theorems about JobRegistry, for any number of tasks, clients and        *)
(* requests: its type invariant, that job_ids never names a job that the   *)
(* cron scheduler does not hold, and that no handler removes a job of      *)
(* another task.                                                           *)
(*                                                                         *)
(* The second one is not inductive.  What makes it hold is that a handler  *)
(* empties the list into its hands before it removes a job, and that the   *)
(* jobs in the hands of a handler that has yet to register them are its    *)
(* own: no other handler can have drained them.  ListInv says both.        *)
(***************************************************************************)
EXTENDS JobRegistry, TLAPS

\* What add_task makes are jobs of its task that carry the request's number.
LEMMA AddTaskMakesJobs ==
    ASSUME NEW t \in Tasks, NEW row \in Rows \union {NoRow}, NEW by \in Versions
    PROVE  /\ add_task(t, row, by) \subseteq Jobs
           /\ \A j \in add_task(t, row, by) : j.by = by /\ j.task = t
<1> USE RegistryAssumption
<1>1. CASE row = NoRow
  BY <1>1 DEF add_task, NoRow
<1>2. CASE row \in Rows
  <2>1. row.ver \in Versions /\ row.crons \in Seq(BOOLEAN)
    BY <1>2 DEF Rows
  <2>2. DOMAIN row.crons \subseteq Nat
    BY <2>1
  <2> QED
    BY <2>1, <2>2 DEF add_task, Jobs
<1> QED
  BY <1>1, <1>2

\* So are the jobs that a handler makes of a row it has read.
LEMMA NewJobsAreJobs ==
    ASSUME TypeOK, NEW c \in Clients, client[c].stage # "idle", NEW t \in Tasks
    PROVE  /\ NewJobs(c, t) \subseteq Jobs
           /\ \A j \in NewJobs(c, t) : j.by = client[c].no
<1>1. client[c].no \in Versions
  BY RegistryAssumption DEF TypeOK, Handlers, Versions
<1>2. client[c].read[t] \in Rows \union {NoRow}
  BY DEF TypeOK, Handlers, Table
<1> QED
  BY <1>1, <1>2, AddTaskMakesJobs DEF NewJobs

\* What is left of the jobs when a handler is dropped: it took only jobs that it
\* had drained, under the lock, added only jobs that carry its number, and listed
\* some of these when it was refilling the list.
LEMMA ComesAndGoes ==
    ASSUME TypeOK, NEW c \in Clients, Disconnect(c)
    PROVE  \E gone, new, known \in SUBSET Jobs :
              /\ jobs' = (jobs \ gone) \union new
              /\ gone # {} => client[c].stage \in {"drain", "clear"}
              /\ gone \subseteq client[c].hand
              /\ \A j \in new : j.by = client[c].no
              /\ job_ids' = job_ids \union known /\ known \subseteq new
              /\ known # {} => client[c].stage = "refill"
<1> USE RegistryAssumption
<1>1. client[c].stage # "idle" /\ client[c].hand \subseteq Jobs
  BY DEF Disconnect, TypeOK, Handlers
<1>2. /\ Leaving(c) \subseteq client[c].hand
      /\ Leaving(c) # {} => client[c].stage \in {"drain", "clear"}
  BY DEF Leaving
<1>3. \A t \in Tasks : \A j \in NewJobs(c, t) : j \in Jobs /\ j.by = client[c].no
  BY <1>1, NewJobsAreJobs
<1>4. \A j \in Coming(c) : j \in Jobs /\ j.by = client[c].no
  BY <1>3 DEF Coming
<1>5. PICK gone \in SUBSET Leaving(c), new \in SUBSET Coming(c), done \in SUBSET Refilled(c) :
        /\ jobs' = (jobs \ gone) \union new \union UNION {NewJobs(c, t) : t \in done}
        /\ job_ids' = job_ids \union UNION {NewJobs(c, t) : t \in done}
  BY DEF Disconnect
<1> DEFINE known == UNION {NewJobs(c, t) : t \in done}
<1>6. done \subseteq Tasks /\ (done # {} => client[c].stage = "refill")
  BY DEF Refilled
<1>7. /\ \A j \in known : j \in Jobs /\ j.by = client[c].no
      /\ known # {} => client[c].stage = "refill"
  BY <1>3, <1>6
<1>8. jobs' = (jobs \ gone) \union (new \union known) /\ job_ids' = job_ids \union known
  BY <1>5
<1> HIDE DEF known
<1>9. /\ gone \in SUBSET Jobs /\ known \in SUBSET Jobs
      /\ new \union known \in SUBSET Jobs
  BY <1>1, <1>2, <1>4, <1>7
<1> USE <1>9
<1> WITNESS gone \in SUBSET Jobs, new \union known \in SUBSET Jobs, known \in SUBSET Jobs
<1> QED BY <1>2, <1>4, <1>7, <1>8

\* A handler of client c that keeps its part of the type invariant, and takes or
\* gives back the lock only for itself, keeps all of it.
LEMMA OneHandlerSteps ==
    ASSUME TypeOK, NEW c \in Clients, NEW h \in Handlers,
           client' = [client EXCEPT ![c] = h],
           rows' \in Table, used' \subseteq Tasks,
           \A t \in Tasks : rows'[t] # NoRow => t \in used',
           jobs' \subseteq Jobs, job_ids' \subseteq Jobs,
           requests' \in 0..MaxRequests, cut' \subseteq Tasks, raced' \subseteq Tasks,
           lock' = lock \/ {lock, lock'} \subseteq {c, Free},
           lock' = c <=> h.stage \in {"drain", "clear", "read", "refill"},
           h.stage \in {"remove", "drain", "get", "schedule", "register"} => h.task \in Tasks,
           h.stage = "schedule" => h.read[h.task] # NoRow,
           h.stage # "idle" => h.no # 0
    PROVE  TypeOK'
<1> USE RegistryAssumption
<1>1. /\ client' \in [Clients -> Handlers]
      /\ \A d \in Clients : client'[d] = IF d = c THEN h ELSE client[d]
  BY DEF TypeOK
<1>2. lock' \in Clients \union {Free}
  BY DEF TypeOK
<1>3. ASSUME NEW d \in Clients
      PROVE  lock' = d <=> client'[d].stage \in {"drain", "clear", "read", "refill"}
  BY <1>1 DEF TypeOK
<1>4. ASSUME NEW d \in Clients
      PROVE  /\ client'[d].stage \in {"remove", "drain", "get", "schedule", "register"} =>
                   client'[d].task \in Tasks
             /\ client'[d].stage = "schedule" => client'[d].read[client'[d].task] # NoRow
             /\ client'[d].stage # "idle" => client'[d].no # 0
  BY <1>1 DEF TypeOK
<1> QED BY <1>1, <1>2, <1>3, <1>4 DEF TypeOK

\* What of the type invariant a handler of client c relies on.
LEMMA HandlerType ==
    ASSUME TypeOK, NEW c \in Clients
    PROVE  /\ client[c] \in Handlers /\ Idle \in Handlers
           /\ Idle.stage = "idle"
           /\ rows \in Table /\ used \subseteq Tasks
           /\ \A t \in Tasks : rows[t] # NoRow => t \in used
           /\ jobs \subseteq Jobs /\ job_ids \subseteq Jobs
           /\ requests \in 0..MaxRequests /\ cut \subseteq Tasks /\ raced \subseteq Tasks
           /\ lock = c <=> client[c].stage \in {"drain", "clear", "read", "refill"}
           /\ client[c].stage \in {"remove", "drain", "get", "schedule", "register"} =>
                 client[c].task \in Tasks
           /\ client[c].stage # "idle" => client[c].no # 0
BY RegistryAssumption DEF TypeOK, Idle, Empty, Table, Handlers, Stages

\* Every variable keeps its type whatever the handlers of api/task.rs, a restore
\* and clients that go away do.
THEOREM RegistryTypeCorrect == Spec => []TypeOK
<1> USE RegistryAssumption
<1>1. Init => TypeOK
  BY DEF Init, TypeOK, Idle, Empty, Table, Handlers, Stages
<1>2. TypeOK /\ [Next]_vars => TypeOK'
  <2> SUFFICES ASSUME TypeOK, [Next]_vars PROVE TypeOK'
    OBVIOUS
  <2> USE DEF tableVars, historyVars
  <2>1. ASSUME NEW c \in Clients, Arrive(c) PROVE TypeOK'
    <3> USE HandlerType
    <3>1. /\ requests + 1 \in 0..MaxRequests /\ requests + 1 \in Versions
          /\ requests + 1 # 0
      BY <2>1 DEF Arrive, create_task, update_task, delete_task, restore_backup,
                  Receive, Versions
    <3>2. \A crons \in CronLists : [ver |-> requests + 1, crons |-> crons] \in Rows
      BY <3>1 DEF Rows
    <3>3. Empty \in Table /\ NoRow \in Rows \union {NoRow}
      BY DEF Empty, Table
    <3>4. ASSUME NEW op \in {"none", "create", "update", "delete", "reload"},
                 NEW stage \in {"get", "remove", "reload"}, NEW t \in Tasks \union {NoTask},
                 Receive(c, op, stage, t), stage # "reload" => t \in Tasks,
                 rows' \in Table, used' \subseteq Tasks,
                 \A u \in Tasks : rows'[u] # NoRow => u \in used',
                 UNCHANGED <<jobs, job_ids, lock>>, cut' \subseteq Tasks
          PROVE  TypeOK'
      <4> DEFINE h == [stage |-> stage, op |-> op, task |-> t, no |-> requests + 1,
                       read |-> Empty, hand |-> {}]
      <4>1. h \in Handlers
        BY <3>1, <3>3 DEF Handlers, Stages
      <4>2. /\ h.stage = stage /\ h.task = t /\ h.no = requests + 1
            /\ client' = [client EXCEPT ![c] = h]
            /\ requests' = requests + 1 /\ raced' \subseteq Tasks
            /\ client[c].stage = "idle"
        BY <3>4 DEF Receive
      <4> HIDE DEF h
      <4> QED BY <3>1, <3>4, <4>1, <4>2, OneHandlerSteps
    <3>5. CASE create_task(c)
      BY <3>2, <3>4, <3>5 DEF create_task, Table
    <3>6. CASE update_task(c)
      BY <3>2, <3>4, <3>6 DEF update_task, Table
    <3>7. CASE delete_task(c)
      BY <3>4, <3>7 DEF delete_task, Table
    <3>8. CASE restore_backup(c)
      <4>1. /\ rows' \in Table /\ UNCHANGED <<jobs, job_ids, lock>> /\ cut' \subseteq Tasks
            /\ Receive(c, "reload", "reload", NoTask)
            /\ used' \subseteq Tasks /\ \A u \in Tasks : rows'[u] # NoRow => u \in used'
        BY <3>2, <3>8 DEF restore_backup, Table
      <4> QED BY <3>4, <4>1
    <3> QED BY <2>1, <3>5, <3>6, <3>7, <3>8 DEF Arrive
  <2>2. ASSUME NEW c \in Clients, Handle(c) PROVE TypeOK'
    <3> USE HandlerType
    <3>1. CASE RemoveBegin(c)
      <4> DEFINE h == [client[c] EXCEPT !.stage = "drain", !.hand = job_ids]
      <4>1. h \in Handlers /\ h.stage = "drain" /\ h.task = client[c].task
            /\ h.no = client[c].no
        BY DEF Handlers, Stages
      <4>2. client' = [client EXCEPT ![c] = h]
        BY <3>1 DEF RemoveBegin
      <4> HIDE DEF h
      <4> QED BY <3>1, <4>1, <4>2, OneHandlerSteps DEF RemoveBegin
    <3>2. CASE RemoveEnd(c)
      <4> DEFINE next == [client[c] EXCEPT !.stage = "get", !.hand = {}]
                 h == IF client[c].op = "update" THEN next ELSE Idle
      <4>1. next \in Handlers /\ next.stage = "get" /\ next.task = client[c].task
            /\ next.no = client[c].no
        BY DEF Handlers, Stages
      <4>2. client' = [client EXCEPT ![c] = IF client[c].op = "update" THEN next ELSE Idle]
        BY <3>2 DEF RemoveEnd, Finish
      <4>3. client[c].hand \subseteq Jobs
        BY DEF Handlers
      <4> HIDE DEF next
      <4> QED BY <3>2, <4>1, <4>2, <4>3, OneHandlerSteps DEF RemoveEnd, JobsOf
    <3>3. CASE Get(c)
      <4> DEFINE t == client[c].task
                 next == [client[c] EXCEPT !.stage = "schedule", !.read[t] = rows[t]]
      <4>1. t \in Tasks /\ rows[t] \in Rows \union {NoRow} /\ client[c].read \in Table
        BY <3>3 DEF Get, Table, Handlers
      <4>2. [client[c].read EXCEPT ![t] = rows[t]] \in Table
        BY <4>1 DEF Table
      <4>3. /\ next \in Handlers /\ next.stage = "schedule" /\ next.task = t
            /\ next.no = client[c].no
        BY <4>2 DEF Handlers, Stages
      <4>4. next.read[t] = rows[t]
        BY <4>1 DEF Table, Handlers
      <4>5. CASE rows[t].crons = <<>>
        BY <3>3, <4>5, OneHandlerSteps DEF Get, Finish
      <4>6. CASE rows[t].crons # <<>>
        <5>1. rows[t] # NoRow
          BY <4>6 DEF NoRow
        <5>2. client' = [client EXCEPT ![c] = next]
          BY <3>3, <4>6 DEF Get
        <5> HIDE DEF next
        <5> QED BY <3>3, <4>1, <4>3, <4>4, <5>1, <5>2, OneHandlerSteps DEF Get
      <4> QED BY <4>5, <4>6
    <3>4. CASE Schedule(c)
      <4> DEFINE new == NewJobs(c, client[c].task)
                 next == [client[c] EXCEPT !.stage = "register", !.hand = new]
      <4>1. client[c].task \in Tasks /\ new \subseteq Jobs
        BY <3>4, NewJobsAreJobs DEF Schedule
      <4>2. next \in Handlers /\ next.stage = "register" /\ next.task = client[c].task
            /\ next.no = client[c].no
        BY <4>1 DEF Handlers, Stages
      <4> HIDE DEF new
      <4>3. CASE Valid(client[c].read[client[c].task])
        <5>1. client' = [client EXCEPT ![c] = next]
          BY <3>4, <4>3 DEF Schedule, new
        <5> HIDE DEF next
        <5> QED BY <3>4, <4>1, <4>2, <4>3, <5>1, OneHandlerSteps DEF Schedule, new
      <4>4. CASE ~Valid(client[c].read[client[c].task])
        BY <3>4, <4>1, <4>4, OneHandlerSteps DEF Schedule, Finish, new
      <4> QED BY <4>3, <4>4
    <3>5. CASE Register(c)
      BY <3>5, OneHandlerSteps DEF Register, Finish, Handlers
    <3>6. CASE ReloadBegin(c)
      <4> DEFINE h == [client[c] EXCEPT !.stage = "clear", !.hand = job_ids]
      <4>1. h \in Handlers /\ h.stage = "clear" /\ h.no = client[c].no
        BY DEF Handlers, Stages
      <4>2. client' = [client EXCEPT ![c] = h]
        BY <3>6 DEF ReloadBegin
      <4> HIDE DEF h
      <4> QED BY <3>6, <4>1, <4>2, OneHandlerSteps DEF ReloadBegin
    <3>7. CASE ReloadClear(c)
      <4> DEFINE h == [client[c] EXCEPT !.stage = "read", !.hand = {}]
      <4>1. h \in Handlers /\ h.stage = "read" /\ h.no = client[c].no
        BY DEF Handlers, Stages
      <4>2. client' = [client EXCEPT ![c] = h]
        BY <3>7 DEF ReloadClear
      <4> HIDE DEF h
      <4> QED BY <3>7, <4>1, <4>2, OneHandlerSteps DEF ReloadClear
    <3>8. CASE ReloadRead(c)
      <4> DEFINE h == [client[c] EXCEPT !.stage = "refill", !.read = rows]
      <4>1. h \in Handlers /\ h.stage = "refill" /\ h.no = client[c].no
        BY DEF Handlers, Stages
      <4>2. client' = [client EXCEPT ![c] = h]
        BY <3>8 DEF ReloadRead
      <4> HIDE DEF h
      <4> QED BY <3>8, <4>1, <4>2, OneHandlerSteps DEF ReloadRead
    <3>9. CASE ReloadFail(c)
      BY <3>9, OneHandlerSteps DEF ReloadFail, Finish
    <3>10. CASE ReloadRefill(c)
      <4>1. \A t \in Tasks : NewJobs(c, t) \subseteq Jobs
        BY <3>10, NewJobsAreJobs DEF ReloadRefill
      <4> QED BY <3>10, <4>1, OneHandlerSteps DEF ReloadRefill, Finish
    <3> QED BY <2>2, <3>1, <3>2, <3>3, <3>4, <3>5, <3>6, <3>7, <3>8, <3>9, <3>10 DEF Handle
  <2>3. ASSUME NEW c \in Clients, Disconnect(c) PROVE TypeOK'
    <3>1. jobs' \subseteq Jobs /\ job_ids' \subseteq Jobs
      BY <2>3, ComesAndGoes, HandlerType DEF Disconnect
    <3>2. (IF client[c].task = NoTask THEN Tasks ELSE {client[c].task}) \subseteq Tasks
      BY HandlerType DEF Handlers
    <3> QED BY <2>3, <3>1, <3>2, HandlerType, OneHandlerSteps DEF Disconnect, Finish
  <2>4. CASE UNCHANGED vars BY <2>4 DEF vars, TypeOK
  <2> QED BY <2>1, <2>2, <2>3, <2>4 DEF Next
<1> QED BY <1>1, <1>2, PTL DEF Spec

-----------------------------------------------------------------------------
(* ListedAreLive.                                                          *)

\* A handler has a number of its own; idle ones have 0, which no job carries.
Numbered ==
    /\ \A c \in Clients : client[c].no <= requests /\ (client[c].stage = "idle" => client[c].no = 0)
    /\ \A c, d \in Clients : c # d /\ client[c].no = client[d].no => client[c].no = 0
    /\ \A j \in jobs : j.by <= requests

\* The jobs on the list, and in the hands of a handler that has emptied it or is
\* about to extend it, are there; only one at a time has emptied it.
HandsLive ==
    /\ job_ids \subseteq jobs
    /\ lock # Free => job_ids = {}
    /\ \A c \in Clients :
          client[c].stage \in {"drain", "clear", "register"} => client[c].hand \subseteq jobs

\* What a handler is about to put on the list it has made itself, and nothing it
\* is still making is on the list or was drained from it by another handler.
OwnJobs ==
    \A c \in Clients :
       /\ client[c].stage = "register" => \A j \in client[c].hand : j.by = client[c].no
       /\ \A j \in job_ids : j.by # client[c].no
       /\ \A d \in Clients : client[d].stage \in {"drain", "clear"} =>
             \A j \in client[d].hand : j.by # client[c].no

ListInv == Numbered /\ HandsLive /\ OwnJobs

\* The handler of client c goes on as h: new jobs carry its number, it removes none
\* that another handler holds, and what it puts on the list or takes off it is
\* there and none that a handler, itself as h included, has yet to put there.
Numbers(c, h) ==
    /\ requests' \in {requests, requests + 1} /\ h.no <= requests'
    /\ h.no \in {0, client[c].no} \/ h.no > requests
    /\ h.stage = "idle" => h.no = 0
Changes(c) ==
    /\ \A j \in jobs' \ jobs : j.by = client[c].no
    /\ \A d \in Clients \ {c} :
          client[d].stage \in {"drain", "clear", "register"} => client[d].hand \subseteq jobs'
    /\ job_ids' \subseteq jobs' /\ (lock' # Free => job_ids' = {})
    /\ \A d \in Clients \ {c}, j \in job_ids' : j.by # client[d].no
Holds(c, h) ==
    /\ h.stage \in {"drain", "clear", "register"} => h.hand \subseteq jobs'
    /\ h.stage = "register" => \A j \in h.hand : j.by = h.no
    /\ \A j \in job_ids' : j.by # h.no
    /\ h.stage \in {"drain", "clear"} =>
          /\ \A j \in h.hand : j.by # h.no
          /\ \A d \in Clients \ {c}, j \in h.hand : j.by # client[d].no

LEMMA ListStep ==
    ASSUME TypeOK, ListInv, TypeOK', NEW c \in Clients, NEW h,
           client' = [client EXCEPT ![c] = h], Numbers(c, h), Changes(c), Holds(c, h)
    PROVE  ListInv'
<1> USE DEF Numbers, Changes, Holds
<1>0. client \in [Clients -> Handlers] /\ client' \in [Clients -> Handlers]
  BY DEF TypeOK
<1>1. h \in Handlers /\ \A d \in Clients : client'[d] = IF d = c THEN h ELSE client[d]
  BY <1>0
<1>2. /\ requests \in Nat /\ requests' \in Nat /\ h.no \in Nat
      /\ \A d \in Clients : client[d].no \in Nat /\ client[d].hand \subseteq Jobs
  BY <1>1, RegistryAssumption DEF TypeOK, Handlers
<1>3. /\ jobs \subseteq Jobs /\ jobs' \subseteq Jobs
      /\ \A j \in Jobs : j.by \in Nat /\ j.by # 0
  BY RegistryAssumption DEF TypeOK, Jobs, Versions
<1>4. Numbered'
  <2>1. ASSUME NEW d \in Clients
        PROVE  client'[d].no <= requests' /\ (client'[d].stage = "idle" => client'[d].no = 0)
    BY <1>1, <1>2 DEF ListInv, Numbered
  <2>2. ASSUME NEW d \in Clients, NEW e \in Clients, d # e, client'[d].no = client'[e].no
        PROVE  client'[d].no = 0
    BY <1>1, <1>2, <2>2 DEF ListInv, Numbered
  <2>3. ASSUME NEW j \in jobs' PROVE j.by <= requests'
    BY <1>2, <1>3, <2>3 DEF ListInv, Numbered
  <2> QED BY <2>1, <2>2, <2>3 DEF Numbered
<1>5. HandsLive'
  BY <1>1 DEF ListInv, HandsLive
<1>6. OwnJobs'
  <2>1. ASSUME NEW d \in Clients
        PROVE  /\ client'[d].stage = "register" => \A j \in client'[d].hand : j.by = client'[d].no
               /\ \A j \in job_ids' : j.by # client'[d].no
    BY <1>1 DEF ListInv, OwnJobs
  <2>2. ASSUME NEW d \in Clients, client'[d].stage \in {"drain", "clear"},
               NEW j \in client'[d].hand, NEW e \in Clients
        PROVE  j.by # client'[e].no
    <3>1. CASE d = c BY <1>1, <2>2, <3>1
    <3>2. CASE d # c
      <4>1. j \in jobs /\ j \in Jobs /\ j.by <= requests /\ j.by # client[c].no
            /\ j.by # client[e].no
        BY <1>1, <1>3, <2>2, <3>2 DEF ListInv, Numbered, HandsLive, OwnJobs
      <4> QED BY <1>1, <1>2, <1>3, <4>1
    <3> QED BY <3>1, <3>2
  <2> QED BY <2>1, <2>2 DEF OwnJobs
<1> QED BY <1>4, <1>5, <1>6 DEF ListInv

\* Whatever handlers run into each other or are dropped, an entry of job_ids is
\* the id of a job that the cron scheduler holds.
THEOREM ListedStayLive == Spec => []ListedAreLive
<1> USE RegistryAssumption
<1>1. Init => ListInv
  BY DEF Init, ListInv, Numbered, HandsLive, OwnJobs, Idle
<1>2. TypeOK /\ TypeOK' /\ ListInv /\ [Next]_vars => ListInv'
  <2> SUFFICES ASSUME TypeOK, TypeOK', ListInv, [Next]_vars PROVE ListInv'
    OBVIOUS
  <2> USE DEF tableVars, historyVars
  <2>1. /\ Idle.stage = "idle" /\ Idle.no = 0
        /\ \A j \in Jobs : j.by \in Nat /\ j.by # 0
    BY DEF Idle, Jobs, Versions
  \* What a step of client c finds, and what it leaves to the others.
  <2>2. ASSUME NEW c \in Clients
        PROVE  /\ client[c] \in Handlers /\ Idle \in Handlers
               /\ requests \in Nat /\ client[c].no \in Nat /\ client[c].no <= requests
               /\ jobs \subseteq Jobs
               /\ job_ids \subseteq jobs
               /\ \A d \in Clients : \A j \in job_ids : j.by # client[d].no
               /\ lock = c <=> client[c].stage \in {"drain", "clear", "read", "refill"}
               /\ \A d \in Clients :
                     client[d].stage \in {"drain", "clear", "register"} => client[d].hand \subseteq jobs
               /\ client[c].stage = "idle" => client[c].no = 0
               /\ \A j \in jobs : j.by <= requests
    BY HandlerType DEF TypeOK, ListInv, Numbered, HandsLive, OwnJobs, Handlers
  <2>3. ASSUME NEW c \in Clients, Arrive(c) PROVE ListInv'
    <3>1. PICK op, stage, t : /\ Receive(c, op, stage, t)
                              /\ stage \in {"get", "remove", "reload"}
                              /\ UNCHANGED <<jobs, job_ids, lock>>
      BY <2>3 DEF Arrive, create_task, update_task, delete_task, restore_backup
    <3> DEFINE h == [stage |-> stage, op |-> op, task |-> t, no |-> requests + 1,
                     read |-> Empty, hand |-> {}]
    <3>2. /\ client' = [client EXCEPT ![c] = h]
          /\ h.stage = stage /\ h.no = requests + 1
          /\ requests' = requests + 1
      BY <3>1 DEF Receive
    <3> HIDE DEF h
    <3>3. Numbers(c, h)
      BY <2>2, <3>1, <3>2 DEF Numbers
    <3>4. Changes(c)
      BY <2>2, <3>1 DEF Changes, ListInv, HandsLive
    <3>5. Holds(c, h)
      BY <2>1, <2>2, <3>1, <3>2 DEF Holds
    <3> QED BY <3>2, <3>3, <3>4, <3>5, ListStep
  <2>4. ASSUME NEW c \in Clients, Handle(c) PROVE ListInv'
    <3> USE <2>1, <2>2 DEF Numbers, Changes, Holds
    <3>0. HandsLive /\ OwnJobs
      BY DEF ListInv
    <3>1. CASE RemoveBegin(c)
      <4> DEFINE h == [client[c] EXCEPT !.stage = "drain", !.hand = job_ids]
      <4>1. h.stage = "drain" /\ h.no = client[c].no /\ h.hand = job_ids
        BY DEF Handlers
      <4>2. client' = [client EXCEPT ![c] = h]
        BY <3>1 DEF RemoveBegin
      <4> HIDE DEF h
      <4>3. Numbers(c, h) /\ Changes(c) /\ Holds(c, h)
        BY <3>1, <4>1 DEF RemoveBegin
      <4> QED BY <4>2, <4>3, ListStep
    <3>2. CASE RemoveEnd(c)
      <4> DEFINE next == [client[c] EXCEPT !.stage = "get", !.hand = {}]
                 h == IF client[c].op = "update" THEN next ELSE Idle
      <4>1. next.stage = "get" /\ next.no = client[c].no
        BY DEF Handlers
      <4>2. client' = [client EXCEPT ![c] = h]
        BY <3>2 DEF RemoveEnd, Finish
      <4> HIDE DEF next
      <4>3. /\ h.stage \in {"get", "idle"} /\ h.no \in {0, client[c].no}
            /\ h.stage = "idle" => h.no = 0
        BY <3>2, <4>1
      <4> HIDE DEF h
      <4>4. \A j \in client[c].hand :
               j \in jobs /\ j.by # h.no /\ \A d \in Clients : j.by # client[d].no
        BY <3>0, <3>2, <4>3 DEF RemoveEnd, OwnJobs, HandsLive
      <4>5. /\ jobs' \subseteq jobs /\ jobs \ jobs' \subseteq client[c].hand
            /\ job_ids' \subseteq client[c].hand /\ job_ids' \subseteq jobs'
            /\ lock' = Free /\ requests' = requests /\ lock = c
        BY <3>2 DEF RemoveEnd, JobsOf, HandsLive
      <4>6. ASSUME NEW d \in Clients \ {c}, client[d].stage \in {"drain", "clear", "register"}
            PROVE  client[d].hand \subseteq jobs'
        <5>1. client[d].stage = "register"
          BY <4>5, <4>6 DEF TypeOK
        <5>2. \A j \in client[d].hand : j \in jobs /\ j.by = client[d].no
          BY <3>0, <5>1 DEF OwnJobs, HandsLive
        <5> QED BY <4>4, <4>5, <5>2
      <4>7. Numbers(c, h)
        BY <4>3, <4>5
      <4>8. Changes(c)
        BY <4>4, <4>5, <4>6
      <4>9. Holds(c, h)
        BY <4>3, <4>4, <4>5
      <4> QED BY <4>2, <4>7, <4>8, <4>9, ListStep
    <3>3. CASE Get(c)
      <4> DEFINE next == [client[c] EXCEPT !.stage = "schedule",
                                           !.read[client[c].task] = rows[client[c].task]]
                 h == IF rows[client[c].task].crons = <<>> THEN Idle ELSE next
      <4>1. next.stage = "schedule" /\ next.no = client[c].no
        BY DEF Handlers
      <4>2. client' = [client EXCEPT ![c] = h]
        BY <3>3 DEF Get, Finish
      <4> HIDE DEF next
      <4>3. /\ h.stage \in {"schedule", "idle"} /\ h.no \in {0, client[c].no}
            /\ h.stage = "idle" => h.no = 0
        BY <4>1
      <4> HIDE DEF h
      <4>4. Numbers(c, h) /\ Changes(c) /\ Holds(c, h)
        BY <3>0, <3>3, <4>3 DEF Get, HandsLive
      <4> QED BY <4>2, <4>4, ListStep
    <3>4. CASE Schedule(c)
      <4> DEFINE new == NewJobs(c, client[c].task)
                 next == [client[c] EXCEPT !.stage = "register", !.hand = new]
                 h == IF Valid(client[c].read[client[c].task]) THEN next ELSE Idle
      <4>1. \A j \in new : j.by = client[c].no
        BY <3>4, NewJobsAreJobs DEF Schedule, TypeOK
      <4>2. next.stage = "register" /\ next.no = client[c].no /\ next.hand = new
        BY DEF Handlers
      <4>3. client' = [client EXCEPT ![c] = h]
        BY <3>4 DEF Schedule, Finish
      <4>4. jobs' = jobs \union new /\ UNCHANGED <<job_ids, lock, requests>>
        BY <3>4 DEF Schedule
      <4> HIDE DEF new, next
      <4>5. /\ h.stage \in {"register", "idle"} /\ h.no \in {0, client[c].no}
            /\ h.stage = "idle" => h.no = 0
            /\ h.stage = "register" => h.no = client[c].no /\ h.hand = new
        BY <4>2
      <4> HIDE DEF h
      <4>6. Numbers(c, h) /\ Changes(c) /\ Holds(c, h)
        BY <3>0, <4>1, <4>4, <4>5 DEF HandsLive
      <4> QED BY <4>3, <4>6, ListStep
    <3>5. CASE Register(c)
      <4>1. client' = [client EXCEPT ![c] = Idle]
        BY <3>5 DEF Register, Finish
      <4>2. \A d \in Clients \ {c} : client[d].no # client[c].no
        BY <3>5 DEF Register, TypeOK, ListInv, Numbered
      <4>3. \A j \in client[c].hand : j \in jobs /\ j.by = client[c].no /\ j.by # 0
        BY <3>0, <3>5 DEF Register, OwnJobs, HandsLive
      <4>4. Numbers(c, Idle) /\ Changes(c) /\ Holds(c, Idle)
        BY <3>5, <4>2, <4>3 DEF Register
      <4> QED BY <4>1, <4>4, ListStep
    <3>6. CASE ReloadBegin(c)
      <4> DEFINE h == [client[c] EXCEPT !.stage = "clear", !.hand = job_ids]
      <4>1. h.stage = "clear" /\ h.no = client[c].no /\ h.hand = job_ids
        BY DEF Handlers
      <4>2. client' = [client EXCEPT ![c] = h]
        BY <3>6 DEF ReloadBegin
      <4> HIDE DEF h
      <4>3. Numbers(c, h) /\ Changes(c) /\ Holds(c, h)
        BY <3>6, <4>1 DEF ReloadBegin
      <4> QED BY <4>2, <4>3, ListStep
    <3>7. CASE ReloadClear(c)
      <4> DEFINE h == [client[c] EXCEPT !.stage = "read", !.hand = {}]
      <4>1. h.stage = "read" /\ h.no = client[c].no
        BY DEF Handlers
      <4>2. client' = [client EXCEPT ![c] = h]
        BY <3>7 DEF ReloadClear
      <4> HIDE DEF h
      <4>3. \A j \in client[c].hand : \A d \in Clients : j.by # client[d].no
        BY <3>0, <3>7 DEF ReloadClear, OwnJobs
      <4>4. lock = c /\ lock # Free /\ job_ids = {} /\ UNCHANGED <<job_ids, lock, requests>>
            /\ jobs' = jobs \ client[c].hand
        BY <3>0, <3>7 DEF ReloadClear, HandsLive
      <4>5. ASSUME NEW d \in Clients \ {c}, client[d].stage \in {"drain", "clear", "register"}
            PROVE  client[d].hand \subseteq jobs'
        <5>1. client[d].stage = "register"
          BY <4>4, <4>5 DEF TypeOK
        <5>2. \A j \in client[d].hand : j \in jobs /\ j.by = client[d].no
          BY <3>0, <5>1 DEF OwnJobs, HandsLive
        <5> QED BY <4>3, <4>4, <5>2
      <4>6. Numbers(c, h) /\ Changes(c) /\ Holds(c, h)
        BY <4>1, <4>4, <4>5
      <4> QED BY <4>2, <4>6, ListStep
    <3>8. CASE ReloadRead(c)
      <4> DEFINE h == [client[c] EXCEPT !.stage = "refill", !.read = rows]
      <4>1. h.stage = "refill" /\ h.no = client[c].no
        BY DEF Handlers
      <4>2. client' = [client EXCEPT ![c] = h]
        BY <3>8 DEF ReloadRead
      <4> HIDE DEF h
      <4>3. Numbers(c, h) /\ Changes(c) /\ Holds(c, h)
        BY <3>0, <3>8, <4>1 DEF ReloadRead, HandsLive
      <4> QED BY <4>2, <4>3, ListStep
    <3>9. CASE ReloadFail(c)
      <4>1. client' = [client EXCEPT ![c] = Idle]
        BY <3>9 DEF ReloadFail, Finish
      <4>2. Numbers(c, Idle) /\ Changes(c) /\ Holds(c, Idle)
        BY <3>0, <3>9 DEF ReloadFail, HandsLive
      <4> QED BY <4>1, <4>2, ListStep
    <3>10. CASE ReloadRefill(c)
      <4>1. \A t \in Tasks : \A j \in NewJobs(c, t) : j \in Jobs /\ j.by = client[c].no
        BY <3>10, NewJobsAreJobs DEF ReloadRefill
      <4>2. client' = [client EXCEPT ![c] = Idle]
        BY <3>10 DEF ReloadRefill, Finish
      <4>3. \A d \in Clients \ {c} : client[d].no # client[c].no
        BY <3>10 DEF ReloadRefill, TypeOK, ListInv, Numbered
      <4>4. /\ jobs \subseteq jobs' /\ \A j \in jobs' \ jobs : j.by = client[c].no
            /\ job_ids' \subseteq jobs' /\ \A j \in job_ids' : j \in Jobs /\ j.by = client[c].no
            /\ requests' = requests /\ lock' = Free
        BY <3>10, <4>1 DEF ReloadRefill
      <4>5. Numbers(c, Idle) /\ Changes(c) /\ Holds(c, Idle)
        BY <4>3, <4>4
      <4> QED BY <4>2, <4>5, ListStep
    <3> QED BY <2>4, <3>1, <3>2, <3>3, <3>4, <3>5, <3>6, <3>7, <3>8, <3>9, <3>10 DEF Handle
  <2>5. ASSUME NEW c \in Clients, Disconnect(c) PROVE ListInv'
    <3> USE <2>1, <2>2 DEF Numbers, Changes, Holds
    <3>0. HandsLive /\ OwnJobs
      BY DEF ListInv
    <3>1. client' = [client EXCEPT ![c] = Idle] /\ requests' = requests
          /\ lock' = (IF lock = c THEN Free ELSE lock) /\ client[c].stage # "idle"
      BY <2>5 DEF Disconnect, Finish
    <3>2. PICK gone \in SUBSET Jobs, new \in SUBSET Jobs, known \in SUBSET Jobs :
              /\ jobs' = (jobs \ gone) \union new
              /\ gone # {} => client[c].stage \in {"drain", "clear"}
              /\ gone \subseteq client[c].hand
              /\ \A j \in new : j.by = client[c].no
              /\ job_ids' = job_ids \union known /\ known \subseteq new
              /\ known # {} => client[c].stage = "refill"
      BY <2>5, ComesAndGoes
    <3>3. CASE gone = {}
      <4>1. jobs \subseteq jobs' /\ \A j \in jobs' \ jobs : j.by = client[c].no
        BY <3>2, <3>3
      <4>2. \A d \in Clients \ {c} : client[d].no # client[c].no
        BY <3>1 DEF TypeOK, ListInv, Numbered
      <4>3. /\ \A j \in known : j.by = client[c].no /\ j.by # 0 /\ j \in jobs'
            /\ known # {} => lock = c
        BY <3>2, <3>3
      <4>4. /\ job_ids' \subseteq jobs' /\ (lock' # Free => job_ids' = {})
            /\ \A d \in Clients \ {c}, j \in job_ids' : j.by # client[d].no
            /\ \A j \in job_ids' : j.by # 0
        BY <3>0, <3>1, <3>2, <4>1, <4>2, <4>3 DEF HandsLive
      <4>5. Numbers(c, Idle) /\ Changes(c) /\ Holds(c, Idle)
        BY <3>1, <4>1, <4>4
      <4> QED BY <3>1, <4>5, ListStep
    <3>4. CASE gone # {}
      <4>1. /\ lock = c /\ lock # Free /\ job_ids = {} /\ known = {} /\ job_ids' = {}
            /\ client[c].stage \in {"drain", "clear"}
        BY <3>0, <3>2, <3>4 DEF HandsLive
      <4>2. \A j \in gone : \A d \in Clients : j.by # client[d].no
        BY <3>0, <3>2, <4>1 DEF OwnJobs
      <4>3. ASSUME NEW d \in Clients \ {c}, client[d].stage \in {"drain", "clear", "register"}
            PROVE  client[d].hand \subseteq jobs'
        <5>1. client[d].stage = "register"
          BY <4>1, <4>3 DEF TypeOK
        <5>2. \A j \in client[d].hand : j \in jobs /\ j.by = client[d].no
          BY <3>0, <5>1 DEF OwnJobs, HandsLive
        <5> QED BY <3>2, <4>2, <5>2
      <4>4. \A j \in jobs' \ jobs : j.by = client[c].no
        BY <3>2
      <4>5. Numbers(c, Idle) /\ Changes(c) /\ Holds(c, Idle)
        BY <3>1, <4>1, <4>3, <4>4
      <4> QED BY <3>1, <4>5, ListStep
    <3> QED BY <3>3, <3>4
  <2>6. CASE UNCHANGED vars
    BY <2>6 DEF vars, ListInv, Numbered, HandsLive, OwnJobs
  <2> QED BY <2>3, <2>4, <2>5, <2>6 DEF Next
<1>3. ListInv => ListedAreLive
  BY DEF ListInv, HandsLive, ListedAreLive
<1> QED BY <1>1, <1>2, <1>3, RegistryTypeCorrect, PTL DEF Spec

-----------------------------------------------------------------------------
(* OthersUndisturbed.                                                      *)

\* Only a reload empties the whole scheduler.
OnlyReloadsClear ==
    \A c \in Clients : client[c].stage \in {"reload", "clear"} => client[c].op = "reload"

\* Of a handler of one task the other tasks have nothing to fear: a job is removed
\* by a handler of its own task or by a reload, and by nobody else.
THEOREM OthersStayScheduled == Spec => OthersUndisturbed
<1> USE RegistryAssumption
<1>1. Init => OnlyReloadsClear
  BY DEF Init, OnlyReloadsClear, Idle
<1>2. TypeOK /\ OnlyReloadsClear /\ [Next]_vars => OnlyReloadsClear'
  <2> SUFFICES ASSUME TypeOK, OnlyReloadsClear, [Next]_vars PROVE OnlyReloadsClear'
    OBVIOUS
  <2> USE DEF OnlyReloadsClear
  <2>1. client \in [Clients -> Handlers] /\ Idle.stage = "idle"
    BY DEF TypeOK, Idle
  <2>2. ASSUME NEW c \in Clients, NEW h, client' = [client EXCEPT ![c] = h],
               h.stage \in {"reload", "clear"} => h.op = "reload"
        PROVE  OnlyReloadsClear'
    BY <2>1, <2>2
  <2>3. ASSUME NEW c \in Clients, NEW op, NEW stage, NEW t, Receive(c, op, stage, t),
               stage \in {"reload", "clear"} => op = "reload"
        PROVE  OnlyReloadsClear'
    BY <2>2, <2>3 DEF Receive
  <2>4. ASSUME NEW c \in Clients, Arrive(c) PROVE OnlyReloadsClear'
    BY <2>3, <2>4 DEF Arrive, create_task, update_task, delete_task, restore_backup
  <2>5. ASSUME NEW c \in Clients, Handle(c) PROVE OnlyReloadsClear'
    <3> USE <2>1 DEF Finish
    <3>1. CASE RemoveBegin(c) BY <3>1 DEF RemoveBegin, Handlers
    <3>2. CASE RemoveEnd(c) BY <3>2 DEF RemoveEnd, Handlers
    <3>3. CASE Get(c)
      <4>1. client[c] \in Handlers
        BY <2>1
      <4>2. CASE rows[client[c].task].crons = <<>>
        BY <2>2, <3>3, <4>2 DEF Get
      <4>3. CASE rows[client[c].task].crons # <<>>
        BY <2>2, <3>3, <4>1, <4>3 DEF Get, Handlers
      <4> QED BY <4>2, <4>3
    <3>4. CASE Schedule(c) BY <3>4 DEF Schedule, Handlers
    <3>5. CASE Register(c) BY <2>2, <3>5 DEF Register
    <3>6. CASE ReloadBegin(c) BY <3>6 DEF ReloadBegin, Handlers
    <3>7. CASE ReloadClear(c) BY <3>7 DEF ReloadClear, Handlers
    <3>8. CASE ReloadRead(c) BY <3>8 DEF ReloadRead, Handlers
    <3>9. CASE ReloadFail(c) BY <2>2, <3>9 DEF ReloadFail
    <3>10. CASE ReloadRefill(c) BY <2>2, <3>10 DEF ReloadRefill
    <3> QED BY <2>5, <3>1, <3>2, <3>3, <3>4, <3>5, <3>6, <3>7, <3>8, <3>9, <3>10 DEF Handle
  <2>6. ASSUME NEW c \in Clients, Disconnect(c) PROVE OnlyReloadsClear'
    BY <2>1, <2>2, <2>6 DEF Disconnect, Finish
  <2>7. CASE UNCHANGED vars BY <2>7 DEF vars
  <2> QED BY <2>4, <2>5, <2>6, <2>7 DEF Next
<1>3. TypeOK /\ OnlyReloadsClear /\ [Next]_vars =>
        [\A j \in jobs \ jobs' :
           \E c \in Clients : client[c].task = j.task \/ client[c].op = "reload"]_vars
  <2> SUFFICES ASSUME OnlyReloadsClear, Next, NEW j \in jobs \ jobs'
               PROVE  \E c \in Clients : client[c].task = j.task \/ client[c].op = "reload"
    BY DEF vars
  <2>1. PICK c \in Clients : Arrive(c) \/ Handle(c) \/ Disconnect(c)
    BY DEF Next
  <2>2. CASE Arrive(c)
    BY <2>2 DEF Arrive, create_task, update_task, delete_task, restore_backup
  <2>3. CASE Handle(c)
    BY <2>3 DEF Handle, RemoveBegin, RemoveEnd, JobsOf, Get, Schedule, Register, ReloadBegin,
                ReloadClear, ReloadRead, ReloadFail, ReloadRefill, OnlyReloadsClear
  <2>4. CASE Disconnect(c)
    BY <2>4 DEF Disconnect, Leaving, OnlyReloadsClear
  <2> QED BY <2>1, <2>2, <2>3, <2>4
<1>4. Spec => []TypeOK
  BY RegistryTypeCorrect
<1> QED BY <1>1, <1>2, <1>3, <1>4, PTL DEF Spec, OthersUndisturbed
=============================================================================
