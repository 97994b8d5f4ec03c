-------------------------- MODULE DependenceQueue --------------------------
(***************************************************************************)
(* services/dependence.rs: the table `dependences`, the request handlers   *)
(* over it, and the install queue that one semaphore permit makes serial.  *)
(*                                                                         *)
(* A handler is cut at each await of the database or of the semaphore.     *)
(* Outside the code in src/: the package manager may fail but, for the     *)
(* liveness properties, ends; tokio's semaphore is fair (first come, first *)
(* served) and forgets a waiter that is dropped; a handler whose client    *)
(* goes away is dropped at an await; the server may stop at any time.  A   *)
(* package command cut off like that is taken to have its effect, or not   *)
(* to have it, at once.  Database errors, logs and remarks are left out.   *)
(***************************************************************************)
EXTENDS Naturals, Sequences, SequencesExt, FiniteSetsExt

CONSTANTS
    Names,        \* (type, name) pairs of packages
    KeyOf,        \* dependency_key of a name: without version or spelling
    Requests,     \* the lists of names that create and import requests bring
    Clients,      \* concurrent requests; a slot is reused
    MaxId,        \* bound: rows ever inserted
    MaxLoad,      \* bound: requests and queued installations at one time
    MaxRestarts,  \* bound: restarts of the server
    NoName        \* the name of no row

Installers == {"startup", "job"}

ASSUME QueueAssumption ==
    /\ Requests \subseteq Seq(Names) /\ Clients \intersect Installers = {}
    /\ MaxId \in Nat /\ MaxLoad \in Nat /\ MaxRestarts \in Nat
    /\ NoName \notin Names

Ids == 1..MaxId
Statuses == {"absent", "installing", "installed", "failed", "removing", "removed"}
Deps == [id : Ids, name : Names]  \* a handler's own copy of a row

VARIABLES
    rows,       \* the table: id -> its status ("absent": no such row) and name
    nextId,     \* the next AUTOINCREMENT id
    packages,   \* the packages installed on the system
    req,        \* the requests being served, and their locals
    spawned,    \* installers spawned and not polled yet
    queue,      \* who holds the permit (the head) and who waits for it
    startup,    \* the rows that install_on_startup still has to install
    ready,      \* the startup tasks have been told that it is done
    restarts,   \* counts restarts
    abandoned,  \* history: ids some handler left half-way
    purged      \* history: names of packages that a deletion took off the system

vars == <<rows, nextId, packages, req, spawned, queue, startup, ready, restarts,
          abandoned, purged>>
tableVars == <<rows, nextId>>
bootVars == <<startup, ready, restarts>>
historyVars == <<abandoned, purged>>

NoRow == [status |-> "absent", name |-> NoName]
NoDep == [id |-> 0, name |-> NoName]
Idle == [op |-> "none", stage |-> "idle", todo |-> <<>>, made |-> <<>>, dep |-> NoDep]

Stages == {"idle", "check", "insert", "fetch", "found", "waiting", "removing", "dropping",
           "marked"}
Tasks == [op : {"none", "create", "ensure", "delete", "reinstall"}, stage : Stages,
          todo : Seq(Names), made : Seq(Deps), dep : Deps \union {NoDep}]

TypeOK ==
    /\ rows \in [Ids -> [status : Statuses, name : Names \union {NoName}]]
    /\ \A i \in Ids : rows[i].status = "absent" <=> rows[i].name = NoName
    /\ nextId \in 1..(MaxId + 1) /\ \A i \in Ids : i >= nextId => rows[i] = NoRow
    /\ packages \subseteq Names /\ purged \subseteq Names
    /\ req \in [Clients -> Tasks]
    /\ spawned \in Seq(Deps) /\ startup \in Seq(Deps)
    /\ queue \in Seq([who : Clients \union Installers, dep : Deps])
    /\ ready \in BOOLEAN /\ (ready <=> startup = <<>>)
    /\ restarts \in 0..MaxRestarts /\ abandoned \subseteq Ids

Init ==
    /\ rows = [i \in Ids |-> NoRow] /\ nextId = 1 /\ packages = {}
    /\ req = [c \in Clients |-> Idle]
    /\ spawned = <<>> /\ queue = <<>> /\ startup = <<>> /\ ready = TRUE
    /\ restarts = 0 /\ abandoned = {} /\ purged = {}

-----------------------------------------------------------------------------
Present(i) == rows[i].status # "absent"
DepOf(i) == [id |-> i, name |-> rows[i].name]

\* Variant: the row is written again if it is gone.
SetStatus_Upsert(i, status) == rows' = [rows EXCEPT ![i].status = status]

\* UPDATE ... WHERE id = ?: without effect when the row is gone.
SetStatus(i, status) ==
    rows' = IF Present(i) THEN [rows EXCEPT ![i].status = status] ELSE rows

Serves(who) == queue # <<>> /\ Head(queue).who = who
IdsOf(deps) == {deps[k].id : k \in DOMAIN deps}

Busy == {c \in Clients : req[c].stage # "idle"}
Load == Len(spawned) + Len(queue) + Cardinality(Busy)
Promised == MapThenSumSet(LAMBDA c : Len(req[c].todo), Busy)

\* A request arrives.  The bounds: MaxLoad and, for new rows, MaxId.
Receive(c, op, stage, todo, dep) ==
    /\ req[c].stage = "idle"
    /\ Load < MaxLoad
    /\ nextId + Promised + Len(todo) <= MaxId + 1
    /\ req' = [req EXCEPT ![c] = [op |-> op, stage |-> stage, todo |-> todo,
                                  made |-> <<>>, dep |-> dep]]

Finish(c) == req' = [req EXCEPT ![c] = Idle]

\* The permit of c is given back, or its place among the waiters is given up.
Leave(c) ==
    LET mine == {k \in DOMAIN queue : queue[k].who = c} IN
    \/ mine = {} /\ UNCHANGED queue
    \/ \E k \in mine : queue' = RemoveAt(queue, k)

-----------------------------------------------------------------------------
(* create, create_batch (create is a list of one) and ensure_dependencies. *)

create_batch(c) ==
    /\ \E names \in Requests : Receive(c, "create", "check", names, NoDep)
    /\ UNCHANGED <<tableVars, packages, spawned, queue, bootVars, historyVars>>

ensure_dependencies(c) ==
    /\ \E names \in Requests : Receive(c, "ensure", "check", names, NoDep)
    /\ UNCHANGED <<tableVars, packages, spawned, queue, bootVars, historyVars>>

\* create compares names, ensure_dependencies what is left of them as keys.
Exists(op, name) ==
    \E i \in Ids : Present(i) /\ IF op = "create" THEN rows[i].name = name
                                 ELSE KeyOf[rows[i].name] = KeyOf[name]

\* The name is new as far as this SELECT can tell.
CheckNew(c) ==
    /\ req[c].stage = "check" /\ req[c].todo # <<>>
    /\ ~Exists(req[c].op, Head(req[c].todo))
    /\ req' = [req EXCEPT ![c].stage = "insert"]
    /\ UNCHANGED <<tableVars, packages, spawned, queue, bootVars, historyVars>>

\* ensure_dependencies goes on with the next name.
CheckKnown(c) ==
    /\ req[c].op = "ensure" /\ req[c].stage = "check" /\ req[c].todo # <<>>
    /\ Exists("ensure", Head(req[c].todo))
    /\ req' = [req EXCEPT ![c].todo = Tail(@)]
    /\ UNCHANGED <<tableVars, packages, spawned, queue, bootVars, historyVars>>

\* create_batch returns an error; the rows it made have no installer.
CheckRefuse(c) ==
    /\ req[c].op = "create" /\ req[c].stage = "check" /\ req[c].todo # <<>>
    /\ Exists("create", Head(req[c].todo))
    /\ Finish(c)
    /\ abandoned' = abandoned \union IdsOf(req[c].made)
    /\ UNCHANGED <<tableVars, packages, spawned, queue, bootVars, purged>>

Insert(c) ==
    LET name == Head(req[c].todo) IN
    /\ req[c].stage = "insert"
    /\ nextId <= MaxId  \* a bound that Receive keeps free
    /\ rows' = [rows EXCEPT ![nextId] = [status |-> "installing", name |-> name]]
    /\ nextId' = nextId + 1
    /\ req' = [req EXCEPT ![c].stage = "fetch", ![c].todo = Tail(@),
                          ![c].dep = [id |-> nextId, name |-> name]]
    /\ purged' = purged \ {name}
    /\ UNCHANGED <<packages, spawned, queue, bootVars, abandoned>>

\* The new row is read back: create_batch keeps it for later,
\* ensure_dependencies spawns its installer.
Fetch(c) ==
    LET dep == DepOf(req[c].dep.id) IN
    /\ req[c].stage = "fetch" /\ Present(req[c].dep.id)
    /\ \/ /\ req[c].op = "create"
          /\ req' = [req EXCEPT ![c].stage = "check", ![c].made = Append(@, dep),
                                ![c].dep = NoDep]
          /\ UNCHANGED spawned
       \/ /\ req[c].op = "ensure"
          /\ req' = [req EXCEPT ![c].stage = "check", ![c].dep = NoDep]
          /\ spawned' = Append(spawned, dep)
    /\ UNCHANGED <<tableVars, packages, queue, bootVars, historyVars>>

\* The new row is gone already: an error, or a panic in create.
FetchNone(c) ==
    /\ req[c].stage = "fetch" /\ ~Present(req[c].dep.id)
    /\ Finish(c)
    /\ abandoned' = abandoned \union IdsOf(req[c].made)
    /\ UNCHANGED <<tableVars, packages, spawned, queue, bootVars, purged>>

\* Variant: the installer of the last row of a batch is forgotten.
CreateDone_SkipLast(c) ==
    /\ req[c].stage = "check" /\ req[c].todo = <<>>
    /\ Finish(c)
    /\ spawned' = spawned \o IF Len(req[c].made) > 1 THEN Front(req[c].made) ELSE req[c].made
    /\ UNCHANGED <<tableVars, packages, queue, bootVars, historyVars>>

\* All names are done: create_batch spawns the installers of its rows.
CreateDone(c) ==
    /\ req[c].stage = "check" /\ req[c].todo = <<>>
    /\ Finish(c)
    /\ spawned' = spawned \o req[c].made
    /\ UNCHANGED <<tableVars, packages, queue, bootVars, historyVars>>

-----------------------------------------------------------------------------
(* delete, soft_delete, reinstall, update.                                 *)

\* delete and reinstall begin by reading the row.
Get(c) ==
    /\ \E i \in Ids, op \in {"delete", "reinstall"} :
          Present(i) /\ Receive(c, op, "found", <<>>, DepOf(i))
    /\ UNCHANGED <<tableVars, packages, spawned, queue, bootVars, historyVars>>

DeleteWait(c) ==
    /\ req[c].op = "delete" /\ req[c].stage = "found"
    /\ req' = [req EXCEPT ![c].stage = "waiting"]
    /\ queue' = Append(queue, [who |-> c, dep |-> req[c].dep])
    /\ UNCHANGED <<tableVars, packages, spawned, bootVars, historyVars>>

\* Variant: the uninstallation does not wait for the permit.
UninstallBegin_NoPermit(c) ==
    /\ req[c].stage = "waiting"
    /\ req' = [req EXCEPT ![c].stage = "removing"]
    /\ SetStatus(req[c].dep.id, "removing")
    /\ UNCHANGED <<nextId, packages, spawned, queue, bootVars, historyVars>>

UninstallBegin(c) ==
    /\ req[c].stage = "waiting" /\ Serves(c)
    /\ req' = [req EXCEPT ![c].stage = "removing"]
    /\ SetStatus(req[c].dep.id, "removing")
    /\ UNCHANGED <<nextId, packages, spawned, queue, bootVars, historyVars>>

\* Variant: a failed uninstallation ends the deletion.
UninstallEnd_Stop(c) ==
    /\ req[c].stage = "removing"
    /\ \/ /\ SetStatus(req[c].dep.id, "removed")
          /\ packages' = packages \ {req[c].dep.name}
          /\ req' = [req EXCEPT ![c].stage = "dropping"]
          /\ UNCHANGED queue
       \/ /\ Finish(c)
          /\ Leave(c)
          /\ UNCHANGED <<rows, packages>>
    /\ UNCHANGED <<nextId, spawned, bootVars, historyVars>>

\* The exit status of the command is not looked at: whether or not it took the package
\* off, the row becomes "removed".  When it cannot be spawned, the row keeps its status
\* and is deleted all the same.
UninstallEnd(c) ==
    /\ req[c].stage = "removing"
    /\ req' = [req EXCEPT ![c].stage = "dropping"]
    /\ \/ /\ SetStatus(req[c].dep.id, "removed")
          /\ \E gone \in SUBSET {req[c].dep.name} :
                /\ packages' = packages \ gone
                /\ purged' = purged \union (gone \intersect packages)
       \/ UNCHANGED <<rows, packages, purged>>
    /\ UNCHANGED <<nextId, spawned, queue, bootVars, abandoned>>

\* DELETE, and the permit is given back.
Delete(c) ==
    LET dep == req[c].dep IN
    /\ req[c].stage = "dropping"
    /\ Finish(c)
    /\ rows' = [rows EXCEPT ![dep.id] = NoRow]
    /\ Leave(c)
    /\ UNCHANGED <<nextId, packages, spawned, bootVars, historyVars>>

soft_delete ==
    /\ \E i \in Ids :
          /\ Present(i)
          /\ rows' = [rows EXCEPT ![i] = NoRow]
          /\ purged' = purged \ {rows[i].name}
    /\ UNCHANGED <<nextId, packages, req, spawned, queue, bootVars, abandoned>>

\* UPDATE, for the row that was read.
Reinstall(c) ==
    /\ req[c].op = "reinstall" /\ req[c].stage = "found"
    /\ SetStatus(req[c].dep.id, "installing")
    /\ req' = [req EXCEPT ![c].stage = "marked"]
    /\ UNCHANGED <<nextId, packages, spawned, queue, bootVars, historyVars>>

\* Variant: no installer is spawned for a row that is being installed already.
ReinstallSpawn_Once(c) ==
    LET dep == req[c].dep IN
    /\ req[c].stage = "marked"
    /\ Finish(c)
    /\ spawned' = IF dep.id \in IdsOf(spawned) \/ \E k \in DOMAIN queue : queue[k].dep = dep
                  THEN spawned ELSE Append(spawned, dep)
    /\ UNCHANGED <<tableVars, packages, queue, bootVars, historyVars>>

\* tokio::spawn of its installer, once the UPDATE has been awaited.
ReinstallSpawn(c) ==
    /\ req[c].stage = "marked"
    /\ Finish(c)
    /\ spawned' = Append(spawned, req[c].dep)
    /\ UNCHANGED <<tableVars, packages, queue, bootVars, historyVars>>

\* A row may be renamed at any time, to any name.
update ==
    /\ \E i \in Ids, n \in Names :
          /\ Present(i)
          /\ rows' = [rows EXCEPT ![i].name = n]
          /\ purged' = purged \ {n, rows[i].name}
    /\ UNCHANGED <<nextId, packages, req, spawned, queue, bootVars, abandoned>>

-----------------------------------------------------------------------------
(* The installers.                                                         *)

\* A spawned installer is polled and asks for the permit.
Poll(k) ==
    /\ spawned' = RemoveAt(spawned, k)
    /\ queue' = Append(queue, [who |-> "job", dep |-> spawned[k]])
    /\ UNCHANGED <<tableVars, packages, req, bootVars, historyVars>>

\* The startup loop asks for the permit once for each row.
StartupWait ==
    /\ startup # <<>>
    /\ \A k \in DOMAIN queue : queue[k].who # "startup"
    /\ queue' = Append(queue, [who |-> "startup", dep |-> Head(startup)])
    /\ UNCHANGED <<tableVars, packages, req, spawned, bootVars, historyVars>>

\* install_dependency of the copy that was queued, whatever became of its row.
install_dependency ==
    LET dep == Head(queue).dep IN
    /\ \/ /\ packages' = packages \union {dep.name}
          /\ SetStatus(dep.id, "installed")
       \/ /\ SetStatus(dep.id, "failed")
          /\ UNCHANGED packages
    /\ queue' = Tail(queue)

InstallJob ==
    /\ Serves("job")
    /\ install_dependency
    /\ UNCHANGED <<nextId, req, spawned, bootVars, historyVars>>

\* Variant: the startup loop stops at the first failure, without its signal.
InstallStartup_Stop ==
    /\ Serves("startup")
    /\ install_dependency
    /\ startup' = IF packages' = packages THEN startup ELSE Tail(startup)
    /\ ready' = (startup' = <<>>)
    /\ UNCHANGED <<nextId, req, spawned, restarts, historyVars>>

\* The loop goes on after a failure; the last row sends the signal.
InstallStartup ==
    /\ Serves("startup")
    /\ install_dependency
    /\ startup' = Tail(startup)
    /\ ready' = (startup' = <<>>)
    /\ UNCHANGED <<nextId, req, spawned, restarts, historyVars>>

-----------------------------------------------------------------------------
(* Clients that go away, and restarts.                                     *)

\* What the commands of the dropped handlers C may have done.
CutOff(C) ==
    \E done \in SUBSET {c \in C : req[c].stage = "removing"} :
       packages' = packages \ {req[c].dep.name : c \in done}

\* The handler is dropped at an await; imports run in a task of their own, and
\* create_batch spawns its installers without one.
Disconnect(c) ==
    /\ req[c].stage # "idle" /\ req[c].op # "ensure"
    /\ req[c].stage = "check" => req[c].todo # <<>>
    /\ Finish(c)
    /\ Leave(c)
    /\ CutOff({c})
    /\ abandoned' = abandoned \union IdsOf(req[c].made) \union
          IF req[c].stage \in {"fetch", "removing", "dropping", "marked"}
          THEN {req[c].dep.id} ELSE {}
    /\ UNCHANGED <<tableVars, spawned, bootVars, purged>>

\* At startup every row but a removed one is to be installed again.
ResetStatus(status) ==
    IF status \in {"absent", "removed"} THEN status ELSE "installing"

\* The server stops and runs install_on_startup before it serves again.
Restart ==
    /\ restarts < MaxRestarts
    /\ restarts' = restarts + 1
    /\ \/ CutOff(Clients)
       \/ queue # <<>> /\ Head(queue).who \in Installers
          /\ packages' = packages \union {Head(queue).dep.name}
    /\ rows' = [i \in Ids |-> [rows[i] EXCEPT !.status = ResetStatus(@)]]
    /\ LET todo == {i \in Ids : rows'[i].status = "installing"} IN
       \E order \in [1..Cardinality(todo) -> todo] :  \* ORDER BY id
          /\ \A k, l \in DOMAIN order : k < l => order[k] < order[l]
          /\ \A i \in todo : \E k \in DOMAIN order : order[k] = i
          /\ startup' = [k \in DOMAIN order |-> DepOf(order[k])]
    /\ ready' = (startup' = <<>>)
    /\ req' = [c \in Clients |-> Idle] /\ spawned' = <<>> /\ queue' = <<>>
    /\ abandoned' = {i \in Ids : rows[i].status = "removed"}
    /\ UNCHANGED <<nextId, purged>>

-----------------------------------------------------------------------------
Handle(c) ==
    \/ CheckNew(c) \/ CheckKnown(c) \/ CheckRefuse(c) \/ Insert(c)
    \/ Fetch(c) \/ FetchNone(c) \/ CreateDone(c)
    \/ DeleteWait(c) \/ UninstallBegin(c) \/ UninstallEnd(c) \/ Delete(c)
    \/ Reinstall(c) \/ ReinstallSpawn(c)

Arrive(c) == create_batch(c) \/ ensure_dependencies(c) \/ Get(c)

Next ==
    \/ \E c \in Clients : Arrive(c) \/ Handle(c) \/ Disconnect(c)
    \/ \E k \in DOMAIN spawned : Poll(k)
    \/ StartupWait \/ InstallJob \/ InstallStartup
    \/ soft_delete \/ update \/ Restart

Spec == Init /\ [][Next]_vars

(***************************************************************************)
(* Fairness.  The runtime polls every task that can go on, and a package   *)
(* command comes to its end.  No request, no disconnection and no restart  *)
(* is ever owed.                                                           *)
(***************************************************************************)
Fairness ==
    /\ \A c \in Clients : WF_vars(Handle(c))
    /\ WF_vars(\E k \in DOMAIN spawned : k = 1 /\ Poll(k))
    /\ WF_vars(StartupWait)
    /\ WF_vars(InstallJob \/ InstallStartup)

FairSpec == Spec /\ Fairness

-----------------------------------------------------------------------------
(* Properties.                                                             *)

\* Stages of a handler that has made or marked its row and has yet to see to its installer.
Owing == {"fetch", "marked"}

\* An installer of the row is on its way, or its handler will still spawn one.
Pending(i) ==
    \/ i \in IdsOf(spawned) \union IdsOf(startup)
    \/ \E k \in DOMAIN queue : queue[k].who = "job" /\ queue[k].dep.id = i
    \/ \E c \in Clients : i \in IdsOf(req[c].made)
    \/ \E c \in Clients : req[c].stage \in Owing /\ req[c].dep.id = i

\* A row that says "installing" has an installer pending, unless the handler that made
\* or marked it gave up or was cut off: nothing else would ever settle its status.
InstallingIsPending ==
    \A i \in Ids : rows[i].status = "installing" => i \in abandoned \/ Pending(i)

\* "removing" and "removed" last only as long as the deletion that set them: it
\* holds the permit and will delete the row, even when the package command
\* failed, unless it was cut off.
RemovalInProgress ==
    \A i \in Ids : rows[i].status \in {"removing", "removed"} =>
        \/ i \in abandoned
        \/ \E c \in Clients : /\ Serves(c) /\ req[c].dep.id = i
                              /\ req[c].stage \in {"removing", "dropping"}

\* No installer reports on a row while a deletion is uninstalling its package:
\* the permit keeps the two package commands apart.
NoInstallDuringRemoval ==
    [][\A i \in Ids : (rows[i].status = "removing" /\ i \notin abandoned) =>
          rows'[i].status \notin {"installed", "failed"}]_vars

\* Startup tasks wait for the dependencies, but never for ever: the startup loop
\* is served between the requests of users and survives failing installations.
StartupFinishes == ~ready ~> ready

\* An installation that is owed is settled in the end: the row gets a result,
\* is being deleted, or is gone.
InstallationSettles ==
    \A i \in Ids : rows[i].status = "installing" ~>
        rows[i].status # "installing" \/ i \in abandoned

\* What the comments at the checks promise: no request adds a name that the
\* table holds already.
NoDuplicateRows ==
    [][\A i, j \in Ids :
          (i # j /\ rows[i] = NoRow /\ rows'[i] # NoRow /\ rows[j] # NoRow)
             => rows'[i].name # rows[j].name]_vars

\* What the comments on delete and soft_delete promise: a package that a deletion
\* took off the system does not come back without a row that asks for it; only a
\* soft deletion leaves a package without a row.
DeletedStaysUninstalled ==
    \A n \in purged \intersect packages : \E i \in Ids : rows[i].name = n
=============================================================================
