------------------------ MODULE BackupRestoreProofs ------------------------
(***************************************************************************)
(* Proofs about BackupRestore, for any files, any number of requests at a  *)
(* time, and any bounds on operations and on what is written.  One         *)
(* inductive invariant carries the safety of the data: what each operation *)
(* has to do at each of its stages, what the restore points hold           *)
(* meanwhile, and that never two operations are inside of what the lock    *)
(* protects.                                                               *)
(***************************************************************************)
EXTENDS BackupRestore, FiniteSetTheorems, TLAPS

Outer == {"idle", "lock", "send", "list", "prune"}  \* stages without the lock
BootStages == {"idle", "fetch", "copy", "prepare", "clear", "rename", "open"}
Restorer(a) == op[a].kind \in {"restore", "boot"}

\* Which operation can be at which stage, and what it has with it there.
Shape(a) ==
    /\ op[a].kind = "none" <=> op[a].pc = "idle"
    /\ a = Boot => op[a].kind \in {"none", "boot"} /\ op[a].pc \in BootStages
    /\ a # Boot => op[a].kind \in {"none", "restore", "download", "scheduled"}
                   /\ op[a].pc # "fetch" /\ (op[a].pc # "idle" => op[a].id # 0)
    /\ a # Boot /\ op[a].pc \in Locked \ {"copy"} => op[a].kind = "restore"
    /\ op[a].pc = "copy" => op[a].id # 0
    /\ op[a].pc \in {"lock", "fetch"} => op[a].copy = Nothing
    /\ op[a].pc = "fetch" => op[a].id = 0
    /\ op[a].undo => op[a].pc \in {"prepare", "clear", "rename", "open"} /\ op[a].id # 0
    /\ op[a].kind = "restore" => op[a].archive \in Archives
    /\ a = Boot /\ op[a].pc \in {"copy", "prepare", "clear", "rename"} =>
          op[a].archive \in Archives

\* The server serves handlers, or it is starting, or it is off.
ServerInv ==
    /\ server = "serving" <=> pool # "down"
    /\ server # "serving" => \A a \in Handlers : op[a].pc = "idle"
    /\ server = "booting" <=> op[Boot].pc # "idle"

\* Every operation has a number of its own, and a restore point under it only.
NumberInv ==
    /\ \A a \in Actors : op[a].id <= ops
    /\ \A a, b \in Actors : a # b /\ op[a].id = op[b].id => op[a].id = 0
    /\ \A i \in Ids : i > ops => points[i] = NoArchive
    /\ \A a \in Actors : Restorer(a) /\ op[a].pc \in {"lock", "copy"} =>
          points[op[a].id] = NoArchive

Promised == \E i \in Ids : Has(points[i], shown)

\* What was promised is there, and a database at work has a file.
DataInv ==
    /\ NothingLost
    /\ pool = "open" => data[Db] # Missing
    /\ shown[Db] # Missing
    /\ goal = NoArchive \/ (goal \in Archives /\ goal[Db] # Missing)

\* How far the operation inside of the lock has come, with the files that nobody else
\* writes meanwhile.
AtWork(a) ==
    /\ Restorer(a) /\ op[a].pc = "copy" =>
          \A f \in DOMAIN shown \ op[a].todo : op[a].copy[f] = data[f]
    /\ op[a].pc \in {"prepare", "close"} /\ ~op[a].undo =>
          IF op[a].id = 0 THEN data[Db] = Missing
          ELSE /\ points[op[a].id] \in Archives
               /\ \A f \in DOMAIN shown : points[op[a].id][f] = data[f]
    /\ Replacing(a) =>
          /\ Promised
          /\ op[a].id # 0 => points[op[a].id] \in Archives
          /\ a # Boot => pool = "closed"
          /\ op[a].undo \/ goal = op[a].archive
    /\ op[a].pc \in {"close", "clear", "rename"} =>
          staging[a] \in Archives /\ Source(a)[Db] # Missing
    /\ op[a].pc \in {"close", "clear"} => staging[a] = Source(a)
    /\ op[a].pc = "clear" => \A f \in DOMAIN shown \ op[a].todo : data[f] = Missing
    /\ op[a].pc = "rename" =>
          \A f \in DOMAIN shown :
             IF f \in op[a].todo THEN data[f] = Missing /\ staging[a][f] = Source(a)[f]
                                 ELSE data[f] = Source(a)[f] /\ staging[a][f] = Missing
    /\ a # Boot /\ op[a].pc = "open" =>
          data[Db] # Missing /\ \A f \in DOMAIN shown : data[f] = Source(a)[f]
    /\ op[a].pc = "discard" => Keeps

BackupInv ==
    /\ \A a \in Actors : Shape(a) /\ AtWork(a)
    /\ ServerInv /\ NumberInv /\ DataInv

\* Whoever deletes old backups leaves max_backups newer ones of each.
PruneInv ==
    \A a \in Actors : op[a].pc = "prune" =>
        \A i \in op[a].todo \intersect Ids :
            Cardinality({j \in DOMAIN remote : j > i}) >= max_backups

-----------------------------------------------------------------------------
(* What the building blocks of the actions do to an operation.             *)

Others(a) == \A b \in Actors \ {a} : op'[b] = op[b]

SameTask(a) ==
    /\ op'[a].kind = op[a].kind /\ op'[a].id = op[a].id
    /\ op'[a].archive = op[a].archive

\* The values that the actions write are values of the right kind.
LEMMA Values ==
    /\ Nothing \in Archives /\ Idle \in Operations
    /\ \A src \in Sources : File(src) \in Contents /\ File(src) # Missing
    /\ \A src \in Sources : Whole(src) \in Archives
    /\ Missing \notin Contents /\ NoArchive \notin Archives /\ Db \in Files
    /\ \A archive \in Archives : Present(archive) \subseteq Files
  <1>1. \A src \in Sources : File(src) \in Contents
    BY BackupAssumption DEF Contents, File
  <1>2. Nothing \in Archives /\ Idle \in Operations
    BY BackupAssumption DEF Nothing, Archives, Idle, Operations, Kinds, Stages
  <1>3. \A src \in Sources : Whole(src) \in Archives
    BY <1>1 DEF Whole, Archives
  <1>4. QED BY <1>1, <1>2, <1>3, BackupAssumption DEF Present

\* What was promised is about some of the files, and about the database.
LEMMA Promising ==
    ASSUME TypeOK
    PROVE  /\ DOMAIN shown \subseteq Files /\ Db \in DOMAIN shown
           /\ shown \in [DOMAIN shown -> Contents \union {Missing}]
  BY DEF TypeOK, Promises

\* An operation goes on to another stage.
LEMMA Goes ==
    ASSUME op \in [Actors -> Operations], NEW a \in Actors, NEW pc \in Stages,
           NEW todo \in SUBSET (Files \union Ids), To(a, pc, todo)
    PROVE  /\ op' \in [Actors -> Operations] /\ Others(a) /\ SameTask(a)
           /\ op'[a].pc = pc /\ op'[a].todo = todo
           /\ op'[a].copy = op[a].copy /\ op'[a].undo = op[a].undo
  <1>1. op[a] \in Operations
    OBVIOUS
  <1>2. op' = [op EXCEPT ![a] = [op[a] EXCEPT !.pc = pc, !.todo = todo]]
    BY <1>1 DEF To, Operations
  <1>3. [op[a] EXCEPT !.pc = pc, !.todo = todo] \in Operations
    BY <1>1 DEF Operations
  <1>4. QED BY <1>1, <1>2, <1>3 DEF Operations, Others, SameTask

\* An operation ends.
LEMMA Finishes ==
    ASSUME op \in [Actors -> Operations], NEW a \in Actors, Finish(a)
    PROVE  op' \in [Actors -> Operations] /\ Others(a) /\ op'[a] = Idle
  BY Values DEF Finish, Others

-----------------------------------------------------------------------------
(* Who can be where at the same time, and what a step leaves alone.        *)

\* Never two operations are inside of the lock; none is while it is free.
LEMMA Alone ==
    ASSUME TypeOK, BackupInv, NEW a \in Actors, NEW b \in Actors, b # a
    PROVE  /\ op[a].pc \notin Outer => op[b].pc \in Outer
           /\ op[a].pc # "idle" /\ lock = NoOne => op[b].pc \in Outer
  <1>1. Boot \notin Handlers /\ NoOne \notin Handlers /\ a \in Handlers \union {Boot}
        /\ b \in Handlers \union {Boot}
    BY BackupAssumption DEF Actors
  <1>2. \A c \in Handlers : lock = c <=> op[c].pc \in Locked
    BY DEF TypeOK
  <1>3. \A c \in Handlers : op[c].pc \in Stages /\ op[c].pc # "fetch"
    BY <1>1 DEF TypeOK, Operations, BackupInv, Shape, Actors
  <1>4. op[Boot].pc # "idle" => \A c \in Handlers : op[c].pc = "idle"
    BY DEF BackupInv, ServerInv
  <1>5. QED BY <1>1, <1>2, <1>3, <1>4 DEF Stages, Locked, Outer

\* A step while all others are outside of the lock is judged by what it does to its
\* operation, to the server and to the promise.
LEMMA InsideStep ==
    ASSUME TypeOK, BackupInv, NEW a \in Actors,
           \A b \in Actors \ {a} : op[b].pc \in Outer,
           Others(a), op'[a].id \in {0, op[a].id}, ops' = ops,
           \A i \in Ids : i # op[a].id => points'[i] = points[i],
           Restorer(a)' /\ op'[a].pc \in {"lock", "copy"} =>
              points'[op'[a].id] = NoArchive,
           Shape(a)', AtWork(a)', ServerInv', DataInv'
    PROVE  BackupInv'
  <1>1. \A b \in Actors \ {a} : op'[b] = op[b] /\ op[b].pc \in Outer
    BY DEF Others
  <1>2. \A b \in Actors : Shape(b)'
    BY <1>1 DEF BackupInv, Shape
  <1>3. \A b \in Actors : AtWork(b)'
    BY <1>1, <1>2 DEF Shape, AtWork, Outer, Replacing
  <1>4. NumberInv'
    <2>1. NumberInv /\ \A b \in Actors : op[b].id \in 0..MaxOps
      BY DEF BackupInv, TypeOK, Operations
    <2>2. ops \in Nat /\ Ids = 1..MaxOps /\ MaxOps \in Nat
      BY BackupAssumption DEF TypeOK, Ids
    <2>3. \A b \in Actors : op'[b].id <= ops
      BY <1>1, <2>1, <2>2 DEF NumberInv
    <2>4. \A b, c \in Actors : b # c /\ op'[b].id = op'[c].id => op'[b].id = 0
      BY <1>1, <2>1 DEF NumberInv
    <2>5. \A i \in Ids : i > ops => points'[i] = NoArchive
      BY <2>1, <2>2 DEF NumberInv
    <2>6. ASSUME NEW b \in Actors, Restorer(b)', op'[b].pc \in {"lock", "copy"}
          PROVE  points'[op'[b].id] = NoArchive
      <3>1. CASE b = a
        BY <2>6, <3>1
      <3>2. CASE b # a
        <4>1. op'[b] = op[b] /\ op[b].pc = "lock" /\ b # Boot
          BY <1>1, <2>6, <3>2 DEF Outer, BackupInv, Shape, BootStages
        <4>2. op[b].id \in Ids /\ points[op[b].id] = NoArchive
          BY <2>1, <2>2, <2>6, <4>1 DEF NumberInv, Restorer, BackupInv, Shape
        <4>3. op[b].id # op[a].id
          BY <2>1, <2>2, <3>2, <4>2 DEF NumberInv
        <4>4. QED BY <4>1, <4>2, <4>3
      <3>3. QED BY <3>1, <3>2
    <2>7. QED BY <2>3, <2>4, <2>5, <2>6 DEF NumberInv
  <1>5. QED BY <1>2, <1>3, <1>4 DEF BackupInv

\* A step outside of the lock is judged by its own stage alone.
LEMMA OutsideStep ==
    ASSUME TypeOK, BackupInv, NEW a \in Actors, op[a].pc \in Outer, Others(a),
           op'[a].pc \in Outer, op'[a].id \in {0, op[a].id},
           UNCHANGED <<data, staging, points, process, ops, history>>,
           op[a].pc # "idle", op'[a].pc # "lock", a # Boot, Shape(a)'
    PROVE  BackupInv'
  <1>1. \A b \in Actors \ {a} : op'[b] = op[b]
    BY DEF Others
  <1>2. \A b \in Actors : Shape(b)'
    BY <1>1 DEF BackupInv, Shape
  <1>3. \A b \in Actors \ {a} : AtWork(b)'
    BY <1>1 DEF BackupInv, AtWork, Replacing, Restorer, Source, Promised, Keeps, Has,
                history, process
  <1>4. AtWork(a)'
    BY <1>2 DEF Shape, AtWork, Outer, Replacing
  <1>5. ServerInv' /\ DataInv'
    BY <1>1 DEF BackupInv, ServerInv, DataInv, NothingLost, Keeps, Has, Actors, process, history
  <1>6. NumberInv'
    <2>1. op'[a].pc # "copy"
      BY DEF Outer
    <2>2. NumberInv /\ op[a].id \in Nat /\ ops \in Nat
      BY BackupAssumption DEF BackupInv, TypeOK, Operations
    <2>3. \A b \in Actors : op'[b].id <= ops
      BY <1>1, <2>2 DEF NumberInv
    <2>4. \A b, c \in Actors : b # c /\ op'[b].id = op'[c].id => op'[b].id = 0
      BY <1>1, <2>2 DEF NumberInv
    <2>5. \A b \in Actors : Restorer(b)' /\ op'[b].pc \in {"lock", "copy"} =>
              points[op'[b].id] = NoArchive
      BY <1>1, <2>1, <2>2 DEF NumberInv, Restorer
    <2>6. QED BY <2>2, <2>3, <2>4, <2>5 DEF NumberInv
  <1>7. QED BY <1>2, <1>3, <1>4, <1>5, <1>6 DEF BackupInv

\* A request that ends where it is leaves everything as it should be.
LEMMA Quits ==
    ASSUME TypeOK, BackupInv, NEW a \in Handlers, op[a].pc # "idle", Finish(a),
           UNCHANGED <<data, staging, points, process, ops, history>>
    PROVE  BackupInv'
  <1>1. a \in Actors /\ a # Boot /\ op \in [Actors -> Operations]
    BY BackupAssumption DEF Actors, TypeOK
  <1>2. Others(a) /\ op'[a] = Idle
    BY <1>1, Finishes
  <1>3. Shape(a)'
    BY <1>1, <1>2 DEF Shape, Idle, Locked
  <1>4. CASE op[a].pc \in Outer
    BY <1>1, <1>2, <1>3, <1>4, OutsideStep DEF Idle, Outer
  <1>5. CASE op[a].pc \notin Outer
    <2>1. AtWork(a)'
      BY <1>1, <1>2 DEF AtWork, Replacing, Idle
    <2>2. ServerInv'
      BY <1>1, <1>2, <1>5 DEF BackupInv, ServerInv, Others, Idle, Actors, process, Outer
    <2>3. DataInv'
      BY DEF BackupInv, DataInv, NothingLost, Keeps, Has, history, process
    <2>4. \A b \in Actors \ {a} : op[b].pc \in Outer
      BY <1>1, <1>5, Alone
    <2>5. QED BY <1>1, <1>2, <1>3, <2>1, <2>2, <2>3, <2>4, InsideStep DEF Idle
  <1>6. QED BY <1>4, <1>5

\* The end of the process ends all operations; the promise is all that counts.
LEMMA Stops ==
    ASSUME TypeOK, BackupInv, Exit, UNCHANGED <<data, ops, history>>, NothingLost',
           \A i \in Ids : points'[i] \in {points[i], NoArchive}
    PROVE  BackupInv'
  <1>1. \A a \in Actors : op'[a] = Idle
    BY DEF Exit
  <1>2. \A a \in Actors : Shape(a)' /\ AtWork(a)'
    BY <1>1 DEF Shape, AtWork, Replacing, Idle, Locked, BootStages
  <1>3. ServerInv'
    BY <1>1 DEF Exit, ServerInv, Idle, Actors
  <1>4. NumberInv'
    <2>1. NumberInv /\ ops \in Nat
      BY BackupAssumption DEF BackupInv, TypeOK
    <2>2. \A a \in Actors : op'[a].id = 0 /\ op'[a].pc = "idle"
      BY <1>1 DEF Idle
    <2>3. \A a \in Actors : op'[a].id <= ops
      BY <2>1, <2>2
    <2>4. QED BY <2>1, <2>2, <2>3 DEF NumberInv
  <1>5. DataInv'
    BY DEF BackupInv, DataInv, Exit, history
  <1>6. QED BY <1>2, <1>3, <1>4, <1>5 DEF BackupInv

-----------------------------------------------------------------------------
(* The steps outside of the lock, and those that take it.                  *)

\* The next number is nobody's, and has no restore point yet.
LEMMA NewNumber ==
    ASSUME TypeOK, NumberInv, NEW a \in Actors, Others(a), op'[a].id = ops + 1,
           ops' = ops + 1, ops + 1 <= MaxOps, points' = points
    PROVE  NumberInv'
  <1>1. \A b \in Actors \ {a} : op'[b] = op[b]
    BY DEF Others
  <1>2. ops \in Nat /\ MaxOps \in Nat /\ Ids = 1..MaxOps
        /\ \A b \in Actors : op[b].id \in Nat /\ op[b].id <= ops
    BY BackupAssumption DEF TypeOK, Ids, Operations, NumberInv
  <1>3. \A b \in Actors : op'[b].id <= ops'
    BY <1>1, <1>2
  <1>4. \A b, c \in Actors : b # c /\ op'[b].id = op'[c].id => op'[b].id = 0
    <2>1. \A b \in Actors \ {a} : op'[b].id \in Nat /\ op'[b].id <= ops
      BY <1>1, <1>2
    <2>2. QED BY <1>1, <1>2, <2>1 DEF NumberInv
  <1>5. \A i \in Ids : i > ops' => points'[i] = NoArchive
    BY <1>2 DEF NumberInv
  <1>6. points[ops + 1] = NoArchive
    BY <1>2 DEF NumberInv
  <1>7. \A b \in Actors : Restorer(b)' /\ op'[b].pc \in {"lock", "copy"} =>
            points'[op'[b].id] = NoArchive
    BY <1>1, <1>6 DEF NumberInv, Restorer
  <1>8. QED BY <1>3, <1>4, <1>5, <1>7 DEF NumberInv

\* A new operation has a number that no other one has, and no restore point.
LEMMA BeginStep ==
    ASSUME TypeOK, BackupInv, NEW a \in Handlers,
           NEW kind \in {"restore", "download", "scheduled"},
           NEW archive \in Archives \union {NoArchive}, Begin(a, kind, "lock", archive),
           kind = "restore" => archive \in Archives
    PROVE  BackupInv'
  <1> DEFINE begun == [Idle EXCEPT !.kind = kind, !.pc = "lock", !.id = ops + 1,
                                   !.archive = archive]
  <1>1. a \in Actors /\ a # Boot /\ op \in [Actors -> Operations]
        /\ ops \in Nat /\ MaxOps \in Nat /\ Ids = 1..MaxOps
    BY BackupAssumption DEF Actors, TypeOK, Ids
  <1>2. op' = [op EXCEPT ![a] = begun] /\ ops' = ops + 1 /\ ops + 1 <= MaxOps
        /\ server = "serving" /\ op[a].pc = "idle"
        /\ UNCHANGED <<data, staging, points, pool, server, shown, goal>>
    BY <1>1 DEF Begin, At, process, history
  <1>3. /\ begun.kind = kind /\ begun.pc = "lock" /\ begun.id = ops + 1
        /\ begun.archive = archive /\ begun.copy = Nothing /\ begun.undo = FALSE
    BY DEF Idle
  <1>4. op'[a] = begun /\ \A b \in Actors \ {a} : op'[b] = op[b]
    BY <1>1, <1>2
  <1> HIDE DEF begun
  <1>5. Shape(a)'
    BY <1>1, <1>3, <1>4 DEF Shape, Locked
  <1>6. \A b \in Actors : Shape(b)' /\ AtWork(b)'
    <2>1. \A b \in Actors \ {a} : Shape(b)' /\ AtWork(b)'
      BY <1>2, <1>4
      DEF BackupInv, Shape, AtWork, Replacing, Restorer, Source, Promised, Keeps, Has
    <2>2. AtWork(a)'
      BY <1>3, <1>4 DEF AtWork, Replacing
    <2>3. QED BY <1>5, <2>1, <2>2
  <1>7. ServerInv' /\ DataInv'
    BY <1>1, <1>2, <1>4 DEF BackupInv, ServerInv, DataInv, NothingLost, Keeps, Has, Actors
  <1>8. NumberInv'
    BY <1>1, <1>2, <1>3, <1>4, NewNumber DEF Others, BackupInv
  <1>9. QED BY <1>6, <1>7, <1>8 DEF BackupInv

\* Whoever takes the lock finds all others outside, and begins a true copy.
LEMMA LockStep ==
    ASSUME TypeOK, BackupInv, NEW a \in Handlers, At(a, "lock"), lock = NoOne,
           StartCopy(a), shown' \in {shown, IF Keeps THEN data ELSE shown},
           UNCHANGED <<data, points, pool, server, ops, goal>>
    PROVE  BackupInv'
  <1>1. a \in Actors /\ a # Boot /\ op \in [Actors -> Operations] /\ data \in Archives
        /\ op[a].pc = "lock"
    BY BackupAssumption DEF Actors, TypeOK, At
  <1>2. /\ Others(a) /\ SameTask(a) /\ op'[a].pc = "copy" /\ op'[a].todo = Present(data)
        /\ op'[a].copy = op[a].copy /\ op'[a].undo = op[a].undo
    BY <1>1, Goes, Values DEF StartCopy, Stages
  <1>3. \A b \in Actors \ {a} : op[b].pc \in Outer
    BY <1>1, Alone
  <1>4. Shape(a) /\ NumberInv /\ ServerInv /\ DataInv
    BY <1>1 DEF BackupInv
  <1>5. Shape(a)'
    BY <1>1, <1>2, <1>4 DEF Shape, SameTask, Locked
  <1>6. AtWork(a)'
    <2>1. op'[a].copy = Nothing /\ op'[a].undo = FALSE
      BY <1>1, <1>2, <1>4 DEF Shape, TypeOK, Operations
    <2>2. \A f \in Files \ Present(data) : Nothing[f] = data[f]
      BY DEF Nothing, Present
    <2>3. DOMAIN shown' \subseteq Files
      BY <1>1, Promising DEF Archives
    <2>4. QED BY <1>1, <1>2, <2>1, <2>2, <2>3 DEF AtWork, Replacing
  <1>7. ServerInv' /\ DataInv'
    <2>1. ServerInv'
      BY <1>1, <1>2, <1>4 DEF ServerInv, Actors, Others
    <2>2. shown' = shown \/ (Keeps /\ shown' = data /\ data[Db] # Missing)
      BY <1>4, Promising DEF DataInv, Keeps, Has
    <2>3. shown' = data => NothingLost'
      BY <1>1, Values DEF NothingLost, Keeps, Has
    <2>4. QED BY <1>4, <2>1, <2>2, <2>3 DEF DataInv, NothingLost, Keeps, Has
  <1>8. Restorer(a)' => points'[op'[a].id] = NoArchive
    BY <1>1, <1>2, <1>4 DEF NumberInv, Restorer, SameTask
  <1>9. QED BY <1>1, <1>2, <1>3, <1>5, <1>6, <1>7, <1>8, InsideStep DEF SameTask

\* The steps of a request that never touch the data, nor a restore.
LEMMA OutsideSteps ==
    ASSUME TypeOK, BackupInv, NEW a \in Handlers
    PROVE  /\ restore_backup(a) => BackupInv'
           /\ create_backup(a) => BackupInv'
           /\ perform_backup(a) => BackupInv'
           /\ LockBackup(a) => BackupInv'
           /\ LockRestore(a) => BackupInv'
           /\ CheckpointFail(a) => BackupInv'
           /\ Download(a) => BackupInv'
           /\ upload_file(a) => BackupInv'
           /\ EndBackup(a) => BackupInv'
           /\ cleanup_old_backups(a) => BackupInv'
           /\ \A i \in Ids : DeleteOld(a, i) => BackupInv'
           /\ CopyFail(a) => BackupInv'
           /\ RollbackFail(a) => BackupInv'
           /\ Disconnect(a) => BackupInv'
  <1>1. /\ a \in Actors /\ a # Boot /\ op \in [Actors -> Operations]
        /\ held \subseteq Archives /\ Shape(a)
    BY BackupAssumption DEF Actors, TypeOK, BackupInv
  <1>2. restore_backup(a) => BackupInv'
    BY <1>1, BeginStep DEF restore_backup
  <1>3. create_backup(a) => BackupInv'
    BY BeginStep DEF create_backup
  <1>4. perform_backup(a) => BackupInv'
    BY BeginStep DEF perform_backup
  <1>5. LockBackup(a) => BackupInv'
    BY LockStep DEF LockBackup, process, history
  <1>6. LockRestore(a) => BackupInv'
    BY LockStep DEF LockRestore, process, history
  <1>7. CheckpointFail(a) => BackupInv'
    BY Quits DEF CheckpointFail, At
  <1>8. Download(a) => BackupInv'
    BY Quits DEF Download, At
  <1>9. EndBackup(a) => BackupInv'
    BY Quits DEF EndBackup
  <1>10. CopyFail(a) => BackupInv'
    BY Quits DEF CopyFail, At
  <1>11. RollbackFail(a) => BackupInv'
    BY <1>1, Quits DEF RollbackFail, GiveUp, process
  <1>12. Disconnect(a) => BackupInv'
    BY <1>1, Quits DEF Disconnect, Shape
  <1>13. ASSUME upload_file(a) PROVE BackupInv'
    <2>1. /\ op[a].pc = "send" /\ Others(a) /\ SameTask(a) /\ op'[a].pc = "list"
          /\ op'[a].copy = op[a].copy /\ op'[a].undo = op[a].undo
      BY <1>1, <1>13, Goes DEF upload_file, Stages, At
    <2>2. Shape(a)'
      BY <1>1, <2>1 DEF Shape, SameTask, Locked
    <2>3. QED BY <1>1, <1>13, <2>1, <2>2, OutsideStep DEF upload_file, SameTask, Outer
  <1>14. ASSUME cleanup_old_backups(a) PROVE BackupInv'
    <2>1. Surplus(DOMAIN remote) \subseteq Ids
      BY DEF Surplus, TypeOK
    <2>2. /\ op[a].pc = "list" /\ Others(a) /\ SameTask(a) /\ op'[a].pc = "prune"
          /\ op'[a].copy = op[a].copy /\ op'[a].undo = op[a].undo
      BY <1>1, <1>14, <2>1, Goes DEF cleanup_old_backups, Stages, At
    <2>3. Shape(a)'
      BY <1>1, <2>2 DEF Shape, SameTask, Locked
    <2>4. QED
      BY <1>1, <1>14, <2>2, <2>3, OutsideStep DEF cleanup_old_backups, SameTask, Outer
  <1>15. ASSUME NEW i \in Ids, DeleteOld(a, i) PROVE BackupInv'
    <2>1. /\ op[a].pc = "prune" /\ Others(a) /\ SameTask(a) /\ op'[a].pc = "prune"
          /\ op'[a].copy = op[a].copy /\ op'[a].undo = op[a].undo
      <3>1. op[a].pc = "prune" /\ op' = [op EXCEPT ![a].todo = op[a].todo \ {i}]
        BY <1>1, <1>15 DEF DeleteOld, At
      <3>2. QED BY <1>1, <3>1 DEF Operations, Others, SameTask
    <2>2. Shape(a)'
      BY <1>1, <2>1 DEF Shape, SameTask, Locked
    <2>3. QED BY <1>1, <1>15, <2>1, <2>2, OutsideStep DEF DeleteOld, SameTask, Outer
  <1>16. QED BY <1>2, <1>3, <1>4, <1>5, <1>6, <1>7, <1>8, <1>9, <1>10, <1>11, <1>12,
                <1>13, <1>14, <1>15

-----------------------------------------------------------------------------
(* The steps inside of the lock.                                           *)

\* What an operation inside of the lock finds.
LEMMA Inside ==
    ASSUME TypeOK, BackupInv, NEW a \in Actors, op[a].pc \notin Outer
    PROVE  /\ op \in [Actors -> Operations] /\ op[a] \in Operations
           /\ data \in Archives /\ points \in [Ids -> Archives \union {NoArchive}]
           /\ staging \in [Actors -> Archives \union {NoArchive}]
           /\ Shape(a) /\ AtWork(a) /\ DataInv
           /\ \A b \in Actors \ {a} : op[b].pc \in Outer
           /\ op[a].id # 0 => op[a].id \in Ids
           /\ a # Boot => a \in Handlers /\ pool # "down" /\ server = "serving"
           /\ a = Boot => pool = "down" /\ server = "booting"
  <1>1. \A b \in Actors \ {a} : op[b].pc \in Outer
    BY Alone
  <1>2. op[a].id \in 0..MaxOps /\ MaxOps \in Nat
    BY BackupAssumption DEF TypeOK, Operations
  <1>3. op[a].pc # "idle" /\ (a # Boot => a \in Handlers)
    BY DEF Outer, Actors
  <1>4. QED
    BY <1>1, <1>2, <1>3 DEF TypeOK, BackupInv, ServerInv, Ids

\* A step of it, after which the operation is not over, is judged by what it
\* does to the operation and to the promise.
LEMMA WorkStep ==
    ASSUME TypeOK, BackupInv, NEW a \in Actors, op[a].pc \notin Outer,
           Others(a), SameTask(a), ops' = ops, server' = server,
           pool' = pool \/ (pool' # "down" /\ a # Boot),
           \A i \in Ids : i # op[a].id => points'[i] = points[i],
           op'[a].pc = "copy" => op[a].pc = "copy" /\ points' = points,
           op'[a].pc \notin {"idle", "lock"}, Shape(a)', AtWork(a)', DataInv'
    PROVE  BackupInv'
  <1>1. \A b \in Actors \ {a} : op[b].pc \in Outer
    BY Alone
  <1>2. ServerInv'
    BY Inside DEF BackupInv, ServerInv, Others, Outer, Actors
  <1>3. Restorer(a)' /\ op'[a].pc \in {"lock", "copy"} => points'[op'[a].id] = NoArchive
    BY DEF BackupInv, NumberInv, SameTask, Restorer
  <1>4. QED BY <1>1, <1>2, <1>3, InsideStep DEF SameTask

LEMMA CopyFileStep ==
    ASSUME TypeOK, BackupInv, NEW a \in Actors, NEW f \in Files, CopyFile(a, f)
    PROVE  BackupInv'
  <1>1. op[a].pc = "copy" /\ op[a].pc \notin Outer
    BY DEF CopyFile, At, Outer
  <1>2. PICK content \in {data[f]} \union
                  (IF f = Db /\ pool = "open" /\ ~Excluded THEN {File("mixed")} ELSE {}) :
          op' = [op EXCEPT ![a].copy[f] = content, ![a].todo = @ \ {f}]
    BY DEF CopyFile
  <1>3. UNCHANGED <<data, staging, points, pool, server, ops, shown, goal>>
    BY DEF CopyFile, process, history
  <1>4. /\ op \in [Actors -> Operations] /\ op[a] \in Operations
        /\ Shape(a) /\ AtWork(a) /\ DataInv
    BY <1>1, Inside
  <1>5. /\ Others(a) /\ SameTask(a) /\ op'[a].pc = "copy" /\ op'[a].undo = op[a].undo
        /\ op'[a].copy = [op[a].copy EXCEPT ![f] = content]
        /\ op'[a].todo = op[a].todo \ {f}
    BY <1>1, <1>2, <1>4 DEF Operations, Others, SameTask
  <1>6. Shape(a)'
    BY <1>1, <1>4, <1>5 DEF Shape, SameTask
  \* A restore copies with the database shut, so its copy is not mixed.
  <1>7. Restorer(a) => content = data[f]
    <2>1. CASE a = Boot
      BY <1>1, <1>2, <2>1, Inside
    <2>2. CASE a # Boot
      <3>1. a \in Handlers /\ lock = a
        BY <1>1, <2>2, Inside DEF TypeOK, Locked
      <3>2. Restorer(a) => Excluded
        BY <1>1, <1>4, <2>2, <3>1 DEF Excluded, Restorer, Shape
      <3>3. QED BY <1>2, <3>2
    <2>3. QED BY <2>1, <2>2
  <1>8. AtWork(a)'
    <2>1. Restorer(a)' => \A g \in DOMAIN shown \ op'[a].todo : op'[a].copy[g] = data'[g]
      <3>1. DOMAIN op[a].copy = Files /\ DOMAIN shown \subseteq Files
        BY <1>4, Promising DEF Operations, Archives
      <3>2. QED
        BY <1>1, <1>3, <1>4, <1>5, <1>7, <3>1 DEF AtWork, Restorer, SameTask
    <2>2. QED BY <1>1, <1>3, <1>4, <1>5, <2>1 DEF AtWork, Replacing, Shape
  <1>9. DataInv'
    BY <1>3, <1>4 DEF DataInv, NothingLost, Keeps, Has
  <1>10. QED BY <1>1, <1>3, <1>5, <1>6, <1>8, <1>9, WorkStep

LEMMA KeepPointStep ==
    ASSUME TypeOK, BackupInv, NEW a \in Actors, KeepPoint(a)
    PROVE  BackupInv'
  <1>1. op[a].pc = "copy" /\ op[a].pc \notin Outer /\ op[a].todo = {} /\ Restorer(a)
        /\ points' = [points EXCEPT ![op[a].id] = op[a].copy]
        /\ UNCHANGED <<data, staging, pool, server, ops, shown, goal>>
    BY DEF KeepPoint, At, Outer, Restorer, process, history
  <1>2. /\ op \in [Actors -> Operations] /\ op[a] \in Operations /\ op[a].id \in Ids
        /\ Shape(a) /\ AtWork(a) /\ DataInv /\ data \in Archives
        /\ points \in [Ids -> Archives \union {NoArchive}]
    BY <1>1, Inside DEF Shape
  <1>3. /\ Others(a) /\ SameTask(a) /\ op'[a].pc = "prepare" /\ op'[a].undo = op[a].undo
        /\ op'[a].copy = op[a].copy
    BY <1>2, Goes DEF KeepPoint, Stages
  <1>4. op[a].undo = FALSE
    BY <1>1, <1>2 DEF Shape, Operations
  <1>5. Shape(a)'
    BY <1>1, <1>2, <1>3, <1>4 DEF Shape, SameTask, Restorer, BootStages
  \* The copy is true, and goes where there was nothing.
  <1>6. op[a].copy \in Archives /\ \A f \in DOMAIN shown : op[a].copy[f] = data[f]
    BY <1>1, <1>2 DEF AtWork, Operations
  <1>7. points'[op[a].id] = op[a].copy /\ points[op[a].id] = NoArchive
        /\ \A i \in Ids : i # op[a].id => points'[i] = points[i]
    BY <1>1, <1>2 DEF BackupInv, NumberInv
  <1>8. AtWork(a)'
    BY <1>1, <1>2, <1>3, <1>4, <1>6, <1>7 DEF AtWork, Replacing, SameTask, Shape
  <1>9. DataInv'
    BY <1>1, <1>2, <1>7, Values DEF DataInv, NothingLost, Keeps, Has, TypeOK
  <1>10. QED BY <1>1, <1>3, <1>5, <1>7, <1>8, <1>9, WorkStep

LEMMA FinishBackupStep ==
    ASSUME TypeOK, BackupInv, NEW a \in Actors, FinishBackup(a)
    PROVE  BackupInv'
  <1>1. op[a].pc = "copy" /\ op[a].pc \notin Outer /\ ~Restorer(a)
        /\ UNCHANGED <<data, staging, points, pool, server, ops, shown, goal>>
    BY DEF FinishBackup, At, Outer, Restorer, process, history
  <1>2. op \in [Actors -> Operations] /\ Shape(a) /\ DataInv
    BY <1>1, Inside
  <1>3. /\ Others(a) /\ SameTask(a) /\ op'[a].pc = "send" /\ op'[a].undo = op[a].undo
        /\ op'[a].copy = op[a].copy
    BY <1>2, Goes DEF FinishBackup, Stages
  <1>4. Shape(a)' /\ AtWork(a)'
    BY <1>1, <1>2, <1>3
    DEF Shape, SameTask, Restorer, Locked, AtWork, Replacing, BootStages
  <1>5. DataInv'
    BY <1>1, <1>2 DEF DataInv, NothingLost, Keeps, Has
  <1>6. QED BY <1>1, <1>3, <1>4, <1>5, WorkStep

\* Only what was kept before is given up now: the archive is ready beside the data.
LEMMA PrepareStep ==
    ASSUME TypeOK, BackupInv, NEW a \in Actors, prepare_backup_file(a)
    PROVE  BackupInv'
  <1>1. op[a].pc = "prepare" /\ op[a].pc \notin Outer /\ Source(a)[Db] # Missing
        /\ staging' = [b \in Actors |-> IF b = a THEN Source(a) ELSE NoArchive]
        /\ UNCHANGED <<data, points, pool, server, ops, shown>>
    BY DEF prepare_backup_file, At, Outer, process
  <1>2. /\ op \in [Actors -> Operations] /\ op[a] \in Operations
        /\ Shape(a) /\ AtWork(a) /\ DataInv /\ data \in Archives
        /\ a # Boot => op[a].id # 0
        /\ op[a].id # 0 => op[a].id \in Ids
        /\ a # Boot => pool # "down"
    BY <1>1, Inside DEF Shape
  <1>3. Restorer(a) /\ op[a].archive \in Archives
    BY <1>1, <1>2 DEF Shape, Restorer, Locked
  <1>4. /\ Others(a) /\ SameTask(a) /\ op'[a].undo = op[a].undo
        /\ op'[a].pc = IF op[a].kind = "restore" /\ ~op[a].undo THEN "close" ELSE "clear"
        /\ op'[a].pc = "clear" => op'[a].todo = Present(data)
        /\ goal' = IF op'[a].pc = "clear" /\ ~op[a].undo THEN op[a].archive ELSE goal
    <2>1. CASE op[a].kind = "restore" /\ ~op[a].undo
      <3>1. To(a, "close", {}) /\ goal' = goal
        BY <2>1 DEF prepare_backup_file
      <3>2. QED BY <1>2, <2>1, <3>1, Goes DEF Stages
    <2>2. CASE ~(op[a].kind = "restore" /\ ~op[a].undo)
      <3>1. To(a, "clear", Present(data))
            /\ goal' = IF op[a].undo THEN goal ELSE op[a].archive
        BY <2>2 DEF prepare_backup_file
      <3>2. Present(data) \in SUBSET (Files \union Ids)
        BY <1>2, Values
      <3>3. /\ Others(a) /\ SameTask(a) /\ op'[a].undo = op[a].undo
            /\ op'[a].pc = "clear" /\ op'[a].todo = Present(data)
        BY <1>2, <3>1, <3>2, Goes DEF Stages
      <3>4. QED BY <2>2, <3>1, <3>3
    <2>3. QED BY <2>1, <2>2
  <1>5. Shape(a)'
    BY <1>1, <1>2, <1>4 DEF Shape, SameTask, Locked, BootStages
  <1>6. op[a].undo => points[op[a].id] \in Archives /\ Promised
    BY <1>1, <1>2 DEF AtWork, Replacing, Shape
  <1>7. ~op[a].undo => Promised /\ (op[a].id # 0 => points[op[a].id] \in Archives)
    <2>1. ~op[a].undo /\ op[a].id # 0 => points[op[a].id] \in Archives
      BY <1>1, <1>2 DEF AtWork
    <2>2. ~op[a].undo /\ Keeps => op[a].id # 0 /\ Has(points[op[a].id], shown)
      BY <1>1, <1>2, <2>1, Promising, Values DEF AtWork, DataInv, Keeps, Has
    <2>3. QED BY <1>2, <2>1, <2>2 DEF DataInv, NothingLost, Promised
  <1>8. Source(a)' = Source(a) /\ Source(a) \in Archives /\ Promised'
    BY <1>1, <1>2, <1>3, <1>4, <1>6, <1>7 DEF Source, SameTask, Promised, Has
  <1>9. op'[a].pc = "clear" /\ a # Boot => pool = "closed"
    BY <1>1, <1>2, <1>3, <1>4 DEF AtWork, Replacing, Shape, Locked
  <1>10. AtWork(a)'
    <2>1. op'[a].pc \in {"close", "clear"} /\ (op'[a].pc = "close" => ~op'[a].undo)
      BY <1>4
    <2>2. op'[a].pc = "close" =>
             /\ op'[a].id # 0 /\ points'[op'[a].id] \in Archives
             /\ \A f \in DOMAIN shown' : points'[op'[a].id][f] = data'[f]
      BY <1>1, <1>2, <1>3, <1>4 DEF AtWork, SameTask, Shape
    <2>3. Replacing(a)' => /\ Promised'
                           /\ op'[a].id # 0 => points'[op'[a].id] \in Archives
                           /\ a # Boot => pool' = "closed"
                           /\ op'[a].undo \/ goal' = op'[a].archive
      BY <1>1, <1>4, <1>6, <1>7, <1>8, <1>9, <2>1 DEF Replacing, SameTask
    <2>4. staging'[a] = Source(a)' /\ staging'[a] \in Archives /\ Source(a)'[Db] # Missing
      BY <1>1, <1>8
    <2>5. op'[a].pc = "clear" => \A f \in DOMAIN shown' \ op'[a].todo : data'[f] = Missing
      BY <1>1, <1>4, Promising DEF Present
    <2>6. QED BY <2>1, <2>2, <2>3, <2>4, <2>5 DEF AtWork
  <1>11. DataInv'
    <2>1. goal' \in {goal, op[a].archive} /\ (goal' # goal => op[a].archive = Source(a))
      BY <1>4 DEF Source
    <2>2. QED BY <1>1, <1>2, <1>3, <2>1 DEF DataInv, NothingLost, Keeps, Has
  <1>12. QED BY <1>1, <1>4, <1>5, <1>10, <1>11, WorkStep

\* Where nothing was touched, the restore point is a second copy of the data.
LEMMA PrepareFailStep ==
    ASSUME TypeOK, BackupInv, NEW a \in Actors, PrepareFail(a)
    PROVE  BackupInv'
  <1>1. op[a].pc = "prepare" /\ op[a].pc \notin Outer /\ ~op[a].undo
        /\ points' = (IF op[a].id = 0 THEN points
                      ELSE [points EXCEPT ![op[a].id] = NoArchive])
        /\ UNCHANGED <<data, ops, shown, goal>>
    BY DEF PrepareFail, At, Outer, history
  <1>2. /\ op \in [Actors -> Operations] /\ Shape(a) /\ AtWork(a) /\ DataInv
        /\ points \in [Ids -> Archives \union {NoArchive}]
        /\ a # Boot => a \in Handlers /\ pool # "down" /\ server = "serving"
        /\ \A b \in Actors \ {a} : op[b].pc \in Outer
    BY <1>1, Inside
  <1>3. \A i \in Ids : points'[i] \in {points[i], NoArchive}
                       /\ (i # op[a].id => points'[i] = points[i])
    BY <1>1, <1>2
  <1>4. NothingLost'
    <2>1. op[a].id # 0 /\ Has(points[op[a].id], shown) => Keeps
      BY <1>1, <1>2, Values DEF AtWork, Keeps, Has, TypeOK
    <2>2. NothingLost /\ data' = data /\ shown' = shown
      BY <1>1, <1>2 DEF DataInv
    <2>3. CASE Keeps
      BY <2>2, <2>3 DEF NothingLost, Keeps, Has
    <2>4. ASSUME NEW i \in Ids, Has(points[i], shown), ~Keeps PROVE NothingLost'
      <3>1. i # op[a].id
        BY <1>2, <2>1, <2>4, BackupAssumption DEF Ids
      <3>2. points'[i] = points[i]
        BY <1>3, <3>1
      <3>3. QED BY <2>2, <2>4, <3>2 DEF NothingLost, Has
    <2>5. QED BY <2>2, <2>3, <2>4 DEF NothingLost
  <1>5. CASE a = Boot
    BY <1>1, <1>3, <1>4, <1>5, Stops DEF PrepareFail, GiveUp, history
  <1>6. CASE a # Boot
    <2>1. Finish(a) /\ pool' = pool /\ server' = server
      BY <1>6 DEF PrepareFail, GiveUp
    <2>2. Others(a) /\ op'[a] = Idle
      BY <1>2, <2>1, Finishes
    <2>3. Shape(a)' /\ AtWork(a)'
      BY <1>6, <2>2 DEF Shape, AtWork, Replacing, Idle, Locked
    <2>4. ServerInv' /\ DataInv'
      BY <1>1, <1>2, <1>4, <1>6, <2>1, <2>2
      DEF BackupInv, ServerInv, DataInv, Others, Idle, Actors
    <2>5. QED BY <1>1, <1>2, <1>3, <2>2, <2>3, <2>4, InsideStep DEF Idle
  <1>7. QED BY <1>5, <1>6

LEMMA ClosePoolStep ==
    ASSUME TypeOK, BackupInv, NEW a \in Actors, ClosePool(a)
    PROVE  BackupInv'
  <1>1. op[a].pc = "close" /\ op[a].pc \notin Outer
        /\ pool' = "closed" /\ goal' = op[a].archive
        /\ UNCHANGED <<data, staging, points, server, ops, shown>>
    BY DEF ClosePool, At, Outer
  <1>2. /\ op \in [Actors -> Operations] /\ op[a] \in Operations
        /\ Shape(a) /\ AtWork(a) /\ DataInv /\ data \in Archives
        /\ op[a].id # 0 => op[a].id \in Ids
    BY <1>1, Inside
  <1>3. a # Boot /\ op[a].kind = "restore" /\ op[a].id # 0 /\ op[a].undo = FALSE
        /\ op[a].archive \in Archives
    BY <1>1, <1>2 DEF Shape, Locked, BootStages, Operations
  <1>4. Present(data) \in SUBSET (Files \union Ids)
    BY <1>2, Values
  <1>5. /\ Others(a) /\ SameTask(a) /\ op'[a].undo = op[a].undo
        /\ op'[a].pc = "clear" /\ op'[a].todo = Present(data)
    BY <1>2, <1>4, Goes DEF ClosePool, Stages
  <1>6. Shape(a)'
    BY <1>1, <1>2, <1>3, <1>5 DEF Shape, SameTask
  <1>7. points[op[a].id] \in Archives /\ Promised /\ staging[a] = op[a].archive
        /\ op[a].archive[Db] # Missing
    <2>1. /\ points[op[a].id] \in Archives
          /\ \A f \in DOMAIN shown : points[op[a].id][f] = data[f]
          /\ staging[a] = op[a].archive /\ op[a].archive[Db] # Missing
      BY <1>1, <1>2, <1>3 DEF AtWork, Source
    <2>2. Keeps => Has(points[op[a].id], shown)
      BY <2>1, Values DEF Keeps, Has
    <2>3. QED BY <1>2, <1>3, <2>1, <2>2 DEF DataInv, NothingLost, Promised
  <1>8. AtWork(a)'
    BY <1>1, <1>2, <1>3, <1>5, <1>7, Promising
    DEF AtWork, Replacing, SameTask, Source, Present, Promised, Has
  <1>9. DataInv'
    BY <1>1, <1>2, <1>3, <1>7 DEF DataInv, NothingLost, Keeps, Has
  <1>10. QED BY <1>1, <1>3, <1>5, <1>6, <1>8, <1>9, WorkStep

\* In the middle of an activation the old data is a restore point, and every
\* file is still to be deleted, or gone, or staged, or in its place.
LEMMA ActivationStep ==
    ASSUME TypeOK, BackupInv, NEW a \in Actors, op[a].pc \in {"clear", "rename"},
           Others(a), SameTask(a), op'[a].undo = op[a].undo,
           op'[a].pc \in {"clear", "rename"},
           UNCHANGED <<points, pool, server, ops, shown, goal>>,
           staging'[a] \in Archives,
           op'[a].pc = "clear" => staging'[a] = staging[a] /\ op[a].pc = "clear",
           op'[a].pc = "clear" => \A f \in DOMAIN shown \ op'[a].todo : data'[f] = Missing,
           op'[a].pc = "rename" =>
              \A f \in DOMAIN shown :
                 IF f \in op'[a].todo
                 THEN data'[f] = Missing /\ staging'[a][f] = Source(a)[f]
                 ELSE data'[f] = Source(a)[f] /\ staging'[a][f] = Missing
    PROVE  BackupInv'
  <1>1. op[a].pc \notin Outer
    BY DEF Outer
  <1>2. Shape(a) /\ AtWork(a) /\ DataInv
    BY <1>1, Inside
  <1>3. Replacing(a) /\ Source(a)' = Source(a)
    BY DEF Replacing, Source, SameTask
  <1>4. Shape(a)'
    BY <1>2 DEF Shape, SameTask, Locked, BootStages
  <1>5. AtWork(a)'
    BY <1>2, <1>3 DEF AtWork, Replacing, SameTask, Promised, Has
  <1>6. DataInv'
    BY <1>2, <1>3 DEF DataInv, NothingLost, Keeps, Has, AtWork, Promised, BackupInv, ServerInv
  <1>7. QED BY <1>1, <1>4, <1>5, <1>6, WorkStep

LEMMA ActivationSteps ==
    ASSUME TypeOK, BackupInv, NEW a \in Actors
    PROVE  /\ \A f \in Files : ClearFile(a, f) => BackupInv'
           /\ ListStaged(a) => BackupInv'
           /\ \A f \in Files : RenameFile(a, f) => BackupInv'
  <1> USE DEF process, history
  <1>1. ASSUME NEW f \in Files, ClearFile(a, f) PROVE BackupInv'
    <2>1. op[a].pc = "clear" /\ op[a].pc \notin Outer
          /\ data' = [data EXCEPT ![f] = Missing]
          /\ op' = [op EXCEPT ![a].todo = @ \ {f}]
      BY <1>1 DEF ClearFile, At, Outer
    <2>2. op \in [Actors -> Operations] /\ data \in Archives /\ AtWork(a)
          /\ DOMAIN shown \subseteq Files
      BY <2>1, Inside, Promising
    <2>3. Others(a) /\ SameTask(a) /\ op'[a].undo = op[a].undo /\ op'[a].pc = "clear"
          /\ op'[a].todo = op[a].todo \ {f}
      BY <2>1, <2>2 DEF Operations, Others, SameTask
    <2>4. \A g \in DOMAIN shown \ op'[a].todo : data'[g] = Missing
      BY <2>1, <2>2, <2>3 DEF AtWork, Archives
    <2>5. staging[a] \in Archives
      BY <2>1, <2>2 DEF AtWork
    <2>6. QED BY <1>1, <2>1, <2>3, <2>4, <2>5, ActivationStep DEF ClearFile
  <1>2. ASSUME ListStaged(a) PROVE BackupInv'
    <2>1. op[a].pc = "clear" /\ op[a].pc \notin Outer /\ op[a].todo = {}
          /\ UNCHANGED <<data, staging>>
      BY <1>2 DEF ListStaged, At, Outer
    <2>2. op \in [Actors -> Operations] /\ AtWork(a)
      BY <2>1, Inside
    <2>3. staging[a] \in Archives /\ staging[a] = Source(a)
      BY <2>1, <2>2 DEF AtWork
    <2>4. Present(staging[a]) \in SUBSET (Files \union Ids)
      BY <2>3, Values
    <2>5. Others(a) /\ SameTask(a) /\ op'[a].undo = op[a].undo /\ op'[a].pc = "rename"
          /\ op'[a].todo = Present(staging[a])
      BY <1>2, <2>2, <2>4, Goes DEF ListStaged, Stages
    <2>6. DOMAIN shown \subseteq Files /\ \A f \in DOMAIN shown : data[f] = Missing
      BY <2>1, <2>2, Promising DEF AtWork
    <2>7. QED BY <1>2, <2>1, <2>3, <2>5, <2>6, ActivationStep DEF ListStaged, Present
  <1>3. ASSUME NEW f \in Files, RenameFile(a, f) PROVE BackupInv'
    <2>1. op[a].pc = "rename" /\ op[a].pc \notin Outer /\ f \in op[a].todo
          /\ data' = [data EXCEPT ![f] = staging[a][f]]
          /\ staging' = [staging EXCEPT ![a][f] = Missing]
          /\ op' = [op EXCEPT ![a].todo = @ \ {f}]
      BY <1>3 DEF RenameFile, At, Outer
    <2>2. op \in [Actors -> Operations] /\ data \in Archives /\ AtWork(a)
          /\ staging \in [Actors -> Archives \union {NoArchive}]
      BY <2>1, Inside
    <2>3. staging[a] \in Archives
      BY <2>1, <2>2 DEF AtWork
    <2>4. Others(a) /\ SameTask(a) /\ op'[a].undo = op[a].undo /\ op'[a].pc = "rename"
          /\ op'[a].todo = op[a].todo \ {f}
      BY <2>1, <2>2 DEF Operations, Others, SameTask
    <2>5. staging'[a] = [staging[a] EXCEPT ![f] = Missing] /\ staging'[a] \in Archives
      BY <2>1, <2>2, <2>3 DEF Archives
    <2>6. \A g \in DOMAIN shown :
             IF g \in op'[a].todo
             THEN data'[g] = Missing /\ staging'[a][g] = Source(a)[g]
             ELSE data'[g] = Source(a)[g] /\ staging'[a][g] = Missing
      <3>1. DOMAIN data = Files /\ DOMAIN staging[a] = Files /\ DOMAIN shown \subseteq Files
        BY <2>2, <2>3, Promising DEF Archives
      <3>2. \A g \in DOMAIN shown :
               IF g \in op[a].todo
               THEN data[g] = Missing /\ staging[a][g] = Source(a)[g]
               ELSE data[g] = Source(a)[g] /\ staging[a][g] = Missing
        BY <2>1, <2>2 DEF AtWork
      <3>3. QED BY <2>1, <2>4, <2>5, <3>1, <3>2
    <2>7. QED BY <1>3, <2>1, <2>4, <2>5, <2>6, ActivationStep DEF RenameFile
  <1>4. QED BY <1>1, <1>2, <1>3

\* With nothing left to rename, all files are in their places but those that others
\* wrote.
LEMMA AllInPlace ==
    ASSUME TypeOK, BackupInv, NEW a \in Actors, op[a].pc = "rename", op[a].todo = {}
    PROVE  /\ \A f \in DOMAIN shown : data[f] = Source(a)[f]
           /\ Source(a) \in Archives /\ data[Db] # Missing
  <1>1. Shape(a) /\ AtWork(a)
    BY DEF BackupInv
  <1>2. Source(a) \in Archives
    BY <1>1 DEF AtWork, Replacing, Source, Shape, Locked
  <1>3. \A f \in DOMAIN shown : data[f] = Source(a)[f]
    BY <1>1 DEF AtWork
  <1>4. QED BY <1>1, <1>2, <1>3, Promising DEF AtWork

\* A restore promises of its archive what nobody else wrote over.
LEMMA RestoredPromise ==
    ASSUME TypeOK, NEW archive \in Archives
    PROVE  /\ Restored(archive) \in Promises /\ DOMAIN Restored(archive) = DOMAIN shown
           /\ \A f \in DOMAIN shown : Restored(archive)[f] = archive[f]
  <1>1. DOMAIN shown \subseteq Files
    BY Promising
  <1>2. Restored(archive) = [f \in DOMAIN shown |-> archive[f]]
    BY DEF Restored, Restrict
  <1>3. QED BY <1>1, <1>2 DEF Promises, Archives

LEMMA RemoveStagingStep ==
    ASSUME TypeOK, BackupInv, NEW a \in Actors, RemoveStaging(a)
    PROVE  BackupInv'
  <1>1. op[a].pc = "rename" /\ op[a].pc \notin Outer /\ op[a].todo = {}
        /\ staging' = [staging EXCEPT ![a] = NoArchive]
        /\ points' = (IF a = Boot /\ op[a].id # 0
                      THEN [points EXCEPT ![op[a].id] = NoArchive] ELSE points)
        /\ shown' = (IF a = Boot /\ ~op[a].undo THEN Restored(goal) ELSE shown)
        /\ UNCHANGED <<data, pool, server, ops, goal>>
    BY DEF RemoveStaging, At, Outer, process
  <1>2. /\ op \in [Actors -> Operations] /\ op[a] \in Operations
        /\ Shape(a) /\ AtWork(a) /\ DataInv /\ data \in Archives
        /\ points \in [Ids -> Archives \union {NoArchive}]
        /\ op[a].id # 0 => op[a].id \in Ids
        /\ a = Boot => pool = "down"
        /\ a # Boot => pool # "down"
    BY <1>1, Inside
  <1>3. Others(a) /\ SameTask(a) /\ op'[a].undo = op[a].undo /\ op'[a].pc = "open"
    BY <1>2, Goes DEF RemoveStaging, Stages
  <1>4. Shape(a)'
    BY <1>1, <1>2, <1>3 DEF Shape, SameTask, Locked, BootStages
  <1>5. /\ \A f \in DOMAIN shown : data[f] = Source(a)[f]
        /\ Source(a) \in Archives /\ data[Db] # Missing /\ Db \in DOMAIN shown
    BY <1>1, AllInPlace, Promising
  <1>6. Promised /\ (op[a].undo \/ goal = op[a].archive)
        /\ (a # Boot => pool = "closed")
        /\ (op[a].id # 0 => points[op[a].id] \in Archives)
    BY <1>1, <1>2 DEF AtWork, Replacing
  <1>7. a # Boot => points' = points /\ shown' = shown /\ Source(a)' = Source(a)
    BY <1>1, <1>3 DEF Source, SameTask
  <1>8. AtWork(a)'
    <2>1. CASE a = Boot
      BY <1>3, <2>1 DEF AtWork, Replacing
    <2>2. CASE a # Boot
      <3>1. Promised'
        BY <1>6, <1>7, <2>2 DEF Promised, Has
      <3>2. QED
        BY <1>1, <1>3, <1>5, <1>6, <1>7, <2>2, <3>1 DEF AtWork, Replacing, SameTask
    <2>3. QED BY <2>1, <2>2
  <1>9. DataInv'
    <2>1. NothingLost'
      <3>1. CASE a = Boot /\ ~op[a].undo
        <4>1. goal = Source(a) /\ shown' = Restored(goal) /\ data' = data
          BY <1>1, <1>6, <3>1 DEF Source
        <4>2. \A f \in DOMAIN shown' : data'[f] = shown'[f]
          BY <1>5, <4>1, RestoredPromise
        <4>3. QED BY <1>2, <4>1, <4>2, Values DEF NothingLost, Keeps, Has
      <3>2. CASE a = Boot /\ op[a].undo
        <4>1. op[a].id \in Ids /\ \A f \in DOMAIN shown : data[f] = points[op[a].id][f]
          BY <1>2, <1>5, <3>2 DEF Shape, Source
        <4>2. PICK i \in Ids : Has(points[i], shown)
          BY <1>6 DEF Promised
        <4>3. shown' = shown /\ data' = data
          BY <1>1, <3>2
        <4>4. CASE i = op[a].id
          BY <1>2, <4>1, <4>2, <4>3, <4>4, Values DEF NothingLost, Keeps, Has
        <4>5. CASE i # op[a].id
          <5>1. points'[i] = points[i]
            BY <1>1, <1>2, <4>5
          <5>2. QED BY <4>2, <4>3, <5>1 DEF NothingLost, Has
        <4>6. QED BY <4>4, <4>5
      <3>3. CASE a # Boot
        BY <1>6, <1>7, <3>3 DEF NothingLost, Keeps, Has, Promised
      <3>4. QED BY <3>1, <3>2, <3>3
    <2>2. goal = NoArchive \/ (goal \in Archives /\ goal[Db] # Missing)
      BY <1>2 DEF DataInv
    <2>3. shown'[Db] # Missing
      BY <1>1, <1>2, <1>5, <1>6, RestoredPromise DEF DataInv, Source
    <2>4. QED BY <1>1, <1>5, <2>1, <2>2, <2>3 DEF DataInv
  <1>10. \A i \in Ids : i # op[a].id => points'[i] = points[i]
    BY <1>1, <1>2
  <1>11. QED BY <1>1, <1>3, <1>4, <1>8, <1>9, <1>10, WorkStep

LEMMA ActivateFailStep ==
    ASSUME TypeOK, BackupInv, NEW a \in Actors, ActivateFail(a)
    PROVE  BackupInv'
  <1>1. /\ op[a].pc \in {"clear", "rename", "open"} /\ (a = Boot => op[a].pc # "open")
        /\ op[a].pc \notin Outer
        /\ UNCHANGED <<data, staging, points, ops, shown, goal>>
    BY DEF ActivateFail, Outer, history
  <1>2. op \in [Actors -> Operations] /\ Shape(a) /\ AtWork(a) /\ DataInv
    BY <1>1, Inside
  <1>3. Replacing(a) /\ Promised
    BY <1>1, <1>2 DEF Replacing, AtWork
  <1>4. CASE a = Boot /\ op[a].id = 0
    BY <1>1, <1>2, <1>4, Stops DEF ActivateFail, DataInv, NothingLost, Keeps, Has, history
  <1>5. CASE ~(a = Boot /\ op[a].id = 0)
    <2>1. op' = [op EXCEPT ![a].undo = TRUE, ![a].pc = "prepare", ![a].todo = {}]
          /\ UNCHANGED <<pool, server>>
      BY <1>5 DEF ActivateFail
    <2>2. Others(a) /\ SameTask(a) /\ op'[a].undo = TRUE /\ op'[a].pc = "prepare"
      BY <1>2, <2>1 DEF Operations, Others, SameTask
    <2>3. op[a].id # 0
      BY <1>1, <1>2, <1>5 DEF Shape
    <2>4. Shape(a)'
      BY <1>1, <1>2, <2>2, <2>3 DEF Shape, SameTask, Locked, BootStages
    <2>5. AtWork(a)'
      BY <1>1, <1>2, <1>3, <2>1, <2>2 DEF AtWork, Replacing, SameTask, Promised, Has
    <2>6. DataInv'
      BY <1>1, <1>2, <2>1 DEF DataInv, NothingLost, Keeps, Has
    <2>7. QED BY <1>1, <2>1, <2>2, <2>4, <2>5, <2>6, WorkStep
  <1>6. QED BY <1>4, <1>5

\* init_db makes no database where there is one.
LEMMA ReopenStep ==
    ASSUME TypeOK, BackupInv, NEW a \in Actors, Reopen(a)
    PROVE  BackupInv'
  <1>1. op[a].pc = "open" /\ op[a].pc \notin Outer /\ a # Boot /\ ~op[a].undo
        /\ data' = init_db(data) /\ pool' = "open" /\ shown' = Restored(goal)
        /\ UNCHANGED <<staging, points, server, ops, goal>>
    BY DEF Reopen, At, Outer
  <1>2. op \in [Actors -> Operations] /\ Shape(a) /\ AtWork(a) /\ DataInv
        /\ data \in Archives
    BY <1>1, Inside
  <1>3. Others(a) /\ SameTask(a) /\ op'[a].undo = op[a].undo /\ op'[a].pc = "discard"
    BY <1>2, Goes DEF Reopen, Stages
  <1>4. /\ data' = data /\ data[Db] # Missing /\ goal \in Archives /\ goal[Db] # Missing
        /\ \A f \in DOMAIN shown : data[f] = goal[f]
    <2>1. Replacing(a) /\ op[a].kind = "restore"
      BY <1>1, <1>2 DEF Replacing, Shape, Locked
    <2>2. goal = op[a].archive /\ goal \in Archives
      BY <1>1, <1>2, <2>1 DEF AtWork, Shape
    <2>3. QED BY <1>1, <1>2, <2>2, Values DEF AtWork, Source, init_db, DataInv
  <1>5. Shape(a)'
    BY <1>1, <1>2, <1>3 DEF Shape, SameTask, Locked
  <1>6. Keeps' /\ shown'[Db] # Missing
    BY <1>1, <1>2, <1>4, Promising, RestoredPromise, Values DEF Keeps, Has
  <1>7. AtWork(a)'
    BY <1>3, <1>6 DEF AtWork, Replacing
  <1>8. DataInv'
    BY <1>1, <1>2, <1>4, <1>6 DEF DataInv, NothingLost
  <1>9. QED BY <1>1, <1>3, <1>5, <1>7, <1>8, WorkStep

LEMMA ReopenOldStep ==
    ASSUME TypeOK, BackupInv, NEW a \in Actors, ReopenOld(a)
    PROVE  BackupInv'
  <1>1. op[a].pc = "open" /\ op[a].pc \notin Outer /\ a # Boot
        /\ data' = init_db(data) /\ pool' = "open"
        /\ UNCHANGED <<staging, points, server, ops, shown, goal>>
    BY DEF ReopenOld, At, Outer, history
  <1>2. op \in [Actors -> Operations] /\ Shape(a) /\ AtWork(a) /\ DataInv
        /\ data \in Archives /\ server = "serving"
        /\ \A b \in Actors \ {a} : op[b].pc \in Outer
    BY <1>1, Inside
  <1>3. Others(a) /\ op'[a] = Idle
    BY <1>2, Finishes DEF ReopenOld
  <1>4. data' = data /\ data[Db] # Missing /\ Promised
    BY <1>1, <1>2 DEF AtWork, Replacing, init_db
  <1>5. Shape(a)' /\ AtWork(a)'
    BY <1>1, <1>3 DEF Shape, AtWork, Replacing, Idle, Locked
  <1>6. ServerInv' /\ DataInv'
    BY <1>1, <1>2, <1>3, <1>4
    DEF BackupInv, ServerInv, DataInv, NothingLost, Keeps, Has, Promised, Others, Idle, Actors
  <1>7. QED BY <1>1, <1>2, <1>3, <1>5, <1>6, InsideStep DEF Idle

\* The restore point goes when the new data has been promised.
LEMMA DiscardStep ==
    ASSUME TypeOK, BackupInv, NEW a \in Handlers, DiscardPoint(a)
    PROVE  BackupInv'
  <1>1. op[a].pc = "discard" /\ op[a].pc \notin Outer
        /\ points' = [points EXCEPT ![op[a].id] = NoArchive]
        /\ UNCHANGED <<data, staging, pool, server, ops, shown, goal>>
    BY DEF DiscardPoint, At, Outer, process, history
  <1>2. a \in Actors /\ a # Boot
    BY BackupAssumption DEF Actors
  <1>3. op \in [Actors -> Operations] /\ Shape(a) /\ AtWork(a) /\ DataInv
        /\ points \in [Ids -> Archives \union {NoArchive}]
        /\ \A b \in Actors \ {a} : op[b].pc \in Outer
    BY <1>1, <1>2, Inside
  <1>4. Others(a) /\ op'[a] = Idle
    BY <1>2, <1>3, Finishes DEF DiscardPoint
  <1>5. Shape(a)' /\ AtWork(a)'
    BY <1>2, <1>4 DEF Shape, AtWork, Replacing, Idle, Locked
  <1>6. ServerInv' /\ DataInv'
    BY <1>1, <1>2, <1>3, <1>4
    DEF BackupInv, ServerInv, DataInv, NothingLost, Keeps, Has, AtWork, Others, Idle, Actors, Outer
  <1>7. \A i \in Ids : i # op[a].id => points'[i] = points[i]
    BY <1>1, <1>3
  <1>8. QED BY <1>1, <1>2, <1>3, <1>4, <1>5, <1>6, <1>7, InsideStep DEF Idle

-----------------------------------------------------------------------------
(* The start-up, the end of the server, and the work of the database.      *)

LEMMA SkipStep ==
    ASSUME TypeOK, BackupInv, SkipRestore
    PROVE  BackupInv'
  <1>1. Boot \in Actors /\ op[Boot].pc = "fetch" /\ op[Boot].pc \notin Outer
        /\ UNCHANGED <<data, staging, points, pool, server, ops, shown, goal>>
    BY DEF Actors, SkipRestore, At, Outer, process, history
  <1>2. op \in [Actors -> Operations] /\ Shape(Boot) /\ DataInv
    BY <1>1, Inside
  <1>3. Others(Boot) /\ SameTask(Boot) /\ op'[Boot].undo = op[Boot].undo
        /\ op'[Boot].pc = "open"
    BY <1>1, <1>2, Goes DEF SkipRestore, Stages
  <1>4. Shape(Boot)' /\ AtWork(Boot)'
    BY <1>1, <1>2, <1>3
    DEF Shape, SameTask, Locked, BootStages, AtWork, Replacing
  <1>5. DataInv'
    BY <1>1, <1>2 DEF DataInv, NothingLost, Keeps, Has
  <1>6. QED BY <1>1, <1>3, <1>4, <1>5, WorkStep

LEMMA DownloadLatestStep ==
    ASSUME TypeOK, BackupInv, download_latest_backup
    PROVE  BackupInv'
  <1>1. Boot \in Actors /\ op[Boot].pc = "fetch" /\ op[Boot].pc \notin Outer
        /\ UNCHANGED <<data, points, pool, server, goal>>
        /\ shown' = (IF Keeps THEN data ELSE shown)
    BY DEF Actors, download_latest_backup, At, Outer, process, history
  <1>2. /\ op \in [Actors -> Operations] /\ op[Boot] \in Operations
        /\ Shape(Boot) /\ DataInv /\ data \in Archives
        /\ \A b \in Actors \ {Boot} : op[b].pc \in Outer
        /\ pool = "down" /\ server = "booting"
    BY <1>1, Inside
  <1>9. DataInv' /\ DOMAIN shown' \subseteq Files
    <2>1. CASE Keeps
      <3>1. data[Db] # Missing
        BY <1>2, <2>1, Promising DEF DataInv, Keeps, Has
      <3>2. QED
        BY <1>1, <1>2, <2>1, <3>1, Values DEF DataInv, NothingLost, Keeps, Has, Archives
    <2>2. CASE ~Keeps
      BY <1>1, <1>2, <2>2, Promising DEF DataInv, NothingLost, Keeps, Has
    <2>3. QED BY <2>1, <2>2
  <1>3. /\ op[Boot].kind = "boot" /\ op[Boot].id = 0 /\ op[Boot].undo = FALSE
        /\ op[Boot].copy = Nothing
    BY <1>1, <1>2 DEF Shape, Operations
  <1>4. PICK latest \in DOMAIN remote :
          IF data[Db] # Missing
          THEN ops < MaxOps /\ ops' = ops + 1
               /\ op' = [op EXCEPT ![Boot].pc = "copy", ![Boot].archive = remote[latest],
                                   ![Boot].id = ops', ![Boot].todo = Present(data)]
          ELSE op' = [op EXCEPT ![Boot].pc = "prepare",
                                ![Boot].archive = remote[latest]]
               /\ UNCHANGED <<staging, ops>>
    BY DEF download_latest_backup
  <1>5. remote[latest] \in Archives
    BY DEF TypeOK
  <1>6. CASE data[Db] # Missing
    <2>1. op' = [op EXCEPT ![Boot].pc = "copy", ![Boot].archive = remote[latest],
                           ![Boot].id = ops + 1, ![Boot].todo = Present(data)]
          /\ ops' = ops + 1 /\ ops < MaxOps
      BY <1>4, <1>6
    <2>2. /\ Others(Boot) /\ op'[Boot].kind = "boot" /\ op'[Boot].pc = "copy"
          /\ op'[Boot].id = ops + 1 /\ op'[Boot].archive = remote[latest]
          /\ op'[Boot].copy = Nothing /\ op'[Boot].undo = FALSE
          /\ op'[Boot].todo = Present(data)
      BY <1>1, <1>2, <1>3, <2>1 DEF Operations, Others
    <2>3. ops \in Nat /\ MaxOps \in Nat
      BY BackupAssumption DEF TypeOK
    <2>4. Shape(Boot)'
      BY <1>5, <2>2, <2>3 DEF Shape, BootStages
    <2>5. \A f \in Files \ Present(data) : Nothing[f] = data[f]
      BY DEF Nothing, Present
    <2>6. AtWork(Boot)'
      BY <1>9, <1>1, <2>2, <2>5 DEF AtWork, Replacing
    <2>7. \A b \in Actors : Shape(b)' /\ AtWork(b)'
      <3>1. \A b \in Actors \ {Boot} : op'[b] = op[b] /\ op[b].pc \in Outer
        BY <1>2, <2>2 DEF Others
      <3>2. \A b \in Actors \ {Boot} : Shape(b)'
        BY <3>1 DEF BackupInv, Shape
      <3>3. \A b \in Actors \ {Boot} : AtWork(b)'
        BY <3>1, <3>2 DEF Shape, AtWork, Outer, Replacing
      <3>4. QED BY <2>4, <2>6, <3>2, <3>3
    <2>8. NumberInv'
      <3>1. NumberInv /\ ops + 1 <= MaxOps /\ points' = points
        BY <1>1, <2>1, <2>3 DEF BackupInv
      <3>2. QED BY <1>1, <2>1, <2>2, <3>1, NewNumber
    <2>9. ServerInv' /\ DataInv'
      BY <1>9, <1>1, <1>2, <2>2, BackupAssumption DEF BackupInv, ServerInv, Others, Actors
    <2>10. QED BY <2>7, <2>8, <2>9 DEF BackupInv
  <1>7. CASE data[Db] = Missing
    <2>1. op' = [op EXCEPT ![Boot].pc = "prepare", ![Boot].archive = remote[latest]]
          /\ UNCHANGED <<staging, ops>>
      BY <1>4, <1>7
    <2>2. /\ Others(Boot) /\ op'[Boot].kind = "boot" /\ op'[Boot].pc = "prepare"
          /\ op'[Boot].id = 0 /\ op'[Boot].archive = remote[latest]
          /\ op'[Boot].undo = FALSE
      BY <1>1, <1>2, <1>3, <2>1 DEF Operations, Others
    <2>3. Shape(Boot)' /\ AtWork(Boot)'
      BY <1>1, <1>5, <1>7, <2>2 DEF Shape, AtWork, Replacing, BootStages
    <2>4. ServerInv' /\ DataInv'
      BY <1>9, <1>1, <1>2, <2>2, BackupAssumption DEF BackupInv, ServerInv, Others, Actors
    <2>5. QED BY <1>1, <1>2, <1>3, <2>1, <2>2, <2>3, <2>4, InsideStep
  <1>8. QED BY <1>6, <1>7

LEMMA BootOpenStep ==
    ASSUME TypeOK, BackupInv, BootOpen
    PROVE  BackupInv'
  <1>1. /\ Boot \in Actors /\ op[Boot].pc = "open" /\ op[Boot].pc \notin Outer
        /\ data' = init_db(data) /\ pool' = "open" /\ server' = "serving"
        /\ shown' = (IF ~Keeps /\ goal # NoArchive /\ Has(data, Restored(goal))
                     THEN Restored(goal) ELSE shown)
        /\ UNCHANGED <<staging, points, ops, goal>>
    BY DEF Actors, BootOpen, At, Outer
  <1>2. op \in [Actors -> Operations] /\ DataInv /\ data \in Archives
        /\ \A b \in Actors \ {Boot} : op[b].pc \in Outer
    BY <1>1, Inside
  <1>3. Others(Boot) /\ op'[Boot] = Idle
    BY <1>1, <1>2, Finishes DEF BootOpen
  <1>4. Shape(Boot)' /\ AtWork(Boot)'
    BY <1>3 DEF Shape, AtWork, Replacing, Idle, BootStages
  <1>5. data'[Db] # Missing /\ (data[Db] # Missing => data' = data)
    BY <1>1, <1>2, Values DEF init_db, Sources, Archives
  <1>6. DataInv'
    <2>1. CASE ~Keeps /\ goal # NoArchive /\ Has(data, Restored(goal))
      <3>1. shown' = Restored(goal) /\ shown'[Db] # Missing
        BY <1>1, <1>2, <2>1, Promising, RestoredPromise DEF DataInv
      <3>2. data[Db] = shown'[Db]
        BY <1>2, <2>1, <3>1, Promising, RestoredPromise DEF DataInv, Has
      <3>3. Keeps'
        BY <1>5, <2>1, <3>1, <3>2 DEF Keeps, Has
      <3>4. QED BY <1>1, <1>2, <1>5, <3>1, <3>3 DEF DataInv, NothingLost
    <2>2. CASE ~(~Keeps /\ goal # NoArchive /\ Has(data, Restored(goal)))
      <3>1. shown' = shown /\ points' = points
        BY <1>1, <2>2
      <3>2. Keeps => data' = data
        BY <1>2, <1>5, Promising DEF DataInv, Keeps, Has
      <3>3. NothingLost'
        BY <1>2, <3>1, <3>2 DEF DataInv, NothingLost, Keeps, Has
      <3>4. QED BY <1>1, <1>2, <1>5, <3>1, <3>3 DEF DataInv
    <2>3. QED BY <2>1, <2>2
  <1>7. ServerInv'
    BY <1>1, <1>3, BackupAssumption DEF ServerInv, Idle
  <1>8. QED BY <1>1, <1>2, <1>3, <1>4, <1>6, <1>7, InsideStep DEF Idle

LEMMA StartStep ==
    ASSUME TypeOK, BackupInv, Start
    PROVE  BackupInv'
  <1>1. /\ Boot \in Actors /\ server = "off" /\ server' = "booting"
        /\ op' = [op EXCEPT ![Boot] = [Idle EXCEPT !.kind = "boot", !.pc = "fetch"]]
        /\ UNCHANGED <<data, staging, points, pool, ops, shown, goal>>
    BY DEF Actors, Start, history
  <1>2. op \in [Actors -> Operations] /\ ServerInv /\ DataInv
    BY DEF TypeOK, BackupInv
  <1>3. /\ Others(Boot) /\ op'[Boot].kind = "boot" /\ op'[Boot].pc = "fetch"
        /\ op'[Boot].id = 0 /\ op'[Boot].copy = Nothing /\ op'[Boot].undo = FALSE
    BY <1>1, <1>2 DEF Others, Idle
  <1>4. \A b \in Actors \ {Boot} : op[b].pc \in Outer
    BY <1>1, <1>2 DEF ServerInv, Actors, Outer
  <1>5. Shape(Boot)' /\ AtWork(Boot)'
    BY <1>3 DEF Shape, AtWork, Replacing, BootStages
  <1>6. ServerInv' /\ DataInv'
    BY <1>1, <1>2, <1>3, BackupAssumption
    DEF ServerInv, DataInv, NothingLost, Keeps, Has, Others, Actors
  <1>7. QED BY <1>1, <1>3, <1>4, <1>5, <1>6, InsideStep

\* The database is only at work where no operation relies on the data.
LEMMA CommitStep ==
    ASSUME TypeOK, BackupInv, Commit
    PROVE  BackupInv'
  <1>1. /\ pool = "open" /\ ~Excluded
        /\ data' = [data EXCEPT ![Db].rev = @ + 1]
        /\ shown' = (IF Keeps THEN [shown EXCEPT ![Db] = data'[Db]] ELSE shown)
        /\ UNCHANGED <<staging, points, pool, server, op, ops, goal>>
    BY DEF Commit, process
  <1>2. /\ op \in [Actors -> Operations] /\ ServerInv /\ NumberInv /\ DataInv
        /\ data \in Archives
    BY DEF TypeOK, BackupInv
  <1>3. data' \in Archives /\ data'[Db] # Missing
    <2>1. data[Db] \in Contents /\ data[Db].rev < MaxRev
      BY <1>1, <1>2, Values DEF DataInv, Archives, Commit
    <2>2. data'[Db] = [data[Db] EXCEPT !.rev = @ + 1]
      BY <1>1, <1>2, Values DEF Archives
    <2>3. data'[Db] \in Contents
      BY <2>1, <2>2, BackupAssumption DEF Contents
    <2>4. QED BY <1>1, <1>2, <2>3, Values DEF Archives
  <1>4. Keeps => Keeps' /\ shown'[Db] # Missing
    <2> SUFFICES ASSUME Keeps PROVE Keeps' /\ shown'[Db] # Missing
      OBVIOUS
    <2>1. shown' = [shown EXCEPT ![Db] = data'[Db]] /\ Db \in DOMAIN shown
      BY <1>1, Promising
    <2>2. DOMAIN shown' = DOMAIN shown /\ shown'[Db] = data'[Db]
          /\ \A f \in DOMAIN shown \ {Db} : shown'[f] = shown[f]
      BY <2>1
    <2>3. data' # NoArchive /\ DOMAIN shown \subseteq Files
      BY <1>3, Promising, Values
    <2>4. \A f \in Files \ {Db} : data'[f] = data[f]
      BY <1>1, <1>2 DEF Archives
    <2>5. QED BY <1>3, <2>2, <2>3, <2>4 DEF Keeps, Has
  <1>5. ASSUME NEW a \in Actors PROVE Shape(a)' /\ AtWork(a)'
    <2>1. Shape(a) /\ AtWork(a)
      BY DEF BackupInv
    <2>2. Shape(a)'
      BY <1>1, <2>1 DEF Shape
    <2>3. op[a].pc # "idle" => a # Boot /\ a \in Handlers
      BY <1>1, <1>2 DEF ServerInv, Actors
    <2>4. op[a].pc \in Locked /\ op[a].kind = "restore" => op[a].pc = "discard"
      BY <1>1, <2>3 DEF Excluded, TypeOK, Locked
    <2>5. op[a].pc \in Outer \union {"copy", "discard"}
          /\ (op[a].pc = "copy" => ~Restorer(a))
      BY <1>2, <2>1, <2>3, <2>4 DEF Shape, Locked, Outer, Restorer, Operations, Stages
    <2>6. AtWork(a)'
      BY <1>1, <1>4, <2>1, <2>2, <2>5 DEF Shape, AtWork, Replacing, Outer, Restorer
    <2>7. QED BY <2>2, <2>6
  <1>6. ServerInv' /\ NumberInv'
    BY <1>1, <1>2 DEF ServerInv, NumberInv, Restorer
  <1>7. DataInv'
    BY <1>1, <1>2, <1>3, <1>4, Promising DEF DataInv, NothingLost, Has
  <1>8. QED BY <1>5, <1>6, <1>7 DEF BackupInv

\* What somebody writes to a file is a value of the right kind.
LEMMA WriteTypes ==
    ASSUME TypeOK, NEW f \in Files, WriteFile(f)
    PROVE  TypeOK'
  <1>1. Rewritten(data[f]) \in Contents /\ data \in Archives /\ f # Db
        /\ data' = [data EXCEPT ![f] = Rewritten(data[f])]
    BY DEF WriteFile, TypeOK
  <1>2. data' \in Archives
    BY <1>1 DEF Archives
  <1>3. shown' \in Promises /\ Db \in DOMAIN shown'
    <2>1. CASE shown' = Restrict(shown, DOMAIN shown \ {f})
      BY <1>1, <2>1, Promising DEF Restrict, Promises
    <2>2. CASE shown' = [g \in DOMAIN shown \union {f} |-> data'[g]]
      BY <1>1, <1>2, <2>2, Promising DEF Promises, Archives
    <2>3. CASE shown' = shown
      BY <2>3 DEF TypeOK
    <2>4. QED BY <2>1, <2>2, <2>3 DEF WriteFile
  <1>4. UNCHANGED <<staging, points, remote, held, pool, server, lock, op, ops, goal>>
    BY DEF WriteFile, outside, process
  <1>5. QED BY <1>2, <1>3, <1>4 DEF TypeOK

\* What a write does to the data and to what is promised of it.
LEMMA Writing ==
    ASSUME TypeOK, NEW f \in Files, WriteFile(f)
    PROVE  /\ \A g \in Files \ {f} : data'[g] = data[g]
           /\ \A g \in DOMAIN shown' \ {f} : g \in DOMAIN shown /\ shown'[g] = shown[g]
           /\ Keeps => Keeps'
           /\ (\E a \in Actors : TooLate(a, f)) =>
                 /\ f \notin DOMAIN shown' /\ shown' \in Less(shown)
                 /\ \A d : Has(d, shown) => Has(d, shown')
           /\ (\A a \in Actors : ~TooLate(a, f)) /\ ~Keeps => shown' = shown
           /\ (\A a \in Actors : ~TooLate(a, f)) /\ Keeps =>
                 \A g \in DOMAIN shown \ {f} : g \in DOMAIN shown' /\ shown'[g] = shown[g]
  <1>1. data \in Archives /\ data' \in Archives
        /\ data' = [data EXCEPT ![f] = Rewritten(data[f])]
    BY WriteTypes DEF WriteFile, TypeOK
  <1>2. \A g \in Files \ {f} : data'[g] = data[g]
    BY <1>1 DEF Archives
  <1>3. DOMAIN shown \subseteq Files /\ data' # NoArchive
    BY <1>1, Promising, Values
  <1>4. CASE \E a \in Actors : TooLate(a, f)
    <2>1. shown' = Restrict(shown, DOMAIN shown \ {f})
      BY <1>4 DEF WriteFile
    <2>2. DOMAIN shown' = DOMAIN shown \ {f} /\ \A g \in DOMAIN shown' : shown'[g] = shown[g]
      BY <2>1 DEF Restrict
    <2>3. Keeps => Keeps'
      BY <1>2, <1>3, <2>2 DEF Keeps, Has
    <2>4. shown' \in Less(shown)
      BY <2>1 DEF Less
    <2>5. \A d : Has(d, shown) => Has(d, shown')
      BY <2>2 DEF Has
    <2>6. QED BY <1>2, <1>4, <2>2, <2>3, <2>4, <2>5
  <1>5. CASE ~(\E a \in Actors : TooLate(a, f)) /\ Keeps
    <2>1. shown' = [g \in DOMAIN shown \union {f} |-> data'[g]]
      BY <1>5 DEF WriteFile
    <2>2. \A g \in DOMAIN shown : data[g] = shown[g]
      BY <1>5 DEF Keeps, Has
    <2>3. \A g \in DOMAIN shown \ {f} : g \in DOMAIN shown' /\ shown'[g] = shown[g]
      BY <1>2, <1>3, <2>1, <2>2
    <2>4. Keeps'
      BY <1>3, <2>1 DEF Keeps, Has
    <2>5. QED BY <1>2, <1>5, <2>1, <2>3, <2>4
  <1>6. CASE ~(\E a \in Actors : TooLate(a, f)) /\ ~Keeps
    BY <1>2, <1>6 DEF WriteFile
  <1>7. QED BY <1>4, <1>5, <1>6

\* A file that is written while a restore relies on it is no longer promised.
LEMMA WriteFileStep ==
    ASSUME TypeOK, BackupInv, NEW f \in Files, WriteFile(f)
    PROVE  BackupInv'
  <1>1. f # Db /\ UNCHANGED <<staging, points, pool, server, op, ops, goal>>
    BY DEF WriteFile, process
  <1>2. ServerInv /\ NumberInv /\ DataInv /\ data'[Db] = data[Db]
        /\ Db \in DOMAIN shown /\ Db \in DOMAIN shown' /\ shown'[Db] = shown[Db]
    BY <1>1, Writing, Promising, WriteTypes, Values DEF BackupInv, TypeOK
  <1>3. NothingLost'
    <2>1. CASE Keeps
      BY <2>1, Writing DEF NothingLost
    <2>2. ASSUME NEW i \in Ids, Has(points[i], shown), ~Keeps PROVE NothingLost'
      <3>1. Has(points[i], shown')
        BY <2>2, Writing
      <3>2. QED BY <1>1, <3>1 DEF NothingLost, Has
    <2>3. QED BY <1>2, <2>1, <2>2 DEF DataInv, NothingLost
  <1>4. ASSUME NEW a \in Actors PROVE Shape(a)' /\ AtWork(a)'
    <2>1. Shape(a) /\ AtWork(a) /\ op[a] \in Operations
      BY DEF BackupInv, TypeOK
    <2>2. Shape(a)'
      BY <1>1, <2>1 DEF Shape
    <2>3. /\ Restorer(a)' = Restorer(a) /\ Replacing(a)' = Replacing(a)
          /\ Source(a)' = Source(a)
      BY <1>1 DEF Restorer, Replacing, Source
    <2>4. TooLate(a, f) => f \notin DOMAIN shown'
      BY Writing
    <2>5. \A g \in DOMAIN shown' \ {f} : g \in DOMAIN shown /\ data'[g] = data[g]
      BY Writing, Promising
    <2>6. Restorer(a)' /\ op'[a].pc = "copy" =>
              \A g \in DOMAIN shown' \ op'[a].todo : op'[a].copy[g] = data'[g]
      BY <1>1, <2>1, <2>3, <2>4, <2>5 DEF AtWork, TooLate, Restorer
    <2>7. op'[a].pc \in {"prepare", "close"} /\ ~op'[a].undo =>
              IF op'[a].id = 0 THEN data'[Db] = Missing
              ELSE /\ points'[op'[a].id] \in Archives
                   /\ \A g \in DOMAIN shown' : points'[op'[a].id][g] = data'[g]
      BY <1>1, <1>2, <2>1, <2>4, <2>5 DEF AtWork, TooLate
    <2>8. Replacing(a) => Promised'
      <3>1. Replacing(a) => Promised /\ TooLate(a, f)
        BY <2>1 DEF AtWork, TooLate
      <3>2. Replacing(a) /\ Promised => \E i \in Ids : Has(points[i], shown')
        BY <3>1, Writing DEF Promised
      <3>3. QED BY <1>1, <3>1, <3>2 DEF Promised, Has
    <2>9. op[a].pc \in {"clear", "rename"} \/ (a # Boot /\ op[a].pc = "open") =>
             \A g \in DOMAIN shown' : g \in DOMAIN shown /\ data'[g] = data[g]
      BY <2>4, <2>5 DEF TooLate, Replacing
    <2>10. op[a].pc = "discard" => Keeps'
      BY <2>1, Writing DEF AtWork
    <2>11. QED
      BY <1>1, <1>2, <2>1, <2>2, <2>3, <2>6, <2>7, <2>8, <2>9, <2>10 DEF AtWork
  <1>5. ServerInv' /\ NumberInv'
    BY <1>1, <1>2 DEF ServerInv, NumberInv, Restorer
  <1>6. DataInv'
    BY <1>1, <1>2, <1>3 DEF DataInv
  <1>7. QED BY <1>4, <1>5, <1>6 DEF BackupInv

-----------------------------------------------------------------------------
(* The invariant holds at first, and every step keeps it.                  *)

LEMMA Begun == Init => TypeOK /\ BackupInv
  <1> SUFFICES ASSUME Init PROVE TypeOK /\ BackupInv
    OBVIOUS
  <1> USE DEF Init
  <1>1. Whole("own") \in Archives /\ Whole("past") \in Archives
        /\ Refused \in Archives
        /\ Whole("own")[Db] # Missing
    BY Values DEF Sources, Refused, Whole
  <1>2. \A a \in Actors : op[a] = Idle
    OBVIOUS
  <1>3. \A a \in Actors : Shape(a) /\ AtWork(a)
    BY <1>2 DEF Shape, AtWork, Replacing, Idle, Locked, BootStages
  <1>4. ServerInv /\ DataInv
    <2>1. Keeps /\ shown[Db] # Missing
      BY <1>1, Values DEF Keeps, Has
    <2>2. QED BY <1>1, <1>2, <2>1 DEF ServerInv, DataInv, NothingLost, Idle, Actors
  <1>5. NumberInv
    BY <1>2, BackupAssumption DEF NumberInv, Idle
  <1>6. TypeOK
    <2>1. remote \in [DOMAIN remote -> Archives] /\ DOMAIN remote \subseteq Ids
      BY <1>1, BackupAssumption DEF Ids
    <2>2. op \in [Actors -> Operations] /\ \A a \in Handlers : op[a].pc = "idle"
      BY Values DEF Idle, Actors
    <2>3. lock = NoOne /\ NoOne \notin Handlers
      BY BackupAssumption
    <2>4. shown \in Promises /\ Db \in DOMAIN shown
      BY <1>1, Values DEF Promises, Archives
    <2>5. QED
      BY <1>1, <2>1, <2>2, <2>3, <2>4, Values, BackupAssumption DEF TypeOK, Locked
  <1>7. QED BY <1>3, <1>4, <1>5, <1>6 DEF BackupInv

LEMMA NextBackup ==
    ASSUME TypeOK, BackupInv, Next
    PROVE  BackupInv'
  <1>1. ASSUME NEW a \in Actors, ReplaceStep(a) PROVE BackupInv'
    <2>1. CASE CopyFail(a)
      BY <2>1, OutsideSteps DEF CopyFail, Actors
    <2>2. CASE RollbackFail(a)
      <3>1. CASE a \in Handlers
        BY <2>2, <3>1, OutsideSteps
      <3>2. CASE a \notin Handlers
        <4>1. a = Boot /\ Exit /\ UNCHANGED <<data, points, ops, history>>
          BY <2>2, <3>2, BackupAssumption DEF RollbackFail, GiveUp, Actors
        <4>2. NothingLost'
          BY <4>1 DEF BackupInv, DataInv, NothingLost, Keeps, Has, history
        <4>3. QED BY <4>1, <4>2, Stops
      <3>3. QED BY <3>1, <3>2
    <2>3. QED
      BY <1>1, <2>1, <2>2, KeepPointStep, CopyFileStep, PrepareStep, PrepareFailStep,
         ActivationSteps, RemoveStagingStep, ActivateFailStep DEF ReplaceStep
  <1>2. ASSUME NEW a \in Handlers, Work(a) PROVE BackupInv'
    <2>1. a \in Actors
      BY DEF Actors
    <2>2. QED
      BY <1>1, <1>2, <2>1, OutsideSteps, FinishBackupStep, ClosePoolStep, ReopenStep,
         DiscardStep, ReopenOldStep DEF Work, BackupStep, RestoreStep
  <1>3. ASSUME Crash \/ BootFail PROVE BackupInv'
    <2>1. Exit /\ UNCHANGED <<data, points, ops, history>>
      BY <1>3 DEF Crash, BootFail
    <2>2. NothingLost'
      BY <2>1 DEF BackupInv, DataInv, NothingLost, Keeps, Has, history
    <2>3. QED BY <2>1, <2>2, Stops
  <1>4. Boot \in Actors
    BY DEF Actors
  <1>5. ASSUME BootStep PROVE BackupInv'
    BY <1>1, <1>3, <1>4, <1>5, SkipStep, DownloadLatestStep, BootOpenStep DEF BootStep
  <1>6. QED
    BY <1>2, <1>3, <1>5, OutsideSteps, CommitStep, WriteFileStep, StartStep DEF Next

\* Whoever enters a stage under the lock takes it, and gives it back on leaving.
LockMove(a) ==
    \/ lock' = lock /\ (a \in Handlers => (op'[a].pc \in Locked <=> op[a].pc \in Locked))
    \/ lock = NoOne /\ lock' = a /\ a \in Handlers /\ op'[a].pc \in Locked
    \/ Release(a) /\ op'[a].pc \notin Locked

LEMMA Locking ==
    ASSUME TypeOK, NEW a \in Actors, Others(a), LockMove(a)
    PROVE  /\ lock' \in Handlers \union {NoOne}
           /\ \A b \in Handlers : lock' = b <=> op'[b].pc \in Locked
  <1>1. NoOne \notin Handlers \union {Boot} /\ Boot \notin Handlers
    BY BackupAssumption
  <1>2. \A b \in Handlers : b # a => op'[b] = op[b]
    BY DEF Others, Actors
  <1>3. QED BY <1>1, <1>2 DEF TypeOK, LockMove, Release

\* The end of a request and the end of the process leave nothing untyped.
LEMMA EndTypes ==
    ASSUME TypeOK, data' = data, UNCHANGED <<ops, history>>,
           staging' \in [Actors -> Archives \union {NoArchive}],
           points' \in [Ids -> Archives \union {NoArchive}],
           remote' = remote, held' \subseteq Archives
    PROVE  /\ Exit => TypeOK'
           /\ \A a \in Handlers : Finish(a) /\ Release(a) /\ UNCHANGED <<pool, server>>
                => TypeOK'
  <1>1. ASSUME Exit PROVE TypeOK'
    <2>1. op' \in [Actors -> Operations] /\ \A a \in Handlers : op'[a].pc = "idle"
      BY <1>1, Values DEF Exit, Idle, Actors
    <2>2. NoOne \notin Handlers /\ lock' = NoOne
      BY <1>1, BackupAssumption DEF Exit
    <2>3. QED BY <1>1, <2>1, <2>2 DEF TypeOK, Exit, Locked, history
  <1>2. ASSUME NEW a \in Handlers, Finish(a), Release(a), UNCHANGED <<pool, server>>
        PROVE  TypeOK'
    <2>1. a \in Actors
      BY DEF Actors
    <2>2. op' \in [Actors -> Operations] /\ Others(a) /\ op'[a] = Idle
      BY <1>2, <2>1, Finishes DEF TypeOK
    <2>3. LockMove(a)
      BY <1>2, <2>2 DEF LockMove, Idle, Locked
    <2>4. QED BY <1>2, <2>1, <2>2, <2>3, Locking DEF TypeOK, history
  <1>3. QED BY <1>1, <1>2

\* A step of a request that is outside of the lock, or takes it.
LEMMA OutsideTypes ==
    ASSUME TypeOK, BackupInv, NEW a \in Handlers
    PROVE  /\ restore_backup(a) => TypeOK'
           /\ create_backup(a) => TypeOK'
           /\ perform_backup(a) => TypeOK'
           /\ LockBackup(a) => TypeOK'
           /\ LockRestore(a) => TypeOK'
           /\ CheckpointFail(a) => TypeOK'
           /\ Download(a) => TypeOK'
           /\ upload_file(a) => TypeOK'
           /\ EndBackup(a) => TypeOK'
           /\ cleanup_old_backups(a) => TypeOK'
           /\ \A i \in Ids : DeleteOld(a, i) => TypeOK'
           /\ Disconnect(a) => TypeOK'
  <1> USE DEF process, history, outside
  <1>1. /\ a \in Actors /\ a # Boot /\ op \in [Actors -> Operations] /\ op[a] \in Operations
        /\ held \subseteq Archives /\ data \in Archives /\ Shape(a)
        /\ MaxOps \in Nat /\ ops \in 0..MaxOps
    BY BackupAssumption DEF Actors, TypeOK, BackupInv
  <1>2. ASSUME NEW kind \in {"restore", "download", "scheduled"},
               NEW archive \in Archives \union {NoArchive}, Begin(a, kind, "lock", archive)
        PROVE  TypeOK'
    <2> DEFINE begun == [Idle EXCEPT !.kind = kind, !.pc = "lock", !.id = ops + 1,
                                     !.archive = archive]
    <2>1. op' = [op EXCEPT ![a] = begun] /\ ops' = ops + 1 /\ ops + 1 \in 0..MaxOps
          /\ op[a].pc = "idle"
          /\ UNCHANGED <<data, staging, points, outside, process, lock, history>>
      BY <1>1, <1>2 DEF Begin, At
    <2>2. begun \in Operations /\ begun.pc = "lock"
      BY <2>1, Values DEF Operations, Idle, Kinds, Stages
    <2>3. op' \in [Actors -> Operations] /\ Others(a) /\ op'[a].pc = "lock"
      BY <1>1, <2>1, <2>2 DEF Others
    <2>4. LockMove(a)
      BY <2>1, <2>3 DEF LockMove, Locked
    <2>5. QED BY <1>1, <2>1, <2>3, <2>4, Locking DEF TypeOK
  <1>3. restore_backup(a) \/ create_backup(a) \/ perform_backup(a) => TypeOK'
    BY <1>1, <1>2 DEF restore_backup, create_backup, perform_backup
  <1>4. ASSUME LockBackup(a) \/ LockRestore(a) PROVE TypeOK'
    <2>1. op' \in [Actors -> Operations] /\ Others(a) /\ op'[a].pc = "copy"
      BY <1>1, <1>4, Goes, Values DEF LockBackup, LockRestore, StartCopy, Stages
    <2>2. LockMove(a)
      BY <1>4, <2>1 DEF LockMove, LockBackup, LockRestore, Locked
    <2>3. staging' \in [Actors -> Archives \union {NoArchive}]
      BY <1>4 DEF LockBackup, LockRestore, StartCopy
    <2>4. UNCHANGED <<data, points, outside, process, ops, goal>>
          /\ shown' \in {shown, data}
      BY <1>4 DEF LockBackup, LockRestore
    <2>5. data \in Promises /\ Db \in DOMAIN data
      BY <1>1, Values DEF Archives, Promises
    <2>6. QED BY <1>1, <2>1, <2>2, <2>3, <2>4, <2>5, Locking DEF TypeOK
  <1>5. ASSUME Finish(a), op[a].pc \notin Locked,
               UNCHANGED <<data, staging, points, remote, process, lock, ops, history>>,
               held' \subseteq Archives
        PROVE  TypeOK'
    <2>1. op' \in [Actors -> Operations] /\ Others(a) /\ op'[a] = Idle
      BY <1>1, <1>5, Finishes
    <2>2. LockMove(a)
      BY <1>5, <2>1 DEF LockMove, Idle, Locked
    <2>3. QED BY <1>1, <1>5, <2>1, <2>2, Locking DEF TypeOK
  <1>6. CheckpointFail(a) \/ EndBackup(a) => TypeOK'
    BY <1>1, <1>5 DEF CheckpointFail, EndBackup, At, Locked
  <1>7. Download(a) => TypeOK'
    <2>1. op[a].copy \in Archives
      BY <1>1 DEF Operations
    <2>2. QED BY <1>1, <1>5, <2>1 DEF Download, At, Locked
  <1>8. ASSUME upload_file(a) PROVE TypeOK'
    <2>1. op' \in [Actors -> Operations] /\ Others(a) /\ op'[a].pc = "list"
          /\ op[a].pc = "send"
      BY <1>1, <1>8, Goes DEF upload_file, Stages, At
    <2>2. LockMove(a)
      BY <1>8, <2>1 DEF LockMove, upload_file, Locked
    <2>3. op[a].copy \in Archives /\ op[a].id \in Ids
      BY <1>1, <2>1 DEF Operations, Ids, Shape
    <2>4. remote' = [i \in DOMAIN remote \union {op[a].id} |->
                        IF i = op[a].id THEN op[a].copy ELSE remote[i]]
      BY <1>8 DEF upload_file
    <2>5. DOMAIN remote' \subseteq Ids /\ remote' \in [DOMAIN remote' -> Archives]
      BY <2>3, <2>4 DEF TypeOK
    <2>6. UNCHANGED <<data, staging, points, held, process, lock, ops, history>>
      BY <1>8 DEF upload_file
    <2>7. QED BY <1>1, <2>1, <2>2, <2>5, <2>6, Locking DEF TypeOK
  <1>9. ASSUME cleanup_old_backups(a) PROVE TypeOK'
    <2>1. Surplus(DOMAIN remote) \subseteq Ids
      BY DEF Surplus, TypeOK
    <2>2. op' \in [Actors -> Operations] /\ Others(a) /\ op'[a].pc = "prune"
          /\ op[a].pc = "list"
      BY <1>1, <1>9, <2>1, Goes DEF cleanup_old_backups, Stages, At
    <2>3. LockMove(a)
      BY <1>9, <2>2 DEF LockMove, cleanup_old_backups, Locked
    <2>4. QED BY <1>1, <1>9, <2>2, <2>3, Locking DEF TypeOK, cleanup_old_backups
  <1>10. ASSUME NEW i \in Ids, DeleteOld(a, i) PROVE TypeOK'
    <2>1. op' \in [Actors -> Operations] /\ Others(a) /\ op'[a].pc = op[a].pc
      <3>1. op' = [op EXCEPT ![a].todo = op[a].todo \ {i}]
        BY <1>1, <1>10 DEF DeleteOld
      <3>2. QED BY <1>1, <3>1 DEF Operations, Others
    <2>2. LockMove(a)
      BY <1>10, <2>1 DEF LockMove, DeleteOld
    <2>3. DOMAIN remote' \subseteq Ids /\ remote' \in [DOMAIN remote' -> Archives]
      BY <1>10 DEF DeleteOld, Restrict, TypeOK
    <2>4. QED BY <1>1, <1>10, <2>1, <2>2, <2>3, Locking DEF TypeOK, DeleteOld
  <1>11. Disconnect(a) => TypeOK'
    BY EndTypes DEF Disconnect, TypeOK
  <1>12. QED
    BY <1>3, <1>4, <1>6, <1>7, <1>8, <1>9, <1>10, <1>11

\* A step under the lock that goes on to a stage under the lock.
LEMMA WorkTypes ==
    ASSUME TypeOK, BackupInv, NEW a \in Actors, op[a].pc \in Locked,
           Others(a), op' \in [Actors -> Operations], op'[a].pc \in Locked,
           data' \in Archives, staging' \in [Actors -> Archives \union {NoArchive}],
           points' \in [Ids -> Archives \union {NoArchive}],
           pool' \in {pool, "open", "closed"}, shown' \in Promises, Db \in DOMAIN shown',
           goal' \in Archives \union {NoArchive},
           UNCHANGED <<remote, held, server, lock, ops>>
    PROVE  TypeOK'
  <1>1. LockMove(a)
    BY DEF LockMove
  <1>2. QED BY <1>1, Locking DEF TypeOK

LEMMA ReplaceTypes ==
    ASSUME TypeOK, BackupInv, NEW a \in Actors, ReplaceStep(a)
    PROVE  TypeOK'
  <1> USE DEF process, history, outside
  <1>1. /\ op \in [Actors -> Operations] /\ op[a] \in Operations /\ data \in Archives
        /\ staging \in [Actors -> Archives \union {NoArchive}]
        /\ points \in [Ids -> Archives \union {NoArchive}]
        /\ held \subseteq Archives /\ shown \in Promises /\ Db \in DOMAIN shown
        /\ goal \in Archives \union {NoArchive}
        /\ Shape(a) /\ AtWork(a) /\ DataInv
        /\ (a # Boot => a \in Handlers)
    BY DEF TypeOK, BackupInv, Actors
  <1>2. CASE CopyFail(a) \/ RollbackFail(a) \/ PrepareFail(a)
    <2>1. points' \in [Ids -> Archives \union {NoArchive}]
          /\ staging' \in [Actors -> Archives \union {NoArchive}]
          /\ UNCHANGED <<data, remote, held, ops, history>>
      BY <1>1, <1>2 DEF CopyFail, RollbackFail, PrepareFail
    <2>2. \/ Exit
          \/ a \in Handlers /\ Finish(a) /\ Release(a) /\ UNCHANGED <<pool, server>>
      BY <1>1, <1>2 DEF CopyFail, RollbackFail, PrepareFail, GiveUp
    <2>3. QED BY <1>1, <2>1, <2>2, EndTypes
  <1>3. CASE KeepPoint(a)
    <2>1. op' \in [Actors -> Operations] /\ Others(a) /\ op'[a].pc = "prepare"
          /\ op[a].pc = "copy"
      BY <1>1, <1>3, Goes DEF KeepPoint, Stages, At
    <2>2. points' \in [Ids -> Archives \union {NoArchive}]
      <3>1. op[a].copy \in Archives /\ points' = [points EXCEPT ![op[a].id] = op[a].copy]
        BY <1>1, <1>3 DEF KeepPoint, Operations
      <3>2. QED BY <1>1, <3>1
    <2>3. QED BY <1>1, <1>3, <2>1, <2>2, WorkTypes DEF KeepPoint, Locked
  <1>4. ASSUME NEW f \in Files, CopyFile(a, f) PROVE TypeOK'
    <2>1. data[f] \in Contents \union {Missing} /\ File("mixed") \in Contents
      BY <1>1, Values DEF Archives, Sources
    <2>2. PICK content \in Contents \union {Missing} :
              op' = [op EXCEPT ![a].copy[f] = content, ![a].todo = @ \ {f}]
      BY <1>4, <2>1 DEF CopyFile
    <2>3. [op[a].copy EXCEPT ![f] = content] \in Archives
      BY <1>1, <2>2 DEF Operations, Archives
    <2>4. op' \in [Actors -> Operations] /\ Others(a) /\ op'[a].pc = op[a].pc
      BY <1>1, <2>2, <2>3 DEF Operations, Others
    <2>5. QED BY <1>1, <1>4, <2>4, WorkTypes DEF CopyFile, Locked, At
  <1>5. CASE prepare_backup_file(a)
    <2>1. Source(a) \in Archives
      BY <1>1, <1>5
      DEF prepare_backup_file, At, Source, AtWork, Replacing, Shape, Locked
    <2>2. Present(data) \in SUBSET (Files \union Ids)
      BY <1>1, Values
    <2>3. op' \in [Actors -> Operations] /\ Others(a) /\ op'[a].pc \in Locked
      BY <1>1, <1>5, <2>2, Goes DEF prepare_backup_file, Stages, Locked
    <2>4. op[a].pc \in Locked /\ goal' \in Archives \union {NoArchive}
          /\ staging' \in [Actors -> Archives \union {NoArchive}]
      BY <1>1, <1>5, <2>1 DEF prepare_backup_file, At, Locked, Source
    <2>5. QED BY <1>1, <1>5, <2>3, <2>4, WorkTypes DEF prepare_backup_file
  <1>6. CASE ListStaged(a)
    <2>1. op[a].pc = "clear" /\ staging[a] \in Archives
      BY <1>1, <1>6 DEF ListStaged, At, AtWork
    <2>2. Present(staging[a]) \in SUBSET (Files \union Ids)
      BY <2>1, Values
    <2>3. op' \in [Actors -> Operations] /\ Others(a) /\ op'[a].pc = "rename"
      BY <1>1, <1>6, <2>2, Goes DEF ListStaged, Stages
    <2>4. QED BY <1>1, <1>6, <2>1, <2>3, WorkTypes DEF ListStaged, Locked
  <1>7. CASE RemoveStaging(a)
    <2>1. op' \in [Actors -> Operations] /\ Others(a) /\ op'[a].pc = "open"
          /\ op[a].pc = "rename"
      BY <1>1, <1>7, Goes DEF RemoveStaging, Stages, At
    <2>2. shown' \in Promises /\ Db \in DOMAIN shown'
      <3>1. a = Boot /\ ~op[a].undo => goal \in Archives
        BY <1>1, <2>1 DEF AtWork, Replacing, Shape
      <3>2. QED BY <1>1, <1>7, <3>1, RestoredPromise DEF RemoveStaging
    <2>3. staging' \in [Actors -> Archives \union {NoArchive}]
          /\ points' \in [Ids -> Archives \union {NoArchive}]
      BY <1>1, <1>7 DEF RemoveStaging
    <2>4. QED BY <1>1, <1>7, <2>1, <2>2, <2>3, WorkTypes DEF RemoveStaging, Locked
  <1>8. CASE ActivateFail(a)
    <2>1. CASE a = Boot /\ op[a].id = 0
      BY <1>1, <1>8, <2>1, EndTypes DEF ActivateFail
    <2>2. CASE ~(a = Boot /\ op[a].id = 0)
      <3>1. op' = [op EXCEPT ![a].undo = TRUE, ![a].pc = "prepare", ![a].todo = {}]
            /\ UNCHANGED <<pool, server, lock>> /\ op[a].pc \in Locked
        BY <1>8, <2>2 DEF ActivateFail, Locked
      <3>2. op' \in [Actors -> Operations] /\ Others(a) /\ op'[a].pc = "prepare"
        BY <1>1, <3>1 DEF Operations, Others, Stages
      <3>3. QED BY <1>1, <1>8, <3>1, <3>2, WorkTypes DEF ActivateFail, Locked
    <2>3. QED BY <2>1, <2>2
  <1>9. ASSUME NEW f \in Files, ClearFile(a, f) \/ RenameFile(a, f) PROVE TypeOK'
    <2>1. op' = [op EXCEPT ![a].todo = op[a].todo \ {f}] /\ op[a].pc \in {"clear", "rename"}
          /\ UNCHANGED <<points, remote, held, process, lock, ops, history>>
      BY <1>1, <1>9 DEF ClearFile, RenameFile, At
    <2>2. op' \in [Actors -> Operations] /\ Others(a) /\ op'[a].pc = op[a].pc
      BY <1>1, <2>1 DEF Operations, Others
    <2>3. staging[a] \in Archives
      BY <1>1, <2>1 DEF AtWork
    <2>4. data' \in Archives
      BY <1>1, <1>9, <2>3 DEF ClearFile, RenameFile, Archives
    <2>5. staging' \in [Actors -> Archives \union {NoArchive}]
      <3>1. [staging[a] EXCEPT ![f] = Missing] \in Archives
        BY <2>3 DEF Archives
      <3>2. staging' \in {staging, [staging EXCEPT ![a][f] = Missing]}
        BY <1>9 DEF ClearFile, RenameFile
      <3>3. QED BY <1>1, <3>1, <3>2
    <2>6. QED BY <1>1, <2>1, <2>2, <2>4, <2>5, WorkTypes DEF Locked
  <1>10. QED BY <1>2, <1>3, <1>4, <1>5, <1>6, <1>7, <1>8, <1>9 DEF ReplaceStep

LEMMA RestoreTypes ==
    ASSUME TypeOK, BackupInv, NEW a \in Handlers
    PROVE  /\ FinishBackup(a) => TypeOK'
           /\ ClosePool(a) => TypeOK'
           /\ Reopen(a) => TypeOK'
           /\ DiscardPoint(a) => TypeOK'
           /\ ReopenOld(a) => TypeOK'
  <1> USE DEF process, history, outside
  <1>1. /\ op \in [Actors -> Operations] /\ op[a] \in Operations /\ data \in Archives
        /\ points \in [Ids -> Archives \union {NoArchive}]
        /\ shown \in Promises /\ Db \in DOMAIN shown
        /\ staging \in [Actors -> Archives \union {NoArchive}]
        /\ goal \in Archives \union {NoArchive}
        /\ a # Boot /\ a \in Actors /\ Shape(a) /\ AtWork(a)
    BY BackupAssumption DEF TypeOK, BackupInv, Actors
  <1>2. op[a].pc = "open" => init_db(data) = data
    BY <1>1 DEF AtWork, init_db
  <1>3. ASSUME FinishBackup(a) PROVE TypeOK'
    <2>1. op' \in [Actors -> Operations] /\ Others(a) /\ op'[a].pc = "send"
      BY <1>1, <1>3, Goes DEF FinishBackup, Stages
    <2>2. LockMove(a)
      BY <1>3, <2>1 DEF LockMove, FinishBackup, Locked
    <2>3. QED BY <1>1, <1>3, <2>1, <2>2, Locking DEF TypeOK, FinishBackup
  <1>4. ASSUME ClosePool(a) PROVE TypeOK'
    <2>1. Present(data) \in SUBSET (Files \union Ids)
      BY <1>1, Values
    <2>2. op' \in [Actors -> Operations] /\ Others(a) /\ op'[a].pc = "clear"
          /\ op[a].pc = "close"
      BY <1>1, <1>4, <2>1, Goes DEF ClosePool, Stages, At
    <2>3. op[a].archive \in Archives
      BY <1>1, <2>2 DEF Shape, Locked
    <2>4. QED BY <1>1, <1>4, <2>2, <2>3, WorkTypes DEF ClosePool, Locked
  <1>5. ASSUME Reopen(a) PROVE TypeOK'
    <2>1. op' \in [Actors -> Operations] /\ Others(a) /\ op'[a].pc = "discard"
          /\ op[a].pc = "open"
      BY <1>1, <1>5, Goes DEF Reopen, Stages, At
    <2>2. goal \in Archives
      BY <1>1, <1>5, <2>1 DEF Reopen, AtWork, Replacing, Shape, Locked
    <2>3. data' = data /\ shown' \in Promises /\ Db \in DOMAIN shown'
      BY <1>1, <1>2, <1>5, <2>1, <2>2, RestoredPromise DEF Reopen
    <2>4. QED BY <1>1, <1>5, <2>1, <2>3, WorkTypes DEF Reopen, Locked
  <1>6. ASSUME DiscardPoint(a) PROVE TypeOK'
    <2>1. points' \in [Ids -> Archives \union {NoArchive}]
      BY <1>1, <1>6 DEF DiscardPoint
    <2>2. QED BY <1>1, <1>6, <2>1, EndTypes DEF DiscardPoint, TypeOK
  <1>7. ASSUME ReopenOld(a) PROVE TypeOK'
    <2>1. data' = data /\ pool' = "open" /\ Finish(a) /\ Release(a)
          /\ UNCHANGED <<staging, points, remote, held, server, ops, history>>
      BY <1>2, <1>7 DEF ReopenOld, At
    <2>2. op' \in [Actors -> Operations] /\ Others(a) /\ op'[a] = Idle
      BY <1>1, <2>1, Finishes
    <2>3. LockMove(a)
      BY <2>1, <2>2 DEF LockMove, Idle, Locked
    <2>4. QED BY <1>1, <2>1, <2>2, <2>3, Locking DEF TypeOK
  <1>8. QED BY <1>3, <1>4, <1>5, <1>6, <1>7

LEMMA NextTypes ==
    ASSUME TypeOK, BackupInv, Next
    PROVE  TypeOK'
  <1> USE DEF process, history, outside
  <1>1. /\ op \in [Actors -> Operations] /\ data \in Archives /\ Boot \in Actors
        /\ staging \in [Actors -> Archives \union {NoArchive}]
        /\ Boot \notin Handlers /\ op[Boot] \in Operations
        /\ MaxOps \in Nat /\ ops \in 0..MaxOps
    BY BackupAssumption DEF TypeOK, Actors
  <1>2. ASSUME Commit PROVE TypeOK'
    <2>1. data[Db] \in Contents /\ data[Db].rev < MaxRev
      BY <1>1, <1>2, Values DEF Commit, BackupInv, DataInv, Archives
    <2>2. [data[Db] EXCEPT !.rev = @ + 1] \in Contents
      BY <2>1, BackupAssumption DEF Contents
    <2>3. data' \in Archives
      BY <1>1, <1>2, <2>2, Values DEF Commit, Archives
    <2>4. shown' \in Promises /\ Db \in DOMAIN shown'
      BY <1>2, <2>2, <2>3, Promising, Values DEF Commit, Promises, Archives, TypeOK
    <2>5. QED BY <1>2, <2>3, <2>4 DEF Commit, TypeOK
  <1>3. ASSUME Crash \/ BootFail PROVE TypeOK'
    <2>1. Exit /\ UNCHANGED <<data, staging, points, outside, ops, history>>
      BY <1>3, BackupAssumption DEF Crash, BootFail, TypeOK
    <2>2. QED BY <2>1, EndTypes DEF TypeOK
  <1>4. ASSUME NEW fresh \in Operations, op' = [op EXCEPT ![Boot] = fresh], ops' \in 0..MaxOps,
               data' \in Archives, staging' \in [Actors -> Archives \union {NoArchive}],
               server' \in {"serving", "booting"}, pool' \in {pool, "open"},
               shown' \in Promises, Db \in DOMAIN shown', UNCHANGED <<points, outside, lock, goal>>
        PROVE  TypeOK'
    <2>1. op' \in [Actors -> Operations] /\ Others(Boot)
      BY <1>1, <1>4 DEF Others
    <2>2. LockMove(Boot)
      BY <1>1, <1>4 DEF LockMove
    <2>3. QED BY <1>1, <1>4, <2>1, <2>2, Locking DEF TypeOK
  <1>5. ASSUME Start PROVE TypeOK'
    <2>1. [Idle EXCEPT !.kind = "boot", !.pc = "fetch"] \in Operations
      BY Values DEF Operations, Kinds, Stages
    <2>2. QED BY <1>1, <1>4, <1>5, <2>1 DEF Start, TypeOK
  <1>6. ASSUME SkipRestore \/ download_latest_backup PROVE TypeOK'
    <2>1. op[Boot].pc = "fetch" /\ server = "booting"
      BY <1>1, <1>6 DEF SkipRestore, download_latest_backup, At, BackupInv, ServerInv
    <2>2. CASE SkipRestore
      <3>1. [op[Boot] EXCEPT !.pc = "open", !.todo = {}] \in Operations
        BY <1>1 DEF Operations, Stages
      <3>2. op' = [op EXCEPT ![Boot] = [op[Boot] EXCEPT !.pc = "open", !.todo = {}]]
        BY <1>1, <2>2 DEF SkipRestore, To, Operations
      <3>3. QED BY <1>1, <1>4, <2>1, <2>2, <3>1, <3>2 DEF SkipRestore, TypeOK
    <2>3. CASE download_latest_backup
      <3>1. PICK latest \in DOMAIN remote :
              IF data[Db] # Missing
              THEN /\ ops < MaxOps /\ ops' = ops + 1
                   /\ op' = [op EXCEPT ![Boot].pc = "copy",
                                       ![Boot].archive = remote[latest],
                                       ![Boot].id = ops', ![Boot].todo = Present(data)]
                   /\ staging' = [b \in Actors |-> NoArchive]
              ELSE op' = [op EXCEPT ![Boot].pc = "prepare",
                                    ![Boot].archive = remote[latest]]
                   /\ UNCHANGED <<staging, ops>>
        BY <2>3 DEF download_latest_backup
      <3>2. remote[latest] \in Archives /\ Present(data) \in SUBSET (Files \union Ids)
        BY <1>1, Values DEF TypeOK
      <3>3. PICK fresh \in Operations : op' = [op EXCEPT ![Boot] = fresh]
        <4>1. CASE data[Db] # Missing
          <5> DEFINE fresh == [op[Boot] EXCEPT !.pc = "copy", !.archive = remote[latest],
                                               !.id = ops + 1, !.todo = Present(data)]
          <5>1. ops' = ops + 1 /\ ops' \in 0..MaxOps
            BY <1>1, <3>1, <4>1
          <5>2. fresh \in Operations
            BY <1>1, <3>2, <5>1 DEF Operations, Stages
          <5>3. op' = [op EXCEPT ![Boot] = fresh]
            BY <1>1, <3>1, <4>1, <5>1 DEF Operations
          <5>4. QED BY <5>2, <5>3
        <4>2. CASE data[Db] = Missing
          <5> DEFINE fresh == [op[Boot] EXCEPT !.pc = "prepare",
                                               !.archive = remote[latest]]
          <5>1. fresh \in Operations
            BY <1>1, <3>2 DEF Operations, Stages
          <5>2. op' = [op EXCEPT ![Boot] = fresh]
            BY <1>1, <3>1, <4>2 DEF Operations
          <5>3. QED BY <5>1, <5>2
        <4>3. QED BY <4>1, <4>2
      <3>4. ops' \in 0..MaxOps /\ staging' \in [Actors -> Archives \union {NoArchive}]
        BY <1>1, <3>1
      <3>5. UNCHANGED <<data, points, outside, process, lock, goal>>
            /\ shown' \in {shown, data}
        BY <2>3 DEF download_latest_backup
      <3>6. data \in Promises /\ Db \in DOMAIN data
        BY <1>1, Values DEF Archives, Promises
      <3>7. QED BY <1>1, <1>4, <2>1, <3>3, <3>4, <3>5, <3>6 DEF TypeOK
    <2>4. QED BY <1>6, <2>2, <2>3
  <1>7. ASSUME BootOpen PROVE TypeOK'
    <2>1. init_db(data) \in Archives
      BY <1>1, Values DEF init_db, Archives, Sources
    <2>2. shown' \in Promises /\ Db \in DOMAIN shown'
      BY <1>7, RestoredPromise DEF BootOpen, TypeOK
    <2>3. QED BY <1>1, <1>4, <1>7, <2>1, <2>2, Values DEF BootOpen, Finish, TypeOK
  <1>8. ASSUME NEW a \in Handlers, Work(a) PROVE TypeOK'
    BY <1>8, OutsideTypes, ReplaceTypes, RestoreTypes
    DEF Work, BackupStep, RestoreStep, Actors
  <1>9. QED
    BY <1>1, <1>2, <1>3, <1>5, <1>6, <1>7, <1>8, WriteTypes, OutsideTypes, ReplaceTypes
    DEF Next, BootStep

\* The stages of every operation, the restore points and the staged files fit
\* together at all times, whatever fails, stops or goes away.
THEOREM RestoreKept == Spec => [](TypeOK /\ BackupInv)
  <1>1. TypeOK /\ BackupInv /\ [Next]_vars => (TypeOK /\ BackupInv)'
    <2> SUFFICES ASSUME TypeOK, BackupInv, [Next]_vars PROVE (TypeOK /\ BackupInv)'
      OBVIOUS
    <2>1. CASE Next
      BY <2>1, NextTypes, NextBackup
    <2>2. CASE UNCHANGED vars
      <3>1. TypeOK'
        BY <2>2 DEF vars, TypeOK
      <3>2. BackupInv'
        BY <2>2 DEF vars, BackupInv, Shape, AtWork, Replacing, Restorer, Source, Promised,
                    ServerInv, NumberInv, DataInv, NothingLost, Keeps, Has
      <3>3. QED BY <3>1, <3>2
    <2>3. QED BY <2>1, <2>2
  <1>2. QED BY <1>1, Begun, PTL DEF Spec

\* Every variable holds a value of its type, and the operation that holds
\* BACKUP_OPERATION_LOCK is at a stage of those that run under it.
THEOREM RestoreTyped == Spec => []TypeOK
  BY RestoreKept, PTL

\* No data is lost but what others wrote while a restore was under way: all else
\* that the server last promised to keep is in the data directory, or complete in a
\* restore point beside it (restore_backup and restore_latest_backup with their
\* rollbacks, under crashes at any file, while scripts are saved and commands write).
THEOREM DataSurvives == Spec => []NothingLost
  <1>1. TypeOK /\ BackupInv => NothingLost
    BY DEF BackupInv, DataInv
  <1>2. QED BY <1>1, RestoreKept, PTL

\* While files are being replaced the pool is closed, one operation replaces
\* them, and its staging directory is there: cleanup_restore_staging, which
\* removes those of all, never runs beside an activation.
THEOREM AloneAtTheFiles == Spec => []ReplacedInPrivate
  <1>1. TypeOK /\ BackupInv => ReplacedInPrivate
    <2> SUFFICES ASSUME TypeOK, BackupInv, NEW a \in Actors, Replacing(a)
                 PROVE  /\ pool # "open"
                        /\ \A b \in Actors : Replacing(b) => b = a
                        /\ op[a].pc \in {"clear", "rename"} => staging[a] # NoArchive
      BY DEF ReplacedInPrivate
    <2>1. \A b \in Actors : Replacing(b) => op[b].pc \notin Outer
      BY DEF BackupInv, Replacing, Outer, Shape
    <2>2. \A b \in Actors : Replacing(b) => b = a
      BY <2>1, Alone
    <2>3. AtWork(a) /\ (a = Boot => pool = "down")
      BY <2>1, Inside DEF BackupInv
    <2>4. QED BY <2>2, <2>3, Values DEF AtWork
  <1>2. QED BY <1>1, RestoreKept, PTL

-----------------------------------------------------------------------------
(* The retention of remote backups.                                        *)

Newer(listed, i) == {j \in listed : j > i}

\* More backups listed, or counted from an older one: never fewer newer ones.
LEMMA NewerGrows ==
    ASSUME NEW listed \in SUBSET Ids, NEW larger \in SUBSET Ids, NEW i \in Ids, NEW k \in Ids,
           Newer(listed, i) \subseteq Newer(larger, k)
    PROVE  Cardinality(Newer(listed, i)) <= Cardinality(Newer(larger, k))
  <1>1. IsFiniteSet(Ids)
    BY FS_Interval, BackupAssumption DEF Ids
  <1>2. IsFiniteSet(Newer(larger, k))
    BY <1>1, FS_Subset DEF Newer
  <1>3. QED BY <1>2, FS_Subset

LEMMA NewerCounted ==
    ASSUME NEW listed \in SUBSET Ids, NEW i \in Ids
    PROVE  Cardinality(Newer(listed, i)) \in Nat
  <1>1. IsFiniteSet(Ids)
    BY FS_Interval, BackupAssumption DEF Ids
  <1>2. IsFiniteSet(Newer(listed, i))
    BY <1>1, FS_Subset DEF Newer
  <1>3. QED BY <1>2, FS_CardinalityType

\* All steps but three leave the remote backups alone, and nobody begins to
\* delete any.
Elsewhere ==
    /\ remote' = remote
    /\ \A b \in Actors : op'[b].pc = "prune" =>
          op[b].pc = "prune" /\ op'[b].todo = op[b].todo

LEMMA Remote ==
    ASSUME TypeOK, BackupInv, Next
    PROVE  \/ Elsewhere
           \/ \E a \in Handlers : upload_file(a) \/ cleanup_old_backups(a)
                                  \/ \E i \in Ids : DeleteOld(a, i)
  <1> USE DEF process, history, outside
  <1>1. op \in [Actors -> Operations] /\ data \in Archives /\ Boot \in Actors
        /\ \A a \in Handlers : a \in Actors
    BY DEF TypeOK, Actors
  <1>2. ASSUME NEW a \in Actors, NEW fresh, op' = [op EXCEPT ![a] = fresh],
               fresh.pc # "prune", remote' = remote
        PROVE  Elsewhere
    BY <1>1, <1>2 DEF Elsewhere
  <1>3. ASSUME NEW a \in Actors, NEW pc \in Stages \ {"prune"},
               NEW todo \in SUBSET (Files \union Ids), To(a, pc, todo), remote' = remote
        PROVE  Elsewhere
    <2>1. Others(a) /\ op'[a].pc = pc
      BY <1>1, <1>3, Goes
    <2>2. QED BY <1>3, <2>1 DEF Elsewhere, Others
  <1>4. ASSUME NEW a \in Actors, Finish(a), remote' = remote PROVE Elsewhere
    <2>1. Others(a) /\ op'[a].pc = "idle"
      BY <1>1, <1>4, Finishes DEF Idle
    <2>2. QED BY <1>4, <2>1 DEF Elsewhere, Others
  <1>5. ASSUME Exit, remote' = remote PROVE Elsewhere
    BY <1>5 DEF Exit, Idle, Elsewhere
  <1>6. Present(data) \in SUBSET (Files \union Ids)
    BY <1>1, Values
  <1>7. ASSUME Commit \/ \E f \in Files : WriteFile(f) PROVE Elsewhere
    BY <1>7 DEF Commit, WriteFile, Elsewhere
  <1>8. ASSUME Crash \/ BootFail PROVE Elsewhere
    BY <1>5, <1>8 DEF Crash, BootFail
  <1>9. ASSUME Start \/ SkipRestore \/ BootOpen PROVE Elsewhere
    <2>1. CASE Start
      <3>1. [Idle EXCEPT !.kind = "boot", !.pc = "fetch"].pc # "prune"
        BY DEF Idle
      <3>2. QED BY <1>1, <1>2, <2>1, <3>1 DEF Start
    <2>2. QED BY <1>1, <1>3, <1>4, <1>9, <2>1 DEF SkipRestore, BootOpen, Stages
  <1>10. ASSUME download_latest_backup PROVE Elsewhere
    <2>1. remote' = remote /\ \E latest \in DOMAIN remote :
            \/ op' = [op EXCEPT ![Boot].pc = "copy", ![Boot].archive = remote[latest],
                                ![Boot].id = ops', ![Boot].todo = Present(data)]
            \/ op' = [op EXCEPT ![Boot].pc = "prepare", ![Boot].archive = remote[latest]]
      BY <1>10 DEF download_latest_backup
    <2>2. op'[Boot].pc # "prune" /\ Others(Boot)
      BY <1>1, <2>1 DEF Operations, Others
    <2>3. QED BY <2>1, <2>2 DEF Elsewhere, Others
  <1>11. ASSUME NEW a \in Actors, ReplaceStep(a) PROVE Elsewhere
    <2>1. CASE CopyFail(a) \/ RollbackFail(a) \/ PrepareFail(a)
      BY <1>4, <1>5, <2>1 DEF CopyFail, RollbackFail, PrepareFail, GiveUp
    <2>2. CASE KeepPoint(a) \/ RemoveStaging(a)
      BY <1>3, <2>2 DEF KeepPoint, RemoveStaging, Stages
    <2>3. CASE ListStaged(a)
      <3>1. staging[a] \in Archives
        BY <2>3 DEF ListStaged, TypeOK
      <3>2. Present(staging[a]) \in SUBSET (Files \union Ids)
        BY <3>1, Values
      <3>3. QED BY <1>3, <2>3, <3>2 DEF ListStaged, Stages
    <2>4. CASE prepare_backup_file(a)
      <3>1. To(a, "close", {}) \/ To(a, "clear", Present(data))
        BY <2>4 DEF prepare_backup_file
      <3>2. QED BY <1>3, <1>6, <2>4, <3>1 DEF prepare_backup_file, Stages
    <2>5. CASE ActivateFail(a)
      <3>1. remote' = remote /\ (Exit \/
              op' = [op EXCEPT ![a].undo = TRUE, ![a].pc = "prepare", ![a].todo = {}])
        BY <2>5 DEF ActivateFail
      <3>2. ASSUME op' = [op EXCEPT ![a].undo = TRUE, ![a].pc = "prepare", ![a].todo = {}]
            PROVE  Others(a) /\ op'[a].pc = "prepare"
        BY <1>1, <3>2 DEF Operations, Others
      <3>3. QED BY <1>5, <3>1, <3>2 DEF Elsewhere, Others
    <2>6. ASSUME NEW f \in Files, CopyFile(a, f) PROVE Elsewhere
      <3>1. PICK content : op' = [op EXCEPT ![a].copy[f] = content, ![a].todo = @ \ {f}]
        BY <2>6 DEF CopyFile
      <3>2. op[a].pc = "copy" /\ remote' = remote
        BY <2>6 DEF CopyFile, At
      <3>3. Others(a) /\ op'[a].pc = "copy"
        BY <1>1, <3>1, <3>2 DEF Operations, Others
      <3>4. QED BY <3>2, <3>3 DEF Elsewhere, Others
    <2>7. ASSUME NEW f \in Files, ClearFile(a, f) \/ RenameFile(a, f) PROVE Elsewhere
      <3>1. op' = [op EXCEPT ![a].todo = op[a].todo \ {f}] /\ remote' = remote
            /\ op[a].pc \in {"clear", "rename"}
        BY <1>1, <2>7 DEF ClearFile, RenameFile, At
      <3>2. Others(a) /\ op'[a].pc # "prune"
        BY <1>1, <3>1 DEF Operations, Others
      <3>3. QED BY <3>1, <3>2 DEF Elsewhere, Others
    <2>8. QED BY <1>11, <2>1, <2>2, <2>3, <2>4, <2>5, <2>6, <2>7 DEF ReplaceStep
  <1>12. ASSUME NEW a \in Handlers,
                restore_backup(a) \/ create_backup(a) \/ perform_backup(a)
         PROVE  Elsewhere
    <2>1. PICK kind, archive : Begin(a, kind, "lock", archive)
      BY <1>12 DEF restore_backup, create_backup, perform_backup
    <2>2. op' = [op EXCEPT ![a] = [Idle EXCEPT !.kind = kind, !.pc = "lock", !.id = ops',
                                               !.archive = archive]]
          /\ remote' = remote
      BY <2>1 DEF Begin
    <2>3. [Idle EXCEPT !.kind = kind, !.pc = "lock", !.id = ops', !.archive = archive].pc
              = "lock"
      BY DEF Idle
    <2>4. QED BY <1>1, <1>2, <2>2, <2>3
  <1>13. ASSUME NEW a \in Handlers, FinishBackup(a) \/ Download(a) \/ EndBackup(a)
                \/ LockBackup(a) \/ RestoreStep(a) \/ Disconnect(a)
         PROVE  Elsewhere
    <2>1. CASE FinishBackup(a) \/ LockBackup(a) \/ LockRestore(a) \/ ClosePool(a) \/ Reopen(a)
      BY <1>1, <1>3, <1>6, <2>1
      DEF FinishBackup, LockBackup, LockRestore, StartCopy, ClosePool, Reopen, Stages
    <2>2. CASE Download(a) \/ EndBackup(a) \/ CheckpointFail(a) \/ DiscardPoint(a)
               \/ ReopenOld(a) \/ Disconnect(a)
      BY <1>1, <1>4, <2>2
      DEF Download, EndBackup, CheckpointFail, DiscardPoint, ReopenOld, Disconnect
    <2>3. QED BY <1>13, <2>1, <2>2 DEF RestoreStep
  <1>14. QED
    BY <1>1, <1>7, <1>8, <1>9, <1>10, <1>11, <1>12, <1>13
    DEF Next, BootStep, Work, BackupStep

\* Deleting one old backup leaves all those newer than it.
LEMMA PruneKept ==
    ASSUME TypeOK, BackupInv, PruneInv, Next
    PROVE  /\ PruneInv'
           /\ \A i \in DOMAIN remote \ DOMAIN remote' :
                 Cardinality({j \in DOMAIN remote' : j > i}) >= max_backups
  <1>1. /\ op \in [Actors -> Operations] /\ DOMAIN remote \in SUBSET Ids
        /\ \A a \in Handlers : a \in Actors
        /\ Ids \subseteq Nat /\ max_backups \in Nat
    BY BackupAssumption DEF TypeOK, Actors, Ids
  <1>2. CASE Elsewhere
    BY <1>2 DEF Elsewhere, PruneInv
  <1>3. ASSUME NEW a \in Handlers, upload_file(a)
        PROVE  PruneInv' /\ DOMAIN remote \ DOMAIN remote' = {}
    <2>1. Others(a) /\ op'[a].pc = "list"
      BY <1>1, <1>3, Goes DEF upload_file, Stages
    <2>2. op[a].id \in Ids
      BY <1>1, <1>3 DEF upload_file, At, BackupInv, Shape, Operations, Ids
    <2>3. DOMAIN remote' = DOMAIN remote \union {op[a].id}
      BY <1>3 DEF upload_file
    <2>4. ASSUME NEW b \in Actors, op'[b].pc = "prune", NEW i \in op'[b].todo \intersect Ids
          PROVE  Cardinality(Newer(DOMAIN remote', i)) >= max_backups
      <3>1. op'[b] = op[b]
        BY <2>1, <2>4 DEF Others
      <3>2. Cardinality(Newer(DOMAIN remote, i)) >= max_backups
        BY <2>4, <3>1 DEF PruneInv, Newer
      <3>3. Newer(DOMAIN remote, i) \subseteq Newer(DOMAIN remote', i)
        BY <2>3 DEF Newer
      <3>4. DOMAIN remote' \in SUBSET Ids
        BY <1>1, <2>2, <2>3
      <3>5. Cardinality(Newer(DOMAIN remote, i)) <= Cardinality(Newer(DOMAIN remote', i))
        BY <1>1, <3>3, <3>4, NewerGrows
      <3>6. QED BY <1>1, <3>2, <3>4, <3>5, NewerCounted
    <2>5. QED BY <2>3, <2>4 DEF PruneInv, Newer
  <1>4. ASSUME NEW a \in Handlers, cleanup_old_backups(a)
        PROVE  PruneInv' /\ DOMAIN remote \ DOMAIN remote' = {}
    <2>1. Surplus(DOMAIN remote) \in SUBSET (Files \union Ids)
      BY <1>1 DEF Surplus
    <2>2. Others(a) /\ op'[a].todo = Surplus(DOMAIN remote)
      BY <1>1, <1>4, <2>1, Goes DEF cleanup_old_backups, Stages
    <2>3. remote' = remote
      BY <1>4 DEF cleanup_old_backups, outside
    <2>4. QED BY <2>2, <2>3 DEF PruneInv, Others, Surplus
  <1>5. ASSUME NEW a \in Handlers, NEW i \in Ids, DeleteOld(a, i)
        PROVE  /\ PruneInv'
               /\ \A k \in DOMAIN remote \ DOMAIN remote' :
                     Cardinality(Newer(DOMAIN remote', k)) >= max_backups
    <2>1. op[a].pc = "prune" /\ i \in op[a].todo
          /\ op' = [op EXCEPT ![a].todo = op[a].todo \ {i}]
      BY <1>1, <1>5 DEF DeleteOld, At
    <2>2. Others(a) /\ op'[a].pc = "prune" /\ op'[a].todo = op[a].todo \ {i}
      BY <1>1, <2>1 DEF Operations, Others
    <2>3. DOMAIN remote' \in {DOMAIN remote, DOMAIN remote \ {i}}
      BY <1>5 DEF DeleteOld, Restrict
    <2>4. DOMAIN remote' \in SUBSET Ids
      BY <1>1, <2>3
    <2>5. Cardinality(Newer(DOMAIN remote, i)) >= max_backups
      BY <1>1, <2>1 DEF PruneInv, Newer
    <2>6. Newer(DOMAIN remote, i) \subseteq Newer(DOMAIN remote', i)
      BY <1>1, <2>3 DEF Newer
    <2>7. ASSUME NEW k \in Ids, Cardinality(Newer(DOMAIN remote, k)) >= max_backups
          PROVE  Cardinality(Newer(DOMAIN remote', k)) >= max_backups
      <3>1. CASE k >= i
        <4>1. Newer(DOMAIN remote, k) \subseteq Newer(DOMAIN remote', k)
          BY <1>1, <2>3, <3>1 DEF Newer
        <4>2. Cardinality(Newer(DOMAIN remote, k)) <= Cardinality(Newer(DOMAIN remote', k))
          BY <1>1, <2>4, <4>1, NewerGrows
        <4>3. Cardinality(Newer(DOMAIN remote, k)) \in Nat
              /\ Cardinality(Newer(DOMAIN remote', k)) \in Nat
          BY <1>1, <2>4, NewerCounted
        <4>4. QED BY <1>1, <2>7, <4>2, <4>3
      <3>2. CASE k < i
        <4>1. Newer(DOMAIN remote, i) \subseteq Newer(DOMAIN remote', k)
          <5>1. ASSUME NEW j \in DOMAIN remote, j > i PROVE j > k /\ j # i
            <6>1. j \in Nat /\ i \in Nat /\ k \in Nat
              BY <1>1
            <6>2. QED BY <3>2, <5>1, <6>1
          <5>2. QED BY <2>3, <5>1 DEF Newer
        <4>2. Cardinality(Newer(DOMAIN remote, i)) <= Cardinality(Newer(DOMAIN remote', k))
          BY <1>1, <2>4, <4>1, NewerGrows
        <4>3. Cardinality(Newer(DOMAIN remote, i)) \in Nat
              /\ Cardinality(Newer(DOMAIN remote', k)) \in Nat
          BY <1>1, <2>4, NewerCounted
        <4>4. QED BY <1>1, <2>5, <4>2, <4>3
      <3>3. QED BY <1>1, <3>1, <3>2
    <2>8. PruneInv'
      <3>1. ASSUME NEW b \in Actors, op'[b].pc = "prune", NEW k \in op'[b].todo \intersect Ids
            PROVE  op[b].pc = "prune" /\ k \in op[b].todo
        BY <2>1, <2>2, <3>1 DEF Others
      <3>2. QED BY <2>7, <3>1 DEF PruneInv, Newer
    <2>9. \A k \in DOMAIN remote \ DOMAIN remote' : k = i
      BY <2>3
    <2>10. QED BY <2>5, <2>7, <2>8, <2>9
  <1>6. QED
    BY <1>2, <1>3, <1>4, <1>5, Remote DEF Elsewhere, Newer

\* Retention never removes a backup with fewer than max_backups newer ones left,
\* however many clean-ups run at a time, each with a list of its own.
THEOREM RetentionKeeps == Spec => NewestKept
  <1>1. Init => PruneInv
    BY DEF Init, PruneInv, Idle
  <1>2. TypeOK /\ BackupInv /\ PruneInv /\ [Next]_vars => PruneInv'
    <2>1. PruneInv /\ UNCHANGED vars => PruneInv'
      BY DEF PruneInv, vars
    <2>2. QED BY <2>1, PruneKept
  <1>3. TypeOK /\ BackupInv /\ PruneInv /\ [Next]_vars =>
            [\A i \in DOMAIN remote \ DOMAIN remote' :
                Cardinality({j \in DOMAIN remote' : j > i}) >= max_backups]_vars
    BY PruneKept
  <1>4. QED BY <1>1, <1>2, <1>3, RestoreKept, PTL DEF Spec, NewestKept

-----------------------------------------------------------------------------
(* The detailed protocol implements RestoreContract: each of its steps is a *)
(* step of the contract, or changes neither the mode nor what is shown.     *)

Allowed == Contract!Next \/ UNCHANGED <<Mode, shown>>

\* The mode while nobody replaces files, and while one operation does.
Quiet == IF Keeps THEN IF pool = "open" THEN "up" ELSE "down"
         ELSE IF pool = "open" THEN "torn" ELSE "broken"
During(a) == IF op[a].id # 0 /\ Has(points[op[a].id], shown) THEN "replacing"
             ELSE "mending"

LEMMA Modes ==
    /\ (\A b \in Actors : ~Replacing(b)) => Mode = Quiet
    /\ (\A b \in Actors : ~Replacing(b)') => Mode' = Quiet'
    /\ \A a \in Actors : Replacing(a) /\ (\A b \in Actors \ {a} : ~Replacing(b))
          => Mode = During(a)
    /\ \A a \in Actors : Replacing(a)' /\ (\A b \in Actors \ {a} : ~Replacing(b)')
          => Mode' = During(a)'
  BY DEF Mode, Quiet, During

\* The modes by themselves: what the contract lets happen.
LEMMA Permitted ==
    ASSUME TypeOK, TypeOK'
    PROVE  /\ Mode' = Mode /\ shown' = shown => Allowed
           /\ Mode \in {"up", "down"} /\ Mode' = Mode /\ shown' \in AfterWrite(shown)
                => Allowed
           /\ Mode' \in {Mode, Contract!Mended(Mode)} /\ shown' \in Less(shown) => Allowed
           /\ Mode = "up" /\ Mode' \in {"down", "replacing"} /\ shown' = shown => Allowed
           /\ Mode = "down" /\ Mode' \in {"up", "replacing"} /\ shown' = shown => Allowed
           /\ Mode = "torn" /\ Mode' \in {"up", "broken", "mending"} /\ shown' = shown
                => Allowed
           /\ Mode = "broken" /\ Mode' \in {"torn", "mending", "down"} /\ shown' = shown
                => Allowed
           /\ Mode = "broken" /\ Mode' = "up" => Allowed
           /\ Mode \in {"replacing", "mending"} /\ Mode' \in {"up", "down"} => Allowed
           /\ Mode \in {"replacing", "mending"} /\ Mode' = "broken" /\ shown' = shown
                => Allowed
           /\ Mode = "mending" /\ Mode' \in {"torn", "broken"} /\ shown' = shown => Allowed
  BY DEF TypeOK, Allowed, Contract!Next, Contract!Write, Contract!WriteLate, Contract!Mend,
         Contract!Mended, Contract!StopOrStart, Contract!Begin, Contract!Complete, Contract!GiveBack,
         Contract!Break, Contract!StopBroken, Contract!ShowBroken, Contract!Salvage

\* Only what is inside of the lock replaces files.
LEMMA OthersQuiet ==
    ASSUME TypeOK, BackupInv, NEW a \in Actors, op[a].pc \notin Outer
    PROVE  /\ \A b \in Actors \ {a} : ~Replacing(b)
           /\ Others(a) => \A b \in Actors \ {a} : ~Replacing(b)'
  <1>1. \A b \in Actors \ {a} : op[b].pc \in Outer /\ Shape(b)
    BY Alone DEF BackupInv
  <1>2. \A b \in Actors \ {a} : ~op[b].undo
    BY <1>1 DEF Shape, Outer
  <1>3. QED BY <1>1, <1>2 DEF Others, Replacing, Outer

LEMMA QuietStep ==
    ASSUME TypeOK, BackupInv, TypeOK', NEW a \in Actors, Others(a),
           ~Replacing(a), ~Replacing(a)', UNCHANGED <<data, shown, pool>>,
           points' = points \/ op[a].pc \notin Outer
    PROVE  Allowed
  <1>1. CASE op[a].pc \notin Outer
    <2>1. (\A b \in Actors : ~Replacing(b)) /\ (\A b \in Actors : ~Replacing(b)')
      BY <1>1, OthersQuiet
    <2>2. Mode' = Mode
      BY <2>1, Modes DEF Quiet, Keeps, Has
    <2>3. QED BY <2>2, Permitted
  <1>2. CASE points' = points
    <2>1. \A b \in Actors : /\ Replacing(b)' <=> Replacing(b)
                            /\ Replacing(b) => op'[b] = op[b]
      BY DEF Others, Replacing
    <2>2. Mode' = Mode
      BY <1>2, <2>1 DEF Mode, Keeps, Has
    <2>3. QED BY <2>2, Permitted
  <1>3. QED BY <1>1, <1>2

\* A replacement that is cut off leaves the old data, the new, or broken data;
\* the end of the server is otherwise only seen as that.
LEMMA EndedStep ==
    ASSUME TypeOK, BackupInv, TypeOK', \A b \in Actors : ~Replacing(b)',
           UNCHANGED <<data, shown>>, pool' \in {pool, "down"}
    PROVE  Allowed
  <1>1. Mode' = Quiet'
    BY Modes
  <1>2. CASE \A b \in Actors : ~Replacing(b)
    <2>1. Mode = Quiet
      BY <1>2, Modes
    <2>2. QED BY <1>1, <2>1, Permitted DEF Quiet, Keeps, Has
  <1>3. ASSUME NEW a \in Actors, Replacing(a) PROVE Allowed
    <2>1. op[a].pc \notin Outer
      BY <1>3 DEF Replacing, Outer, BackupInv, Shape
    <2>2. Mode \in {"replacing", "mending"}
      BY <1>3, <2>1, OthersQuiet, Modes DEF During
    <2>3. pool # "open"
      BY <1>3, <2>1, Inside DEF AtWork
    <2>4. Mode' \in {"down", "broken"}
      BY <1>1, <2>3 DEF Quiet
    <2>5. QED BY <2>2, <2>4, Permitted
  <1>4. QED BY <1>2, <1>3

\* The steps that neither begin nor end a replacement of files.
LEMMA QuietSteps ==
    ASSUME TypeOK, BackupInv, TypeOK', BackupInv', NEW a \in Actors,
           ~Replacing(a), UNCHANGED <<data, shown, pool>>
    PROVE  /\ Finish(a) /\ (points' = points \/ op[a].pc \notin Outer) => Allowed
           /\ \A pc \in Stages, todo \in SUBSET (Files \union Ids) :
                 To(a, pc, todo) /\ pc \notin {"clear", "rename"}
                 /\ (pc = "open" => a = Boot) /\ (pc = "prepare" => ~op[a].undo)
                 /\ (points' = points \/ op[a].pc \notin Outer) => Allowed
           /\ \A fresh \in Operations :
                 op' = [op EXCEPT ![a] = fresh] /\ points' = points /\ fresh.undo = FALSE
                 /\ fresh.pc \notin {"clear", "rename", "open"} => Allowed
  <1>1. op \in [Actors -> Operations] /\ Shape(a) /\ Shape(a)'
    BY DEF TypeOK, BackupInv
  <1>2. ASSUME Finish(a), points' = points \/ op[a].pc \notin Outer PROVE Allowed
    <2>1. Others(a) /\ op'[a] = Idle
      BY <1>1, <1>2, Finishes
    <2>2. ~Replacing(a)'
      BY <2>1 DEF Replacing, Idle
    <2>3. QED BY <1>2, <2>1, <2>2, QuietStep
  <1>3. ASSUME NEW pc \in Stages, NEW todo \in SUBSET (Files \union Ids), To(a, pc, todo),
               pc \notin {"clear", "rename"}, pc = "open" => a = Boot,
               pc = "prepare" => ~op[a].undo,
               points' = points \/ op[a].pc \notin Outer
        PROVE  Allowed
    <2>1. Others(a) /\ op'[a].pc = pc /\ op'[a].undo = op[a].undo
      BY <1>1, <1>3, Goes
    <2>2. ~Replacing(a)'
      BY <1>3, <2>1 DEF Replacing
    <2>3. QED BY <1>3, <2>1, <2>2, QuietStep
  <1>4. ASSUME NEW fresh \in Operations, op' = [op EXCEPT ![a] = fresh], points' = points,
               fresh.undo = FALSE, fresh.pc \notin {"clear", "rename", "open"}
        PROVE  Allowed
    <2>1. Others(a) /\ op'[a] = fresh
      BY <1>1, <1>4 DEF Others
    <2>2. ~Replacing(a)'
      BY <1>4, <2>1 DEF Replacing
    <2>3. QED BY <1>4, <2>1, <2>2, QuietStep
  <1>5. QED BY <1>2, <1>3, <1>4

\* A restore begins, and promises all that is there.
LEMMA PromiseMove ==
    ASSUME TypeOK, BackupInv, TypeOK', NEW a \in Actors, Others(a),
           \A b \in Actors : ~Replacing(b), ~Replacing(a)',
           UNCHANGED <<data, pool>>, Keeps, shown' = data
    PROVE  Allowed
  <1>1. data \in Archives /\ shown' \in Promises
    BY DEF TypeOK
  <1>2. \A b \in Actors : ~Replacing(b)'
    BY DEF Others, Replacing
  <1>3. Mode = Quiet /\ Mode' = Quiet'
    BY <1>2, Modes
  <1>4. Keeps'
    BY <1>1, Values DEF Keeps, Has
  <1>5. Mode \in {"up", "down"} /\ Mode' = Mode
    BY <1>3, <1>4 DEF Quiet
  <1>6. \A g \in DOMAIN shown : g \in DOMAIN shown' /\ shown'[g] = shown[g]
    BY <1>1, Promising DEF Keeps, Has, Archives
  <1>7. shown' \in AfterWrite(shown)
    BY <1>1, <1>6, Values DEF AfterWrite
  <1>8. QED BY <1>5, <1>7, Permitted

\* The work of the users: what is shown is what they made of it.
LEMMA CommitMove ==
    ASSUME TypeOK, BackupInv, TypeOK', BackupInv', Commit
    PROVE  Allowed
  <1>1. /\ pool = "open" /\ ~Excluded /\ pool' = pool /\ op' = op
        /\ data' = [data EXCEPT ![Db].rev = @ + 1]
        /\ shown' = (IF Keeps THEN [shown EXCEPT ![Db] = data'[Db]] ELSE shown)
    BY DEF Commit, process
  <1>2. \A b \in Actors : ~Replacing(b)
    <2> SUFFICES ASSUME NEW b \in Actors, Replacing(b) PROVE FALSE
      OBVIOUS
    <2>1. op[b].pc \notin Outer
      BY DEF Replacing, Outer, BackupInv, Shape
    <2>2. QED BY <1>1, <2>1, Inside DEF AtWork
  <1>3. \A b \in Actors : ~Replacing(b)'
    BY <1>1, <1>2 DEF Replacing
  <1>4. Mode = Quiet /\ Mode' = Quiet'
    BY <1>2, <1>3, Modes
  <1>5. CASE Keeps
    <2>1. data \in Archives /\ data' \in Archives /\ shown' \in Promises
      BY DEF TypeOK
    <2>2. shown' = [shown EXCEPT ![Db] = data'[Db]]
      BY <1>1, <1>5
    <2>3. DOMAIN shown' = DOMAIN shown /\ \A g \in DOMAIN shown \ {Db} : shown'[g] = shown[g]
      BY <2>2
    <2>4. \A g \in Files \ {Db} : data'[g] = data[g]
      BY <1>1, <2>1 DEF Archives
    <2>5. Keeps'
      BY <1>5, <2>1, <2>2, <2>3, <2>4, Promising, Values DEF Keeps, Has
    <2>6. shown' \in AfterWrite(shown)
      BY <2>1, <2>3, Values DEF AfterWrite
    <2>7. Mode = "up" /\ Mode' = "up"
      BY <1>1, <1>4, <1>5, <2>5 DEF Quiet
    <2>8. QED BY <2>6, <2>7, Permitted
  <1>6. CASE ~Keeps
    <2>1. Mode = "torn" /\ Mode' \in {"torn", "up"} /\ shown' = shown
      BY <1>1, <1>4, <1>6 DEF Quiet
    <2>2. QED BY <2>1, Permitted
  <1>7. QED BY <1>5, <1>6

\* A file is written: in time, and what is shown is what was written, or too late for a
\* restore, and nothing is promised of it.
LEMMA WriteMove ==
    ASSUME TypeOK, BackupInv, TypeOK', BackupInv', NEW f \in Files, WriteFile(f)
    PROVE  Allowed
  <1>1. UNCHANGED <<points, pool, op>>
    BY DEF WriteFile, process
  <1>2. \A b \in Actors : Replacing(b)' <=> Replacing(b)
    BY <1>1 DEF Replacing
  <1>3. Keeps => Keeps'
    BY Writing
  <1>4. CASE \E a \in Actors : TooLate(a, f)
    <2>1. shown' \in Less(shown) /\ \A d : Has(d, shown) => Has(d, shown')
      BY <1>4, Writing
    <2>2. ASSUME NEW b \in Actors, Replacing(b)
          PROVE  Mode' \in {Mode, Contract!Mended(Mode)}
      <3>1. op[b].pc \notin Outer
        BY <2>2 DEF Replacing, Outer, BackupInv, Shape
      <3>2. \A c \in Actors \ {b} : ~Replacing(c)
        BY <3>1, OthersQuiet
      <3>3. Mode = During(b) /\ Mode' = During(b)'
        BY <1>2, <2>2, <3>2, Modes
      <3>4. Has(points[op[b].id], shown) => Has(points[op[b].id], shown')
        BY <2>1
      <3>5. \/ During(b)' = During(b)
            \/ During(b) = "mending" /\ During(b)' = "replacing"
        BY <1>1, <3>4 DEF During, Has
      <3>6. QED BY <3>3, <3>5 DEF Contract!Mended
    <2>3. ASSUME \A b \in Actors : ~Replacing(b)
          PROVE  Mode' \in {Mode, Contract!Mended(Mode)}
      <3>1. Mode = Quiet /\ Mode' = Quiet'
        BY <1>2, <2>3, Modes
      <3>2. QED BY <1>1, <1>3, <3>1 DEF Quiet, Contract!Mended
    <2>4. Mode' \in {Mode, Contract!Mended(Mode)}
      BY <2>2, <2>3
    <2>5. QED BY <2>1, <2>4, Permitted
  <1>5. CASE \A a \in Actors : ~TooLate(a, f)
    <2>1. \A b \in Actors : ~Replacing(b)
      BY <1>5 DEF TooLate
    <2>2. Mode = Quiet /\ Mode' = Quiet'
      BY <1>2, <2>1, Modes
    <2>3. CASE Keeps
      <3>1. Mode \in {"up", "down"} /\ Mode' = Mode
        BY <1>1, <1>3, <2>2, <2>3 DEF Quiet
      <3>2. \A g \in DOMAIN shown \ {f} : g \in DOMAIN shown' /\ shown'[g] = shown[g]
        BY <1>5, <2>3, Writing
      <3>3. shown' \in Promises
        BY DEF TypeOK
      <3>4. shown' \in AfterWrite(shown)
        BY <3>2, <3>3 DEF AfterWrite
      <3>5. QED BY <3>1, <3>4, Permitted
    <2>4. CASE ~Keeps
      <3>1. shown' = shown
        BY <1>5, <2>4, Writing
      <3>2. \/ Mode = "torn" /\ Mode' \in {"torn", "up"}
            \/ Mode = "broken" /\ Mode' \in {"broken", "down"}
        BY <1>1, <2>2, <2>4 DEF Quiet
      <3>3. QED BY <3>1, <3>2, Permitted
    <2>5. QED BY <2>3, <2>4
  <1>6. QED BY <1>4, <1>5

\* The replacement begins with the data kept, or with data that was broken.
LEMMA BeginMove ==
    ASSUME TypeOK, BackupInv, TypeOK', BackupInv', NEW a \in Actors,
           op[a].pc \in {"prepare", "close"}, ~op[a].undo,
           Others(a), op'[a].pc = "clear", op'[a].id = op[a].id,
           UNCHANGED <<data, points, shown>>
    PROVE  Allowed
  <1>1. op[a].pc \notin Outer
    BY DEF Outer
  <1>2. AtWork(a) /\ DataInv
    BY <1>1, Inside
  <1>3. ~Replacing(a) /\ Replacing(a)'
    BY <1>1 DEF Replacing
  <1>4. Mode = Quiet /\ Mode' = During(a)'
    BY <1>1, <1>3, OthersQuiet, Modes
  <1>5. Keeps <=> op[a].id # 0 /\ Has(points[op[a].id], shown)
    <2>1. CASE op[a].id = 0
      BY <1>2, <2>1, Promising DEF AtWork, DataInv, Keeps, Has
    <2>2. CASE op[a].id # 0
      <3>1. data \in Archives /\ points[op[a].id] \in Archives
            /\ \A f \in DOMAIN shown : points[op[a].id][f] = data[f]
        BY <1>2, <2>2 DEF AtWork, TypeOK
      <3>2. QED BY <2>2, <3>1, Values DEF Keeps, Has
    <2>3. QED BY <2>1, <2>2
  <1>6. CASE Keeps
    <2>1. Mode \in {"up", "down"} /\ Mode' = "replacing"
      BY <1>4, <1>5, <1>6 DEF Quiet, During, Has
    <2>2. QED BY <2>1, Permitted
  <1>7. CASE ~Keeps
    <2>1. Mode \in {"torn", "broken"} /\ Mode' = "mending"
      BY <1>4, <1>5, <1>7 DEF Quiet, During, Has
    <2>2. QED BY <2>1, Permitted
  <1>8. QED BY <1>6, <1>7

\* Nothing of what goes on with the files of a replacement is seen.
LEMMA DuringMove ==
    ASSUME TypeOK, BackupInv, TypeOK', BackupInv', NEW a \in Actors,
           Replacing(a), Replacing(a)', Others(a), op'[a].id = op[a].id,
           UNCHANGED <<points, shown>>
    PROVE  Allowed
  <1>1. op[a].pc \notin Outer
    BY DEF Replacing, Outer, BackupInv, Shape
  <1>2. Mode = During(a) /\ Mode' = During(a)'
    BY <1>1, OthersQuiet, Modes
  <1>3. Mode' = Mode
    BY <1>2 DEF During, Has
  <1>4. QED BY <1>3, Permitted

\* It ends with the new data, or with the old, or with what was broken before.
LEMMA DoneMove ==
    ASSUME TypeOK, BackupInv, TypeOK', BackupInv', NEW a \in Actors,
           Replacing(a), ~Replacing(a)', Others(a),
           \/ Keeps'
           \/ op[a].id # 0 /\ (Has(points[op[a].id], shown) => Keeps') /\ shown' = shown
    PROVE  Allowed
  <1>1. op[a].pc \notin Outer
    BY DEF Replacing, Outer, BackupInv, Shape
  <1>2. Mode = During(a) /\ Mode' = Quiet'
    BY <1>1, OthersQuiet, Modes
  <1>3. CASE Keeps'
    <2>1. Mode \in {"replacing", "mending"} /\ Mode' \in {"up", "down"}
      BY <1>2, <1>3 DEF Quiet, During
    <2>2. QED BY <2>1, Permitted
  <1>4. CASE ~Keeps'
    <2>1. Mode = "mending" /\ Mode' \in {"torn", "broken"} /\ shown' = shown
      BY <1>2, <1>4 DEF Quiet, During
    <2>2. QED BY <2>1, Permitted
  <1>5. QED BY <1>3, <1>4

\* Whoever gives up replaces nothing any more.
LEMMA GivenUp ==
    ASSUME TypeOK, BackupInv, NEW a \in Actors
    PROVE  /\ Exit => (\A b \in Actors : ~Replacing(b)') /\ pool' = "down"
           /\ op[a].pc \notin Outer /\ Finish(a) => \A b \in Actors : ~Replacing(b)'
  <1>1. Exit => (\A b \in Actors : ~Replacing(b)') /\ pool' = "down"
    BY DEF Exit, Idle, Replacing
  <1>2. ASSUME op[a].pc \notin Outer, Finish(a) PROVE \A b \in Actors : ~Replacing(b)'
    <2>1. Others(a) /\ op'[a] = Idle
      BY <1>2, Finishes DEF TypeOK
    <2>2. ~Replacing(a)'
      BY <2>1 DEF Replacing, Idle
    <2>3. QED BY <1>2, <2>1, <2>2, OthersQuiet
  <1>3. QED BY <1>1, <1>2

LEMMA ReplaceMoves ==
    ASSUME TypeOK, BackupInv, TypeOK', BackupInv', NEW a \in Actors, ReplaceStep(a)
    PROVE  Allowed
  <1> USE DEF process, history
  <1>1. op \in [Actors -> Operations] /\ data \in Archives /\ Shape(a) /\ AtWork(a)
    BY DEF TypeOK, BackupInv
  <1>2. Present(data) \in SUBSET (Files \union Ids)
    BY <1>1, Values
  <1>3. CASE CopyFail(a) \/ RollbackFail(a) \/ PrepareFail(a)
    <2>1. op[a].pc \notin Outer /\ UNCHANGED <<data, shown>>
      BY <1>3 DEF CopyFail, RollbackFail, PrepareFail, At, Outer
    <2>2. Exit \/ (Finish(a) /\ UNCHANGED pool)
      BY <1>3 DEF CopyFail, RollbackFail, PrepareFail, GiveUp
    <2>3. (\A b \in Actors : ~Replacing(b)') /\ pool' \in {pool, "down"}
      BY <2>1, <2>2, GivenUp
    <2>4. QED BY <2>1, <2>3, EndedStep
  <1>4. CASE KeepPoint(a)
    <2>1. op[a].pc = "copy" /\ op[a].pc \notin Outer /\ ~Replacing(a) /\ ~op[a].undo
      BY <1>1, <1>4 DEF KeepPoint, At, Outer, Replacing, Shape
    <2>2. To(a, "prepare", {}) /\ UNCHANGED <<data, shown, pool>>
      BY <1>4 DEF KeepPoint
    <2>3. QED BY <2>1, <2>2, QuietSteps DEF Stages
  <1>5. ASSUME NEW f \in Files, CopyFile(a, f) PROVE Allowed
    <2>1. PICK content : op' = [op EXCEPT ![a].copy[f] = content, ![a].todo = @ \ {f}]
      BY <1>5 DEF CopyFile
    <2>2. op[a].pc = "copy" /\ op[a].undo = FALSE
      BY <1>1, <1>5 DEF CopyFile, At, Shape, Operations
    <2>3. Others(a) /\ op'[a].pc = "copy" /\ op'[a].undo = FALSE
      BY <1>1, <2>1, <2>2 DEF Operations, Others
    <2>4. ~Replacing(a) /\ ~Replacing(a)'
      BY <2>2, <2>3 DEF Replacing
    <2>5. UNCHANGED <<data, shown, pool, points>>
      BY <1>5 DEF CopyFile
    <2>6. QED BY <2>3, <2>4, <2>5, QuietStep
  <1>6. CASE prepare_backup_file(a)
    <2>1. op[a].pc = "prepare" /\ op[a].pc \notin Outer
          /\ UNCHANGED <<data, shown, pool, points>>
      BY <1>6 DEF prepare_backup_file, At, Outer
    <2>2. CASE op[a].kind = "restore" /\ ~op[a].undo
      <3>1. To(a, "close", {}) /\ ~Replacing(a)
        BY <1>6, <2>1, <2>2 DEF prepare_backup_file, Replacing
      <3>2. QED BY <2>1, <3>1, QuietSteps DEF Stages
    <2>3. CASE ~(op[a].kind = "restore" /\ ~op[a].undo)
      <3>1. To(a, "clear", Present(data))
        BY <1>6, <2>3 DEF prepare_backup_file
      <3>2. Others(a) /\ SameTask(a) /\ op'[a].pc = "clear"
        BY <1>1, <1>2, <3>1, Goes DEF Stages
      <3>3. CASE op[a].undo
        BY <2>1, <3>2, <3>3, DuringMove DEF Replacing, SameTask
      <3>4. CASE ~op[a].undo
        BY <2>1, <3>2, <3>4, BeginMove DEF SameTask
      <3>5. QED BY <3>3, <3>4
    <2>4. QED BY <2>2, <2>3
  <1>7. CASE ListStaged(a)
    <2>1. op[a].pc = "clear" /\ UNCHANGED <<shown, points>>
      BY <1>7 DEF ListStaged, At
    <2>2. Present(staging[a]) \in SUBSET (Files \union Ids)
      BY <1>1, <2>1, Values DEF AtWork
    <2>3. Others(a) /\ SameTask(a) /\ op'[a].pc = "rename"
      BY <1>1, <1>7, <2>2, Goes DEF ListStaged, Stages
    <2>4. QED BY <2>1, <2>3, DuringMove DEF Replacing, SameTask
  <1>8. ASSUME NEW f \in Files, ClearFile(a, f) \/ RenameFile(a, f) PROVE Allowed
    <2>1. op' = [op EXCEPT ![a].todo = op[a].todo \ {f}] /\ op[a].pc \in {"clear", "rename"}
          /\ UNCHANGED <<points, shown>>
      BY <1>1, <1>8 DEF ClearFile, RenameFile, At
    <2>2. Others(a) /\ op'[a].pc = op[a].pc /\ op'[a].id = op[a].id
      BY <1>1, <2>1 DEF Operations, Others
    <2>3. QED BY <2>1, <2>2, DuringMove DEF Replacing
  <1>9. CASE RemoveStaging(a)
    <2>1. op[a].pc = "rename" /\ op[a].todo = {} /\ data' = data
          /\ shown' = (IF a = Boot /\ ~op[a].undo THEN Restored(goal) ELSE shown)
      BY <1>9 DEF RemoveStaging, At
    <2>2. Others(a) /\ SameTask(a) /\ op'[a].pc = "open" /\ op'[a].undo = op[a].undo
      BY <1>1, <1>9, Goes DEF RemoveStaging, Stages
    <2>3. /\ \A f \in DOMAIN shown : data[f] = Source(a)[f]
          /\ Source(a) \in Archives /\ Replacing(a) /\ data # NoArchive
      BY <1>1, <2>1, AllInPlace, Values DEF Replacing
    <2>4. CASE a = Boot
      <3>1. ~Replacing(a)'
        BY <2>2, <2>4 DEF Replacing
      <3>2. CASE ~op[a].undo
        <4>1. goal = Source(a) /\ shown' = Restored(goal)
          BY <1>1, <2>1, <2>3, <2>4, <3>2 DEF Source, AtWork
        <4>2. Keeps'
          BY <2>1, <2>3, <4>1, RestoredPromise DEF Keeps, Has
        <4>3. QED BY <2>2, <2>3, <3>1, <4>2, DoneMove
      <3>3. CASE op[a].undo
        <4>1. op[a].id # 0 /\ shown' = shown /\ Source(a) = points[op[a].id]
          BY <1>1, <2>1, <3>3 DEF Shape, Source
        <4>2. Has(points[op[a].id], shown) => Keeps'
          BY <2>1, <2>3, <4>1 DEF Keeps, Has
        <4>3. QED BY <2>2, <2>3, <3>1, <4>1, <4>2, DoneMove
      <3>4. QED BY <3>2, <3>3
    <2>5. CASE a # Boot
      <3>1. Replacing(a)' /\ UNCHANGED <<points, shown>>
        BY <1>9, <2>1, <2>2, <2>5 DEF Replacing, RemoveStaging
      <3>2. QED BY <2>2, <2>3, <3>1, DuringMove DEF SameTask
    <2>6. QED BY <2>4, <2>5
  <1>10. CASE ActivateFail(a)
    <2>1. Replacing(a) /\ op[a].pc \notin Outer /\ UNCHANGED <<data, points, shown>>
      BY <1>10 DEF ActivateFail, Replacing, Outer
    <2>2. CASE Exit
      BY <2>1, <2>2, GivenUp, EndedStep
    <2>3. CASE op' = [op EXCEPT ![a].undo = TRUE, ![a].pc = "prepare", ![a].todo = {}]
      <3>1. Others(a) /\ op'[a].id = op[a].id /\ op'[a].pc = "prepare" /\ op'[a].undo
        BY <1>1, <2>3 DEF Operations, Others
      <3>2. QED BY <2>1, <3>1, DuringMove DEF Replacing
    <2>4. QED BY <1>10, <2>2, <2>3 DEF ActivateFail
  <1>11. QED
    BY <1>3, <1>4, <1>5, <1>6, <1>7, <1>8, <1>9, <1>10 DEF ReplaceStep

LEMMA HandlerMoves ==
    ASSUME TypeOK, BackupInv, TypeOK', BackupInv', NEW a \in Handlers,
           \/ restore_backup(a) \/ create_backup(a) \/ perform_backup(a)
           \/ BackupStep(a) \/ RestoreStep(a) \/ Disconnect(a)
    PROVE  Allowed
  <1> USE DEF process, history
  <1>1. /\ a \in Actors /\ a # Boot /\ op \in [Actors -> Operations] /\ data \in Archives
        /\ Shape(a) /\ AtWork(a)
    BY BackupAssumption DEF TypeOK, BackupInv, Actors
  <1>2. Present(data) \in SUBSET (Files \union Ids)
    BY <1>1, Values
  <1>3. ASSUME NEW kind \in {"restore", "download", "scheduled"},
               NEW archive \in Archives \union {NoArchive}, Begin(a, kind, "lock", archive)
        PROVE  Allowed
    <2>1. op[a].pc = "idle" /\ UNCHANGED <<data, shown, pool, points>>
          /\ op' = [op EXCEPT ![a] = [Idle EXCEPT !.kind = kind, !.pc = "lock", !.id = ops',
                                                  !.archive = archive]]
      BY <1>3 DEF Begin, At
    <2>2. Others(a) /\ op'[a].pc = "lock" /\ op'[a].undo = FALSE
      BY <1>1, <2>1 DEF Idle, Others
    <2>3. ~Replacing(a) /\ ~Replacing(a)'
      BY <1>1, <2>1, <2>2 DEF Replacing
    <2>4. QED BY <1>1, <2>1, <2>2, <2>3, QuietStep
  <1>4. CASE restore_backup(a) \/ create_backup(a) \/ perform_backup(a)
    <2>1. held \subseteq Archives
      BY DEF TypeOK
    <2>2. QED BY <1>3, <1>4, <2>1 DEF restore_backup, create_backup, perform_backup
  <1>5. CASE LockBackup(a) \/ (LockRestore(a) /\ shown' = shown)
             \/ FinishBackup(a) \/ upload_file(a)
    <2>1. ~Replacing(a) /\ UNCHANGED <<data, shown, pool, points>>
      BY <1>1, <1>5
      DEF LockBackup, LockRestore, FinishBackup, upload_file, At, Replacing, Shape
    <2>2. \/ To(a, "copy", Present(data)) \/ To(a, "send", {}) \/ To(a, "list", {})
      BY <1>5 DEF LockBackup, LockRestore, StartCopy, FinishBackup, upload_file
    <2>3. QED BY <1>1, <1>2, <2>1, <2>2, QuietSteps DEF Stages
  <1>14. CASE LockRestore(a) /\ shown' # shown
    <2>1. /\ op[a].pc = "lock" /\ lock = NoOne /\ UNCHANGED <<data, pool>>
          /\ To(a, "copy", Present(data)) /\ Keeps /\ shown' = data
      BY <1>14 DEF LockRestore, StartCopy, At
    <2>2. Others(a) /\ op'[a].pc = "copy"
      BY <1>1, <1>2, <2>1, Goes DEF Stages
    <2>3. \A b \in Actors : ~Replacing(b)
      <3>1. \A b \in Actors : op[b].pc \in Outer /\ Shape(b)
        BY <1>1, <2>1, Alone DEF BackupInv, Outer
      <3>2. QED BY <3>1 DEF Replacing, Shape, Outer
    <2>4. ~Replacing(a)'
      BY <2>2 DEF Replacing
    <2>5. QED BY <1>1, <2>1, <2>2, <2>3, <2>4, PromiseMove
  <1>6. CASE cleanup_old_backups(a)
    <2>1. ~Replacing(a) /\ UNCHANGED <<data, shown, pool, points>>
          /\ To(a, "prune", Surplus(DOMAIN remote))
      BY <1>1, <1>6 DEF cleanup_old_backups, At, Replacing, Shape
    <2>2. Surplus(DOMAIN remote) \in SUBSET (Files \union Ids)
      BY DEF Surplus, TypeOK
    <2>3. QED BY <1>1, <2>1, <2>2, QuietSteps DEF Stages
  <1>7. ASSUME NEW i \in Ids, DeleteOld(a, i) PROVE Allowed
    <2>1. op[a].pc = "prune" /\ UNCHANGED <<data, shown, pool, points>>
          /\ op' = [op EXCEPT ![a].todo = op[a].todo \ {i}]
      BY <1>1, <1>7 DEF DeleteOld, At
    <2>2. Others(a) /\ op'[a].pc = "prune" /\ op'[a].undo = op[a].undo
      BY <1>1, <2>1 DEF Operations, Others
    <2>3. ~Replacing(a) /\ ~Replacing(a)'
      BY <2>1, <2>2 DEF Replacing
    <2>4. QED BY <1>1, <2>1, <2>2, <2>3, QuietStep
  <1>8. CASE CheckpointFail(a) \/ Download(a) \/ EndBackup(a) \/ DiscardPoint(a)
    <2>1. ~Replacing(a) /\ UNCHANGED <<data, shown, pool>> /\ Finish(a)
      BY <1>1, <1>8
      DEF CheckpointFail, Download, EndBackup, DiscardPoint, At, Replacing, Shape
    <2>2. points' = points \/ op[a].pc \notin Outer
      BY <1>8 DEF CheckpointFail, Download, EndBackup, DiscardPoint, At, Outer
    <2>3. QED BY <1>1, <2>1, <2>2, QuietSteps
  <1>9. CASE Disconnect(a)
    <2>1. Finish(a) /\ UNCHANGED <<data, shown, pool, points>>
      BY <1>9 DEF Disconnect
    <2>2. CASE op[a].pc \in Outer
      <3>1. ~Replacing(a)
        BY <1>1, <2>2 DEF Replacing, Outer, Shape
      <3>2. QED BY <1>1, <2>1, <3>1, QuietSteps
    <2>3. CASE op[a].pc \notin Outer
      BY <1>1, <2>1, <2>3, GivenUp, EndedStep
    <2>4. QED BY <2>2, <2>3
  <1>10. CASE ClosePool(a)
    <2>1. op[a].pc = "close" /\ ~op[a].undo /\ UNCHANGED <<data, points, shown>>
      BY <1>1, <1>10 DEF ClosePool, At, Shape
    <2>2. Others(a) /\ SameTask(a) /\ op'[a].pc = "clear"
      BY <1>1, <1>2, <1>10, Goes DEF ClosePool, Stages
    <2>3. QED BY <1>1, <2>1, <2>2, BeginMove DEF SameTask
  <1>11. CASE Reopen(a)
    <2>1. op[a].pc = "open" /\ shown' = Restored(goal) /\ data' = init_db(data)
          /\ ~op[a].undo
      BY <1>11 DEF Reopen, At
    <2>2. Others(a) /\ op'[a].pc = "discard"
      BY <1>1, <1>11, Goes DEF Reopen, Stages
    <2>3. Replacing(a) /\ ~Replacing(a)'
      BY <1>1, <2>1, <2>2 DEF Replacing
    <2>4. Keeps'
      <3>1. data' = data /\ goal = op[a].archive /\ goal \in Archives
            /\ \A f \in DOMAIN shown : data[f] = goal[f]
        BY <1>1, <2>1, <2>3 DEF AtWork, Source, init_db, Shape, Locked
      <3>2. QED BY <1>1, <2>1, <3>1, RestoredPromise, Values DEF Keeps, Has
    <2>5. QED BY <1>1, <2>2, <2>3, <2>4, DoneMove
  <1>12. CASE ReopenOld(a)
    <2>1. op[a].pc = "open" /\ shown' = shown /\ data' = init_db(data) /\ op[a].undo
      BY <1>12 DEF ReopenOld, At
    <2>2. Others(a) /\ op'[a] = Idle
      BY <1>1, <1>12, Finishes DEF ReopenOld
    <2>3. Replacing(a) /\ ~Replacing(a)'
      BY <1>1, <2>1, <2>2 DEF Replacing, Idle
    <2>4. op[a].id # 0 /\ (Has(points[op[a].id], shown) => Keeps')
      <3>1. op[a].id # 0 /\ data' = data
            /\ \A f \in DOMAIN shown : data[f] = points[op[a].id][f]
        BY <1>1, <2>1 DEF AtWork, Source, init_db, Shape
      <3>2. QED BY <1>1, <2>1, <3>1, Values DEF Keeps, Has
    <2>5. QED BY <1>1, <2>1, <2>2, <2>3, <2>4, DoneMove
  <1>13. QED
    BY <1>4, <1>5, <1>6, <1>7, <1>8, <1>9, <1>10, <1>11, <1>12, <1>14
    DEF BackupStep, RestoreStep

LEMMA ServerMoves ==
    ASSUME TypeOK, BackupInv, TypeOK', BackupInv',
           \/ Crash \/ Start \/ SkipRestore \/ download_latest_backup \/ BootFail \/ BootOpen
    PROVE  Allowed
  <1> USE DEF process, history
  <1>1. /\ Boot \in Actors /\ op \in [Actors -> Operations] /\ data \in Archives
        /\ Shape(Boot) /\ ServerInv /\ DataInv
    BY DEF TypeOK, BackupInv, Actors
  <1>2. CASE Crash \/ BootFail
    <2>1. Exit /\ UNCHANGED <<data, shown>>
      BY <1>2 DEF Crash, BootFail
    <2>2. QED BY <1>1, <2>1, GivenUp, EndedStep
  <1>3. CASE Start
    <2>1. UNCHANGED <<data, shown, pool, points>> /\ op[Boot].pc = "idle"
          /\ op' = [op EXCEPT ![Boot] = [Idle EXCEPT !.kind = "boot", !.pc = "fetch"]]
      BY <1>1, <1>3 DEF Start, ServerInv
    <2>2. Others(Boot) /\ op'[Boot].pc = "fetch" /\ op'[Boot].undo = FALSE
      BY <1>1, <2>1 DEF Others, Idle
    <2>3. ~Replacing(Boot) /\ ~Replacing(Boot)'
      BY <1>1, <2>1, <2>2 DEF Replacing
    <2>4. QED BY <1>1, <2>1, <2>2, <2>3, QuietStep
  <1>4. CASE SkipRestore
    <2>1. ~Replacing(Boot) /\ To(Boot, "open", {}) /\ UNCHANGED <<data, shown, pool, points>>
      BY <1>1, <1>4 DEF SkipRestore, At, Replacing, Shape
    <2>2. QED BY <1>1, <2>1, QuietSteps DEF Stages
  <1>5. CASE download_latest_backup
    <2>1. op[Boot].pc = "fetch" /\ op[Boot].undo = FALSE
          /\ UNCHANGED <<data, pool, points>>
          /\ (shown' = shown \/ (Keeps /\ shown' = data))
      BY <1>1, <1>5 DEF download_latest_backup, At, Shape, TypeOK, Operations
    <2>2. \E latest \in DOMAIN remote :
            \/ op' = [op EXCEPT ![Boot].pc = "copy", ![Boot].archive = remote[latest],
                                ![Boot].id = ops', ![Boot].todo = Present(data)]
            \/ op' = [op EXCEPT ![Boot].pc = "prepare", ![Boot].archive = remote[latest]]
      BY <1>5 DEF download_latest_backup
    <2>3. Others(Boot) /\ op'[Boot].pc \in {"copy", "prepare"} /\ op'[Boot].undo = FALSE
      BY <1>1, <2>1, <2>2 DEF Operations, Others
    <2>4. ~Replacing(Boot) /\ ~Replacing(Boot)'
      BY <2>1, <2>3 DEF Replacing
    <2>5. CASE shown' = shown
      BY <1>1, <2>1, <2>3, <2>4, <2>5, QuietStep
    <2>6. CASE Keeps /\ shown' = data
      <3>1. \A b \in Actors : ~Replacing(b)
        BY <1>1, <2>1, <2>4, OthersQuiet DEF Outer
      <3>2. QED BY <1>1, <2>1, <2>3, <2>4, <2>6, <3>1, PromiseMove
    <2>7. QED BY <2>1, <2>5, <2>6
  <1>6. CASE BootOpen
    <2>1. /\ op[Boot].pc = "open" /\ op[Boot].pc \notin Outer /\ pool' = "open"
          /\ data' = init_db(data)
          /\ shown' = (IF ~Keeps /\ goal # NoArchive /\ Has(data, Restored(goal))
                       THEN Restored(goal) ELSE shown)
      BY <1>6 DEF BootOpen, At, Outer
    <2>2. Others(Boot) /\ op'[Boot] = Idle
      BY <1>1, <1>6, Finishes DEF BootOpen
    <2>3. ~Replacing(Boot) /\ ~Replacing(Boot)'
      BY <2>1, <2>2 DEF Replacing, Idle
    <2>4. Mode = Quiet /\ Mode' = Quiet'
      BY <1>1, <2>1, <2>2, <2>3, OthersQuiet, Modes
    <2>5. pool = "down"
      BY <1>1, <2>1, Inside
    <2>6. data[Db] # Missing => data' = data
      BY <2>1 DEF init_db
    <2>7. CASE Keeps
      <3>1. shown' = shown /\ data[Db] # Missing
        BY <1>1, <2>1, <2>7, Promising DEF DataInv, Keeps, Has
      <3>2. Keeps'
        BY <2>6, <2>7, <3>1 DEF Keeps, Has
      <3>3. Mode = "down" /\ Mode' = "up"
        BY <2>1, <2>4, <2>5, <2>7, <3>2 DEF Quiet
      <3>4. QED BY <3>1, <3>3, Permitted
    <2>8. CASE ~Keeps
      <3>1. Mode = "broken" /\ Mode' \in {"up", "torn"}
        BY <2>1, <2>4, <2>5, <2>8 DEF Quiet
      <3>2. CASE goal # NoArchive /\ Has(data, Restored(goal))
        <4>1. goal \in Archives /\ goal[Db] # Missing /\ shown' = Restored(goal)
          BY <1>1, <2>1, <2>8, <3>2 DEF DataInv
        <4>2. data[Db] = goal[Db]
          BY <3>2, <4>1, Promising, RestoredPromise DEF Has
        <4>3. Keeps'
          BY <2>6, <3>2, <4>1, <4>2 DEF Keeps, Has
        <4>4. QED BY <2>1, <2>4, <3>1, <4>3, Permitted DEF Quiet
      <3>3. CASE ~(goal # NoArchive /\ Has(data, Restored(goal)))
        <4>1. shown' = shown
          BY <2>1, <3>3
        <4>2. QED BY <3>1, <4>1, Permitted
      <3>4. QED BY <3>2, <3>3
    <2>9. QED BY <2>7, <2>8
  <1>7. QED BY <1>2, <1>3, <1>4, <1>5, <1>6

\* The data shown is always the old or the complete new data, unless a
\* replacement was cut off or could not be undone: the operations on files,
\* their rollbacks and the restarts implement RestoreContract.
THEOREM ContractKept == Spec => KeepsRestoreContract
  <1>1. Init => Contract!Init
    <2> SUFFICES ASSUME Init PROVE Contract!Init
      OBVIOUS
    <2>1. \A a \in Actors : ~Replacing(a)
      BY DEF Init, Idle, Replacing
    <2>2. TypeOK /\ NothingLost /\ Keeps
      BY Begun, Values DEF Init, BackupInv, DataInv, Keeps, Has, Sources
    <2>4. Mode = "up" /\ shown \in Promises
      BY <2>1, <2>2, Modes DEF Init, Quiet, TypeOK
    <2>3. QED BY <2>4 DEF Contract!Init
  <1>2. TypeOK /\ BackupInv /\ [Next]_vars /\ (TypeOK /\ BackupInv)'
          => [Contract!Next]_<<Mode, shown>>
    <2> SUFFICES ASSUME TypeOK, BackupInv, TypeOK', BackupInv', [Next]_vars
                 PROVE  Allowed
      BY DEF Allowed
    <2>1. CASE UNCHANGED vars
      BY <2>1 DEF vars, Allowed, Mode, Replacing, Keeps, Has
    <2>2. CASE Next
      <3>1. \A a \in Handlers : a \in Actors
        BY DEF Actors
      <3>2. Boot \in Actors
        BY DEF Actors
      <3>3. QED
        BY <2>2, <3>1, <3>2, CommitMove, WriteMove, ReplaceMoves, HandlerMoves, ServerMoves
        DEF Next, BootStep, Work
    <2>3. QED BY <2>1, <2>2
  <1>3. QED
    BY <1>1, <1>2, RestoreKept, PTL DEF Spec, KeepsRestoreContract, Contract!Spec, Contract!vars
-----------------------------------------------------------------------------
(* No operation turns back: the safety behind OperationsEnd.                *)

Rank(pc) ==
    CASE pc = "idle" -> 0 [] pc = "lock" -> 1 [] pc = "fetch" -> 2 [] pc = "copy" -> 3
      [] pc = "prepare" -> 4 [] pc = "close" -> 5 [] pc = "clear" -> 6 [] pc = "rename" -> 7
      [] pc = "open" -> 8 [] pc = "discard" -> 9 [] pc = "send" -> 10 [] pc = "list" -> 11
      [] pc = "prune" -> 12

\* An operation is over, or rolls back, or is at a later stage of what it did, or has
\* fewer files or backups left to handle at the same stage.
Farther(from, to) ==
    \/ to = Idle
    \/ ~from.undo /\ to.undo
    \/ from.undo = to.undo /\ Rank(from.pc) < Rank(to.pc)
    \/ /\ from.undo = to.undo /\ from.pc = to.pc
       /\ to.todo \subseteq from.todo /\ to.todo # from.todo

\* What an operation does by itself.
StepOf(a) == IF a = Boot THEN BootStep ELSE Work(a)

\* Each step of an operation takes it farther, and nobody else takes it elsewhere
\* than to its end.
NoTurningBack ==
    [][\A a \in Actors : op[a].pc # "idle" =>
          IF StepOf(a) THEN Farther(op[a], op'[a]) ELSE op'[a] \in {op[a], Idle}]_vars

LEMMA Ranks ==
    /\ Rank("idle") = 0 /\ Rank("lock") = 1 /\ Rank("fetch") = 2 /\ Rank("copy") = 3
    /\ Rank("prepare") = 4 /\ Rank("close") = 5 /\ Rank("clear") = 6 /\ Rank("rename") = 7
    /\ Rank("open") = 8 /\ Rank("discard") = 9 /\ Rank("send") = 10 /\ Rank("list") = 11
    /\ Rank("prune") = 12
  BY DEF Rank

LEMMA Advances ==
    ASSUME TypeOK, NEW a \in Actors, NEW pc \in Stages,
           NEW todo \in SUBSET (Files \union Ids), To(a, pc, todo), Rank(op[a].pc) < Rank(pc)
    PROVE  Farther(op[a], op'[a]) /\ Others(a)
  BY Goes DEF TypeOK, Farther

LEMMA Ends ==
    ASSUME TypeOK, NEW a \in Actors, Finish(a)
    PROVE  Farther(op[a], op'[a]) /\ Others(a)
  BY Finishes DEF TypeOK, Farther

LEMMA AllEnd ==
    ASSUME NEW a \in Actors, Exit
    PROVE  Farther(op[a], op'[a]) /\ \A b \in Actors : op'[b] = Idle
  BY DEF Exit, Farther

LEMMA Handled ==
    ASSUME TypeOK, NEW a \in Actors, NEW x \in op[a].todo,
           op' = [op EXCEPT ![a].todo = @ \ {x}]
    PROVE  Farther(op[a], op'[a]) /\ Others(a)
  <1>1. op' = [op EXCEPT ![a] = [op[a] EXCEPT !.todo = op[a].todo \ {x}]]
    BY DEF TypeOK, Operations
  <1>2. op'[a] = [op[a] EXCEPT !.todo = op[a].todo \ {x}] /\ Others(a)
    BY <1>1 DEF TypeOK, Others
  <1>3. /\ op'[a].pc = op[a].pc /\ op'[a].undo = op[a].undo
        /\ op'[a].todo = op[a].todo \ {x}
    BY <1>2 DEF TypeOK, Operations
  <1>4. QED BY <1>2, <1>3 DEF Farther

LEMMA ReplaceAhead ==
    ASSUME TypeOK, NEW a \in Actors, ReplaceStep(a)
    PROVE  /\ Farther(op[a], op'[a])
           /\ Others(a) \/ \A b \in Actors : op'[b] = Idle
  <1> USE DEF At
  <1>1. CASE CopyFail(a)
    BY <1>1, Ends DEF CopyFail
  <1>2. CASE KeepPoint(a)
    BY <1>2, Advances, Ranks DEF KeepPoint, Stages
  <1>3. ASSUME NEW f \in Files, CopyFile(a, f)
        PROVE  Farther(op[a], op'[a]) /\ Others(a)
    <2>1. PICK content : op' = [op EXCEPT ![a].copy[f] = content, ![a].todo = @ \ {f}]
      BY <1>3 DEF CopyFile
    <2>2. f \in op[a].todo
      BY <1>3 DEF CopyFile
    <2>3. op' = [op EXCEPT ![a] = [op[a] EXCEPT !.copy = [@ EXCEPT ![f] = content],
                                                !.todo = @ \ {f}]]
      BY <2>1 DEF TypeOK, Operations
    <2>4. op'[a] = [op[a] EXCEPT !.copy = [@ EXCEPT ![f] = content], !.todo = @ \ {f}]
          /\ Others(a)
      BY <2>3 DEF TypeOK, Others
    <2>5. /\ op'[a].pc = op[a].pc /\ op'[a].undo = op[a].undo
          /\ op'[a].todo = op[a].todo \ {f}
      BY <2>4 DEF TypeOK, Operations
    <2>6. QED BY <2>2, <2>4, <2>5 DEF Farther
  <1>4. CASE prepare_backup_file(a)
    <2>1. Present(data) \subseteq Files
      BY DEF Present
    <2>2. op[a].pc = "prepare" /\ (To(a, "close", {}) \/ To(a, "clear", Present(data)))
      BY <1>4 DEF prepare_backup_file
    <2>3. QED BY <2>1, <2>2, Advances, Ranks DEF Stages
  <1>5. CASE PrepareFail(a) \/ RollbackFail(a)
    <2>1. Exit \/ Finish(a)
      BY <1>5 DEF PrepareFail, RollbackFail, GiveUp
    <2>2. QED BY <2>1, AllEnd, Ends
  <1>6. CASE ListStaged(a)
    <2>1. Present(staging[a]) \subseteq Files
      BY DEF Present
    <2>2. QED BY <1>6, <2>1, Advances, Ranks DEF ListStaged, Stages
  <1>7. CASE RemoveStaging(a)
    BY <1>7, Advances, Ranks DEF RemoveStaging, Stages
  <1>8. CASE ActivateFail(a)
    <2>1. CASE Exit
      BY <2>1, AllEnd
    <2>2. CASE ~Exit
      <3>1. ~op[a].undo
            /\ op' = [op EXCEPT ![a].undo = TRUE, ![a].pc = "prepare", ![a].todo = {}]
        BY <1>8, <2>2 DEF ActivateFail
      <3>2. op' = [op EXCEPT ![a] = [op[a] EXCEPT !.undo = TRUE, !.pc = "prepare", !.todo = {}]]
        BY <3>1 DEF TypeOK, Operations
      <3>3. op'[a].undo /\ Others(a)
        BY <3>2 DEF TypeOK, Operations, Others
      <3>4. QED BY <3>1, <3>3 DEF Farther
    <2>3. QED BY <2>1, <2>2
  <1>9. ASSUME NEW f \in Files, ClearFile(a, f) \/ RenameFile(a, f)
        PROVE  Farther(op[a], op'[a]) /\ Others(a)
    BY <1>9, Handled DEF ClearFile, RenameFile
  <1>10. QED
    BY <1>1, <1>2, <1>3, <1>4, <1>5, <1>6, <1>7, <1>8, <1>9 DEF ReplaceStep

LEMMA HandlerAhead ==
    ASSUME TypeOK, NEW a \in Actors, BackupStep(a) \/ RestoreStep(a)
    PROVE  Farther(op[a], op'[a]) /\ Others(a)
  <1> USE DEF At
  <1>1. Present(data) \subseteq Files
    BY DEF Present
  <1>2. CASE LockBackup(a) \/ LockRestore(a)
    <2>1. op[a].pc = "lock" /\ To(a, "copy", Present(data))
      BY <1>2 DEF LockBackup, LockRestore, StartCopy
    <2>2. QED BY <1>1, <2>1, Advances, Ranks DEF Stages
  <1>3. CASE FinishBackup(a)
    BY <1>3, Advances, Ranks DEF FinishBackup, Stages
  <1>4. CASE upload_file(a)
    BY <1>4, Advances, Ranks DEF upload_file, Stages
  <1>5. CASE cleanup_old_backups(a)
    <2>1. Surplus(DOMAIN remote) \subseteq Ids
      BY DEF Surplus, TypeOK
    <2>2. QED BY <1>5, <2>1, Advances, Ranks DEF cleanup_old_backups, Stages
  <1>6. ASSUME NEW i \in Ids, DeleteOld(a, i) PROVE Farther(op[a], op'[a]) /\ Others(a)
    BY <1>6, Handled DEF DeleteOld
  <1>7. CASE \/ Download(a) \/ EndBackup(a) \/ CheckpointFail(a) \/ DiscardPoint(a)
             \/ ReopenOld(a)
    BY <1>7, Ends DEF Download, EndBackup, CheckpointFail, DiscardPoint, ReopenOld
  <1>8. CASE ClosePool(a)
    BY <1>1, <1>8, Advances, Ranks DEF ClosePool, Stages
  <1>9. CASE Reopen(a)
    BY <1>9, Advances, Ranks DEF Reopen, Stages
  <1>10. QED
    BY <1>2, <1>3, <1>4, <1>5, <1>6, <1>7, <1>8, <1>9 DEF BackupStep, RestoreStep

LEMMA BootAhead ==
    ASSUME TypeOK, BackupInv, BootStep
    PROVE  /\ Farther(op[Boot], op'[Boot])
           /\ Others(Boot) \/ \A b \in Actors : op'[b] = Idle
  <1> USE DEF At
  <1>1. Boot \in Actors /\ Shape(Boot)
    BY DEF Actors, BackupInv
  <1>2. CASE SkipRestore
    BY <1>1, <1>2, Advances, Ranks DEF SkipRestore, Stages
  <1>3. CASE download_latest_backup
    <2>1. op[Boot].pc = "fetch" /\ op[Boot].undo = FALSE
      BY <1>1, <1>3 DEF download_latest_backup, Shape, TypeOK, Operations
    <2>2. \E latest \in DOMAIN remote :
            \/ op' = [op EXCEPT ![Boot].pc = "copy", ![Boot].archive = remote[latest],
                                ![Boot].id = ops', ![Boot].todo = Present(data)]
            \/ op' = [op EXCEPT ![Boot].pc = "prepare", ![Boot].archive = remote[latest]]
      BY <1>3 DEF download_latest_backup
    <2>3. Others(Boot) /\ op'[Boot].pc \in {"copy", "prepare"} /\ op'[Boot].undo = FALSE
      BY <1>1, <2>1, <2>2 DEF TypeOK, Operations, Others
    <2>4. Rank("fetch") < Rank("copy") /\ Rank("fetch") < Rank("prepare")
      BY DEF Rank
    <2>5. QED BY <2>1, <2>3, <2>4 DEF Farther
  <1>4. CASE BootFail
    BY <1>1, <1>4, AllEnd DEF BootFail
  <1>5. CASE BootOpen
    BY <1>1, <1>5, Ends DEF BootOpen
  <1>6. CASE ReplaceStep(Boot)
    BY <1>1, <1>6, ReplaceAhead
  <1>7. QED BY <1>2, <1>3, <1>4, <1>5, <1>6 DEF BootStep

\* Every step of a backup, of a restore or of a start-up brings it nearer to its end: it
\* rolls back once at most, never from a rollback, goes through its stages in their order
\* and handles no file twice in one (restore_backup, perform_backup and
\* restore_latest_backup, whatever fails and whoever else is at work).
THEOREM NeverTurnsBack == Spec => NoTurningBack
  <1>1. TypeOK /\ BackupInv /\ [Next]_vars =>
          [\A a \in Actors : op[a].pc # "idle" =>
              IF StepOf(a) THEN Farther(op[a], op'[a]) ELSE op'[a] \in {op[a], Idle}]_vars
    <2> SUFFICES ASSUME TypeOK, BackupInv, Next, NEW a \in Actors, op[a].pc # "idle"
                 PROVE  IF StepOf(a) THEN Farther(op[a], op'[a]) ELSE op'[a] \in {op[a], Idle}
      OBVIOUS
    <2>1. CASE StepOf(a)
      <3>1. CASE a = Boot
        BY <2>1, <3>1, BootAhead DEF StepOf
      <3>2. CASE a # Boot
        BY <2>1, <3>2, ReplaceAhead, HandlerAhead DEF StepOf, Work
      <3>3. QED BY <2>1, <3>1, <3>2
    <2>2. CASE ~StepOf(a)
      <3> SUFFICES op'[a] \in {op[a], Idle}
        BY <2>2
      <3>0. \A b \in Handlers : b \in Actors /\ b # Boot
        BY BackupAssumption DEF Actors
      <3>1. CASE Commit \/ \E f \in Files : WriteFile(f)
        BY <3>1 DEF Commit, WriteFile
      <3>2. ASSUME NEW b \in Handlers, restore_backup(b) \/ create_backup(b) \/ perform_backup(b)
            PROVE  op'[a] = op[a]
        <4>1. op[b].pc = "idle" /\ \E v : op' = [op EXCEPT ![b] = v]
          BY <3>2 DEF restore_backup, create_backup, perform_backup, Begin, At
        <4>2. QED BY <4>1 DEF TypeOK
      <3>3. ASSUME NEW b \in Handlers, Work(b) PROVE op'[a] \in {op[a], Idle}
        <4>1. a # b
          BY <2>2, <3>0, <3>3 DEF StepOf
        <4>2. QED BY <3>0, <3>3, <4>1, ReplaceAhead, HandlerAhead DEF Work, Others
      <3>4. ASSUME NEW b \in Handlers, Disconnect(b) PROVE op'[a] \in {op[a], Idle}
        BY <3>0, <3>4, Finishes DEF Disconnect, Others, TypeOK
      <3>5. CASE Crash
        BY <3>5 DEF Crash, Exit
      <3>6. CASE Start
        <4>1. op[Boot].pc = "idle"
          BY <3>6 DEF Start, BackupInv, ServerInv
        <4>2. \E v : op' = [op EXCEPT ![Boot] = v]
          BY <3>6 DEF Start
        <4>3. QED BY <4>1, <4>2 DEF TypeOK
      <3>7. CASE BootStep
        <4>1. a # Boot
          BY <2>2, <3>7 DEF StepOf
        <4>2. QED BY <3>7, <4>1, BootAhead DEF Others
      <3>8. QED BY <2>2, <3>1, <3>2, <3>3, <3>4, <3>5, <3>6, <3>7 DEF Next
    <2>3. QED BY <2>1, <2>2
  <1>2. QED BY <1>1, RestoreKept, PTL DEF Spec, NoTurningBack
=============================================================================
