------------------------ MODULE TaskExecutionProofs ------------------------
(***************************************************************************)
(* Theorems about TaskExecution, for any tasks, calls, kill requests and   *)
(* pids.                                                                   *)
(***************************************************************************)
EXTENDS TaskExecution, TLAPS

USE DEF execVars, mapVars, flagVars, killVars

TableOK ==
    /\ proc \in [Pids -> Process]
    /\ \A q \in Pids : proc[q].main = "alive" => proc[q].owner \in Executions

\* The operators on the process table yield entries of the process table.
LEMMA ProcessTypes ==
    /\ NoProcess \in Process
    /\ \A P \in Process : Struck(P) \in Process /\ P.main \in {"alive", "zombie", "gone"}
    /\ \A P \in Process, m \in {"alive", "zombie", "gone"}, c, d \in BOOLEAN :
          Became(P, m, c, d) \in Process
    /\ \A P \in Process : Struck(P).main = "alive" => FALSE
    /\ \A P \in Process, m \in {"alive", "zombie", "gone"}, c, d \in BOOLEAN :
          Became(P, m, c, d).main = m
    /\ NoProcess.main = "gone"
BY DEF NoProcess, Process, Struck, Became

\* A process that left a group, or ended since, changes nothing else of it.
LEMMA EscapeTypes ==
    ASSUME NEW P \in Process, NEW b \in BOOLEAN, NEW Q, Q = [P EXCEPT !.away = b]
    PROVE  Q \in Process /\ Q.main = P.main /\ Q.owner = P.owner /\ Q.kids = P.kids
BY DEF Process

\* Escape and EscapedExit, as a change of one entry of the table.
LEMMA EscapeStep ==
    ASSUME proc \in [Pids -> Process], NEW p \in Pids, Escape(p) \/ EscapedExit(p)
    PROVE  \E Q \in Process :
              /\ proc' = [proc EXCEPT ![p] = Q]
              /\ Q.main = proc[p].main /\ Q.owner = proc[p].owner /\ Q.kids = proc[p].kids
              /\ EscapedExit(p) \/ proc[p].main = "alive" \/ proc[p].kids
<1>1. PICK b \in BOOLEAN : proc' = [proc EXCEPT ![p] = [proc[p] EXCEPT !.away = b]]
  BY DEF Escape, EscapedExit
<1> DEFINE Q == [proc[p] EXCEPT !.away = b]
<1>2. Q \in Process /\ Q.main = proc[p].main /\ Q.owner = proc[p].owner /\ Q.kids = proc[p].kids
  BY EscapeTypes
<1>3. proc' = [proc EXCEPT ![p] = Q] BY <1>1
<1>4. EscapedExit(p) \/ proc[p].main = "alive" \/ proc[p].kids BY DEF Escape
<1> HIDE DEF Q
<1> QED BY <1>2, <1>3, <1>4

\* A step that gives one pid an entry that is not alive, or is owned, keeps the
\* type of the table.
LEMMA ProcessTableType ==
    ASSUME TypeOK, NEW p \in Pids, NEW P \in Process,
           P.main = "alive" => P.owner \in Executions,
           proc' = [proc EXCEPT ![p] = P]
    PROVE  TableOK'
BY DEF TypeOK, TableOK

\* Every variable keeps its type whatever the calls, timers, kill requests and
\* processes of services/executor.rs do.
THEOREM TypeCorrect == Spec => []TypeOK
<1> USE ConstantsAssumption DEF TypeOK, Stages, CommandStages, Outcomes, Verdicts, ChildStages
<1>1. Init => TypeOK
  BY ProcessTypes DEF Init
<1>2. TypeOK /\ [Next]_vars => TypeOK'
  <2> SUFFICES ASSUME TypeOK, [Next]_vars PROVE TypeOK'
    OBVIOUS
  <2> USE DEF Goto, Return, schedule_token_cleanup
  <2>1. ASSUME NEW e \in Executions, ExecuteStep(e) PROVE TypeOK'
    <3>1. CASE Skip(e) BY <3>1 DEF Skip
    <3>2. CASE Admit(e)
      <4>1. overlapped' \subseteq Tasks BY <3>2 DEF Admit
      <4>2. QED BY <3>2, <4>1 DEF Admit
    <3>3. CASE Register(e) BY <3>3 DEF Register
    <3>4. CASE PrepareFail(e) BY <3>4 DEF PrepareFail
    <3>5. CASE Prepare(e) BY <3>5 DEF Prepare
    <3>6. CASE PreSucceed(e) BY <3>6 DEF PreSucceed
    <3>7. CASE PreFail(e, TRUE) BY <3>7 DEF PreFail
    <3>8. CASE PreFail(e, FALSE) BY <3>8 DEF PreFail
    <3>9. CASE SpawnFail(e) BY <3>9 DEF SpawnFail
    <3>10. CASE Spawn(e)
      <4>1. PICK p \in Pids :
              /\ proc' = [proc EXCEPT ![p] = [main |-> "alive", code0 |-> FALSE,
                                              kids |-> FALSE, away |-> FALSE, owner |-> e]]
              /\ pid' = [pid EXCEPT ![e] = p]
        BY <3>10 DEF Spawn
      <4>2. [main |-> "alive", code0 |-> FALSE, kids |-> FALSE, away |-> FALSE, owner |-> e] \in Process
        BY DEF Process
      <4>3. TableOK'
        BY <4>1, <4>2, ProcessTableType DEF TableOK
      <4> QED BY <3>10, <4>1, <4>3 DEF Spawn, TableOK
    <3>11. CASE Track(e) BY <3>11 DEF Track
    <3>12. CASE Arm(e) BY <3>12 DEF Arm
    <3>13. CASE Reap(e)
      <4>1. proc[pid[e]].code0 \in BOOLEAN /\ proc[pid[e]].kids \in BOOLEAN
        BY <3>13 DEF Reap, Process
      <4>2. TableOK'
        BY <3>13, <4>1, ProcessTypes, ProcessTableType DEF Reap, Collect, TableOK
      <4> QED BY <3>13, <4>1, <4>2 DEF Reap, TableOK
    <3>14. CASE WaitFail(e)
      <4>1. proc[pid[e]].kids \in BOOLEAN BY <3>14 DEF WaitFail, Process
      <4>2. TableOK'
        BY <3>14, <4>1, ProcessTypes, ProcessTableType DEF WaitFail, Collect, TableOK
      <4> QED BY <3>14, <4>2 DEF WaitFail, TableOK
    <3>15. CASE ReturnKilled(e) BY <3>15 DEF ReturnKilled
    <3>16. CASE Exited(e) BY <3>16 DEF Exited
    <3>17. CASE Untrack(e) BY <3>17 DEF Untrack
    <3>18. CASE Post(e) BY <3>18 DEF Post
    <3>19. CASE Close(e) BY <3>19 DEF Close
    <3> QED
      BY <2>1, <3>1, <3>2, <3>3, <3>4, <3>5, <3>6, <3>7, <3>8, <3>9, <3>10, <3>11,
         <3>12, <3>13, <3>14, <3>15, <3>16, <3>17, <3>18, <3>19 DEF ExecuteStep
  <2>2. ASSUME NEW e \in Executions, TimerStep(e) PROVE TypeOK'
    <3>1. CASE TokenExpire(e) BY <3>1 DEF TokenExpire
    <3>2. CASE WatchdogFire(e) BY <3>2 DEF WatchdogFire
    <3>3. CASE WatchdogKill(e)
      <4>1. TableOK'
        BY <3>3, ProcessTypes, ProcessTableType DEF WatchdogKill, kill_process_tree
      <4> QED BY <3>3, <4>1 DEF WatchdogKill, TableOK
    <3> QED BY <2>2, <3>1, <3>2, <3>3 DEF TimerStep
  <2>3. ASSUME NEW k \in Killers, KillStep(k) PROVE TypeOK'
    <3> USE DEF KillReturn
    <3>1. CASE KillLookup(k) BY <3>1 DEF KillLookup
    <3>2. CASE KillTake(k) BY <3>2 DEF KillTake
    <3>3. CASE KillFlag(k) BY <3>3 DEF KillFlag
    <3>4. CASE KillSignal(k)
      <4>1. TableOK'
        <5>1. CASE UNCHANGED proc BY <5>1 DEF TableOK
        <5>2. CASE kill_process_tree(kPid[k])
          <6>1. kPid[k] \in Pids BY <3>4 DEF KillSignal
          <6>2. proc[kPid[k]] \in Process BY <6>1
          <6> HIDE DEF TypeOK
          <6> QED BY <5>2, <6>1, <6>2, ProcessTypes, ProcessTableType DEF kill_process_tree
        <5> QED BY <3>4, <5>1, <5>2 DEF KillSignal
      <4> QED BY <3>4, <4>1 DEF KillSignal, TableOK
    <3>5. CASE KillClose(k) BY <3>5 DEF KillClose
    <3> QED BY <2>3, <3>1, <3>2, <3>3, <3>4, <3>5 DEF KillStep
  <2>4. ASSUME NEW p \in Pids, ProcessStep(p) PROVE TypeOK'
    <3>1. proc[p].main \in {"alive", "zombie", "gone"} /\ proc[p].code0 \in BOOLEAN
      BY DEF Process
    <3>2. CASE ProcessExit(p)
      <4>1. PICK c \in BOOLEAN, d \in BOOLEAN :
              proc' = [proc EXCEPT ![p] = Became(proc[p], "zombie", c, d)]
        BY <3>2 DEF ProcessExit
      <4>2. proc[p] \in Process OBVIOUS
      <4>3. Became(proc[p], "zombie", c, d) \in Process
            /\ Became(proc[p], "zombie", c, d).main = "zombie"
        BY <4>2, ProcessTypes
      <4>4. TableOK' BY <4>1, <4>3, ProcessTableType
      <4> QED BY <3>2, <4>4 DEF ProcessExit, TableOK
    <3>3. CASE ChildrenExit(p)
      <4>1. TableOK'
        BY <3>1, <3>3, ProcessTypes, ProcessTableType DEF ChildrenExit, TableOK
      <4> QED BY <3>3, <4>1 DEF ChildrenExit, TableOK
    <3>4. CASE Escape(p) \/ EscapedExit(p)
      <4>1. PICK Q \in Process :
              /\ proc' = [proc EXCEPT ![p] = Q]
              /\ Q.main = proc[p].main /\ Q.owner = proc[p].owner
        BY <3>4, EscapeStep
      <4>2. Q.main = "alive" => Q.owner \in Executions BY <4>1
      <4>3. TableOK' BY <4>1, <4>2, ProcessTableType
      <4> QED BY <3>4, <4>3 DEF Escape, EscapedExit, TableOK
    <3> QED BY <2>4, <3>2, <3>3, <3>4 DEF ProcessStep
  <2>5. CASE UNCHANGED vars
    BY <2>5 DEF vars
  <2> QED
    BY <2>1, <2>2, <2>3, <2>4, <2>5 DEF Next
<1>3. QED
  BY <1>1, <1>2, PTL DEF Spec

-----------------------------------------------------------------------------
(* A call waits for its child for exactly as long as the child exists.     *)

ChildInv ==
    /\ NoAbandonedProcess
    /\ \A e \in Executions : pc[e] \in ChildStages =>
          proc[pid[e]].main # "gone" /\ proc[pid[e]].owner = e

\* Exits and kills change neither the owner of a process nor whether it has
\* been waited for.
LEMMA StruckKeeps ==
    ASSUME NEW P \in Process
    PROVE  /\ Struck(P).owner = P.owner
           /\ Struck(P).main = "gone" <=> P.main = "gone"
BY DEF Process, Struck, Became

\* A step that changes no process, no pid, and moves calls neither into nor out
\* of the stages that own a child.
LEMMA ChildUnmoved ==
    ASSUME ChildInv, TypeOK, UNCHANGED <<proc, pid>>,
           \A e \in Executions : pc'[e] \in ChildStages <=> pc[e] \in ChildStages
    PROVE  ChildInv'
BY DEF ChildInv, NoAbandonedProcess, TypeOK

\* A step of the kernel on one group that keeps owner and existence.
LEMMA ChildStruck ==
    ASSUME ChildInv, TypeOK, UNCHANGED <<pc, pid>>,
           NEW p \in Pids, NEW P \in Process, proc' = [proc EXCEPT ![p] = P],
           P.owner = proc[p].owner, P.main = "gone" <=> proc[p].main = "gone"
    PROVE  ChildInv'
BY DEF ChildInv, NoAbandonedProcess, TypeOK

\* execute_with_mode returns, or goes on, only after it has waited for its
\* child, and nobody else makes the kernel forget a process.
THEOREM ChildKept == Spec => []ChildInv
<1>1. Init => ChildInv
  BY DEF Init, ChildInv, NoAbandonedProcess, ChildStages, NoProcess
<1>2. TypeOK /\ ChildInv /\ [Next]_vars => ChildInv'
  <2> SUFFICES ASSUME TypeOK, ChildInv, [Next]_vars PROVE ChildInv'
    OBVIOUS
  <2>1. ASSUME NEW e \in Executions, ExecuteStep(e) PROVE ChildInv'
    <3> USE DEF Goto, Return, ChildStages
    <3>1. CASE \/ Skip(e) \/ Admit(e) \/ Register(e) \/ PrepareFail(e) \/ Prepare(e)
               \/ PreSucceed(e) \/ PreFail(e, TRUE) \/ PreFail(e, FALSE) \/ SpawnFail(e)
      <4>1. UNCHANGED <<proc, pid>>
        BY <3>1 DEF Skip, Admit, Register, PrepareFail, Prepare, PreSucceed, PreFail, SpawnFail
      <4>2. \A d \in Executions : pc'[d] \in ChildStages <=> pc[d] \in ChildStages
        BY <3>1 DEF Skip, Admit, Register, PrepareFail, Prepare, PreSucceed, PreFail,
                    SpawnFail, TypeOK
      <4> QED BY <4>1, <4>2, ChildUnmoved
    <3>2. CASE \/ Track(e) \/ Arm(e) \/ ReturnKilled(e) \/ Exited(e) \/ Untrack(e)
               \/ Post(e) \/ Close(e)
      <4>1. UNCHANGED <<proc, pid>>
        BY <3>2 DEF Track, Arm, ReturnKilled, Exited, Untrack, Post, Close
      <4>2. \A d \in Executions : pc'[d] \in ChildStages <=> pc[d] \in ChildStages
        BY <3>2 DEF Track, Arm, ReturnKilled, Exited, Untrack, Post, Close, TypeOK
      <4> QED BY <4>1, <4>2, ChildUnmoved
    <3>3. CASE Spawn(e)
      <4>1. PICK p \in Pids :
              /\ Free(p)
              /\ proc' = [proc EXCEPT ![p] = [main |-> "alive", code0 |-> FALSE,
                                              kids |-> FALSE, away |-> FALSE, owner |-> e]]
              /\ pid' = [pid EXCEPT ![e] = p]
        BY <3>3 DEF Spawn
      <4>2. pc[e] = "main" /\ pc' = [pc EXCEPT ![e] = "spawned"]
        BY <3>3 DEF Spawn
      <4>3. \A d \in Executions \ {e} : pc[d] \in ChildStages => pid[d] # p
        BY <4>1 DEF ChildInv, Free
      <4> QED BY <4>1, <4>2, <4>3 DEF ChildInv, NoAbandonedProcess, TypeOK
    <3>4. CASE Reap(e) \/ WaitFail(e)
      <4>1. pc[e] = "reading" /\ pid[e] \in Pids
        BY <3>4 DEF Reap, WaitFail, TypeOK
      <4>2. /\ \/ pc' = [pc EXCEPT ![e] = "reaped"]
               \/ pc' = [pc EXCEPT ![e] = "returned"]
            /\ pid' = pid
            /\ Collect(pid[e])
        BY <3>4 DEF Reap, WaitFail
      <4>3. \A d \in Executions \ {e} : pc[d] \in ChildStages => pid[d] # pid[e]
        BY <4>1 DEF ChildInv
      <4>4. proc' = [proc EXCEPT ![pid[e]] = Became(NoProcess, "gone", FALSE, proc[pid[e]].kids)]
        BY <4>2 DEF Collect
      <4>5. proc'[pid[e]].main = "gone"
        BY <4>1, <4>4 DEF Became, TypeOK
      <4>6. \A q \in Pids \ {pid[e]} : proc'[q] = proc[q]
        BY <4>4 DEF TypeOK
      <4>7. \A q \in Pids \ {pid[e]} : proc[q].main # "gone" => proc[q].owner # e
        BY DEF ChildInv, NoAbandonedProcess
      <4> HIDE DEF Collect
      <4>8. NoAbandonedProcess'
        BY <4>2, <4>5, <4>6, <4>7 DEF ChildInv, NoAbandonedProcess, TypeOK
      <4>9. \A d \in Executions : pc'[d] \in ChildStages =>
               d # e /\ pc[d] \in ChildStages
        BY <4>2 DEF TypeOK
      <4> QED BY <4>1, <4>2, <4>3, <4>6, <4>8, <4>9 DEF ChildInv, TypeOK
    <3> QED BY <2>1, <3>1, <3>2, <3>3, <3>4 DEF ExecuteStep
  <2>2. ASSUME NEW e \in Executions, TimerStep(e) PROVE ChildInv'
    <3>1. CASE TokenExpire(e) \/ WatchdogFire(e)
      BY <3>1, ChildUnmoved DEF TokenExpire, WatchdogFire
    <3>2. CASE WatchdogKill(e)
      <4>1. pid[e] \in Pids BY <3>2 DEF WatchdogKill, TypeOK
      <4>2. proc[pid[e]] \in Process BY <4>1 DEF TypeOK
      <4> QED
        BY <3>2, <4>1, <4>2, ProcessTypes, StruckKeeps, ChildStruck
        DEF WatchdogKill, kill_process_tree
    <3> QED BY <2>2, <3>1, <3>2 DEF TimerStep
  <2>3. ASSUME NEW k \in Killers, KillStep(k) PROVE ChildInv'
    <3>1. CASE KillLookup(k) \/ KillTake(k) \/ KillFlag(k) \/ KillClose(k)
      BY <3>1, ChildUnmoved DEF KillLookup, KillTake, KillFlag, KillClose
    <3>2. CASE KillSignal(k)
      <4>1. kPid[k] \in Pids BY <3>2 DEF KillSignal, TypeOK
      <4>2. proc[kPid[k]] \in Process BY <4>1 DEF TypeOK
      <4>3. UNCHANGED <<pc, pid>> /\ (UNCHANGED proc \/ kill_process_tree(kPid[k]))
        BY <3>2 DEF KillSignal
      <4>4. CASE UNCHANGED proc BY <4>3, <4>4, ChildUnmoved
      <4>5. CASE kill_process_tree(kPid[k])
        BY <4>1, <4>2, <4>3, <4>5, ProcessTypes, StruckKeeps, ChildStruck
        DEF kill_process_tree
      <4> QED BY <4>3, <4>4, <4>5
    <3> QED BY <2>3, <3>1, <3>2 DEF KillStep
  <2>4. ASSUME NEW p \in Pids, ProcessStep(p) PROVE ChildInv'
    <3>1. proc[p] \in Process BY DEF TypeOK
    <3>2. proc[p].main \in {"alive", "zombie", "gone"} /\ proc[p].code0 \in BOOLEAN
      BY <3>1 DEF Process
    <3>3. CASE ProcessExit(p)
      <4>1. PICK c \in BOOLEAN, d \in BOOLEAN :
              proc' = [proc EXCEPT ![p] = Became(proc[p], "zombie", c, d)]
        BY <3>3 DEF ProcessExit
      <4>2. Became(proc[p], "zombie", c, d) \in Process
            /\ Became(proc[p], "zombie", c, d).main = "zombie"
        BY <3>1 DEF Process, Became
      <4>3. Became(proc[p], "zombie", c, d).owner = proc[p].owner BY DEF Became
      <4>4. proc[p].main = "alive" /\ UNCHANGED <<pc, pid>> BY <3>3 DEF ProcessExit
      <4> DEFINE P == Became(proc[p], "zombie", c, d)
      <4>5. P \in Process /\ P.owner = proc[p].owner
            /\ (P.main = "gone" <=> proc[p].main = "gone")
        BY <4>2, <4>3, <4>4
      <4>6. proc' = [proc EXCEPT ![p] = P] BY <4>1
      <4> HIDE DEF P
      <4> QED BY <4>4, <4>5, <4>6, ChildStruck
    <3>4. CASE ChildrenExit(p)
      <4> DEFINE P == Became(proc[p], proc[p].main, proc[p].code0, FALSE)
      <4>1. P \in Process /\ P.main = proc[p].main BY <3>1, <3>2 DEF Process, Became
      <4>2. P.owner = proc[p].owner BY DEF Became
      <4>3. proc' = [proc EXCEPT ![p] = P] /\ UNCHANGED <<pc, pid>>
        BY <3>4 DEF ChildrenExit, TypeOK
      <4> HIDE DEF P
      <4> QED BY <4>1, <4>2, <4>3, ChildStruck
    <3>5. CASE Escape(p) \/ EscapedExit(p)
      <4>1. PICK Q \in Process :
              /\ proc' = [proc EXCEPT ![p] = Q]
              /\ Q.main = proc[p].main /\ Q.owner = proc[p].owner
        BY <3>5, EscapeStep DEF TypeOK
      <4>2. UNCHANGED <<pc, pid>> BY <3>5 DEF Escape, EscapedExit
      <4> QED BY <4>1, <4>2, ChildStruck
    <3> QED BY <2>4, <3>3, <3>4, <3>5 DEF ProcessStep
  <2>5. CASE UNCHANGED vars
    BY <2>5, ChildUnmoved DEF vars
  <2> QED
    BY <2>1, <2>2, <2>3, <2>4, <2>5 DEF Next
<1> QED BY <1>1, <1>2, TypeCorrect, PTL DEF Spec

\* So no main command is left without a call that waits for it.
THEOREM NoChildAbandoned == Spec => []NoAbandonedProcess
BY ChildKept, PTL DEF ChildInv

-----------------------------------------------------------------------------
(* The notify token.  A timer that would remove the token of a call at     *)
(* work can only have been started by a kill request, and such a request   *)
(* has set the flag of that call first: KillInv ties the two handlers.     *)

KillInv ==
    \A k \in Killers :
        (kpc[k] \in {"flagged", "signalled"} /\ kExec[k] # NoExec) => kExec[k] \in killedFlag

TokenInv ==
    /\ KillInv
    /\ \A e \in Executions \ killedFlag :
          /\ pc[e] # "returned" => e \notin cleanups
          /\ pc[e] \in CommandStages => e \in tokens

\* The token map and the flags are left alone, and calls stay on their side of
\* the stages that need a token.
LEMMA TokenUnmoved ==
    ASSUME TokenInv, UNCHANGED <<tokens, cleanups, killedFlag, kpc, kExec>>,
           \A e \in Executions :
              /\ pc'[e] \in CommandStages => pc[e] \in CommandStages
              /\ pc[e] = "returned" => pc'[e] = "returned"
    PROVE  TokenInv'
BY DEF TokenInv, KillInv

\* From the registration of the token to the last command of the call the token
\* stays valid, unless a kill request chose the call.
THEOREM TokenKept == Spec => []TokenWhileRunning
<1> USE DEF CommandStages
<1>1. Init => TokenInv
  BY DEF Init, TokenInv, KillInv
<1>2. TypeOK /\ TokenInv /\ [Next]_vars => TokenInv'
  <2> SUFFICES ASSUME TypeOK, TokenInv, [Next]_vars PROVE TokenInv'
    OBVIOUS
  <2>1. ASSUME NEW e \in Executions, ExecuteStep(e) PROVE TokenInv'
    <3> USE DEF Goto, Return, schedule_token_cleanup
    <3>1. CASE Skip(e) \/ Admit(e) \/ Register(e) \/ PrepareFail(e)
      <4>1. UNCHANGED <<tokens, cleanups, killedFlag, kpc, kExec>>
        BY <3>1 DEF Skip, Admit, Register, PrepareFail
      <4>2. \A d \in Executions :
               /\ pc'[d] \in CommandStages => pc[d] \in CommandStages
               /\ pc[d] = "returned" => pc'[d] = "returned"
        BY <3>1 DEF Skip, Admit, Register, PrepareFail, TypeOK
      <4> QED BY <4>1, <4>2, TokenUnmoved
    <3>2. CASE Prepare(e)
      BY <3>2 DEF Prepare, TokenInv, KillInv, TypeOK
    <3>3. CASE \/ PreSucceed(e) \/ Spawn(e) \/ Track(e) \/ Arm(e) \/ Reap(e)
               \/ Exited(e) \/ Untrack(e) \/ Post(e)
      <4>1. UNCHANGED <<tokens, cleanups, killedFlag, kpc, kExec>>
        BY <3>3 DEF PreSucceed, Spawn, Track, Arm, Reap, Exited, Untrack, Post
      <4>2. \A d \in Executions :
               /\ pc'[d] \in CommandStages => pc[d] \in CommandStages
               /\ pc[d] = "returned" => pc'[d] = "returned"
        BY <3>3 DEF PreSucceed, Spawn, Track, Arm, Reap, Exited, Untrack, Post, TypeOK
      <4> QED BY <4>1, <4>2, TokenUnmoved
    <3>4. CASE \/ PreFail(e, TRUE) \/ PreFail(e, FALSE) \/ SpawnFail(e) \/ WaitFail(e)
               \/ ReturnKilled(e) \/ Close(e)
      <4>1. UNCHANGED <<tokens, killedFlag, kpc, kExec>> /\ cleanups' = cleanups \union {e}
        BY <3>4 DEF PreFail, SpawnFail, WaitFail, ReturnKilled, Close
      <4>2. pc' = [pc EXCEPT ![e] = "returned"]
        BY <3>4 DEF PreFail, SpawnFail, WaitFail, ReturnKilled, Close
      <4> QED BY <4>1, <4>2 DEF TokenInv, KillInv, TypeOK
    <3> QED BY <2>1, <3>1, <3>2, <3>3, <3>4 DEF ExecuteStep
  <2>2. ASSUME NEW e \in Executions, TimerStep(e) PROVE TokenInv'
    <3>1. CASE TokenExpire(e)
      <4>1. pc[e] \in CommandStages => e \in killedFlag
        BY <3>1 DEF TokenExpire, TokenInv
      <4> QED BY <3>1, <4>1 DEF TokenExpire, TokenInv, KillInv
    <3>2. CASE WatchdogFire(e) \/ WatchdogKill(e)
      BY <3>2, TokenUnmoved DEF WatchdogFire, WatchdogKill
    <3> QED BY <2>2, <3>1, <3>2 DEF TimerStep
  <2>3. ASSUME NEW k \in Killers, KillStep(k) PROVE TokenInv'
    <3> USE DEF KillReturn
    <3>1. CASE KillLookup(k) BY <3>1 DEF KillLookup, TokenInv, KillInv, TypeOK
    <3>2. CASE KillTake(k) BY <3>2 DEF KillTake, TokenInv, KillInv, TypeOK
    <3>3. CASE KillFlag(k) BY <3>3 DEF KillFlag, TokenInv, KillInv, TypeOK
    <3>4. CASE KillSignal(k) BY <3>4 DEF KillSignal, TokenInv, KillInv, TypeOK
    <3>5. CASE KillClose(k)
      <4>1. kExec[k] \in Executions /\ kExec[k] # NoExec
        BY <3>5, ConstantsAssumption DEF KillClose, TypeOK
      <4>2. kExec[k] \in killedFlag
        BY <3>5, <4>1 DEF KillClose, TokenInv, KillInv
      <4> QED
        BY <3>5, <4>2 DEF KillClose, schedule_token_cleanup, TokenInv, KillInv, TypeOK
    <3> QED BY <2>3, <3>1, <3>2, <3>3, <3>4, <3>5 DEF KillStep
  <2>4. ASSUME NEW p \in Pids, ProcessStep(p) PROVE TokenInv'
    BY <2>4, TokenUnmoved DEF ProcessStep, ProcessExit, ChildrenExit, Escape, EscapedExit
  <2>5. CASE UNCHANGED vars
    BY <2>5, TokenUnmoved DEF vars
  <2> QED
    BY <2>1, <2>2, <2>3, <2>4, <2>5 DEF Next
<1>3. TokenInv => TokenWhileRunning
  BY DEF TokenInv, TokenWhileRunning
<1>4. QED
  BY <1>1, <1>2, <1>3, TypeCorrect, PTL DEF Spec

-----------------------------------------------------------------------------
(* The executor implements TaskContract.                                   *)

phaseBar == [e \in Executions |-> PhaseOf(pc[e])]

\* Where a call goes, its phase goes.
LEMMA PhaseMoves ==
    ASSUME TypeOK, NEW e \in Executions, NEW s, pc' = [pc EXCEPT ![e] = s],
           NEW from, NEW to, PhaseOf(pc[e]) = from, PhaseOf(s) = to
    PROVE  Contract!Move(e, from, to)
BY DEF TypeOK, Contract!Move

\* Between two stages of one phase the contract sees nothing.
LEMMA PhaseStays ==
    ASSUME TypeOK, NEW e \in Executions, NEW s, pc' = [pc EXCEPT ![e] = s],
           PhaseOf(s) = PhaseOf(pc[e])
    PROVE  phaseBar' = phaseBar
BY DEF TypeOK, phaseBar

\* The phases, one by one.
LEMMA Phases ==
    /\ PhaseOf("idle") = "waiting" /\ PhaseOf("admitted") = "accepted"
    /\ PhaseOf("registered") = "accepted" /\ PhaseOf("pre") = "accepted"
    /\ PhaseOf("main") = "accepted" /\ PhaseOf("spawned") = "launched"
    /\ PhaseOf("tracked") = "launched" /\ PhaseOf("reading") = "launched"
    /\ PhaseOf("reaped") = "launched" /\ PhaseOf("exited") = "settling"
    /\ PhaseOf("post") = "settling" /\ PhaseOf("closing") = "settling"
    /\ PhaseOf("returned") = "ended"
BY DEF PhaseOf

\* Every call of execute_with_mode keeps the promises of TaskContract: one
\* verdict, "killed" only for a launched call that a kill request had flagged.
THEOREM KeepsContract == Spec => ImplementsContract
<1> USE DEF Contract!End
<1>1. Init => Contract!Init
  BY Phases DEF Init, Contract!Init
<1>2. TypeOK /\ [Next]_vars => [Contract!Next]_<<phaseBar, outcome, killedFlag>>
  <2> SUFFICES ASSUME TypeOK, [Next]_vars
               PROVE  Contract!Next \/ UNCHANGED <<phaseBar, outcome, killedFlag>>
    OBVIOUS
  <2>1. ASSUME NEW e \in Executions, ExecuteStep(e)
        PROVE  Contract!Next \/ UNCHANGED <<phaseBar, outcome, killedFlag>>
    <3> USE DEF Goto, Return
    <3>1. CASE \/ Register(e) \/ Prepare(e) \/ PreSucceed(e) \/ Track(e) \/ Arm(e)
               \/ Reap(e) \/ Untrack(e) \/ Post(e)
      <4>1. UNCHANGED <<outcome, killedFlag>>
        BY <3>1 DEF Register, Prepare, PreSucceed, Track, Arm, Reap, Untrack, Post
      <4>2. \E s : pc' = [pc EXCEPT ![e] = s] /\ PhaseOf(s) = PhaseOf(pc[e])
        BY <3>1, Phases DEF Register, Prepare, PreSucceed, Track, Arm, Reap, Untrack, Post
      <4> QED BY <4>1, <4>2, PhaseStays
    <3>2. CASE Skip(e)
      <4>1. pc[e] = "idle" /\ pc' = [pc EXCEPT ![e] = "returned"]
        BY <3>2 DEF Skip
      <4>2. Contract!Move(e, "waiting", "ended") BY <4>1, PhaseMoves, Phases
      <4>3. Contract!Decline(e) BY <3>2, <4>2 DEF Skip, Contract!Decline
      <4> QED BY <4>3 DEF Contract!Next
    <3>3. CASE Admit(e)
      <4>1. pc[e] = "idle" /\ pc' = [pc EXCEPT ![e] = "admitted"]
        BY <3>3 DEF Admit
      <4>2. Contract!Move(e, "waiting", "accepted") BY <4>1, PhaseMoves, Phases
      <4>3. Contract!Accept(e) BY <3>3, <4>2 DEF Admit, Contract!Accept
      <4> QED BY <4>3 DEF Contract!Next
    <3>4. CASE PrepareFail(e) \/ PreFail(e, TRUE) \/ PreFail(e, FALSE) \/ SpawnFail(e)
      <4>1. /\ pc' = [pc EXCEPT ![e] = "returned"]
            /\ pc[e] \in {"registered", "pre", "main"}
            /\ \/ outcome' = [outcome EXCEPT ![e] = "error"]
               \/ outcome' = [outcome EXCEPT ![e] = "failed"]
            /\ UNCHANGED killedFlag
        BY <3>4 DEF PrepareFail, PreFail, SpawnFail
      <4>2. Contract!Move(e, "accepted", "ended") BY <4>1, PhaseMoves, Phases
      <4>3. Contract!GiveUp(e) BY <4>1, <4>2 DEF Contract!GiveUp
      <4> QED BY <4>3 DEF Contract!Next
    <3>5. CASE Spawn(e)
      <4>1. pc[e] = "main" /\ pc' = [pc EXCEPT ![e] = "spawned"]
        BY <3>5 DEF Spawn
      <4>2. Contract!Move(e, "accepted", "launched") BY <4>1, PhaseMoves, Phases
      <4>3. Contract!Launch(e) BY <3>5, <4>2 DEF Spawn, Contract!Launch
      <4> QED BY <4>3 DEF Contract!Next
    <3>6. CASE WaitFail(e)
      <4>1. pc[e] = "reading" /\ pc' = [pc EXCEPT ![e] = "returned"]
        BY <3>6 DEF WaitFail
      <4>2. Contract!Move(e, "launched", "ended") BY <4>1, PhaseMoves, Phases
      <4>3. Contract!Lose(e) BY <3>6, <4>2 DEF WaitFail, Contract!Lose
      <4> QED BY <4>3 DEF Contract!Next
    <3>7. CASE ReturnKilled(e)
      <4>1. pc[e] = "reaped" /\ pc' = [pc EXCEPT ![e] = "returned"]
        BY <3>7 DEF ReturnKilled
      <4>2. Contract!Move(e, "launched", "ended") BY <4>1, PhaseMoves, Phases
      <4>3. Contract!Stop(e) BY <3>7, <4>2 DEF ReturnKilled, Contract!Stop
      <4> QED BY <4>3 DEF Contract!Next
    <3>8. CASE Exited(e)
      <4>1. pc[e] = "reaped" /\ pc' = [pc EXCEPT ![e] = "exited"]
        BY <3>8 DEF Exited
      <4>2. Contract!Move(e, "launched", "settling") BY <4>1, PhaseMoves, Phases
      <4>3. Contract!Settle(e) BY <3>8, <4>2 DEF Exited, Contract!Settle
      <4> QED BY <4>3 DEF Contract!Next
    <3>9. CASE Close(e)
      <4>1. /\ pc[e] = "closing" /\ pc' = [pc EXCEPT ![e] = "returned"]
            /\ \/ outcome' = [outcome EXCEPT ![e] = "success"]
               \/ outcome' = [outcome EXCEPT ![e] = "failed"]
            /\ UNCHANGED killedFlag
        BY <3>9 DEF Close
      <4>2. Contract!Move(e, "settling", "ended") BY <4>1, PhaseMoves, Phases
      <4>3. Contract!Finish(e) BY <4>1, <4>2 DEF Contract!Finish
      <4> QED BY <4>3 DEF Contract!Next
    <3> QED
      BY <2>1, <3>1, <3>2, <3>3, <3>4, <3>5, <3>6, <3>7, <3>8, <3>9 DEF ExecuteStep
  <2>2. ASSUME NEW e \in Executions, TimerStep(e)
        PROVE  UNCHANGED <<phaseBar, outcome, killedFlag>>
    BY <2>2 DEF TimerStep, TokenExpire, WatchdogFire, WatchdogKill, phaseBar
  <2>3. ASSUME NEW k \in Killers, KillStep(k)
        PROVE  Contract!Next \/ UNCHANGED <<phaseBar, outcome, killedFlag>>
    <3>1. CASE KillLookup(k) \/ KillTake(k) \/ KillSignal(k) \/ KillClose(k)
      BY <3>1 DEF KillLookup, KillTake, KillSignal, KillClose, phaseBar
    <3>2. CASE KillFlag(k) /\ kExec[k] = NoExec
      BY <3>2 DEF KillFlag, phaseBar
    <3>3. CASE KillFlag(k) /\ kExec[k] # NoExec
      <4>1. kExec[k] \in Executions BY <3>3 DEF TypeOK
      <4>2. Contract!Ask(kExec[k]) BY <3>3 DEF KillFlag, Contract!Ask, phaseBar
      <4> QED BY <4>1, <4>2 DEF Contract!Next
    <3> QED BY <2>3, <3>1, <3>2, <3>3 DEF KillStep
  <2>4. ASSUME NEW p \in Pids, ProcessStep(p)
        PROVE  UNCHANGED <<phaseBar, outcome, killedFlag>>
    BY <2>4 DEF ProcessStep, ProcessExit, ChildrenExit, Escape, EscapedExit, phaseBar
  <2>5. CASE UNCHANGED vars
    BY <2>5 DEF vars, phaseBar
  <2> QED
    BY <2>1, <2>2, <2>3, <2>4, <2>5 DEF Next
<1>3. QED
  BY <1>1, <1>2, TypeCorrect, PTL DEF Spec, ImplementsContract, Contract!Spec, phaseBar

-----------------------------------------------------------------------------
(* running_tasks.  Outside the tasks whose calls overlapped, an entry is   *)
(* the pid of the only call at work, until that call or a kill request     *)
(* removes it: so the guard, the requests and the call agree on it.        *)

Tracked == {"tracked", "reading", "reaped", "exited"}
Accepted == {"registered", "pre", "main", "spawned"}

\* A kill request has chosen e, and taken the entry of its task.
Chosen(e) == e \in killedFlag \/ \E k \in Killers : kpc[k] = "taken" /\ kExec[k] = e

\* A kill request knows executions of its own task, which have been registered.
LookupInv ==
    /\ \A e \in infos \union killedFlag : pc[e] \notin {"idle", "admitted"}
    /\ \A k \in Killers : kExec[k] # NoExec =>
          TaskOf[kExec[k]] = kTask[k] /\ pc[kExec[k]] \notin {"idle", "admitted"}

\* The calls of a task without overlaps.
AloneInv ==
    \A d, e \in Executions :
        (d # e /\ TaskOf[d] = TaskOf[e] /\ TaskOf[e] \notin overlapped) =>
            ~(Active(d) /\ Active(e))

EntryInv ==
    \A e \in Executions : (Active(e) /\ TaskOf[e] \notin overlapped) =>
        /\ running[TaskOf[e]] # NoPid => pc[e] \in Tracked /\ pid[e] = running[TaskOf[e]]
        /\ Chosen(e) => running[TaskOf[e]] = NoPid /\ pc[e] \notin Accepted

OutcomeInv == \A e \in Executions : outcome[e] # "none" => pc[e] = "returned"

TrackInv ==
    LookupInv /\ AloneInv /\ EntryInv /\ OutcomeInv /\ TrackedIsOwn /\ TrackedUnlessTaken

\* What a step of a call leaves alone.
LEMMA CallStep ==
    ASSUME TypeOK, NEW e \in Executions, ExecuteStep(e)
    PROVE  /\ UNCHANGED <<killVars, killedFlag>> /\ overlapped \subseteq overlapped'
           /\ \A d \in Executions \ {e} :
                 pc'[d] = pc[d] /\ pid'[d] = pid[d] /\ outcome'[d] = outcome[d]
           /\ pc[e] # "returned" /\ pc'[e] # "idle"
<1> USE DEF Goto, Return, TypeOK
<1>1. CASE \/ Skip(e) \/ Admit(e) \/ Register(e) \/ PrepareFail(e) \/ Prepare(e)
           \/ PreSucceed(e) \/ PreFail(e, TRUE) \/ PreFail(e, FALSE) \/ SpawnFail(e)
  BY <1>1 DEF Skip, Admit, Register, PrepareFail, Prepare, PreSucceed, PreFail, SpawnFail
<1>2. CASE Spawn(e) \/ Track(e) \/ Arm(e) \/ Reap(e) \/ WaitFail(e)
  BY <1>2 DEF Spawn, Track, Arm, Reap, WaitFail
<1>3. CASE ReturnKilled(e) \/ Exited(e) \/ Untrack(e) \/ Post(e) \/ Close(e)
  BY <1>3 DEF ReturnKilled, Exited, Untrack, Post, Close
<1> QED BY <1>1, <1>2, <1>3 DEF ExecuteStep

LEMMA LookupStep ==
    ASSUME TypeOK, ConstantsAssumption, LookupInv, [Next]_vars
    PROVE  LookupInv'
<1> USE DEF LookupInv
<1>1. ASSUME NEW e \in Executions, ExecuteStep(e) PROVE LookupInv'
  <2>1. CASE Admit(e) \/ Skip(e)
    BY <2>1 DEF Admit, Skip, Goto, Return, TypeOK
  <2>2. CASE Register(e)
    BY <2>2 DEF Register, Goto, TypeOK
  <2>3. CASE ~(Admit(e) \/ Skip(e) \/ Register(e))
    <3>1. infos' \subseteq infos
      BY <1>1, <2>3
      DEF ExecuteStep, PrepareFail, Prepare, PreSucceed, PreFail, SpawnFail, Spawn, Track, Arm,
          Reap, WaitFail, ReturnKilled, Exited, Untrack, Post, Close
    <3>2. pc'[e] \notin {"idle", "admitted"}
      BY <1>1, <2>3
      DEF ExecuteStep, PrepareFail, Prepare, PreSucceed, PreFail, SpawnFail, Spawn, Track, Arm,
          Reap, WaitFail, ReturnKilled, Exited, Untrack, Post, Close, Goto, Return, TypeOK
    <3> QED BY <1>1, <3>1, <3>2, CallStep DEF TypeOK
  <2> QED BY <2>1, <2>2, <2>3
<1>2. ASSUME NEW e \in Executions, TimerStep(e) PROVE LookupInv'
  BY <1>2 DEF TimerStep, TokenExpire, WatchdogFire, WatchdogKill
<1>3. ASSUME NEW k \in Killers, KillStep(k) PROVE LookupInv'
  <2>1. CASE KillLookup(k) BY <2>1, ConstantsAssumption DEF KillLookup, TypeOK
  <2>2. CASE KillTake(k) BY <2>2 DEF KillTake, KillReturn, TypeOK
  <2>3. CASE KillFlag(k) BY <2>3 DEF KillFlag, TypeOK
  <2>4. CASE KillSignal(k) BY <2>4 DEF KillSignal, KillReturn, TypeOK
  <2>5. CASE KillClose(k) BY <2>5 DEF KillClose, KillReturn, TypeOK
  <2> QED BY <1>3, <2>1, <2>2, <2>3, <2>4, <2>5 DEF KillStep
<1>4. ASSUME NEW p \in Pids, ProcessStep(p) PROVE LookupInv'
  BY <1>4 DEF ProcessStep, ProcessExit, ChildrenExit, Escape, EscapedExit
<1>5. CASE UNCHANGED vars BY <1>5 DEF vars
<1> QED BY <1>1, <1>2, <1>3, <1>4, <1>5 DEF Next

LEMMA AloneStep ==
    ASSUME TypeOK, ConstantsAssumption, AloneInv, [Next]_vars
    PROVE  AloneInv'
<1>1. ASSUME NEW e \in Executions, ExecuteStep(e) PROVE AloneInv'
  <2>1. CASE Admit(e)
    <3>1. \A d \in Executions \ {e} : TaskOf[d] = TaskOf[e] /\ Active(d) => TaskOf[e] \in overlapped'
      BY <2>1 DEF Admit
    <3> QED BY <1>1, <2>1, <3>1, CallStep DEF Admit, Goto, AloneInv, Active, TypeOK
  <2>2. CASE ~Admit(e)
    <3>1. Active(e)' => Active(e)
      BY <1>1, <2>2
      DEF ExecuteStep, Skip, Register, PrepareFail, Prepare, PreSucceed, PreFail, SpawnFail,
          Spawn, Track, Arm, Reap, WaitFail, ReturnKilled, Exited, Untrack, Post, Close,
          Goto, Return, TypeOK, Active
    <3> QED BY <1>1, <3>1, CallStep DEF AloneInv, Active
  <2> QED BY <2>1, <2>2
<1>2. ASSUME NEW e \in Executions, TimerStep(e) PROVE AloneInv'
  BY <1>2 DEF TimerStep, TokenExpire, WatchdogFire, WatchdogKill, AloneInv, Active
<1>3. ASSUME NEW k \in Killers, KillStep(k) PROVE AloneInv'
  BY <1>3 DEF KillStep, KillLookup, KillTake, KillFlag, KillSignal, KillClose, AloneInv, Active
<1>4. ASSUME NEW p \in Pids, ProcessStep(p) PROVE AloneInv'
  BY <1>4 DEF ProcessStep, ProcessExit, ChildrenExit, Escape, EscapedExit, AloneInv, Active
<1>5. CASE UNCHANGED vars BY <1>5 DEF vars, AloneInv, Active
<1> QED BY <1>1, <1>2, <1>3, <1>4, <1>5 DEF Next

LEMMA OutcomeStep ==
    ASSUME TypeOK, OutcomeInv, [Next]_vars
    PROVE  OutcomeInv'
<1> USE DEF OutcomeInv
<1>1. ASSUME NEW e \in Executions, ExecuteStep(e) PROVE OutcomeInv'
  <2>1. outcome'[e] # "none" => pc'[e] = "returned"
    BY <1>1, CallStep
    DEF ExecuteStep, Skip, Admit, Register, PrepareFail, Prepare, PreSucceed, PreFail,
        SpawnFail, Spawn, Track, Arm, Reap, WaitFail, ReturnKilled, Exited, Untrack, Post,
        Close, Goto, Return, TypeOK
  <2> QED BY <1>1, <2>1, CallStep
<1>2. ASSUME NEW e \in Executions, TimerStep(e) PROVE OutcomeInv'
  BY <1>2 DEF TimerStep, TokenExpire, WatchdogFire, WatchdogKill
<1>3. ASSUME NEW k \in Killers, KillStep(k) PROVE OutcomeInv'
  BY <1>3 DEF KillStep, KillLookup, KillTake, KillFlag, KillSignal, KillClose
<1>4. ASSUME NEW p \in Pids, ProcessStep(p) PROVE OutcomeInv'
  BY <1>4 DEF ProcessStep, ProcessExit, ChildrenExit, Escape, EscapedExit
<1>5. CASE UNCHANGED vars BY <1>5 DEF vars
<1> QED BY <1>1, <1>2, <1>3, <1>4, <1>5 DEF Next

\* Steps other than these leave running_tasks alone.
LEMMA RunningStep ==
    ASSUME TypeOK, NEW e \in Executions, ExecuteStep(e), ~Track(e), ~Untrack(e)
    PROVE  running' = running
BY DEF ExecuteStep, Skip, Admit, Register, PrepareFail, Prepare, PreSucceed, PreFail, SpawnFail,
       Spawn, Arm, Reap, WaitFail, ReturnKilled, Exited, Post, Close

\* How a call at work goes on, other than by Track and Untrack.
LEMMA StageStep ==
    ASSUME TypeOK, NEW e \in Executions, ExecuteStep(e), ~Track(e), ~Untrack(e)
    PROVE  /\ pc'[e] \in Accepted => pc[e] \in {"admitted"} \union Accepted
           /\ pc[e] \in Tracked => (pc'[e] \in Tracked \/ pc'[e] = "returned") /\ pid'[e] = pid[e]
           /\ pc'[e] \in Tracked => pc[e] \in Tracked
           /\ pc[e] \in Tracked /\ pc'[e] = "returned" =>
                 outcome'[e] = "error" \/ (e \in killedFlag /\ pc[e] = "reaped")
           /\ pc[e] = "idle" => Admit(e) \/ Skip(e)
           /\ pc'[e] \in {"tracked", "reading"} => pc[e] = "tracked"
<1> USE DEF Goto, Return, TypeOK, Accepted, Tracked
<1>1. CASE \/ Skip(e) \/ Admit(e) \/ Register(e) \/ PrepareFail(e) \/ Prepare(e)
           \/ PreSucceed(e) \/ PreFail(e, TRUE) \/ PreFail(e, FALSE) \/ SpawnFail(e)
  BY <1>1 DEF Skip, Admit, Register, PrepareFail, Prepare, PreSucceed, PreFail, SpawnFail
<1>2. CASE Spawn(e) \/ Arm(e) \/ Reap(e) \/ WaitFail(e)
  BY <1>2 DEF Spawn, Arm, Reap, WaitFail
<1>3. CASE ReturnKilled(e) \/ Exited(e) \/ Post(e) \/ Close(e)
  BY <1>3 DEF ReturnKilled, Exited, Post, Close
<1> QED BY <1>1, <1>2, <1>3 DEF ExecuteStep

LEMMA EntryStep ==
    ASSUME TypeOK, ConstantsAssumption, LookupInv, AloneInv, EntryInv, [Next]_vars
    PROVE  EntryInv'
<1> SUFFICES ASSUME NEW e \in Executions, Active(e)', TaskOf[e] \notin overlapped'
             PROVE  /\ running'[TaskOf[e]] # NoPid =>
                          pc'[e] \in Tracked /\ pid'[e] = running'[TaskOf[e]]
                    /\ Chosen(e)' => running'[TaskOf[e]] = NoPid /\ pc'[e] \notin Accepted
  BY DEF EntryInv
<1> DEFINE t == TaskOf[e]
<1>0. t \in Tasks BY ConstantsAssumption
<1>1. ASSUME NEW d \in Executions, ExecuteStep(d)
      PROVE  /\ running'[t] # NoPid => pc'[e] \in Tracked /\ pid'[e] = running'[t]
             /\ Chosen(e)' => running'[t] = NoPid /\ pc'[e] \notin Accepted
  <2>0. (Chosen(e)' <=> Chosen(e)) /\ t \notin overlapped
    BY <1>1, CallStep DEF Chosen
  <2>1. CASE Admit(d) /\ d = e
    <3>1. pc[e] = "idle" /\ pc'[e] = "admitted" /\ running'[t] = NoPid
      BY <2>1 DEF Admit, Goto, TypeOK
    <3>2. ~Chosen(e) BY <3>1, ConstantsAssumption DEF LookupInv, Chosen
    <3> QED BY <2>0, <3>1, <3>2
  <2>2. CASE ~(Admit(d) /\ d = e)
    <3>1. Active(e)
      <4>1. pc[e] # "returned" BY <1>1, CallStep DEF Active
      <4>2. d # e => pc[e] # "idle" BY <1>1, CallStep DEF Active
      <4>3. d = e /\ pc[e] = "idle" => Skip(e)
        BY <1>1, <2>2, StageStep DEF Track, Untrack
      <4>4. Skip(e) => pc'[e] = "returned" BY DEF Skip, Return, Goto, TypeOK
      <4> QED BY <4>1, <4>2, <4>3, <4>4 DEF Active
    <3>2. /\ running[t] # NoPid => pc[e] \in Tracked /\ pid[e] = running[t]
          /\ Chosen(e) => running[t] = NoPid /\ pc[e] \notin Accepted
      BY <2>0, <3>1 DEF EntryInv
    <3>3. CASE Track(d)
      <4>1. pc[d] = "spawned" /\ pc'[d] = "tracked" /\ pid' = pid
            /\ running' = [running EXCEPT ![TaskOf[d]] = pid[d]]
        BY <3>3 DEF Track, Goto, TypeOK
      <4>2. CASE d = e
        BY <1>0, <2>0, <3>2, <4>1, <4>2 DEF Accepted, Tracked, TypeOK
      <4>3. CASE d # e
        <5>1. TaskOf[d] # t BY <2>0, <3>1, <4>1, <4>3 DEF AloneInv, Active
        <5> QED BY <1>0, <1>1, <2>0, <3>2, <4>1, <4>3, <5>1, CallStep DEF TypeOK
      <4> QED BY <4>2, <4>3
    <3>4. CASE Untrack(d)
      <4>1. pc[d] = "exited" /\ pc'[d] = "post" /\ pid' = pid
            /\ running' = [running EXCEPT ![TaskOf[d]] = NoPid]
        BY <3>4 DEF Untrack, Goto, TypeOK
      <4>2. CASE d = e
        BY <1>0, <4>1, <4>2 DEF Accepted, TypeOK
      <4>3. CASE d # e
        <5>1. TaskOf[d] # t BY <2>0, <3>1, <4>1, <4>3 DEF AloneInv, Active
        <5> QED BY <1>0, <1>1, <2>0, <3>2, <4>1, <4>3, <5>1, CallStep DEF TypeOK
      <4> QED BY <4>2, <4>3
    <3>5. CASE ~Track(d) /\ ~Untrack(d)
      <4>1. running' = running BY <1>1, <3>5, RunningStep
      <4>2. CASE d = e
        <5>1. pc'[e] # "returned" BY DEF Active
        <5>2. Chosen(e) => pc[e] # "admitted"
          BY ConstantsAssumption DEF LookupInv, Chosen
        <5> QED BY <1>1, <2>0, <3>2, <3>5, <4>1, <4>2, <5>1, <5>2, StageStep
      <4>3. CASE d # e
        BY <1>1, <2>0, <3>2, <4>1, <4>3, CallStep
      <4> QED BY <4>2, <4>3
    <3> QED BY <3>3, <3>4, <3>5
  <2> QED BY <2>1, <2>2
<1>2. ASSUME UNCHANGED <<pc, pid, running, overlapped>>, Chosen(e)' => Chosen(e)
      PROVE  /\ running'[t] # NoPid => pc'[e] \in Tracked /\ pid'[e] = running'[t]
             /\ Chosen(e)' => running'[t] = NoPid /\ pc'[e] \notin Accepted
  BY <1>2 DEF EntryInv, Active
<1>3. ASSUME NEW d \in Executions, TimerStep(d)
      PROVE  UNCHANGED <<pc, pid, running, overlapped>> /\ (Chosen(e)' => Chosen(e))
  BY <1>3 DEF TimerStep, TokenExpire, WatchdogFire, WatchdogKill, Chosen
<1>4. ASSUME NEW k \in Killers, KillStep(k), ~KillTake(k)
      PROVE  UNCHANGED <<pc, pid, running, overlapped>> /\ (Chosen(e)' => Chosen(e))
  <2>1. UNCHANGED <<pc, pid, running, overlapped>>
    BY <1>4 DEF KillStep, KillLookup, KillFlag, KillSignal, KillClose
  <2>2. CASE KillFlag(k) BY <2>1, <2>2 DEF KillFlag, Chosen, TypeOK
  <2>3. CASE KillLookup(k) \/ KillSignal(k) \/ KillClose(k)
    BY <2>1, <2>3 DEF KillLookup, KillSignal, KillClose, KillReturn, Chosen, TypeOK
  <2> QED BY <1>4, <2>1, <2>2, <2>3 DEF KillStep
<1>5. ASSUME NEW k \in Killers, KillTake(k)
      PROVE  /\ running'[t] # NoPid => pc'[e] \in Tracked /\ pid'[e] = running'[t]
             /\ Chosen(e)' => running'[t] = NoPid /\ pc'[e] \notin Accepted
  <2>0. Active(e) /\ t \notin overlapped /\ UNCHANGED <<pc, pid, overlapped, killedFlag>>
    BY <1>5 DEF KillTake, Active
  <2>1. /\ running[t] # NoPid => pc[e] \in Tracked /\ pid[e] = running[t]
        /\ Chosen(e) => running[t] = NoPid /\ pc[e] \notin Accepted
    BY <2>0 DEF EntryInv
  <2>2. kTask[k] \in Tasks BY <1>5 DEF KillTake, TypeOK
  <2>3. CASE running[kTask[k]] = NoPid
    <3>1. running' = running /\ (Chosen(e)' => Chosen(e))
      BY <1>5, <2>0, <2>3 DEF KillTake, KillReturn, Chosen, TypeOK
    <3> QED BY <2>0, <2>1, <3>1
  <2>4. CASE running[kTask[k]] # NoPid
    <3>1. /\ running' = [running EXCEPT ![kTask[k]] = NoPid] /\ kExec' = kExec
          /\ kpc' = [kpc EXCEPT ![k] = "taken"]
      BY <1>5, <2>4 DEF KillTake
    <3>2. Chosen(e)' => Chosen(e) \/ kExec[k] = e
      BY <2>0, <3>1 DEF Chosen, TypeOK
    <3>3. kExec[k] = e => kTask[k] = t
      BY ConstantsAssumption DEF LookupInv
    <3>4. running'[kTask[k]] = NoPid /\ (kTask[k] # t => running'[t] = running[t])
      BY <1>0, <2>2, <3>1 DEF TypeOK
    <3>5. Chosen(e)' /\ ~Chosen(e) => running'[t] = NoPid /\ pc[e] \in Tracked
      BY <2>1, <2>4, <3>2, <3>3, <3>4
    <3> QED BY <2>0, <2>1, <3>4, <3>5 DEF Tracked, Accepted
  <2> QED BY <2>3, <2>4
<1>6. ASSUME NEW p \in Pids, ProcessStep(p)
      PROVE  UNCHANGED <<pc, pid, running, overlapped>> /\ (Chosen(e)' => Chosen(e))
  BY <1>6 DEF ProcessStep, ProcessExit, ChildrenExit, Escape, EscapedExit, Chosen
<1>7. CASE UNCHANGED vars
  BY <1>2, <1>7 DEF vars, Chosen
<1> HIDE DEF t
<1> QED BY <1>1, <1>2, <1>3, <1>4, <1>5, <1>6, <1>7 DEF Next, t

LEMMA TrackedStep ==
    ASSUME TypeOK, ConstantsAssumption, EntryInv, OutcomeInv, TrackedIsOwn, [Next]_vars
    PROVE  TrackedIsOwn'
<1> DEFINE Owns(e, t) ==
        /\ TaskOf[e] = t /\ pid[e] = running[t]
        /\ pc[e] \in Tracked \/ outcome[e] = "error"
<1>0. TrackedIsOwn <=>
        \A t \in Tasks \ overlapped : running[t] # NoPid => \E e \in Executions : Owns(e, t)
  BY DEF TrackedIsOwn, Tracked
<1> SUFFICES ASSUME NEW t \in Tasks, t \notin overlapped', running'[t] # NoPid
             PROVE  \E e \in Executions : Owns(e, t)'
  BY DEF TrackedIsOwn, Tracked
<1>1. ASSUME NEW d \in Executions, ExecuteStep(d)
      PROVE  \E e \in Executions : Owns(e, t)'
  <2>0. t \notin overlapped BY <1>1, CallStep
  <2>1. CASE Track(d) /\ TaskOf[d] = t
    <3>1. pid' = pid /\ pc'[d] = "tracked" /\ running'[t] = pid[d]
      BY <2>1 DEF Track, Goto, TypeOK
    <3> QED BY <2>1, <3>1 DEF Tracked
  <2>2. CASE ~(Track(d) /\ TaskOf[d] = t)
    <3>1. running'[t] = running[t]
      <4>1. CASE Track(d) BY <2>2, <4>1 DEF Track, TypeOK
      <4>2. CASE Untrack(d) BY <4>2 DEF Untrack, TypeOK
      <4> QED BY <1>1, <4>1, <4>2, RunningStep
    <3>2. PICK e \in Executions : Owns(e, t) BY <1>0, <2>0, <3>1
    <3>3. CASE d # e BY <1>1, <3>1, <3>2, <3>3, CallStep
    <3>4. CASE d = e
      <4>1. pc[e] \in Tracked
        BY <1>1, <3>2, <3>4, CallStep DEF OutcomeInv
      <4>2. ~Track(e) /\ ~Untrack(e)
        BY <2>2, <3>1, <3>2, <3>4 DEF Track, Untrack, TypeOK
      <4>3. ~Chosen(e)
        BY <2>0, <3>1, <3>2, <4>1 DEF EntryInv, Active, Tracked
      <4>4. pid'[e] = pid[e] /\ (pc'[e] \in Tracked \/ outcome'[e] = "error")
        BY <1>1, <3>4, <4>1, <4>2, <4>3, StageStep DEF Chosen
      <4> QED BY <3>1, <3>2, <4>4
    <3> QED BY <3>3, <3>4
  <2> QED BY <2>1, <2>2
<1>2. ASSUME UNCHANGED <<execVars, overlapped>>, running'[t] = running[t]
      PROVE  \E e \in Executions : Owns(e, t)'
  BY <1>0, <1>2
<1>3. ASSUME NEW d \in Executions, TimerStep(d) PROVE \E e \in Executions : Owns(e, t)'
  BY <1>2, <1>3 DEF TimerStep, TokenExpire, WatchdogFire, WatchdogKill
<1>4. ASSUME NEW k \in Killers, KillStep(k) PROVE \E e \in Executions : Owns(e, t)'
  <2>1. CASE KillTake(k)
    <3>1. running'[t] = running[t] BY <2>1 DEF KillTake, TypeOK
    <3> QED BY <1>2, <2>1, <3>1 DEF KillTake
  <2>2. CASE ~KillTake(k)
    BY <1>2, <1>4, <2>2 DEF KillStep, KillLookup, KillFlag, KillSignal, KillClose
  <2> QED BY <2>1, <2>2
<1>5. ASSUME NEW p \in Pids, ProcessStep(p)
      PROVE  \E e \in Executions : Owns(e, t)'
  BY <1>2, <1>5 DEF ProcessStep, ProcessExit, ChildrenExit, Escape, EscapedExit
<1>6. CASE UNCHANGED vars BY <1>2, <1>6 DEF vars
<1> QED BY <1>1, <1>3, <1>4, <1>5, <1>6 DEF Next

\* The entry of e is there, or a request has it, or has used it.
Held(e) ==
    \/ running[TaskOf[e]] = pid[e]
    \/ \E k \in Killers : kpc[k] \in {"taken", "flagged"} /\ kPid[k] = pid[e]
    \/ proc[pid[e]].main = "zombie"

\* A process that has exited stays so until it is waited for.
LEMMA ZombieStep ==
    ASSUME TypeOK, ChildInv, NEW e \in Executions, pc[e] \in ChildStages,
           pc'[e] \in ChildStages, [Next]_vars
    PROVE  /\ pid'[e] = pid[e]
           /\ proc[pid[e]].main = "zombie" => proc'[pid[e]].main = "zombie"
<1>0. pid[e] \in Pids /\ proc[pid[e]] \in Process /\ proc[pid[e]].main # "gone"
  BY DEF TypeOK, ChildInv
<1> DEFINE p == pid[e]
<1>1. ASSUME NEW d \in Executions, ExecuteStep(d)
      PROVE  pid'[e] = p /\ (proc[p].main = "zombie" => proc'[p].main = "zombie")
  <2>1. CASE Spawn(d)
    <3>1. PICK q \in Pids : /\ Free(q) /\ pid' = [pid EXCEPT ![d] = q]
                            /\ proc' = [proc EXCEPT ![q] = [main |-> "alive", code0 |-> FALSE,
                                                            kids |-> FALSE, away |-> FALSE, owner |-> d]]
      BY <2>1 DEF Spawn
    <3>2. q # p BY <1>0, <3>1 DEF Free
    <3>3. d # e BY <2>1 DEF Spawn, ChildStages
    <3> QED BY <1>0, <3>1, <3>2, <3>3 DEF TypeOK
  <2>2. CASE Reap(d) \/ WaitFail(d)
    <3>1. pid' = pid /\ pc[d] \in ChildStages /\ Collect(pid[d])
      BY <2>2 DEF Reap, WaitFail, ChildStages
    <3>2. d # e BY <2>2 DEF Reap, WaitFail, Goto, Return, ChildStages, TypeOK
    <3>3. pid[d] # p BY <3>1, <3>2 DEF ChildInv
    <3> QED BY <1>0, <3>1, <3>3 DEF Collect, TypeOK
  <2>3. CASE ~Spawn(d) /\ ~Reap(d) /\ ~WaitFail(d)
    BY <1>1, <2>3
    DEF ExecuteStep, Skip, Admit, Register, PrepareFail, Prepare, PreSucceed, PreFail,
        SpawnFail, Track, Arm, ReturnKilled, Exited, Untrack, Post, Close
  <2> QED BY <2>1, <2>2, <2>3
<1>2. ASSUME NEW q \in Pids, pid' = pid,
             proc' = proc \/ kill_process_tree(q)
      PROVE  pid'[e] = p /\ (proc[p].main = "zombie" => proc'[p].main = "zombie")
  BY <1>0, <1>2 DEF kill_process_tree, Struck, Became, TypeOK
<1>3. ASSUME NEW d \in Executions, TimerStep(d)
      PROVE  pid'[e] = p /\ (proc[p].main = "zombie" => proc'[p].main = "zombie")
  BY <1>0, <1>2, <1>3 DEF TimerStep, TokenExpire, WatchdogFire, WatchdogKill, TypeOK
<1>4. ASSUME NEW k \in Killers, KillStep(k)
      PROVE  pid'[e] = p /\ (proc[p].main = "zombie" => proc'[p].main = "zombie")
  BY <1>0, <1>2, <1>4
  DEF KillStep, KillLookup, KillTake, KillFlag, KillSignal, KillClose, TypeOK
<1>5. ASSUME NEW q \in Pids, ProcessStep(q)
      PROVE  pid'[e] = p /\ (proc[p].main = "zombie" => proc'[p].main = "zombie")
  <2>1. CASE Escape(q) \/ EscapedExit(q)
    <3>1. PICK Q \in Process : proc' = [proc EXCEPT ![q] = Q] /\ Q.main = proc[q].main
      BY <2>1, EscapeStep DEF TypeOK
    <3> QED BY <1>0, <2>1, <3>1 DEF Escape, EscapedExit, TypeOK
  <2>2. CASE ProcessExit(q) \/ ChildrenExit(q)
    BY <1>0, <2>2 DEF ProcessExit, ChildrenExit, Became, TypeOK
  <2> QED BY <1>5, <2>1, <2>2 DEF ProcessStep
<1>6. CASE UNCHANGED vars BY <1>6 DEF vars
<1> QED BY <1>1, <1>3, <1>4, <1>5, <1>6 DEF Next

LEMMA HeldStep ==
    ASSUME TypeOK, ConstantsAssumption, ChildInv, AloneInv, TrackedUnlessTaken, [Next]_vars
    PROVE  TrackedUnlessTaken'
<1>0. TrackedUnlessTaken <=> \A e \in Executions :
        (pc[e] \in {"tracked", "reading"} /\ TaskOf[e] \notin overlapped) => Held(e)
  BY DEF TrackedUnlessTaken, Held
<1> SUFFICES ASSUME NEW e \in Executions, pc'[e] \in {"tracked", "reading"},
                    TaskOf[e] \notin overlapped'
             PROVE  Held(e)'
  BY DEF TrackedUnlessTaken, Held
<1>1. CASE Track(e)
  BY <1>1, ConstantsAssumption DEF Track, Held, TypeOK
<1>2. CASE ~Track(e)
  <2>1. /\ pc[e] \in {"tracked", "reading"} /\ TaskOf[e] \notin overlapped
        /\ \A d \in Executions : ExecuteStep(d) => d # e \/ Arm(e)
    <3>1. ASSUME NEW d \in Executions, ExecuteStep(d), d = e
          PROVE  Arm(e) /\ TaskOf[e] \notin overlapped /\ pc[e] \in {"tracked", "reading"}
      BY <1>2, <3>1
      DEF ExecuteStep, Skip, Admit, Register, PrepareFail, Prepare, PreSucceed, PreFail, Arm,
          SpawnFail, Spawn, Reap, WaitFail, ReturnKilled, Exited, Untrack, Post, Close,
          Goto, Return, TypeOK
    <3>2. ASSUME NEW d \in Executions, ExecuteStep(d), d # e
          PROVE  TaskOf[e] \notin overlapped /\ pc[e] \in {"tracked", "reading"}
      BY <3>2, CallStep
    <3>3. (\E d \in Executions : TimerStep(d)) => UNCHANGED <<pc, overlapped>>
      BY DEF TimerStep, TokenExpire, WatchdogFire, WatchdogKill
    <3>4. (\E k \in Killers : KillStep(k)) => UNCHANGED <<pc, overlapped>>
      BY DEF KillStep, KillLookup, KillTake, KillFlag, KillSignal, KillClose
    <3>5. (\E p \in Pids : ProcessStep(p)) => UNCHANGED <<pc, overlapped>>
      BY DEF ProcessStep, ProcessExit, ChildrenExit, Escape, EscapedExit
    <3> QED BY <3>1, <3>2, <3>3, <3>4, <3>5 DEF Next, vars
  <2>2. Held(e) BY <1>0, <2>1
  <2>3. /\ pid'[e] = pid[e]
        /\ proc[pid[e]].main = "zombie" => proc'[pid[e]].main = "zombie"
    BY <2>1, ZombieStep DEF ChildStages
  <2>4. ASSUME UNCHANGED <<running, kpc, kPid>> PROVE Held(e)'
    BY <2>2, <2>3, <2>4 DEF Held
  <2>5. ASSUME NEW d \in Executions, ExecuteStep(d) PROVE Held(e)'
    <3>1. UNCHANGED <<kpc, kPid>> BY <2>5, CallStep
    <3>2. CASE Track(d) \/ Untrack(d)
      <4>1. d # e BY <1>2, <2>1, <3>2 DEF Untrack
      <4>2. TaskOf[d] # TaskOf[e]
        BY <2>1, <3>2, <4>1 DEF AloneInv, Active, Track, Untrack
      <4>3. running'[TaskOf[e]] = running[TaskOf[e]]
        BY <3>2, <4>2, ConstantsAssumption DEF Track, Untrack, TypeOK
      <4> QED BY <2>2, <2>3, <3>1, <4>3 DEF Held
    <3>3. CASE ~Track(d) /\ ~Untrack(d)
      BY <2>4, <2>5, <3>1, <3>3, RunningStep
    <3> QED BY <3>2, <3>3
  <2>6. ASSUME NEW d \in Executions, TimerStep(d) PROVE Held(e)'
    BY <2>4, <2>6 DEF TimerStep, TokenExpire, WatchdogFire, WatchdogKill
  <2>7. ASSUME NEW k \in Killers, KillStep(k) PROVE Held(e)'
    <3>1. CASE KillLookup(k)
      BY <2>2, <2>3, <3>1 DEF KillLookup, Held, TypeOK
    <3>2. CASE KillTake(k)
      BY <2>2, <2>3, <3>2, ConstantsAssumption DEF KillTake, KillReturn, Held, TypeOK
    <3>3. CASE KillFlag(k)
      BY <2>2, <2>3, <3>3 DEF KillFlag, Held, TypeOK
    <3>4. CASE KillSignal(k)
      <4>1. pid[e] \in Pids /\ proc[pid[e]] \in Process /\ proc[pid[e]].main # "gone"
        BY <2>1 DEF TypeOK, ChildInv, ChildStages
      <4>2. CASE kPid[k] = pid[e]
        <5>1. kill_process_tree(pid[e]) BY <3>4, <4>1, <4>2 DEF KillSignal, Free
        <5>2. proc'[pid[e]] = Struck(proc[pid[e]])
          BY <4>1, <5>1 DEF kill_process_tree, TypeOK
        <5>3. Struck(proc[pid[e]]).main = "zombie"
          BY <4>1 DEF Struck, Became, Process
        <5> QED BY <2>3, <5>2, <5>3 DEF Held
      <4>3. CASE kPid[k] # pid[e]
        <5>1. running' = running /\ \A j \in Killers \ {k} : kpc'[j] = kpc[j] /\ kPid'[j] = kPid[j]
          BY <3>4 DEF KillSignal, KillReturn, TypeOK
        <5> QED BY <2>2, <2>3, <4>3, <5>1 DEF Held
      <4> QED BY <4>2, <4>3
    <3>5. CASE KillClose(k)
      BY <2>2, <2>3, <3>5 DEF KillClose, KillReturn, Held, TypeOK
    <3> QED BY <2>7, <3>1, <3>2, <3>3, <3>4, <3>5 DEF KillStep
  <2>8. ASSUME NEW p \in Pids, ProcessStep(p) PROVE Held(e)'
    BY <2>4, <2>8 DEF ProcessStep, ProcessExit, ChildrenExit, Escape, EscapedExit
  <2> QED BY <2>4, <2>5, <2>6, <2>7, <2>8 DEF Next, vars
<1> QED BY <1>1, <1>2

\* All that is known of running_tasks, together.
THEOREM TrackingKept == Spec => []TrackInv
<1>1. Init => TrackInv
  BY ConstantsAssumption
  DEF Init, TrackInv, LookupInv, AloneInv, EntryInv, OutcomeInv, TrackedIsOwn,
      TrackedUnlessTaken, Active
<1>2. TypeOK /\ ChildInv /\ TrackInv /\ [Next]_vars => TrackInv'
  BY ConstantsAssumption, LookupStep, AloneStep, EntryStep, OutcomeStep, TrackedStep, HeldStep
  DEF TrackInv
<1> QED BY <1>1, <1>2, TypeCorrect, ChildKept, PTL DEF Spec

\* No entry of running_tasks outlives the call that made it, unless waiting for
\* the child failed, in every task whose calls never overlapped.
THEOREM EntriesOwned == Spec => []TrackedIsOwn
BY TrackingKept, PTL DEF TrackInv

\* A main command at work is in running_tasks, or a kill request has its pid, or
\* it has exited, in every task whose calls never overlapped.
THEOREM CommandsFound == Spec => []TrackedUnlessTaken
BY TrackingKept, PTL DEF TrackInv

-----------------------------------------------------------------------------
(* The verdict.  A call sends it as it returns, in the step that drops its *)
(* entries, and nobody opens them again.                                   *)

ReportInv ==
    \A e \in Executions :
        /\ pc[e] # "returned" => notices[e] \subseteq {"killed"}
        /\ notices[e] \intersect {"success", "failed"} # {} =>
              /\ e \notin infos /\ e \notin channels
              /\ notices[e] \ {"killed"} = {outcome[e]}

\* A step that sends nothing, and opens nothing for a call that has returned.
LEMMA ReportUnmoved ==
    ASSUME ReportInv, notices' = notices,
           \A e \in Executions :
              /\ pc[e] = "returned" => pc'[e] = "returned" /\ outcome'[e] = outcome[e]
              /\ pc[e] = "returned" /\ e \in infos' => e \in infos
              /\ pc[e] = "returned" /\ e \in channels' => e \in channels
    PROVE  ReportInv'
BY DEF ReportInv

\* A call that reports success or failure has closed its entries, and that is
\* the only verdict it sends.
THEOREM VerdictCloses == Spec => []ReportedIsClosed
<1>1. Init => ReportInv BY DEF Init, ReportInv
<1>2. TypeOK /\ ReportInv /\ [Next]_vars => ReportInv'
  <2> SUFFICES ASSUME TypeOK, ReportInv, [Next]_vars PROVE ReportInv' OBVIOUS
  <2>1. ASSUME NEW e \in Executions, ExecuteStep(e) PROVE ReportInv'
    <3>1. CASE Close(e)
      <4> DEFINE v == IF ok[e] THEN "success" ELSE "failed"
      <4>1. /\ pc'[e] = "returned" /\ outcome'[e] = v /\ notices'[e] = notices[e] \union {v}
            /\ infos' = infos \ {e} /\ channels' = channels \ {e} /\ pc[e] = "closing"
        BY <3>1 DEF Close, Return, Goto, TypeOK
      <4>2. notices[e] \subseteq {"killed"} BY <4>1 DEF ReportInv
      <4>3. \A d \in Executions \ {e} : notices'[d] = notices[d]
        BY <3>1 DEF Close, TypeOK
      <4>4. v \in {"success", "failed"} OBVIOUS
      <4> HIDE DEF v
      <4>5. notices'[e] \ {"killed"} = {outcome'[e]} BY <4>1, <4>2, <4>4
      <4> QED BY <2>1, <4>1, <4>3, <4>5, CallStep DEF ReportInv
    <3>2. CASE ~Close(e)
      <4>1. /\ notices' = notices /\ infos' \subseteq infos \union {e}
            /\ channels' \subseteq channels \union {e}
        BY <2>1, <3>2
        DEF ExecuteStep, Skip, Admit, Register, PrepareFail, Prepare, PreSucceed, PreFail,
            SpawnFail, Spawn, Track, Arm, Reap, WaitFail, ReturnKilled, Exited, Untrack, Post
      <4> QED BY <2>1, <4>1, CallStep, ReportUnmoved
    <3> QED BY <3>1, <3>2
  <2>2. ASSUME NEW e \in Executions, TimerStep(e) PROVE ReportInv'
    BY <2>2, ReportUnmoved DEF TimerStep, TokenExpire, WatchdogFire, WatchdogKill
  <2>3. ASSUME NEW k \in Killers, KillStep(k) PROVE ReportInv'
    <3>1. CASE KillClose(k)
      <4>1. kExec[k] \in Executions BY <3>1 DEF KillClose, TypeOK
      <4> DEFINE e == kExec[k]
      <4>2. /\ notices'[e] = notices[e] \union {"killed"} /\ infos' = infos \ {e}
            /\ channels' = channels \ {e} /\ UNCHANGED <<pc, outcome>>
            /\ \A d \in Executions \ {e} : notices'[d] = notices[d]
        BY <3>1, <4>1 DEF KillClose, TypeOK
      <4> HIDE DEF e
      <4>3. notices'[e] \ {"killed"} = notices[e] \ {"killed"}
            /\ notices'[e] \intersect {"success", "failed"} =
               notices[e] \intersect {"success", "failed"}
        BY <4>2
      <4> QED BY <4>2, <4>3 DEF ReportInv
    <3>2. CASE ~KillClose(k)
      BY <2>3, <3>2, ReportUnmoved DEF KillStep, KillLookup, KillTake, KillFlag, KillSignal
    <3> QED BY <3>1, <3>2
  <2>4. ASSUME NEW p \in Pids, ProcessStep(p) PROVE ReportInv'
    BY <2>4, ReportUnmoved DEF ProcessStep, ProcessExit, ChildrenExit, Escape, EscapedExit
  <2>5. CASE UNCHANGED vars BY <2>5, ReportUnmoved DEF vars
  <2> QED BY <2>1, <2>2, <2>3, <2>4, <2>5 DEF Next
<1>3. ReportInv => ReportedIsClosed BY DEF ReportInv, ReportedIsClosed
<1> QED BY <1>1, <1>2, <1>3, TypeCorrect, PTL DEF Spec
-----------------------------------------------------------------------------
(* What the timers owe: the safety behind TimedTaskStops and TokensExpire.  *)

\* A call that waits for the main command of a task with a timeout has a watchdog, and
\* once that has done its work the command is dead and nobody is left in its group.
WatchdogOwed ==
    \A e \in Executions : pc[e] = "reading" =>
        /\ watchdog[e] = "off" => TaskOf[e] \notin Timed
        /\ watchdog[e] = "spent" => proc[pid[e]].main = "zombie" /\ ~proc[pid[e]].kids

\* A token that its call has left behind has a timer that will remove it.
TokenOwed == \A e \in Executions : pc[e] = "returned" /\ e \in tokens => e \in cleanups

BeforeReading ==
    {"idle", "admitted", "registered", "pre", "main", "spawned", "tracked"}

OwedInv ==
    /\ WatchdogOwed /\ TokenOwed
    /\ \A e \in Executions :
          /\ pc[e] \in {"idle", "admitted", "registered"} => e \notin tokens
          /\ pc[e] \in BeforeReading => watchdog[e] = "off"

\* A step of one call that starts no watchdog, and the others'.
LEMMA OwedUnmoved ==
    ASSUME OwedInv, UNCHANGED <<watchdog, tokens>>, cleanups \subseteq cleanups',
           \A e \in Executions :
              /\ pc'[e] = pc[e] \/
                    /\ pc'[e] \notin ChildStages
                    /\ pc'[e] \in BeforeReading => pc[e] \in BeforeReading
                    /\ pc'[e] \in {"idle", "admitted", "registered"} =>
                          pc[e] \in {"idle", "admitted", "registered"}
                    /\ pc'[e] = "returned" => e \notin tokens \/ e \in cleanups'
              /\ pc'[e] = "reading" =>
                    pid'[e] = pid[e] /\ (proc[pid[e]].main = "zombie" /\ ~proc[pid[e]].kids =>
                                            proc'[pid[e]].main = "zombie" /\ ~proc'[pid[e]].kids)
    PROVE  OwedInv'
BY DEF OwedInv, WatchdogOwed, TokenOwed, ChildStages, BeforeReading

\* From then on, nobody new comes to hold the pipes from outside the group: the only
\* thing a timed call can still wait for is a process that left the group before.
NoNewHolder ==
    \A e \in Executions :
        (pc[e] = "reading" /\ watchdog[e] = "spent" /\ pc'[e] = "reading") =>
            (proc'[pid'[e]].away => proc[pid[e]].away)

\* A dead process that is waited for stays as it is, whatever becomes of another one.
LEMMA DeadStays ==
    ASSUME TypeOK, NEW p \in Pids, NEW P \in Process, proc' = [proc EXCEPT ![p] = P],
           proc[p].main = "zombie" /\ ~proc[p].kids => P.main = "zombie" /\ ~P.kids
    PROVE  \A q \in Pids : proc[q].main = "zombie" /\ ~proc[q].kids =>
              proc'[q].main = "zombie" /\ ~proc'[q].kids
BY DEF TypeOK

\* What a signal or an exit does to one process.
LEMMA StruckFacts ==
    ASSUME NEW P \in Process
    PROVE  /\ Struck(P) \in Process /\ ~Struck(P).kids
           /\ P.main # "gone" => Struck(P).main = "zombie"
           /\ P.main = "zombie" => Struck(P).main = "zombie"
           /\ Struck(P).away = P.away
           /\ \A m \in {"alive", "zombie", "gone"}, c, d \in BOOLEAN :
                 Became(P, m, c, d) \in Process /\ Became(P, m, c, d).main = m
                 /\ Became(P, m, c, d).kids = d /\ Became(P, m, c, d).away = P.away
BY DEF Process, Struck, Became

\* What becomes of one process when another call, a timer, a request or the kernel acts:
\* only Escape lets somebody outside the group hold its pipes, and only while the group
\* has members.
LEMMA AwayStep ==
    ASSUME TypeOK, ChildInv, [Next]_vars, NEW e \in Executions, pc[e] = "reading",
           pc'[e] = "reading", proc[pid[e]].main = "zombie", ~proc[pid[e]].kids
    PROVE  pid'[e] = pid[e] /\ (proc'[pid[e]].away => proc[pid[e]].away)
<1> DEFINE p == pid[e]
<1>0. p \in Pids /\ proc[p] \in Process /\ proc[p].main # "gone"
  BY DEF TypeOK, ChildInv, ChildStages
<1>1. ASSUME NEW d \in Executions, ExecuteStep(d)
      PROVE  pid'[e] = p /\ (proc'[p].away => proc[p].away)
  <2>1. CASE Spawn(d)
    <3>1. PICK q \in Pids :
            /\ Free(q) /\ pid' = [pid EXCEPT ![d] = q]
            /\ proc' = [proc EXCEPT ![q] = [main |-> "alive", code0 |-> FALSE,
                                            kids |-> FALSE, away |-> FALSE, owner |-> d]]
      BY <2>1 DEF Spawn
    <3>2. q # p /\ d # e BY <1>0, <2>1, <3>1 DEF Free, Spawn
    <3> QED BY <3>1, <3>2 DEF TypeOK
  <2>2. CASE Reap(d) \/ WaitFail(d)
    <3>1. d # e BY <2>2 DEF Reap, WaitFail, Goto, Return, TypeOK
    <3>2. pid[d] # p BY <2>2, <3>1 DEF Reap, WaitFail, ChildInv, ChildStages
    <3>3. pid' = pid
          /\ proc' = [proc EXCEPT ![pid[d]] = Became(NoProcess, "gone", FALSE, proc[pid[d]].kids)]
      BY <2>2 DEF Reap, WaitFail, Collect
    <3> QED BY <1>0, <3>2, <3>3 DEF TypeOK
  <2>3. CASE ~Spawn(d) /\ ~Reap(d) /\ ~WaitFail(d)
    BY <1>1, <2>3
    DEF ExecuteStep, Skip, Admit, Register, PrepareFail, Prepare, PreSucceed, PreFail,
        SpawnFail, Track, Arm, ReturnKilled, Exited, Untrack, Post, Close
  <2> QED BY <2>1, <2>2, <2>3
<1>2. \A q \in Pids : Struck(proc[q]).away = proc[q].away
  BY StruckFacts DEF TypeOK
<1>3. ASSUME NEW d \in Executions, TimerStep(d)
      PROVE  pid'[e] = p /\ (proc'[p].away => proc[p].away)
  BY <1>0, <1>2, <1>3
  DEF TimerStep, TokenExpire, WatchdogFire, WatchdogKill, kill_process_tree, TypeOK
<1>4. ASSUME NEW k \in Killers, KillStep(k)
      PROVE  pid'[e] = p /\ (proc'[p].away => proc[p].away)
  BY <1>0, <1>2, <1>4
  DEF KillStep, KillLookup, KillTake, KillFlag, KillSignal, KillClose, kill_process_tree,
      TypeOK
<1>5. ASSUME NEW q \in Pids, ProcessStep(q)
      PROVE  pid'[e] = p /\ (proc'[p].away => proc[p].away)
  BY <1>0, <1>5
  DEF ProcessStep, ProcessExit, ChildrenExit, Escape, EscapedExit, Became, TypeOK, Process
<1>6. CASE UNCHANGED vars BY <1>6 DEF vars
<1> QED BY <1>1, <1>3, <1>4, <1>5, <1>6 DEF Next

\* A call of a task with a timeout cannot come to wait for its command without a
\* watchdog, nor the watchdog end while the command or its group live on, and after that
\* nobody new can come to hold the pipes; and no way out of execute_with_mode forgets the
\* timer of the token, also when a kill request started one before.
THEOREM TimersOwed == Spec => [](WatchdogOwed /\ TokenOwed) /\ [][NoNewHolder]_vars
<1>1. Init => OwedInv
  BY DEF Init, OwedInv, WatchdogOwed, TokenOwed
<1>2. TypeOK /\ ChildInv /\ OwedInv /\ [Next]_vars => OwedInv'
  <2> SUFFICES ASSUME TypeOK, ChildInv, OwedInv, [Next]_vars PROVE OwedInv' OBVIOUS
  <2> USE DEF Goto, Return, schedule_token_cleanup, BeforeReading
  <2>0. \A e \in Executions : pc[e] \in ChildStages => pid[e] \in Pids
    BY DEF TypeOK
  <2>1. ASSUME NEW e \in Executions, ExecuteStep(e) PROVE OwedInv'
    <3>0. \A d \in Executions \ {e} : pc'[d] = pc[d] /\ pid'[d] = pid[d]
      BY <2>1, CallStep DEF TypeOK
    <3>1. CASE Prepare(e)
      BY <3>1 DEF Prepare, OwedInv, WatchdogOwed, TokenOwed, TypeOK
    <3>2. CASE Spawn(e)
      <4>1. PICK p \in Pids :
              /\ Free(p) /\ pid' = [pid EXCEPT ![e] = p]
              /\ proc' = [proc EXCEPT ![p] = [main |-> "alive", code0 |-> FALSE,
                                              kids |-> FALSE, away |-> FALSE, owner |-> e]]
        BY <3>2 DEF Spawn
      <4>2. \A d \in Executions : pc[d] = "reading" => pid[d] # p /\ d # e
        BY <4>1, <3>2 DEF ChildInv, Free, ChildStages, Spawn
      <4>3. \A d \in Executions : pc[d] = "reading" =>
               pid'[d] = pid[d] /\ proc'[pid[d]] = proc[pid[d]]
        BY <4>1, <4>2, <2>0 DEF TypeOK, ChildStages
      <4>4. watchdog[e] = "off"
        BY <3>2 DEF Spawn, OwedInv
      <4> QED BY <3>2, <4>3, <4>4 DEF Spawn, OwedInv, WatchdogOwed, TokenOwed, TypeOK
    <3>3. CASE Track(e) \/ Arm(e)
      BY <3>3 DEF Track, Arm, OwedInv, WatchdogOwed, TokenOwed, TypeOK
    <3>4. CASE Reap(e) \/ WaitFail(e)
      <4>1. \A d \in Executions \ {e} : pc[d] = "reading" => pid[d] # pid[e]
        BY <3>4 DEF Reap, WaitFail, ChildInv, ChildStages
      <4>2. \A d \in Executions \ {e} : pc[d] = "reading" => proc'[pid[d]] = proc[pid[d]]
        <5>1. proc' = [proc EXCEPT ![pid[e]] = Became(NoProcess, "gone", FALSE, proc[pid[e]].kids)]
          BY <3>4 DEF Reap, WaitFail, Collect
        <5> QED BY <5>1, <4>1, <2>0 DEF TypeOK, ChildStages
      <4>3. pc'[e] \in {"reaped", "returned"} /\ pid' = pid
            /\ UNCHANGED <<watchdog, tokens>> /\ cleanups \subseteq cleanups'
            /\ (pc'[e] = "returned" => e \in cleanups')
        BY <3>4 DEF Reap, WaitFail, TypeOK
      <4> QED BY <3>0, <4>2, <4>3, OwedUnmoved DEF ChildStages
    <3>5. CASE \/ Skip(e) \/ Admit(e) \/ Register(e) \/ PrepareFail(e) \/ PreSucceed(e)
               \/ PreFail(e, TRUE) \/ PreFail(e, FALSE) \/ SpawnFail(e)
      <4>1. /\ UNCHANGED <<watchdog, tokens, proc, pid>> /\ cleanups \subseteq cleanups'
            /\ pc'[e] \in {"returned", "admitted", "registered", "main"}
            /\ pc'[e] \in {"admitted", "registered"} => pc[e] \in {"idle", "admitted"}
            /\ pc'[e] = "main" => pc[e] = "pre"
            /\ pc'[e] = "returned" => pc[e] \in {"idle", "registered"} \/ e \in cleanups'
        BY <3>5 DEF Skip, Admit, Register, PrepareFail, PreSucceed, PreFail, SpawnFail, TypeOK
      <4>2. pc'[e] = "returned" => e \notin tokens \/ e \in cleanups'
        BY <4>1 DEF OwedInv
      <4> QED BY <3>0, <4>1, <4>2, OwedUnmoved DEF ChildStages
    <3>6. CASE ReturnKilled(e) \/ Exited(e) \/ Untrack(e) \/ Post(e) \/ Close(e)
      <4>1. /\ UNCHANGED <<watchdog, tokens, proc, pid>> /\ cleanups \subseteq cleanups'
            /\ pc'[e] \in {"returned", "exited", "post", "closing"}
            /\ pc'[e] = "returned" => e \in cleanups'
        BY <3>6 DEF ReturnKilled, Exited, Untrack, Post, Close, TypeOK
      <4> QED BY <3>0, <4>1, OwedUnmoved DEF ChildStages
    <3> QED BY <2>1, <3>1, <3>2, <3>3, <3>4, <3>5, <3>6 DEF ExecuteStep
  <2>2. ASSUME NEW e \in Executions, TimerStep(e) PROVE OwedInv'
    <3>1. CASE TokenExpire(e)
      BY <3>1 DEF TokenExpire, OwedInv, WatchdogOwed, TokenOwed
    <3>2. CASE WatchdogFire(e)
      BY <3>2 DEF WatchdogFire, OwedInv, WatchdogOwed, TokenOwed, TypeOK
    <3>3. CASE WatchdogKill(e)
      <4>1. pid[e] \in Pids /\ proc[pid[e]] \in Process /\ watchdog[e] = "firing"
            /\ proc' = [proc EXCEPT ![pid[e]] = Struck(proc[pid[e]])]
        BY <3>3 DEF WatchdogKill, kill_process_tree, TypeOK
      <4>2. \A q \in Pids : proc[q].main = "zombie" /\ ~proc[q].kids =>
               proc'[q].main = "zombie" /\ ~proc'[q].kids
        BY <4>1, StruckFacts, DeadStays
      <4>3. pc[e] = "reading" => proc'[pid[e]].main = "zombie" /\ ~proc'[pid[e]].kids
        <5>1. pc[e] = "reading" => proc[pid[e]].main # "gone"
          BY DEF ChildInv, ChildStages
        <5>2. proc'[pid[e]] = Struck(proc[pid[e]])
          BY <4>1 DEF TypeOK
        <5> QED BY <4>1, <5>1, <5>2, StruckFacts
      <4>4. watchdog' = [watchdog EXCEPT ![e] = "spent"]
            /\ UNCHANGED <<pc, pid, tokens, cleanups>>
        BY <3>3 DEF WatchdogKill
      <4> QED BY <2>0, <4>1, <4>2, <4>3, <4>4
              DEF OwedInv, WatchdogOwed, TokenOwed, TypeOK, ChildStages
    <3> QED BY <2>2, <3>1, <3>2, <3>3 DEF TimerStep
  <2>3. ASSUME NEW k \in Killers, KillStep(k) PROVE OwedInv'
    <3>1. UNCHANGED <<pc, pid, watchdog, tokens>> /\ cleanups \subseteq cleanups'
      BY <2>3 DEF KillStep, KillLookup, KillTake, KillFlag, KillSignal, KillClose, KillReturn
    <3>2. \A q \in Pids : proc[q].main = "zombie" /\ ~proc[q].kids =>
             proc'[q].main = "zombie" /\ ~proc'[q].kids
      <4>1. CASE KillSignal(k) /\ proc' # proc
        <5>1. kPid[k] \in Pids /\ proc[kPid[k]] \in Process
              /\ proc' = [proc EXCEPT ![kPid[k]] = Struck(proc[kPid[k]])]
          BY <4>1 DEF KillSignal, kill_process_tree, TypeOK
        <5> QED BY <5>1, StruckFacts, DeadStays
      <4>2. CASE ~KillSignal(k) \/ proc' = proc
        BY <2>3, <4>2 DEF KillStep, KillLookup, KillTake, KillFlag, KillClose
      <4> QED BY <4>1, <4>2
    <3> QED BY <2>0, <3>1, <3>2, OwedUnmoved DEF ChildStages
  <2>4. ASSUME NEW p \in Pids, ProcessStep(p) PROVE OwedInv'
    <3>1. UNCHANGED <<pc, pid, watchdog, tokens, cleanups>>
      BY <2>4 DEF ProcessStep, ProcessExit, ChildrenExit, Escape, EscapedExit
    <3>2. \A q \in Pids : proc[q].main = "zombie" /\ ~proc[q].kids =>
             proc'[q].main = "zombie" /\ ~proc'[q].kids
      <4>1. CASE Escape(p) \/ EscapedExit(p)
        <5>1. PICK Q \in Process :
                /\ proc' = [proc EXCEPT ![p] = Q]
                /\ Q.main = proc[p].main /\ Q.kids = proc[p].kids
          BY <4>1, EscapeStep DEF TypeOK
        <5> QED BY <5>1, DeadStays
      <4>2. CASE ProcessExit(p) \/ ChildrenExit(p)
        BY <4>2 DEF ProcessExit, ChildrenExit, TypeOK
      <4> QED BY <2>4, <4>1, <4>2 DEF ProcessStep
    <3> QED BY <2>0, <3>1, <3>2, OwedUnmoved DEF ChildStages
  <2>5. CASE UNCHANGED vars
    BY <2>5 DEF vars, OwedInv, WatchdogOwed, TokenOwed
  <2> QED BY <2>1, <2>2, <2>3, <2>4, <2>5 DEF Next
<1>3. OwedInv => WatchdogOwed /\ TokenOwed
  BY DEF OwedInv
<1>4. TypeOK /\ ChildInv /\ OwedInv /\ [Next]_vars => [NoNewHolder]_vars
  BY AwayStep DEF NoNewHolder, OwedInv, WatchdogOwed
<1> QED BY <1>1, <1>2, <1>3, <1>4, TypeCorrect, ChildKept, PTL DEF Spec
=============================================================================
