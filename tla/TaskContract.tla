---------------------------- MODULE TaskContract ----------------------------
(***************************************************************************)
(* What a caller of the executor is promised about one call, with no maps, *)
(* processes, locks or timers: it is declined, or it is accepted and then  *)
(* ends once with one verdict.  Only a call whose main command has started *)
(* and that was asked to stop can end as killed, and then it never settles *)
(* (no post-command, no success or failure of its own).                    *)
(***************************************************************************)
CONSTANT Executions

VARIABLES phase,    \* how far each call is
          verdict,  \* how each call ended
          asked     \* calls somebody asked to stop

Phases == {"waiting", "accepted", "launched", "settling", "ended"}
Ends == {"none", "error", "success", "failed", "killed"}

Init ==
    /\ phase = [e \in Executions |-> "waiting"]
    /\ verdict = [e \in Executions |-> "none"]
    /\ asked = {}

Move(e, from, to) == phase[e] = from /\ phase' = [phase EXCEPT ![e] = to]

End(e, v) == verdict' = [verdict EXCEPT ![e] = v]

\* A declined call is told "success" as well.
Decline(e) == Move(e, "waiting", "ended") /\ End(e, "success") /\ UNCHANGED asked

Accept(e) == Move(e, "waiting", "accepted") /\ UNCHANGED <<verdict, asked>>

GiveUp(e) ==
    /\ Move(e, "accepted", "ended")
    /\ End(e, "error") \/ End(e, "failed")
    /\ UNCHANGED asked

Launch(e) == Move(e, "accepted", "launched") /\ UNCHANGED <<verdict, asked>>

Lose(e) == Move(e, "launched", "ended") /\ End(e, "error") /\ UNCHANGED asked

Stop(e) ==
    /\ e \in asked
    /\ Move(e, "launched", "ended")
    /\ End(e, "killed")
    /\ UNCHANGED asked

Settle(e) ==
    /\ e \notin asked
    /\ Move(e, "launched", "settling")
    /\ UNCHANGED <<verdict, asked>>

Finish(e) ==
    /\ Move(e, "settling", "ended")
    /\ End(e, "success") \/ End(e, "failed")
    /\ UNCHANGED asked

Ask(e) == asked' = asked \union {e} /\ UNCHANGED <<phase, verdict>>

Next ==
    \E e \in Executions :
        \/ Decline(e) \/ Accept(e) \/ GiveUp(e) \/ Launch(e) \/ Lose(e)
        \/ Stop(e) \/ Settle(e) \/ Finish(e) \/ Ask(e)

Spec == Init /\ [][Next]_<<phase, verdict, asked>>
=============================================================================
