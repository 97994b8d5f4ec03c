--------------------------- MODULE StreamContract ---------------------------
(***************************************************************************)
(* What the client behind a web socket is promised about the job that it   *)
(* watches, with no channel, queues or replays: it sees the job's events   *)
(* one after the other from the first one on, none of them twice and none  *)
(* before it is published, or is told of all that there are at once.  Only *)
(* when it is shown a job, again or for the first time, does it begin anew.*)
(***************************************************************************)
EXTENDS Naturals

CONSTANTS Jobs, Sockets, NoJob

VARIABLES published,  \* how many events each job has published
          shown,      \* the job that each client watches
          seen        \* how many of its events the client has seen

vars == <<published, shown, seen>>

Init ==
    /\ published = [j \in Jobs |-> 0]
    /\ shown = [k \in Sockets |-> NoJob]
    /\ seen = [k \in Sockets |-> 0]

Publish(j) ==
    /\ published' = [published EXCEPT ![j] = @ + 1]
    /\ UNCHANGED <<shown, seen>>

Show(k, j) == shown' = [shown EXCEPT ![k] = j] /\ seen' = [seen EXCEPT ![k] = 0]

\* A client may be shown any job, or none, at any time.
Turn(k, j) == Show(k, j) /\ UNCHANGED published

\* The job that a client has asked for begins, and is shown to that client.
Begin(k, j) ==
    /\ published[j] = 0
    /\ published' = [published EXCEPT ![j] = 1]
    /\ Show(k, j)

SeeNext(k) ==
    /\ shown[k] # NoJob /\ seen[k] < published[shown[k]]
    /\ seen' = [seen EXCEPT ![k] = @ + 1]
    /\ UNCHANGED <<published, shown>>

CatchUp(k) ==
    /\ shown[k] # NoJob
    /\ seen' = [seen EXCEPT ![k] = published[shown[k]]]
    /\ UNCHANGED <<published, shown>>

Next ==
    \/ \E j \in Jobs : Publish(j)
    \/ \E k \in Sockets :
          \/ SeeNext(k) \/ CatchUp(k)
          \/ \E j \in Jobs \union {NoJob} : Turn(k, j)
          \/ \E j \in Jobs : Begin(k, j)

Spec == Init /\ [][Next]_vars
=============================================================================
