-------------------------- MODULE MCTaskExecution --------------------------
(* Constants for TaskExecution: two calls of one task that may overlap, or *)
(* one call of each of two tasks that share a single pid.                  *)
EXTENDS TaskExecution, TLC

CONSTANTS t1, t2, e1, e2

SameTask == (e1 :> t1) @@ (e2 :> t1)
OneEach == (e1 :> t1) @@ (e2 :> t2)

\* The two calls of one task, and the pids, are interchangeable.
SameTaskSymmetry == Permutations(Executions) \union Permutations(Pids)
=============================================================================
