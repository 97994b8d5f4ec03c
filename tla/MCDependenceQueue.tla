------------------------- MODULE MCDependenceQueue -------------------------
(* Constants for DependenceQueue: two spellings of one package, in lists    *)
(* of one, of both, and of one that comes twice.                            *)
EXTENDS DependenceQueue, TLC

CONSTANTS n1, n2

OneKey == [n \in {n1, n2} |-> "key"]
ClientSymmetry == Permutations(Clients)

(***************************************************************************)
(* The packages, their history and the names in the copies that handlers   *)
(* hold never influence the rest of the state: only its table and its      *)
(* queue are told apart where no property is about packages.               *)
(***************************************************************************)
IdsIn(deps) == [k \in DOMAIN deps |-> deps[k].id]
QueueView ==
    <<rows, nextId, IdsIn(spawned), IdsIn(startup), ready, restarts, abandoned,
      [k \in DOMAIN queue |-> <<queue[k].who, queue[k].dep.id>>],
      [c \in Clients |-> <<req[c].op, req[c].stage, req[c].todo, req[c].dep.id,
                           IdsIn(req[c].made)>>]>>

SomeLists == {<<n1>>, <<n1, n2>>, <<n2, n2>>}
=============================================================================
