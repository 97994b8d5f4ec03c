--------------------------- MODULE MCJobRegistry ---------------------------
(* Constants for JobRegistry: rows that are disabled, have two expressions, *)
(* or an invalid one after a valid one.                                     *)
EXTENDS JobRegistry, TLC

SomeCrons == {<<>>, <<TRUE, TRUE>>, <<TRUE, FALSE>>}
JustOne == {<<TRUE>>}
RegistrySymmetry == Permutations(Tasks) \union Permutations(Clients)
=============================================================================
