------------------------------ MODULE MCSpawn ------------------------------
(* Two workers that wait for a third's task to be done.                     *)
EXTENDS Spawn, TLC

CONSTANTS a, b, c

MCDeps == [w \in Workers |-> IF w = a THEN {} ELSE {a}]
Siblings == Permutations({b, c})
=============================================================================
