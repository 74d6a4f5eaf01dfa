-------------------------------- MODULE MCUndo --------------------------------
(* A land that brings config and a break, and one that repairs it.          *)
EXTENDS Undo

CONSTANTS l1, l2, hook, slip, other

MCAdds  == [l \in Lands |-> IF l = l1 THEN {hook, slip} ELSE {other}]
MCDrops == [l \in Lands |-> IF l = l1 THEN {} ELSE {slip}]
================================================================================
