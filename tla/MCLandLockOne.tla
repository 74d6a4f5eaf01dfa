----------------------------- MODULE MCLandLockOne -----------------------------
(* One process that may crash between any two file calls and start again,   *)
(* under its old pid too, with lands of its own queueing for the lock.      *)
EXTENDS LandLock
CONSTANTS l1, l2, l3, p1
MCProcOf == [l \in Lands |-> p1]
===============================================================================
