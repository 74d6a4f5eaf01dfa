----------------------------- MODULE MCLandLockTwo -----------------------------
(* The dev and prod builds over one repository: two processes, one of them  *)
(* with two lands.                                                          *)
EXTENDS LandLock, TLC
CONSTANTS l1, l2, l3, dev, prod
MCProcOf == l1 :> dev @@ l2 :> prod @@ l3 :> prod
===============================================================================
