------------------------------ MODULE MCBatch ------------------------------
(* Three workers, one of whose pairs fails the check together, and one who  *)
(* fails it once the human has committed.                                   *)
EXTENDS Batch

CONSTANTS w1, w2, w3, f

MCBreaks == {{w1, w2}, {w3, f}}
=============================================================================
