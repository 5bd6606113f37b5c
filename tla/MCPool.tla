------------------------------- MODULE MCPool -------------------------------
(* Small pools: an alignment of 2, headers of 2, and room for four small    *)
(* blocks or three large ones.  Threads other than the first are alike.     *)
EXTENDS PoolInvariant, TLC
CONSTANTS t1, t2
=============================================================================
