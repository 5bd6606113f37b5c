------------------------------- MODULE MCFork -------------------------------
(* The processes and symmetries of MCArena, for a program that forks.       *)
EXTENDS ForkInvariant, TLC
CONSTANTS t1, t2, t3, s1, s2, s3, a1, a2

Own1 == t1 :> s1
Own2 == t1 :> s1 @@ t2 :> s2
Own3 == t1 :> s1 @@ t2 :> s2 @@ t3 :> s3

SwapLate     == t2 :> t3 @@ t3 :> t2 @@ s2 :> s3 @@ s3 :> s2
SwapArenas   == a1 :> a2 @@ a2 :> a1
LateSymmetry == {SwapLate, SwapArenas, SwapLate @@ SwapArenas}
=============================================================================
