------------------------------ MODULE MCArena ------------------------------
(* Small processes: which thread hashes to which slot of the tsd table, and *)
(* the symmetries TLC may use: arenas are alike, and so are threads that    *)
(* start under the same conditions, each moved together with its own slot.  *)
EXTENDS ArenaInvariant, TLC
CONSTANTS t1, t2, t3, s1, s2, s3, a1, a2

Own2   == t1 :> s1 @@ t2 :> s2
Own3   == t1 :> s1 @@ t2 :> s2 @@ t3 :> s3
Same2  == t1 :> s1 @@ t2 :> s1
Shared == t1 :> s1 @@ t2 :> s2 @@ t3 :> s2

SwapLate   == t2 :> t3 @@ t3 :> t2 @@ s2 :> s3 @@ s3 :> s2
SwapEarly  == t1 :> t2 @@ t2 :> t1 @@ s1 :> s2 @@ s2 :> s1
SwapTwins  == t2 :> t3 @@ t3 :> t2
SwapArenas == a1 :> a2 @@ a2 :> a1

LateSymmetry  == {SwapLate, SwapArenas, SwapLate @@ SwapArenas}
TwinSymmetry  == {SwapTwins, SwapArenas, SwapTwins @@ SwapArenas}
EarlySymmetry == {SwapEarly, SwapArenas, SwapEarly @@ SwapArenas}
=============================================================================
