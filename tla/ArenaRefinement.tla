-------------------------- MODULE ArenaRefinement --------------------------
(***************************************************************************)
(* The arena layer implements BlockService: a call takes effect when the   *)
(* engine writes the arena back (EngineLeave), everything before it is the *)
(* search for an arena and everything after it the release of the lock.    *)
(***************************************************************************)
EXTENDS Arena

OnPools(f) == [a \in Dynamic |-> f[a]]

(* What a thread at a label, in operation o and with block b, wants.       *)
Want(label, o, b) == IF label = "idle" THEN "none"
                     ELSE IF o = "free" THEN "free"
                     ELSE IF o = "realloc" /\ b # Null THEN "realloc"
                     ELSE "alloc"

Phase(label) == IF label = "idle" THEN "idle"
                ELSE IF label = "unlock" THEN "served" ELSE "asked"

Service == INSTANCE BlockService WITH
             Pools <- Dynamic,
             inUse <- OnPools(used),
             owned <- OnPools(held),
             phase <- [t \in Threads |-> Phase(pc[t])],
             want  <- [t \in Threads |-> Want(pc[t], op[t], blk[t])],
             block <- blk

(* Every call behaves as one atomic operation on the pool of one arena,    *)
(* from the arena code's point of view: whatever the threads interleave.   *)
ImplementsService == Service!ServiceSpec

(* And, with the fairness of the threads, every request is answered.       *)
ImplementsFairService == Service!FairServiceSpec
=============================================================================
