---------------------------- MODULE BlockService ----------------------------
(***************************************************************************)
(* What the arena layer promises its callers: malloc, realloc and free are *)
(* atomic operations on pools of blocks.  There are no locks, no ring and  *)
(* no search here: a request is served in one step by some pool, a block   *)
(* goes back to the pool it came from, and every request is answered.      *)
(* The pools are the arenas other than main_arena.                         *)
(***************************************************************************)
EXTENDS Integers

CONSTANTS Threads, Pools, Foreign, Null

VARIABLES
  inUse,   \* blocks in use, by the pool's bookkeeping
  owned,   \* blocks the program owns
  phase,   \* of each thread: "idle", "asked" or "served"
  want,    \* "alloc", "free" or "realloc"; "none" when idle
  block    \* the pool of the block a thread carries, Foreign or Null

bsVars == <<inUse, owned, phase, want, block>>

ServiceInit ==
  /\ inUse = [p \in Pools |-> 0] /\ owned = [p \in Pools |-> 0]
  /\ phase = [t \in Threads |-> "idle"]
  /\ want = [t \in Threads |-> "none"]
  /\ block = [t \in Threads |-> Null]

(* The program asks, and gives up the block it passes.                     *)
Ask(t) ==
  /\ phase[t] = "idle"
  /\ \E w \in {"alloc", "free", "realloc"}, b \in Pools \cup {Foreign, Null} :
       /\ (w = "alloc") <=> (b = Null)
       /\ b \in Pools => owned[b] > 0
       /\ want' = [want EXCEPT ![t] = w]
       /\ block' = [block EXCEPT ![t] = b]
       /\ owned' = IF b \in Pools THEN [owned EXCEPT ![b] = @ - 1] ELSE owned
  /\ phase' = [phase EXCEPT ![t] = "asked"]
  /\ UNCHANGED inUse

(* realloc(p, 0) frees p.                                                  *)
ReallocToFree(t) ==
  /\ phase[t] = "asked" /\ want[t] = "realloc"
  /\ want' = [want EXCEPT ![t] = "free"]
  /\ UNCHANGED <<inUse, owned, phase, block>>

Allocate(t) ==
  /\ phase[t] = "asked" /\ want[t] = "alloc"
  /\ \E p \in Pools : /\ inUse' = [inUse EXCEPT ![p] = @ + 1]
                      /\ block' = [block EXCEPT ![t] = p]
  /\ phase' = [phase EXCEPT ![t] = "served"]
  /\ UNCHANGED <<owned, want>>

Free(t) ==
  /\ phase[t] = "asked" /\ want[t] = "free" /\ block[t] \in Pools
  /\ inUse' = [inUse EXCEPT ![block[t]] = @ - 1]
  /\ block' = [block EXCEPT ![t] = Null]
  /\ phase' = [phase EXCEPT ![t] = "served"]
  /\ UNCHANGED <<owned, want>>

Resize(t) ==
  /\ phase[t] = "asked" /\ want[t] = "realloc" /\ block[t] \in Pools
  /\ phase' = [phase EXCEPT ![t] = "served"]
  /\ UNCHANGED <<inUse, owned, want, block>>

(* The request comes back with nothing: no memory for an allocation, or a  *)
(* block that is not from these pools and goes to the next allocator.      *)
TurnDown(t) ==
  /\ phase[t] = "asked" /\ block[t] \in {Null, Foreign}
  /\ phase' = [phase EXCEPT ![t] = "idle"]
  /\ want' = [want EXCEPT ![t] = "none"]
  /\ block' = [block EXCEPT ![t] = Null]
  /\ UNCHANGED <<inUse, owned>>

(* The served thread returns, and the program owns the block it brings.    *)
Answer(t) ==
  /\ phase[t] = "served"
  /\ phase' = [phase EXCEPT ![t] = "idle"]
  /\ want' = [want EXCEPT ![t] = "none"]
  /\ block' = [block EXCEPT ![t] = Null]
  /\ owned' = IF block[t] \in Pools THEN [owned EXCEPT ![block[t]] = @ + 1]
                                    ELSE owned
  /\ UNCHANGED inUse

Serve(t) == Allocate(t) \/ Free(t) \/ Resize(t) \/ TurnDown(t) \/ Answer(t)

ServiceNext == \E t \in Threads : Ask(t) \/ ReallocToFree(t) \/ Serve(t)

ServiceSpec     == ServiceInit /\ [][ServiceNext]_bsVars
FairServiceSpec == ServiceSpec /\ \A t \in Threads : WF_bsVars(Serve(t))
=============================================================================
