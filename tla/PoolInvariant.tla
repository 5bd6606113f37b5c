--------------------------- MODULE PoolInvariant ---------------------------
(* The inductive invariant behind PoolMalloc's safety, and the sizes it is  *)
(* about: those for which the sums of pool_alloc do not wrap.  A size that  *)
(* wraps defeats the assertion, which compares the wrapped sum.             *)
EXTENDS PoolMalloc

ASSUME SaneSizes ==
  \A n \in Sizes : /\ Aligned(n) \in Nat
                   /\ Aligned(n) + HeadSize + Alignment + End < Word

Outer(t) == <<t, "outer">>
Inner(t) == <<t, "inner">>
Working  == {"check", "head", "cut", "copy", "trace", "unlock"}
Cut      == {blocks[i].at : i \in 1..Len(blocks)}
Sane     == {Aligned(n) : n \in Sizes}

(* Who may be at work: until the library is loaded there is one thread, and *)
(* its nested calls run while it is in backtrace; later the mutex decides.  *)
TurnInv ==
  /\ First \in born /\ (~warm => born = {First})
  /\ \A t \in Threads :
       /\ t \notin born => pc[Outer(t)] = "idle" /\ pc[Inner(t)] = "idle"
       /\ inTrace[t] <=> pc[Outer(t)] = "tracing"
       /\ pc[Outer(t)] \in Working \cup {"tracing"} => mutex = t \/ born = {First}
       /\ pc[Inner(t)] # "tracing"
       /\ pc[Inner(t)] # "idle" => pc[Outer(t)] = "tracing" /\ ~warm

(* What is below free_ptr: blocks in the order they were cut, each with its *)
(* header; and every address in circulation is that of a block.             *)
MemoryInv ==
  /\ IF ready THEN Base <= free ELSE blocks = <<>>
  /\ \A i \in 1..Len(blocks) : /\ Base <= blocks[i].at - HeadSize
                               /\ blocks[i].at - HeadSize < End
                               /\ blocks[i].at + blocks[i].size <= free
  /\ BlocksDisjoint /\ HeadsIntact
  /\ \A l \in Levels : owned[l] \subseteq Cut
  /\ \A a \in Acts : arg[a] \in Cut \cup {Null} /\ result[a] \in Cut \cup {Null}

(* What a call that is at work knows of the pool.                           *)
CallInv ==
  \A a \in Acts :
    /\ pc[a] \in {"enter", "check"} => size[a] \in Sizes
    /\ pc[a] \in {"head", "cut", "copy"} => ready /\ size[a] \in Sane
    /\ pc[a] = "cut" => /\ at[a] = free /\ free \in Cells
                        /\ heads[free] = size[a]
                        /\ free + size[a] + HeadSize < End
    /\ pc[a] = "copy" => /\ result[a] \in Nat
                         /\ \A i \in 1..Len(blocks) : blocks[i].at <= result[a]

PoolInductive == PoolTypeOK /\ TurnInv /\ MemoryInv /\ CallInv
=============================================================================
