----------------------------- MODULE PoolMalloc -----------------------------
(***************************************************************************)
(* The allocator the drcachesim pipeline preloads: a mutex, one pool that  *)
(* is only ever cut from the front, a header before each block, and a call *)
(* of backtrace() under the mutex.  The first backtrace loads a library,   *)
(* which calls malloc again in the same thread: the inner call does not    *)
(* take the mutex, but it releases it.  What makes this sound is that      *)
(* pthread_create itself allocates: when a second thread exists, the first *)
(* backtrace is over.                                                      *)
(*                                                                         *)
(* A definition marked Fault is the one after it with a mistake the code   *)
(* does not make; nothing uses it.                                         *)
(***************************************************************************)
EXTENDS Integers, Sequences

CONSTANTS
  Threads,
  First,      \* the thread main() runs in
  Sizes,      \* sizes the callers ask for; for calloc the product
  HeadSize,   \* sizeof(Head)
  Alignment,  \* _Alignof(max_align_t)
  Base,       \* where mmap puts the pool
  PoolSize,   \* MEMPOOL_SIZE
  Word,       \* how many values a size_t has
  MaxCalls,   \* bound: calls each thread makes
  MaxInner,   \* bound: calls the library makes while it is loaded
  Junk,       \* the size in a header that was overwritten
  Null

ASSUME PoolAssumption ==
  /\ First \in Threads /\ Null \notin Threads
  /\ Sizes \subseteq Nat /\ Null \notin Nat /\ Junk \notin Nat
  /\ HeadSize \in Nat \ {0} /\ Alignment \in Nat \ {0}
  /\ Base \in Nat \ {0} /\ PoolSize \in Nat \ {0} /\ Word \in Nat \ {0}
  /\ Base + PoolSize < Word
  /\ MaxCalls \in Nat /\ MaxInner \in Nat

Levels  == {"outer", "inner"}
Acts    == Threads \X Levels  \* an activation of a function of the library
PoolOps == {"malloc", "calloc", "realloc", "free"}
Steps   == {"idle", "enter", "check", "head", "cut", "copy", "trace", "tracing",
            "unlock", "crashed"}
End     == Base + PoolSize    \* pool.end_ptr

VARIABLES
  mutex,    \* malloc_mutex: who locked it, or Null
  inTrace,  \* is_in_backtrace_func of each thread
  warm,     \* backtrace has loaded its library (environment)
  born,     \* threads that exist (environment)
  ready,    \* is_pool_init
  free,     \* pool.free_ptr
  heads,    \* head->size, by the address of the header
  blocks,   \* every block cut so far, in order (history)
  owned,    \* blocks the program (outer) and the library (inner) hold
  calls,    \* calls made
  inner,    \* calls the library made
  pc, op, size, arg,
  at,       \* the pool.free_ptr at which a call put its header
  keep,     \* ori_size: what realloc will copy
  result    \* the address a call returns, or Null

pool    == <<ready, free, heads, blocks>>
world   == <<warm, born, owned, calls, inner>>
request == <<op, size, arg>>
locals  == <<at, keep, result>>
vars    == <<mutex, inTrace, pool, world, pc, request, locals>>

Block == [at : Nat, size : Nat]
Addr  == Nat \cup {Null}
Cells == Base..(End - 1)

PoolTypeOK ==
  /\ mutex \in Threads \cup {Null} /\ inTrace \in [Threads -> BOOLEAN]
  /\ warm \in BOOLEAN /\ born \subseteq Threads /\ ready \in BOOLEAN
  /\ free \in Nat
  /\ heads \in [Cells -> Nat \cup {Junk}]
  /\ blocks \in Seq(Block) /\ owned \in [Levels -> SUBSET Nat]
  /\ calls \in [Threads -> Nat] /\ inner \in Nat
  /\ pc \in [Acts -> Steps] /\ op \in [Acts -> PoolOps]
  /\ size \in [Acts -> Nat] /\ arg \in [Acts -> Addr]
  /\ at \in [Acts -> Nat] /\ keep \in [Acts -> Nat \cup {Junk}]
  /\ result \in [Acts -> Addr]

PoolInit ==
  /\ mutex = Null /\ inTrace = [t \in Threads |-> FALSE]
  /\ warm = FALSE /\ born = {First} /\ ready = FALSE
  /\ free = 0 /\ heads = [c \in Cells |-> 0] /\ blocks = <<>>
  /\ owned = [l \in Levels |-> {}]
  /\ calls = [t \in Threads |-> 0] /\ inner = 0
  /\ pc = [a \in Acts |-> "idle"] /\ op = [a \in Acts |-> "malloc"]
  /\ size = [a \in Acts |-> 0] /\ arg = [a \in Acts |-> Null]
  /\ at = [a \in Acts |-> 0] /\ keep = [a \in Acts |-> 0]
  /\ result = [a \in Acts |-> Null]

----------------------------------------------------------------------------
(* Machine words and helpers.  A crash of one thread ends the process.     *)

Add(x, y)  == (x + y) % Word
Aligned(s) == IF s % Alignment = 0 THEN s
              ELSE ((s \div Alignment + 1) * Alignment) % Word

Alive         == \A a \in Acts : pc[a] # "crashed"
At(a, step)   == Alive /\ pc[a] = step
Goto(a, step) == pc' = [pc EXCEPT ![a] = step]
Moves(a)      == op[a] = "realloc" /\ arg[a] # Null

(* A call ends and its local variables are gone.                           *)
Return(a) ==
  /\ Goto(a, "idle")
  /\ size' = [size EXCEPT ![a] = 0] /\ arg' = [arg EXCEPT ![a] = Null]
  /\ at' = [at EXCEPT ![a] = 0] /\ keep' = [keep EXCEPT ![a] = 0]
  /\ result' = [result EXCEPT ![a] = Null]
  /\ op' = [op EXCEPT ![a] = "malloc"]

(* pool_init, which every function but free calls on its first use.        *)
InitPool == ready' = TRUE /\ free' = IF ready THEN free ELSE Base

----------------------------------------------------------------------------
(* The program and the library backtrace loads.                            *)

Begin(a) ==
  /\ At(a, "idle")
  /\ \E o \in PoolOps, n \in Sizes, p \in owned[a[2]] \cup {Null} :
       /\ p # Null => o \in {"free", "realloc"}
       /\ o = "free" => n = 0
       /\ op' = [op EXCEPT ![a] = o]
       /\ size' = [size EXCEPT ![a] = n]
       /\ arg' = [arg EXCEPT ![a] = p]
       /\ owned' = [owned EXCEPT ![a[2]] = @ \ {p}]
  /\ Goto(a, "enter")
  /\ UNCHANGED <<mutex, inTrace, pool, warm, born, locals>>

Call(t) ==
  /\ t \in born /\ calls[t] < MaxCalls
  /\ Begin(<<t, "outer">>)
  /\ calls' = [calls EXCEPT ![t] = @ + 1] /\ UNCHANGED inner

(* dlopen, inside the first backtrace, uses the interposed functions.      *)
InnerCall(t) ==
  /\ pc[<<t, "outer">>] = "tracing" /\ ~warm /\ inner < MaxInner
  /\ Begin(<<t, "inner">>)
  /\ inner' = inner + 1 /\ UNCHANGED calls

(* A thread creates another; pthread_create has allocated by then.         *)
Spawn(t) ==
  /\ Alive /\ t \notin born /\ warm
  /\ \E u \in born : pc[<<u, "outer">>] = "idle"
  /\ born' = born \cup {t}
  /\ UNCHANGED <<mutex, inTrace, pool, warm, owned, calls, inner, pc, request,
                 locals>>

----------------------------------------------------------------------------
(* Fault: calloc does not take the mutex.                                  *)
LockNotForCalloc(a) ==
  /\ At(a, "enter") /\ ~inTrace[a[1]]
  /\ IF op[a] = "calloc" THEN UNCHANGED mutex
                         ELSE mutex = Null /\ mutex' = a[1]
  /\ Goto(a, IF op[a] = "free" THEN "unlock" ELSE "check")
  /\ UNCHANGED <<inTrace, pool, world, request, locals>>

(* free only reports the block; its memory is never used again.            *)
Lock(a) ==
  /\ At(a, "enter") /\ ~inTrace[a[1]]
  /\ mutex = Null /\ mutex' = a[1]
  /\ Goto(a, IF op[a] = "free" THEN "unlock" ELSE "check")
  /\ UNCHANGED <<inTrace, pool, world, request, locals>>

(* Inside backtrace nothing is locked, and free returns at once.           *)
LockSkipped(a) ==
  /\ At(a, "enter") /\ inTrace[a[1]]
  /\ \/ op[a] = "free" /\ Return(a)
     \/ op[a] # "free" /\ Goto(a, "check") /\ UNCHANGED <<request, locals>>
  /\ UNCHANGED <<mutex, inTrace, pool, world>>

(* Fault: a refused request returns with the mutex locked.                 *)
RefuseLocked(a) ==
  /\ At(a, "check") /\ size[a] = 0
  /\ Return(a)
  /\ UNCHANGED <<mutex, inTrace, pool, world>>

(* Nothing to allocate: NULL.  calloc, and realloc of a block, have made   *)
(* the pool by then; realloc aligns the size before it looks.              *)
Refuse(a) ==
  /\ At(a, "check")
  /\ size[a] = 0 \/ (op[a] = "realloc" /\ Aligned(size[a]) = 0)
  /\ IF op[a] = "malloc" \/ (op[a] = "realloc" /\ arg[a] = Null /\ size[a] = 0)
       THEN UNCHANGED <<ready, free>> ELSE InitPool
  /\ Goto(a, "unlock")
  /\ UNCHANGED <<mutex, inTrace, heads, blocks, world, request, locals>>

Prepare(a) ==
  /\ At(a, "check") /\ size[a] # 0
  /\ op[a] = "realloc" => Aligned(size[a]) # 0
  /\ InitPool
  /\ size' = [size EXCEPT ![a] = Aligned(@)]
  /\ Goto(a, "head")
  /\ UNCHANGED <<mutex, inTrace, heads, blocks, world, op, arg, locals>>

(* The assertion of pool_alloc, as the machine computes it; a header that  *)
(* is not in the pool after all cannot be written.                         *)
Fits(a) == Add(free, Add(size[a], HeadSize + Alignment)) < End /\ free \in Cells

(* realloc reads the old header, pool_alloc writes the new one.            *)
AllocHead(a) ==
  /\ At(a, "head") /\ Fits(a)
  /\ keep' = [keep EXCEPT ![a] = IF Moves(a) THEN heads[arg[a] - HeadSize] ELSE 0]
  /\ heads' = [heads EXCEPT ![free] = size[a]]
  /\ at' = [at EXCEPT ![a] = free]
  /\ Goto(a, "cut")
  /\ UNCHANGED <<mutex, inTrace, ready, free, blocks, world, request, result>>

(* assert() aborts the process, or the store of the header faults.         *)
AllocAborts(a) ==
  /\ At(a, "head") /\ ~Fits(a)
  /\ Goto(a, "crashed")
  /\ UNCHANGED <<mutex, inTrace, pool, world, request, locals>>

(* Fault: the pool advances by the size of the block only.                 *)
AllocCutNoHead(a) ==
  /\ At(a, "cut")
  /\ free' = Add(free, size[a])
  /\ blocks' = Append(blocks, [at |-> Add(free, HeadSize), size |-> size[a]])
  /\ result' = [result EXCEPT ![a] = Add(free, HeadSize)]
  /\ Goto(a, IF Moves(a) THEN "copy" ELSE "trace")
  /\ UNCHANGED <<mutex, inTrace, ready, heads, world, request, at, keep>>

(* pool.free_ptr is read again, or its first value is still in a register. *)
AllocCut(a) ==
  /\ At(a, "cut")
  /\ \E p, q \in {free, at[a]} :
       /\ free' = Add(q, Add(size[a], HeadSize))
       /\ blocks' = Append(blocks, [at |-> Add(p, HeadSize), size |-> size[a]])
       /\ result' = [result EXCEPT ![a] = Add(p, HeadSize)]
  /\ Goto(a, IF Moves(a) THEN "copy" ELSE "trace")
  /\ UNCHANGED <<mutex, inTrace, ready, heads, world, request, at, keep>>

CopyFits(a) == keep[a] \in Nat /\ result[a] + keep[a] <= End

(* memcpy of as many bytes as the old block had, whatever the new one has. *)
Copy(a) ==
  /\ At(a, "copy") /\ CopyFits(a)
  /\ LET last == result[a] + keep[a] IN
       /\ heads' = [c \in Cells |-> IF result[a] < c + HeadSize /\ c < last
                                    THEN Junk ELSE heads[c]]
  /\ Goto(a, "trace")
  /\ UNCHANGED <<mutex, inTrace, ready, free, blocks, world, request, locals>>

(* memcpy runs out of the pool.                                            *)
CopyFaults(a) ==
  /\ At(a, "copy") /\ ~CopyFits(a)
  /\ Goto(a, "crashed")
  /\ UNCHANGED <<mutex, inTrace, pool, world, request, locals>>

(* backtrace and the report, unless this call is made inside a backtrace.  *)
Trace(a) ==
  /\ At(a, "trace")
  /\ inTrace' = [inTrace EXCEPT ![a[1]] = TRUE]
  /\ Goto(a, IF inTrace[a[1]] THEN "unlock" ELSE "tracing")
  /\ UNCHANGED <<mutex, pool, world, request, locals>>

(* Fault: the flag stays set, and the thread never takes the mutex again.  *)
TracedFlagKept(a) ==
  /\ At(a, "tracing") /\ pc[<<a[1], "inner">>] = "idle"
  /\ warm' = TRUE
  /\ Goto(a, "unlock")
  /\ UNCHANGED <<mutex, inTrace, pool, born, owned, calls, inner, request, locals>>

(* backtrace returns: its library, if it had one to load, is loaded.       *)
Traced(a) ==
  /\ At(a, "tracing") /\ pc[<<a[1], "inner">>] = "idle"
  /\ inTrace' = [inTrace EXCEPT ![a[1]] = FALSE]
  /\ warm' = TRUE
  /\ Goto(a, "unlock")
  /\ UNCHANGED <<mutex, pool, born, owned, calls, inner, request, locals>>

(* pthread_mutex_unlock by whoever calls it, then return.                  *)
Unlock(a) ==
  /\ At(a, "unlock")
  /\ mutex' = Null
  /\ owned' = IF result[a] = Null THEN owned
              ELSE [owned EXCEPT ![a[2]] = @ \cup {result[a]}]
  /\ Return(a)
  /\ UNCHANGED <<inTrace, pool, warm, born, calls, inner>>

----------------------------------------------------------------------------
Body(a) == Lock(a) \/ LockSkipped(a) \/ Refuse(a) \/ Prepare(a) \/ AllocHead(a)
           \/ AllocAborts(a) \/ AllocCut(a) \/ Copy(a) \/ CopyFaults(a)
           \/ Trace(a) \/ Traced(a) \/ Unlock(a)

(* Every thread has made its calls, or the process is gone.                *)
Finished ==
  /\ ~Alive \/ \A a \in Acts : pc[a] = "idle"
  /\ UNCHANGED vars

PoolNext == \/ \E t \in Threads : Call(t) \/ InnerCall(t) \/ Spawn(t)
            \/ \E a \in Acts : Body(a)
            \/ Finished

PoolSpec     == PoolInit /\ [][PoolNext]_vars
FairPoolSpec == PoolSpec /\ \A a \in Acts : WF_vars(Body(a))

----------------------------------------------------------------------------
(* Properties.                                                             *)

(* The blocks pool_alloc handed out do not overlap, headers included,      *)
(* whichever threads and nested calls cut them.                            *)
BlocksDisjoint ==
  \A i, j \in 1..Len(blocks) :
    i < j => blocks[i].at + blocks[i].size <= blocks[j].at - HeadSize

(* The header realloc will look at still holds the size of its block: no   *)
(* later cut and no copy has written over it.                              *)
HeadsIntact ==
  \A i \in 1..Len(blocks) : heads[blocks[i].at - HeadSize] = blocks[i].size

(* Every call comes back, the refused ones and those made inside backtrace *)
(* included, unless the pool runs out and the process dies.                *)
PoolCallReturns ==
  \A a \in Acts : pc[a] # "idle" ~> (pc[a] = "idle" \/ ~Alive)
=============================================================================
