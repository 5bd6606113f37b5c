----------------------------- MODULE PoolProofs -----------------------------
(* PoolInductive is an invariant of PoolSpec, for any number of threads and *)
(* any sizes the sums of pool_alloc can hold.                               *)
EXTENDS PoolInvariant, TLAPS

(* Sums that stay below Word are the machine's sums.                        *)
LEMMA WordSum ==
  /\ \A x, y \in Nat : Add(x, y) \in Nat
  /\ \A x, y \in Nat : x + y < Word => Add(x, y) = x + y
<1>1. \A z \in Nat : z % Word \in Nat
  BY PoolAssumption
<1>2. \A z \in Nat : z < Word => z % Word = z
  BY PoolAssumption
<1> QED BY <1>1, <1>2 DEF Add

(* An activation is the outer or the inner one of its thread.               *)
LEMMA Activations ==
  /\ \A t \in Threads : Outer(t) \in Acts /\ Inner(t) \in Acts
  /\ \A t, u \in Threads : /\ Outer(t) # Inner(u)
                           /\ Outer(t) = Outer(u) => t = u
                           /\ Inner(t) = Inner(u) => t = u
  /\ \A t \in Threads : Outer(t)[1] = t /\ Inner(t)[1] = t
  /\ \A a \in Acts : /\ a[1] \in Threads /\ a[2] \in Levels
                     /\ a = Outer(a[1]) \/ a = Inner(a[1])
BY DEF Acts, Levels, Outer, Inner

(* Only one activation at a time works on the pool.                         *)
LEMMA OneAtATime ==
  ASSUME PoolTypeOK, TurnInv, NEW a \in Acts, NEW b \in Acts,
         pc[a] \in Working, pc[b] \in Working
  PROVE  a = b
<1> DEFINE t == a[1]
           u == b[1]
<1>1. t \in Threads /\ u \in Threads /\ First \in Threads
  BY Activations, PoolAssumption
<1>2. CASE a = Outer(t) /\ b = Outer(u)
  <2>1. (mutex = t \/ born = {First}) /\ (mutex = u \/ born = {First})
    BY <1>1, <1>2 DEF TurnInv, Working
  <2>2. t \in born /\ u \in born
    BY <1>1, <1>2 DEF TurnInv, Working
  <2> QED BY <2>1, <2>2, <1>2
<1>3. CASE a = Outer(t) /\ b = Inner(u)
  <2>1. pc[Outer(u)] = "tracing" /\ born = {First}
    BY <1>1, <1>3 DEF TurnInv, Working
  <2>2. t \in born /\ u \in born
    BY <1>1, <1>3 DEF TurnInv, Working
  <2> QED BY <2>1, <2>2, <1>3 DEF Working
<1>4. CASE a = Inner(t) /\ b = Outer(u)
  <2>1. pc[Outer(t)] = "tracing" /\ born = {First}
    BY <1>1, <1>4 DEF TurnInv, Working
  <2>2. t \in born /\ u \in born
    BY <1>1, <1>4 DEF TurnInv, Working
  <2> QED BY <2>1, <2>2, <1>4 DEF Working
<1>5. CASE a = Inner(t) /\ b = Inner(u)
  <2>1. born = {First}
    BY <1>1, <1>5 DEF TurnInv, Working
  <2>2. t \in born /\ u \in born
    BY <1>1, <1>5 DEF TurnInv, Working
  <2> QED BY <2>1, <2>2, <1>5
<1> QED BY <1>2, <1>3, <1>4, <1>5, Activations

(* The i-th block has an address and a size.                                *)
LEMMA BlockTypes ==
  ASSUME PoolTypeOK, NEW i \in 1..Len(blocks)
  PROVE  blocks[i].at \in Nat /\ blocks[i].size \in Nat
<1>1. blocks \in Seq(Block)
  BY DEF PoolTypeOK
<1>2. blocks[i] \in Block
  BY <1>1
<1> QED BY <1>2 DEF Block

LEMMA InitialState == PoolInit => PoolInductive
<1> SUFFICES ASSUME PoolInit PROVE PoolInductive
  OBVIOUS
<1> USE PoolAssumption
<1>1. PoolTypeOK
  <2>1. First \in Threads /\ "idle" \in Steps /\ "malloc" \in PoolOps
    BY DEF Steps, PoolOps
  <2>2. blocks \in Seq(Block) /\ Base \in Nat
    BY DEF PoolInit
  <2>3. /\ mutex \in Threads \cup {Null} /\ inTrace \in [Threads -> BOOLEAN]
        /\ warm \in BOOLEAN /\ born \subseteq Threads /\ ready \in BOOLEAN
        /\ free \in Nat
        /\ heads \in [Cells -> Nat \cup {Junk}]
        /\ owned \in [Levels -> SUBSET Nat]
        /\ calls \in [Threads -> Nat] /\ inner \in Nat
    BY <2>1, <2>2 DEF PoolInit
  <2>4. /\ pc \in [Acts -> Steps] /\ op \in [Acts -> PoolOps]
        /\ size \in [Acts -> Nat] /\ arg \in [Acts -> Addr]
        /\ at \in [Acts -> Nat] /\ keep \in [Acts -> Nat \cup {Junk}]
        /\ result \in [Acts -> Addr]
    BY <2>1 DEF PoolInit, Addr
  <2> QED BY <2>2, <2>3, <2>4 DEF PoolTypeOK
<1>2. TurnInv
  BY Activations DEF PoolInit, TurnInv, Working
<1>3. MemoryInv
  BY DEF PoolInit, MemoryInv, BlocksDisjoint, HeadsIntact
<1>4. CallInv
  BY DEF PoolInit, CallInv
<1> QED BY <1>1, <1>2, <1>3, <1>4 DEF PoolInductive
----------------------------------------------------------------------------
(* Types.                                                                   *)

LEMMA WorldTypes ==
  ASSUME PoolTypeOK, NEW t \in Threads, Call(t) \/ InnerCall(t) \/ Spawn(t)
  PROVE  PoolTypeOK'
<1> USE DEF PoolTypeOK, vars, pool, world, request, locals
<1>1. ASSUME NEW a \in Acts, Begin(a), UNCHANGED <<warm, born>>,
             calls' \in [Threads -> Nat] /\ inner' \in Nat
      PROVE  PoolTypeOK'
  <2>1. PICK o \in PoolOps, n \in Sizes, p \in owned[a[2]] \cup {Null} :
          /\ op' = [op EXCEPT ![a] = o]
          /\ size' = [size EXCEPT ![a] = n]
          /\ arg' = [arg EXCEPT ![a] = p]
          /\ owned' = [owned EXCEPT ![a[2]] = @ \ {p}]
    BY <1>1 DEF Begin
  <2>2. n \in Nat /\ p \in Addr /\ a[2] \in Levels
    BY <1>1, Activations, PoolAssumption DEF Addr
  <2>3. op' \in [Acts -> PoolOps] /\ size' \in [Acts -> Nat]
        /\ arg' \in [Acts -> Addr] /\ owned' \in [Levels -> SUBSET Nat]
    BY <2>1, <2>2
  <2>4. pc' \in [Acts -> Steps]
    BY <1>1 DEF Begin, Goto, Steps
  <2> QED BY <1>1, <2>3, <2>4 DEF Begin
<1>2. CASE Call(t)
  <2>1. calls' \in [Threads -> Nat] /\ inner' \in Nat
    BY <1>2 DEF Call
  <2> QED BY <1>1, <1>2, <2>1, Activations DEF Call, Begin, Outer
<1>3. CASE InnerCall(t)
  <2>1. calls' \in [Threads -> Nat] /\ inner' \in Nat
    BY <1>3 DEF InnerCall
  <2> QED BY <1>1, <1>3, <2>1, Activations DEF InnerCall, Begin, Inner
<1>4. CASE Spawn(t)
  BY <1>4 DEF Spawn
<1> QED BY <1>2, <1>3, <1>4

LEMMA ReturnTypes ==
  ASSUME PoolTypeOK, NEW a \in Acts, Return(a)
  PROVE  /\ pc' \in [Acts -> Steps] /\ op' \in [Acts -> PoolOps]
         /\ size' \in [Acts -> Nat] /\ arg' \in [Acts -> Addr]
         /\ at' \in [Acts -> Nat] /\ keep' \in [Acts -> Nat \cup {Junk}]
         /\ result' \in [Acts -> Addr]
<1>1. "idle" \in Steps /\ "malloc" \in PoolOps /\ Null \in Addr
  BY DEF Steps, PoolOps, Addr
<1> QED BY <1>1 DEF PoolTypeOK, Return, Goto

LEMMA GotoTypes ==
  ASSUME PoolTypeOK, NEW a \in Acts, NEW s \in Steps, Goto(a, s)
  PROVE  pc' \in [Acts -> Steps]
BY DEF PoolTypeOK, Goto

LEMMA BodyTypes ==
  ASSUME PoolInductive, NEW a \in Acts, Body(a)
  PROVE  PoolTypeOK'
<1> USE DEF vars, pool, world, request, locals
<1>0. PoolTypeOK /\ a[1] \in Threads /\ a[2] \in Levels
  BY Activations DEF PoolInductive
<1>s. \A s \in {"idle", "enter", "check", "head", "cut", "copy", "trace",
                "tracing", "unlock", "crashed"} : s \in Steps
  BY DEF Steps
<1>i. InitPool => ready' \in BOOLEAN /\ free' \in Nat
  BY <1>0, PoolAssumption DEF PoolTypeOK, InitPool
<1>1. CASE Lock(a)
  <2>1. pc' \in [Acts -> Steps]
    BY <1>0, <1>1, <1>s DEF PoolTypeOK, Lock, Goto
  <2> QED BY <1>0, <1>1, <2>1 DEF PoolTypeOK, Lock
<1>2. CASE LockSkipped(a)
  <2>1. CASE Return(a)
    BY <1>0, <1>2, <2>1, ReturnTypes DEF PoolTypeOK, LockSkipped
  <2>2. CASE Goto(a, "check") /\ UNCHANGED <<request, locals>>
    <3>1. pc' \in [Acts -> Steps]
      BY <1>0, <2>2, <1>s, GotoTypes
    <3> QED BY <1>0, <1>2, <2>2, <3>1 DEF PoolTypeOK, LockSkipped
  <2> QED BY <1>2, <2>1, <2>2 DEF LockSkipped
<1>3. CASE Refuse(a)
  <2>1. pc' \in [Acts -> Steps]
    BY <1>0, <1>3, <1>s, GotoTypes DEF Refuse
  <2>2. ready' \in BOOLEAN /\ free' \in Nat
    BY <1>0, <1>3, <1>i DEF PoolTypeOK, Refuse
  <2> QED BY <1>0, <1>3, <2>1, <2>2 DEF PoolTypeOK, Refuse
<1>4. CASE Prepare(a)
  <2>1. pc' \in [Acts -> Steps]
    BY <1>0, <1>4, <1>s, GotoTypes DEF Prepare
  <2>2. ready' \in BOOLEAN /\ free' \in Nat
    BY <1>0, <1>4, <1>i DEF PoolTypeOK, Prepare
  <2>3. size[a] \in Sizes
    BY <1>4 DEF PoolInductive, CallInv, Prepare, At
  <2>4. size' \in [Acts -> Nat]
    BY <1>0, <1>4, <2>3, SaneSizes DEF PoolTypeOK, Prepare
  <2> QED BY <1>0, <1>4, <2>1, <2>2, <2>4 DEF PoolTypeOK, Prepare
<1>5. CASE AllocHead(a)
  <2>1. pc' \in [Acts -> Steps]
    BY <1>0, <1>5, <1>s, GotoTypes DEF AllocHead
  <2>2. size[a] \in Nat /\ free \in Nat
    BY <1>0 DEF PoolTypeOK
  <2>3. heads' \in [Cells -> Nat \cup {Junk}] /\ at' \in [Acts -> Nat]
    BY <1>0, <1>5, <2>2 DEF PoolTypeOK, AllocHead
  <2>5. Moves(a) => arg[a] - HeadSize \in Cells
    <3> SUFFICES ASSUME Moves(a) PROVE arg[a] - HeadSize \in Cells
      OBVIOUS
    <3>1. arg[a] \in Cut
      BY DEF Moves, PoolInductive, MemoryInv
    <3>2. PICK i \in 1..Len(blocks) : arg[a] = blocks[i].at
      BY <3>1 DEF Cut
    <3>3. blocks[i].at \in Nat
      BY <1>0, BlockTypes
    <3>4. Base <= blocks[i].at - HeadSize /\ blocks[i].at - HeadSize < End
      BY DEF PoolInductive, MemoryInv
    <3>5. /\ blocks[i].at - HeadSize \in Int /\ End - 1 \in Int
          /\ blocks[i].at - HeadSize <= End - 1
      BY <3>3, <3>4, PoolAssumption DEF End
    <3> QED BY <3>2, <3>4, <3>5, PoolAssumption DEF Cells
  <2>6. keep' \in [Acts -> Nat \cup {Junk}]
    <3>1. (IF Moves(a) THEN heads[arg[a] - HeadSize] ELSE 0) \in Nat \cup {Junk}
      BY <1>0, <2>5 DEF PoolTypeOK
    <3> QED BY <1>0, <1>5, <3>1 DEF PoolTypeOK, AllocHead
  <2> QED BY <1>0, <1>5, <2>1, <2>3, <2>6 DEF PoolTypeOK, AllocHead
<1>6. CASE AllocAborts(a)
  <2>1. pc' \in [Acts -> Steps]
    BY <1>0, <1>6, <1>s, GotoTypes DEF AllocAborts
  <2> QED BY <1>0, <1>6, <2>1 DEF PoolTypeOK, AllocAborts
<1>7. CASE AllocCut(a)
  <2>1. pc' \in [Acts -> Steps]
    BY <1>0, <1>7, <1>s, GotoTypes DEF AllocCut
  <2>2. PICK p, q \in {free, at[a]} :
          /\ free' = Add(q, Add(size[a], HeadSize))
          /\ blocks' = Append(blocks, [at |-> Add(p, HeadSize), size |-> size[a]])
          /\ result' = [result EXCEPT ![a] = Add(p, HeadSize)]
    BY <1>7 DEF AllocCut
  <2>3. p \in Nat /\ q \in Nat /\ size[a] \in Nat /\ HeadSize \in Nat
    BY <1>0, PoolAssumption DEF PoolTypeOK
  <2>4. free' \in Nat /\ Add(p, HeadSize) \in Nat
    BY <2>2, <2>3, WordSum
  <2>5. blocks' \in Seq(Block)
    BY <1>0, <2>2, <2>3, <2>4 DEF PoolTypeOK, Block
  <2>6. result' \in [Acts -> Addr]
    BY <1>0, <2>2, <2>4 DEF PoolTypeOK, Addr
  <2> QED BY <1>0, <1>7, <2>1, <2>4, <2>5, <2>6 DEF PoolTypeOK, AllocCut
<1>8. CASE Copy(a)
  <2>1. pc' \in [Acts -> Steps]
    BY <1>0, <1>8, <1>s, GotoTypes DEF Copy
  <2>2. keep[a] \in Nat /\ result[a] \in Nat
    BY <1>0, <1>8 DEF Copy, CopyFits, At, PoolInductive, CallInv
  <2>4. heads' \in [Cells -> Nat \cup {Junk}]
    BY <1>0, <1>8 DEF PoolTypeOK, Copy
  <2> QED BY <1>0, <1>8, <2>1, <2>4 DEF PoolTypeOK, Copy
<1>9. CASE CopyFaults(a)
  <2>1. pc' \in [Acts -> Steps]
    BY <1>0, <1>9, <1>s, GotoTypes DEF CopyFaults
  <2> QED BY <1>0, <1>9, <2>1 DEF PoolTypeOK, CopyFaults
<1>10. CASE Trace(a)
  <2>1. pc' \in [Acts -> Steps]
    BY <1>0, <1>10, <1>s, GotoTypes DEF Trace
  <2> QED BY <1>0, <1>10, <2>1 DEF PoolTypeOK, Trace
<1>11. CASE Traced(a)
  <2>1. pc' \in [Acts -> Steps]
    BY <1>0, <1>11, <1>s, GotoTypes DEF Traced
  <2> QED BY <1>0, <1>11, <2>1 DEF PoolTypeOK, Traced
<1>12. CASE Unlock(a)
  <2>1. owned' \in [Levels -> SUBSET Nat]
    BY <1>0, <1>12 DEF PoolTypeOK, Unlock, Addr
  <2> QED BY <1>0, <1>12, <2>1, ReturnTypes DEF PoolTypeOK, Unlock
<1> QED BY <1>1, <1>2, <1>3, <1>4, <1>5, <1>6, <1>7, <1>8, <1>9, <1>10, <1>11,
           <1>12 DEF Body
----------------------------------------------------------------------------
(* Turns.                                                                   *)

(* A call that is at work goes on without touching mutex or flag.           *)
LEMMA TurnGoto ==
  ASSUME PoolTypeOK, TurnInv, NEW a \in Acts, NEW s \in Working \cup {"crashed"},
         pc[a] \in Working, Goto(a, s),
         UNCHANGED <<mutex, inTrace, warm, born>>
  PROVE  TurnInv'
<1>1. First \in born' /\ (~warm' => born' = {First})
  BY DEF TurnInv
<1>2. pc' = [pc EXCEPT ![a] = s] /\ pc \in [Acts -> Steps]
  BY DEF Goto, PoolTypeOK
<1>3. ASSUME NEW t \in Threads
      PROVE  /\ t \notin born' => pc'[Outer(t)] = "idle" /\ pc'[Inner(t)] = "idle"
             /\ inTrace'[t] <=> pc'[Outer(t)] = "tracing"
             /\ pc'[Outer(t)] \in Working \cup {"tracing"}
                  => mutex' = t \/ born' = {First}
             /\ pc'[Inner(t)] # "tracing"
             /\ pc'[Inner(t)] # "idle" => pc'[Outer(t)] = "tracing" /\ ~warm'
  <2>1. Outer(t) \in Acts /\ Inner(t) \in Acts /\ Outer(t) # Inner(t)
    BY Activations
  <2>2. CASE a = Outer(t)
    <3>1. pc'[Outer(t)] = s /\ pc'[Inner(t)] = pc[Inner(t)]
      BY <1>2, <2>1, <2>2
    <3> QED BY <2>2, <3>1 DEF TurnInv, Working
  <2>3. CASE a = Inner(t)
    <3>1. pc'[Inner(t)] = s /\ pc'[Outer(t)] = pc[Outer(t)]
      BY <1>2, <2>1, <2>3
    <3> QED BY <2>3, <3>1 DEF TurnInv, Working
  <2>4. CASE a # Outer(t) /\ a # Inner(t)
    <3>1. pc'[Inner(t)] = pc[Inner(t)] /\ pc'[Outer(t)] = pc[Outer(t)]
      BY <1>2, <2>1, <2>4
    <3> QED BY <3>1 DEF TurnInv
  <2> QED BY <2>2, <2>3, <2>4
<1>4. TurnInv' <=>
        /\ First \in born' /\ (~warm' => born' = {First})
        /\ \A t \in Threads :
             /\ t \notin born' => pc'[Outer(t)] = "idle" /\ pc'[Inner(t)] = "idle"
             /\ inTrace'[t] <=> pc'[Outer(t)] = "tracing"
             /\ pc'[Outer(t)] \in Working \cup {"tracing"}
                  => mutex' = t \/ born' = {First}
             /\ pc'[Inner(t)] # "tracing"
             /\ pc'[Inner(t)] # "idle" => pc'[Outer(t)] = "tracing" /\ ~warm'
  BY DEF TurnInv, Outer, Inner
<1> QED BY <1>1, <1>3, <1>4

LEMMA WorldTurns ==
  ASSUME PoolTypeOK, TurnInv, NEW t \in Threads,
         Call(t) \/ InnerCall(t) \/ Spawn(t)
  PROVE  TurnInv'
<1>a. Outer(t) \in Acts /\ Inner(t) \in Acts /\ Outer(t) # Inner(t)
  BY Activations
<1>p. pc \in [Acts -> Steps]
  BY DEF PoolTypeOK
<1>1. CASE Call(t)
  <2>1. /\ pc[Outer(t)] = "idle" /\ pc' = [pc EXCEPT ![Outer(t)] = "enter"]
        /\ t \in born /\ UNCHANGED <<mutex, inTrace, warm, born>>
    BY <1>1 DEF Call, Begin, Goto, At, Outer
  <2>2. pc'[Outer(t)] = "enter" /\ pc'[Inner(t)] = pc[Inner(t)]
    BY <2>1, <1>a, <1>p
  <2>3. \A u \in Threads : u # t => /\ pc'[Outer(u)] = pc[Outer(u)]
                                    /\ pc'[Inner(u)] = pc[Inner(u)]
    BY <2>1, <1>a, <1>p, Activations
  <2> QED BY <2>1, <2>2, <2>3 DEF TurnInv, Working, Outer, Inner
<1>2. CASE InnerCall(t)
  <2>1. /\ pc[Inner(t)] = "idle" /\ pc' = [pc EXCEPT ![Inner(t)] = "enter"]
        /\ pc[Outer(t)] = "tracing" /\ ~warm
        /\ UNCHANGED <<mutex, inTrace, warm, born>>
    BY <1>2 DEF InnerCall, Begin, Goto, At, Outer, Inner
  <2>2. pc'[Inner(t)] = "enter" /\ pc'[Outer(t)] = pc[Outer(t)]
    BY <2>1, <1>a, <1>p
  <2>3. \A u \in Threads : u # t => /\ pc'[Outer(u)] = pc[Outer(u)]
                                    /\ pc'[Inner(u)] = pc[Inner(u)]
    BY <2>1, <1>a, <1>p, Activations
  <2> QED BY <2>1, <2>2, <2>3 DEF TurnInv, Working, Outer, Inner
<1>3. CASE Spawn(t)
  <2>1. /\ t \notin born /\ warm /\ born' = born \cup {t}
        /\ UNCHANGED <<mutex, inTrace, warm, pc>>
    BY <1>3 DEF Spawn, request, locals
  <2>2. PICK u \in born : pc[Outer(u)] = "idle"
    BY <1>3 DEF Spawn, Outer
  <2>3. born = {First} => pc[Outer(First)] = "idle"
    BY <2>2
  <2>4. ASSUME NEW v \in Threads
        PROVE  pc[Outer(v)] \in Working \cup {"tracing"} => mutex = v
    <3>1. CASE born = {First}
      BY <3>1, <2>3 DEF TurnInv, Working
    <3>2. CASE born # {First}
      BY <3>2 DEF TurnInv
    <3> QED BY <3>1, <3>2
  <2> QED BY <2>1, <2>4 DEF TurnInv, Outer, Inner
<1> QED BY <1>1, <1>2, <1>3

LEMMA BodyTurns ==
  ASSUME PoolTypeOK, TurnInv, NEW a \in Acts, Body(a)
  PROVE  TurnInv'
<1> DEFINE t == a[1]
<1>a. /\ t \in Threads /\ Outer(t) \in Acts /\ Inner(t) \in Acts
      /\ Outer(t) # Inner(t) /\ (a = Outer(t) \/ a = Inner(t))
  BY Activations
<1>p. pc \in [Acts -> Steps] /\ inTrace \in [Threads -> BOOLEAN]
  BY DEF PoolTypeOK
<1>w. \A s \in {"check", "head", "cut", "copy", "trace", "unlock"} : s \in Working
  BY DEF Working
<1>o. ASSUME NEW s, pc' = [pc EXCEPT ![a] = s]
      PROVE  \A u \in Threads : u # t => /\ pc'[Outer(u)] = pc[Outer(u)]
                                         /\ pc'[Inner(u)] = pc[Inner(u)]
  BY <1>o, <1>a, <1>p, Activations
<1> HIDE DEF t
<1> USE DEF pool, world, request, locals
<1>1. CASE Lock(a)
  <2>1. /\ pc[a] = "enter" /\ ~inTrace[t] /\ mutex' = t
        /\ UNCHANGED <<inTrace, warm, born>>
    BY <1>1 DEF Lock, At, t
  <2>2. PICK s \in {"unlock", "check"} : pc' = [pc EXCEPT ![a] = s]
    BY <1>1 DEF Lock, Goto
  <2>3. a = Outer(t)
    BY <1>a, <2>1 DEF TurnInv
  <2>4. pc'[Outer(t)] = s /\ pc'[Inner(t)] = pc[Inner(t)]
    BY <1>a, <1>p, <2>2, <2>3
  <2>5. \A u \in Threads : u # t => /\ pc'[Outer(u)] = pc[Outer(u)]
                                    /\ pc'[Inner(u)] = pc[Inner(u)]
    BY <1>o, <2>2
  <2>6. \A u \in Threads : u # t /\ pc[Outer(u)] \in Working \cup {"tracing"}
                           => born = {First}
    <3> SUFFICES ASSUME NEW u \in Threads, u # t,
                        pc[Outer(u)] \in Working \cup {"tracing"}
                 PROVE  born = {First}
      OBVIOUS
    <3>1. mutex = Null /\ mutex # u
      BY <1>1, PoolAssumption DEF Lock
    <3> QED BY <3>1 DEF TurnInv
  <2> QED BY <1>a, <2>1, <2>2, <2>3, <2>4, <2>5, <2>6
          DEF TurnInv, Working, Outer, Inner
<1>2. CASE LockSkipped(a)
  <2>1. /\ pc[a] = "enter" /\ inTrace[t] /\ UNCHANGED <<mutex, inTrace, warm, born>>
    BY <1>2 DEF LockSkipped, At, t
  <2>2. PICK s \in {"idle", "check"} : pc' = [pc EXCEPT ![a] = s]
    BY <1>2 DEF LockSkipped, Goto, Return
  <2>3. a = Inner(t)
    BY <1>a, <2>1 DEF TurnInv
  <2>4. pc'[Inner(t)] = s /\ pc'[Outer(t)] = pc[Outer(t)]
    BY <1>a, <1>p, <2>2, <2>3
  <2>5. \A u \in Threads : u # t => /\ pc'[Outer(u)] = pc[Outer(u)]
                                    /\ pc'[Inner(u)] = pc[Inner(u)]
    BY <1>o, <2>2
  <2> QED BY <1>a, <2>1, <2>2, <2>3, <2>4, <2>5 DEF TurnInv, Outer, Inner
<1>3. CASE Refuse(a)
  BY <1>3, <1>w, TurnGoto DEF Refuse, At
<1>4. CASE Prepare(a)
  BY <1>4, <1>w, TurnGoto DEF Prepare, At
<1>5. CASE AllocHead(a)
  BY <1>5, <1>w, TurnGoto DEF AllocHead, At
<1>6. CASE AllocAborts(a)
  BY <1>6, <1>w, TurnGoto DEF AllocAborts, At
<1>7. CASE AllocCut(a)
  BY <1>7, <1>w, TurnGoto DEF AllocCut, At
<1>8. CASE Copy(a)
  BY <1>8, <1>w, TurnGoto DEF Copy, At
<1>9. CASE CopyFaults(a)
  BY <1>9, <1>w, TurnGoto DEF CopyFaults, At
<1>10. CASE Trace(a)
  <2>1. /\ pc[a] = "trace" /\ inTrace' = [inTrace EXCEPT ![t] = TRUE]
        /\ UNCHANGED <<mutex, warm, born>>
        /\ pc' = [pc EXCEPT ![a] = IF inTrace[t] THEN "unlock" ELSE "tracing"]
    BY <1>10 DEF Trace, At, Goto, t
  <2>2. CASE a = Outer(t)
    <3>1. ~inTrace[t]
      BY <1>a, <2>1, <2>2 DEF TurnInv
    <3>2. /\ pc'[Outer(t)] = "tracing" /\ pc'[Inner(t)] = pc[Inner(t)]
          /\ inTrace'[t] /\ \A u \in Threads : u # t => inTrace'[u] = inTrace[u]
      BY <1>a, <1>p, <2>1, <2>2, <3>1
    <3>3. \A u \in Threads : u # t => /\ pc'[Outer(u)] = pc[Outer(u)]
                                      /\ pc'[Inner(u)] = pc[Inner(u)]
      BY <1>o, <2>1
    <3>4. pc[Outer(t)] \in Working
      BY <2>1, <2>2 DEF Working
    <3> QED BY <1>a, <2>1, <3>2, <3>3, <3>4 DEF TurnInv, Outer, Inner
  <2>3. CASE a = Inner(t)
    <3>1. inTrace[t]
      BY <1>a, <2>1, <2>3 DEF TurnInv
    <3>2. /\ pc'[Outer(t)] = pc[Outer(t)] /\ pc'[Inner(t)] = "unlock"
          /\ inTrace' = inTrace
      BY <1>a, <1>p, <2>1, <2>3, <3>1
    <3>3. \A u \in Threads : u # t => /\ pc'[Outer(u)] = pc[Outer(u)]
                                      /\ pc'[Inner(u)] = pc[Inner(u)]
      BY <1>o, <2>1
    <3> QED BY <1>a, <2>1, <2>3, <3>2, <3>3 DEF TurnInv, Outer, Inner
  <2> QED BY <1>a, <2>2, <2>3
<1>11. CASE Traced(a)
  <2>1. /\ pc[a] = "tracing" /\ inTrace' = [inTrace EXCEPT ![t] = FALSE]
        /\ UNCHANGED <<mutex, born>> /\ warm'
        /\ pc[Inner(t)] = "idle"
        /\ pc' = [pc EXCEPT ![a] = "unlock"]
    BY <1>11 DEF Traced, At, Goto, t, Inner
  <2>2. a = Outer(t)
    BY <1>a, <2>1 DEF TurnInv
  <2>3. /\ pc'[Outer(t)] = "unlock" /\ pc'[Inner(t)] = "idle"
        /\ ~inTrace'[t] /\ \A u \in Threads : u # t => inTrace'[u] = inTrace[u]
    BY <1>a, <1>p, <2>1, <2>2
  <2>4. \A u \in Threads : u # t => /\ pc'[Outer(u)] = pc[Outer(u)]
                                    /\ pc'[Inner(u)] = pc[Inner(u)]
    BY <1>o, <2>1
  <2>5. \A u \in Threads : u # t => pc[Inner(u)] = "idle"
    <3> SUFFICES ASSUME NEW u \in Threads, u # t, pc[Inner(u)] # "idle" PROVE FALSE
      OBVIOUS
    <3>1. born = {First}
      BY DEF TurnInv
    <3>2. t \in born /\ u \in born
      BY <1>a, <2>1, <2>2 DEF TurnInv
    <3> QED BY <3>1, <3>2
  <2>6. pc[Outer(t)] = "tracing"
    BY <2>1, <2>2
  <2> QED BY <1>a, <2>1, <2>3, <2>4, <2>5, <2>6 DEF TurnInv, Outer, Inner
<1>12. CASE Unlock(a)
  <2>1. /\ pc[a] = "unlock" /\ UNCHANGED <<inTrace, warm, born>> /\ mutex' = Null
        /\ pc' = [pc EXCEPT ![a] = "idle"]
    BY <1>12 DEF Unlock, At, Goto, Return
  <2>2. \A u \in Threads : u # t => /\ pc'[Outer(u)] = pc[Outer(u)]
                                    /\ pc'[Inner(u)] = pc[Inner(u)]
    BY <1>o, <2>1
  <2>3. \A u \in Threads : u # t /\ pc[Outer(u)] \in Working \cup {"tracing"}
                           => born = {First}
    <3> SUFFICES ASSUME NEW u \in Threads, u # t, born # {First},
                        pc[Outer(u)] \in Working \cup {"tracing"}
                 PROVE  FALSE
      OBVIOUS
    <3>1. mutex = u
      BY DEF TurnInv
    <3>2. a = Outer(t)
      BY <1>a, <2>1 DEF TurnInv
    <3>3. mutex = t
      BY <1>a, <2>1, <3>2 DEF TurnInv, Working
    <3> QED BY <3>1, <3>3
  <2>4. CASE a = Outer(t)
    <3>1. pc'[Outer(t)] = "idle" /\ pc'[Inner(t)] = pc[Inner(t)]
      BY <1>a, <1>p, <2>1, <2>4
    <3> QED BY <1>a, <2>1, <2>2, <2>3, <2>4, <3>1 DEF TurnInv, Working, Outer, Inner
  <2>5. CASE a = Inner(t)
    <3>1. pc'[Inner(t)] = "idle" /\ pc'[Outer(t)] = pc[Outer(t)]
      BY <1>a, <1>p, <2>1, <2>5
    <3>2. born = {First}
      BY <1>a, <2>1, <2>5 DEF TurnInv
    <3> QED BY <1>a, <2>1, <2>2, <2>5, <3>1, <3>2 DEF TurnInv, Outer, Inner
  <2> QED BY <1>a, <2>4, <2>5
<1> QED BY <1>1, <1>2, <1>3, <1>4, <1>5, <1>6, <1>7, <1>8, <1>9, <1>10, <1>11,
           <1>12 DEF Body
----------------------------------------------------------------------------
(* Memory.                                                                  *)

(* While one activation works on the pool, the others do not.               *)
LEMMA OthersAway ==
  ASSUME PoolInductive, NEW a \in Acts, pc[a] \in Working,
         NEW b \in Acts, b # a
  PROVE  pc[b] \notin Working
BY OneAtATime DEF PoolInductive

(* A block that is cut lies behind all others and in front of free_ptr.     *)
LEMMA CutStep ==
  ASSUME PoolInductive, NEW a \in Acts, AllocCut(a)
  PROVE  /\ free' = free + HeadSize + size[a]
         /\ blocks' = Append(blocks, [at |-> free + HeadSize, size |-> size[a]])
         /\ result' = [result EXCEPT ![a] = free + HeadSize]
         /\ free \in Cells /\ heads[free] = size[a] /\ Base <= free
<1>1. /\ at[a] = free /\ free \in Cells /\ heads[free] = size[a]
      /\ free + size[a] + HeadSize < End
  BY DEF AllocCut, At, PoolInductive, CallInv
<1>2. free \in Nat /\ size[a] \in Nat /\ HeadSize \in Nat /\ End < Word
  BY PoolAssumption DEF PoolInductive, PoolTypeOK, End
<1>3. End \in Nat /\ Word \in Nat
  BY PoolAssumption DEF End
<1>s. /\ size[a] + HeadSize \in Nat /\ size[a] + HeadSize < Word
      /\ free + (size[a] + HeadSize) < Word /\ free + HeadSize < Word
      /\ free + (size[a] + HeadSize) = free + HeadSize + size[a]
  BY <1>1, <1>2, <1>3
<1>4. Add(size[a], HeadSize) = size[a] + HeadSize
  BY <1>2, <1>s, WordSum
<1>5. Add(free, size[a] + HeadSize) = free + HeadSize + size[a]
  <2>1. Add(free, size[a] + HeadSize) = free + (size[a] + HeadSize)
    BY <1>2, <1>s, WordSum
  <2> QED BY <2>1, <1>s
<1>6. Add(free, HeadSize) = free + HeadSize
  BY <1>2, <1>s, WordSum
<1>7. Base <= free
  BY <1>1, <1>3, PoolAssumption DEF Cells
<1> QED BY <1>1, <1>4, <1>5, <1>6, <1>7 DEF AllocCut

LEMMA WorldMemory ==
  ASSUME PoolInductive, NEW t \in Threads, Call(t) \/ InnerCall(t) \/ Spawn(t)
  PROVE  MemoryInv' /\ CallInv'
<1>1. ASSUME NEW a \in Acts, Begin(a)
      PROVE  MemoryInv' /\ CallInv'
  <2>1. PICK n \in Sizes, p \in owned[a[2]] \cup {Null} :
          /\ size' = [size EXCEPT ![a] = n]
          /\ arg' = [arg EXCEPT ![a] = p]
          /\ owned' = [owned EXCEPT ![a[2]] = @ \ {p}]
    BY <1>1 DEF Begin
  <2>2. /\ pc' = [pc EXCEPT ![a] = "enter"]
        /\ UNCHANGED <<ready, free, heads, blocks, at, keep, result>>
    BY <1>1 DEF Begin, Goto, pool, locals
  <2>3. /\ pc \in [Acts -> Steps] /\ size \in [Acts -> Nat]
        /\ arg \in [Acts -> Addr] /\ owned \in [Levels -> SUBSET Nat]
        /\ a[2] \in Levels
    BY Activations DEF PoolInductive, PoolTypeOK
  <2>4. MemoryInv'
    <3>1. \A l \in Levels : owned'[l] \subseteq Cut'
      BY <2>1, <2>2, <2>3 DEF PoolInductive, MemoryInv, Cut
    <3>2. p \in Cut \cup {Null}
      BY <2>1, <2>3 DEF PoolInductive, MemoryInv
    <3>3. \A b \in Acts : arg'[b] \in Cut' \cup {Null} /\ result'[b] \in Cut' \cup {Null}
      BY <2>1, <2>2, <2>3, <3>2 DEF PoolInductive, MemoryInv, Cut
    <3> QED BY <2>2, <3>1, <3>3
            DEF PoolInductive, MemoryInv, BlocksDisjoint, HeadsIntact
  <2>5. CallInv'
    <3> SUFFICES ASSUME NEW b \in Acts
                 PROVE  CallInv!(b)'
      BY DEF CallInv
    <3>1. CASE b = a
      BY <2>1, <2>2, <2>3, <3>1
    <3>2. CASE b # a
      <4>1. pc'[b] = pc[b] /\ size'[b] = size[b]
        BY <2>1, <2>2, <2>3, <3>2
      <4> QED BY <2>2, <4>1 DEF PoolInductive, CallInv
    <3> QED BY <3>1, <3>2
  <2> QED BY <2>4, <2>5
<1>2. CASE Spawn(t)
  <2>1. UNCHANGED <<pool, owned, pc, request, locals>>
    BY <1>2 DEF Spawn
  <2> QED BY <2>1 DEF PoolInductive, MemoryInv, CallInv, BlocksDisjoint,
                      HeadsIntact, Cut, pool, request, locals
<1> QED BY <1>1, <1>2, Activations DEF Call, InnerCall, Outer, Inner

LEMMA BodyMemory ==
  ASSUME PoolInductive, NEW a \in Acts, Body(a)
  PROVE  MemoryInv'
<1> USE DEF pool, world, request, locals
<1>0. PoolTypeOK /\ MemoryInv /\ CallInv /\ Base \in Nat /\ HeadSize \in Nat \ {0}
  BY PoolAssumption DEF PoolInductive
<1>1. ASSUME UNCHANGED <<ready, free, heads, blocks, owned, arg, result>>
      PROVE  MemoryInv'
  BY <1>0, <1>1 DEF MemoryInv, BlocksDisjoint, HeadsIntact, Cut
<1>2. CASE Lock(a) \/ AllocAborts(a) \/ CopyFaults(a) \/ Trace(a) \/ Traced(a)
  BY <1>1, <1>2 DEF Lock, AllocAborts, CopyFaults, Trace, Traced
<1>3. CASE LockSkipped(a)
  <2>1. CASE Return(a)
    <3>1. /\ arg' = [arg EXCEPT ![a] = Null] /\ result' = [result EXCEPT ![a] = Null]
          /\ UNCHANGED <<ready, free, heads, blocks, owned>>
      BY <1>3, <2>1 DEF LockSkipped, Return
    <3> QED BY <1>0, <3>1
            DEF PoolTypeOK, MemoryInv, BlocksDisjoint, HeadsIntact, Cut
  <2> QED BY <1>1, <1>3, <2>1 DEF LockSkipped
<1>4. CASE Refuse(a) \/ Prepare(a)
  <2>1. UNCHANGED <<heads, blocks, owned, arg, result>>
    BY <1>4 DEF Refuse, Prepare
  <2>2. UNCHANGED <<ready, free>> \/ InitPool
    BY <1>4 DEF Refuse, Prepare
  <2>3. CASE UNCHANGED <<ready, free>>
    BY <1>1, <2>1, <2>3
  <2>4. CASE ready /\ InitPool
    <3>1. UNCHANGED free /\ ready' = TRUE
      BY <2>4 DEF InitPool
    <3> QED BY <1>0, <2>1, <2>4, <3>1 DEF MemoryInv, BlocksDisjoint, HeadsIntact, Cut
  <2>5. CASE ~ready /\ InitPool
    <3>1. ready' /\ free' = Base /\ blocks' = <<>>
      BY <1>0, <2>1, <2>5 DEF InitPool, MemoryInv
    <3>2. Base <= free' /\ Len(blocks') = 0
      BY <1>0, <3>1
    <3> QED BY <1>0, <2>1, <3>1, <3>2 DEF MemoryInv, BlocksDisjoint, HeadsIntact, Cut
  <2> QED BY <2>2, <2>3, <2>4, <2>5
<1>5. CASE AllocHead(a)
  <2>1. /\ heads' = [heads EXCEPT ![free] = size[a]]
        /\ UNCHANGED <<ready, free, blocks, owned, arg, result>>
    BY <1>5 DEF AllocHead
  <2>2. ASSUME NEW i \in 1..Len(blocks)
        PROVE  heads'[blocks[i].at - HeadSize] = blocks[i].size
    <3>1. blocks[i].at \in Nat /\ blocks[i].size \in Nat /\ free \in Nat
      BY <1>0, BlockTypes DEF PoolTypeOK
    <3>2. /\ blocks[i].at + blocks[i].size <= free
          /\ heads[blocks[i].at - HeadSize] = blocks[i].size
      BY <1>0 DEF MemoryInv, HeadsIntact
    <3>3. blocks[i].at - HeadSize # free
      BY <1>0, <3>1, <3>2
    <3> QED BY <1>0, <2>1, <3>2, <3>3 DEF PoolTypeOK
  <2>3. HeadsIntact'
    BY <2>1, <2>2 DEF HeadsIntact
  <2> QED BY <1>0, <2>1, <2>3 DEF MemoryInv, BlocksDisjoint, Cut
<1>6. CASE AllocCut(a)
  <2> DEFINE n == Len(blocks)
             b == [at |-> free + HeadSize, size |-> size[a]]
  <2>1. /\ free' = free + HeadSize + size[a] /\ blocks' = Append(blocks, b)
        /\ result' = [result EXCEPT ![a] = free + HeadSize]
        /\ free \in Cells /\ heads[free] = size[a] /\ Base <= free
        /\ UNCHANGED <<ready, heads, owned, arg>>
    BY <1>6, CutStep DEF AllocCut
  <2>2. free \in Nat /\ size[a] \in Nat /\ n \in Nat /\ End \in Nat
    BY <1>0, PoolAssumption DEF PoolTypeOK, End
  <2>3. /\ Len(blocks') = n + 1 /\ blocks'[n + 1] = b
        /\ \A i \in 1..n : blocks'[i] = blocks[i]
    BY <1>0, <2>1, <2>2 DEF PoolTypeOK
  <2>4. b.at = free + HeadSize /\ b.size = size[a]
    OBVIOUS
  <2> HIDE DEF b, n
  <2>5. \A i \in 1..n : /\ blocks[i].at \in Nat /\ blocks[i].size \in Nat
                        /\ Base <= blocks[i].at - HeadSize
                        /\ blocks[i].at - HeadSize < End
                        /\ blocks[i].at + blocks[i].size <= free
                        /\ heads[blocks[i].at - HeadSize] = blocks[i].size
    BY <1>0, BlockTypes DEF MemoryInv, HeadsIntact, n
  <2>6. \A i \in 1..(n + 1) : i \in 1..n \/ i = n + 1
    BY <2>2
  <2>7. free < End /\ free' \in Nat /\ free <= free'
    BY <1>0, <2>1, <2>2 DEF Cells
  <2>8. ready'
    BY <1>0, <1>6, <2>1 DEF CallInv, AllocCut, At
  <2>9. \A i \in 1..Len(blocks') : /\ Base <= blocks'[i].at - HeadSize
                                   /\ blocks'[i].at - HeadSize < End
                                   /\ blocks'[i].at + blocks'[i].size <= free'
                                   /\ heads'[blocks'[i].at - HeadSize] = blocks'[i].size
    <3> SUFFICES ASSUME NEW i \in 1..(n + 1)
                 PROVE  /\ Base <= blocks'[i].at - HeadSize
                        /\ blocks'[i].at - HeadSize < End
                        /\ blocks'[i].at + blocks'[i].size <= free'
                        /\ heads'[blocks'[i].at - HeadSize] = blocks'[i].size
      BY <2>3
    <3>1. CASE i \in 1..n
      <4>1. /\ blocks'[i] = blocks[i] /\ heads' = heads
            /\ blocks[i].at + blocks[i].size \in Nat
        BY <2>1, <2>3, <2>5, <3>1
      <4>2. blocks[i].at + blocks[i].size <= free'
        BY <2>2, <2>5, <2>7, <3>1, <4>1
      <4> QED BY <2>5, <3>1, <4>1, <4>2
    <3>2. CASE i = n + 1
      <4>1. blocks'[i].at - HeadSize = free /\ blocks'[i].size = size[a]
        BY <1>0, <2>2, <2>3, <2>4, <3>2
      <4>2. blocks'[i].at + blocks'[i].size = free'
        BY <2>1, <2>3, <2>4, <3>2
      <4>3. blocks'[i].at + blocks'[i].size <= free'
        BY <2>7, <4>2
      <4>4. heads'[free] = size[a] /\ Base <= free /\ free < End
        BY <2>1, <2>7
      <4> QED BY <4>1, <4>3, <4>4
    <3> QED BY <2>6, <3>1, <3>2
  <2>10. BlocksDisjoint'
    <3> SUFFICES ASSUME NEW i \in 1..(n + 1), NEW j \in 1..(n + 1), i < j
                 PROVE  blocks'[i].at + blocks'[i].size <= blocks'[j].at - HeadSize
      BY <2>3 DEF BlocksDisjoint
    <3>1. CASE j \in 1..n
      <4>1. i \in 1..n
        BY <2>2, <3>1
      <4> QED BY <1>0, <2>3, <3>1, <4>1 DEF MemoryInv, BlocksDisjoint, n
    <3>2. CASE j = n + 1
      <4>1. i \in 1..n
        BY <2>2, <3>2
      <4>2. blocks'[j].at - HeadSize = free
        BY <1>0, <2>2, <2>3, <2>4, <3>2
      <4> QED BY <2>3, <2>5, <4>1, <4>2
    <3> QED BY <2>6, <3>1, <3>2
  <2>11. Cut \subseteq Cut' /\ free + HeadSize \in Cut'
    <3>1. Cut \subseteq Cut'
      BY <2>2, <2>3 DEF Cut, n
    <3>2. n + 1 \in 1..Len(blocks')
      BY <2>2, <2>3
    <3> QED BY <2>3, <2>4, <3>1, <3>2 DEF Cut
  <2>12. \A l \in Levels : owned'[l] \subseteq Cut'
    BY <1>0, <2>1, <2>11 DEF MemoryInv
  <2>13. \A c \in Acts : arg'[c] \in Cut' \cup {Null} /\ result'[c] \in Cut' \cup {Null}
    BY <1>0, <2>1, <2>11 DEF MemoryInv, PoolTypeOK
  <2>14. Base <= free'
    BY <1>0, <2>1, <2>2, <2>7
  <2> QED BY <2>8, <2>9, <2>10, <2>12, <2>13, <2>14 DEF MemoryInv, HeadsIntact
<1>7. CASE Copy(a)
  <2>1. /\ heads' = [c \in Cells |->
                       IF result[a] < c + HeadSize /\ c < result[a] + keep[a]
                       THEN Junk ELSE heads[c]]
        /\ UNCHANGED <<ready, free, blocks, owned, arg, result>>
    BY <1>7 DEF Copy
  <2>2. ASSUME NEW i \in 1..Len(blocks)
        PROVE  heads'[blocks[i].at - HeadSize] = blocks[i].size
    <3>1. blocks[i].at \in Nat /\ result[a] \in Nat /\ blocks[i].at <= result[a]
      BY <1>0, <1>7, BlockTypes DEF Copy, At, CallInv
    <3>2. /\ Base <= blocks[i].at - HeadSize /\ blocks[i].at - HeadSize < End
          /\ heads[blocks[i].at - HeadSize] = blocks[i].size
      BY <1>0 DEF MemoryInv, HeadsIntact
    <3>3. /\ blocks[i].at - HeadSize \in Cells
          /\ ~(result[a] < (blocks[i].at - HeadSize) + HeadSize)
      <4>1. HeadSize \in Nat /\ Base \in Nat /\ End \in Nat
        BY PoolAssumption DEF End
      <4>2. ~(result[a] < (blocks[i].at - HeadSize) + HeadSize)
        BY <3>1, <4>1
      <4>3. blocks[i].at - HeadSize \in Int
        BY <3>1, <4>1
      <4>4. blocks[i].at - HeadSize \in Base..End - 1
        BY <3>2, <4>1, <4>3
      <4> QED BY <4>2, <4>4 DEF Cells
    <3> QED BY <2>1, <3>2, <3>3
  <2>3. HeadsIntact'
    BY <2>1, <2>2 DEF HeadsIntact
  <2> QED BY <1>0, <2>1, <2>3 DEF MemoryInv, BlocksDisjoint, Cut
<1>8. CASE Unlock(a)
  <2>1. /\ arg' = [arg EXCEPT ![a] = Null] /\ result' = [result EXCEPT ![a] = Null]
        /\ UNCHANGED <<ready, free, heads, blocks>>
        /\ owned' = IF result[a] = Null THEN owned
                    ELSE [owned EXCEPT ![a[2]] = @ \cup {result[a]}]
    BY <1>8 DEF Unlock, Return
  <2>2. \A l \in Levels : owned'[l] \subseteq Cut'
    <3>1. Cut' = Cut /\ (result[a] # Null => result[a] \in Cut)
      BY <1>0, <2>1 DEF MemoryInv, Cut
    <3>2. owned \in [Levels -> SUBSET Nat] /\ \A l \in Levels : owned[l] \subseteq Cut
      BY <1>0 DEF PoolTypeOK, MemoryInv
    <3>3. CASE result[a] = Null
      BY <2>1, <3>1, <3>2, <3>3
    <3>4. CASE result[a] # Null
      <4>1. owned' = [owned EXCEPT ![a[2]] = @ \cup {result[a]}]
        BY <2>1, <3>4
      <4> QED BY <3>1, <3>2, <3>4, <4>1
    <3> QED BY <3>3, <3>4
  <2>3. \A c \in Acts : arg'[c] \in Cut' \cup {Null} /\ result'[c] \in Cut' \cup {Null}
    BY <1>0, <2>1 DEF PoolTypeOK, MemoryInv, Cut
  <2> QED BY <1>0, <2>1, <2>2, <2>3 DEF MemoryInv, BlocksDisjoint, HeadsIntact
<1> QED BY <1>2, <1>3, <1>4, <1>5, <1>6, <1>7, <1>8 DEF Body
LEMMA BodyCalls ==
  ASSUME PoolInductive, NEW a \in Acts, Body(a)
  PROVE  CallInv'
<1> USE DEF pool, world, request, locals
<1>0. /\ PoolTypeOK /\ MemoryInv /\ CallInv
      /\ pc \in [Acts -> Steps] /\ size \in [Acts -> Nat]
      /\ at \in [Acts -> Nat] /\ result \in [Acts -> Addr]
  BY DEF PoolInductive, PoolTypeOK
(* What a step must show of its own call, and of the others.                *)
<1>a. ASSUME NEW s \in Steps, pc' = [pc EXCEPT ![a] = s],
             \A b \in Acts : b # a => /\ size'[b] = size[b] /\ at'[b] = at[b]
                                     /\ result'[b] = result[b],
             \/ UNCHANGED <<ready, free, heads, blocks>>
             \/ pc[a] \in Working,
             CallInv!(a)'
      PROVE  CallInv'
  <2> SUFFICES ASSUME NEW b \in Acts, b # a PROVE CallInv!(b)'
    BY <1>a DEF CallInv
  <2>1. /\ pc'[b] = pc[b] /\ size'[b] = size[b] /\ at'[b] = at[b]
        /\ result'[b] = result[b]
    BY <1>0, <1>a
  <2>2. CASE UNCHANGED <<ready, free, heads, blocks>>
    BY <1>0, <2>1, <2>2 DEF CallInv
  <2>3. CASE pc[a] \in Working
    <3>1. pc[b] \notin Working
      BY <2>3, OthersAway
    <3> QED BY <1>0, <2>1, <3>1 DEF CallInv, Working
  <2> QED BY <1>a, <2>2, <2>3
<1>s. \A s \in {"idle", "enter", "check", "head", "cut", "copy", "trace",
                "tracing", "unlock", "crashed"} : s \in Steps
  BY DEF Steps
(* Steps after which the call knows nothing that could be wrong.            *)
<1>b. ASSUME NEW s \in {"idle", "trace", "tracing", "unlock", "crashed"},
             pc' = [pc EXCEPT ![a] = s],
             \A b \in Acts : b # a => /\ size'[b] = size[b] /\ at'[b] = at[b]
                                     /\ result'[b] = result[b],
             \/ UNCHANGED <<ready, free, heads, blocks>>
             \/ pc[a] \in Working
      PROVE  CallInv'
  <2>1. CallInv!(a)'
    BY <1>0, <1>b
  <2> QED BY <1>a, <1>b, <1>s, <2>1
<1>1. CASE Lock(a)
  <2>1. PICK s \in {"unlock", "check"} : pc' = [pc EXCEPT ![a] = s]
    BY <1>1 DEF Lock, Goto
  <2>2. UNCHANGED <<ready, free, heads, blocks, size, at, result>> /\ pc[a] = "enter"
    BY <1>1 DEF Lock, At
  <2>3. CallInv!(a)'
    BY <1>0, <2>1, <2>2 DEF CallInv
  <2> QED BY <1>a, <1>s, <2>1, <2>2, <2>3
<1>2. CASE LockSkipped(a)
  <2>1. UNCHANGED <<ready, free, heads, blocks>> /\ pc[a] = "enter"
    BY <1>2 DEF LockSkipped, At
  <2>2. CASE Return(a)
    <3>1. \A b \in Acts : b # a => /\ size'[b] = size[b] /\ at'[b] = at[b]
                                   /\ result'[b] = result[b]
      BY <1>0, <2>2 DEF Return
    <3> QED BY <1>b, <2>1, <2>2, <3>1 DEF Return, Goto
  <2>3. CASE Goto(a, "check") /\ UNCHANGED <<request, locals>>
    <3>1. CallInv!(a)'
      BY <1>0, <2>1, <2>3 DEF CallInv, Goto
    <3> QED BY <1>a, <1>s, <2>1, <2>3, <3>1 DEF Goto
  <2> QED BY <1>2, <2>2, <2>3 DEF LockSkipped
<1>3. CASE Refuse(a)
  BY <1>3, <1>b DEF Refuse, Goto, At, Working
<1>4. CASE Prepare(a)
  <2>1. /\ pc' = [pc EXCEPT ![a] = "head"] /\ ready' = TRUE /\ pc[a] = "check"
        /\ size' = [size EXCEPT ![a] = Aligned(size[a])]
        /\ UNCHANGED <<at, result>>
    BY <1>4 DEF Prepare, Goto, At, InitPool
  <2>2. Aligned(size[a]) \in Sane
    BY <1>0, <2>1 DEF CallInv, Sane
  <2>3. Sane' = Sane
    BY DEF Sane, Aligned
  <2>4. CallInv!(a)'
    BY <1>0, <2>1, <2>2, <2>3
  <2>5. \A b \in Acts : b # a => size'[b] = size[b]
    BY <1>0, <2>1
  <2> QED BY <1>a, <1>s, <2>1, <2>4, <2>5 DEF Working
<1>5. CASE AllocHead(a)
  <2>1. /\ pc' = [pc EXCEPT ![a] = "cut"] /\ pc[a] = "head" /\ Fits(a)
        /\ heads' = [heads EXCEPT ![free] = size[a]]
        /\ at' = [at EXCEPT ![a] = free]
        /\ UNCHANGED <<ready, free, blocks, size, result>>
    BY <1>5 DEF AllocHead, Goto, At
  <2>2. PICK n \in Sizes : size[a] = Aligned(n)
    BY <1>0, <2>1 DEF CallInv, Sane
  <2>3. /\ size[a] \in Nat /\ free \in Nat /\ HeadSize \in Nat /\ Alignment \in Nat
        /\ End \in Nat /\ free \in Cells /\ Word \in Nat
        /\ size[a] + HeadSize + Alignment + End < Word
    BY <1>0, <2>1, <2>2, SaneSizes, PoolAssumption DEF PoolTypeOK, Fits, End
  <2>4. free < End
    BY <2>3, PoolAssumption DEF Cells
  <2>5. free + size[a] + HeadSize < End
    <3>1. /\ HeadSize + Alignment \in Nat
          /\ size[a] + (HeadSize + Alignment) \in Nat
          /\ size[a] + (HeadSize + Alignment) < Word
          /\ free + (size[a] + (HeadSize + Alignment)) < Word
      BY <2>3, <2>4
    <3>2. Add(size[a], HeadSize + Alignment) = size[a] + (HeadSize + Alignment)
      BY <2>3, <3>1, WordSum
    <3>3. Add(free, size[a] + (HeadSize + Alignment))
            = free + (size[a] + (HeadSize + Alignment))
      BY <2>3, <3>1, WordSum
    <3>4. free + (size[a] + (HeadSize + Alignment)) < End
      BY <2>1, <3>2, <3>3 DEF Fits
    <3> QED BY <2>3, <3>4
  <2>6. heads'[free] = size[a] /\ at'[a] = free
    BY <1>0, <2>1, <2>3 DEF PoolTypeOK
  <2>7. ready' /\ size'[a] \in Sane
    BY <1>0, <2>1 DEF CallInv
  <2>8. CallInv!(a)'
    BY <1>0, <2>1, <2>3, <2>5, <2>6, <2>7 DEF Sane, Aligned
  <2>9. \A b \in Acts : b # a => at'[b] = at[b]
    BY <1>0, <2>1
  <2> QED BY <1>a, <1>s, <2>1, <2>8, <2>9 DEF Working
<1>6. CASE AllocCut(a)
  <2>1. /\ free' = free + HeadSize + size[a]
        /\ blocks' = Append(blocks, [at |-> free + HeadSize, size |-> size[a]])
        /\ result' = [result EXCEPT ![a] = free + HeadSize]
        /\ pc[a] = "cut" /\ UNCHANGED <<ready, size, at>>
    BY <1>6, CutStep DEF AllocCut, At
  <2>2. \A b \in Acts : b # a => result'[b] = result[b]
    BY <1>0, <2>1
  <2>3. CASE Goto(a, "trace")
    BY <1>b, <2>1, <2>2, <2>3 DEF Goto, Working
  <2>4. CASE Goto(a, "copy")
    <3>1. free \in Nat /\ HeadSize \in Nat /\ size[a] \in Nat /\ Len(blocks) \in Nat
      BY <1>0, PoolAssumption DEF PoolTypeOK
    <3>2. result'[a] = free + HeadSize /\ result'[a] \in Nat
      BY <1>0, <2>1, <3>1
    <3>3. ASSUME NEW i \in 1..Len(blocks') PROVE blocks'[i].at <= result'[a]
      <4>1. CASE i \in 1..Len(blocks)
        <5>1. blocks'[i] = blocks[i]
          BY <1>0, <2>1, <4>1 DEF PoolTypeOK
        <5>2. blocks[i].at \in Nat /\ blocks[i].size \in Nat
          BY <1>0, <4>1, BlockTypes
        <5>3. blocks[i].at + blocks[i].size <= free
          BY <1>0, <4>1 DEF MemoryInv
        <5> QED BY <3>1, <3>2, <5>1, <5>2, <5>3
      <4>2. CASE i = Len(blocks) + 1
        <5>1. blocks'[i] = [at |-> free + HeadSize, size |-> size[a]]
          BY <1>0, <2>1, <4>2 DEF PoolTypeOK
        <5> QED BY <3>1, <3>2, <5>1
      <4>3. Len(blocks') = Len(blocks) + 1
        BY <1>0, <2>1 DEF PoolTypeOK
      <4> QED BY <3>1, <4>1, <4>2, <4>3
    <3>4. pc'[a] = "copy"
      BY <1>0, <2>4 DEF Goto
    <3>5. ready' /\ size'[a] \in Sane' /\ size'[a] = size[a]
      BY <1>0, <2>1 DEF CallInv, Sane, Aligned
    <3>6. CallInv!(a)'
      BY <3>2, <3>3, <3>4, <3>5
    <3> QED BY <1>a, <1>s, <2>1, <2>2, <2>4, <3>6 DEF Goto, Working
  <2> QED BY <1>6, <2>3, <2>4 DEF AllocCut
<1>7. CASE Copy(a)
  BY <1>7, <1>b DEF Copy, Goto, At, Working
<1>8. CASE AllocAborts(a) \/ CopyFaults(a)
  BY <1>8, <1>b DEF AllocAborts, CopyFaults, Goto
<1>9. CASE Trace(a)
  <2>1. Goto(a, "unlock") \/ Goto(a, "tracing")
    BY <1>9 DEF Trace
  <2> QED BY <1>9, <1>b, <2>1 DEF Trace, Goto
<1>10. CASE Traced(a)
  BY <1>10, <1>b DEF Traced, Goto
<1>11. CASE Unlock(a)
  <2>1. \A b \in Acts : b # a => /\ size'[b] = size[b] /\ at'[b] = at[b]
                                 /\ result'[b] = result[b]
    BY <1>0, <1>11 DEF Unlock, Return
  <2> QED BY <1>11, <1>b, <2>1 DEF Unlock, Return, Goto
<1> QED BY <1>1, <1>2, <1>3, <1>4, <1>5, <1>6, <1>7, <1>8, <1>9, <1>10, <1>11
        DEF Body

----------------------------------------------------------------------------
(* The inductive invariant holds in every reachable state: the pool's types,*)
(* whose turn it is, and what lies below free_ptr.                          *)
THEOREM PoolInvariantHolds == PoolSpec => []PoolInductive
<1>1. PoolInit => PoolInductive
  BY InitialState
<1>2. PoolInductive /\ [PoolNext]_vars => PoolInductive'
  <2> SUFFICES ASSUME PoolInductive, [PoolNext]_vars PROVE PoolInductive'
    OBVIOUS
  <2>1. ASSUME NEW t \in Threads, Call(t) \/ InnerCall(t) \/ Spawn(t)
        PROVE  PoolInductive'
    BY <2>1, WorldTypes, WorldTurns, WorldMemory DEF PoolInductive
  <2>2. ASSUME NEW a \in Acts, Body(a)
        PROVE  PoolInductive'
    BY <2>2, BodyTypes, BodyTurns, BodyMemory, BodyCalls DEF PoolInductive
  <2>3. CASE UNCHANGED vars
    BY <2>3 DEF vars, pool, world, request, locals, PoolInductive, PoolTypeOK,
                TurnInv, MemoryInv, CallInv, BlocksDisjoint, HeadsIntact, Cut,
                Sane, Aligned, Outer, Inner
  <2> QED BY <2>1, <2>2, <2>3 DEF PoolNext, Finished
<1> QED BY <1>1, <1>2, PTL DEF PoolSpec

(* No two blocks the allocator handed out overlap, headers included, for    *)
(* any number of threads: pool_alloc is never entered twice at once.        *)
THEOREM BlocksAreDisjoint == PoolSpec => []BlocksDisjoint
<1>1. PoolInductive => BlocksDisjoint
  BY DEF PoolInductive, MemoryInv
<1> QED BY <1>1, PoolInvariantHolds, PTL

(* realloc always reads the size pool_alloc stored: no header is written    *)
(* over, although memcpy may run past the block it fills.                   *)
THEOREM HeadsStayIntact == PoolSpec => []HeadsIntact
<1>1. PoolInductive => HeadsIntact
  BY DEF PoolInductive, MemoryInv
<1> QED BY <1>1, PoolInvariantHolds, PTL
=============================================================================
