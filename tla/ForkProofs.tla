----------------------------- MODULE ForkProofs -----------------------------
(***************************************************************************)
(* Proofs about a program that forks, for any number of threads, arenas    *)
(* and forks.  What is proved of Arena is not proved again: to the parent, *)
(* with the fork left out, a step of a handler only takes or gives back    *)
(* locks, and any other step is one of Arena.                              *)
(***************************************************************************)
EXTENDS ForkSteps

----------------------------------------------------------------------------
(* To the rest of the parent a fork only takes and releases locks.         *)

LEMMA ForkingIsIdle ==
  ASSUME ForkTypeInv, NEW t \in Threads, OnlyMine(t), ForkTypeInv',
         pc[t] \in ForkLabels \cup {"idle"}, pc'[t] \in ForkLabels \cup {"idle"}
  PROVE  PlainPc' = PlainPc /\ PlainAv' = PlainAv
<1>1. ASSUME NEW u \in Threads
      PROVE  PlainPc'[u] = PlainPc[u] /\ PlainAv'[u] = PlainAv[u]
  <2>1. CASE u = t
    <3>1. pc[t] = "idle" => av[t] = Null /\ pc[t] \notin ForkLabels \cup WaitLabels
      BY SMT DEF ForkTypeInv, ForkPointers, ForkLabels, PrepareLabels, ParentLabels, WaitLabels
    <3>2. pc'[t] = "idle" => av'[t] = Null /\ pc'[t] \notin ForkLabels \cup WaitLabels
      BY SMT DEF ForkTypeInv, ForkPointers, ForkLabels, PrepareLabels, ParentLabels, WaitLabels
    <3>3. PlainPc[t] = "idle" /\ PlainAv[t] = Null
      <4>1. PlainPc[t] = (CASE pc[t] \in ForkLabels -> "idle"
                            [] pc[t] \in {"wait_list", "leave_list"} -> "enter"
                            [] pc[t] = "chunk_arena" -> "owner"
                            [] OTHER -> pc[t])
            /\ PlainAv[t] = IF pc[t] \in ForkLabels THEN Null ELSE av[t]
        BY DEF PlainPc, PlainAv
      <4>2. CASE pc[t] = "idle"
        BY <3>1, <4>1, <4>2
      <4>3. CASE pc[t] \in ForkLabels
        BY <4>1, <4>3, SMT DEF ForkLabels, PrepareLabels, ParentLabels
      <4> QED BY <4>2, <4>3
    <3>4. PlainPc'[t] = "idle" /\ PlainAv'[t] = Null
      <4>1. PlainPc'[t] = (CASE pc'[t] \in ForkLabels -> "idle"
                             [] pc'[t] \in {"wait_list", "leave_list"} -> "enter"
                             [] pc'[t] = "chunk_arena" -> "owner"
                             [] OTHER -> pc'[t])
            /\ PlainAv'[t] = IF pc'[t] \in ForkLabels THEN Null ELSE av'[t]
        BY DEF PlainPc, PlainAv
      <4>2. CASE pc'[t] = "idle"
        BY <3>2, <4>1, <4>2
      <4>3. CASE pc'[t] \in ForkLabels
        BY <4>1, <4>3, SMT DEF ForkLabels, PrepareLabels, ParentLabels
      <4> QED BY <4>2, <4>3
    <3> QED BY <2>1, <3>3, <3>4
  <2>2. CASE u # t
    BY <2>2, SMT DEF OnlyMine, PlainPc, PlainAv
  <2> QED BY <2>1, <2>2
<1>2. /\ PlainPc = [u \in Threads |-> PlainPc[u]] /\ PlainPc' = [u \in Threads |-> PlainPc'[u]]
      /\ PlainAv = [u \in Threads |-> PlainAv[u]]
      /\ PlainAv' = [u \in Threads |-> PlainAv'[u]]
  BY SMT DEF PlainPc, PlainAv
<1> HIDE DEF PlainPc, PlainAv
<1> QED BY <1>1, <1>2

LEMMA WaitingIsEntering ==
  ASSUME NEW t \in Threads, OnlyMine(t), av' = av,
         pc[t] \in {"enter", "wait_list", "leave_list"},
         pc'[t] \in {"enter", "wait_list", "leave_list"}
  PROVE  PlainPc' = PlainPc /\ PlainAv' = PlainAv
  BY SMT DEF OnlyMine, PlainPc, PlainAv, ForkLabels, PrepareLabels, ParentLabels

LEMMA HooksPlain ==
  ASSUME ForkTypeInv, ParentInv, PlainInv, initialized = 1
  PROVE  PlainHook \in [P!Hooks -> {"ini", "none"}] /\ saved \in [P!Hooks -> {"ini", "none"}]
<1>1. \A h \in Hooks : PlainHook[h] # "starter" /\ saved[h] # "starter"
  BY DEF PlainInv, P!Inductive, P!ArenaInv, P!BootInv, P!Hooks, Hooks
<1>2. P!Hooks = Hooks /\ PlainHook = [h \in Hooks |-> PlainHook[h]]
      /\ saved = [h \in Hooks |-> saved[h]]
  BY SMT DEF P!Hooks, Hooks, PlainHook, ForkTypeInv, ForkTypeOK
<1>3. \A h \in Hooks : saved[h] \in {"ini", "none"}
  BY <1>1, SMT DEF ParentInv, ForkTypeInv, ForkTypeOK, HookValues
<1>4. \A h \in Hooks : PlainHook[h] \in {"ini", "none"}
  <2>1. \A h \in Hooks : PlainHook[h] = IF hook[h] = "atfork" THEN saved[h] ELSE hook[h]
    BY SMT DEF PlainHook
  <2> QED BY <1>1, <1>3, <2>1, SMT DEF ForkTypeInv, ForkTypeOK, HookValues
<1> HIDE DEF PlainHook
<1> QED BY <1>2, <1>3, <1>4

\* What a thread of the parent holds, seen with the fork left out.
LEMMA PlainWorkers ==
  ASSUME ForkTypeInv, ListHeld, PlainInv, NEW u \in Threads
  PROVE  /\ PlainPc[u] \in {"drop_list", "link_next", "link_main", "list_unlock"}
              => mutex["list"] = u
         /\ PlainPc[u] \in {"got"} \cup P!LinkLabels \cup P!EngineLabels
              /\ PlainAv[u] \in Dynamic => mutex[PlainAv[u]] = u
<1>1. PlainPc[u] \in {"drop_list", "link_next", "link_main", "list_unlock"}
        => mutex["list"] = u
  BY DEF PlainInv, P!ListInv
<1>2. P!WorkersLock
  BY DEF PlainInv, P!Inductive, P!ArenaInv
<1> QED BY <1>1, <1>2 DEF P!WorkersLock

\* What the steps of a fork start from.
Parental == ForkIInv /\ process = "parent" /\ initialized = 1

LEMMA ParentalFacts ==
  ASSUME Parental
  PROVE  /\ ForkTypeInv /\ OneForks /\ ListHeld /\ RoundInv /\ ParentInv /\ PlainInv
         /\ mutex \in [Locks -> Threads \cup {Null}]
         /\ op \in [Threads -> AllOps \cup {"none", "starter_malloc", "starter_free"}]
         /\ P!Locks = Locks /\ P!Hooks = Hooks /\ P!AllOps = AllOps /\ P!AllocOps = AllocOps
         /\ PlainHook \in [Hooks -> {"ini", "none"}] /\ saved \in [Hooks -> {"ini", "none"}]
         /\ \A u \in Threads :
              /\ PlainPc[u] \in {"drop_list", "link_next", "link_main", "list_unlock"}
                   => mutex["list"] = u
              /\ PlainPc[u] \in {"got"} \cup P!LinkLabels \cup P!EngineLabels
                   /\ PlainAv[u] \in Dynamic => mutex[PlainAv[u]] = u
<1>1. ForkTypeInv /\ OneForks /\ ListHeld /\ RoundInv /\ ParentInv /\ PlainInv
  BY DEF Parental, ForkIInv
<1>2. P!Locks = Locks /\ P!Hooks = Hooks /\ P!AllOps = AllOps /\ P!AllocOps = AllocOps
  BY DEF P!Locks, P!Arenas, P!Hooks, P!AllOps, P!AllocOps, Locks, Arenas, Hooks, AllOps,
     AllocOps
<1>3. PlainHook \in [Hooks -> {"ini", "none"}] /\ saved \in [Hooks -> {"ini", "none"}]
  BY <1>1, <1>2, HooksPlain DEF Parental
<1>4. mutex \in [Locks -> Threads \cup {Null}]
      /\ op \in [Threads -> AllOps \cup {"none", "starter_malloc", "starter_free"}]
  BY <1>1 DEF ForkTypeInv, ForkTypeOK
<1> QED BY <1>1, <1>2, <1>3, <1>4, PlainWorkers

\* A step that only takes or releases locks, or moves hooks about.
LEMMA ForkInterferes ==
  ASSUME Parental, UNCHANGED <<initialized, next, heaps, used, held, calls, start, old, blk>>,
         PlainPc' = PlainPc, PlainAv' = PlainAv, PlainTsd' = PlainTsd,
         PlainHook' \in [Hooks -> {"ini", "none"}], saved' \in [Hooks -> {"ini", "none"}],
         op' = op,
         mutex' = mutex
           \/ \E l \in Locks \ {Main}, t \in Threads :
                \/ /\ mutex[l] = Null /\ mutex' = [mutex EXCEPT ![l] = t]
                   /\ l \in Dynamic => P!Public(l)
                \/ /\ mutex[l] = t /\ mutex' = [mutex EXCEPT ![l] = Null]
                   /\ PlainPc[t] \in {"idle", "enter"}
  PROVE  PlainInv'
<1> USE ParentalFacts
<1>1. mutex' \in [Locks -> Threads \cup {Null}] /\ mutex'[Main] = mutex[Main]
  BY SMT DEF Locks, Arenas
<1>2. \A u \in Threads :
        /\ PlainPc[u] \in {"drop_list", "link_next", "link_main", "list_unlock"}
             => mutex'["list"] = mutex["list"]
        /\ PlainPc[u] \in {"got"} \cup P!LinkLabels \cup P!EngineLabels
           /\ PlainAv[u] \in Dynamic
             => mutex'[PlainAv[u]] = mutex[PlainAv[u]]
  <2>1. CASE mutex' = mutex
    BY <2>1
  <2>2. CASE \E l \in Locks \ {Main}, t \in Threads :
               mutex[l] = Null /\ mutex' = [mutex EXCEPT ![l] = t]
    BY <2>2, ArenaAssumption, SMT DEF Locks, Arenas
  <2>3. CASE \E l \in Locks \ {Main}, t \in Threads :
               /\ mutex[l] = t /\ mutex' = [mutex EXCEPT ![l] = Null]
               /\ PlainPc[t] \in {"idle", "enter"}
    BY <2>3, SMT DEF Locks, Arenas, P!LinkLabels, P!EngineLabels
  <2> QED BY <2>1, <2>2, <2>3
<1>3. \A a \in Dynamic : mutex'[a] # Null /\ mutex'[a] # mutex[a] => P!Public(a)
  BY SMT DEF Locks, Arenas
<1>4. P!Interference
  BY <1>1, <1>2, <1>3 DEF P!Interference, P!lookup, Parental
<1> QED BY <1>4, InterferenceKeeps

\* A step that changes nothing but the fork.
LEMMA ForkInvisible ==
  ASSUME P!Orderly, PlainInv, UNCHANGED <<initialized, saved, mutex, next, heaps, used, held,
           op, calls, start, old, blk, PlainPc, PlainAv, PlainTsd, PlainHook>>
  PROVE  PlainInv'
<1>1. UNCHANGED P!vars
  BY DEF P!vars, P!shared, P!lookup
<1> QED BY <1>1, PlainInvKept

LEMMA PlainTsdKept ==
  ASSUME tsd' = tsd, save_arena' = save_arena
  PROVE  PlainTsd' = PlainTsd
  BY DEF PlainTsd

LEMMA PlainHookKept ==
  ASSUME hook' = hook, saved' = saved
  PROVE  PlainHook' = PlainHook
  BY DEF PlainHook

LEMMA PrepareKeeps ==
  ASSUME P!Orderly, Parental, NEW t \in Threads, Prepare(t) \/ Forks(t)
  PROVE  PlainInv'
<1> USE ParentalFacts
<1>1. OnlyMine(t) /\ ForkTypeInv' /\ initialized = 1
  BY StepMoves, StepType DEF Parental, StepOf
<1>2. CASE Forks(t)
  <2>1. pc[t] = "idle" /\ pc'[t] = "fork_list"
    BY <1>2, SMT DEF Forks, At, Goto, ForkTypeInv, ForkTypeOK
  <2>2. PlainPc' = PlainPc /\ PlainAv' = PlainAv
    BY <1>1, <2>1, ForkingIsIdle DEF ForkLabels, PrepareLabels
  <2> QED BY <1>2, <2>2, ForkInvisible, PlainTsdKept, PlainHookKept DEF Forks, shared, lookup
<1>3. CASE Prepare(t)
  <2>1. pc[t] \in PrepareLabels /\ pc'[t] \in ForkLabels
    BY <1>3, SMT DEF Prepare, LockAllList, LockAllArena, LockAllNext, GoRound,
       LockAllHooks, LockAllTsd, At, Goto, ForkLabels, PrepareLabels, ForkTypeInv, ForkTypeOK
  <2>2. PlainPc' = PlainPc /\ PlainAv' = PlainAv
    BY <1>1, <2>1, ForkingIsIdle DEF ForkLabels
  <2>3. CASE LockAllList(t)
    <3>1. /\ mutex["list"] = Null /\ mutex' = [mutex EXCEPT !["list"] = t]
          /\ UNCHANGED <<inits, next, heaps, tsd, used, held, op, calls, start, old, blk,
                         forkvars>>
      BY <2>3 DEF LockAllList, Take
    <3>2. "list" \in Locks \ {Main} /\ "list" \notin Dynamic
      BY ArenaAssumption DEF Locks, Arenas
    <3> QED BY <1>1, <2>2, <3>1, <3>2, ForkInterferes, PlainTsdKept, PlainHookKept
               DEF inits, forkvars
  <2>4. CASE LockAllArena(t)
    <3>1. /\ IF av[t] = Main THEN mutex' = mutex ELSE Take(t, av[t])
          /\ UNCHANGED <<inits, next, heaps, tsd, used, held, op, calls, lookup, blk, forkvars>>
      BY <2>4 DEF LockAllArena
    <3>2. pc[t] = "fork_lock" /\ RoundAt(t)
      BY <2>4 DEF LockAllArena, At, RoundInv
    <3>3. PICK D \in SUBSET OnRing : Upto(D, av[t])
      BY <3>2 DEF RoundAt
    <3>4. av[t] \in OnRing
      BY <3>3, MainOnRing DEF Upto
    <3>5. P!SharedRefsKnown
      BY DEF PlainInv, P!Inductive, P!ArenaInv, P!PublishInv
    <3>6. av[t] # Main => av[t] \in Locks \ {Main} /\ P!Public(av[t])
      BY <3>4, <3>5, RingIsPublic, MainOnRing DEF Locks
    <3>7. mutex' = mutex \/ \E l \in Locks \ {Main} :
            mutex[l] = Null /\ mutex' = [mutex EXCEPT ![l] = t] /\ P!Public(l)
      BY <3>1, <3>6 DEF Take
    <3> QED BY <1>1, <2>2, <3>1, <3>7, ForkInterferes, PlainTsdKept, PlainHookKept
               DEF inits, lookup, forkvars
  <2>5. CASE LockAllNext(t)
    BY <2>2, <2>5, ForkInvisible, PlainTsdKept, PlainHookKept
       DEF LockAllNext, GoRound, shared, forkvars
  <2>6. CASE LockAllHooks(t)
    <3>1. /\ saved' = [saved EXCEPT !["malloc"] = hook["malloc"], !["free"] = hook["free"]]
          /\ hook' = [hook EXCEPT !["malloc"] = "atfork", !["free"] = "atfork"]
          /\ UNCHANGED <<initialized, mutex, next, heaps, tsd, used, held, op, calls, lookup,
                         blk, forkvars>>
      BY <2>6 DEF LockAllHooks
    <3>2. \A h \in Hooks : hook[h] # "atfork"
      BY <2>6, SMT DEF LockAllHooks, At, OneForks, ParentInv, ForkLabels, PrepareLabels,
                       ParentLabels
    <3>3. hook \in [Hooks -> HookValues] /\ PlainHook = hook
      BY <3>2, SMT DEF PlainHook, ForkTypeInv, ForkTypeOK
    <3>4. saved' \in [Hooks -> {"ini", "none"}]
      BY <3>1, <3>3, SMT DEF Hooks
    <3>5. PlainHook' = hook
      BY <3>1, <3>2, <3>3, SMT DEF PlainHook, Hooks
    <3> QED BY <1>1, <2>2, <3>1, <3>3, <3>4, <3>5, ForkInterferes, PlainTsdKept
               DEF lookup, forkvars
  <2>7. CASE LockAllTsd(t)
    <3>1. /\ save_arena' = tsd[SlotOf[t]] /\ tsd' = [tsd EXCEPT ![SlotOf[t]] = Atfork]
          /\ UNCHANGED <<inits, mutex, next, heaps, used, held, op, calls, lookup, blk>>
      BY <2>7 DEF LockAllTsd, Remember
    <3>2. \A s \in Slots : tsd[s] # Atfork
      BY <2>7, SMT DEF LockAllTsd, At, OneForks, ParentInv, ForkLabels, PrepareLabels,
                       ParentLabels
    <3>3. tsd \in [Slots -> Arenas \cup {Null, Atfork}] /\ SlotOf[t] \in Slots
      BY ArenaAssumption DEF ForkTypeInv, ForkTypeOK
    <3>4. PlainTsd' = PlainTsd
      BY <3>1, <3>2, <3>3, SMT DEF PlainTsd
    <3> QED BY <2>2, <3>1, <3>4, ForkInvisible, PlainHookKept DEF inits, lookup
  <2> QED BY <1>3, <2>3, <2>4, <2>5, <2>6, <2>7 DEF Prepare
<1> QED BY <1>2, <1>3

LEMMA UndoKeeps ==
  ASSUME P!Orderly, Parental, NEW t \in Threads, Parent(t)
  PROVE  PlainInv'
<1> USE ParentalFacts
<1>1. OnlyMine(t) /\ ForkTypeInv' /\ initialized = 1
  BY StepMoves, StepType DEF Parental, StepOf
<1>2. pc[t] \in ForkLabels /\ pc'[t] \in ForkLabels \cup {"idle"} /\ pc[t] # "fork_list"
  BY SMT DEF Parent, ForkParent, UnlockAllTsd, UnlockAllHooks, UnlockAllArena,
     UnlockAllNext, UnlockAllList, GoRound, Return, At, Goto, ForkLabels, PrepareLabels,
     ParentLabels, ForkTypeInv, ForkTypeOK
<1>3. PlainPc' = PlainPc /\ PlainAv' = PlainAv
  BY <1>1, <1>2, ForkingIsIdle
<1>4. PlainPc[t] = "idle" /\ mutex["list"] = t
  <2>1. PlainPc[t] = CASE pc[t] \in ForkLabels -> "idle"
                       [] pc[t] \in {"wait_list", "leave_list"} -> "enter"
                       [] pc[t] = "chunk_arena" -> "owner"
                       [] OTHER -> pc[t]
    BY DEF PlainPc
  <2> QED BY <1>2, <2>1, SMT DEF ListHeld, ForkLabels, PrepareLabels, ParentLabels
<1>5. CASE ForkParent(t)
  BY <1>3, <1>5, ForkInvisible, PlainTsdKept, PlainHookKept
     DEF ForkParent, shared, lookup, forkvars
<1>6. CASE UnlockAllTsd(t)
  <2>1. /\ tsd' = [tsd EXCEPT ![SlotOf[t]] = save_arena]
        /\ UNCHANGED <<inits, mutex, next, heaps, used, held, op, calls, lookup, blk, forkvars>>
    BY <1>6 DEF UnlockAllTsd, Remember
  <2>2. tsd[SlotOf[t]] = Atfork /\ save_arena # Atfork
    BY <1>6, SMT DEF UnlockAllTsd, At, ParentInv
  <2>3. tsd \in [Slots -> Arenas \cup {Null, Atfork}] /\ SlotOf[t] \in Slots
    BY ArenaAssumption DEF ForkTypeInv, ForkTypeOK
  <2>4. PlainTsd' = PlainTsd
    BY <2>1, <2>2, <2>3, SMT DEF PlainTsd, forkvars
  <2> QED BY <1>3, <2>1, <2>4, ForkInvisible, PlainHookKept DEF inits, lookup, forkvars
<1>7. CASE UnlockAllHooks(t)
  <2>1. /\ hook' = [hook EXCEPT !["malloc"] = saved["malloc"], !["free"] = saved["free"]]
        /\ UNCHANGED <<initialized, saved, mutex, next, heaps, tsd, used, held, op, calls,
                       lookup, blk, forkvars>>
    BY <1>7 DEF UnlockAllHooks
  <2>2. \A h \in Hooks : PlainHook'[h] \in {"ini", "none"}
    <3>1. \A h \in Hooks : /\ hook'[h] \in {hook[h], saved[h]}
                           /\ PlainHook'[h] = IF hook'[h] = "atfork" THEN saved[h] ELSE hook'[h]
                           /\ PlainHook[h] = IF hook[h] = "atfork" THEN saved[h] ELSE hook[h]
      BY <2>1, SMT DEF PlainHook, Hooks, ForkTypeInv, ForkTypeOK
    <3>2. \A h \in Hooks : PlainHook[h] \in {"ini", "none"} /\ saved[h] \in {"ini", "none"}
      OBVIOUS
    <3> HIDE DEF PlainHook
    <3> QED BY <3>1, <3>2
  <2>3. PlainHook' = [h \in Hooks |-> PlainHook'[h]]
    BY DEF PlainHook
  <2>4. PlainHook' \in [Hooks -> {"ini", "none"}]
    <3> HIDE DEF PlainHook
    <3> QED BY <2>2, <2>3
  <2> QED BY <1>1, <1>3, <2>1, <2>4, ForkInterferes, PlainTsdKept DEF lookup, forkvars
<1>8. CASE UnlockAllArena(t)
  <2>1. /\ mutex' = IF av[t] = Main THEN mutex ELSE [mutex EXCEPT ![av[t]] = Null]
        /\ UNCHANGED <<inits, next, heaps, tsd, used, held, op, calls, lookup, blk, forkvars>>
    BY <1>8 DEF UnlockAllArena
  <2>2. pc[t] = "unlock_arena" /\ RoundAt(t) /\ process = "parent"
    BY <1>8 DEF UnlockAllArena, At, RoundInv, Parental
  <2>3. PICK D \in SUBSET OnRing : Upto(D, av[t]) /\ LockedBy(t, (OnRing \ D) \cup {av[t]})
    BY <2>2 DEF RoundAt
  <2>4. av[t] # Main => av[t] \in Locks \ {Main} /\ mutex[av[t]] = t
    BY <2>3, MainOnRing DEF Upto, LockedBy, Locks
  <2> QED BY <1>1, <1>3, <1>4, <2>1, <2>4, ForkInterferes, PlainTsdKept, PlainHookKept
             DEF inits, lookup, forkvars
<1>9. CASE UnlockAllNext(t)
  BY <1>3, <1>9, ForkInvisible, PlainTsdKept, PlainHookKept
     DEF UnlockAllNext, GoRound, shared, forkvars
<1>10. CASE UnlockAllList(t)
  <2>1. /\ mutex' = [mutex EXCEPT !["list"] = Null] /\ UNCHANGED calls
        /\ held' = (IF Null \in Arenas THEN [held EXCEPT ![Null] = @ + 1] ELSE held)
        /\ blk' = [blk EXCEPT ![t] = Null] /\ op' = [op EXCEPT ![t] = "none"]
        /\ start' = [start EXCEPT ![t] = Null] /\ old' = [old EXCEPT ![t] = 0]
        /\ UNCHANGED <<inits, next, heaps, tsd, used, forkvars>>
    BY <1>10 DEF UnlockAllList, Return
  <2>2. blk[t] = Null /\ op[t] = "none"
    BY <1>4 DEF PlainInv, P!Inductive, P!ArenaInv, P!CallInv
  <2>3. start[t] = Null /\ old[t] = 0
    BY <1>2 DEF ForkTypeInv, ForkPointers
  <2>4. UNCHANGED <<held, blk, op, start, old>>
    BY <2>1, <2>2, <2>3, ArenaAssumption, SMT DEF ForkTypeInv, ForkTypeOK
  <2>5. "list" \in Locks \ {Main}
    BY ArenaAssumption DEF Locks, Arenas
  <2> QED BY <1>1, <1>3, <1>4, <2>1, <2>4, <2>5, ForkInterferes, PlainTsdKept, PlainHookKept
             DEF inits, forkvars
<1> QED BY <1>5, <1>6, <1>7, <1>8, <1>9, <1>10 DEF Parent

LEMMA AtforkKeeps ==
  ASSUME P!Orderly, Parental, NEW t \in Threads, AtforkWork(t)
  PROVE  PlainInv'
<1> USE ParentalFacts
<1>1. OnlyMine(t) /\ initialized = 1 /\ process = "parent"
  BY StepMoves DEF Parental, StepOf
<1>2. P!DistinctSlots /\ P!Alive <=> Alive
  BY PlainAlive DEF P!Orderly
<1>3. P!CallInv /\ P!MainInv
  BY DEF PlainInv, P!Inductive, P!ArenaInv
<1>4. pc[t] \notin {"fork", "unlock_tsd"} /\ ~ Marked(t)
  <2>1. pc[t] \notin {"fork", "unlock_tsd"}
    BY SMT DEF AtforkWork, MallocAtfork, WaitList, LeaveList, FreeAtfork, LockChunkArena,
               GetMark, At
  <2> QED BY <1>2, <2>1, NotMarked DEF Marked, P!Orderly
<1>5. CASE MallocAtfork(t)
  <2>1. /\ pc[t] = "enter" /\ op[t] \in {"malloc", "calloc"}
        /\ op' = [op EXCEPT ![t] = "malloc"] /\ pc' = [pc EXCEPT ![t] = "wait_list"]
        /\ UNCHANGED <<shared, held, calls, lookup, blk, forkvars>>
    BY <1>4, <1>5 DEF MallocAtfork, At, Goto
  <2>2. PlainPc' = PlainPc /\ PlainAv' = PlainAv
    BY <1>1, <2>1, WaitingIsEntering, SMT DEF ForkTypeInv, ForkTypeOK, lookup
  <2>3. PlainPc[t] = "enter"
    BY <2>1, SMT DEF PlainPc, ForkLabels, PrepareLabels, ParentLabels
  <2>4. op' \in [Threads -> AllOps \cup {"none", "starter_malloc", "starter_free"}]
    BY <2>1, SMT DEF AllOps, AllocOps
  <2>5. \A u \in Threads : op'[u] = op[u] \/ (PlainPc[u] = "enter" /\ op[u] \in AllocOps
                                              /\ op'[u] = "malloc")
    BY <2>1, <2>3, SMT DEF AllocOps
  <2>6. UNCHANGED <<initialized, next, heaps, PlainTsd, used, held, PlainPc, calls, P!lookup,
                    blk, mutex, saved, PlainHook>>
    BY <2>1, <2>2, PlainTsdKept, PlainHookKept DEF shared, lookup, forkvars, P!lookup
  <2>7. P!Interference
    BY <1>1, <2>4, <2>5, <2>6 DEF P!Interference
  <2> QED BY <2>7, InterferenceKeeps
<1>6. CASE WaitList(t)
  <2>1. /\ pc[t] = "wait_list" /\ pc' = [pc EXCEPT ![t] = "leave_list"]
        /\ mutex["list"] = Null /\ mutex' = [mutex EXCEPT !["list"] = t]
        /\ UNCHANGED <<inits, next, heaps, tsd, used, held, op, calls, lookup, blk, forkvars>>
    BY <1>6 DEF WaitList, At, Goto, Take
  <2>2. PlainPc' = PlainPc /\ PlainAv' = PlainAv
    BY <1>1, <2>1, WaitingIsEntering, SMT DEF ForkTypeInv, ForkTypeOK, lookup
  <2>3. "list" \in Locks \ {Main} /\ "list" \notin Dynamic
    BY ArenaAssumption DEF Locks, Arenas
  <2> QED BY <1>1, <2>1, <2>2, <2>3, ForkInterferes, PlainTsdKept, PlainHookKept
             DEF inits, lookup, forkvars
<1>7. CASE LeaveList(t)
  <2>1. /\ pc[t] = "leave_list" /\ pc' = [pc EXCEPT ![t] = "enter"]
        /\ mutex' = [mutex EXCEPT !["list"] = Null]
        /\ UNCHANGED <<inits, next, heaps, tsd, used, held, op, calls, lookup, blk, forkvars>>
    BY <1>7 DEF LeaveList, At, Goto
  <2>2. PlainPc' = PlainPc /\ PlainAv' = PlainAv
    BY <1>1, <2>1, WaitingIsEntering, SMT DEF ForkTypeInv, ForkTypeOK, lookup
  <2>3. "list" \in Locks \ {Main} /\ mutex["list"] = t
    BY <2>1, ArenaAssumption DEF Locks, Arenas, ListHeld
  <2>4. PlainPc[t] = "enter"
    BY <2>1, SMT DEF PlainPc, ForkLabels, PrepareLabels, ParentLabels
  <2> QED BY <1>1, <2>1, <2>2, <2>3, <2>4, ForkInterferes, PlainTsdKept, PlainHookKept
             DEF inits, lookup, forkvars
<1>8. CASE FreeAtfork(t)
  <2>1. At(t, "enter") /\ "enter" \in Labels /\ op[t] = "free" /\ hook["free"] = "atfork"
    BY <1>8 DEF FreeAtfork, Labels
  <2>2. P!At(t, "enter") /\ pc[t] = "enter" /\ PlainPc[t] = "enter" /\ PlainAv[t] = av[t]
    BY <2>1, PlainAt
  <2>3. CASE blk[t] = Foreign /\ Return(t, Null) /\ UNCHANGED <<shared, forkvars>>
    <3>1. P!Return(t, Null)
      BY <2>1, <2>2, <2>3, PlainReturn
    <3>2. UNCHANGED P!shared
      BY <2>3, PlainTsdKept, PlainHookKept DEF shared, forkvars, P!shared
    <3> USE ArenaAssumption DEF Arenas, AllOps, AllocOps, P!AllocOps, P!Arenas, P!AllOps
    <3> QED BY <2>1, <2>2, <2>3, <3>1, <3>2, P!TurnedAwayHarmless DEF PlainInv
  <2>4. CASE Goto(t, "chunk_arena") /\ UNCHANGED <<shared, held, op, calls, lookup, blk,
        forkvars>>
    <3>1. PlainPc' = [PlainPc EXCEPT ![t] = "owner"] /\ PlainAv' = PlainAv
      <4>1. ASSUME NEW u \in Threads
            PROVE  /\ PlainPc'[u] = IF u = t THEN "owner" ELSE PlainPc[u]
                   /\ PlainAv'[u] = PlainAv[u]
        BY <2>2, <2>4, SMT DEF Goto, PlainPc, PlainAv, lookup, ForkTypeInv, ForkTypeOK,
           ForkLabels, PrepareLabels, ParentLabels
      <4>2. /\ PlainPc = [u \in Threads |-> PlainPc[u]]
            /\ PlainPc' = [u \in Threads |-> PlainPc'[u]]
            /\ PlainAv = [u \in Threads |-> PlainAv[u]]
            /\ PlainAv' = [u \in Threads |-> PlainAv'[u]]
        BY SMT DEF PlainPc, PlainAv
      <4> HIDE DEF PlainPc, PlainAv
      <4> QED BY <4>1, <4>2
    <3>2. PlainHook["free"] = "none"
      <4>1. PlainHook["free"] = saved["free"] /\ saved["free"] \in {"ini", "none"}
        BY <2>1, SMT DEF PlainHook, Hooks
      <4> QED BY <4>1 DEF OneForks
    <3>3. blk[t] # Null
      BY <2>1, <2>2, <1>3, SMT DEF P!CallInv
    <3>4. P!HookOf(op[t]) = "free"
      BY <2>1, SMT DEF P!HookOf, P!Hooks
    <3>5. P!EnterPlain(t)
      BY <2>1, <2>2, <2>4, <3>1, <3>2, <3>3, <3>4, PlainTsdKept, PlainHookKept, SMT
         DEF P!EnterPlain, P!Goto, P!shared, P!lookup, shared, lookup, forkvars
    <3>6. [P!Next]_(P!vars)
      BY <3>5 DEF P!Next, P!Work, P!Enter
    <3> QED BY <3>6, PlainInvKept
  <2> QED BY <1>4, <1>8, <2>3, <2>4 DEF FreeAtfork
<1>9. CASE LockChunkArena(t)
  <2>1. pc[t] = "chunk_arena" /\ Alive /\ heaps # {} /\ op[t] = "free"
    BY <1>9 DEF LockChunkArena, At, ParentInv
  <2>2. PlainPc[t] = "owner" /\ P!At(t, "owner") /\ PlainAv[t] = av[t]
    BY <2>1, PlainAlive, SMT DEF PlainPc, PlainAv, P!At, ForkLabels, PrepareLabels, ParentLabels
  <2>3. /\ mutex[ArenaForChunk(blk[t])] = Null
        /\ mutex' = [mutex EXCEPT ![ArenaForChunk(blk[t])] = t]
        /\ av' = [av EXCEPT ![t] = ArenaForChunk(blk[t])]
        /\ pc' = [pc EXCEPT ![t] = "got"]
        /\ UNCHANGED <<inits, next, heaps, tsd, used, held, op, calls, start, old, blk,
                       forkvars>>
    BY <1>9 DEF LockChunkArena, Take, Goto
  <2>4. blk[t] \notin {Null, Main} /\ mutex[Main] # Null
    BY <1>3, <2>1, <2>2 DEF P!CallInv, P!MainInv
  <2>5. blk[t] \in Dynamic /\ ArenaForChunk(blk[t]) = blk[t]
    BY <2>3, <2>4 DEF ArenaForChunk, ForkTypeInv, ForkTypeOK, Arenas
  <2>6. PlainPc' = [PlainPc EXCEPT ![t] = "got"] /\ PlainAv' = [PlainAv EXCEPT ![t] = blk[t]]
    <3>1. ASSUME NEW u \in Threads
          PROVE  /\ PlainPc'[u] = IF u = t THEN "got" ELSE PlainPc[u]
                 /\ PlainAv'[u] = IF u = t THEN blk[t] ELSE PlainAv[u]
      BY <2>1, <2>2, <2>3, <2>5, SMT DEF PlainPc, PlainAv, ForkTypeInv, ForkTypeOK,
         ForkLabels, PrepareLabels, ParentLabels
    <3>2. /\ PlainPc = [u \in Threads |-> PlainPc[u]]
          /\ PlainPc' = [u \in Threads |-> PlainPc'[u]]
          /\ PlainAv = [u \in Threads |-> PlainAv[u]]
          /\ PlainAv' = [u \in Threads |-> PlainAv'[u]]
      BY SMT DEF PlainPc, PlainAv
    <3> HIDE DEF PlainPc, PlainAv
    <3> QED BY <3>1, <3>2
  <2>7. P!LockOwner(t)
    BY <2>1, <2>2, <2>3, <2>5, <2>6, PlainTsdKept, PlainHookKept
       DEF P!LockOwner, P!Take, P!Goto, P!inits, inits, forkvars
  <2>8. [P!Next]_(P!vars)
    BY <2>7 DEF P!Next, P!Work, P!Own
  <2> QED BY <2>8, PlainInvKept
<1>10. CASE GetMark(t)
  BY <1>4, <1>10 DEF GetMark
<1> QED BY <1>5, <1>6, <1>7, <1>8, <1>9, <1>10 DEF AtforkWork

----------------------------------------------------------------------------
(* No step of Arena puts an atfork hook or a mark in place.                *)

MarksKept(t) ==
  /\ \A h \in Hooks :
       /\ hook'[h] \in {hook[h], "none", "starter"} \/ hook'[h] = saved[h]
       /\ saved'[h] = saved[h] \/ (pc[t] = "claim" /\ saved'[h] = hook[h])
  /\ \A s \in Slots : \/ tsd'[s] = tsd[s]
                      \/ (s = SlotOf[t] \/ pc[t] = "init_tsd") /\ tsd'[s] # Atfork

LEMMA MarksCall ==
  ASSUME NEW t \in Threads, ForkTypeInv, Call(t), UNCHANGED forkvars
  PROVE  MarksKept(t)
<1> USE ArenaAssumption, ForkAssumption
        DEF ForkTypeInv, ForkTypeOK, MarksKept, Goto, At, Take, Crash, Return, Remember, Hooks,
        Arenas, shared, inits, lookup, forkvars
<1>1. CASE Call(t)
  BY <1>1, SMT DEF Call, CanStart
<1> QED BY <1>1

LEMMA MarksEnter ==
  ASSUME NEW t \in Threads, ForkTypeInv, Enter(t), UNCHANGED forkvars
  PROVE  MarksKept(t)
<1> USE ArenaAssumption, ForkAssumption
        DEF ForkTypeInv, ForkTypeOK, MarksKept, Goto, At, Take, Crash, Return, Remember, Hooks,
        Arenas, shared, inits, lookup, forkvars
<1>1. CASE EnterPlain(t)
  BY <1>1, SMT DEF EnterPlain
<1>s. CASE EnterSmall(t)
  BY <1>s, SMT DEF EnterSmall
<1>2. CASE EnterRealloc(t)
  BY <1>2, SMT DEF EnterRealloc
<1>3. CASE EnterIni(t)
  BY <1>3, SMT DEF EnterIni
<1>4. CASE DropHook(t)
  BY <1>4, SMT DEF DropHook
<1>5. CASE EnterStarter(t)
  BY <1>5, SMT DEF EnterStarter
<1> QED BY <1>1, <1>2, <1>s, <1>3, <1>4, <1>5 DEF Enter

LEMMA MarksInitialise ==
  ASSUME NEW t \in Threads, ForkTypeInv, Initialise(t), UNCHANGED forkvars
  PROVE  MarksKept(t)
<1> USE ArenaAssumption, ForkAssumption
        DEF ForkTypeInv, ForkTypeOK, MarksKept, Goto, At, Take, Crash, Return, Remember, Hooks,
        Arenas, shared, inits, lookup, forkvars
<1>1. CASE InitCheck(t)
  BY <1>1, SMT DEF InitCheck
<1>2. CASE InitClaim(t)
  BY <1>2, SMT DEF InitClaim
<1>3. CASE InitMain(t)
  BY <1>3, SMT DEF InitMain
<1>4. CASE InitRing(t)
  BY <1>4, SMT DEF InitRing
<1>5. CASE InitList(t)
  BY <1>5, SMT DEF InitList
<1>6. CASE InitTsd(t)
  BY <1>6, SMT DEF InitTsd
<1>7. CASE InitDone(t)
  BY <1>7, SMT DEF InitDone
<1> QED BY <1>1, <1>2, <1>3, <1>4, <1>5, <1>6, <1>7 DEF Initialise

LEMMA MarksSearch ==
  ASSUME NEW t \in Threads, ForkTypeInv, Search(t), UNCHANGED forkvars,
  ~(pc[t] = "get" /\ Marked(t))
  PROVE  MarksKept(t)
<1> USE ArenaAssumption, ForkAssumption
        DEF ForkTypeInv, ForkTypeOK, MarksKept, Goto, At, Take, Crash, Return, Remember, Hooks,
        Arenas, shared, inits, lookup, forkvars
<1>1. CASE GetTsd(t)
  BY <1>1, SMT DEF GetTsd
<1>2. CASE TryDirect(t)
  BY <1>2, SMT DEF TryDirect
<1>3. CASE Get2(t)
  BY <1>3, SMT DEF Get2
<1>4. CASE LockMain(t)
  BY <1>4, SMT DEF LockMain
<1>5. CASE ScanTake(t)
  BY <1>5, SMT DEF ScanTake
<1>6. CASE ScanBusy(t)
  BY <1>6, SMT DEF ScanBusy
<1>7. CASE ScanNext(t)
  BY <1>7, SMT DEF ScanNext
<1>8. CASE ScanCrash(t)
  BY <1>8, SMT DEF ScanCrash
<1>9. CASE TryList(t)
  BY <1>9, SMT DEF TryList
<1> QED BY <1>1, <1>2, <1>3, <1>4, <1>5, <1>6, <1>7, <1>8, <1>9 DEF Search

LEMMA MarksCreate ==
  ASSUME NEW t \in Threads, ForkTypeInv, Create(t), UNCHANGED forkvars
  PROVE  MarksKept(t)
<1> USE ArenaAssumption, ForkAssumption
        DEF ForkTypeInv, ForkTypeOK, MarksKept, Goto, At, Take, Crash, Return, Remember, Hooks,
        Arenas, shared, inits, lookup, forkvars
<1>1. CASE DropList(t)
  BY <1>1, SMT DEF DropList
<1>2. CASE NewArena(t)
  BY <1>2, SMT DEF NewArena
<1>3. CASE NewArenaFails(t)
  BY <1>3, SMT DEF NewArenaFails
<1>4. CASE SetTsd(t)
  BY <1>4, SMT DEF SetTsd
<1>5. CASE MutexInit(t)
  BY <1>5, SMT DEF MutexInit
<1>6. CASE MutexLock(t)
  BY <1>6, SMT DEF MutexLock
<1>7. CASE ListLock(t)
  BY <1>7, SMT DEF ListLock
<1>8. CASE LinkNext(t)
  BY <1>8, SMT DEF LinkNext
<1>9. CASE LinkMain(t)
  BY <1>9, SMT DEF LinkMain
<1>10. CASE ListUnlock(t)
  BY <1>10, SMT DEF ListUnlock
<1> QED BY <1>1, <1>2, <1>3, <1>4, <1>5, <1>6, <1>7, <1>8, <1>9, <1>10 DEF Create

LEMMA MarksUse ==
  ASSUME NEW t \in Threads, ForkTypeInv, Use(t), UNCHANGED forkvars
  PROVE  MarksKept(t)
<1> USE ArenaAssumption, ForkAssumption
        DEF ForkTypeInv, ForkTypeOK, MarksKept, Goto, At, Take, Crash, Return, Remember, Hooks,
        Arenas, shared, inits, lookup, forkvars
<1>1. CASE GotNothing(t)
  BY <1>1, SMT DEF GotNothing
<1>2. CASE RefuseMain(t)
  BY <1>2, SMT DEF RefuseMain
<1>3. CASE EngineEnter(t)
  BY <1>3, SMT DEF EngineEnter
<1>4. CASE EngineLeave(t)
  BY <1>4, SMT DEF EngineLeave, Gain
<1>5. CASE EngineFails(t)
  BY <1>5, SMT DEF EngineFails
<1>6. CASE Unlock(t)
  BY <1>6, SMT DEF Unlock
<1>7. CASE UnlockFailed(t)
  BY <1>7, SMT DEF UnlockFailed
<1> QED BY <1>1, <1>2, <1>3, <1>4, <1>5, <1>6, <1>7 DEF Use

LEMMA MarksOwn ==
  ASSUME NEW t \in Threads, ForkTypeInv, Own(t), UNCHANGED forkvars
  PROVE  MarksKept(t)
<1> USE ArenaAssumption, ForkAssumption
        DEF ForkTypeInv, ForkTypeOK, MarksKept, Goto, At, Take, Crash, Return, Remember, Hooks,
        Arenas, shared, inits, lookup, forkvars
<1>1. CASE NotMine(t)
  BY <1>1, SMT DEF NotMine
<1>2. CASE LockOwner(t)
  BY <1>2, SMT DEF LockOwner
<1>3. CASE TrimLock(t)
  BY <1>3, SMT DEF TrimLock
<1> QED BY <1>1, <1>2, <1>3 DEF Own

LEMMA PlainMarks ==
  ASSUME ForkTypeInv, NEW t \in Threads,
         PlainWork(t) \/ (Call(t) /\ UNCHANGED forkvars)
  PROVE  MarksKept(t)
  BY MarksCall, MarksEnter, MarksInitialise, MarksSearch, MarksCreate, MarksUse, MarksOwn
     DEF PlainWork, Work

----------------------------------------------------------------------------
(* The parent: its hooks and its mark.                                     *)

LEMMA ForkStepsLater ==
  ASSUME ForkIInv, NEW t \in Threads, Forks(t) \/ Prepare(t) \/ Parent(t) \/ AtforkWork(t)
  PROVE  initialized = 1
<1>1. OneForks /\ Settled
  BY ItIsSettled DEF ForkIInv
<1>2. CASE Forks(t) \/ MallocAtfork(t) \/ FreeAtfork(t)
  BY <1>1, <1>2, SMT DEF Forks, MallocAtfork, FreeAtfork, Settled, Hooks
<1>3. CASE Prepare(t) \/ Parent(t) \/ WaitList(t) \/ LeaveList(t) \/ LockChunkArena(t)
  <2>1. pc[t] \notin Labels
    BY <1>3, SMT DEF Prepare, LockAllList, LockAllArena, LockAllNext, GoRound,
       LockAllHooks, LockAllTsd, Parent, ForkParent, UnlockAllTsd, UnlockAllHooks,
       UnlockAllArena, UnlockAllNext, UnlockAllList, WaitList, LeaveList, LockChunkArena, At,
       Labels, InitLabels, SearchLabels, BirthLabels, LinkLabels, EngineLabels
  <2> QED BY <1>1, <2>1 DEF OneForks
<1>4. CASE GetMark(t)
  <2>1. CASE process = "parent"
    <3>1. PICK u \in Threads : pc[u] \in {"fork", "unlock_tsd"}
      BY <1>4, <2>1, ArenaAssumption DEF GetMark, Marked, ForkIInv, ParentInv
    <3> QED BY <1>1, <3>1, ForksLater DEF ForkLabels, ParentLabels
  <2>2. CASE process = "child"
    BY <2>2 DEF ForkIInv, ChildInv
  <2> QED BY <2>1, <2>2 DEF ForkIInv, ForkTypeInv, ForkTypeOK
<1> QED BY <1>2, <1>3, <1>4 DEF AtforkWork

LEMMA StepPlain ==
  ASSUME P!Orderly, ForkIInv, process = "parent", NEW t \in Threads, StepOf(t)
  PROVE  PlainInv'
<1>1. CASE Forks(t) \/ Prepare(t) \/ Parent(t) \/ AtforkWork(t)
  BY <1>1, ForkStepsLater, PrepareKeeps, UndoKeeps, AtforkKeeps DEF Parental
<1>2. CASE PlainWork(t) \/ (Call(t) /\ UNCHANGED forkvars)
  BY <1>2, PlainWorkKeeps DEF PlainWork, ForkIInv
<1> QED BY <1>1, <1>2 DEF StepOf

\* A thread of the program asks only once an arena exists or it is the first.
LEMMA CallsInTurn ==
  ASSUME P!Orderly, ForkTypeInv, PlainInv, NEW t \in Threads, PlainPc[t] # "idle",
         NEW u \in Threads, t # u, u \in Early \/ heaps # {}
  PROVE  heaps # {}
  BY DEF P!Orderly, P!Started, PlainInv, P!Inductive, P!ArenaInv, P!BootInv

LEMMA ParentPlain ==
  ASSUME P!Orderly, ForkIInv, process = "parent", NEW t \in Threads,
         PlainWork(t) \/ (Call(t) /\ UNCHANGED forkvars)
  PROVE  ParentInv'
<1>1. /\ ForkTypeInv /\ OneForks /\ ParentInv /\ Settled /\ MarksKept(t) /\ OnlyMine(t)
      /\ pc'[t] \in Labels /\ UNCHANGED forkvars /\ P!DistinctSlots
  BY PlainMarks, StepMoves, PlainLabels, ItIsSettled DEF ForkIInv, StepOf, PlainWork, P!Orderly
<1>2. pc[t] \notin ForkLabels \cup WaitLabels \cup {"gone"}
  <2>1. (Call(t) \/ Work(t)) => \E l \in Labels : At(t, l)
    BY SMT DEF Call, Work,
     Enter, EnterPlain, EnterRealloc, EnterSmall, EnterIni, DropHook, EnterStarter,
     Initialise, InitCheck, InitClaim, InitMain, InitRing, InitList, InitTsd, InitDone,
     Search, GetTsd, TryDirect, Get2, LockMain, ScanTake, ScanBusy, ScanNext, ScanCrash,
     TryList, Create, DropList, NewArena, NewArenaFails, SetTsd, MutexInit, MutexLock,
     ListLock, LinkNext, LinkMain, ListUnlock, Use, GotNothing, RefuseMain, EngineEnter,
     EngineLeave, EngineFails, Unlock, UnlockFailed, Own, NotMine, LockOwner, TrimLock,
     Labels, InitLabels, SearchLabels, BirthLabels, LinkLabels, EngineLabels
  <2>2. PICK l \in Labels : At(t, l)
    BY <2>1 DEF PlainWork
  <2> QED BY <2>2, SMT DEF At, ForkLabels, PrepareLabels, ParentLabels, WaitLabels, Labels,
             InitLabels, SearchLabels, BirthLabels, LinkLabels, EngineLabels
<1>3. pc'[t] \notin ForkLabels \cup WaitLabels \cup {"gone"}
  BY <1>1, SMT DEF ForkLabels, PrepareLabels, ParentLabels, WaitLabels, Labels,
     InitLabels, SearchLabels, BirthLabels, LinkLabels, EngineLabels
<1>4. \A u \in Threads : pc[u] \in ForkLabels \cup WaitLabels => u # t /\ pc'[u] = pc[u]
  BY <1>1, <1>2 DEF OnlyMine
<1>5. \A u \in Threads : pc'[u] \in ForkLabels \cup WaitLabels => u # t /\ pc'[u] = pc[u]
                           /\ op'[u] = op[u]
  BY <1>1, <1>3 DEF OnlyMine
<1>6. \A u \in Threads : pc'[u] # "gone"
  BY <1>1, <1>3, SMT DEF ParentInv, OnlyMine
<1>7. ASSUME NEW h \in Hooks
      PROVE  saved'[h] # "atfork" /\ (hook'[h] = "atfork" => hook[h] = "atfork")
  <2>1. saved[h] # "atfork"
    BY <1>1 DEF ParentInv
  <2>2. pc[t] = "claim" => hook[h] # "atfork"
    BY <1>1 DEF Settled
  <2> QED BY <1>1, <2>1, <2>2, SMT DEF MarksKept
<1>8. ASSUME NEW s \in Slots, tsd'[s] = Atfork
      PROVE  \E u \in Threads : pc'[u] \in {"fork", "unlock_tsd"} /\ SlotOf[u] = s
  <2>1. tsd[s] = Atfork
    BY <1>1, <1>8 DEF MarksKept
  <2>2. PICK u \in Threads : pc[u] \in {"fork", "unlock_tsd"} /\ SlotOf[u] = s
    BY <1>1, <2>1 DEF ParentInv
  <2> QED BY <1>4, <2>2 DEF ForkLabels, ParentLabels
<1>9. ASSUME NEW u \in Threads, pc'[u] \in {"fork", "unlock_tsd"}
      PROVE  tsd'[SlotOf[u]] = Atfork
  <2>1. u # t /\ pc[u] \in {"fork", "unlock_tsd"}
    BY <1>5, <1>9 DEF ForkLabels, ParentLabels
  <2>2. tsd[SlotOf[u]] = Atfork /\ SlotOf[u] \in Slots /\ SlotOf[u] # SlotOf[t]
    BY <1>1, <2>1, ArenaAssumption DEF ParentInv, P!DistinctSlots
  <2>3. pc[t] # "init_tsd"
    BY <1>1, <2>1, ForksLater DEF Settled, InitLabels, ForkLabels, ParentLabels
  <2> QED BY <1>1, <2>2, <2>3 DEF MarksKept
<1>10. heaps # {} => heaps' # {}
  BY <1>1 DEF OnlyMine
<1>11. \A h \in Hooks : hook'[h] = "atfork" =>
         \E u \in Threads : pc'[u] \in {"fork_tsd", "fork", "unlock_tsd", "unlock_hooks"}
  <2>1. \A u \in Threads : pc[u] \in {"fork_tsd", "fork", "unlock_tsd", "unlock_hooks"}
          => pc'[u] = pc[u]
    BY <1>4 DEF ForkLabels, PrepareLabels, ParentLabels
  <2> QED BY <1>1, <1>7, <2>1 DEF ParentInv
<1>12. \A u \in Threads : /\ pc'[u] \in ForkLabels => u \in Early \/ heaps' # {}
                          /\ pc'[u] = "chunk_arena" => heaps' # {} /\ op'[u] = "free"
  BY <1>1, <1>5, <1>10 DEF ParentInv, WaitLabels
<1>13. hook'["realloc"] # "atfork" /\ hook'["memalign"] # "atfork" /\ save_arena' # Atfork
  BY <1>1, <1>7 DEF ParentInv, Hooks, forkvars
<1> QED BY <1>6, <1>7, <1>8, <1>9, <1>11, <1>12, <1>13 DEF ParentInv

LEMMA ParentForkStep ==
  ASSUME P!Orderly, Parental, NEW t \in Threads, Forks(t) \/ Prepare(t) \/ Parent(t)
  PROVE  ParentInv'
<1> USE DEF At, Goto, ForkTypeInv, ForkTypeOK, OneForks, ParentInv,
            ForkLabels, PrepareLabels, ParentLabels, Hooks, Return
<1>1. ForkTypeInv /\ OneForks /\ ParentInv /\ P!DistinctSlots /\ WaitForArena = TRUE
  BY ParentalFacts DEF P!Orderly, P!Started
<1>2. SlotOf[t] \in Slots /\ Atfork \notin Arenas \cup {Null}
  BY ArenaAssumption, ForkAssumption
<1>3. CASE Forks(t)
  BY <1>1, <1>3, SMT DEF Forks, CanStart, shared, Forking
<1>4. CASE LockAllList(t)
  BY <1>1, <1>4, SMT DEF LockAllList, inits, forkvars
<1>5. CASE LockAllArena(t)
  BY <1>1, <1>5, SMT DEF LockAllArena, inits, forkvars
<1>6. CASE LockAllNext(t)
  BY <1>1, <1>6, SMT DEF LockAllNext, GoRound, shared, forkvars
<1>7. CASE LockAllHooks(t)
  <2>1. \A h \in Hooks : hook[h] # "atfork"
    BY <1>1, <1>7, SMT DEF LockAllHooks
  <2> QED BY <1>1, <1>7, <2>1, SMT DEF LockAllHooks, forkvars
<1>8. CASE LockAllTsd(t)
  <2>1. \A s \in Slots : tsd[s] # Atfork
    BY <1>1, <1>8, SMT DEF LockAllTsd
  <2> QED BY <1>1, <1>2, <1>8, <2>1, SMT DEF LockAllTsd, inits, Remember
<1>9. CASE ForkParent(t)
  BY <1>1, <1>9, SMT DEF ForkParent, shared, forkvars
<1>10. CASE UnlockAllTsd(t)
  BY <1>1, <1>2, <1>10, SMT DEF UnlockAllTsd, inits, forkvars, Remember
<1>11. CASE UnlockAllHooks(t)
  <2>1. \A h \in Hooks : hook'[h] # "atfork"
    BY <1>1, <1>11, SMT DEF UnlockAllHooks
  <2> QED BY <1>1, <1>11, <2>1, SMT DEF UnlockAllHooks, forkvars
<1>12. CASE UnlockAllArena(t)
  BY <1>1, <1>12, SMT DEF UnlockAllArena, inits, forkvars
<1>13. CASE UnlockAllNext(t)
  BY <1>1, <1>13, SMT DEF UnlockAllNext, GoRound, shared, forkvars
<1>14. CASE UnlockAllList(t)
  BY <1>1, <1>14, SMT DEF UnlockAllList, inits, forkvars
<1> QED BY <1>3, <1>4, <1>5, <1>6, <1>7, <1>8, <1>9, <1>10, <1>11, <1>12, <1>13, <1>14
           DEF Prepare, Parent

LEMMA ParentAtfork ==
  ASSUME P!Orderly, Parental, NEW t \in Threads, AtforkWork(t)
  PROVE  ParentInv'
<1> USE DEF At, Goto, ForkTypeInv, ForkTypeOK, OneForks, ParentInv,
            ForkLabels, PrepareLabels, ParentLabels, Hooks, Return
<1>1. ForkTypeInv /\ OneForks /\ ParentInv /\ PlainInv
  BY ParentalFacts
<1>2. ~ Marked(t)
  <2>1. pc[t] \notin {"fork", "unlock_tsd"}
    BY SMT DEF AtforkWork, MallocAtfork, WaitList, LeaveList, FreeAtfork, LockChunkArena,
               GetMark
  <2> QED BY <1>1, <2>1, NotMarked DEF Marked, P!Orderly
<1>3. CASE MallocAtfork(t)
  BY <1>1, <1>2, <1>3, SMT DEF MallocAtfork, shared, forkvars
<1>4. CASE WaitList(t)
  BY <1>1, <1>4, SMT DEF WaitList, inits, forkvars
<1>5. CASE LeaveList(t)
  BY <1>1, <1>5, SMT DEF LeaveList, inits, forkvars
<1>6. CASE FreeAtfork(t)
  <2>1. pc[t] = "enter" /\ op[t] = "free" /\ hook["free"] = "atfork"
    BY <1>6 DEF FreeAtfork
  <2>2. heaps # {}
    <3>1. PICK u \in Threads : pc[u] \in {"fork_tsd", "fork", "unlock_tsd", "unlock_hooks"}
      BY <1>1, <2>1
    <3>2. u \in Early \/ heaps # {}
      BY <1>1, <3>1
    <3>3. PlainPc[t] # "idle" /\ t # u
      BY <2>1, <3>1, SMT DEF PlainPc
    <3> QED BY <1>1, <3>2, <3>3, CallsInTurn
  <2>3. CASE Return(t, Null) /\ UNCHANGED <<shared, forkvars>>
    BY <1>1, <2>1, <2>3, SMT DEF shared, forkvars
  <2>4. CASE Goto(t, "chunk_arena") /\ UNCHANGED <<shared, held, op, calls, lookup, blk,
        forkvars>>
    BY <1>1, <2>1, <2>2, <2>4, SMT DEF shared, forkvars
  <2> QED BY <1>2, <1>6, <2>3, <2>4 DEF FreeAtfork
<1>7. CASE LockChunkArena(t)
  BY <1>1, <1>7, SMT DEF LockChunkArena, inits, forkvars
<1>8. CASE GetMark(t)
  BY <1>2, <1>8 DEF GetMark
<1> QED BY <1>3, <1>4, <1>5, <1>6, <1>7, <1>8 DEF AtforkWork

LEMMA StepParent ==
  ASSUME P!Orderly, ForkIInv, process = "parent", NEW t \in Threads, StepOf(t)
  PROVE  ParentInv'
<1>1. CASE Forks(t) \/ Prepare(t) \/ Parent(t) \/ AtforkWork(t)
  BY <1>1, ForkStepsLater, ParentForkStep, ParentAtfork DEF Parental
<1> QED BY <1>1, ParentPlain DEF StepOf

----------------------------------------------------------------------------
(* The child.                                                              *)

Childlike(t) ==
  /\ initialized = 1
  /\ pc[t] \notin {"claim"} \cup InitLabels
  /\ pc[t] \in BirthLabels \cup LinkLabels => av[t] \in Dynamic
  /\ pc[t] \in LinkLabels => mutex[av[t]] = t
  /\ pc[t] = "link_main" => next[av[t]] = next[Main]

LEMMA ChildCall ==
  ASSUME NEW t \in Threads, ForkTypeInv, Childlike(t), Call(t), UNCHANGED forkvars
  PROVE  Childlike(t)'
<1> USE ArenaAssumption, ForkAssumption
        DEF ForkTypeInv, ForkTypeOK, Childlike, Goto, At, Take, Crash, Return, Remember,
        Labels, InitLabels, SearchLabels, BirthLabels, LinkLabels, EngineLabels, Arenas, Locks,
        Hooks, shared, inits, lookup, forkvars
<1>1. CASE Call(t)
  BY <1>1, SMT DEF Call, CanStart
<1> QED BY <1>1

LEMMA ChildEnter ==
  ASSUME NEW t \in Threads, ForkTypeInv, Childlike(t), Enter(t), UNCHANGED forkvars
  PROVE  Childlike(t)'
<1> USE ArenaAssumption, ForkAssumption
        DEF ForkTypeInv, ForkTypeOK, Childlike, Goto, At, Take, Crash, Return, Remember,
        Labels, InitLabels, SearchLabels, BirthLabels, LinkLabels, EngineLabels, Arenas, Locks,
        Hooks, shared, inits, lookup, forkvars
<1>1. CASE EnterPlain(t)
  BY <1>1, SMT DEF EnterPlain
<1>s. CASE EnterSmall(t)
  BY <1>s, SMT DEF EnterSmall
<1>2. CASE EnterRealloc(t)
  BY <1>2, SMT DEF EnterRealloc
<1>3. CASE EnterIni(t)
  BY <1>3, SMT DEF EnterIni
<1>4. CASE DropHook(t)
  BY <1>4, SMT DEF DropHook
<1>5. CASE EnterStarter(t)
  BY <1>5, SMT DEF EnterStarter
<1> QED BY <1>1, <1>2, <1>s, <1>3, <1>4, <1>5 DEF Enter

LEMMA ChildInitialise ==
  ASSUME NEW t \in Threads, ForkTypeInv, Childlike(t), Initialise(t), UNCHANGED forkvars
  PROVE  Childlike(t)'
<1> USE ArenaAssumption, ForkAssumption
        DEF ForkTypeInv, ForkTypeOK, Childlike, Goto, At, Take, Crash, Return, Remember,
        Labels, InitLabels, SearchLabels, BirthLabels, LinkLabels, EngineLabels, Arenas, Locks,
        Hooks, shared, inits, lookup, forkvars
<1>1. CASE InitCheck(t)
  BY <1>1, SMT DEF InitCheck
<1>2. CASE InitClaim(t)
  BY <1>2, SMT DEF InitClaim
<1>3. CASE InitMain(t)
  BY <1>3, SMT DEF InitMain
<1>4. CASE InitRing(t)
  BY <1>4, SMT DEF InitRing
<1>5. CASE InitList(t)
  BY <1>5, SMT DEF InitList
<1>6. CASE InitTsd(t)
  BY <1>6, SMT DEF InitTsd
<1>7. CASE InitDone(t)
  BY <1>7, SMT DEF InitDone
<1> QED BY <1>1, <1>2, <1>3, <1>4, <1>5, <1>6, <1>7 DEF Initialise

LEMMA ChildSearch ==
  ASSUME NEW t \in Threads, ForkTypeInv, Childlike(t), Search(t), UNCHANGED forkvars,
  ~(pc[t] = "get" /\ Marked(t))
  PROVE  Childlike(t)'
<1> USE ArenaAssumption, ForkAssumption
        DEF ForkTypeInv, ForkTypeOK, Childlike, Goto, At, Take, Crash, Return, Remember,
        Labels, InitLabels, SearchLabels, BirthLabels, LinkLabels, EngineLabels, Arenas, Locks,
        Hooks, shared, inits, lookup, forkvars
<1>1. CASE GetTsd(t)
  BY <1>1, SMT DEF GetTsd
<1>2. CASE TryDirect(t)
  BY <1>2, SMT DEF TryDirect
<1>3. CASE Get2(t)
  BY <1>3, SMT DEF Get2
<1>4. CASE LockMain(t)
  BY <1>4, SMT DEF LockMain
<1>5. CASE ScanTake(t)
  BY <1>5, SMT DEF ScanTake
<1>6. CASE ScanBusy(t)
  BY <1>6, SMT DEF ScanBusy
<1>7. CASE ScanNext(t)
  BY <1>7, SMT DEF ScanNext
<1>8. CASE ScanCrash(t)
  BY <1>8, SMT DEF ScanCrash
<1>9. CASE TryList(t)
  BY <1>9, SMT DEF TryList
<1> QED BY <1>1, <1>2, <1>3, <1>4, <1>5, <1>6, <1>7, <1>8, <1>9 DEF Search

LEMMA ChildCreate ==
  ASSUME NEW t \in Threads, ForkTypeInv, Childlike(t), Create(t), UNCHANGED forkvars
  PROVE  Childlike(t)'
<1> USE ArenaAssumption, ForkAssumption
        DEF ForkTypeInv, ForkTypeOK, Childlike, Goto, At, Take, Crash, Return, Remember,
        Labels, InitLabels, SearchLabels, BirthLabels, LinkLabels, EngineLabels, Arenas, Locks,
        Hooks, shared, inits, lookup, forkvars
<1>1. CASE DropList(t)
  BY <1>1, SMT DEF DropList
<1>2. CASE NewArena(t)
  BY <1>2, SMT DEF NewArena
<1>3. CASE NewArenaFails(t)
  BY <1>3, SMT DEF NewArenaFails
<1>4. CASE SetTsd(t)
  BY <1>4, SMT DEF SetTsd
<1>5. CASE MutexInit(t)
  BY <1>5, SMT DEF MutexInit
<1>6. CASE MutexLock(t)
  BY <1>6, SMT DEF MutexLock
<1>7. CASE ListLock(t)
  BY <1>7, SMT DEF ListLock
<1>8. CASE LinkNext(t)
  BY <1>8, SMT DEF LinkNext
<1>9. CASE LinkMain(t)
  BY <1>9, SMT DEF LinkMain
<1>10. CASE ListUnlock(t)
  BY <1>10, SMT DEF ListUnlock
<1> QED BY <1>1, <1>2, <1>3, <1>4, <1>5, <1>6, <1>7, <1>8, <1>9, <1>10 DEF Create

LEMMA ChildUse ==
  ASSUME NEW t \in Threads, ForkTypeInv, Childlike(t), Use(t), UNCHANGED forkvars
  PROVE  Childlike(t)'
<1> USE ArenaAssumption, ForkAssumption
        DEF ForkTypeInv, ForkTypeOK, Childlike, Goto, At, Take, Crash, Return, Remember,
        Labels, InitLabels, SearchLabels, BirthLabels, LinkLabels, EngineLabels, Arenas, Locks,
        Hooks, shared, inits, lookup, forkvars
<1>1. CASE GotNothing(t)
  BY <1>1, SMT DEF GotNothing
<1>2. CASE RefuseMain(t)
  BY <1>2, SMT DEF RefuseMain
<1>3. CASE EngineEnter(t)
  BY <1>3, SMT DEF EngineEnter
<1>4. CASE EngineLeave(t)
  BY <1>4, SMT DEF EngineLeave, Gain
<1>5. CASE EngineFails(t)
  BY <1>5, SMT DEF EngineFails
<1>6. CASE Unlock(t)
  BY <1>6, SMT DEF Unlock
<1>7. CASE UnlockFailed(t)
  BY <1>7, SMT DEF UnlockFailed
<1> QED BY <1>1, <1>2, <1>3, <1>4, <1>5, <1>6, <1>7 DEF Use

LEMMA ChildOwn ==
  ASSUME NEW t \in Threads, ForkTypeInv, Childlike(t), Own(t), UNCHANGED forkvars
  PROVE  Childlike(t)'
<1> USE ArenaAssumption, ForkAssumption
        DEF ForkTypeInv, ForkTypeOK, Childlike, Goto, At, Take, Crash, Return, Remember,
        Labels, InitLabels, SearchLabels, BirthLabels, LinkLabels, EngineLabels, Arenas, Locks,
        Hooks, shared, inits, lookup, forkvars
<1>1. CASE NotMine(t)
  BY <1>1, SMT DEF NotMine
<1>2. CASE LockOwner(t)
  BY <1>2, SMT DEF LockOwner
<1>3. CASE TrimLock(t)
  BY <1>3, SMT DEF TrimLock
<1> QED BY <1>1, <1>2, <1>3 DEF Own

LEMMA ChildPrepare ==
  ASSUME NEW t \in Threads, ForkTypeInv, Childlike(t), Prepare(t)
  PROVE  Childlike(t)'
<1> USE ArenaAssumption, ForkAssumption
        DEF ForkTypeInv, ForkTypeOK, Childlike, Goto, At, Take, Crash, Return, Remember,
        Labels, InitLabels, SearchLabels, BirthLabels, LinkLabels, EngineLabels, Arenas, Locks,
        Hooks, shared, inits, lookup, forkvars
<1>1. CASE LockAllList(t)
  BY <1>1, SMT DEF LockAllList
<1>2. CASE LockAllArena(t)
  BY <1>2, SMT DEF LockAllArena
<1>3. CASE LockAllNext(t)
  BY <1>3, SMT DEF LockAllNext, GoRound
<1>4. CASE LockAllHooks(t)
  BY <1>4, SMT DEF LockAllHooks
<1>5. CASE LockAllTsd(t)
  BY <1>5, SMT DEF LockAllTsd
<1> QED BY <1>1, <1>2, <1>3, <1>4, <1>5 DEF Prepare

LEMMA ChildParent ==
  ASSUME NEW t \in Threads, ForkTypeInv, Childlike(t), Parent(t)
  PROVE  Childlike(t)'
<1> USE ArenaAssumption, ForkAssumption
        DEF ForkTypeInv, ForkTypeOK, Childlike, Goto, At, Take, Crash, Return, Remember,
        Labels, InitLabels, SearchLabels, BirthLabels, LinkLabels, EngineLabels, Arenas, Locks,
        Hooks, shared, inits, lookup, forkvars
<1>1. CASE ForkParent(t)
  BY <1>1, SMT DEF ForkParent
<1>2. CASE UnlockAllTsd(t)
  BY <1>2, SMT DEF UnlockAllTsd
<1>3. CASE UnlockAllHooks(t)
  BY <1>3, SMT DEF UnlockAllHooks
<1>4. CASE UnlockAllArena(t)
  BY <1>4, SMT DEF UnlockAllArena
<1>5. CASE UnlockAllNext(t)
  BY <1>5, SMT DEF UnlockAllNext, GoRound
<1>6. CASE UnlockAllList(t)
  BY <1>6, SMT DEF UnlockAllList
<1> QED BY <1>1, <1>2, <1>3, <1>4, <1>5, <1>6 DEF Parent

LEMMA ChildAtforkWork ==
  ASSUME NEW t \in Threads, ForkTypeInv, Childlike(t), AtforkWork(t)
  PROVE  Childlike(t)'
<1> USE ArenaAssumption, ForkAssumption
        DEF ForkTypeInv, ForkTypeOK, Childlike, Goto, At, Take, Crash, Return, Remember,
        Labels, InitLabels, SearchLabels, BirthLabels, LinkLabels, EngineLabels, Arenas, Locks,
        Hooks, shared, inits, lookup, forkvars
<1>1. CASE MallocAtfork(t)
  BY <1>1, SMT DEF MallocAtfork, Unlocked
<1>2. CASE WaitList(t)
  BY <1>2, SMT DEF WaitList
<1>3. CASE LeaveList(t)
  BY <1>3, SMT DEF LeaveList
<1>4. CASE FreeAtfork(t)
  BY <1>4, SMT DEF FreeAtfork, Unlocked, ArenaForChunk
<1>5. CASE LockChunkArena(t)
  BY <1>5, SMT DEF LockChunkArena, ArenaForChunk
<1>6. CASE GetMark(t)
  BY <1>6, SMT DEF GetMark
<1> QED BY <1>1, <1>2, <1>3, <1>4, <1>5, <1>6 DEF AtforkWork

LEMMA ChildForks ==
  ASSUME NEW t \in Threads, ForkTypeInv, Childlike(t), Forks(t)
  PROVE  Childlike(t)'
<1> USE ArenaAssumption, ForkAssumption
        DEF ForkTypeInv, ForkTypeOK, Childlike, Goto, At, Take, Crash, Return, Remember,
        Labels, InitLabels, SearchLabels, BirthLabels, LinkLabels, EngineLabels, Arenas, Locks,
        Hooks, shared, inits, lookup, forkvars
<1>1. CASE Forks(t)
  BY <1>1, SMT DEF Forks
<1> QED BY <1>1

LEMMA LinkersLink ==
  ASSUME NEW t \in Threads, StepOf(t)
  PROVE  /\ pc[t] = "link_next" => LinkNext(t)
         /\ pc[t] = "link_main" => LinkMain(t)
  BY SMT DEF StepOf, Forks, Prepare, LockAllList, LockAllArena, LockAllNext, GoRound,
     LockAllHooks, LockAllTsd, Parent, ForkParent, UnlockAllTsd, UnlockAllHooks,
     UnlockAllArena, UnlockAllNext, UnlockAllList, AtforkWork, MallocAtfork, WaitList,
     LeaveList, FreeAtfork, LockChunkArena, GetMark, PlainWork, Call, At, Work,
     Enter, EnterPlain, EnterRealloc, EnterSmall, EnterIni, DropHook, EnterStarter,
     Initialise, InitCheck, InitClaim, InitMain, InitRing, InitList, InitTsd, InitDone,
     Search, GetTsd, TryDirect, Get2, LockMain, ScanTake, ScanBusy, ScanNext, ScanCrash,
     TryList, Create, DropList, NewArena, NewArenaFails, SetTsd, MutexInit, MutexLock,
     ListLock, LinkNext, LinkMain, ListUnlock, Use, GotNothing, RefuseMain, EngineEnter,
     EngineLeave, EngineFails, Unlock, UnlockFailed, Own, NotMine, LockOwner, TrimLock

\* The ring grows by the arena that is linked.
LEMMA ChildRing ==
  ASSUME ForkTypeInv, NeverEnds, NEW t \in Threads, Childlike(t), StepOf(t)
  PROVE  /\ NeverEnds'
         /\ \/ OnRing' \subseteq OnRing
            \/ pc[t] = "link_main" /\ OnRing' \subseteq OnRing \cup {av[t]}
<1>1. OnlyMine(t) /\ next \in [Arenas -> Arenas \cup {Null}]
  BY StepMoves DEF ForkTypeInv, ForkTypeOK
<1>2. CASE next' = next
  BY <1>2, SameRing DEF NeverEnds
<1>3. CASE pc[t] = "link_next"
  <2>1. next' = [next EXCEPT ![av[t]] = next[Main]] /\ av[t] \in Dynamic /\ av[t] # Main
    BY <1>3, LinkersLink, ArenaAssumption DEF LinkNext, Childlike, LinkLabels
  <2>2. NeverEnds'
    BY <1>1, <2>1, ArenaAssumption, SMT DEF NeverEnds, Arenas
  <2>3. \A b \in OnRing : next'[b] \in OnRing
    BY <1>1, <2>1, RingMoves, MainOnRing
  <2>4. ASSUME NEW C, C = OnRing PROVE OnRing' \subseteq C
    <3>1. C \in SUBSET Arenas /\ Main \in C /\ \A b \in C : next'[b] \in C
      BY <2>3, <2>4, MainOnRing
    <3> QED BY <3>1 DEF OnRing, Closed
  <2> QED BY <2>2, <2>4
<1>4. CASE pc[t] = "link_main"
  <2>1. /\ next' = [next EXCEPT ![Main] = av[t]] /\ av[t] \in Dynamic /\ av[t] # Main
        /\ next[av[t]] = next[Main]
    BY <1>4, LinkersLink, ArenaAssumption DEF LinkMain, Childlike, LinkLabels
  <2>2. NeverEnds'
    BY <1>1, <2>1, ArenaAssumption, SMT DEF NeverEnds, Arenas
  <2>3. \A b \in OnRing \cup {av[t]} : next'[b] \in OnRing \cup {av[t]}
    BY <1>1, <2>1, RingMoves, MainOnRing DEF Arenas
  <2>4. ASSUME NEW C, C = OnRing \cup {av[t]} PROVE OnRing' \subseteq C
    <3>1. C \in SUBSET Arenas /\ Main \in C /\ \A b \in C : next'[b] \in C
      BY <2>1, <2>3, <2>4, MainOnRing DEF Arenas
    <3> QED BY <3>1 DEF OnRing, Closed
  <2> QED BY <1>4, <2>2, <2>4
<1>5. pc[t] # "init_ring"
  BY DEF Childlike, InitLabels
<1> QED BY <1>1, <1>2, <1>3, <1>4, <1>5 DEF OnlyMine

LEMMA StepChild ==
  ASSUME ForkIInv, process = "child", NEW t \in Threads, StepOf(t)
  PROVE  ChildInv'
<1>1. ForkTypeInv /\ ChildInv /\ OnlyMine(t) /\ ForkTypeInv'
  BY StepMoves, StepType DEF ForkIInv
<1>2. \A u \in Threads : u # t => pc[u] = "gone" /\ pc'[u] = "gone"
  BY <1>1, NobodyElse DEF OnlyMine
<1>3. Childlike(t)
  BY <1>1 DEF ChildInv, Childlike
<1>4. Childlike(t)'
  <2>1. CASE PlainWork(t)
    BY <1>1, <1>3, <2>1, ChildEnter, ChildInitialise, ChildSearch, ChildCreate,
       ChildUse, ChildOwn DEF PlainWork, Work
  <2> QED BY <1>1, <1>3, <2>1, ChildCall, ChildForks, ChildPrepare, ChildParent,
             ChildAtforkWork DEF StepOf
<1>5. pc'[t] # "gone"
  <2>1. CASE Forks(t) \/ Prepare(t) \/ Parent(t)
    BY <1>1, <2>1, SMT DEF Forks, Prepare, LockAllList, LockAllArena, LockAllNext, GoRound,
       LockAllHooks, LockAllTsd, Parent, ForkParent, UnlockAllTsd, UnlockAllHooks,
       UnlockAllArena, UnlockAllNext, UnlockAllList, Goto, Return, ForkTypeInv, ForkTypeOK
  <2>2. CASE AtforkWork(t)
    BY <1>1, <2>2, SMT DEF AtforkWork, MallocAtfork, Unlocked, WaitList, LeaveList,
       FreeAtfork, LockChunkArena, GetMark, Crash, Goto, Return, ForkTypeInv, ForkTypeOK
  <2>3. CASE PlainWork(t) \/ (Call(t) /\ UNCHANGED forkvars)
    BY <1>1, <2>3, PlainLabels DEF PlainWork, Labels, InitLabels, SearchLabels, BirthLabels,
       LinkLabels, EngineLabels
  <2> QED BY <2>1, <2>2, <2>3 DEF StepOf
<1>6. /\ NeverEnds'
      /\ \/ OnRing' \subseteq OnRing
         \/ pc[t] = "link_main" /\ OnRing' \subseteq OnRing \cup {av[t]}
  BY <1>1, <1>3, ChildRing DEF ChildInv
<1>7. ASSUME NEW l \in OnRing' \cup {"list"}, mutex'[l] # Null
      PROVE  pc'[mutex'[l]] # "gone"
  <2>1. l \in Locks
    <3>1. OnRing' \subseteq Arenas
      BY DEF OnRing
    <3> QED BY <3>1 DEF Locks
  <2>2. CASE mutex'[l] = t
    BY <1>5, <2>2
  <2>3. CASE mutex'[l] = mutex[l] /\ mutex'[l] # t
    <3>1. mutex[l] \in Threads
      BY <1>1, <1>7, <2>1, <2>3 DEF ForkTypeInv, ForkTypeOK
    <3>2. l \in OnRing \cup {"list"}
      BY <1>3, <1>6, <2>3 DEF Childlike, LinkLabels
    <3>3. pc[mutex[l]] # "gone"
      BY <1>1, <1>7, <2>3, <3>2 DEF ChildInv
    <3> QED BY <1>2, <2>3, <3>1, <3>3
  <2> QED BY <1>1, <1>7, <2>1, <2>2, <2>3 DEF OnlyMine
<1>8. ASSUME NEW u \in Threads
      PROVE  Childlike(u)'
  <2>1. CASE u = t
    BY <1>4, <2>1
  <2>2. CASE u # t
    <3>1. initialized' = 1
      BY <1>4 DEF Childlike
    <3> QED BY <1>2, <2>2, <3>1 DEF Childlike, InitLabels, BirthLabels, LinkLabels
  <2> QED BY <2>1, <2>2
<1>9. \A u, v \in Threads : pc'[u] # "gone" /\ pc'[v] # "gone" => u = v
  BY <1>2
<1> QED BY <1>4, <1>6, <1>7, <1>8, <1>9, Zenon DEF ChildInv, Childlike

\* The walk from main_arena stays on the ring and comes by all of it.
LEMMA WalkIsRing ==
  ASSUME ForkTypeInv, NeverEnds, IsFiniteSet(Dynamic)
  PROVE  {Walk[n] : n \in 0..Cardinality(Arenas)} = OnRing
<1> DEFINE N == Cardinality(Arenas)
<1>1. IsFiniteSet(Arenas) /\ N \in Nat
  BY FS_AddElement, FS_CardinalityType DEF Arenas
<1>2. next \in [Arenas -> Arenas \cup {Null}] /\ Null \notin Arenas
  BY ArenaAssumption DEF ForkTypeInv, ForkTypeOK
<1> HIDE DEF N
<1>3. /\ Walk \in [0..N -> Arenas \cup {Null}] /\ Walk[0] = Main
      /\ \A n \in 1..N : Walk[n] = IF Walk[n - 1] = Null THEN Null ELSE next[Walk[n - 1]]
  <2>1. Walk = CHOOSE w : DefinesWalk(w, Main, next, Null, N)
    BY DEF Walk, DefinesWalk, N
  <2>2. Main \in Arenas
    BY DEF Arenas
  <2>3. \E w : DefinesWalk(w, Main, next, Null, N)
    BY <1>1, <1>2, <2>2, WalkDefined
  <2>4. DefinesWalk(Walk, Main, next, Null, N)
    BY <2>1, <2>3, Zenon
  <2>5. Walk \in [0..N -> Arenas \cup {Null}] /\ Follows(Walk, Main, next, Null, N)
    BY <1>1, <1>2, <2>2, <2>4, WalkFollows
  <2> QED BY <2>5 DEF Follows
<1>4. \A n \in 0..N : Walk[n] \in OnRing
  <2> DEFINE S == {n \in Nat : n \in 0..N => Walk[n] \in OnRing}
  <2>1. 0 \in S
    BY <1>3, MainOnRing
  <2>2. ASSUME NEW n \in Nat, n \in S PROVE n + 1 \in S
    <3> SUFFICES ASSUME n + 1 \in 0..N PROVE Walk[n + 1] \in OnRing
      OBVIOUS
    <3>1. n \in 0..N /\ n + 1 \in 1..N /\ (n + 1) - 1 = n
      BY <1>1
    <3>2. Walk[n] \in OnRing /\ Walk[n] # Null
      BY <1>2, <2>2, <3>1, MainOnRing
    <3>3. Walk[n + 1] = next[Walk[n]]
      BY <1>3, <3>1, <3>2
    <3> QED BY <1>2, <3>2, <3>3, RingMoves
  <2>3. Nat \subseteq S
    <3> HIDE DEF S
    <3> QED BY <2>1, <2>2, SetInduction
  <2> QED BY <2>3
<1>5. \A n \in 0..N : n + 1 \in 0..N => Walk[n + 1] = next[Walk[n]]
  <2> TAKE n \in 0..N
  <2> HAVE n + 1 \in 0..N
  <2>1. n + 1 \in 1..N /\ (n + 1) - 1 = n /\ Walk[n] # Null
    BY <1>1, <1>2, <1>4, MainOnRing
  <2> QED BY <1>3, <2>1
<1>6. PICK i \in 0..N, j \in 0..N : i < j /\ Walk[i] = Walk[j]
  <2>1. IsFiniteSet(0..N) /\ Cardinality(0..N) = N + 1
    BY <1>1, FS_Interval
  <2>2. Walk \in [0..N -> Arenas]
    BY <1>3, <1>4, MainOnRing
  <2>3. N < Cardinality(0..N)
    BY <1>1, <2>1
  <2>4. \E x, y \in 0..N : x # y /\ Walk[x] = Walk[y]
    BY <1>1, <2>1, <2>2, <2>3, FS_PigeonHole DEF N
  <2>5. PICK x \in 0..N, y \in 0..N : x # y /\ Walk[x] = Walk[y]
    BY <2>4
  <2>6. x < y \/ y < x
    BY <2>5
  <2> QED BY <2>5, <2>6
<1> DEFINE C == {Walk[n] : n \in 0..j - 1}
<1>7. C \subseteq {Walk[n] : n \in 0..N} /\ Main \in C
  <2>1. 0 \in 0..j - 1 /\ 0..j - 1 \subseteq 0..N
    BY <1>1, <1>6
  <2> QED BY <1>3, <2>1
<1>8. \A b \in C : next[b] \in C
  <2> TAKE b \in C
  <2>1. PICK n \in 0..j - 1 : b = Walk[n]
    OBVIOUS
  <2>2. n \in 0..N /\ n + 1 \in 0..N /\ next[b] = Walk[n + 1]
    BY <1>1, <1>5, <1>6, <2>1
  <2>3. CASE n + 1 = j
    BY <1>6, <2>2, <2>3
  <2>4. CASE n + 1 # j
    BY <2>1, <2>2, <2>4
  <2> QED BY <2>3, <2>4
<1>9. C \in SUBSET Arenas /\ Closed(C)
  <2>1. C \subseteq Arenas
    BY <1>4, <1>7, MainOnRing
  <2> HIDE DEF C
  <2> QED BY <1>7, <1>8, <2>1 DEF Closed
<1>10. OnRing \subseteq {Walk[n] : n \in 0..N}
  <2> HIDE DEF C
  <2> QED BY <1>7, <1>9, RingLeast
<1> QED BY <1>4, <1>10 DEF N

----------------------------------------------------------------------------
(* The fork itself, seen from the child.                                   *)

LEMMA ChildIsBorn ==
  ASSUME ForkIInv, IsFiniteSet(Dynamic), NEW t \in Threads, ForkChild(t)
  PROVE  ForkIInv'
<1>1. /\ ForkTypeInv /\ OneForks /\ ListHeld /\ pc[t] = "fork" /\ initialized = 1
      /\ pc[t] \in ForkLabels
  <2>1. pc[t] = "fork" /\ pc[t] \in ForkLabels
    BY DEF ForkChild, At, ForkLabels
  <2> QED BY <2>1, ForksLater DEF ForkIInv
<1>2. /\ NeverEnds /\ {Walk[n] : n \in 0..Cardinality(Arenas)} = OnRing
  BY <1>1, ItNeverEnds, WalkIsRing
<1>3. /\ process' = "child" /\ av' = [av EXCEPT ![t] = Null]
      /\ pc' = [u \in Threads |-> IF u = t THEN "idle" ELSE "gone"]
      /\ mutex' = [l \in Locks |-> IF l \in OnRing \cup {"list"} THEN Null ELSE mutex[l]]
      /\ UNCHANGED <<initialized, hook, saved, next, heaps, tsd, used, held, op, calls, start,
                     old, blk, forks, save_arena>>
  BY <1>2 DEF ForkChild, inits
<1>4. \A u \in Threads : pc'[u] = IF u = t THEN "idle" ELSE "gone"
  BY <1>3
<1>5. ForkTypeInv'
  <2>1. ForkTypeOK'
    BY <1>1, <1>3, SMT DEF ForkTypeInv, ForkTypeOK, Labels
  <2>2. ASSUME NEW u \in Threads
        PROVE  /\ pc'[u] \notin {"try", "scan", "next"} \cup BirthLabels \cup LinkLabels
                    \cup EngineLabels \cup ForkLabels \cup {"try_list", "lock_main"}
               /\ pc'[u] = "idle" => av'[u] = Null /\ start'[u] = Null /\ old'[u] = 0
    BY <1>1, <1>3, <1>4, SMT DEF ForkTypeInv, ForkTypeOK, ForkPointers, BirthLabels, LinkLabels,
       EngineLabels, ForkLabels, PrepareLabels, ParentLabels
  <2> HIDE DEF ForkTypeOK
  <2> QED BY <2>1, <2>2, SMT DEF ForkTypeInv, ForkPointers
<1>6. \A u \in Threads : pc'[u] \notin ForkLabels
  BY <1>4 DEF ForkLabels, PrepareLabels, ParentLabels
<1>7. OneForks'
  BY <1>1, <1>3, <1>6 DEF OneForks
<1>8. ListHeld'
  BY <1>4 DEF ListHeld, ForkLabels, PrepareLabels, ParentLabels
<1>9. RoundInv'
  <2>1. ASSUME NEW u \in Threads PROVE RoundAt(u)'
    BY <1>6, RoundElsewhere DEF RoundLabels
  <2> QED BY <2>1 DEF RoundInv
<1>10. ChildInv'
  <2>1. OnRing' = OnRing /\ NeverEnds'
    BY <1>2, <1>3, SameRing DEF NeverEnds
  <2>2. \A l \in OnRing \cup {"list"} : mutex'[l] = Null
    BY <1>3, MainOnRing DEF Locks
  <2>3. ASSUME NEW u \in Threads
        PROVE  pc'[u] \notin {"claim"} \cup InitLabels \cup BirthLabels \cup LinkLabels
    BY <1>4 DEF InitLabels, BirthLabels, LinkLabels
  <2>4. \A u \in Threads : pc'[u] # "link_main"
    BY <1>4
  <2>5. \A u, v \in Threads : pc'[u] # "gone" /\ pc'[v] # "gone" => u = v
    BY <1>4
  <2> QED BY <1>1, <1>3, <2>1, <2>2, <2>3, <2>4, <2>5, Zenon DEF ChildInv
<1> QED BY <1>3, <1>5, <1>7, <1>8, <1>9, <1>10 DEF ForkIInv

----------------------------------------------------------------------------
(* The invariant.                                                          *)

LEMMA ForkStarts ==
  ASSUME P!Orderly, ForkInit
  PROVE  ForkIInv
<1> USE ArenaAssumption, ForkAssumption
        DEF Arenas, AllOps, AllocOps, P!AllocOps, P!Arenas, P!AllOps
<1>1. /\ Init /\ process = "parent" /\ save_arena = Null /\ forks = 0
  BY DEF ForkInit
<1>2. \A t \in Threads : pc[t] = "idle" /\ pc[t] \notin ForkLabels
  BY <1>1, SMT DEF Init, ForkLabels, PrepareLabels, ParentLabels
<1>3. PlainPc = pc /\ PlainAv = av /\ PlainTsd = tsd /\ PlainHook = hook
  <2>1. PlainPc = pc
    BY <1>1, <1>2, SMT DEF PlainPc, Init
  <2>2. PlainAv = av
    BY <1>1, <1>2, SMT DEF PlainAv, Init
  <2>3. PlainTsd = tsd
    BY <1>1, SMT DEF PlainTsd, Init
  <2>4. PlainHook = hook
    BY <1>1, SMT DEF PlainHook, Init
  <2> QED BY <2>1, <2>2, <2>3, <2>4
<1>4. P!Init
  BY <1>1, <1>3 DEF Init, P!Init, Hooks, P!Hooks, Locks, P!Locks
<1>5. PlainInv
  <2>1. P!TypeInv /\ P!ArenaInv
    BY <1>4, P!TypeInit, P!ArenaInvInit
  <2>2. P!ListInv /\ P!RingInv /\ P!ChainInv
    BY <1>4, P!ListInit, P!RingInit, P!StartedInit
  <2> QED BY <2>1, <2>2 DEF PlainInv, P!Inductive
<1>6. ForkTypeInv
  <2>1. ForkTypeOK
    BY <1>1, SMT DEF Init, ForkTypeOK, HookValues, Labels, Hooks
  <2>2. ForkPointers
    BY <1>1, <1>2, SMT DEF Init, ForkPointers, BirthLabels, LinkLabels, EngineLabels
  <2> QED BY <2>1, <2>2 DEF ForkTypeInv
<1>7. OneForks
  BY <1>1, <1>2, SMT DEF OneForks, Init, Labels, Hooks
<1>8. ListHeld
  BY <1>2 DEF ListHeld
<1>9. RoundInv
  BY <1>2 DEF RoundInv, RoundAt, ForkLabels, PrepareLabels, ParentLabels
<1>10. ParentInv
  BY <1>1, <1>2, SMT DEF ParentInv, Init, Hooks
<1> QED BY <1>1, <1>5, <1>6, <1>7, <1>8, <1>9, <1>10 DEF ForkIInv

LEMMA ForkRests ==
  ASSUME P!Orderly, ForkIInv, UNCHANGED allvars
  PROVE  ForkIInv'
<1>1. UNCHANGED <<initialized, hook, saved, mutex, next, heaps, tsd, used, held, pc, op,
                  calls, av, start, old, blk, process, forks, save_arena>>
  BY DEF allvars, vars, shared, inits, lookup, forkvars
<1>2. ForkTypeInv' /\ OneForks' /\ ListHeld'
  BY <1>1 DEF ForkIInv, ForkTypeInv, ForkTypeOK, ForkPointers, OneForks, ListHeld
<1>3. OnRing' = OnRing
  BY <1>1, SameRing
<1>4. RoundInv'
  <2>1. ASSUME NEW t \in Threads PROVE RoundAt(t)'
    BY <1>1, RoundFrame DEF ForkIInv, RoundInv
  <2> QED BY <2>1 DEF RoundInv
<1>5. process = "parent" => ParentInv' /\ PlainInv'
  <2>1. PlainPc' = PlainPc /\ PlainAv' = PlainAv
    BY <1>1 DEF PlainPc, PlainAv
  <2>2. PlainTsd' = PlainTsd /\ PlainHook' = PlainHook
    BY <1>1, PlainTsdKept, PlainHookKept
  <2>3. process = "parent" => PlainInv'
    BY <1>1, <2>1, <2>2, ForkInvisible DEF ForkIInv
  <2>4. process = "parent" => ParentInv'
    BY <1>1 DEF ForkIInv, ParentInv
  <2> QED BY <2>3, <2>4
<1>6. process = "child" => ChildInv'
  BY <1>1, <1>3 DEF ForkIInv, ChildInv, NeverEnds
<1> QED BY <1>1, <1>2, <1>4, <1>5, <1>6 DEF ForkIInv

LEMMA ForkMoves ==
  ASSUME P!Orderly, ForkIInv, NEW t \in Threads, StepOf(t)
  PROVE  ForkIInv'
<1>1. process' = process
  BY StepMoves DEF ForkIInv, OnlyMine
<1> QED BY <1>1, StepType, StepList, StepRound, StepPlain, StepParent, StepChild DEF ForkIInv

LEMMA ForkStepCases ==
  ASSUME [ForkNext]_allvars
  PROVE  UNCHANGED allvars \/ \E t \in Threads : ForkChild(t) \/ StepOf(t)
BY DEF ForkNext, ForkWork, ForkFinished, StepOf

LEMMA ForkSteps ==
  ASSUME P!Orderly, IsFiniteSet(Dynamic), ForkIInv, [ForkNext]_allvars
  PROVE  ForkIInv'
BY ForkStepCases, ForkRests, ForkMoves, ChildIsBorn

(* In an orderly program (distinct tsd slots, one first caller) the        *)
(* parent's locks, hooks and marks are where the handlers are in their     *)
(* work, with the fork left out the parent is as Arena would have it, and  *)
(* the child has one thread and a ring without locks of others.            *)
THEOREM ForkHoldsTogether ==
  ASSUME P!Orderly, IsFiniteSet(Dynamic)
  PROVE  ForkSpec => []ForkIInv
<1>1. ForkInit => ForkIInv
  BY ForkStarts
<1>2. ForkIInv /\ [ForkNext]_allvars => ForkIInv'
  BY ForkSteps
<1> QED BY <1>1, <1>2, PTL DEF ForkSpec

----------------------------------------------------------------------------
(* The process at the moment it is copied.                                 *)

\* Every arena that is linked lies on the ring.
LEMMA RingHasLinked ==
  ASSUME ForkTypeInv, NEW r, P!Chained(r)
  PROVE  P!Linked \subseteq OnRing
<1> DEFINE L == P!Linked
<1>1. /\ r \in [Arenas -> Nat] /\ L \subseteq Arenas /\ Main \notin L /\ Null \notin L
      /\ next[Main] = Main => L = {}
      /\ next[Main] # Main => next[Main] \in L /\ \A b \in L : r[b] <= r[next[Main]]
      /\ \A a \in L : /\ next[a] = Main => \A b \in L : r[a] <= r[b]
                      /\ next[a] # Main => /\ next[a] \in L /\ r[next[a]] < r[a]
                                           /\ \A b \in L : r[b] <= r[next[a]] \/ r[a] <= r[b]
                      /\ \A b \in L : r[a] = r[b] => a = b
  <2>1. L \subseteq Dynamic
    BY DEF P!Linked, ForkTypeInv, ForkTypeOK
  <2>2. L \subseteq Arenas /\ Main \notin L /\ Null \notin L
    BY <2>1, ArenaAssumption DEF Arenas
  <2> QED BY <2>2 DEF P!Chained, P!Arenas, Arenas
<1> HIDE DEF L
<1> SUFFICES ASSUME NEW a \in L, NEW C \in SUBSET Arenas, Closed(C) PROVE a \in C
  BY <1>1 DEF OnRing, L
<1>2. /\ Main \in C /\ \A b \in C : next[b] \in C \cup {Null}
      /\ next[Main] # Main /\ next[Main] \in L /\ next[Main] \in C
  BY <1>1 DEF Closed
<1> DEFINE B == {r[c] : c \in {d \in L \cap C : r[a] <= r[d]}}
<1>3. B \in SUBSET Nat /\ r[next[Main]] \in B
  BY <1>1, <1>2
<1>4. PICK m \in B : \A k \in B : m <= k
  <2> HIDE DEF B
  <2> QED BY <1>3, LeastNatural
<1>5. PICK c \in L \cap C : r[a] <= r[c] /\ r[c] = m
  BY <1>4
<1>6. CASE r[c] = r[a]
  BY <1>1, <1>5, <1>6
<1>7. CASE r[c] # r[a]
  <2>1. r[a] \in Nat /\ r[c] \in Nat /\ r[a] < r[c]
    BY <1>1, <1>5, <1>7
  <2>2. next[c] # Main
    BY <1>1, <1>5, <2>1
  <2>3. next[c] \in L /\ next[c] \in C /\ r[next[c]] < r[c] /\ r[next[c]] \in Nat
    BY <1>1, <1>2, <1>5, <2>2
  <2>4. r[a] <= r[next[c]]
    BY <1>1, <1>5, <2>1, <2>2
  <2>5. r[next[c]] \in B
    BY <2>3, <2>4
  <2>6. m <= r[next[c]]
    <3> HIDE DEF B
    <3> QED BY <1>4, <2>5
  <2> QED BY <1>5, <2>1, <2>3, <2>6
<1> QED BY <1>6, <1>7

LEMMA WorkersOnRing ==
  ASSUME ForkIInv, process = "parent", initialized = 1, NEW u \in Threads, pc[u] = "using"
  PROVE  av[u] \in OnRing \ {Main} /\ mutex[av[u]] = u
<1>1. ForkTypeInv /\ P!Inductive /\ P!ChainInv
  BY DEF ForkIInv, PlainInv
<1>2. PlainPc[u] = "using" /\ PlainAv[u] = av[u]
  BY SMT DEF PlainPc, PlainAv, ForkLabels, PrepareLabels, ParentLabels
<1>3. av[u] \in heaps /\ av[u] \in Dynamic /\ mutex[av[u]] = u
  <2>1. av[u] \in heaps /\ mutex[av[u]] = u
    BY <1>1, <1>2, SMT DEF P!Inductive, P!ArenaInv, P!LockInv, P!EngineLabels
  <2> QED BY <1>1, <2>1 DEF ForkTypeInv, ForkTypeOK
<1>4. ASSUME NEW w \in Threads, PlainPc[w] \in P!Creating PROVE PlainAv[w] # av[u]
  <2>1. CASE PlainPc[w] \in P!BirthLabels
    <3>1. P!Public(av[u])
      BY <1>1, <1>3, ArenaAssumption DEF P!Inductive, P!ArenaInv, P!WorkersLock, Arenas
    <3> QED BY <2>1, <3>1 DEF P!Public
  <2>2. CASE PlainPc[w] \in {"list_lock", "link_next", "link_main"}
    <3>1. ASSUME PlainAv[w] = av[u] PROVE w = u
      BY <1>1, <1>3, <2>2, <3>1, SMT DEF P!Inductive, P!ArenaInv, P!WorkersLock, P!LinkLabels
    <3> QED BY <1>2, <2>2, <3>1
  <2> QED BY <1>4, <2>1, <2>2 DEF P!Creating
<1>5. av[u] \in P!Linked
  BY <1>3, <1>4 DEF P!Linked
<1>6. P!Linked \subseteq OnRing
  BY <1>1, RingHasLinked DEF P!ChainInv, P!ChainOrder
<1> QED BY <1>3, <1>5, <1>6, ArenaAssumption

LEMMA CopyIsAtRest == ASSUME ForkIInv PROVE CopiedAtRest
<1> SUFFICES ASSUME NEW t \in Threads, NEW u \in Threads, pc[t] = "fork", u # t
             PROVE  pc[u] \notin {"using", "link_next", "link_main", "list_unlock"}
  BY DEF CopiedAtRest
<1>1. pc[t] \in ForkLabels \ {"fork_list"} /\ initialized = 1
  <2>1. pc[t] \in ForkLabels
    BY DEF ForkLabels
  <2> QED BY <2>1, ForksLater DEF ForkIInv
<1>2. CASE process = "child"
  BY <1>2 DEF ForkIInv, ChildInv
<1>3. CASE process = "parent"
  <2>1. mutex["list"] = t
    BY <1>1 DEF ForkIInv, ListHeld
  <2>2. pc[u] \notin {"link_next", "link_main", "list_unlock"}
    BY <2>1 DEF ForkIInv, ListHeld
  <2>3. LockedBy(t, OnRing)
    BY DEF ForkIInv, RoundInv, RoundAt
  <2>4. pc[u] # "using"
    BY <1>1, <1>3, <2>3, WorkersOnRing DEF LockedBy
  <2> QED BY <2>2, <2>4
<1> QED BY <1>2, <1>3 DEF ForkIInv, ForkTypeInv, ForkTypeOK

(* When an orderly program, one whose threads have distinct tsd slots and  *)
(* of which one makes the first call, is copied, no other thread is in the *)
(* engine of an arena or half-way through linking one: ptmalloc_lock_all   *)
(* finds every arena that is in use on the ring, and stops its user first. *)
(* Of two threads on one slot it would stop one.                           *)
THEOREM ForkCopiesAtRest ==
  ASSUME P!Orderly, IsFiniteSet(Dynamic)
  PROVE  ForkSpec => []CopiedAtRest
BY ForkHoldsTogether, CopyIsAtRest, PTL

----------------------------------------------------------------------------
(* The books of the parent.                                                *)

LEMMA SameSizes ==
  ASSUME NEW S
  PROVE  (P!IsFiniteSet(S) <=> IsFiniteSet(S)) /\ P!Cardinality(S) = Cardinality(S)
<1>1. P!IsFiniteSet(S) <=> IsFiniteSet(S)
  BY DEF P!IsFiniteSet, IsFiniteSet
<1>2. P!Cardinality(S) = Cardinality(S)
  BY DEF P!Cardinality, Cardinality
<1> QED BY <1>1, <1>2

LEMMA StepAccounts ==
  ASSUME P!Orderly, IsFiniteSet(Threads), process = "parent", ForkIInv, P!Accounts,
  NEW t \in Threads,
         StepOf(t)
  PROVE  P!Accounts'
<1> USE ArenaAssumption, ForkAssumption
        DEF Arenas, AllOps, AllocOps, P!AllocOps, P!Arenas, P!AllOps
<1>1. /\ ForkTypeInv /\ OneForks /\ ParentInv /\ PlainInv /\ P!TypeInv /\ P!ArenaInv
      /\ ForkTypeInv' /\ P!DistinctSlots /\ P!IsFiniteSet(Threads)
  BY StepType, SameSizes DEF ForkIInv, PlainInv, P!Inductive, P!Orderly
<1>2. CASE PlainWork(t) \/ (Call(t) /\ UNCHANGED forkvars)
  <2>1. P!Call(t) \/ P!Work(t)
    BY <1>1, <1>2, PlainWorks DEF PlainWork
  <2>2. [P!Next]_(P!vars)
    BY <2>1 DEF P!Next
  <2> QED BY <1>1, <2>2, P!AccountsStep
<1>3. CASE used' = used /\ held' = held /\ blk' = blk
  BY <1>3 DEF P!Accounts, P!Carriers
<1>4. ASSUME Return(t, Null), used' = used, blk[t] \in {Null, Foreign} PROVE P!Accounts'
  <2> PICK b : b = Null
    OBVIOUS
  <2>1. blk' = [blk EXCEPT ![t] = b] /\ held' = held
    BY <1>4 DEF Return
  <2>2. P!Balances(t, b)
    BY <1>1, <1>4, <2>1, SMT DEF P!Balances, ForkTypeInv, ForkTypeOK
  <2>3. \A a \in Dynamic : used'[a] \in Int /\ held'[a] \in Int
    BY <1>1, SMT DEF ForkTypeInv, ForkTypeOK
  <2>4. P!TypeOK
    BY <1>1 DEF P!TypeInv
  <2> QED BY <1>1, <2>2, <2>3, <2>4, P!AccountsBalance
<1>5. CASE Forks(t) \/ Prepare(t)
  BY <1>3, <1>5, SMT DEF Forks, Prepare, LockAllList, LockAllArena, LockAllNext, GoRound,
     LockAllHooks, LockAllTsd, shared
<1>6. CASE Parent(t)
  <2>1. CASE UnlockAllList(t)
    <3>1. PlainPc[t] = "idle"
      BY <2>1, SMT DEF UnlockAllList, At, PlainPc, ForkLabels, ParentLabels
    <3>2. blk[t] = Null
      BY <1>1, <3>1 DEF P!ArenaInv, P!CallInv
    <3> QED BY <1>4, <2>1, <3>2 DEF UnlockAllList
  <2>2. CASE ~UnlockAllList(t)
    BY <1>3, <1>6, <2>2, SMT DEF Parent, ForkParent, UnlockAllTsd, UnlockAllHooks,
       UnlockAllArena, UnlockAllNext, GoRound, shared
  <2> QED BY <2>1, <2>2
<1>7. CASE AtforkWork(t)
  <2>1. CASE blk[t] = Foreign /\ Return(t, Null) /\ UNCHANGED shared
    BY <1>4, <2>1 DEF shared
  <2>2. CASE ~(blk[t] = Foreign /\ Return(t, Null) /\ UNCHANGED shared)
    BY <1>3, <1>7, <2>2, SMT DEF AtforkWork, MallocAtfork, Unlocked, WaitList, LeaveList,
       FreeAtfork, LockChunkArena, GetMark, Crash, shared
  <2> QED BY <2>1, <2>2
<1> QED BY <1>2, <1>5, <1>6, <1>7 DEF StepOf

\* The parent's books balance.
ForkBooks == process = "parent" => P!Accounts

LEMMA ForkBooksStep ==
  ASSUME P!Orderly, IsFiniteSet(Threads), ForkIInv, ForkBooks, [ForkNext]_allvars
  PROVE  ForkBooks'
<1>1. CASE UNCHANGED allvars
  BY <1>1 DEF ForkBooks, P!Accounts, P!Carriers, allvars, vars, shared, forkvars
<1>2. ASSUME NEW t \in Threads, ForkChild(t) PROVE ForkBooks'
  BY <1>2 DEF ForkBooks, ForkChild
<1>3. ASSUME NEW t \in Threads, StepOf(t) PROVE ForkBooks'
  <2>1. process' = process
    BY <1>3, StepMoves DEF ForkIInv, OnlyMine
  <2>2. CASE process = "parent"
    BY <1>3, <2>2, StepAccounts DEF ForkBooks
  <2> QED BY <2>1, <2>2 DEF ForkBooks
<1> QED BY <1>1, <1>2, <1>3, ForkStepCases

LEMMA ForkBooksOpen ==
  ASSUME ForkInit, IsFiniteSet(Threads)
  PROVE  ForkBooks
<1>1. \A a \in Dynamic : {t \in Threads : blk[t] = a} = {}
  BY ArenaAssumption, SMT DEF ForkInit, Init, Arenas
<1>2. \A a \in Dynamic : P!Carriers(a) = 0
  BY <1>1, FS_EmptySet, SameSizes DEF P!Carriers
<1> QED BY <1>2, SMT DEF ForkInit, Init, ForkBooks, P!Accounts, Arenas

LEMMA ParentIsUnharmed ==
  ASSUME IsFiniteSet(Threads), ForkIInv, ForkBooks
  PROVE  ParentUnharmed
<1> USE ArenaAssumption, ForkAssumption
        DEF Arenas, AllOps, AllocOps, P!AllocOps, P!Arenas, P!AllOps
<1> SUFFICES ASSUME process = "parent" PROVE ChunksAccountedFor /\ MainDisabled
  BY DEF ParentUnharmed
<1>1. ForkTypeInv /\ P!Inductive /\ P!TypeInv /\ P!ArenaInv /\ P!Accounts
      /\ P!IsFiniteSet(Threads)
  BY SameSizes DEF ForkIInv, ForkBooks, PlainInv, P!Inductive
<1>2. ChunksAccountedFor
  <2>1. P!ChunksAccountedFor
    BY <1>1, P!AccountsClosed
  <2> QED BY <1>1, <2>1, PlainAlive, SameSizes DEF ChunksAccountedFor, P!ChunksAccountedFor
<1>3. MainDisabled
  <2>1. P!MainDisabled
    BY <1>1, P!InvariantDisables
  <2>2. \A t \in Threads : pc[t] \in {"got", "using"} =>
          PlainPc[t] = pc[t] /\ PlainAv[t] = av[t]
    BY SMT DEF PlainPc, PlainAv, ForkLabels, PrepareLabels, ParentLabels
  <2> QED BY <2>1, <2>2 DEF MainDisabled, P!MainDisabled
<1> QED BY <1>2, <1>3

(* While an orderly program (distinct tsd slots, one first caller) is      *)
(* copied no update of an arena is lost in the parent, no block leaks, and *)
(* main_arena serves nobody: neither in the hooks malloc_atfork and        *)
(* free_atfork, nor in a call they send back. Threads on one slot may lose *)
(* an update, with or without a fork.                                      *)
THEOREM ForkHarmsNoParent ==
  ASSUME P!Orderly, IsFiniteSet(Dynamic), IsFiniteSet(Threads)
  PROVE  ForkSpec => []ParentUnharmed
<1>1. ForkInit => ForkBooks
  BY ForkBooksOpen
<1>2. ForkIInv /\ ForkBooks /\ [ForkNext]_allvars => ForkBooks'
  BY ForkBooksStep
<1>3. ForkIInv /\ ForkBooks => ParentUnharmed
  BY ParentIsUnharmed
<1> QED BY <1>1, <1>2, <1>3, ForkHoldsTogether, PTL DEF ForkSpec

----------------------------------------------------------------------------
(* Who holds which lock.                                                   *)

\* What ForkHolder says of a thread that does not fork.
WorkHolds(t) ==
  /\ mutex["list"] = t =>
       pc[t] \in {"drop_list", "link_next", "link_main", "list_unlock", "leave_list"}
  /\ \A a \in Dynamic : mutex[a] = t =>
       /\ av[t] = a /\ pc[t] \in {"got"} \cup LinkLabels \cup EngineLabels
       /\ op[t] \notin Starting
  /\ op[t] \in Starting => pc[t] \in {"got"} \cup EngineLabels
  /\ op[t] = "free" => pc[t] = "unlock" \/ blk[t] # Null
  /\ pc[t] = "chunk_arena" => blk[t] # Null
  /\ Ops \cap {"malloc", "calloc", "realloc", "small_memalign"} = {} =>
       op[t] \notin {"malloc", "calloc", "realloc", "small_memalign"}

LEMMA HoldsCall ==
  ASSUME NEW t \in Threads, P!KeepsNoLock, ForkTypeInv, WorkHolds(t),
         Call(t), UNCHANGED forkvars
  PROVE  WorkHolds(t)'
<1> USE ArenaAssumption, ForkAssumption
        DEF ForkTypeInv, ForkTypeOK, ForkPointers, WorkHolds, P!KeepsNoLock, Starting, Goto, At,
        Take, Crash, Return, Remember, BirthLabels, LinkLabels, EngineLabels, Arenas,
        Locks, AllocOps, shared, inits, lookup, forkvars
<1>1. CASE Call(t)
  BY <1>1, SMT DEF Call, CanStart, AllOps
<1> QED BY <1>1

LEMMA HoldsEnter ==
  ASSUME NEW t \in Threads, P!KeepsNoLock, ForkTypeInv, WorkHolds(t),
         Enter(t), UNCHANGED forkvars
  PROVE  WorkHolds(t)'
<1> USE ArenaAssumption, ForkAssumption
        DEF ForkTypeInv, ForkTypeOK, ForkPointers, WorkHolds, P!KeepsNoLock, Starting, Goto, At,
        Take, Crash, Return, Remember, BirthLabels, LinkLabels, EngineLabels, Arenas,
        Locks, AllocOps, shared, inits, lookup, forkvars
<1>1. CASE EnterPlain(t)
  BY <1>1, SMT DEF EnterPlain
<1>s. CASE EnterSmall(t)
  BY <1>s, SMT DEF EnterSmall
<1>2. CASE EnterRealloc(t)
  BY <1>2, SMT DEF EnterRealloc
<1>3. CASE EnterIni(t)
  BY <1>3, SMT DEF EnterIni
<1>4. CASE DropHook(t)
  BY <1>4, SMT DEF DropHook
<1>5. CASE EnterStarter(t)
  BY <1>5, SMT DEF EnterStarter
<1> QED BY <1>1, <1>2, <1>s, <1>3, <1>4, <1>5 DEF Enter

LEMMA HoldsInitialise ==
  ASSUME NEW t \in Threads, P!KeepsNoLock, ForkTypeInv, WorkHolds(t),
         Initialise(t), UNCHANGED forkvars
  PROVE  WorkHolds(t)'
<1> USE ArenaAssumption, ForkAssumption
        DEF ForkTypeInv, ForkTypeOK, ForkPointers, WorkHolds, P!KeepsNoLock, Starting, Goto, At,
        Take, Crash, Return, Remember, BirthLabels, LinkLabels, EngineLabels, Arenas,
        Locks, AllocOps, shared, inits, lookup, forkvars
<1>1. CASE InitCheck(t)
  BY <1>1, SMT DEF InitCheck
<1>2. CASE InitClaim(t)
  BY <1>2, SMT DEF InitClaim
<1>3. CASE InitMain(t)
  BY <1>3, SMT DEF InitMain
<1>4. CASE InitRing(t)
  BY <1>4, SMT DEF InitRing
<1>5. CASE InitList(t)
  BY <1>5, SMT DEF InitList
<1>6. CASE InitTsd(t)
  BY <1>6, SMT DEF InitTsd
<1>7. CASE InitDone(t)
  BY <1>7, SMT DEF InitDone
<1> QED BY <1>1, <1>2, <1>3, <1>4, <1>5, <1>6, <1>7 DEF Initialise

LEMMA HoldsSearch ==
  ASSUME NEW t \in Threads, P!KeepsNoLock, ForkTypeInv, WorkHolds(t),
         Search(t), UNCHANGED forkvars, ~(pc[t] = "get" /\ Marked(t))
  PROVE  WorkHolds(t)'
<1> USE ArenaAssumption, ForkAssumption
        DEF ForkTypeInv, ForkTypeOK, ForkPointers, WorkHolds, P!KeepsNoLock, Starting, Goto, At,
        Take, Crash, Return, Remember, BirthLabels, LinkLabels, EngineLabels, Arenas,
        Locks, AllocOps, shared, inits, lookup, forkvars
<1>1. CASE GetTsd(t)
  BY <1>1, SMT DEF GetTsd
<1>2. CASE TryDirect(t)
  BY <1>2, SMT DEF TryDirect
<1>3. CASE Get2(t)
  BY <1>3, SMT DEF Get2
<1>4. CASE LockMain(t)
  BY <1>4, SMT DEF LockMain
<1>5. CASE ScanTake(t)
  BY <1>5, SMT DEF ScanTake
<1>6. CASE ScanBusy(t)
  BY <1>6, SMT DEF ScanBusy
<1>7. CASE ScanNext(t)
  BY <1>7, SMT DEF ScanNext
<1>8. CASE ScanCrash(t)
  BY <1>8, SMT DEF ScanCrash
<1>9. CASE TryList(t)
  BY <1>9, SMT DEF TryList
<1> QED BY <1>1, <1>2, <1>3, <1>4, <1>5, <1>6, <1>7, <1>8, <1>9 DEF Search

LEMMA HoldsCreate ==
  ASSUME NEW t \in Threads, P!KeepsNoLock, ForkTypeInv, WorkHolds(t),
         Create(t), UNCHANGED forkvars
  PROVE  WorkHolds(t)'
<1> USE ArenaAssumption, ForkAssumption
        DEF ForkTypeInv, ForkTypeOK, ForkPointers, WorkHolds, P!KeepsNoLock, Starting, Goto, At,
        Take, Crash, Return, Remember, BirthLabels, LinkLabels, EngineLabels, Arenas,
        Locks, AllocOps, shared, inits, lookup, forkvars
<1>1. CASE DropList(t)
  BY <1>1, SMT DEF DropList
<1>2. CASE NewArena(t)
  BY <1>2, SMT DEF NewArena
<1>3. CASE NewArenaFails(t)
  BY <1>3, SMT DEF NewArenaFails
<1>4. CASE SetTsd(t)
  BY <1>4, SMT DEF SetTsd
<1>5. CASE MutexInit(t)
  BY <1>5, SMT DEF MutexInit
<1>6. CASE MutexLock(t)
  BY <1>6, SMT DEF MutexLock
<1>7. CASE ListLock(t)
  BY <1>7, SMT DEF ListLock
<1>8. CASE LinkNext(t)
  BY <1>8, SMT DEF LinkNext
<1>9. CASE LinkMain(t)
  BY <1>9, SMT DEF LinkMain
<1>10. CASE ListUnlock(t)
  BY <1>10, SMT DEF ListUnlock
<1> QED BY <1>1, <1>2, <1>3, <1>4, <1>5, <1>6, <1>7, <1>8, <1>9, <1>10 DEF Create

LEMMA HoldsUse ==
  ASSUME NEW t \in Threads, P!KeepsNoLock, ForkTypeInv, WorkHolds(t),
         Use(t), UNCHANGED forkvars
  PROVE  WorkHolds(t)'
<1> USE ArenaAssumption, ForkAssumption
        DEF ForkTypeInv, ForkTypeOK, ForkPointers, WorkHolds, P!KeepsNoLock, Starting, Goto, At,
        Take, Crash, Return, Remember, BirthLabels, LinkLabels, EngineLabels, Arenas,
        Locks, AllocOps, shared, inits, lookup, forkvars
<1>1. CASE GotNothing(t)
  BY <1>1, SMT DEF GotNothing
<1>2. CASE RefuseMain(t)
  BY <1>2, SMT DEF RefuseMain
<1>3. CASE EngineEnter(t)
  BY <1>3, SMT DEF EngineEnter
<1>4. CASE EngineLeave(t)
  BY <1>4, SMT DEF EngineLeave, Gain
<1>5. CASE EngineFails(t)
  BY <1>5, SMT DEF EngineFails
<1>6. CASE Unlock(t)
  BY <1>6, SMT DEF Unlock
<1>7. CASE UnlockFailed(t)
  BY <1>7, SMT DEF UnlockFailed
<1> QED BY <1>1, <1>2, <1>3, <1>4, <1>5, <1>6, <1>7 DEF Use

LEMMA HoldsOwn ==
  ASSUME NEW t \in Threads, P!KeepsNoLock, ForkTypeInv, WorkHolds(t),
         Own(t), UNCHANGED forkvars
  PROVE  WorkHolds(t)'
<1> USE ArenaAssumption, ForkAssumption
        DEF ForkTypeInv, ForkTypeOK, ForkPointers, WorkHolds, P!KeepsNoLock, Starting, Goto, At,
        Take, Crash, Return, Remember, BirthLabels, LinkLabels, EngineLabels, Arenas,
        Locks, AllocOps, shared, inits, lookup, forkvars
<1>1. CASE NotMine(t)
  BY <1>1, SMT DEF NotMine
<1>2. CASE LockOwner(t)
  BY <1>2, SMT DEF LockOwner
<1>3. CASE TrimLock(t)
  BY <1>3, SMT DEF TrimLock
<1> QED BY <1>1, <1>2, <1>3 DEF Own

LEMMA HoldsAtforkWork ==
  ASSUME NEW t \in Threads, P!KeepsNoLock, ForkTypeInv, WorkHolds(t),
         AtforkWork(t)
  PROVE  WorkHolds(t)'
<1> USE ArenaAssumption, ForkAssumption
        DEF ForkTypeInv, ForkTypeOK, ForkPointers, WorkHolds, P!KeepsNoLock, Starting, Goto, At,
        Take, Crash, Return, Remember, BirthLabels, LinkLabels, EngineLabels, Arenas,
        Locks, AllocOps, shared, inits, lookup, forkvars
<1>1. CASE MallocAtfork(t)
  BY <1>1, SMT DEF MallocAtfork, Unlocked
<1>2. CASE WaitList(t)
  BY <1>2, SMT DEF WaitList
<1>3. CASE LeaveList(t)
  BY <1>3, SMT DEF LeaveList
<1>4. CASE FreeAtfork(t)
  BY <1>4, SMT DEF FreeAtfork, Unlocked, ArenaForChunk
<1>5. CASE LockChunkArena(t)
  <2> PICK c : c = ArenaForChunk(blk[t])
    OBVIOUS
  <2>1. /\ pc[t] = "chunk_arena" /\ mutex' = [mutex EXCEPT ![c] = t]
        /\ av' = [av EXCEPT ![t] = c] /\ pc' = [pc EXCEPT ![t] = "got"] /\ op' = op
        /\ c # "list" /\ blk' = blk
    BY <1>5, SMT DEF LockChunkArena, ArenaForChunk
  <2> QED BY <2>1, SMT
<1>6. CASE GetMark(t)
  BY <1>6, SMT DEF GetMark
<1> QED BY <1>1, <1>2, <1>3, <1>4, <1>5, <1>6 DEF AtforkWork

LEMMA GoneStays ==
  ASSUME NEW t \in Threads, StepOf(t)
  PROVE  pc[t] # "gone"
  BY SMT DEF StepOf, Forks, Prepare, LockAllList, LockAllArena, LockAllNext, GoRound,
     LockAllHooks, LockAllTsd, Parent, ForkParent, UnlockAllTsd, UnlockAllHooks,
     UnlockAllArena, UnlockAllNext, UnlockAllList, AtforkWork, MallocAtfork, WaitList,
     LeaveList, FreeAtfork, LockChunkArena, GetMark, PlainWork, Call, At, Work,
     Enter, EnterPlain, EnterRealloc, EnterSmall, EnterIni, DropHook, EnterStarter,
     Initialise, InitCheck, InitClaim, InitMain, InitRing, InitList, InitTsd, InitDone,
     Search, GetTsd, TryDirect, Get2, LockMain, ScanTake, ScanBusy, ScanNext, ScanCrash,
     TryList, Create, DropList, NewArena, NewArenaFails, SetTsd, MutexInit, MutexLock,
     ListLock, LinkNext, LinkMain, ListUnlock, Use, GotNothing, RefuseMain, EngineEnter,
     EngineLeave, EngineFails, Unlock, UnlockFailed, Own, NotMine, LockOwner, TrimLock

LEMMA HoldsWhileForking ==
  ASSUME ForkIInv, NEW t \in Threads, HolderAt(t), Prepare(t) \/ Parent(t)
  PROVE  HolderAt(t)'
<1> USE DEF Starting
<1>1. /\ ForkTypeInv /\ RoundAt(t) /\ next' = next /\ op' = [op EXCEPT ![t] = op'[t]]
      /\ pc[t] \in ForkLabels /\ OnRing' = OnRing /\ Main \in OnRing
  <2>1. next' = next
    BY SMT DEF Prepare, LockAllList, LockAllArena, LockAllNext, GoRound, LockAllHooks,
       LockAllTsd, Parent, ForkParent, UnlockAllTsd, UnlockAllHooks, UnlockAllArena,
       UnlockAllNext, UnlockAllList, shared
  <2>2. pc[t] \in ForkLabels /\ op' = [op EXCEPT ![t] = op'[t]]
    BY SMT DEF Prepare, LockAllList, LockAllArena, LockAllNext, GoRound, LockAllHooks,
       LockAllTsd, Parent, ForkParent, UnlockAllTsd, UnlockAllHooks, UnlockAllArena,
       UnlockAllNext, UnlockAllList, At, Return, ForkLabels, PrepareLabels, ParentLabels,
       ForkIInv, ForkTypeInv, ForkTypeOK
  <2> QED BY <2>1, <2>2, SameRing, MainOnRing DEF ForkIInv, RoundInv
<1>2. /\ pc[t] \notin {"got", "unlock", "chunk_arena"} \cup LinkLabels \cup EngineLabels
      /\ op[t] \notin Starting
  <2>1. pc[t] \notin {"got", "unlock", "chunk_arena"} \cup LinkLabels \cup EngineLabels
    BY <1>1, SMT DEF ForkLabels, PrepareLabels, ParentLabels, LinkLabels, EngineLabels
  <2> QED BY <2>1 DEF HolderAt
<1>3. CASE UnlockAllList(t)
  <2>1. /\ pc[t] = "unlock_list" /\ mutex' = [mutex EXCEPT !["list"] = Null] /\ pc'[t] = "idle"
        /\ op'[t] = "none"
    BY <1>1, <1>3, SMT DEF UnlockAllList, At, Return, Goto, ForkTypeInv, ForkTypeOK
  <2>2. \A a \in Dynamic : mutex'[a] # t
    <3> SUFFICES ASSUME NEW a \in Dynamic, mutex[a] = t PROVE FALSE
      BY <1>1, <2>1, ArenaAssumption, SMT DEF ForkTypeInv, ForkTypeOK, Arenas, Locks
    <3>1. a \in OnRing \ {Main}
      BY <1>2, ArenaAssumption DEF HolderAt
    <3> QED BY <1>1, <2>1, <3>1 DEF RoundAt, UnlockedBy
  <2>3. mutex'["list"] # t
    BY <1>1, <2>1, ArenaAssumption, SMT DEF ForkTypeInv, ForkTypeOK, Locks
  <2> QED BY <2>1, <2>2, <2>3 DEF HolderAt
<1>4. CASE ~UnlockAllList(t)
  <2>1. /\ op' = op /\ blk' = blk
        /\ pc'[t] \in ForkLabels \ {"fork_list"} /\ pc'[t] # "chunk_arena"
        /\ \/ mutex' = mutex
           \/ LockAllList(t) /\ mutex' = [mutex EXCEPT !["list"] = t]
           \/ LockAllArena(t) /\ av[t] # Main /\ mutex' = [mutex EXCEPT ![av[t]] = t]
           \/ mutex' = [mutex EXCEPT ![av[t]] = Null]
    BY <1>1, <1>4, SMT DEF Prepare, LockAllList, LockAllArena, LockAllNext, GoRound,
       LockAllHooks, LockAllTsd, Parent, ForkParent, UnlockAllTsd, UnlockAllHooks,
       UnlockAllArena, UnlockAllNext, Take, Goto, shared, ForkLabels, PrepareLabels,
       ParentLabels, ForkTypeInv, ForkTypeOK
  <2>2. LockAllArena(t) => av[t] \in OnRing
    <3> HAVE LockAllArena(t)
    <3>1. pc[t] = "fork_lock"
      BY DEF LockAllArena, At
    <3>2. PICK D \in SUBSET OnRing : Upto(D, av[t])
      BY <1>1, <3>1 DEF RoundAt
    <3> QED BY <1>1, <3>2 DEF Upto
  <2>3. ASSUME NEW a \in Dynamic, mutex'[a] = t PROVE a \in OnRing
    <3>1. CASE mutex[a] = t
      BY <1>2, <3>1 DEF HolderAt
    <3>2. CASE mutex[a] # t
      <4>1. a # "list" /\ a \in Locks /\ t # Null
        BY ArenaAssumption DEF Arenas, Locks
      <4>2. LockAllArena(t) /\ a = av[t]
        BY <1>1, <2>1, <2>3, <3>2, <4>1, SMT DEF ForkTypeInv, ForkTypeOK
      <4> QED BY <2>2, <4>2
    <3> QED BY <3>1, <3>2
  <2>4. op[t] = "free" => blk[t] # Null
    BY <1>2 DEF HolderAt
  <2>5. op'[t] \notin Starting
    BY <1>2, <2>1
  <2> QED BY <1>1, <2>1, <2>3, <2>4, <2>5 DEF HolderAt
<1> QED BY <1>3, <1>4

LEMMA HolderMoves ==
  ASSUME P!KeepsNoLock, ForkIInv, NEW t \in Threads, HolderAt(t), StepOf(t)
  PROVE  HolderAt(t)'
<1>1. CASE Prepare(t) \/ Parent(t)
  BY <1>1, HoldsWhileForking
<1>2. CASE Forks(t)
  BY <1>2, SMT DEF Forks, HolderAt, ForkIInv, ForkTypeInv, ForkTypeOK, At, Goto, shared,
     LinkLabels, EngineLabels, ForkLabels, PrepareLabels, ParentLabels, Starting
<1>3. CASE AtforkWork(t) \/ PlainWork(t) \/ (Call(t) /\ UNCHANGED forkvars)
  <2>1. pc[t] \notin ForkLabels
    <3>1. CASE AtforkWork(t)
      BY <3>1, SMT DEF AtforkWork, MallocAtfork, WaitList, LeaveList, FreeAtfork,
         LockChunkArena, GetMark, At, ForkLabels, PrepareLabels, ParentLabels
    <3>2. CASE PlainWork(t) \/ (Call(t) /\ UNCHANGED forkvars)
      BY <3>2, SMT DEF PlainWork, Call, At, Work,
         Enter, EnterPlain, EnterRealloc, EnterSmall, EnterIni, DropHook, EnterStarter,
         Initialise, InitCheck, InitClaim, InitMain, InitRing, InitList, InitTsd, InitDone,
         Search, GetTsd, TryDirect, Get2, LockMain, ScanTake, ScanBusy, ScanNext, ScanCrash,
         TryList, Create, DropList, NewArena, NewArenaFails, SetTsd, MutexInit, MutexLock,
         ListLock, LinkNext, LinkMain, ListUnlock, Use, GotNothing, RefuseMain, EngineEnter,
         EngineLeave, EngineFails, Unlock, UnlockFailed, Own, NotMine, LockOwner, TrimLock,
         ForkLabels, PrepareLabels, ParentLabels
    <3> QED BY <1>3, <3>1, <3>2
  <2>2. ForkTypeInv /\ WorkHolds(t)
    BY <2>1 DEF ForkIInv, HolderAt, WorkHolds
  <2>3. WorkHolds(t)'
    BY <1>3, <2>2, HoldsCall, HoldsEnter, HoldsInitialise, HoldsSearch, HoldsCreate,
       HoldsUse, HoldsOwn, HoldsAtforkWork DEF PlainWork, Work
  <2> HIDE DEF WorkHolds
  <2> QED BY <2>3 DEF WorkHolds, HolderAt
<1> QED BY <1>1, <1>2, <1>3 DEF StepOf

\* A step of another thread takes nobody's lock away, and none to anybody.
LEMMA HolderRests ==
  ASSUME P!Orderly, ForkIInv, NEW t \in Threads, NEW u \in Threads, t # u, StepOf(u),
         HolderAt(t)
  PROVE  HolderAt(t)'
<1>1. /\ OnlyMine(u) /\ pc'[t] = pc[t] /\ av'[t] = av[t] /\ op'[t] = op[t] /\ blk'[t] = blk[t]
  BY StepMoves DEF ForkIInv, OnlyMine
<1>2. \A l \in Locks : mutex'[l] = t => mutex[l] = t
  BY <1>1, ArenaAssumption DEF OnlyMine
<1>3. pc[t] \in RoundLabels => OnRing' = OnRing
  BY RoundUndisturbed, SameRing
<1>4. "list" \in Locks /\ Dynamic \subseteq Locks
  BY DEF Locks, Arenas
<1> QED BY <1>1, <1>2, <1>3, <1>4 DEF HolderAt, RoundLabels

LEMMA ForkHolderStep ==
  ASSUME P!Orderly, P!KeepsNoLock, IsFiniteSet(Dynamic), ForkIInv, ForkHolder,
         [ForkNext]_allvars
  PROVE  ForkHolder'
<1>1. CASE UNCHANGED allvars
  <2>1. OnRing' = OnRing /\ UNCHANGED <<pc, mutex, av, op, blk>>
    BY <1>1, SameRing DEF allvars, vars, shared, lookup
  <2> QED BY <2>1 DEF ForkHolder, HolderAt
<1>2. ASSUME NEW t \in Threads, ForkChild(t) PROVE ForkHolder'
  <2>1. /\ ForkIInv /\ pc[t] = "fork" /\ pc[t] \notin {"got",
           "chunk_arena"} \cup LinkLabels \cup EngineLabels
        /\ next' = next /\ op' = op /\ blk' = blk
        /\ \A u \in Threads : pc'[u] = IF u = t THEN "idle" ELSE "gone"
    BY <1>2 DEF ForkChild, At, LinkLabels, EngineLabels
  <2>2. initialized = 1
    BY <2>1, ForksLater DEF ForkIInv, ForkLabels
  <2>3. {Walk[n] : n \in 0..Cardinality(Arenas)} = OnRing
    BY <2>1, <2>2, ItNeverEnds, WalkIsRing DEF ForkIInv
  <2>4. mutex' = [l \in Locks |-> IF l \in OnRing \cup {"list"} THEN Null ELSE mutex[l]]
    BY <1>2, <2>3 DEF ForkChild
  <2>5. HolderAt(t) /\ t # Null
    BY <2>1, ArenaAssumption DEF ForkHolder
  <2>6. mutex'["list"] # t /\ \A a \in Dynamic : mutex'[a] # t
    <3>1. "list" \in Locks /\ Dynamic \subseteq Locks
      BY DEF Locks, Arenas
    <3>2. \A a \in Dynamic : mutex[a] = t => a \in OnRing
      BY <2>1, <2>5 DEF HolderAt
    <3> QED BY <2>4, <2>5, <3>1, <3>2
  <2>7. HolderAt(t)'
    <3>1. pc'[t] = "idle" /\ op'[t] = op[t] /\ blk'[t] = blk[t]
      BY <2>1
    <3>2. op[t] \notin Starting /\ (op[t] = "free" => blk[t] # Null)
      BY <2>1, <2>5 DEF HolderAt, EngineLabels
    <3> QED BY <2>5, <2>6, <3>1, <3>2 DEF HolderAt
  <2> QED BY <2>1, <2>7 DEF ForkHolder
<1>3. ASSUME NEW u \in Threads, StepOf(u) PROVE ForkHolder'
  <2> SUFFICES ASSUME NEW t \in Threads, pc'[t] # "gone" PROVE HolderAt(t)'
    BY DEF ForkHolder
  <2>1. pc[t] # "gone"
    <3>1. CASE t # u
      BY <1>3, <3>1, StepMoves DEF ForkIInv, OnlyMine
    <3>2. CASE t = u
      BY <1>3, <3>2, GoneStays
    <3> QED BY <3>1, <3>2
  <2>2. HolderAt(t)
    BY <2>1 DEF ForkHolder
  <2>3. CASE t = u
    BY <1>3, <2>2, <2>3, HolderMoves
  <2>4. CASE t # u
    BY <1>3, <2>2, <2>4, HolderRests
  <2> QED BY <2>3, <2>4
<1> QED BY <1>1, <1>2, <1>3, ForkStepCases

LEMMA ForkHolderStarts == ASSUME ForkInit PROVE ForkHolder
<1>1. \A t \in Threads : pc[t] = "idle" /\ op[t] = "none" /\ \A l \in Locks : mutex[l] = Null
  BY DEF ForkInit, Init
<1>2. "list" \in Locks /\ Dynamic \subseteq Locks /\ Null \notin Threads
  BY ArenaAssumption DEF Locks, Arenas
<1> QED BY <1>1, <1>2 DEF ForkHolder, HolderAt, Starting

LEMMA NothingIsLeft ==
  ASSUME ForkIInv, ForkHolder, IsFiniteSet(Dynamic)
  PROVE  ForkLeavesNothing
<1>1. ASSUME NEW l \in Locks \ {Main}, mutex[l] # Null PROVE pc[mutex[l]] # "idle"
  <2>1. mutex[l] \in Threads /\ (l = "list" \/ l \in Dynamic)
    BY <1>1 DEF ForkIInv, ForkTypeInv, ForkTypeOK, Locks, Arenas
  <2>2. ASSUME pc[mutex[l]] = "idle" PROVE FALSE
    <3>1. HolderAt(mutex[l])
      BY <2>1, <2>2 DEF ForkHolder
    <3> QED BY <2>1, <2>2, <3>1, SMT DEF HolderAt, LinkLabels, EngineLabels, ForkLabels,
               PrepareLabels, ParentLabels
  <2> QED BY <2>2
<1>2. ASSUME process = "child", NEW n \in 0..Cardinality(Arenas), mutex[Walk[n]] # Null
      PROVE  pc[mutex[Walk[n]]] # "gone"
  <2>1. ForkTypeInv /\ ChildInv
    BY <1>2 DEF ForkIInv
  <2>2. Walk[n] \in OnRing
    BY <2>1, WalkIsRing DEF ChildInv
  <2> QED BY <1>2, <2>1, <2>2 DEF ChildInv
<1>3. ASSUME process = "parent", ~Forking
      PROVE  /\ hook["malloc"] # "atfork" /\ hook["free"] # "atfork"
             /\ \A s \in Slots : tsd[s] # Atfork
  <2>1. \A t \in Threads : pc[t] \notin ForkLabels
    BY <1>3 DEF Forking
  <2>2. \A t \in Threads : pc[t] \notin {"fork_tsd", "fork", "unlock_tsd", "unlock_hooks"}
    BY <2>1 DEF ForkLabels, PrepareLabels, ParentLabels
  <2>3. "malloc" \in Hooks /\ "free" \in Hooks
    BY DEF Hooks
  <2> QED BY <1>3, <2>2, <2>3 DEF ForkIInv, ParentInv
<1> QED BY <1>1, <1>2, <1>3 DEF ForkLeavesNothing

(* In an orderly program (distinct tsd slots, one first caller) whose      *)
(* malloc does not fail a thread holds the list lock only while it links,  *)
(* forks or waited for a fork, and the lock of a created arena only while  *)
(* it works in it, or forks and has it on the ring.                        *)
THEOREM LocksAreHeldAtWork ==
  ASSUME P!Orderly, P!KeepsNoLock, IsFiniteSet(Dynamic)
  PROVE  ForkSpec => []ForkHolder
<1>1. ForkInit => ForkHolder
  BY ForkHolderStarts
<1>2. ForkIInv /\ ForkHolder /\ [ForkNext]_allvars => ForkHolder'
  BY ForkHolderStep
<1> QED BY <1>1, <1>2, ForkHoldsTogether, PTL DEF ForkSpec

(* Once the handlers of an orderly program (distinct tsd slots, one first  *)
(* caller) are done their locks are free: the ring the child walks has     *)
(* none of a thread that is gone, whoever is back in the program holds     *)
(* none but main_arena's, and in the parent no hook and no mark of the     *)
(* fork is left. Only a malloc that fails keeps a lock.                    *)
THEOREM ForkCleansUp ==
  ASSUME P!Orderly, P!KeepsNoLock, IsFiniteSet(Dynamic)
  PROVE  ForkSpec => []ForkLeavesNothing
<1>1. ForkIInv /\ ForkHolder => ForkLeavesNothing
  BY NothingIsLeft
<1> QED BY <1>1, LocksAreHeldAtWork, ForkHoldsTogether, PTL

----------------------------------------------------------------------------
(* Who releases which lock.                                                *)

\* In the child, as in the parent: who works in an arena has locked it, and
\* nobody has locked one that is not made yet, or refers to one.
WorksLocked(t) ==
  /\ pc[t] \in {"got"} \cup EngineLabels /\ av[t] # Null /\ op[t] \notin Starting =>
       mutex[av[t]] = t
  /\ pc[t] = "unlock_failed" => op[t] # "starter_free"
  /\ \A a \in Dynamic : mutex[a] # Null =>
       a \in heaps /\ (pc[t] \in BirthLabels => av[t] # a)
  /\ av[t] \in heaps \cup {Main, Null} /\ start[t] \in heaps \cup {Main, Null}
  /\ blk[t] \in heaps \cup {Main, Null, Foreign}
  /\ \A a \in Arenas : /\ next[a] \in heaps \cup {Main, Null}
                       /\ held[a] > 0 => a \in heaps \cup {Main}
  /\ \A s \in Slots : tsd[s] \in heaps \cup {Main, Null, Atfork}
  /\ save_arena \in heaps \cup {Main, Null, Atfork}

LEMMA LockedCall ==
  ASSUME NEW t \in Threads, ForkTypeInv, Childlike(t), WorksLocked(t),
         Call(t), UNCHANGED forkvars
  PROVE  WorksLocked(t)'
<1> USE ArenaAssumption, ForkAssumption
        DEF ForkTypeInv, ForkTypeOK, ForkPointers, Childlike, WorksLocked, Starting, Goto,
        At, Take,
        Crash, Return, Remember, Labels, InitLabels, SearchLabels, BirthLabels, LinkLabels,
        EngineLabels, ForkLabels, PrepareLabels, ParentLabels, Arenas, Locks, shared, inits,
        lookup, forkvars
<1>1. CASE Call(t)
  BY <1>1, SMT DEF Call, CanStart
<1> QED BY <1>1

LEMMA LockedEnter ==
  ASSUME NEW t \in Threads, ForkTypeInv, Childlike(t), WorksLocked(t),
         Enter(t), UNCHANGED forkvars
  PROVE  WorksLocked(t)'
<1> USE ArenaAssumption, ForkAssumption
        DEF ForkTypeInv, ForkTypeOK, ForkPointers, Childlike, WorksLocked, Starting, Goto,
        At, Take,
        Crash, Return, Remember, Labels, InitLabels, SearchLabels, BirthLabels, LinkLabels,
        EngineLabels, ForkLabels, PrepareLabels, ParentLabels, Arenas, Locks, shared, inits,
        lookup, forkvars
<1>1. CASE EnterPlain(t)
  BY <1>1, SMT DEF EnterPlain
<1>s. CASE EnterSmall(t)
  BY <1>s, SMT DEF EnterSmall
<1>2. CASE EnterRealloc(t)
  BY <1>2, SMT DEF EnterRealloc
<1>3. CASE EnterIni(t)
  BY <1>3, SMT DEF EnterIni
<1>4. CASE DropHook(t)
  BY <1>4, SMT DEF DropHook
<1>5. CASE EnterStarter(t)
  BY <1>5, SMT DEF EnterStarter
<1> QED BY <1>1, <1>2, <1>s, <1>3, <1>4, <1>5 DEF Enter

LEMMA LockedInitialise ==
  ASSUME NEW t \in Threads, ForkTypeInv, Childlike(t), WorksLocked(t),
         Initialise(t), UNCHANGED forkvars
  PROVE  WorksLocked(t)'
<1> USE ArenaAssumption, ForkAssumption
        DEF ForkTypeInv, ForkTypeOK, ForkPointers, Childlike, WorksLocked, Starting, Goto,
        At, Take,
        Crash, Return, Remember, Labels, InitLabels, SearchLabels, BirthLabels, LinkLabels,
        EngineLabels, ForkLabels, PrepareLabels, ParentLabels, Arenas, Locks, shared, inits,
        lookup, forkvars
<1>1. CASE InitCheck(t)
  BY <1>1, SMT DEF InitCheck
<1>2. CASE InitClaim(t)
  BY <1>2, SMT DEF InitClaim
<1>3. CASE InitMain(t)
  BY <1>3, SMT DEF InitMain
<1>4. CASE InitRing(t)
  BY <1>4, SMT DEF InitRing
<1>5. CASE InitList(t)
  BY <1>5, SMT DEF InitList
<1>6. CASE InitTsd(t)
  BY <1>6, SMT DEF InitTsd
<1>7. CASE InitDone(t)
  BY <1>7, SMT DEF InitDone
<1> QED BY <1>1, <1>2, <1>3, <1>4, <1>5, <1>6, <1>7 DEF Initialise

LEMMA LockedSearch ==
  ASSUME NEW t \in Threads, ForkTypeInv, Childlike(t), WorksLocked(t),
         Search(t), UNCHANGED forkvars, ~(pc[t] = "get" /\ Marked(t))
  PROVE  WorksLocked(t)'
<1> USE ArenaAssumption, ForkAssumption
        DEF ForkTypeInv, ForkTypeOK, ForkPointers, Childlike, WorksLocked, Starting, Goto,
        At, Take,
        Crash, Return, Remember, Labels, InitLabels, SearchLabels, BirthLabels, LinkLabels,
        EngineLabels, ForkLabels, PrepareLabels, ParentLabels, Arenas, Locks, shared, inits,
        lookup, forkvars
<1>1. CASE GetTsd(t)
  BY <1>1, SMT DEF GetTsd, Marked
<1>2. CASE TryDirect(t)
  BY <1>2, SMT DEF TryDirect
<1>3. CASE Get2(t)
  BY <1>3, SMT DEF Get2
<1>4. CASE LockMain(t)
  BY <1>4, SMT DEF LockMain
<1>5. CASE ScanTake(t)
  BY <1>5, SMT DEF ScanTake
<1>6. CASE ScanBusy(t)
  BY <1>6, SMT DEF ScanBusy
<1>7. CASE ScanNext(t)
  BY <1>7, SMT DEF ScanNext
<1>8. CASE ScanCrash(t)
  BY <1>8, SMT DEF ScanCrash
<1>9. CASE TryList(t)
  BY <1>9, SMT DEF TryList
<1> QED BY <1>1, <1>2, <1>3, <1>4, <1>5, <1>6, <1>7, <1>8, <1>9 DEF Search

LEMMA LockedCreate ==
  ASSUME NEW t \in Threads, ForkTypeInv, Childlike(t), WorksLocked(t),
         Create(t), UNCHANGED forkvars
  PROVE  WorksLocked(t)'
<1> USE ArenaAssumption, ForkAssumption
        DEF ForkTypeInv, ForkTypeOK, ForkPointers, Childlike, WorksLocked, Starting, Goto,
        At, Take,
        Crash, Return, Remember, Labels, InitLabels, SearchLabels, BirthLabels, LinkLabels,
        EngineLabels, ForkLabels, PrepareLabels, ParentLabels, Arenas, Locks, shared, inits,
        lookup, forkvars
<1>1. CASE DropList(t)
  BY <1>1, SMT DEF DropList
<1>2. CASE NewArena(t)
  BY <1>2, SMT DEF NewArena
<1>3. CASE NewArenaFails(t)
  BY <1>3, SMT DEF NewArenaFails
<1>4. CASE SetTsd(t)
  BY <1>4, SMT DEF SetTsd
<1>5. CASE MutexInit(t)
  BY <1>5, SMT DEF MutexInit
<1>6. CASE MutexLock(t)
  BY <1>6, SMT DEF MutexLock
<1>7. CASE ListLock(t)
  BY <1>7, SMT DEF ListLock
<1>8. CASE LinkNext(t)
  BY <1>8, SMT DEF LinkNext
<1>9. CASE LinkMain(t)
  BY <1>9, SMT DEF LinkMain
<1>10. CASE ListUnlock(t)
  BY <1>10, SMT DEF ListUnlock
<1> QED BY <1>1, <1>2, <1>3, <1>4, <1>5, <1>6, <1>7, <1>8, <1>9, <1>10 DEF Create

LEMMA LockedUse ==
  ASSUME NEW t \in Threads, ForkTypeInv, Childlike(t), WorksLocked(t),
         Use(t), UNCHANGED forkvars
  PROVE  WorksLocked(t)'
<1> USE ArenaAssumption, ForkAssumption
        DEF ForkTypeInv, ForkTypeOK, ForkPointers, Childlike, WorksLocked, Starting, Goto,
        At, Take,
        Crash, Return, Remember, Labels, InitLabels, SearchLabels, BirthLabels, LinkLabels,
        EngineLabels, ForkLabels, PrepareLabels, ParentLabels, Arenas, Locks, shared, inits,
        lookup, forkvars
<1>1. CASE GotNothing(t)
  BY <1>1, SMT DEF GotNothing
<1>2. CASE RefuseMain(t)
  BY <1>2, SMT DEF RefuseMain
<1>3. CASE EngineEnter(t)
  BY <1>3, SMT DEF EngineEnter
<1>4. CASE EngineLeave(t)
  BY <1>4, SMT DEF EngineLeave, Gain
<1>5. CASE EngineFails(t)
  BY <1>5, SMT DEF EngineFails, AllocOps
<1>6. CASE Unlock(t)
  BY <1>6, SMT DEF Unlock
<1>7. CASE UnlockFailed(t)
  BY <1>7, SMT DEF UnlockFailed
<1> QED BY <1>1, <1>2, <1>3, <1>4, <1>5, <1>6, <1>7 DEF Use

LEMMA LockedOwn ==
  ASSUME NEW t \in Threads, ForkTypeInv, Childlike(t), WorksLocked(t),
         Own(t), UNCHANGED forkvars
  PROVE  WorksLocked(t)'
<1> USE ArenaAssumption, ForkAssumption
        DEF ForkTypeInv, ForkTypeOK, ForkPointers, Childlike, WorksLocked, Starting, Goto,
        At, Take,
        Crash, Return, Remember, Labels, InitLabels, SearchLabels, BirthLabels, LinkLabels,
        EngineLabels, ForkLabels, PrepareLabels, ParentLabels, Arenas, Locks, shared, inits,
        lookup, forkvars
<1>1. CASE NotMine(t)
  BY <1>1, SMT DEF NotMine
<1>2. CASE LockOwner(t)
  BY <1>2, SMT DEF LockOwner
<1>3. CASE TrimLock(t)
  BY <1>3, SMT DEF TrimLock
<1> QED BY <1>1, <1>2, <1>3 DEF Own

LEMMA LockedPrepare ==
  ASSUME NEW t \in Threads, ForkTypeInv, Childlike(t), WorksLocked(t),
         Prepare(t)
  PROVE  WorksLocked(t)'
<1> USE ArenaAssumption, ForkAssumption
        DEF ForkTypeInv, ForkTypeOK, ForkPointers, Childlike, WorksLocked, Starting, Goto,
        At, Take,
        Crash, Return, Remember, Labels, InitLabels, SearchLabels, BirthLabels, LinkLabels,
        EngineLabels, ForkLabels, PrepareLabels, ParentLabels, Arenas, Locks, shared, inits,
        lookup, forkvars
<1>1. CASE LockAllList(t)
  BY <1>1, SMT DEF LockAllList
<1>2. CASE LockAllArena(t)
  BY <1>2, SMT DEF LockAllArena
<1>3. CASE LockAllNext(t)
  BY <1>3, SMT DEF LockAllNext, GoRound
<1>4. CASE LockAllHooks(t)
  BY <1>4, SMT DEF LockAllHooks
<1>5. CASE LockAllTsd(t)
  BY <1>5, SMT DEF LockAllTsd
<1> QED BY <1>1, <1>2, <1>3, <1>4, <1>5 DEF Prepare

LEMMA LockedParent ==
  ASSUME NEW t \in Threads, ForkTypeInv, Childlike(t), WorksLocked(t),
         Parent(t)
  PROVE  WorksLocked(t)'
<1> USE ArenaAssumption, ForkAssumption
        DEF ForkTypeInv, ForkTypeOK, ForkPointers, Childlike, WorksLocked, Starting, Goto,
        At, Take,
        Crash, Return, Remember, Labels, InitLabels, SearchLabels, BirthLabels, LinkLabels,
        EngineLabels, ForkLabels, PrepareLabels, ParentLabels, Arenas, Locks, shared, inits,
        lookup, forkvars
<1>1. CASE ForkParent(t)
  BY <1>1, SMT DEF ForkParent
<1>2. CASE UnlockAllTsd(t)
  BY <1>2, SMT DEF UnlockAllTsd
<1>3. CASE UnlockAllHooks(t)
  BY <1>3, SMT DEF UnlockAllHooks
<1>4. CASE UnlockAllArena(t)
  BY <1>4, SMT DEF UnlockAllArena
<1>5. CASE UnlockAllNext(t)
  BY <1>5, SMT DEF UnlockAllNext, GoRound
<1>6. CASE UnlockAllList(t)
  BY <1>6, SMT DEF UnlockAllList
<1> QED BY <1>1, <1>2, <1>3, <1>4, <1>5, <1>6 DEF Parent

LEMMA LockedAtforkWork ==
  ASSUME NEW t \in Threads, ForkTypeInv, Childlike(t), WorksLocked(t),
         AtforkWork(t)
  PROVE  WorksLocked(t)'
<1> USE ArenaAssumption, ForkAssumption
        DEF ForkTypeInv, ForkTypeOK, ForkPointers, Childlike, WorksLocked, Starting, Goto,
        At, Take,
        Crash, Return, Remember, Labels, InitLabels, SearchLabels, BirthLabels, LinkLabels,
        EngineLabels, ForkLabels, PrepareLabels, ParentLabels, Arenas, Locks, shared, inits,
        lookup, forkvars
<1>1. CASE MallocAtfork(t)
  BY <1>1, SMT DEF MallocAtfork, Unlocked
<1>2. CASE WaitList(t)
  BY <1>2, SMT DEF WaitList
<1>3. CASE LeaveList(t)
  BY <1>3, SMT DEF LeaveList
<1>4. CASE FreeAtfork(t)
  BY <1>4, SMT DEF FreeAtfork, Unlocked, ArenaForChunk
<1>5. CASE LockChunkArena(t)
  BY <1>5, SMT DEF LockChunkArena, ArenaForChunk
<1>6. CASE GetMark(t)
  BY <1>6, SMT DEF GetMark
<1> QED BY <1>1, <1>2, <1>3, <1>4, <1>5, <1>6 DEF AtforkWork

LEMMA LockedForks ==
  ASSUME NEW t \in Threads, ForkTypeInv, Childlike(t), WorksLocked(t),
         Forks(t)
  PROVE  WorksLocked(t)'
<1> USE ArenaAssumption, ForkAssumption
        DEF ForkTypeInv, ForkTypeOK, ForkPointers, Childlike, WorksLocked, Starting, Goto,
        At, Take,
        Crash, Return, Remember, Labels, InitLabels, SearchLabels, BirthLabels, LinkLabels,
        EngineLabels, ForkLabels, PrepareLabels, ParentLabels, Arenas, Locks, shared, inits,
        lookup, forkvars
<1>1. CASE Forks(t)
  BY <1>1, SMT DEF Forks
<1> QED BY <1>1

ChildLocks == process = "child" => \A t \in Threads : pc[t] # "gone" => WorksLocked(t)

LEMMA ChildLocksBegin ==
  ASSUME ForkIInv, ChildLocks, NEW t \in Threads, ForkChild(t)
  PROVE  ChildLocks'
<1>1. /\ ForkTypeInv /\ pc[t] = "fork" /\ pc[t] \in ForkLabels
      /\ av'[t] = Null /\ start[t] = Null
      /\ \A u \in Threads : pc'[u] = IF u = t THEN "idle" ELSE "gone"
      /\ \A a \in Dynamic : mutex'[a] \in {mutex[a], Null}
      /\ UNCHANGED <<next, heaps, tsd, held, start, blk, save_arena>>
  <2>1. ForkTypeInv /\ pc[t] = "fork" /\ pc[t] \in ForkLabels
    BY DEF ForkIInv, ForkChild, At, ForkLabels
  <2>2. av'[t] = Null /\ start[t] = Null
    BY <2>1 DEF ForkChild, ForkTypeInv, ForkTypeOK, ForkPointers
  <2>3. \A a \in Dynamic : mutex'[a] \in {mutex[a], Null}
    BY DEF ForkChild, Locks, Arenas
  <2> QED BY <2>1, <2>2, <2>3 DEF ForkChild
<1>2. /\ \A a \in Dynamic : mutex[a] # Null => a \in heaps
      /\ blk[t] \in heaps \cup {Main, Null, Foreign}
      /\ \A a \in Arenas : /\ next[a] \in heaps \cup {Main, Null}
                           /\ held[a] > 0 => a \in heaps \cup {Main}
      /\ \A s \in Slots : tsd[s] \in heaps \cup {Main, Null, Atfork}
      /\ save_arena \in heaps \cup {Main, Null, Atfork}
  <2>1. CASE process = "parent"
    <3>1. P!ExistInv /\ P!WorkersLock /\ ParentInv
      BY <2>1 DEF ForkIInv, PlainInv, P!Inductive, P!TypeInv, P!ArenaInv
    <3>2. /\ \A a \in Arenas : /\ next[a] \in heaps \cup {Main, Null}
                               /\ held[a] > 0 => a \in heaps \cup {Main, Null}
          /\ \A s \in Slots : PlainTsd[s] \in heaps \cup {Main, Null}
          /\ blk[t] \in heaps \cup {Main, Null, Foreign}
      BY <3>1 DEF P!ExistInv, P!Arenas, Arenas
    <3>3. \A a \in Dynamic : mutex[a] # Null => a \in heaps
      BY <3>1 DEF P!WorkersLock, P!Public
    <3>4. tsd[SlotOf[t]] = Atfork /\ SlotOf[t] \in Slots
      BY <1>1, <3>1, ArenaAssumption DEF ParentInv
    <3>5. save_arena \in heaps \cup {Main, Null}
      BY <3>2, <3>4 DEF PlainTsd
    <3>6. \A s \in Slots : tsd[s] \in heaps \cup {Main, Null, Atfork}
      BY <3>2 DEF PlainTsd
    <3>7. Null \notin Arenas
      BY ArenaAssumption
    <3>8. \A a \in Arenas : /\ next[a] \in heaps \cup {Main, Null}
                           /\ held[a] > 0 => a \in heaps \cup {Main}
      BY <3>2, <3>7
    <3> QED BY <3>2, <3>3, <3>5, <3>6, <3>8
  <2>2. CASE process = "child"
    <3>1. WorksLocked(t)
      BY <1>1, <2>2 DEF ChildLocks
    <3> QED BY <3>1 DEF WorksLocked
  <2> QED BY <1>1, <2>1, <2>2 DEF ForkTypeInv, ForkTypeOK
<1>3. WorksLocked(t)'
  <2>1. pc'[t] \notin {"got"} \cup EngineLabels \cup BirthLabels
    BY <1>1 DEF EngineLabels, BirthLabels
  <2>2. \A a \in Dynamic : mutex'[a] # Null => a \in heaps
    BY <1>1, <1>2
  <2> QED BY <1>1, <1>2, <2>1, <2>2 DEF WorksLocked
<1> QED BY <1>1, <1>3 DEF ChildLocks

LEMMA ChildLocksStep ==
  ASSUME ForkIInv, ChildLocks, [ForkNext]_allvars
  PROVE  ChildLocks'
<1>1. CASE UNCHANGED allvars
  BY <1>1 DEF ChildLocks, WorksLocked, allvars, vars, shared, lookup, forkvars
<1>2. ASSUME NEW t \in Threads, ForkChild(t) PROVE ChildLocks'
  BY <1>2, ChildLocksBegin
<1>3. ASSUME NEW t \in Threads, StepOf(t) PROVE ChildLocks'
  <2>1. OnlyMine(t) /\ ForkTypeInv
    BY <1>3, StepMoves DEF ForkIInv
  <2> SUFFICES ASSUME process = "child", NEW u \in Threads, pc'[u] # "gone"
               PROVE  WorksLocked(u)'
    BY <2>1 DEF ChildLocks, OnlyMine
  <2>2. u = t
    BY <1>3, <2>1, NobodyElse DEF OnlyMine
  <2>3. Childlike(t)
    BY DEF ForkIInv, ChildInv, Childlike
  <2>4. pc[t] # "gone"
    BY <1>3, GoneStays
  <2>5. WorksLocked(t)
    BY <2>4 DEF ChildLocks
  <2>6. WorksLocked(t)'
    <3>1. CASE PlainWork(t)
      BY <2>1, <2>3, <2>5, <3>1, LockedEnter, LockedInitialise, LockedSearch, LockedCreate,
         LockedUse, LockedOwn DEF PlainWork, Work
    <3> QED BY <1>3, <2>1, <2>3, <2>5, <3>1, LockedCall, LockedForks, LockedPrepare,
               LockedParent, LockedAtforkWork DEF StepOf
  <2> QED BY <2>2, <2>6
<1> QED BY <1>1, <1>2, <1>3, ForkStepCases

\* Any step but these leaves every lock that is taken as it is.
Releases(t) ==
  \/ InitMain(t) \/ InitList(t) \/ DropList(t) \/ MutexInit(t) \/ ListUnlock(t)
  \/ Unlock(t) \/ UnlockFailed(t) \/ UnlockAllArena(t) \/ UnlockAllList(t) \/ LeaveList(t)

LEMMA LocksKept ==
  ASSUME ForkTypeInv, NEW t \in Threads, StepOf(t), ~Releases(t), NEW l \in Locks,
         mutex[l] # Null
  PROVE  mutex'[l] = mutex[l]
<1>1. mutex' = mutex \/ \E k : Take(t, k)
  BY SMT DEF StepOf, Releases, Unlocked, Crash, shared, Forks, Prepare, LockAllList,
     LockAllArena, LockAllNext, GoRound,
     LockAllHooks, LockAllTsd, Parent, ForkParent, UnlockAllTsd, UnlockAllHooks,
     UnlockAllArena, UnlockAllNext, UnlockAllList, AtforkWork, MallocAtfork, WaitList,
     LeaveList, FreeAtfork, LockChunkArena, GetMark, PlainWork, Call, At, Work,
     Enter, EnterPlain, EnterRealloc, EnterSmall, EnterIni, DropHook, EnterStarter,
     Initialise, InitCheck, InitClaim, InitMain, InitRing, InitList, InitTsd, InitDone,
     Search, GetTsd, TryDirect, Get2, LockMain, ScanTake, ScanBusy, ScanNext, ScanCrash,
     TryList, Create, DropList, NewArena, NewArenaFails, SetTsd, MutexInit, MutexLock,
     ListLock, LinkNext, LinkMain, ListUnlock, Use, GotNothing, RefuseMain, EngineEnter,
     EngineLeave, EngineFails, Unlock, UnlockFailed, Own, NotMine, LockOwner, TrimLock
<1>2. ASSUME NEW k, Take(t, k) PROVE mutex'[l] = mutex[l]
  BY <1>2 DEF Take, ForkTypeInv, ForkTypeOK
<1> QED BY <1>1, <1>2

\* A step that gives a lock back goes on to another place.
LEMMA ReleasersMove ==
  ASSUME ForkTypeInv, NEW t \in Threads, Releases(t)
  PROVE  pc'[t] # pc[t]
  BY SMT DEF Releases, InitMain, InitList, DropList, MutexInit, ListUnlock, Unlock,
     UnlockFailed, UnlockAllArena, UnlockAllList, LeaveList, At, Goto, Return, ForkTypeInv,
     ForkTypeOK

\* In the child the locks it gives back are its own.
LEMMA ChildReleases ==
  ASSUME ForkIInv, ChildLocks, process = "child", NEW t \in Threads, StepOf(t), Releases(t),
         NEW l \in Locks, mutex[l] # Null, mutex'[l] # mutex[l]
  PROVE  mutex[l] = t
<1>1. /\ ForkTypeInv /\ ChildInv /\ ListHeld /\ RoundAt(t) /\ Childlike(t) /\ WorksLocked(t)
  BY GoneStays DEF ForkIInv, ChildInv, ChildLocks, RoundInv, Childlike
<1>2. CASE InitMain(t) \/ InitList(t)
  BY <1>1, <1>2 DEF InitMain, InitList, At, Childlike, InitLabels
<1>3. CASE DropList(t) \/ ListUnlock(t) \/ UnlockAllList(t) \/ LeaveList(t)
  <2>1. mutex["list"] = t /\ mutex' = [mutex EXCEPT !["list"] = Null]
    BY <1>1, <1>3, SMT DEF DropList, ListUnlock, UnlockAllList, LeaveList, At, ListHeld,
       ForkLabels, ParentLabels
  <2> QED BY <1>1, <2>1 DEF ForkTypeInv, ForkTypeOK
<1>4. CASE MutexInit(t)
  <2>1. /\ pc[t] = "mutex_init" /\ mutex' = [mutex EXCEPT ![av[t]] = Null]
        /\ av[t] \in Dynamic
    BY <1>1, <1>4 DEF MutexInit, At, Childlike, BirthLabels
  <2>2. mutex[av[t]] = Null
    BY <1>1, <2>1 DEF WorksLocked, BirthLabels
  <2> QED BY <1>1, <2>1, <2>2 DEF ForkTypeInv, ForkTypeOK
<1>5. CASE Unlock(t) \/ UnlockFailed(t)
  <2>1. /\ pc[t] \in EngineLabels
        /\ mutex' = mutex \/ (mutex' = [mutex EXCEPT ![av[t]] = Null] /\ op[t] \notin Starting)
    <3>1. CASE Unlock(t)
      BY <3>1 DEF Unlock, At, EngineLabels, Starting
    <3>2. CASE UnlockFailed(t)
      BY <1>1, <3>2 DEF UnlockFailed, At, EngineLabels, Starting, WorksLocked
    <3> QED BY <1>5, <3>1, <3>2
  <2>2. av[t] # Null
    BY <1>1, <2>1 DEF ForkTypeInv, ForkPointers
  <2> QED BY <1>1, <2>1, <2>2 DEF ForkTypeInv, ForkTypeOK, WorksLocked
<1>6. CASE UnlockAllArena(t)
  <2>1. pc[t] = "unlock_arena" /\ (mutex' = mutex \/ mutex' = [mutex EXCEPT ![av[t]] = Null])
    BY <1>6 DEF UnlockAllArena, At
  <2>2. PICK D \in SUBSET OnRing : Upto(D, av[t])
    BY <1>1, <2>1 DEF RoundAt
  <2>3. av[t] \in OnRing
    BY <2>2, MainOnRing DEF Upto
  <2>4. mutex[av[t]] # Null => mutex[av[t]] = t
    <3> HAVE mutex[av[t]] # Null
    <3>1. av[t] \in Locks
      BY <2>3, MainOnRing DEF Locks
    <3>2. mutex[av[t]] \in Threads /\ pc[mutex[av[t]]] # "gone" /\ pc[t] # "gone"
      BY <1>1, <2>1, <2>3, <3>1 DEF ChildInv, ForkTypeInv, ForkTypeOK
    <3> QED BY <1>1, <3>2 DEF ChildInv
  <2> QED BY <1>1, <2>1, <2>4 DEF ForkTypeInv, ForkTypeOK
<1> QED BY <1>2, <1>3, <1>4, <1>5, <1>6 DEF Releases

\* So are the parent's.
LEMMA ParentReleases ==
  ASSUME P!Orderly, ForkIInv, process = "parent", NEW t \in Threads, StepOf(t), Releases(t),
         NEW l \in Locks, mutex[l] # Null, mutex'[l] # mutex[l]
  PROVE  mutex[l] = t
<1>1. ForkTypeInv /\ OneForks /\ ParentInv /\ PlainInv /\ ListHeld /\ RoundAt(t)
  BY DEF ForkIInv, RoundInv
<1>2. CASE PlainWork(t) \/ (Call(t) /\ UNCHANGED forkvars)
  BY <1>1, <1>2, PlainHolds DEF PlainWork
<1>3. CASE UnlockAllList(t) \/ LeaveList(t)
  <2>1. mutex["list"] = t /\ mutex' = [mutex EXCEPT !["list"] = Null]
    BY <1>1, <1>3, SMT DEF UnlockAllList, LeaveList, At, ListHeld, ForkLabels, ParentLabels
  <2> QED BY <1>1, <2>1 DEF ForkTypeInv, ForkTypeOK
<1>4. CASE UnlockAllArena(t)
  <2>1. /\ pc[t] = "unlock_arena"
        /\ mutex' = mutex \/ (mutex' = [mutex EXCEPT ![av[t]] = Null] /\ av[t] # Main)
    BY <1>4 DEF UnlockAllArena, At
  <2>2. PICK D \in SUBSET OnRing : LockedBy(t, (OnRing \ D) \cup {av[t]})
    BY <1>1, <2>1 DEF RoundAt
  <2> QED BY <1>1, <2>1, <2>2 DEF ForkTypeInv, ForkTypeOK, LockedBy
<1>5. Releases(t) => \/ UnlockAllList(t) \/ LeaveList(t) \/ UnlockAllArena(t)
                     \/ PlainWork(t) \/ (Call(t) /\ UNCHANGED forkvars)
  BY SMT DEF StepOf, Releases, Forks, Prepare, LockAllList, LockAllArena, LockAllNext, GoRound,
     LockAllHooks, LockAllTsd, Parent, ForkParent, UnlockAllTsd, UnlockAllHooks,
     UnlockAllArena, UnlockAllNext, UnlockAllList, AtforkWork, MallocAtfork, WaitList,
     LeaveList, FreeAtfork, LockChunkArena, GetMark, PlainWork, Call, At, Work,
     Enter, EnterPlain, EnterRealloc, EnterSmall, EnterIni, DropHook, EnterStarter,
     Initialise, InitCheck, InitClaim, InitMain, InitRing, InitList, InitTsd, InitDone,
     Search, GetTsd, TryDirect, Get2, LockMain, ScanTake, ScanBusy, ScanNext, ScanCrash,
     TryList, Create, DropList, NewArena, NewArenaFails, SetTsd, MutexInit, MutexLock,
     ListLock, LinkNext, LinkMain, ListUnlock, Use, GotNothing, RefuseMain, EngineEnter,
     EngineLeave, EngineFails, Unlock, UnlockFailed, Own, NotMine, LockOwner, TrimLock,
     ForkLabels, PrepareLabels, ParentLabels
<1> QED BY <1>2, <1>3, <1>4, <1>5

LEMMA ForkExcludes == ForkIInv => ArenaExclusive
<1> SUFFICES ASSUME ForkIInv, NEW t \in Threads, NEW u \in Threads, t # u,
                    pc[t] = "using", pc[u] = "using"
             PROVE  av[t] # av[u]
  BY DEF ArenaExclusive
<1>1. CASE process = "child"
  BY <1>1 DEF ForkIInv, ChildInv
<1>2. CASE process = "parent"
  <2>1. ASSUME NEW w \in Threads, pc[w] = "using" PROVE mutex[av[w]] = w
    <3>1. PlainPc[w] = "using" /\ PlainAv[w] = av[w]
      BY <2>1, SMT DEF PlainPc, PlainAv, ForkLabels, PrepareLabels, ParentLabels
    <3> QED BY <1>2, <3>1, SMT
            DEF ForkIInv, PlainInv, P!Inductive, P!ArenaInv, P!LockInv, P!EngineLabels
  <2> QED BY <2>1
<1> QED BY <1>1, <1>2 DEF ForkIInv, ForkTypeInv, ForkTypeOK

(* A fork takes no arena from who uses it: in the parent and in the child  *)
(* of an orderly program (distinct tsd slots, one first caller) no two     *)
(* threads are in the engine of one arena.                                 *)
THEOREM ForkExclusive ==
  ASSUME P!Orderly, IsFiniteSet(Dynamic)
  PROVE  ForkSpec => []ArenaExclusive
BY ForkHoldsTogether, ForkExcludes, PTL

LEMMA ChildKeepsOthers ==
  ASSUME ForkIInv, IsFiniteSet(Dynamic), NEW t \in Threads, ForkChild(t), NEW l \in Locks,
         mutex[l] # Null, mutex'[l] # mutex[l]
  PROVE  pc'[mutex[l]] # pc[mutex[l]]
<1>1. /\ ForkTypeInv /\ initialized = 1 /\ pc[t] = "fork" /\ mutex[l] \in Threads
      /\ \A u \in Threads : pc'[u] = IF u = t THEN "idle" ELSE "gone"
  <2>1. pc[t] = "fork" /\ pc[t] \in ForkLabels /\ ForkTypeInv
    BY DEF ForkIInv, ForkChild, At, ForkLabels
  <2>2. initialized = 1
    BY <2>1, ForksLater DEF ForkIInv
  <2> QED BY <2>1, <2>2 DEF ForkTypeInv, ForkTypeOK, ForkChild
<1>2. pc[mutex[l]] # "gone"
  <2>1. CASE process = "parent"
    BY <1>1, <2>1 DEF ForkIInv, ParentInv
  <2>2. CASE process = "child"
    <3>1. NeverEnds
      BY <2>2 DEF ForkIInv, ChildInv
    <3>2. {Walk[n] : n \in 0..Cardinality(Arenas)} = OnRing
      BY <1>1, <3>1, WalkIsRing
    <3>3. l \in OnRing \cup {"list"}
      <4>1. mutex'[l] = IF l \in {Walk[n] : n \in 0..Cardinality(Arenas)} \cup {"list"}
                          THEN Null ELSE mutex[l]
        BY DEF ForkChild
      <4> QED BY <3>2, <4>1
    <3> QED BY <2>2, <3>3 DEF ForkIInv, ChildInv
  <2> QED BY <1>1, <2>1, <2>2 DEF ForkTypeInv, ForkTypeOK
<1> QED BY <1>1, <1>2

LEMMA ForkReleasesStep ==
  ASSUME P!Orderly, IsFiniteSet(Dynamic), ForkIInv, ChildLocks, [ForkNext]_allvars,
         NEW l \in Locks, mutex[l] # Null, mutex'[l] # mutex[l]
  PROVE  pc'[mutex[l]] # pc[mutex[l]]
<1>1. CASE UNCHANGED allvars
  BY <1>1 DEF allvars, vars, shared
<1>2. ASSUME NEW t \in Threads, ForkChild(t) PROVE pc'[mutex[l]] # pc[mutex[l]]
  BY <1>2, ChildKeepsOthers
<1>3. ASSUME NEW t \in Threads, StepOf(t) PROVE pc'[mutex[l]] # pc[mutex[l]]
  <2>1. Releases(t)
    BY <1>3, LocksKept DEF ForkIInv
  <2>2. process \in {"parent", "child"} /\ ForkTypeInv
    BY DEF ForkIInv, ForkTypeInv, ForkTypeOK
  <2>3. mutex[l] = t
    BY <1>3, <2>1, <2>2, ParentReleases, ChildReleases
  <2> QED BY <2>1, <2>2, <2>3, ReleasersMove
<1> QED BY <1>1, <1>2, <1>3, ForkStepCases

(* In an orderly program (distinct tsd slots, one first caller) that       *)
(* forks, too, a taken lock is given back only by a step of the thread     *)
(* that took it, or in the child, where nobody else is left, by the step   *)
(* that initialises the locks anew.                                        *)
THEOREM ForkReleases ==
  ASSUME P!Orderly, IsFiniteSet(Dynamic)
  PROVE  ForkSpec => OnlyHolderReleases
<1>1. ForkInit => ChildLocks
  BY DEF ForkInit, ChildLocks
<1>2. ForkIInv /\ ChildLocks /\ [ForkNext]_allvars => ChildLocks'
  BY ChildLocksStep
<1>3. ForkIInv /\ ChildLocks /\ [ForkNext]_allvars
        => [\A l \in Locks : mutex[l] # Null /\ mutex'[l] # mutex[l]
                               => pc'[mutex[l]] # pc[mutex[l]]]_vars
  BY ForkReleasesStep
<1> QED BY ForkHoldsTogether, <1>1, <1>2, <1>3, PTL DEF ForkSpec, OnlyHolderReleases

----------------------------------------------------------------------------
(* The invariant the run checks.                                           *)

LEMMA SameInvariants ==
  ASSUME PlainInv
  PROVE  Plain!Inductive /\ Plain!ListInv /\ Plain!ChainLinks /\ Plain!RingLinks
<1> USE DEF P!InitLabels, Plain!InitLabels, P!SearchLabels, Plain!SearchLabels,
    P!BirthLabels, Plain!BirthLabels, P!LinkLabels, Plain!LinkLabels, P!EngineLabels,
    Plain!EngineLabels, P!Arenas, Plain!Arenas, P!Locks, Plain!Locks, P!Hooks, Plain!Hooks,
    P!AllOps, Plain!AllOps, P!AllocOps, Plain!AllocOps, P!Labels, Plain!Labels
<1>1. P!TypeOK => Plain!TypeOK
  BY DEF P!TypeOK, Plain!TypeOK
<1>2. P!PointerInv => Plain!PointerInv
  BY DEF P!PointerInv, Plain!PointerInv
<1>3. P!ExistInv => Plain!ExistInv
  BY DEF P!ExistInv, Plain!ExistInv
<1>4. P!BootInv => Plain!BootInv
  BY DEF P!BootInv, Plain!BootInv, P!PlainOps, Plain!PlainOps
<1>5. P!MainInv => Plain!MainInv
  BY DEF P!MainInv, Plain!MainInv
<1>6. P!SharedRefsKnown => Plain!SharedRefsKnown
  BY DEF P!SharedRefsKnown, Plain!SharedRefsKnown, P!Known, Plain!Known, P!Public, Plain!Public
<1>7. P!TsdKnown => Plain!TsdKnown
  BY DEF P!TsdKnown, Plain!TsdKnown, P!Known, Plain!Known, P!Public, Plain!Public
<1>8. P!LocalsKnown => Plain!LocalsKnown
  BY DEF P!LocalsKnown, Plain!LocalsKnown, P!Known, Plain!Known, P!Public, Plain!Public
<1>9. P!OneCreator => Plain!OneCreator
  BY DEF P!OneCreator, Plain!OneCreator
<1>10. P!WorkersLock => Plain!WorkersLock
  BY DEF P!WorkersLock, Plain!WorkersLock, P!Public, Plain!Public
<1>11. P!LockInv => Plain!LockInv
  BY DEF P!LockInv, Plain!LockInv
<1>12. P!CallInv => Plain!CallInv
  BY DEF P!CallInv, Plain!CallInv
<1>13. P!ListInv => Plain!ListInv
  BY DEF P!ListInv, Plain!ListInv
<1>14. P!RingLinks => Plain!RingLinks
  BY DEF P!RingLinks, Plain!RingLinks, P!Onward, Plain!Onward, P!Creating, Plain!Creating
<1>15. P!ChainLinks => Plain!ChainLinks
  BY DEF P!ChainLinks, Plain!ChainLinks
<1>16. P!TypeInv => Plain!TypeInv
  BY <1>1, <1>2, <1>3 DEF P!TypeInv, Plain!TypeInv
<1>17. P!PublishInv => Plain!PublishInv
  BY <1>6, <1>7, <1>8, <1>9 DEF P!PublishInv, Plain!PublishInv
<1>18. P!ArenaInv => Plain!ArenaInv
  BY <1>17, <1>4, <1>5, <1>10, <1>11, <1>12
     DEF P!ArenaInv, Plain!ArenaInv
<1> QED BY <1>16, <1>18, <1>13, <1>14, <1>15
        DEF PlainInv, P!Inductive, Plain!Inductive, P!RingInv, P!ChainInv

(* The parts of the invariant TLC can evaluate, in every state of an       *)
(* orderly program (distinct tsd slots, one first caller) that forks:      *)
(* arena_orderly checks them.                                              *)
THEOREM ForkInvariantHolds ==
  ASSUME P!Orderly, IsFiniteSet(Dynamic)
  PROVE  ForkSpec => []ForkInductive
<1>1. ForkIInv => ForkInductive
  BY SameInvariants DEF ForkIInv, ForkInductive
<1> QED BY ForkHoldsTogether, <1>1, PTL
=============================================================================
