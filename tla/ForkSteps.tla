----------------------------- MODULE ForkSteps ------------------------------
(***************************************************************************)
(* What one step of a program that forks does, for any number of threads   *)
(* and arenas: how it looks to Arena with the fork left out, which types,  *)
(* which owner of the list's lock and which round over the ring it keeps.  *)
(***************************************************************************)
EXTENDS ForkInvariant, Iteration

\* The arena layer's proofs, of the parent with the fork left out.
P == INSTANCE ArenaProofs WITH
       pc <- PlainPc, av <- PlainAv, tsd <- PlainTsd, hook <- PlainHook

PlainInv == P!Inductive /\ P!ListInv /\ P!RingInv /\ P!ChainInv

\* ForkInductive, and the orders of the ring that cannot be looked at.
ForkIInv ==
  /\ ForkTypeInv /\ OneForks /\ ListHeld /\ RoundInv
  /\ process = "parent" => ParentInv /\ PlainInv
  /\ process = "child" => ChildInv

----------------------------------------------------------------------------
(* What the parent looks like with the fork left out.                      *)

LEMMA PlainAlive == ASSUME ForkTypeInv PROVE P!Alive <=> Alive
  BY SMT DEF P!Alive, Alive, PlainPc, ForkLabels, PrepareLabels, ParentLabels

LEMMA PlainAt ==
  ASSUME ForkTypeInv, NEW t \in Threads, NEW l \in Labels, At(t, l)
  PROVE  P!At(t, l) /\ pc[t] = l /\ PlainPc[t] = l /\ PlainAv[t] = av[t]
<1>1. pc[t] \notin ForkLabels \cup WaitLabels
  BY SMT DEF At, Labels, InitLabels, SearchLabels, BirthLabels, LinkLabels, EngineLabels,
             WaitLabels, ForkLabels, PrepareLabels, ParentLabels
<1> QED BY <1>1, PlainAlive, SMT DEF At, P!At, PlainPc, PlainAv, WaitLabels

LEMMA PlainGoto ==
  ASSUME ForkTypeInv, NEW t \in Threads, NEW l \in Labels, Goto(t, l)
  PROVE  P!Goto(t, l)
<1>1. l \notin ForkLabels \cup WaitLabels
  BY SMT DEF Labels, InitLabels, SearchLabels, BirthLabels, LinkLabels, EngineLabels,
             WaitLabels, ForkLabels, PrepareLabels, ParentLabels
<1>2. pc \in [Threads -> Labels \cup ForkLabels \cup WaitLabels \cup {"gone"}]
      /\ pc' = [pc EXCEPT ![t] = l]
  BY DEF Goto, ForkTypeInv, ForkTypeOK
<1>3. ASSUME NEW u \in Threads
      PROVE  pc'[u] = IF u = t THEN l ELSE pc[u]
  BY <1>2
<1>4. ASSUME NEW u \in Threads
      PROVE  PlainPc'[u] = IF u = t THEN l ELSE PlainPc[u]
  BY <1>1, <1>3, SMT DEF PlainPc, WaitLabels
<1>5. PlainPc' = [u \in Threads |-> PlainPc'[u]] /\ PlainPc = [u \in Threads |-> PlainPc[u]]
  BY SMT DEF PlainPc
<1> HIDE DEF PlainPc
<1> QED BY <1>4, <1>5, SMT DEF P!Goto

LEMMA PlainAvStays ==
  ASSUME ForkTypeInv, NEW t \in Threads, NEW l \in Labels, pc[t] \in Labels,
         Goto(t, l), av' = av
  PROVE  PlainAv' = PlainAv
<1>1. l \notin ForkLabels /\ pc[t] \notin ForkLabels
  BY SMT DEF Labels, InitLabels, SearchLabels, BirthLabels, LinkLabels, EngineLabels,
             ForkLabels, PrepareLabels, ParentLabels
<1> QED BY <1>1, SMT DEF Goto, PlainAv, ForkTypeInv, ForkTypeOK

LEMMA PlainAvMoves ==
  ASSUME ForkTypeInv, NEW t \in Threads, NEW l \in Labels, pc[t] \in Labels,
         Goto(t, l), NEW a, av' = [av EXCEPT ![t] = a]
  PROVE  PlainAv' = [PlainAv EXCEPT ![t] = a]
<1>1. l \notin ForkLabels /\ pc[t] \notin ForkLabels
  BY SMT DEF Labels, InitLabels, SearchLabels, BirthLabels, LinkLabels, EngineLabels,
             ForkLabels, PrepareLabels, ParentLabels
<1>2. ASSUME NEW u \in Threads
      PROVE  PlainAv'[u] = IF u = t THEN a ELSE PlainAv[u]
  BY <1>1, SMT DEF Goto, PlainAv, ForkTypeInv, ForkTypeOK
<1>3. PlainAv' = [u \in Threads |-> PlainAv'[u]] /\ PlainAv = [u \in Threads |-> PlainAv[u]]
  BY SMT DEF PlainAv
<1> HIDE DEF PlainAv
<1> QED BY <1>2, <1>3, SMT

LEMMA PlainRemember ==
  ASSUME ForkTypeInv, NEW t \in Threads, NEW a \in Arenas, tsd[SlotOf[t]] # Atfork,
         Remember(t, a), save_arena' = save_arena
  PROVE  P!Remember(t, a)
<1>1. a # Atfork
  BY ForkAssumption
<1>2. ASSUME NEW s \in Slots
      PROVE  PlainTsd'[s] = IF s = SlotOf[t] THEN a ELSE PlainTsd[s]
  BY <1>1, ArenaAssumption, SMT DEF Remember, PlainTsd, ForkTypeInv, ForkTypeOK
<1>3. PlainTsd' = [s \in Slots |-> PlainTsd'[s]] /\ PlainTsd = [s \in Slots |-> PlainTsd[s]]
  BY SMT DEF PlainTsd
<1> HIDE DEF PlainTsd
<1> QED BY <1>2, <1>3, SMT DEF P!Remember

LEMMA PlainShared ==
  /\ tsd' = tsd /\ save_arena' = save_arena => PlainTsd' = PlainTsd
  /\ hook' = hook /\ saved' = saved => PlainHook' = PlainHook
  BY DEF PlainTsd, PlainHook

LEMMA PlainMoves ==
  ASSUME ForkTypeInv, NEW t \in Threads, pc[t] \in Labels, pc'[t] \in Labels,
         pc' = [pc EXCEPT ![t] = pc'[t]]
  PROVE  /\ PlainPc' = [PlainPc EXCEPT ![t] = pc'[t]]
         /\ av' = av => PlainAv' = PlainAv
         /\ av' = [av EXCEPT ![t] = av'[t]] => PlainAv' = [PlainAv EXCEPT ![t] = av'[t]]
<1> DEFINE m == pc'[t]
<1>1. m \in Labels /\ Goto(t, m)
  BY DEF Goto
<1> HIDE DEF m
<1>2. P!Goto(t, m)
  BY <1>1, PlainGoto
<1>3. av' = av => PlainAv' = PlainAv
  BY <1>1, PlainAvStays
<1>4. av' = [av EXCEPT ![t] = av'[t]] => PlainAv' = [PlainAv EXCEPT ![t] = av'[t]]
  BY <1>1, PlainAvMoves
<1> QED BY <1>2, <1>3, <1>4 DEF P!Goto, m

\* The return of a call.
LEMMA PlainReturn ==
  ASSUME ForkTypeInv, NEW t \in Threads, pc[t] \in Labels, NEW b, Return(t, b)
  PROVE  P!Return(t, b)
<1>1. "idle" \in Labels /\ Goto(t, "idle") /\ av' = [av EXCEPT ![t] = Null]
  BY DEF Labels, Return
<1>2. P!Goto(t, "idle") /\ PlainAv' = [PlainAv EXCEPT ![t] = Null]
  BY <1>1, PlainGoto, PlainAvMoves
<1> QED BY <1>2 DEF Return, P!Return, P!Arenas, Arenas

LEMMA PlainCrash ==
  ASSUME ForkTypeInv, NEW t \in Threads, pc[t] \in Labels, Crash(t), UNCHANGED forkvars
  PROVE  P!Crash(t)
<1>1. "crashed" \in Labels /\ Goto(t, "crashed") /\ av' = av
  BY DEF Labels, Crash, lookup
<1>2. P!Goto(t, "crashed") /\ PlainAv' = PlainAv
  BY <1>1, PlainGoto, PlainAvStays
<1> QED BY <1>2, PlainShared DEF Crash, P!Crash, shared, lookup, P!shared, P!lookup, forkvars

LEMMA PlainEnter ==
  ASSUME P!DistinctSlots, ForkTypeInv, OneForks, ParentInv, PlainInv, NEW t \in Threads,
         Enter(t), UNCHANGED forkvars, tsd[SlotOf[t]] # Atfork
  PROVE  P!Enter(t)
<1> USE PlainShared, ArenaAssumption DEF forkvars, shared, lookup, inits, P!shared, P!lookup,
        P!inits, Take, P!Take
<1>0. /\ DOMAIN pc = Threads /\ DOMAIN av = Threads /\ DOMAIN tsd = Slots
      /\ pc[t] \in {"scan", "next", "set_tsd"} => av[t] \in Arenas
  BY SMT DEF ForkTypeInv, ForkTypeOK, ForkPointers, BirthLabels
<1> USE <1>0
<1>1. ASSUME EnterPlain(t) PROVE P!EnterPlain(t)
  <2>1. At(t, "enter") /\ "enter" \in Labels
    BY <1>1 DEF EnterPlain, Labels, InitLabels, SearchLabels, BirthLabels, LinkLabels,
       EngineLabels
  <2>2. P!At(t, "enter") /\ PlainAv[t] = av[t] /\ pc[t] = "enter" /\ pc[t] \in Labels
        /\ PlainPc[t] = pc[t]
    BY <2>1, PlainAt
  <2>3. pc' = [pc EXCEPT ![t] = pc'[t]] /\ pc'[t] \in Labels
    BY <1>1, SMT DEF EnterPlain, Goto, Labels, InitLabels, SearchLabels,
           BirthLabels, LinkLabels, EngineLabels
  <2>4. PlainPc' = [PlainPc EXCEPT ![t] = pc'[t]]
    BY <2>2, <2>3, PlainMoves
  <2>5. (av' = av => PlainAv' = PlainAv)
        /\ (av' = [av EXCEPT ![t] = av'[t]] => PlainAv' = [PlainAv EXCEPT ![t] = av'[t]])
    BY <2>2, <2>3, PlainMoves
  <2>6. P!HookOf(op[t]) = HookOf(op[t]) /\ P!Hooks = Hooks
    BY DEF P!HookOf, HookOf, P!Hooks, Hooks
  <2>7. \A h \in Hooks : hook[h] # "atfork" => PlainHook[h] = hook[h]
    BY SMT DEF PlainHook
  <2>8. P!HookOf(op[t]) \in P!Hooks => PlainHook[P!HookOf(op[t])] = "none"
    BY <1>1, <2>6, <2>7, SMT DEF EnterPlain
  <2>9. UNCHANGED <<P!shared, held, op, calls, P!lookup, blk>>
    BY <1>1, <2>5 DEF EnterPlain
  <2>10. PICK m \in Labels : pc' = [pc EXCEPT ![t] = m] /\ P!Goto(t, m)
           /\ \/ op[t] \in {"malloc", "calloc", "memalign", "icalloc"} /\ m = "get"
              \/ op[t] \in {"valloc", "pvalloc"}
                   /\ m = IF initialized < 0 THEN "check" ELSE "get"
              \/ op[t] \in {"free", "realloc"} /\ blk[t] # Null /\ m = "owner"
              \/ op[t] = "trim" /\ m = "trim"
    <3>1. pc'[t] \in Labels /\ pc' = [pc EXCEPT ![t] = pc'[t]] /\ P!Goto(t, pc'[t])
      BY <2>3, <2>4 DEF P!Goto
    <3>2. \/ op[t] \in {"malloc", "calloc", "memalign", "icalloc"} /\ pc'[t] = "get"
          \/ op[t] \in {"valloc", "pvalloc"}
               /\ pc'[t] = IF initialized < 0 THEN "check" ELSE "get"
          \/ op[t] \in {"free", "realloc"} /\ blk[t] # Null /\ pc'[t] = "owner"
          \/ op[t] = "trim" /\ pc'[t] = "trim"
      BY <1>1, SMT DEF EnterPlain, Goto
    <3> DEFINE m == pc'[t]
    <3> HIDE DEF m
    <3>3. m \in Labels /\ pc' = [pc EXCEPT ![t] = m] /\ P!Goto(t, m)
      BY <3>1 DEF m
    <3> QED BY <3>2, <3>3 DEF m
  <2> QED BY <2>2, <2>8, <2>9, <2>10 DEF P!EnterPlain
<1>2. ASSUME EnterRealloc(t) PROVE P!EnterRealloc(t)
  <2>1. At(t, "enter") /\ "enter" \in Labels
    BY <1>2 DEF EnterRealloc, Labels, InitLabels, SearchLabels, BirthLabels, LinkLabels,
       EngineLabels
  <2>2. P!At(t, "enter") /\ PlainAv[t] = av[t] /\ pc[t] = "enter" /\ pc[t] \in Labels
        /\ PlainPc[t] = pc[t]
    BY <2>1, PlainAt
  <2>3. pc' = pc /\ pc' = [pc EXCEPT ![t] = pc'[t]] /\ pc'[t] \in Labels
    BY <1>2, <2>2, SMT DEF EnterRealloc, Goto, Labels, InitLabels, SearchLabels,
           BirthLabels, LinkLabels, EngineLabels, ForkTypeInv, ForkTypeOK
  <2>4. PlainPc' = [PlainPc EXCEPT ![t] = pc'[t]]
    BY <2>2, <2>3, PlainMoves
  <2>5. (av' = av => PlainAv' = PlainAv)
        /\ (av' = [av EXCEPT ![t] = av'[t]] => PlainAv' = [PlainAv EXCEPT ![t] = av'[t]])
    BY <2>2, <2>3, PlainMoves
  <2>6. P!HookOf(op[t]) = HookOf(op[t]) /\ P!Hooks = Hooks
    BY DEF P!HookOf, HookOf, P!Hooks, Hooks
  <2>7. \A h \in Hooks : hook[h] # "atfork" => PlainHook[h] = hook[h]
    BY SMT DEF PlainHook
  <2>8. PlainHook["realloc"] = "none"
    BY <1>2, <2>7, SMT DEF EnterRealloc, Hooks
  <2>9. UNCHANGED <<P!shared, held, PlainPc, calls, P!lookup, blk>>
    BY <1>2 DEF EnterRealloc, PlainPc, PlainAv
  <2> QED BY <1>2, <2>2, <2>8, <2>9 DEF EnterRealloc, P!EnterRealloc
<1>s. ASSUME EnterSmall(t) PROVE P!EnterSmall(t)
  <2>1. At(t, "enter") /\ "enter" \in Labels
    BY <1>s DEF EnterSmall, Labels, InitLabels, SearchLabels, BirthLabels, LinkLabels,
       EngineLabels
  <2>2. P!At(t, "enter") /\ PlainAv[t] = av[t] /\ pc[t] = "enter" /\ pc[t] \in Labels
        /\ PlainPc[t] = pc[t]
    BY <2>1, PlainAt
  <2>3. pc' = pc /\ pc' = [pc EXCEPT ![t] = pc'[t]] /\ pc'[t] \in Labels
    BY <1>s, <2>2, SMT DEF EnterSmall, Goto, Labels, InitLabels, SearchLabels,
           BirthLabels, LinkLabels, EngineLabels, ForkTypeInv, ForkTypeOK
  <2>4. PlainPc' = [PlainPc EXCEPT ![t] = pc'[t]]
    BY <2>2, <2>3, PlainMoves
  <2>5. (av' = av => PlainAv' = PlainAv)
        /\ (av' = [av EXCEPT ![t] = av'[t]] => PlainAv' = [PlainAv EXCEPT ![t] = av'[t]])
    BY <2>2, <2>3, PlainMoves
  <2>6. P!HookOf(op[t]) = HookOf(op[t]) /\ P!Hooks = Hooks
    BY DEF P!HookOf, HookOf, P!Hooks, Hooks
  <2>7. \A h \in Hooks : hook[h] # "atfork" => PlainHook[h] = hook[h]
    BY SMT DEF PlainHook
  <2>8. PlainHook["memalign"] = "none"
    BY <1>s, <2>7, SMT DEF EnterSmall, Hooks
  <2>9. UNCHANGED <<P!shared, held, PlainPc, calls, P!lookup, blk>>
    BY <1>s DEF EnterSmall, PlainPc, PlainAv
  <2> QED BY <1>s, <2>2, <2>8, <2>9 DEF EnterSmall, P!EnterSmall
<1>3. ASSUME EnterIni(t) PROVE P!EnterIni(t)
  <2>1. At(t, "enter") /\ "enter" \in Labels
    BY <1>3 DEF EnterIni, Labels, InitLabels, SearchLabels, BirthLabels, LinkLabels,
       EngineLabels
  <2>2. P!At(t, "enter") /\ PlainAv[t] = av[t] /\ pc[t] = "enter" /\ pc[t] \in Labels
        /\ PlainPc[t] = pc[t]
    BY <2>1, PlainAt
  <2>3. pc' = [pc EXCEPT ![t] = pc'[t]] /\ pc'[t] \in Labels
    BY <1>3, SMT DEF EnterIni, Goto, Labels, InitLabels, SearchLabels,
           BirthLabels, LinkLabels, EngineLabels
  <2>4. PlainPc' = [PlainPc EXCEPT ![t] = pc'[t]]
    BY <2>2, <2>3, PlainMoves
  <2>5. (av' = av => PlainAv' = PlainAv)
        /\ (av' = [av EXCEPT ![t] = av'[t]] => PlainAv' = [PlainAv EXCEPT ![t] = av'[t]])
    BY <2>2, <2>3, PlainMoves
  <2>6. P!HookOf(op[t]) = HookOf(op[t]) /\ P!Hooks = Hooks
    BY DEF P!HookOf, HookOf, P!Hooks, Hooks
  <2>7. \A h \in Hooks : hook[h] # "atfork" => PlainHook[h] = hook[h]
    BY SMT DEF PlainHook
  <2>8. P!HookOf(op[t]) \in P!Hooks /\ PlainHook[P!HookOf(op[t])] = "ini"
    BY <1>3, <2>6, <2>7, SMT DEF EnterIni
  <2>9. UNCHANGED <<P!shared, held, op, calls, P!lookup, blk>> /\ P!Goto(t, "drop_hook")
    BY <1>3, <2>3, <2>4, <2>5, SMT DEF EnterIni, Goto, P!Goto
  <2> QED BY <2>2, <2>8, <2>9 DEF P!EnterIni
<1>4. ASSUME DropHook(t) PROVE P!DropHook(t)
  <2>1. At(t, "drop_hook") /\ "drop_hook" \in Labels
    BY <1>4 DEF DropHook, Labels, InitLabels, SearchLabels, BirthLabels, LinkLabels,
       EngineLabels
  <2>2. P!At(t, "drop_hook") /\ PlainAv[t] = av[t] /\ pc[t] = "drop_hook"
        /\ pc[t] \in Labels /\ PlainPc[t] = pc[t]
    BY <2>1, PlainAt
  <2>3. pc' = [pc EXCEPT ![t] = pc'[t]] /\ pc'[t] \in Labels
    BY <1>4, SMT DEF DropHook, Goto, Labels, InitLabels, SearchLabels,
           BirthLabels, LinkLabels, EngineLabels
  <2>4. PlainPc' = [PlainPc EXCEPT ![t] = pc'[t]]
    BY <2>2, <2>3, PlainMoves
  <2>5. (av' = av => PlainAv' = PlainAv)
        /\ (av' = [av EXCEPT ![t] = av'[t]] => PlainAv' = [PlainAv EXCEPT ![t] = av'[t]])
    BY <2>2, <2>3, PlainMoves
  <2>6. P!HookOf(op[t]) = HookOf(op[t]) /\ P!Hooks = Hooks
    BY DEF P!HookOf, HookOf, P!Hooks, Hooks
  <2>7. \A h \in Hooks : hook[h] # "atfork" => PlainHook[h] = hook[h]
    BY SMT DEF PlainHook
  <2>8. PlainHook' = [h \in Hooks |->
           IF h = HookOf(op[t]) \/ (h = "malloc" /\ op[t] = "realloc")
           THEN "none" ELSE PlainHook[h]]
    <3>1. ASSUME NEW h \in Hooks
          PROVE  PlainHook'[h] = IF h = HookOf(op[t]) \/ (h = "malloc" /\ op[t] = "realloc")
                                THEN "none" ELSE PlainHook[h]
      BY <1>4, SMT DEF DropHook, PlainHook
    <3>2. PlainHook' = [h \in Hooks |-> PlainHook'[h]]
      BY SMT DEF PlainHook
    <3> QED BY <3>1, <3>2
  <2>9. UNCHANGED <<initialized, saved, mutex, next, heaps, PlainTsd, used, held,
                    calls, P!lookup, blk>> /\ P!Goto(t, "check")
    BY <1>4, <2>3, <2>4, <2>5, SMT DEF DropHook, Goto, P!Goto
  <2> QED BY <1>4, <2>2, <2>6, <2>8, <2>9 DEF DropHook, P!DropHook
<1>5. ASSUME EnterStarter(t) PROVE P!EnterStarter(t)
  <2>1. At(t, "enter") /\ "enter" \in Labels
    BY <1>5 DEF EnterStarter, Labels, InitLabels, SearchLabels, BirthLabels, LinkLabels,
       EngineLabels
  <2>2. P!At(t, "enter") /\ PlainAv[t] = av[t] /\ pc[t] = "enter" /\ pc[t] \in Labels
        /\ PlainPc[t] = pc[t]
    BY <2>1, PlainAt
  <2>3. pc' = [pc EXCEPT ![t] = pc'[t]] /\ pc'[t] \in Labels
    BY <1>5, SMT DEF EnterStarter, Goto, Labels, InitLabels, SearchLabels,
           BirthLabels, LinkLabels, EngineLabels
  <2>4. PlainPc' = [PlainPc EXCEPT ![t] = pc'[t]]
    BY <2>2, <2>3, PlainMoves
  <2>5. (av' = av => PlainAv' = PlainAv)
        /\ (av' = [av EXCEPT ![t] = av'[t]] => PlainAv' = [PlainAv EXCEPT ![t] = av'[t]])
    BY <2>2, <2>3, PlainMoves
  <2>6. P!HookOf(op[t]) = HookOf(op[t]) /\ P!Hooks = Hooks
    BY DEF P!HookOf, HookOf, P!Hooks, Hooks
  <2>7. \A h \in Hooks : hook[h] # "atfork" => PlainHook[h] = hook[h]
    BY SMT DEF PlainHook
  <2>8. P!HookOf(op[t]) \in P!Hooks /\ PlainHook[P!HookOf(op[t])] = "starter"
    BY <1>5, <2>6, <2>7, SMT DEF EnterStarter
  <2>9. UNCHANGED <<P!shared, held, calls, start, old, blk>> /\ P!Goto(t, "got")
        /\ PlainAv' = [PlainAv EXCEPT ![t] = Main]
    BY <1>5, <2>3, <2>4, <2>5, SMT DEF EnterStarter, Goto, P!Goto
  <2> QED BY <1>5, <2>2, <2>8, <2>9 DEF EnterStarter, P!EnterStarter
<1> QED BY <1>1, <1>2, <1>s, <1>3, <1>4, <1>5 DEF Enter, P!Enter

LEMMA PlainInitialise ==
  ASSUME P!DistinctSlots, ForkTypeInv, OneForks, ParentInv, PlainInv, NEW t \in Threads,
         Initialise(t), UNCHANGED forkvars, tsd[SlotOf[t]] # Atfork
  PROVE  P!Initialise(t)
<1> USE PlainShared, ArenaAssumption DEF forkvars, shared, lookup, inits, P!shared, P!lookup,
        P!inits, Take, P!Take
<1>0. /\ DOMAIN pc = Threads /\ DOMAIN av = Threads /\ DOMAIN tsd = Slots
      /\ pc[t] \in {"scan", "next", "set_tsd"} => av[t] \in Arenas
  BY SMT DEF ForkTypeInv, ForkTypeOK, ForkPointers, BirthLabels
<1> USE <1>0
<1>00. pc[t] \in {"claim"} \cup InitLabels
        => /\ \A h \in Hooks : hook[h] # "atfork" /\ saved[h] # "atfork"
           /\ \A s \in Slots : tsd[s] # Atfork
  <2> SUFFICES ASSUME pc[t] \in {"claim"} \cup InitLabels
               PROVE  /\ \A h \in Hooks : hook[h] # "atfork" /\ saved[h] # "atfork"
                      /\ \A s \in Slots : tsd[s] # Atfork
    OBVIOUS
  <2>1. PlainPc[t] = pc[t]
    BY SMT DEF PlainPc, ForkLabels, PrepareLabels, ParentLabels, InitLabels
  <2>2. initialized # 1
    BY <2>1, SMT DEF PlainInv, P!Inductive, P!ArenaInv, P!BootInv, P!InitLabels, InitLabels
  <2>3. \A u \in Threads : pc[u] \notin {"fork_tsd", "fork", "unlock_tsd", "unlock_hooks"}
    BY <2>2, SMT DEF OneForks, Labels, InitLabels, SearchLabels, BirthLabels, LinkLabels,
                     EngineLabels
  <2> QED BY <2>3, SMT DEF ParentInv
<1>1. ASSUME InitCheck(t) PROVE P!InitCheck(t)
  <2>1. At(t, "check") /\ "check" \in Labels
    BY <1>1 DEF InitCheck, Labels, InitLabels, SearchLabels, BirthLabels, LinkLabels,
       EngineLabels
  <2>2. P!At(t, "check") /\ PlainAv[t] = av[t] /\ pc[t] = "check" /\ pc[t] \in Labels
        /\ PlainPc[t] = pc[t]
    BY <2>1, PlainAt
  <2>3. pc' = [pc EXCEPT ![t] = pc'[t]] /\ pc'[t] \in Labels
    BY <1>1, SMT DEF InitCheck, Goto, Labels, InitLabels, SearchLabels,
           BirthLabels, LinkLabels, EngineLabels
  <2>4. PlainPc' = [PlainPc EXCEPT ![t] = pc'[t]]
    BY <2>2, <2>3, PlainMoves
  <2>5. (av' = av => PlainAv' = PlainAv)
        /\ (av' = [av EXCEPT ![t] = av'[t]] => PlainAv' = [PlainAv EXCEPT ![t] = av'[t]])
    BY <2>2, <2>3, PlainMoves
  <2> QED BY <1>1, <2>2, <2>3, <2>4, <2>5, SMT DEF InitCheck, P!InitCheck, Goto, P!Goto
<1>2. ASSUME InitClaim(t) PROVE P!InitClaim(t)
  <2>1. At(t, "claim") /\ "claim" \in Labels
    BY <1>2 DEF InitClaim, Labels, InitLabels, SearchLabels, BirthLabels, LinkLabels,
       EngineLabels
  <2>2. P!At(t, "claim") /\ PlainAv[t] = av[t] /\ pc[t] = "claim" /\ pc[t] \in Labels
        /\ PlainPc[t] = pc[t]
    BY <2>1, PlainAt
  <2>3. pc' = [pc EXCEPT ![t] = pc'[t]] /\ pc'[t] \in Labels
    BY <1>2, SMT DEF InitClaim, Goto, Labels, InitLabels, SearchLabels,
           BirthLabels, LinkLabels, EngineLabels
  <2>4. PlainPc' = [PlainPc EXCEPT ![t] = pc'[t]]
    BY <2>2, <2>3, PlainMoves
  <2>5. (av' = av => PlainAv' = PlainAv)
        /\ (av' = [av EXCEPT ![t] = av'[t]] => PlainAv' = [PlainAv EXCEPT ![t] = av'[t]])
    BY <2>2, <2>3, PlainMoves
  <2>6. PlainHook = hook
    BY <1>00, <2>2, SMT DEF PlainHook, ForkTypeInv, ForkTypeOK
  <2>7. PlainHook' = [h \in Hooks |-> IF h = "realloc" THEN PlainHook[h] ELSE "starter"]
    <3>1. \A h \in Hooks : hook'[h] # "atfork"
      BY <1>2, <1>00, <2>2, SMT DEF InitClaim
    <3>2. PlainHook' = [h \in Hooks |-> hook'[h]]
      BY <3>1, SMT DEF PlainHook
    <3> QED BY <1>2, <2>6, <3>2, SMT DEF InitClaim
  <2>8. UNCHANGED <<mutex, next, heaps, PlainTsd, used, held, op, calls, P!lookup, blk>>
        /\ P!Goto(t, "init_main")
    BY <1>2, <2>3, <2>4, <2>5, SMT DEF InitClaim, Goto, P!Goto
  <2> QED BY <1>2, <2>2, <2>6, <2>7, <2>8 DEF InitClaim, P!InitClaim, P!Hooks, Hooks
<1>3. ASSUME InitMain(t) PROVE P!InitMain(t)
  <2>1. At(t, "init_main") /\ "init_main" \in Labels
    BY <1>3 DEF InitMain, Labels, InitLabels, SearchLabels, BirthLabels, LinkLabels,
       EngineLabels
  <2>2. P!At(t, "init_main") /\ PlainAv[t] = av[t] /\ pc[t] = "init_main"
        /\ pc[t] \in Labels /\ PlainPc[t] = pc[t]
    BY <2>1, PlainAt
  <2>3. pc' = [pc EXCEPT ![t] = pc'[t]] /\ pc'[t] \in Labels
    BY <1>3, SMT DEF InitMain, Goto, Labels, InitLabels, SearchLabels,
           BirthLabels, LinkLabels, EngineLabels
  <2>4. PlainPc' = [PlainPc EXCEPT ![t] = pc'[t]]
    BY <2>2, <2>3, PlainMoves
  <2>5. (av' = av => PlainAv' = PlainAv)
        /\ (av' = [av EXCEPT ![t] = av'[t]] => PlainAv' = [PlainAv EXCEPT ![t] = av'[t]])
    BY <2>2, <2>3, PlainMoves
  <2> QED BY <1>3, <2>2, <2>3, <2>4, <2>5, SMT DEF InitMain, P!InitMain, Goto, P!Goto
<1>4. ASSUME InitRing(t) PROVE P!InitRing(t)
  <2>1. At(t, "init_ring") /\ "init_ring" \in Labels
    BY <1>4 DEF InitRing, Labels, InitLabels, SearchLabels, BirthLabels, LinkLabels,
       EngineLabels
  <2>2. P!At(t, "init_ring") /\ PlainAv[t] = av[t] /\ pc[t] = "init_ring"
        /\ pc[t] \in Labels /\ PlainPc[t] = pc[t]
    BY <2>1, PlainAt
  <2>3. pc' = [pc EXCEPT ![t] = pc'[t]] /\ pc'[t] \in Labels
    BY <1>4, SMT DEF InitRing, Goto, Labels, InitLabels, SearchLabels,
           BirthLabels, LinkLabels, EngineLabels
  <2>4. PlainPc' = [PlainPc EXCEPT ![t] = pc'[t]]
    BY <2>2, <2>3, PlainMoves
  <2>5. (av' = av => PlainAv' = PlainAv)
        /\ (av' = [av EXCEPT ![t] = av'[t]] => PlainAv' = [PlainAv EXCEPT ![t] = av'[t]])
    BY <2>2, <2>3, PlainMoves
  <2> QED BY <1>4, <2>2, <2>3, <2>4, <2>5, SMT DEF InitRing, P!InitRing, Goto, P!Goto
<1>5. ASSUME InitList(t) PROVE P!InitList(t)
  <2>1. At(t, "init_list") /\ "init_list" \in Labels
    BY <1>5 DEF InitList, Labels, InitLabels, SearchLabels, BirthLabels, LinkLabels,
       EngineLabels
  <2>2. P!At(t, "init_list") /\ PlainAv[t] = av[t] /\ pc[t] = "init_list"
        /\ pc[t] \in Labels /\ PlainPc[t] = pc[t]
    BY <2>1, PlainAt
  <2>3. pc' = [pc EXCEPT ![t] = pc'[t]] /\ pc'[t] \in Labels
    BY <1>5, SMT DEF InitList, Goto, Labels, InitLabels, SearchLabels,
           BirthLabels, LinkLabels, EngineLabels
  <2>4. PlainPc' = [PlainPc EXCEPT ![t] = pc'[t]]
    BY <2>2, <2>3, PlainMoves
  <2>5. (av' = av => PlainAv' = PlainAv)
        /\ (av' = [av EXCEPT ![t] = av'[t]] => PlainAv' = [PlainAv EXCEPT ![t] = av'[t]])
    BY <2>2, <2>3, PlainMoves
  <2> QED BY <1>5, <2>2, <2>3, <2>4, <2>5, SMT DEF InitList, P!InitList, Goto, P!Goto
<1>6. ASSUME InitTsd(t) PROVE P!InitTsd(t)
  <2>1. At(t, "init_tsd") /\ "init_tsd" \in Labels
    BY <1>6 DEF InitTsd, Labels, InitLabels, SearchLabels, BirthLabels, LinkLabels, EngineLabels
  <2>2. P!At(t, "init_tsd") /\ PlainAv[t] = av[t] /\ pc[t] = "init_tsd"
        /\ pc[t] \in Labels /\ PlainPc[t] = pc[t]
    BY <2>1, PlainAt
  <2>3. pc' = [pc EXCEPT ![t] = pc'[t]] /\ pc'[t] \in Labels
    BY <1>6, SMT DEF InitTsd, Goto, Labels, InitLabels, SearchLabels,
           BirthLabels, LinkLabels, EngineLabels
  <2>4. PlainPc' = [PlainPc EXCEPT ![t] = pc'[t]]
    BY <2>2, <2>3, PlainMoves
  <2>5. (av' = av => PlainAv' = PlainAv)
        /\ (av' = [av EXCEPT ![t] = av'[t]] => PlainAv' = [PlainAv EXCEPT ![t] = av'[t]])
    BY <2>2, <2>3, PlainMoves
  <2>6. PlainTsd' = [s \in Slots |-> IF s = SlotOf[t] THEN Main ELSE Null]
    <3>1. \A s \in Slots : tsd'[s] # Atfork
      BY <1>6, ForkAssumption, SMT DEF InitTsd, Arenas
    <3>2. PlainTsd' = [s \in Slots |-> tsd'[s]]
      BY <3>1, SMT DEF PlainTsd
    <3> QED BY <1>6, <3>2, SMT DEF InitTsd
  <2>7. UNCHANGED <<P!inits, mutex, next, heaps, used, held, op, calls, P!lookup, blk>>
        /\ P!Goto(t, "init_done")
    BY <1>6, <2>3, <2>4, <2>5, SMT DEF InitTsd, Goto, P!Goto
  <2> QED BY <1>6, <2>2, <2>6, <2>7 DEF InitTsd, P!InitTsd
<1>7. ASSUME InitDone(t) PROVE P!InitDone(t)
  <2>1. At(t, "init_done") /\ "init_done" \in Labels
    BY <1>7 DEF InitDone, Labels, InitLabels, SearchLabels, BirthLabels, LinkLabels,
       EngineLabels
  <2>2. P!At(t, "init_done") /\ PlainAv[t] = av[t] /\ pc[t] = "init_done"
        /\ pc[t] \in Labels /\ PlainPc[t] = pc[t]
    BY <2>1, PlainAt
  <2>3. pc' = [pc EXCEPT ![t] = pc'[t]] /\ pc'[t] \in Labels
    BY <1>7, SMT DEF InitDone, Goto, Labels, InitLabels, SearchLabels,
           BirthLabels, LinkLabels, EngineLabels
  <2>4. PlainPc' = [PlainPc EXCEPT ![t] = pc'[t]]
    BY <2>2, <2>3, PlainMoves
  <2>5. (av' = av => PlainAv' = PlainAv)
        /\ (av' = [av EXCEPT ![t] = av'[t]] => PlainAv' = [PlainAv EXCEPT ![t] = av'[t]])
    BY <2>2, <2>3, PlainMoves
  <2>6. PlainHook' = [saved EXCEPT !["realloc"] = PlainHook["realloc"]]
    <3>1. \A h \in Hooks : hook'[h] # "atfork" /\ hook[h] # "atfork"
      BY <1>7, <1>00, <2>2, SMT DEF InitDone, InitLabels, ParentInv, ForkTypeInv, ForkTypeOK
    <3>2. PlainHook' = [h \in Hooks |-> hook'[h]] /\ PlainHook = [h \in Hooks |-> hook[h]]
      BY <3>1, SMT DEF PlainHook
    <3>3. hook' = [saved EXCEPT !["realloc"] = hook["realloc"]] /\ DOMAIN saved = Hooks
          /\ hook["realloc"] = PlainHook["realloc"] /\ DOMAIN hook' = Hooks
      BY <1>7, <3>2, SMT DEF InitDone, Hooks, ForkTypeInv, ForkTypeOK
    <3>4. PlainHook' = hook'
      BY <3>2, <3>3
    <3> QED BY <3>3, <3>4
  <2>7. P!HookOf(op[t]) = HookOf(op[t]) /\ P!Hooks = Hooks
    BY DEF P!HookOf, HookOf, P!Hooks, Hooks
  <2>8. UNCHANGED <<saved, mutex, next, heaps, PlainTsd, used, held, op, calls, P!lookup, blk>>
    BY <1>7, <2>5 DEF InitDone
  <2>9. pc'[t] = IF HookOf(op[t]) \in Hooks THEN "enter" ELSE "get"
    BY <1>7, SMT DEF InitDone, Goto
  <2>10. P!Goto(t, IF HookOf(op[t]) \in Hooks THEN "enter" ELSE "get")
    BY <2>4, <2>9 DEF P!Goto
  <2> QED BY <1>7, <2>2, <2>6, <2>7, <2>8, <2>10 DEF InitDone, P!InitDone
<1> QED BY <1>1, <1>2, <1>3, <1>4, <1>5, <1>6, <1>7 DEF Initialise, P!Initialise

LEMMA PlainSearch ==
  ASSUME P!DistinctSlots, ForkTypeInv, OneForks, ParentInv, PlainInv, NEW t \in Threads,
         Search(t), UNCHANGED forkvars, tsd[SlotOf[t]] # Atfork
  PROVE  P!Search(t)
<1> USE PlainShared, ArenaAssumption DEF forkvars, shared, lookup, inits, P!shared, P!lookup,
        P!inits, Take, P!Take
<1>0. /\ DOMAIN pc = Threads /\ DOMAIN av = Threads /\ DOMAIN tsd = Slots
      /\ pc[t] \in {"scan", "next", "set_tsd"} => av[t] \in Arenas
  BY SMT DEF ForkTypeInv, ForkTypeOK, ForkPointers, BirthLabels
<1> USE <1>0
<1>1. ASSUME GetTsd(t) PROVE P!GetTsd(t)
  <2>1. At(t, "get") /\ "get" \in Labels
    BY <1>1 DEF GetTsd, Labels, InitLabels, SearchLabels, BirthLabels, LinkLabels, EngineLabels
  <2>2. P!At(t, "get") /\ PlainAv[t] = av[t] /\ pc[t] = "get" /\ pc[t] \in Labels
        /\ PlainPc[t] = pc[t]
    BY <2>1, PlainAt
  <2>3. pc' = [pc EXCEPT ![t] = pc'[t]] /\ pc'[t] \in Labels
    BY <1>1, SMT DEF GetTsd, Goto, Labels, InitLabels, SearchLabels,
           BirthLabels, LinkLabels, EngineLabels
  <2>4. PlainPc' = [PlainPc EXCEPT ![t] = pc'[t]]
    BY <2>2, <2>3, PlainMoves
  <2>5. (av' = av => PlainAv' = PlainAv)
        /\ (av' = [av EXCEPT ![t] = av'[t]] => PlainAv' = [PlainAv EXCEPT ![t] = av'[t]])
    BY <2>2, <2>3, PlainMoves
  <2>6. PlainTsd[SlotOf[t]] = tsd[SlotOf[t]]
    BY SMT DEF PlainTsd
  <2>7. CASE tsd[SlotOf[t]] = Null
    BY <1>1, <2>7, <2>2, <2>3, <2>4, <2>5, <2>6, SMT DEF GetTsd, P!GetTsd, Goto, P!Goto
  <2>8. CASE ~(tsd[SlotOf[t]] = Null)
    BY <1>1, <2>8, <2>2, <2>3, <2>4, <2>5, <2>6, SMT DEF GetTsd, P!GetTsd, Goto, P!Goto
  <2> QED BY <2>7, <2>8
<1>2. ASSUME TryDirect(t) PROVE P!TryDirect(t)
  <2>1. At(t, "try") /\ "try" \in Labels
    BY <1>2 DEF TryDirect, Labels, InitLabels, SearchLabels, BirthLabels, LinkLabels,
       EngineLabels
  <2>2. P!At(t, "try") /\ PlainAv[t] = av[t] /\ pc[t] = "try" /\ pc[t] \in Labels
        /\ PlainPc[t] = pc[t]
    BY <2>1, PlainAt
  <2>3. pc' = [pc EXCEPT ![t] = pc'[t]] /\ pc'[t] \in Labels
    BY <1>2, SMT DEF TryDirect, Goto, Labels, InitLabels, SearchLabels,
           BirthLabels, LinkLabels, EngineLabels
  <2>4. PlainPc' = [PlainPc EXCEPT ![t] = pc'[t]]
    BY <2>2, <2>3, PlainMoves
  <2>5. (av' = av => PlainAv' = PlainAv)
        /\ (av' = [av EXCEPT ![t] = av'[t]] => PlainAv' = [PlainAv EXCEPT ![t] = av'[t]])
    BY <2>2, <2>3, PlainMoves
  <2>6. Goto(t, pc'[t])
        /\ pc'[t] = (IF mutex[av[t]] = Null /\ av[t] # Main THEN "got" ELSE "get2")
        /\ (mutex[av[t]] = Null => mutex' = [mutex EXCEPT ![av[t]] = t])
        /\ (mutex[av[t]] # Null => mutex' = mutex)
    BY <1>2, <2>3, SMT DEF TryDirect, Goto
  <2>7. UNCHANGED <<inits, next, heaps, tsd, used, held, op, calls, lookup, blk>>
    BY <1>2 DEF TryDirect
  <2>8. UNCHANGED <<P!inits, next, heaps, PlainTsd, used, held, op, calls, P!lookup, blk>>
    BY <2>5, <2>7
  <2>9. CASE mutex[av[t]] = Null
    <3>1. P!Take(t, PlainAv[t])
      BY <2>2, <2>6, <2>9
    <3>2. pc'[t] = IF PlainAv[t] = Main THEN "get2" ELSE "got"
      BY <2>2, <2>6, <2>9
    <3>3. P!Goto(t, IF PlainAv[t] = Main THEN "get2" ELSE "got")
      BY <2>4, <3>2 DEF P!Goto
    <3> QED BY <2>2, <2>8, <3>1, <3>3 DEF P!TryDirect
  <2>10. CASE mutex[av[t]] # Null
    <3>1. P!Goto(t, "get2")
      BY <2>4, <2>6, <2>10, SMT DEF P!Goto
    <3> QED BY <2>2, <2>6, <2>8, <2>10, <3>1 DEF P!TryDirect
  <2> QED BY <2>9, <2>10
<1>3. ASSUME Get2(t) PROVE P!Get2(t)
  <2>1. At(t, "get2") /\ "get2" \in Labels
    BY <1>3 DEF Get2, Labels, InitLabels, SearchLabels, BirthLabels, LinkLabels, EngineLabels
  <2>2. P!At(t, "get2") /\ PlainAv[t] = av[t] /\ pc[t] = "get2" /\ pc[t] \in Labels
        /\ PlainPc[t] = pc[t]
    BY <2>1, PlainAt
  <2>3. pc' = [pc EXCEPT ![t] = pc'[t]] /\ pc'[t] \in Labels
    BY <1>3, SMT DEF Get2, Goto, Labels, InitLabels, SearchLabels,
           BirthLabels, LinkLabels, EngineLabels
  <2>4. PlainPc' = [PlainPc EXCEPT ![t] = pc'[t]]
    BY <2>2, <2>3, PlainMoves
  <2>5. (av' = av => PlainAv' = PlainAv)
        /\ (av' = [av EXCEPT ![t] = av'[t]] => PlainAv' = [PlainAv EXCEPT ![t] = av'[t]])
    BY <2>2, <2>3, PlainMoves
  <2> QED BY <1>3, <2>2, <2>3, <2>4, <2>5, SMT DEF Get2, P!Get2, Goto, P!Goto
<1>4. ASSUME LockMain(t) PROVE P!LockMain(t)
  <2>1. At(t, "lock_main") /\ "lock_main" \in Labels
    BY <1>4 DEF LockMain, Labels, InitLabels, SearchLabels, BirthLabels, LinkLabels,
       EngineLabels
  <2>2. P!At(t, "lock_main") /\ PlainAv[t] = av[t] /\ pc[t] = "lock_main"
        /\ pc[t] \in Labels /\ PlainPc[t] = pc[t]
    BY <2>1, PlainAt
  <2>3. pc' = [pc EXCEPT ![t] = pc'[t]] /\ pc'[t] \in Labels
    BY <1>4, SMT DEF LockMain, Goto, Labels, InitLabels, SearchLabels,
           BirthLabels, LinkLabels, EngineLabels
  <2>4. PlainPc' = [PlainPc EXCEPT ![t] = pc'[t]]
    BY <2>2, <2>3, PlainMoves
  <2>5. (av' = av => PlainAv' = PlainAv)
        /\ (av' = [av EXCEPT ![t] = av'[t]] => PlainAv' = [PlainAv EXCEPT ![t] = av'[t]])
    BY <2>2, <2>3, PlainMoves
  <2> QED BY <1>4, <2>2, <2>3, <2>4, <2>5, SMT DEF LockMain, P!LockMain, Goto, P!Goto
<1>5. ASSUME ScanTake(t) PROVE P!ScanTake(t)
  <2>1. At(t, "scan") /\ "scan" \in Labels
    BY <1>5 DEF ScanTake, Labels, InitLabels, SearchLabels, BirthLabels, LinkLabels,
       EngineLabels
  <2>2. P!At(t, "scan") /\ PlainAv[t] = av[t] /\ pc[t] = "scan" /\ pc[t] \in Labels
        /\ PlainPc[t] = pc[t]
    BY <2>1, PlainAt
  <2>3. pc' = [pc EXCEPT ![t] = pc'[t]] /\ pc'[t] \in Labels
    BY <1>5, SMT DEF ScanTake, Goto, Labels, InitLabels, SearchLabels,
           BirthLabels, LinkLabels, EngineLabels
  <2>4. PlainPc' = [PlainPc EXCEPT ![t] = pc'[t]]
    BY <2>2, <2>3, PlainMoves
  <2>5. (av' = av => PlainAv' = PlainAv)
        /\ (av' = [av EXCEPT ![t] = av'[t]] => PlainAv' = [PlainAv EXCEPT ![t] = av'[t]])
    BY <2>2, <2>3, PlainMoves
  <2>6. P!Remember(t, PlainAv[t])
    BY <1>5, <2>1, <2>2, PlainRemember DEF ScanTake, At
  <2>7. P!Goto(t, "got") /\ P!Take(t, PlainAv[t])
    BY <1>5, <2>2, <2>3, <2>4, SMT DEF ScanTake, Goto, P!Goto
  <2>8. UNCHANGED <<P!inits, next, heaps, used, held, op, calls, P!lookup, blk>>
    BY <1>5, <2>5 DEF ScanTake
  <2> QED BY <2>2, <2>6, <2>7, <2>8 DEF P!ScanTake
<1>6. ASSUME ScanBusy(t) PROVE P!ScanBusy(t)
  <2>1. At(t, "scan") /\ "scan" \in Labels
    BY <1>6 DEF ScanBusy, Labels, InitLabels, SearchLabels, BirthLabels, LinkLabels,
       EngineLabels
  <2>2. P!At(t, "scan") /\ PlainAv[t] = av[t] /\ pc[t] = "scan" /\ pc[t] \in Labels
        /\ PlainPc[t] = pc[t]
    BY <2>1, PlainAt
  <2>3. pc' = [pc EXCEPT ![t] = pc'[t]] /\ pc'[t] \in Labels
    BY <1>6, SMT DEF ScanBusy, Goto, Labels, InitLabels, SearchLabels,
           BirthLabels, LinkLabels, EngineLabels
  <2>4. PlainPc' = [PlainPc EXCEPT ![t] = pc'[t]]
    BY <2>2, <2>3, PlainMoves
  <2>5. (av' = av => PlainAv' = PlainAv)
        /\ (av' = [av EXCEPT ![t] = av'[t]] => PlainAv' = [PlainAv EXCEPT ![t] = av'[t]])
    BY <2>2, <2>3, PlainMoves
  <2> QED BY <1>6, <2>2, <2>3, <2>4, <2>5, SMT DEF ScanBusy, P!ScanBusy, Goto, P!Goto
<1>7. ASSUME ScanNext(t) PROVE P!ScanNext(t)
  <2>1. At(t, "next") /\ "next" \in Labels
    BY <1>7 DEF ScanNext, Labels, InitLabels, SearchLabels, BirthLabels, LinkLabels,
       EngineLabels
  <2>2. P!At(t, "next") /\ PlainAv[t] = av[t] /\ pc[t] = "next" /\ pc[t] \in Labels
        /\ PlainPc[t] = pc[t]
    BY <2>1, PlainAt
  <2>3. pc' = [pc EXCEPT ![t] = pc'[t]] /\ pc'[t] \in Labels
    BY <1>7, SMT DEF ScanNext, Goto, Labels, InitLabels, SearchLabels,
           BirthLabels, LinkLabels, EngineLabels
  <2>4. PlainPc' = [PlainPc EXCEPT ![t] = pc'[t]]
    BY <2>2, <2>3, PlainMoves
  <2>5. (av' = av => PlainAv' = PlainAv)
        /\ (av' = [av EXCEPT ![t] = av'[t]] => PlainAv' = [PlainAv EXCEPT ![t] = av'[t]])
    BY <2>2, <2>3, PlainMoves
  <2> QED BY <1>7, <2>2, <2>3, <2>4, <2>5, SMT DEF ScanNext, P!ScanNext, Goto, P!Goto
<1>8. ASSUME ScanCrash(t) PROVE P!ScanCrash(t)
  <2>1. At(t, "next") /\ "next" \in Labels
    BY <1>8 DEF ScanCrash, Labels, InitLabels, SearchLabels, BirthLabels, LinkLabels,
       EngineLabels
  <2>2. P!At(t, "next") /\ PlainAv[t] = av[t] /\ pc[t] = "next" /\ pc[t] \in Labels
        /\ PlainPc[t] = pc[t]
    BY <2>1, PlainAt
  <2>3. pc' = [pc EXCEPT ![t] = pc'[t]] /\ pc'[t] \in Labels
    BY <1>8, SMT DEF ScanCrash, Goto, Crash, Labels, InitLabels, SearchLabels,
           BirthLabels, LinkLabels, EngineLabels
  <2>4. PlainPc' = [PlainPc EXCEPT ![t] = pc'[t]]
    BY <2>2, <2>3, PlainMoves
  <2>5. (av' = av => PlainAv' = PlainAv)
        /\ (av' = [av EXCEPT ![t] = av'[t]] => PlainAv' = [PlainAv EXCEPT ![t] = av'[t]])
    BY <2>2, <2>3, PlainMoves
  <2> QED BY <1>8, <2>2, <2>3, <2>4, <2>5, SMT DEF ScanCrash, P!ScanCrash, Goto, Crash,
             P!Goto, P!Crash
<1>9. ASSUME TryList(t) PROVE P!TryList(t)
  <2>1. At(t, "try_list") /\ "try_list" \in Labels
    BY <1>9 DEF TryList, Labels, InitLabels, SearchLabels, BirthLabels, LinkLabels, EngineLabels
  <2>2. P!At(t, "try_list") /\ PlainAv[t] = av[t] /\ pc[t] = "try_list"
        /\ pc[t] \in Labels /\ PlainPc[t] = pc[t]
    BY <2>1, PlainAt
  <2>3. pc' = [pc EXCEPT ![t] = pc'[t]] /\ pc'[t] \in Labels
    BY <1>9, SMT DEF TryList, Goto, Labels, InitLabels, SearchLabels,
           BirthLabels, LinkLabels, EngineLabels
  <2>4. PlainPc' = [PlainPc EXCEPT ![t] = pc'[t]]
    BY <2>2, <2>3, PlainMoves
  <2>5. (av' = av => PlainAv' = PlainAv)
        /\ (av' = [av EXCEPT ![t] = av'[t]] => PlainAv' = [PlainAv EXCEPT ![t] = av'[t]])
    BY <2>2, <2>3, PlainMoves
  <2>6. UNCHANGED <<P!inits, next, heaps, PlainTsd, used, held, op, calls, start, old, blk>>
    BY <1>9, <2>5 DEF TryList
  <2>7. CASE mutex["list"] = Null
    <3>1. P!Goto(t, "drop_list") /\ UNCHANGED PlainAv /\ P!Take(t, "list")
      BY <1>9, <2>3, <2>4, <2>5, <2>7, SMT DEF TryList, Goto, P!Goto
    <3> QED BY <2>2, <2>6, <3>1 DEF P!TryList
  <2>8. CASE mutex["list"] # Null
    <3>1. av' = [av EXCEPT ![t] = start[t]] /\ UNCHANGED mutex
          /\ pc' = [pc EXCEPT ![t] = "scan"]
      BY <1>9, <2>8 DEF TryList, Goto
    <3>2. PlainAv' = [PlainAv EXCEPT ![t] = start[t]]
      BY <2>5, <3>1, SMT
    <3>3. P!Goto(t, "scan")
      BY <2>4, <3>1, SMT DEF P!Goto
    <3> QED BY <2>2, <2>6, <2>8, <3>1, <3>2, <3>3 DEF P!TryList
  <2> QED BY <2>7, <2>8
<1> QED BY <1>1, <1>2, <1>3, <1>4, <1>5, <1>6, <1>7, <1>8, <1>9 DEF Search, P!Search

LEMMA PlainCreate ==
  ASSUME P!DistinctSlots, ForkTypeInv, OneForks, ParentInv, PlainInv, NEW t \in Threads,
         Create(t), UNCHANGED forkvars, tsd[SlotOf[t]] # Atfork
  PROVE  P!Create(t)
<1> USE PlainShared, ArenaAssumption DEF forkvars, shared, lookup, inits, P!shared, P!lookup,
        P!inits, Take, P!Take
<1>0. /\ DOMAIN pc = Threads /\ DOMAIN av = Threads /\ DOMAIN tsd = Slots
      /\ pc[t] \in {"scan", "next", "set_tsd"} => av[t] \in Arenas
  BY SMT DEF ForkTypeInv, ForkTypeOK, ForkPointers, BirthLabels
<1> USE <1>0
<1>1. ASSUME DropList(t) PROVE P!DropList(t)
  <2>1. At(t, "drop_list") /\ "drop_list" \in Labels
    BY <1>1 DEF DropList, Labels, InitLabels, SearchLabels, BirthLabels, LinkLabels,
       EngineLabels
  <2>2. P!At(t, "drop_list") /\ PlainAv[t] = av[t] /\ pc[t] = "drop_list"
        /\ pc[t] \in Labels /\ PlainPc[t] = pc[t]
    BY <2>1, PlainAt
  <2>3. pc' = [pc EXCEPT ![t] = pc'[t]] /\ pc'[t] \in Labels
    BY <1>1, SMT DEF DropList, Goto, Labels, InitLabels, SearchLabels,
           BirthLabels, LinkLabels, EngineLabels
  <2>4. PlainPc' = [PlainPc EXCEPT ![t] = pc'[t]]
    BY <2>2, <2>3, PlainMoves
  <2>5. (av' = av => PlainAv' = PlainAv)
        /\ (av' = [av EXCEPT ![t] = av'[t]] => PlainAv' = [PlainAv EXCEPT ![t] = av'[t]])
    BY <2>2, <2>3, PlainMoves
  <2> QED BY <1>1, <2>2, <2>3, <2>4, <2>5, SMT DEF DropList, P!DropList, Goto, P!Goto
<1>2. ASSUME NewArena(t) PROVE P!NewArena(t)
  <2>1. At(t, "new") /\ "new" \in Labels
    BY <1>2 DEF NewArena, Labels, InitLabels, SearchLabels, BirthLabels, LinkLabels,
       EngineLabels
  <2>2. P!At(t, "new") /\ PlainAv[t] = av[t] /\ pc[t] = "new" /\ pc[t] \in Labels
        /\ PlainPc[t] = pc[t]
    BY <2>1, PlainAt
  <2>3. pc' = [pc EXCEPT ![t] = pc'[t]] /\ pc'[t] \in Labels
    BY <1>2, SMT DEF NewArena, Goto, Labels, InitLabels, SearchLabels,
           BirthLabels, LinkLabels, EngineLabels
  <2>4. PlainPc' = [PlainPc EXCEPT ![t] = pc'[t]]
    BY <2>2, <2>3, PlainMoves
  <2>5. (av' = av => PlainAv' = PlainAv)
        /\ (av' = [av EXCEPT ![t] = av'[t]] => PlainAv' = [PlainAv EXCEPT ![t] = av'[t]])
    BY <2>2, <2>3, PlainMoves
  <2> QED BY <1>2, <2>2, <2>3, <2>4, <2>5, SMT DEF NewArena, P!NewArena, Goto, P!Goto
<1>3. ASSUME NewArenaFails(t) PROVE P!NewArenaFails(t)
  <2>1. At(t, "new") /\ "new" \in Labels
    BY <1>3 DEF NewArenaFails, Labels, InitLabels, SearchLabels, BirthLabels, LinkLabels,
       EngineLabels
  <2>2. P!At(t, "new") /\ PlainAv[t] = av[t] /\ pc[t] = "new" /\ pc[t] \in Labels
        /\ PlainPc[t] = pc[t]
    BY <2>1, PlainAt
  <2>3. pc' = [pc EXCEPT ![t] = pc'[t]] /\ pc'[t] \in Labels
    BY <1>3, SMT DEF NewArenaFails, Goto, Labels, InitLabels, SearchLabels,
           BirthLabels, LinkLabels, EngineLabels
  <2>4. PlainPc' = [PlainPc EXCEPT ![t] = pc'[t]]
    BY <2>2, <2>3, PlainMoves
  <2>5. (av' = av => PlainAv' = PlainAv)
        /\ (av' = [av EXCEPT ![t] = av'[t]] => PlainAv' = [PlainAv EXCEPT ![t] = av'[t]])
    BY <2>2, <2>3, PlainMoves
  <2> QED BY <1>3, <2>2, <2>3, <2>4, <2>5, SMT DEF NewArenaFails, P!NewArenaFails, Goto, P!Goto
<1>4. ASSUME SetTsd(t) PROVE P!SetTsd(t)
  <2>1. At(t, "set_tsd") /\ "set_tsd" \in Labels
    BY <1>4 DEF SetTsd, Labels, InitLabels, SearchLabels, BirthLabels, LinkLabels, EngineLabels
  <2>2. P!At(t, "set_tsd") /\ PlainAv[t] = av[t] /\ pc[t] = "set_tsd" /\ pc[t] \in Labels
        /\ PlainPc[t] = pc[t]
    BY <2>1, PlainAt
  <2>3. pc' = [pc EXCEPT ![t] = pc'[t]] /\ pc'[t] \in Labels
    BY <1>4, SMT DEF SetTsd, Goto, Labels, InitLabels, SearchLabels,
           BirthLabels, LinkLabels, EngineLabels
  <2>4. PlainPc' = [PlainPc EXCEPT ![t] = pc'[t]]
    BY <2>2, <2>3, PlainMoves
  <2>5. (av' = av => PlainAv' = PlainAv)
        /\ (av' = [av EXCEPT ![t] = av'[t]] => PlainAv' = [PlainAv EXCEPT ![t] = av'[t]])
    BY <2>2, <2>3, PlainMoves
  <2>6. P!Remember(t, PlainAv[t])
    BY <1>4, <2>1, <2>2, PlainRemember DEF SetTsd, At
  <2>7. P!Goto(t, "mutex_init")
    BY <1>4, <2>2, <2>3, <2>4, SMT DEF SetTsd, Goto, P!Goto
  <2>8. UNCHANGED <<P!inits, mutex, next, heaps, used, held, op, calls, P!lookup, blk>>
    BY <1>4, <2>5 DEF SetTsd
  <2> QED BY <2>2, <2>6, <2>7, <2>8 DEF P!SetTsd
<1>5. ASSUME MutexInit(t) PROVE P!MutexInit(t)
  <2>1. At(t, "mutex_init") /\ "mutex_init" \in Labels
    BY <1>5 DEF MutexInit, Labels, InitLabels, SearchLabels, BirthLabels, LinkLabels,
       EngineLabels
  <2>2. P!At(t, "mutex_init") /\ PlainAv[t] = av[t] /\ pc[t] = "mutex_init"
        /\ pc[t] \in Labels /\ PlainPc[t] = pc[t]
    BY <2>1, PlainAt
  <2>3. pc' = [pc EXCEPT ![t] = pc'[t]] /\ pc'[t] \in Labels
    BY <1>5, SMT DEF MutexInit, Goto, Labels, InitLabels, SearchLabels,
           BirthLabels, LinkLabels, EngineLabels
  <2>4. PlainPc' = [PlainPc EXCEPT ![t] = pc'[t]]
    BY <2>2, <2>3, PlainMoves
  <2>5. (av' = av => PlainAv' = PlainAv)
        /\ (av' = [av EXCEPT ![t] = av'[t]] => PlainAv' = [PlainAv EXCEPT ![t] = av'[t]])
    BY <2>2, <2>3, PlainMoves
  <2> QED BY <1>5, <2>2, <2>3, <2>4, <2>5, SMT DEF MutexInit, P!MutexInit, Goto, P!Goto
<1>6. ASSUME MutexLock(t) PROVE P!MutexLock(t)
  <2>1. At(t, "mutex_lock") /\ "mutex_lock" \in Labels
    BY <1>6 DEF MutexLock, Labels, InitLabels, SearchLabels, BirthLabels, LinkLabels,
       EngineLabels
  <2>2. P!At(t, "mutex_lock") /\ PlainAv[t] = av[t] /\ pc[t] = "mutex_lock"
        /\ pc[t] \in Labels /\ PlainPc[t] = pc[t]
    BY <2>1, PlainAt
  <2>3. pc' = [pc EXCEPT ![t] = pc'[t]] /\ pc'[t] \in Labels
    BY <1>6, SMT DEF MutexLock, Goto, Labels, InitLabels, SearchLabels,
           BirthLabels, LinkLabels, EngineLabels
  <2>4. PlainPc' = [PlainPc EXCEPT ![t] = pc'[t]]
    BY <2>2, <2>3, PlainMoves
  <2>5. (av' = av => PlainAv' = PlainAv)
        /\ (av' = [av EXCEPT ![t] = av'[t]] => PlainAv' = [PlainAv EXCEPT ![t] = av'[t]])
    BY <2>2, <2>3, PlainMoves
  <2> QED BY <1>6, <2>2, <2>3, <2>4, <2>5, SMT DEF MutexLock, P!MutexLock, Goto, P!Goto
<1>7. ASSUME ListLock(t) PROVE P!ListLock(t)
  <2>1. At(t, "list_lock") /\ "list_lock" \in Labels
    BY <1>7 DEF ListLock, Labels, InitLabels, SearchLabels, BirthLabels, LinkLabels,
       EngineLabels
  <2>2. P!At(t, "list_lock") /\ PlainAv[t] = av[t] /\ pc[t] = "list_lock"
        /\ pc[t] \in Labels /\ PlainPc[t] = pc[t]
    BY <2>1, PlainAt
  <2>3. pc' = [pc EXCEPT ![t] = pc'[t]] /\ pc'[t] \in Labels
    BY <1>7, SMT DEF ListLock, Goto, Labels, InitLabels, SearchLabels,
           BirthLabels, LinkLabels, EngineLabels
  <2>4. PlainPc' = [PlainPc EXCEPT ![t] = pc'[t]]
    BY <2>2, <2>3, PlainMoves
  <2>5. (av' = av => PlainAv' = PlainAv)
        /\ (av' = [av EXCEPT ![t] = av'[t]] => PlainAv' = [PlainAv EXCEPT ![t] = av'[t]])
    BY <2>2, <2>3, PlainMoves
  <2> QED BY <1>7, <2>2, <2>3, <2>4, <2>5, SMT DEF ListLock, P!ListLock, Goto, P!Goto
<1>8. ASSUME LinkNext(t) PROVE P!LinkNext(t)
  <2>1. At(t, "link_next") /\ "link_next" \in Labels
    BY <1>8 DEF LinkNext, Labels, InitLabels, SearchLabels, BirthLabels, LinkLabels,
       EngineLabels
  <2>2. P!At(t, "link_next") /\ PlainAv[t] = av[t] /\ pc[t] = "link_next"
        /\ pc[t] \in Labels /\ PlainPc[t] = pc[t]
    BY <2>1, PlainAt
  <2>3. pc' = [pc EXCEPT ![t] = pc'[t]] /\ pc'[t] \in Labels
    BY <1>8, SMT DEF LinkNext, Goto, Labels, InitLabels, SearchLabels,
           BirthLabels, LinkLabels, EngineLabels
  <2>4. PlainPc' = [PlainPc EXCEPT ![t] = pc'[t]]
    BY <2>2, <2>3, PlainMoves
  <2>5. (av' = av => PlainAv' = PlainAv)
        /\ (av' = [av EXCEPT ![t] = av'[t]] => PlainAv' = [PlainAv EXCEPT ![t] = av'[t]])
    BY <2>2, <2>3, PlainMoves
  <2> QED BY <1>8, <2>2, <2>3, <2>4, <2>5, SMT DEF LinkNext, P!LinkNext, Goto, P!Goto
<1>9. ASSUME LinkMain(t) PROVE P!LinkMain(t)
  <2>1. At(t, "link_main") /\ "link_main" \in Labels
    BY <1>9 DEF LinkMain, Labels, InitLabels, SearchLabels, BirthLabels, LinkLabels,
       EngineLabels
  <2>2. P!At(t, "link_main") /\ PlainAv[t] = av[t] /\ pc[t] = "link_main"
        /\ pc[t] \in Labels /\ PlainPc[t] = pc[t]
    BY <2>1, PlainAt
  <2>3. pc' = [pc EXCEPT ![t] = pc'[t]] /\ pc'[t] \in Labels
    BY <1>9, SMT DEF LinkMain, Goto, Labels, InitLabels, SearchLabels,
           BirthLabels, LinkLabels, EngineLabels
  <2>4. PlainPc' = [PlainPc EXCEPT ![t] = pc'[t]]
    BY <2>2, <2>3, PlainMoves
  <2>5. (av' = av => PlainAv' = PlainAv)
        /\ (av' = [av EXCEPT ![t] = av'[t]] => PlainAv' = [PlainAv EXCEPT ![t] = av'[t]])
    BY <2>2, <2>3, PlainMoves
  <2> QED BY <1>9, <2>2, <2>3, <2>4, <2>5, SMT DEF LinkMain, P!LinkMain, Goto, P!Goto
<1>10. ASSUME ListUnlock(t) PROVE P!ListUnlock(t)
  <2>1. At(t, "list_unlock") /\ "list_unlock" \in Labels
    BY <1>10 DEF ListUnlock, Labels, InitLabels, SearchLabels, BirthLabels, LinkLabels,
       EngineLabels
  <2>2. P!At(t, "list_unlock") /\ PlainAv[t] = av[t] /\ pc[t] = "list_unlock"
        /\ pc[t] \in Labels /\ PlainPc[t] = pc[t]
    BY <2>1, PlainAt
  <2>3. pc' = [pc EXCEPT ![t] = pc'[t]] /\ pc'[t] \in Labels
    BY <1>10, SMT DEF ListUnlock, Goto, Labels, InitLabels, SearchLabels,
           BirthLabels, LinkLabels, EngineLabels
  <2>4. PlainPc' = [PlainPc EXCEPT ![t] = pc'[t]]
    BY <2>2, <2>3, PlainMoves
  <2>5. (av' = av => PlainAv' = PlainAv)
        /\ (av' = [av EXCEPT ![t] = av'[t]] => PlainAv' = [PlainAv EXCEPT ![t] = av'[t]])
    BY <2>2, <2>3, PlainMoves
  <2> QED BY <1>10, <2>2, <2>3, <2>4, <2>5, SMT DEF ListUnlock, P!ListUnlock, Goto, P!Goto
<1> QED BY <1>1, <1>2, <1>3, <1>4, <1>5, <1>6, <1>7, <1>8, <1>9, <1>10 DEF Create, P!Create

LEMMA PlainUse ==
  ASSUME P!DistinctSlots, ForkTypeInv, OneForks, ParentInv, PlainInv, NEW t \in Threads,
         Use(t), UNCHANGED forkvars, tsd[SlotOf[t]] # Atfork
  PROVE  P!Use(t)
<1> USE PlainShared, ArenaAssumption DEF forkvars, shared, lookup, inits, P!shared, P!lookup,
        P!inits, Take, P!Take
<1>0. /\ DOMAIN pc = Threads /\ DOMAIN av = Threads /\ DOMAIN tsd = Slots
      /\ pc[t] \in {"scan", "next", "set_tsd"} => av[t] \in Arenas
  BY SMT DEF ForkTypeInv, ForkTypeOK, ForkPointers, BirthLabels
<1> USE <1>0
<1>1. ASSUME GotNothing(t) PROVE P!GotNothing(t)
  <2>1. At(t, "got") /\ "got" \in Labels
    BY <1>1 DEF GotNothing, Labels, InitLabels, SearchLabels, BirthLabels, LinkLabels,
       EngineLabels
  <2>2. P!At(t, "got") /\ PlainAv[t] = av[t] /\ pc[t] = "got" /\ pc[t] \in Labels
        /\ PlainPc[t] = pc[t]
    BY <2>1, PlainAt
  <2>3. pc' = [pc EXCEPT ![t] = pc'[t]] /\ pc'[t] \in Labels
    BY <1>1, SMT DEF GotNothing, Goto, Return, Crash, Labels, InitLabels, SearchLabels,
           BirthLabels, LinkLabels, EngineLabels
  <2>4. PlainPc' = [PlainPc EXCEPT ![t] = pc'[t]]
    BY <2>2, <2>3, PlainMoves
  <2>5. (av' = av => PlainAv' = PlainAv)
        /\ (av' = [av EXCEPT ![t] = av'[t]] => PlainAv' = [PlainAv EXCEPT ![t] = av'[t]])
    BY <2>2, <2>3, PlainMoves
  <2>7. CASE op[t] = "pvalloc"
    BY <1>1, <2>7, <2>2, <2>3, <2>4, <2>5, SMT DEF GotNothing, P!GotNothing, Goto, Return,
       Crash, P!Goto, P!Return, P!Crash, Arenas, P!Arenas
  <2>8. CASE ~(op[t] = "pvalloc")
    BY <1>1, <2>8, <2>2, <2>3, <2>4, <2>5, SMT DEF GotNothing, P!GotNothing, Goto, Return,
       Crash, P!Goto, P!Return, P!Crash, Arenas, P!Arenas
  <2> QED BY <2>7, <2>8
<1>2. ASSUME RefuseMain(t) PROVE P!RefuseMain(t)
  <2>1. At(t, "got") /\ "got" \in Labels
    BY <1>2 DEF RefuseMain, Labels, InitLabels, SearchLabels, BirthLabels, LinkLabels,
       EngineLabels
  <2>2. P!At(t, "got") /\ PlainAv[t] = av[t] /\ pc[t] = "got" /\ pc[t] \in Labels
        /\ PlainPc[t] = pc[t]
    BY <2>1, PlainAt
  <2>3. pc' = [pc EXCEPT ![t] = pc'[t]] /\ pc'[t] \in Labels
    BY <1>2, SMT DEF RefuseMain, Goto, Return, Labels, InitLabels, SearchLabels,
           BirthLabels, LinkLabels, EngineLabels
  <2>4. PlainPc' = [PlainPc EXCEPT ![t] = pc'[t]]
    BY <2>2, <2>3, PlainMoves
  <2>5. (av' = av => PlainAv' = PlainAv)
        /\ (av' = [av EXCEPT ![t] = av'[t]] => PlainAv' = [PlainAv EXCEPT ![t] = av'[t]])
    BY <2>2, <2>3, PlainMoves
  <2> QED BY <1>2, <2>2, <2>3, <2>4, <2>5, SMT DEF RefuseMain, P!RefuseMain, Goto, Return,
             P!Goto, P!Return, Arenas, P!Arenas
<1>3. ASSUME EngineEnter(t) PROVE P!EngineEnter(t)
  <2>1. At(t, "got") /\ "got" \in Labels
    BY <1>3 DEF EngineEnter, Labels, InitLabels, SearchLabels, BirthLabels, LinkLabels,
       EngineLabels
  <2>2. P!At(t, "got") /\ PlainAv[t] = av[t] /\ pc[t] = "got" /\ pc[t] \in Labels
        /\ PlainPc[t] = pc[t]
    BY <2>1, PlainAt
  <2>3. pc' = [pc EXCEPT ![t] = pc'[t]] /\ pc'[t] \in Labels
    BY <1>3, SMT DEF EngineEnter, Goto, Labels, InitLabels, SearchLabels,
           BirthLabels, LinkLabels, EngineLabels
  <2>4. PlainPc' = [PlainPc EXCEPT ![t] = pc'[t]]
    BY <2>2, <2>3, PlainMoves
  <2>5. (av' = av => PlainAv' = PlainAv)
        /\ (av' = [av EXCEPT ![t] = av'[t]] => PlainAv' = [PlainAv EXCEPT ![t] = av'[t]])
    BY <2>2, <2>3, PlainMoves
  <2> QED BY <1>3, <2>2, <2>3, <2>4, <2>5, SMT DEF EngineEnter, P!EngineEnter, Goto, P!Goto
<1>4. ASSUME EngineLeave(t) PROVE P!EngineLeave(t)
  <2>1. At(t, "using") /\ "using" \in Labels
    BY <1>4 DEF EngineLeave, Labels, InitLabels, SearchLabels, BirthLabels, LinkLabels,
       EngineLabels
  <2>2. P!At(t, "using") /\ PlainAv[t] = av[t] /\ pc[t] = "using" /\ pc[t] \in Labels
        /\ PlainPc[t] = pc[t]
    BY <2>1, PlainAt
  <2>3. pc' = [pc EXCEPT ![t] = pc'[t]] /\ pc'[t] \in Labels
    BY <1>4, SMT DEF EngineLeave, Goto, Labels, InitLabels, SearchLabels,
           BirthLabels, LinkLabels, EngineLabels
  <2>4. PlainPc' = [PlainPc EXCEPT ![t] = pc'[t]]
    BY <2>2, <2>3, PlainMoves
  <2>5. (av' = av => PlainAv' = PlainAv)
        /\ (av' = [av EXCEPT ![t] = av'[t]] => PlainAv' = [PlainAv EXCEPT ![t] = av'[t]])
    BY <2>2, <2>3, PlainMoves
  <2> QED BY <1>4, <2>2, <2>3, <2>4, <2>5, SMT DEF EngineLeave, P!EngineLeave, Goto, P!Goto,
             Gain, P!Gain
<1>5. ASSUME EngineFails(t) PROVE P!EngineFails(t)
  <2>1. At(t, "using") /\ "using" \in Labels
    BY <1>5 DEF EngineFails, Labels, InitLabels, SearchLabels, BirthLabels, LinkLabels,
       EngineLabels
  <2>2. P!At(t, "using") /\ PlainAv[t] = av[t] /\ pc[t] = "using" /\ pc[t] \in Labels
        /\ PlainPc[t] = pc[t]
    BY <2>1, PlainAt
  <2>3. pc' = [pc EXCEPT ![t] = pc'[t]] /\ pc'[t] \in Labels
    BY <1>5, SMT DEF EngineFails, Goto, Return, Labels, InitLabels, SearchLabels,
           BirthLabels, LinkLabels, EngineLabels
  <2>4. PlainPc' = [PlainPc EXCEPT ![t] = pc'[t]]
    BY <2>2, <2>3, PlainMoves
  <2>5. (av' = av => PlainAv' = PlainAv)
        /\ (av' = [av EXCEPT ![t] = av'[t]] => PlainAv' = [PlainAv EXCEPT ![t] = av'[t]])
    BY <2>2, <2>3, PlainMoves
  <2>7. CASE op[t] = "malloc"
    BY <1>5, <2>7, <2>2, <2>3, <2>4, <2>5, SMT DEF EngineFails, P!EngineFails, Goto, Return,
       P!Goto, P!Return, Arenas, P!Arenas, AllocOps, P!AllocOps
  <2>8. CASE ~(op[t] = "malloc")
    BY <1>5, <2>8, <2>2, <2>3, <2>4, <2>5, SMT DEF EngineFails, P!EngineFails, Goto, Return,
       P!Goto, P!Return, Arenas, P!Arenas, AllocOps, P!AllocOps
  <2> QED BY <2>7, <2>8
<1>6. ASSUME Unlock(t) PROVE P!Unlock(t)
  <2>1. At(t, "unlock") /\ "unlock" \in Labels
    BY <1>6 DEF Unlock, Labels, InitLabels, SearchLabels, BirthLabels, LinkLabels, EngineLabels
  <2>2. P!At(t, "unlock") /\ PlainAv[t] = av[t] /\ pc[t] = "unlock" /\ pc[t] \in Labels
        /\ PlainPc[t] = pc[t]
    BY <2>1, PlainAt
  <2>3. pc' = [pc EXCEPT ![t] = pc'[t]] /\ pc'[t] \in Labels
    BY <1>6, SMT DEF Unlock, Goto, Return, Labels, InitLabels, SearchLabels,
           BirthLabels, LinkLabels, EngineLabels
  <2>4. PlainPc' = [PlainPc EXCEPT ![t] = pc'[t]]
    BY <2>2, <2>3, PlainMoves
  <2>5. (av' = av => PlainAv' = PlainAv)
        /\ (av' = [av EXCEPT ![t] = av'[t]] => PlainAv' = [PlainAv EXCEPT ![t] = av'[t]])
    BY <2>2, <2>3, PlainMoves
  <2> QED BY <1>6, <2>2, <2>3, <2>4, <2>5, SMT DEF Unlock, P!Unlock, Goto, Return, P!Goto,
             P!Return, Arenas, P!Arenas
<1>7. ASSUME UnlockFailed(t) PROVE P!UnlockFailed(t)
  <2>1. At(t, "unlock_failed") /\ "unlock_failed" \in Labels
    BY <1>7 DEF UnlockFailed, Labels, InitLabels, SearchLabels, BirthLabels, LinkLabels,
       EngineLabels
  <2>2. P!At(t, "unlock_failed") /\ PlainAv[t] = av[t] /\ pc[t] = "unlock_failed"
        /\ pc[t] \in Labels /\ PlainPc[t] = pc[t]
    BY <2>1, PlainAt
  <2>3. pc' = [pc EXCEPT ![t] = pc'[t]] /\ pc'[t] \in Labels
    BY <1>7, SMT DEF UnlockFailed, Goto, Return, Labels, InitLabels, SearchLabels,
           BirthLabels, LinkLabels, EngineLabels
  <2>4. PlainPc' = [PlainPc EXCEPT ![t] = pc'[t]]
    BY <2>2, <2>3, PlainMoves
  <2>5. (av' = av => PlainAv' = PlainAv)
        /\ (av' = [av EXCEPT ![t] = av'[t]] => PlainAv' = [PlainAv EXCEPT ![t] = av'[t]])
    BY <2>2, <2>3, PlainMoves
  <2>7. CASE op[t] = "realloc"
    BY <1>7, <2>7, <2>2, <2>3, <2>4, <2>5, SMT DEF UnlockFailed, P!UnlockFailed, Goto,
       Return, P!Goto, P!Return, Arenas, P!Arenas
  <2>8. CASE ~(op[t] = "realloc")
    BY <1>7, <2>8, <2>2, <2>3, <2>4, <2>5, SMT DEF UnlockFailed, P!UnlockFailed, Goto,
       Return, P!Goto, P!Return, Arenas, P!Arenas
  <2> QED BY <2>7, <2>8
<1> QED BY <1>1, <1>2, <1>3, <1>4, <1>5, <1>6, <1>7 DEF Use, P!Use

LEMMA PlainOwn ==
  ASSUME P!DistinctSlots, ForkTypeInv, OneForks, ParentInv, PlainInv, NEW t \in Threads,
         Own(t), UNCHANGED forkvars, tsd[SlotOf[t]] # Atfork
  PROVE  P!Own(t)
<1> USE PlainShared, ArenaAssumption DEF forkvars, shared, lookup, inits, P!shared, P!lookup,
        P!inits, Take, P!Take
<1>0. /\ DOMAIN pc = Threads /\ DOMAIN av = Threads /\ DOMAIN tsd = Slots
      /\ pc[t] \in {"scan", "next", "set_tsd"} => av[t] \in Arenas
  BY SMT DEF ForkTypeInv, ForkTypeOK, ForkPointers, BirthLabels
<1> USE <1>0
<1>1. ASSUME NotMine(t) PROVE P!NotMine(t)
  <2>1. At(t, "owner") /\ "owner" \in Labels
    BY <1>1 DEF NotMine, Labels, InitLabels, SearchLabels, BirthLabels, LinkLabels, EngineLabels
  <2>2. P!At(t, "owner") /\ PlainAv[t] = av[t] /\ pc[t] = "owner" /\ pc[t] \in Labels
        /\ PlainPc[t] = pc[t]
    BY <2>1, PlainAt
  <2>3. pc' = [pc EXCEPT ![t] = pc'[t]] /\ pc'[t] \in Labels
    BY <1>1, SMT DEF NotMine, Goto, Return, Labels, InitLabels, SearchLabels,
           BirthLabels, LinkLabels, EngineLabels
  <2>4. PlainPc' = [PlainPc EXCEPT ![t] = pc'[t]]
    BY <2>2, <2>3, PlainMoves
  <2>5. (av' = av => PlainAv' = PlainAv)
        /\ (av' = [av EXCEPT ![t] = av'[t]] => PlainAv' = [PlainAv EXCEPT ![t] = av'[t]])
    BY <2>2, <2>3, PlainMoves
  <2> QED BY <1>1, <2>2, <2>3, <2>4, <2>5, SMT DEF NotMine, P!NotMine, Goto, Return, P!Goto,
             P!Return, Arenas, P!Arenas
<1>2. ASSUME LockOwner(t) PROVE P!LockOwner(t)
  <2>1. At(t, "owner") /\ "owner" \in Labels
    BY <1>2 DEF LockOwner, Labels, InitLabels, SearchLabels, BirthLabels, LinkLabels,
       EngineLabels
  <2>2. P!At(t, "owner") /\ PlainAv[t] = av[t] /\ pc[t] = "owner" /\ pc[t] \in Labels
        /\ PlainPc[t] = pc[t]
    BY <2>1, PlainAt
  <2>3. pc' = [pc EXCEPT ![t] = pc'[t]] /\ pc'[t] \in Labels
    BY <1>2, SMT DEF LockOwner, Goto, Labels, InitLabels, SearchLabels,
           BirthLabels, LinkLabels, EngineLabels
  <2>4. PlainPc' = [PlainPc EXCEPT ![t] = pc'[t]]
    BY <2>2, <2>3, PlainMoves
  <2>5. (av' = av => PlainAv' = PlainAv)
        /\ (av' = [av EXCEPT ![t] = av'[t]] => PlainAv' = [PlainAv EXCEPT ![t] = av'[t]])
    BY <2>2, <2>3, PlainMoves
  <2>6. UNCHANGED <<P!inits, next, heaps, used, held, op, calls, start, old, blk>>
    BY <1>2 DEF LockOwner
  <2>7. P!Goto(t, "got") /\ P!Take(t, blk[t]) /\ PlainAv' = [PlainAv EXCEPT ![t] = blk[t]]
    BY <1>2, <2>3, <2>4, <2>5, SMT DEF LockOwner, Goto, P!Goto
  <2>8. IF op[t] = "realloc" THEN P!Remember(t, blk[t]) ELSE UNCHANGED PlainTsd
    BY <1>2, PlainRemember DEF LockOwner, Arenas
  <2> QED BY <1>2, <2>2, <2>6, <2>7, <2>8 DEF LockOwner, P!LockOwner
<1>3. ASSUME TrimLock(t) PROVE P!TrimLock(t)
  <2>1. At(t, "trim") /\ "trim" \in Labels
    BY <1>3 DEF TrimLock, Labels, InitLabels, SearchLabels, BirthLabels, LinkLabels,
       EngineLabels
  <2>2. P!At(t, "trim") /\ PlainAv[t] = av[t] /\ pc[t] = "trim" /\ pc[t] \in Labels
        /\ PlainPc[t] = pc[t]
    BY <2>1, PlainAt
  <2>3. pc' = [pc EXCEPT ![t] = pc'[t]] /\ pc'[t] \in Labels
    BY <1>3, SMT DEF TrimLock, Goto, Labels, InitLabels, SearchLabels,
           BirthLabels, LinkLabels, EngineLabels
  <2>4. PlainPc' = [PlainPc EXCEPT ![t] = pc'[t]]
    BY <2>2, <2>3, PlainMoves
  <2>5. (av' = av => PlainAv' = PlainAv)
        /\ (av' = [av EXCEPT ![t] = av'[t]] => PlainAv' = [PlainAv EXCEPT ![t] = av'[t]])
    BY <2>2, <2>3, PlainMoves
  <2> QED BY <1>3, <2>2, <2>3, <2>4, <2>5, SMT DEF TrimLock, P!TrimLock, Goto, P!Goto
<1> QED BY <1>1, <1>2, <1>3 DEF Own, P!Own
LEMMA PlainCall ==
  ASSUME ForkTypeInv, NEW t \in Threads, Call(t), UNCHANGED forkvars
  PROVE  P!Call(t)
<1>1. At(t, "idle") /\ "idle" \in Labels
  BY DEF Call, Labels
<1>2. P!At(t, "idle") /\ pc[t] \in Labels
  BY <1>1, PlainAt
<1>3. pc' = [pc EXCEPT ![t] = "enter"] /\ pc'[t] = "enter" /\ "enter" \in Labels
  BY SMT DEF Call, Goto, Labels, ForkTypeInv, ForkTypeOK
<1>4. P!Goto(t, "enter") /\ PlainAv' = PlainAv
  BY <1>2, <1>3, PlainMoves DEF P!Goto, Call, lookup
<1>5. UNCHANGED <<P!shared, P!lookup>>
  BY <1>4, PlainShared DEF Call, shared, lookup, forkvars, P!shared, P!lookup
<1> QED BY <1>2, <1>4, <1>5 DEF Call, P!Call, CanStart, P!CanStart, P!Arenas, Arenas

\* In the parent only the thread that forks finds its slot marked.
LEMMA NotMarked ==
  ASSUME P!DistinctSlots, ForkTypeInv, ParentInv, NEW t \in Threads,
         pc[t] \notin {"fork", "unlock_tsd"}
  PROVE  tsd[SlotOf[t]] # Atfork
  BY ArenaAssumption, SMT DEF ParentInv, P!DistinctSlots

LEMMA PlainWorks ==
  ASSUME P!DistinctSlots, ForkTypeInv, OneForks, ParentInv, PlainInv, NEW t \in Threads,
         Call(t) \/ Work(t), UNCHANGED forkvars
  PROVE  P!Call(t) \/ P!Work(t)
<1>1. pc[t] \in Labels
  BY SMT DEF At, Labels, InitLabels, SearchLabels, BirthLabels, LinkLabels, EngineLabels, Call,
     Work, Enter, Initialise, Search, Create, Use, Own,
     EnterPlain, EnterRealloc, EnterSmall, EnterIni, DropHook, EnterStarter, InitCheck, InitClaim,
     InitMain, InitRing, InitList, InitTsd, InitDone, GetTsd, TryDirect,
     Get2, LockMain, ScanTake, ScanBusy, ScanNext, ScanCrash, TryList,
     DropList, NewArena, NewArenaFails, SetTsd, MutexInit, MutexLock, ListLock,
     LinkNext, LinkMain, ListUnlock, GotNothing, RefuseMain, EngineEnter, EngineLeave,
     EngineFails, Unlock, UnlockFailed, NotMine, LockOwner, TrimLock
<1>2. tsd[SlotOf[t]] # Atfork
  BY <1>1, NotMarked, SMT DEF Labels, InitLabels, SearchLabels, BirthLabels, LinkLabels,
                              EngineLabels
<1> QED BY <1>2, PlainCall, PlainEnter, PlainInitialise, PlainSearch, PlainCreate, PlainUse,
           PlainOwn DEF Work, P!Work

----------------------------------------------------------------------------
(* The parent's invariant.                                                 *)

LEMMA PlainInvKept ==
  ASSUME P!Orderly, PlainInv, [P!Next]_(P!vars)
  PROVE  PlainInv'
<1> USE ArenaAssumption DEF Arenas, AllOps, AllocOps, P!AllocOps, P!Arenas, P!AllOps
<1>1. P!TypeInv' /\ P!ArenaInv' /\ P!ListInv'
  BY P!TypeStep, P!ArenaInvStep, P!ListStep DEF PlainInv, P!Inductive, P!ArenaInv
<1>2. P!RingInv' /\ P!ChainInv'
  BY P!RingStep, P!ChainStep DEF PlainInv, P!Inductive, P!ArenaInv
<1> QED BY <1>1, <1>2 DEF PlainInv, P!Inductive

LEMMA PlainWorkKeeps ==
  ASSUME P!Orderly, ForkTypeInv, OneForks, ParentInv, PlainInv, NEW t \in Threads,
         Call(t) \/ Work(t), UNCHANGED forkvars
  PROVE  PlainInv'
<1>1. P!Next
  BY PlainWorks DEF P!Next, P!Orderly
<1> QED BY <1>1, PlainInvKept

LEMMA InterferenceKeeps ==
  ASSUME PlainInv, P!Interference
  PROVE  PlainInv'
<1> USE ArenaAssumption DEF Arenas, AllOps, AllocOps, P!AllocOps, P!Arenas, P!AllOps
<1> QED BY P!InterferenceHarmless DEF PlainInv

LEMMA LockTyped ==
  ASSUME mutex \in [Locks -> Threads \cup {Null}], NEW l, NEW u \in Threads \cup {Null},
         mutex' = [mutex EXCEPT ![l] = u]
  PROVE  mutex' \in [Locks -> Threads \cup {Null}]
<1>1. mutex' = [k \in Locks |-> IF k = l THEN u ELSE mutex[k]]
  OBVIOUS
<1> QED BY <1>1

LEMMA ForkTypeCall ==
  ASSUME NEW t \in Threads, ForkTypeInv, Call(t), UNCHANGED forkvars
  PROVE  ForkTypeInv'
<1> USE ArenaAssumption, ForkAssumption
        DEF ForkTypeInv, ForkTypeOK, ForkPointers, HookValues, WaitLabels, ForkLabels,
        PrepareLabels, ParentLabels, Labels, InitLabels, SearchLabels, BirthLabels,
        LinkLabels, EngineLabels, AllOps, AllocOps, Hooks, Arenas, Locks, Goto, At, Take,
        Remember, Crash, Return, HookOf, Marked, shared, lookup, inits, forkvars
<1>1. PICK o \in Ops, b \in Arenas \cup {Foreign, Null} :
        /\ b \in Arenas => held[b] > 0
        /\ op' = [op EXCEPT ![t] = o]
        /\ blk' = [blk EXCEPT ![t] = b]
        /\ held' = IF b \in Arenas THEN [held EXCEPT ![b] = @ - 1] ELSE held
  BY DEF Call
<1>2. /\ pc' = [pc EXCEPT ![t] = "enter"] /\ calls' = [calls EXCEPT ![t] = @ + 1]
      /\ UNCHANGED <<shared, lookup>>
  BY DEF Call
<1>3. held' \in [Arenas -> Nat]
  BY <1>1, SMT
<1>4. op' \in [Threads -> AllOps \cup {"none", "starter_malloc", "starter_free"}]
  BY <1>1, SMT
<1>5. ForkTypeOK'
  BY <1>1, <1>2, <1>3, <1>4, SMT
<1>6. ForkPointers'
  BY <1>2, SMT
<1> QED BY <1>5, <1>6

LEMMA ForkTypeEnter ==
  ASSUME NEW t \in Threads, ForkTypeInv, Enter(t), UNCHANGED forkvars
  PROVE  ForkTypeInv'
<1> USE ArenaAssumption, ForkAssumption
        DEF ForkTypeInv, ForkTypeOK, ForkPointers, HookValues, WaitLabels, ForkLabels,
        PrepareLabels, ParentLabels, Labels, InitLabels, SearchLabels, BirthLabels,
        LinkLabels, EngineLabels, AllOps, AllocOps, Hooks, Arenas, Locks, Goto, At, Take,
        Remember, Crash, Return, HookOf, Marked, shared, lookup, inits, forkvars
<1>1. CASE EnterPlain(t)
  BY <1>1, SMT DEF EnterPlain
<1>s. CASE EnterSmall(t)
  BY <1>s, SMT DEF EnterSmall
<1>2. CASE EnterRealloc(t)
  BY <1>2, SMT DEF EnterRealloc
<1>3. CASE EnterIni(t)
  BY <1>3, SMT DEF EnterIni
<1>4. CASE DropHook(t)
  BY <1>4, SMT DEF DropHook
<1>5. CASE EnterStarter(t)
  BY <1>5, SMT DEF EnterStarter
<1> QED BY <1>1, <1>2, <1>s, <1>3, <1>4, <1>5 DEF Enter

LEMMA ForkTypeInitialise ==
  ASSUME NEW t \in Threads, ForkTypeInv, Initialise(t), UNCHANGED forkvars
  PROVE  ForkTypeInv'
<1> USE ArenaAssumption, ForkAssumption
        DEF ForkTypeInv, ForkTypeOK, ForkPointers, HookValues, WaitLabels, ForkLabels,
        PrepareLabels, ParentLabels, Labels, InitLabels, SearchLabels, BirthLabels,
        LinkLabels, EngineLabels, AllOps, AllocOps, Hooks, Arenas, Locks, Goto, At, Take,
        Remember, Crash, Return, HookOf, Marked, shared, lookup, inits, forkvars
<1>1. CASE InitCheck(t)
  BY <1>1, SMT DEF InitCheck
<1>2. CASE InitClaim(t)
  BY <1>2, SMT DEF InitClaim
<1>3. CASE InitMain(t)
  BY <1>3, SMT DEF InitMain
<1>4. CASE InitRing(t)
  BY <1>4, SMT DEF InitRing
<1>5. CASE InitList(t)
  BY <1>5, SMT DEF InitList
<1>6. CASE InitTsd(t)
  BY <1>6, SMT DEF InitTsd
<1>7. CASE InitDone(t)
  BY <1>7, SMT DEF InitDone
<1> QED BY <1>1, <1>2, <1>3, <1>4, <1>5, <1>6, <1>7 DEF Initialise

LEMMA ForkTypeSearch ==
  ASSUME NEW t \in Threads, ForkTypeInv, Search(t), UNCHANGED forkvars,
  ~(pc[t] = "get" /\ Marked(t))
  PROVE  ForkTypeInv'
<1> USE ArenaAssumption, ForkAssumption
        DEF ForkTypeInv, ForkTypeOK, ForkPointers, HookValues, WaitLabels, ForkLabels,
        PrepareLabels, ParentLabels, Labels, InitLabels, SearchLabels, BirthLabels,
        LinkLabels, EngineLabels, AllOps, AllocOps, Hooks, Arenas, Locks, Goto, At, Take,
        Remember, Crash, Return, HookOf, Marked, shared, lookup, inits, forkvars
<1>1. CASE GetTsd(t)
  BY <1>1, SMT DEF GetTsd
<1>2. CASE TryDirect(t)
  BY <1>2, SMT DEF TryDirect
<1>3. CASE Get2(t)
  BY <1>3, SMT DEF Get2
<1>4. CASE LockMain(t)
  BY <1>4, SMT DEF LockMain
<1>5. CASE ScanTake(t)
  BY <1>5, SMT DEF ScanTake
<1>6. CASE ScanBusy(t)
  BY <1>6, SMT DEF ScanBusy
<1>7. CASE ScanNext(t)
  BY <1>7, SMT DEF ScanNext
<1>8. CASE ScanCrash(t)
  BY <1>8, SMT DEF ScanCrash
<1>9. CASE TryList(t)
  BY <1>9, SMT DEF TryList
<1> QED BY <1>1, <1>2, <1>3, <1>4, <1>5, <1>6, <1>7, <1>8, <1>9 DEF Search

LEMMA ForkTypeCreate ==
  ASSUME NEW t \in Threads, ForkTypeInv, Create(t), UNCHANGED forkvars
  PROVE  ForkTypeInv'
<1> USE ArenaAssumption, ForkAssumption
        DEF ForkTypeInv, ForkTypeOK, ForkPointers, HookValues, WaitLabels, ForkLabels,
        PrepareLabels, ParentLabels, Labels, InitLabels, SearchLabels, BirthLabels,
        LinkLabels, EngineLabels, AllOps, AllocOps, Hooks, Arenas, Locks, Goto, At, Take,
        Remember, Crash, Return, HookOf, Marked, shared, lookup, inits, forkvars
<1>1. CASE DropList(t)
  BY <1>1, SMT DEF DropList
<1>2. CASE NewArena(t)
  BY <1>2, SMT DEF NewArena
<1>3. CASE NewArenaFails(t)
  BY <1>3, SMT DEF NewArenaFails
<1>4. CASE SetTsd(t)
  BY <1>4, SMT DEF SetTsd
<1>5. CASE MutexInit(t)
  BY <1>5, SMT DEF MutexInit
<1>6. CASE MutexLock(t)
  BY <1>6, SMT DEF MutexLock
<1>7. CASE ListLock(t)
  BY <1>7, SMT DEF ListLock
<1>8. CASE LinkNext(t)
  BY <1>8, SMT DEF LinkNext
<1>9. CASE LinkMain(t)
  BY <1>9, SMT DEF LinkMain
<1>10. CASE ListUnlock(t)
  BY <1>10, SMT DEF ListUnlock
<1> QED BY <1>1, <1>2, <1>3, <1>4, <1>5, <1>6, <1>7, <1>8, <1>9, <1>10 DEF Create

LEMMA ForkTypeUse ==
  ASSUME NEW t \in Threads, ForkTypeInv, Use(t), UNCHANGED forkvars
  PROVE  ForkTypeInv'
<1> USE ArenaAssumption, ForkAssumption
        DEF ForkTypeInv, ForkTypeOK, ForkPointers, HookValues, WaitLabels, ForkLabels,
        PrepareLabels, ParentLabels, Labels, InitLabels, SearchLabels, BirthLabels,
        LinkLabels, EngineLabels, AllOps, AllocOps, Hooks, Arenas, Locks, Goto, At, Take,
        Remember, Crash, Return, HookOf, Marked, shared, lookup, inits, forkvars
<1>1. CASE GotNothing(t)
  BY <1>1, SMT DEF GotNothing
<1>2. CASE RefuseMain(t)
  BY <1>2, SMT DEF RefuseMain
<1>3. CASE EngineEnter(t)
  BY <1>3, SMT DEF EngineEnter
<1>4. CASE EngineLeave(t)
  BY <1>4, SMT DEF EngineLeave, Gain
<1>5. CASE EngineFails(t)
  <2>1. CASE op[t] = "malloc"
    BY <1>5, <2>1, SMT DEF EngineFails
  <2>2. CASE op[t] # "malloc"
    BY <1>5, <2>2, SMT DEF EngineFails
  <2> QED BY <2>1, <2>2
<1>6. CASE Unlock(t)
  BY <1>6, SMT DEF Unlock
<1>7. CASE UnlockFailed(t)
  BY <1>7, SMTT(20) DEF UnlockFailed
<1> QED BY <1>1, <1>2, <1>3, <1>4, <1>5, <1>6, <1>7 DEF Use

LEMMA ForkTypeOwn ==
  ASSUME NEW t \in Threads, ForkTypeInv, Own(t), UNCHANGED forkvars
  PROVE  ForkTypeInv'
<1> USE ArenaAssumption, ForkAssumption
        DEF ForkTypeInv, ForkTypeOK, ForkPointers, HookValues, WaitLabels, ForkLabels,
        PrepareLabels, ParentLabels, Labels, InitLabels, SearchLabels, BirthLabels,
        LinkLabels, EngineLabels, AllOps, AllocOps, Hooks, Arenas, Locks, Goto, At, Take,
        Remember, Crash, Return, HookOf, Marked, shared, lookup, inits, forkvars
<1>1. CASE NotMine(t)
  BY <1>1, SMT DEF NotMine
<1>2. CASE LockOwner(t)
  BY <1>2, SMT DEF LockOwner
<1>3. CASE TrimLock(t)
  BY <1>3, SMT DEF TrimLock
<1> QED BY <1>1, <1>2, <1>3 DEF Own

LEMMA ForkTypePrepare ==
  ASSUME NEW t \in Threads, ForkTypeInv, pc[t] \in {"fork_next",
  "unlock_next"} => next[av[t]] # Null,
         Prepare(t)
  PROVE  ForkTypeInv'
<1> USE ArenaAssumption, ForkAssumption
        DEF ForkTypeInv, ForkTypeOK, ForkPointers, HookValues, WaitLabels, ForkLabels,
        PrepareLabels, ParentLabels, Labels, InitLabels, SearchLabels, BirthLabels,
        LinkLabels, EngineLabels, AllOps, AllocOps, Hooks, Arenas, Locks, Goto, At, Take,
        Remember, Crash, Return, HookOf, Marked, shared, lookup, inits, forkvars
<1>1. CASE LockAllList(t)
  BY <1>1, SMT DEF LockAllList
<1>2. CASE LockAllArena(t)
  BY <1>2, SMT DEF LockAllArena
<1>3. CASE LockAllNext(t)
  BY <1>3, SMT DEF LockAllNext, GoRound
<1>4. CASE LockAllHooks(t)
  BY <1>4, SMT DEF LockAllHooks
<1>5. CASE LockAllTsd(t)
  BY <1>5, SMT DEF LockAllTsd
<1> QED BY <1>1, <1>2, <1>3, <1>4, <1>5 DEF Prepare

LEMMA ForkTypeParent ==
  ASSUME NEW t \in Threads, ForkTypeInv, pc[t] \in {"fork_next",
  "unlock_next"} => next[av[t]] # Null,
         Parent(t)
  PROVE  ForkTypeInv'
<1> USE ArenaAssumption, ForkAssumption
        DEF ForkTypeInv, ForkTypeOK, ForkPointers, HookValues, WaitLabels, ForkLabels,
        PrepareLabels, ParentLabels, Labels, InitLabels, SearchLabels, BirthLabels,
        LinkLabels, EngineLabels, AllOps, AllocOps, Hooks, Arenas, Locks, Goto, At, Take,
        Remember, Crash, Return, HookOf, Marked, shared, lookup, inits, forkvars
<1>1. CASE ForkParent(t)
  BY <1>1, SMT DEF ForkParent
<1>2. CASE UnlockAllTsd(t)
  BY <1>2, SMT DEF UnlockAllTsd
<1>3. CASE UnlockAllHooks(t)
  BY <1>3, SMT DEF UnlockAllHooks
<1>4. CASE UnlockAllArena(t)
  BY <1>4, SMT DEF UnlockAllArena
<1>5. CASE UnlockAllNext(t)
  BY <1>5, SMT DEF UnlockAllNext, GoRound
<1>6. CASE UnlockAllList(t)
  BY <1>6, SMT DEF UnlockAllList
<1> QED BY <1>1, <1>2, <1>3, <1>4, <1>5, <1>6 DEF Parent

LEMMA ForkTypeAtforkWork ==
  ASSUME NEW t \in Threads, ForkTypeInv, AtforkWork(t)
  PROVE  ForkTypeInv'
<1> USE ArenaAssumption, ForkAssumption
        DEF ForkTypeInv, ForkTypeOK, ForkPointers, HookValues, WaitLabels, ForkLabels,
        PrepareLabels, ParentLabels, Labels, InitLabels, SearchLabels, BirthLabels,
        LinkLabels, EngineLabels, AllOps, AllocOps, Hooks, Arenas, Locks, Goto, At, Take,
        Remember, Crash, Return, HookOf, Marked, shared, lookup, inits, forkvars
<1>1. CASE MallocAtfork(t)
  BY <1>1, SMT DEF MallocAtfork, Unlocked
<1>2. CASE WaitList(t)
  BY <1>2, SMT DEF WaitList
<1>3. CASE LeaveList(t)
  BY <1>3, SMT DEF LeaveList
<1>4. CASE FreeAtfork(t)
  BY <1>4, SMTT(20) DEF FreeAtfork, Unlocked, ArenaForChunk
<1>5. CASE LockChunkArena(t)
  <2>1. av' = [av EXCEPT ![t] = ArenaForChunk(blk[t])]
        /\ ArenaForChunk(blk[t]) \in Arenas \cup {Null}
    BY <1>5, SMT DEF LockChunkArena, ArenaForChunk
  <2>2. mutex' = [mutex EXCEPT ![ArenaForChunk(blk[t])] = t]
    BY <1>5 DEF LockChunkArena
  <2>3. pc' = [pc EXCEPT ![t] = "got"] /\ UNCHANGED <<inits, next, heaps, tsd, used, held,
        op, calls, start, old, blk,
                 forkvars>>
    BY <1>5 DEF LockChunkArena
  <2>4. mutex' \in [Locks -> Threads \cup {Null}]
    <3> DEFINE l == ArenaForChunk(blk[t])
    <3> HIDE DEF l
    <3>1. mutex' = [mutex EXCEPT ![l] = t]
      BY <2>2 DEF l
    <3> QED BY <3>1, LockTyped DEF ForkTypeInv, ForkTypeOK
  <2>5. ForkTypeOK'
    BY <2>1, <2>3, <2>4, SMT
  <2>6. ForkPointers'
    BY <2>1, <2>3, SMT
  <2> QED BY <2>5, <2>6
<1>6. CASE GetMark(t)
  BY <1>6, SMT DEF GetMark
<1> QED BY <1>1, <1>2, <1>3, <1>4, <1>5, <1>6 DEF AtforkWork

LEMMA ForkTypeForks ==
  ASSUME NEW t \in Threads, ForkTypeInv, Forks(t)
  PROVE  ForkTypeInv'
<1> USE ArenaAssumption, ForkAssumption
        DEF ForkTypeInv, ForkTypeOK, ForkPointers, HookValues, WaitLabels, ForkLabels,
        PrepareLabels, ParentLabels, Labels, InitLabels, SearchLabels, BirthLabels,
        LinkLabels, EngineLabels, AllOps, AllocOps, Hooks, Arenas, Locks, Goto, At, Take,
        Remember, Crash, Return, HookOf, Marked, shared, lookup, inits, forkvars
<1>1. CASE Forks(t)
  BY <1>1, SMT DEF Forks
<1> QED BY <1>1

----------------------------------------------------------------------------
(* One thread forks, and it holds the list lock.                           *)

\* While the allocator starts nobody forks.
Settled ==
  /\ \A t \in Threads : pc[t] \in {"claim"} \cup InitLabels => initialized # 1
  /\ \A h \in Hooks : hook[h] = "atfork" => initialized = 1
  /\ initialized # 1 => mutex["list"] = Null

LEMMA ForkListCall ==
  ASSUME NEW t \in Threads, ForkTypeInv, OneForks, ListHeld, Settled,
         Call(t), UNCHANGED forkvars
  PROVE  OneForks' /\ ListHeld'
<1> USE ArenaAssumption, ForkAssumption
        DEF OneForks, ListHeld, Settled, ForkTypeInv, ForkTypeOK, ForkPointers, WaitLabels,
        ForkLabels, PrepareLabels, ParentLabels, Labels, InitLabels, SearchLabels,
        BirthLabels, LinkLabels, EngineLabels, Hooks, Arenas, Locks, Goto, At, Take,
        Crash, Return, Forking, shared, inits, forkvars
<1>1. CASE Call(t)
  BY <1>1, SMT DEF Call, CanStart
<1> QED BY <1>1

LEMMA ForkListEnter ==
  ASSUME NEW t \in Threads, ForkTypeInv, OneForks, ListHeld, Settled,
         Enter(t), UNCHANGED forkvars
  PROVE  OneForks' /\ ListHeld'
<1> USE ArenaAssumption, ForkAssumption
        DEF OneForks, ListHeld, Settled, ForkTypeInv, ForkTypeOK, ForkPointers, WaitLabels,
        ForkLabels, PrepareLabels, ParentLabels, Labels, InitLabels, SearchLabels,
        BirthLabels, LinkLabels, EngineLabels, Hooks, Arenas, Locks, Goto, At, Take,
        Crash, Return, Forking, shared, inits, forkvars
<1>1. CASE EnterPlain(t)
  BY <1>1, SMT DEF EnterPlain
<1>s. CASE EnterSmall(t)
  BY <1>s, SMT DEF EnterSmall
<1>2. CASE EnterRealloc(t)
  BY <1>2, SMT DEF EnterRealloc
<1>3. CASE EnterIni(t)
  BY <1>3, SMT DEF EnterIni
<1>4. CASE DropHook(t)
  BY <1>4, SMT DEF DropHook
<1>5. CASE EnterStarter(t)
  BY <1>5, SMT DEF EnterStarter
<1> QED BY <1>1, <1>2, <1>s, <1>3, <1>4, <1>5 DEF Enter

LEMMA ForkListInitialise ==
  ASSUME NEW t \in Threads, ForkTypeInv, OneForks, ListHeld, Settled,
         Initialise(t), UNCHANGED forkvars
  PROVE  OneForks' /\ ListHeld'
<1> USE ArenaAssumption, ForkAssumption
        DEF OneForks, ListHeld, Settled, ForkTypeInv, ForkTypeOK, ForkPointers, WaitLabels,
        ForkLabels, PrepareLabels, ParentLabels, Labels, InitLabels, SearchLabels,
        BirthLabels, LinkLabels, EngineLabels, Hooks, Arenas, Locks, Goto, At, Take,
        Crash, Return, Forking, shared, inits, forkvars
<1>1. CASE InitCheck(t)
  BY <1>1, SMT DEF InitCheck
<1>2. CASE InitClaim(t)
  BY <1>2, SMT DEF InitClaim
<1>3. CASE InitMain(t)
  BY <1>3, SMT DEF InitMain
<1>4. CASE InitRing(t)
  BY <1>4, SMT DEF InitRing
<1>5. CASE InitList(t)
  BY <1>5, SMT DEF InitList
<1>6. CASE InitTsd(t)
  BY <1>6, SMT DEF InitTsd
<1>7. CASE InitDone(t)
  BY <1>7, SMT DEF InitDone
<1> QED BY <1>1, <1>2, <1>3, <1>4, <1>5, <1>6, <1>7 DEF Initialise

LEMMA ForkListSearch ==
  ASSUME NEW t \in Threads, ForkTypeInv, OneForks, ListHeld, Settled,
         Search(t), UNCHANGED forkvars, ~(pc[t] = "get" /\ Marked(t))
  PROVE  OneForks' /\ ListHeld'
<1> USE ArenaAssumption, ForkAssumption
        DEF OneForks, ListHeld, Settled, ForkTypeInv, ForkTypeOK, ForkPointers, WaitLabels,
        ForkLabels, PrepareLabels, ParentLabels, Labels, InitLabels, SearchLabels,
        BirthLabels, LinkLabels, EngineLabels, Hooks, Arenas, Locks, Goto, At, Take,
        Crash, Return, Forking, shared, inits, forkvars
<1>1. CASE GetTsd(t)
  BY <1>1, SMT DEF GetTsd
<1>2. CASE TryDirect(t)
  BY <1>2, SMT DEF TryDirect
<1>3. CASE Get2(t)
  BY <1>3, SMT DEF Get2
<1>4. CASE LockMain(t)
  BY <1>4, SMT DEF LockMain
<1>5. CASE ScanTake(t)
  BY <1>5, SMT DEF ScanTake
<1>6. CASE ScanBusy(t)
  BY <1>6, SMT DEF ScanBusy
<1>7. CASE ScanNext(t)
  BY <1>7, SMT DEF ScanNext
<1>8. CASE ScanCrash(t)
  BY <1>8, SMT DEF ScanCrash
<1>9. CASE TryList(t)
  BY <1>9, SMT DEF TryList
<1> QED BY <1>1, <1>2, <1>3, <1>4, <1>5, <1>6, <1>7, <1>8, <1>9 DEF Search

LEMMA ForkListCreate ==
  ASSUME NEW t \in Threads, ForkTypeInv, OneForks, ListHeld, Settled,
         Create(t), UNCHANGED forkvars
  PROVE  OneForks' /\ ListHeld'
<1> USE ArenaAssumption, ForkAssumption
        DEF OneForks, ListHeld, Settled, ForkTypeInv, ForkTypeOK, ForkPointers, WaitLabels,
        ForkLabels, PrepareLabels, ParentLabels, Labels, InitLabels, SearchLabels,
        BirthLabels, LinkLabels, EngineLabels, Hooks, Arenas, Locks, Goto, At, Take,
        Crash, Return, Forking, shared, inits, forkvars
<1>1. CASE DropList(t)
  BY <1>1, SMT DEF DropList
<1>2. CASE NewArena(t)
  BY <1>2, SMT DEF NewArena
<1>3. CASE NewArenaFails(t)
  BY <1>3, SMT DEF NewArenaFails
<1>4. CASE SetTsd(t)
  BY <1>4, SMT DEF SetTsd
<1>5. CASE MutexInit(t)
  BY <1>5, SMT DEF MutexInit
<1>6. CASE MutexLock(t)
  BY <1>6, SMT DEF MutexLock
<1>7. CASE ListLock(t)
  BY <1>7, SMT DEF ListLock
<1>8. CASE LinkNext(t)
  BY <1>8, SMT DEF LinkNext
<1>9. CASE LinkMain(t)
  BY <1>9, SMT DEF LinkMain
<1>10. CASE ListUnlock(t)
  BY <1>10, SMT DEF ListUnlock
<1> QED BY <1>1, <1>2, <1>3, <1>4, <1>5, <1>6, <1>7, <1>8, <1>9, <1>10 DEF Create

LEMMA ForkListUse ==
  ASSUME NEW t \in Threads, ForkTypeInv, OneForks, ListHeld, Settled,
         Use(t), UNCHANGED forkvars
  PROVE  OneForks' /\ ListHeld'
<1> USE ArenaAssumption, ForkAssumption
        DEF OneForks, ListHeld, Settled, ForkTypeInv, ForkTypeOK, ForkPointers, WaitLabels,
        ForkLabels, PrepareLabels, ParentLabels, Labels, InitLabels, SearchLabels,
        BirthLabels, LinkLabels, EngineLabels, Hooks, Arenas, Locks, Goto, At, Take,
        Crash, Return, Forking, shared, inits, forkvars
<1>1. CASE GotNothing(t)
  BY <1>1, SMTT(20) DEF GotNothing
<1>2. CASE RefuseMain(t)
  BY <1>2, SMT DEF RefuseMain
<1>3. CASE EngineEnter(t)
  BY <1>3, SMT DEF EngineEnter
<1>4. CASE EngineLeave(t)
  BY <1>4, SMT DEF EngineLeave, Gain
<1>5. CASE EngineFails(t)
  BY <1>5, SMTT(20) DEF EngineFails
<1>6. CASE Unlock(t)
  BY <1>6, SMT DEF Unlock
<1>7. CASE UnlockFailed(t)
  BY <1>7, SMTT(20) DEF UnlockFailed
<1> QED BY <1>1, <1>2, <1>3, <1>4, <1>5, <1>6, <1>7 DEF Use

LEMMA ForkListOwn ==
  ASSUME NEW t \in Threads, ForkTypeInv, OneForks, ListHeld, Settled,
         Own(t), UNCHANGED forkvars
  PROVE  OneForks' /\ ListHeld'
<1> USE ArenaAssumption, ForkAssumption
        DEF OneForks, ListHeld, Settled, ForkTypeInv, ForkTypeOK, ForkPointers, WaitLabels,
        ForkLabels, PrepareLabels, ParentLabels, Labels, InitLabels, SearchLabels,
        BirthLabels, LinkLabels, EngineLabels, Hooks, Arenas, Locks, Goto, At, Take,
        Crash, Return, Forking, shared, inits, forkvars
<1>1. CASE NotMine(t)
  BY <1>1, SMT DEF NotMine
<1>2. CASE LockOwner(t)
  BY <1>2, SMT DEF LockOwner
<1>3. CASE TrimLock(t)
  BY <1>3, SMT DEF TrimLock
<1> QED BY <1>1, <1>2, <1>3 DEF Own

LEMMA ForkListPrepare ==
  ASSUME NEW t \in Threads, ForkTypeInv, OneForks, ListHeld, Settled,
         Prepare(t)
  PROVE  OneForks' /\ ListHeld'
<1> USE ArenaAssumption, ForkAssumption
        DEF OneForks, ListHeld, Settled, ForkTypeInv, ForkTypeOK, ForkPointers, WaitLabels,
        ForkLabels, PrepareLabels, ParentLabels, Labels, InitLabels, SearchLabels,
        BirthLabels, LinkLabels, EngineLabels, Hooks, Arenas, Locks, Goto, At, Take,
        Crash, Return, Forking, shared, inits, forkvars
<1>1. CASE LockAllList(t)
  BY <1>1, SMT DEF LockAllList
<1>2. CASE LockAllArena(t)
  BY <1>2, SMT DEF LockAllArena
<1>3. CASE LockAllNext(t)
  BY <1>3, SMT DEF LockAllNext, GoRound
<1>4. CASE LockAllHooks(t)
  BY <1>4, SMT DEF LockAllHooks
<1>5. CASE LockAllTsd(t)
  BY <1>5, SMT DEF LockAllTsd
<1> QED BY <1>1, <1>2, <1>3, <1>4, <1>5 DEF Prepare

LEMMA ForkListParent ==
  ASSUME NEW t \in Threads, ForkTypeInv, OneForks, ListHeld, Settled,
         Parent(t)
  PROVE  OneForks' /\ ListHeld'
<1> USE ArenaAssumption, ForkAssumption
        DEF OneForks, ListHeld, Settled, ForkTypeInv, ForkTypeOK, ForkPointers, WaitLabels,
        ForkLabels, PrepareLabels, ParentLabels, Labels, InitLabels, SearchLabels,
        BirthLabels, LinkLabels, EngineLabels, Hooks, Arenas, Locks, Goto, At, Take,
        Crash, Return, Forking, shared, inits, forkvars
<1>1. CASE ForkParent(t)
  BY <1>1, SMT DEF ForkParent
<1>2. CASE UnlockAllTsd(t)
  BY <1>2, SMT DEF UnlockAllTsd
<1>3. CASE UnlockAllHooks(t)
  BY <1>3, SMT DEF UnlockAllHooks
<1>4. CASE UnlockAllArena(t)
  BY <1>4, SMT DEF UnlockAllArena
<1>5. CASE UnlockAllNext(t)
  BY <1>5, SMT DEF UnlockAllNext, GoRound
<1>6. CASE UnlockAllList(t)
  BY <1>6, SMT DEF UnlockAllList
<1> QED BY <1>1, <1>2, <1>3, <1>4, <1>5, <1>6 DEF Parent

LEMMA ForkListAtforkWork ==
  ASSUME NEW t \in Threads, ForkTypeInv, OneForks, ListHeld, Settled,
         AtforkWork(t)
  PROVE  OneForks' /\ ListHeld'
<1> USE ArenaAssumption, ForkAssumption
        DEF OneForks, ListHeld, Settled, ForkTypeInv, ForkTypeOK, ForkPointers, WaitLabels,
        ForkLabels, PrepareLabels, ParentLabels, Labels, InitLabels, SearchLabels,
        BirthLabels, LinkLabels, EngineLabels, Hooks, Arenas, Locks, Goto, At, Take,
        Crash, Return, Forking, shared, inits, forkvars
<1>1. CASE MallocAtfork(t)
  BY <1>1, SMTT(20) DEF MallocAtfork, Unlocked
<1>2. CASE WaitList(t)
  BY <1>2, SMT DEF WaitList
<1>3. CASE LeaveList(t)
  BY <1>3, SMT DEF LeaveList
<1>4. CASE FreeAtfork(t)
  BY <1>4, SMT DEF FreeAtfork, Unlocked, ArenaForChunk
<1>5. CASE LockChunkArena(t)
  BY <1>5, SMT DEF LockChunkArena, ArenaForChunk
<1>6. CASE GetMark(t)
  BY <1>6, SMT DEF GetMark
<1> QED BY <1>1, <1>2, <1>3, <1>4, <1>5, <1>6 DEF AtforkWork

LEMMA ForkListForks ==
  ASSUME NEW t \in Threads, ForkTypeInv, OneForks, ListHeld, Settled,
         Forks(t)
  PROVE  OneForks' /\ ListHeld'
<1> USE ArenaAssumption, ForkAssumption
        DEF OneForks, ListHeld, Settled, ForkTypeInv, ForkTypeOK, ForkPointers, WaitLabels,
        ForkLabels, PrepareLabels, ParentLabels, Labels, InitLabels, SearchLabels,
        BirthLabels, LinkLabels, EngineLabels, Hooks, Arenas, Locks, Goto, At, Take,
        Crash, Return, Forking, shared, inits, forkvars
<1>1. CASE Forks(t)
  BY <1>1, SMT DEF Forks
<1> QED BY <1>1

----------------------------------------------------------------------------
(* What a step of t leaves alone, unless the child begins.                 *)

OnlyMine(t) ==
  /\ \A u \in Threads \ {t} : /\ pc'[u] = pc[u] /\ av'[u] = av[u] /\ start'[u] = start[u]
                             /\ old'[u] = old[u] /\ op'[u] = op[u] /\ blk'[u] = blk[u]
  /\ \A l \in Locks : mutex'[l] \in {mutex[l], t, Null}
  /\ process' = process
  /\ next' = next \/ pc[t] \in {"init_ring", "link_next", "link_main"}
  /\ heaps \subseteq heaps'

LEMMA OnlyCall ==
  ASSUME NEW t \in Threads, ForkTypeInv, Call(t), UNCHANGED forkvars
  PROVE  OnlyMine(t)
<1> USE DEF ForkTypeInv, ForkTypeOK, OnlyMine, Goto, At, Take, Crash, Return, Remember,
        shared, inits, lookup, forkvars
<1>1. CASE Call(t)
  BY <1>1, SMT DEF Call, CanStart
<1> QED BY <1>1

LEMMA OnlyEnter ==
  ASSUME NEW t \in Threads, ForkTypeInv, Enter(t), UNCHANGED forkvars
  PROVE  OnlyMine(t)
<1> USE DEF ForkTypeInv, ForkTypeOK, OnlyMine, Goto, At, Take, Crash, Return, Remember,
        shared, inits, lookup, forkvars
<1>1. CASE EnterPlain(t)
  BY <1>1, SMT DEF EnterPlain
<1>s. CASE EnterSmall(t)
  BY <1>s, SMT DEF EnterSmall
<1>2. CASE EnterRealloc(t)
  BY <1>2, SMT DEF EnterRealloc
<1>3. CASE EnterIni(t)
  BY <1>3, SMT DEF EnterIni
<1>4. CASE DropHook(t)
  BY <1>4, SMT DEF DropHook
<1>5. CASE EnterStarter(t)
  BY <1>5, SMT DEF EnterStarter
<1> QED BY <1>1, <1>2, <1>s, <1>3, <1>4, <1>5 DEF Enter

LEMMA OnlyInitialise ==
  ASSUME NEW t \in Threads, ForkTypeInv, Initialise(t), UNCHANGED forkvars
  PROVE  OnlyMine(t)
<1> USE DEF ForkTypeInv, ForkTypeOK, OnlyMine, Goto, At, Take, Crash, Return, Remember,
        shared, inits, lookup, forkvars
<1>1. CASE InitCheck(t)
  BY <1>1, SMT DEF InitCheck
<1>2. CASE InitClaim(t)
  BY <1>2, SMT DEF InitClaim
<1>3. CASE InitMain(t)
  BY <1>3, SMT DEF InitMain
<1>4. CASE InitRing(t)
  BY <1>4, SMT DEF InitRing
<1>5. CASE InitList(t)
  BY <1>5, SMT DEF InitList
<1>6. CASE InitTsd(t)
  BY <1>6, SMT DEF InitTsd
<1>7. CASE InitDone(t)
  BY <1>7, SMT DEF InitDone
<1> QED BY <1>1, <1>2, <1>3, <1>4, <1>5, <1>6, <1>7 DEF Initialise

LEMMA OnlySearch ==
  ASSUME NEW t \in Threads, ForkTypeInv, Search(t), UNCHANGED forkvars,
  ~(pc[t] = "get" /\ Marked(t))
  PROVE  OnlyMine(t)
<1> USE DEF ForkTypeInv, ForkTypeOK, OnlyMine, Goto, At, Take, Crash, Return, Remember,
        shared, inits, lookup, forkvars
<1>1. CASE GetTsd(t)
  BY <1>1, SMT DEF GetTsd
<1>2. CASE TryDirect(t)
  BY <1>2, SMT DEF TryDirect
<1>3. CASE Get2(t)
  BY <1>3, SMT DEF Get2
<1>4. CASE LockMain(t)
  BY <1>4, SMT DEF LockMain
<1>5. CASE ScanTake(t)
  BY <1>5, SMT DEF ScanTake
<1>6. CASE ScanBusy(t)
  BY <1>6, SMT DEF ScanBusy
<1>7. CASE ScanNext(t)
  BY <1>7, SMT DEF ScanNext
<1>8. CASE ScanCrash(t)
  BY <1>8, SMT DEF ScanCrash
<1>9. CASE TryList(t)
  BY <1>9, SMT DEF TryList
<1> QED BY <1>1, <1>2, <1>3, <1>4, <1>5, <1>6, <1>7, <1>8, <1>9 DEF Search

LEMMA OnlyCreate ==
  ASSUME NEW t \in Threads, ForkTypeInv, Create(t), UNCHANGED forkvars
  PROVE  OnlyMine(t)
<1> USE DEF ForkTypeInv, ForkTypeOK, OnlyMine, Goto, At, Take, Crash, Return, Remember,
        shared, inits, lookup, forkvars
<1>1. CASE DropList(t)
  BY <1>1, SMT DEF DropList
<1>2. CASE NewArena(t)
  BY <1>2, SMT DEF NewArena
<1>3. CASE NewArenaFails(t)
  BY <1>3, SMT DEF NewArenaFails
<1>4. CASE SetTsd(t)
  BY <1>4, SMT DEF SetTsd
<1>5. CASE MutexInit(t)
  BY <1>5, SMT DEF MutexInit
<1>6. CASE MutexLock(t)
  BY <1>6, SMT DEF MutexLock
<1>7. CASE ListLock(t)
  BY <1>7, SMT DEF ListLock
<1>8. CASE LinkNext(t)
  BY <1>8, SMT DEF LinkNext
<1>9. CASE LinkMain(t)
  BY <1>9, SMT DEF LinkMain
<1>10. CASE ListUnlock(t)
  BY <1>10, SMT DEF ListUnlock
<1> QED BY <1>1, <1>2, <1>3, <1>4, <1>5, <1>6, <1>7, <1>8, <1>9, <1>10 DEF Create

LEMMA OnlyUse ==
  ASSUME NEW t \in Threads, ForkTypeInv, Use(t), UNCHANGED forkvars
  PROVE  OnlyMine(t)
<1> USE DEF ForkTypeInv, ForkTypeOK, OnlyMine, Goto, At, Take, Crash, Return, Remember,
        shared, inits, lookup, forkvars
<1>1. CASE GotNothing(t)
  BY <1>1, SMT DEF GotNothing
<1>2. CASE RefuseMain(t)
  BY <1>2, SMT DEF RefuseMain
<1>3. CASE EngineEnter(t)
  BY <1>3, SMT DEF EngineEnter
<1>4. CASE EngineLeave(t)
  BY <1>4, SMT DEF EngineLeave, Gain
<1>5. CASE EngineFails(t)
  BY <1>5, SMT DEF EngineFails
<1>6. CASE Unlock(t)
  BY <1>6, SMT DEF Unlock
<1>7. CASE UnlockFailed(t)
  BY <1>7, SMT DEF UnlockFailed
<1> QED BY <1>1, <1>2, <1>3, <1>4, <1>5, <1>6, <1>7 DEF Use

LEMMA OnlyOwn ==
  ASSUME NEW t \in Threads, ForkTypeInv, Own(t), UNCHANGED forkvars
  PROVE  OnlyMine(t)
<1> USE DEF ForkTypeInv, ForkTypeOK, OnlyMine, Goto, At, Take, Crash, Return, Remember,
        shared, inits, lookup, forkvars
<1>1. CASE NotMine(t)
  BY <1>1, SMT DEF NotMine
<1>2. CASE LockOwner(t)
  BY <1>2, SMT DEF LockOwner
<1>3. CASE TrimLock(t)
  BY <1>3, SMT DEF TrimLock
<1> QED BY <1>1, <1>2, <1>3 DEF Own

LEMMA OnlyPrepare ==
  ASSUME NEW t \in Threads, ForkTypeInv, Prepare(t)
  PROVE  OnlyMine(t)
<1> USE DEF ForkTypeInv, ForkTypeOK, OnlyMine, Goto, At, Take, Crash, Return, Remember,
        shared, inits, lookup, forkvars
<1>1. CASE LockAllList(t)
  BY <1>1, SMT DEF LockAllList
<1>2. CASE LockAllArena(t)
  BY <1>2, SMT DEF LockAllArena
<1>3. CASE LockAllNext(t)
  BY <1>3, SMT DEF LockAllNext, GoRound
<1>4. CASE LockAllHooks(t)
  BY <1>4, SMT DEF LockAllHooks
<1>5. CASE LockAllTsd(t)
  BY <1>5, SMT DEF LockAllTsd
<1> QED BY <1>1, <1>2, <1>3, <1>4, <1>5 DEF Prepare

LEMMA OnlyParent ==
  ASSUME NEW t \in Threads, ForkTypeInv, Parent(t)
  PROVE  OnlyMine(t)
<1> USE DEF ForkTypeInv, ForkTypeOK, OnlyMine, Goto, At, Take, Crash, Return, Remember,
        shared, inits, lookup, forkvars
<1>1. CASE ForkParent(t)
  BY <1>1, SMT DEF ForkParent
<1>2. CASE UnlockAllTsd(t)
  BY <1>2, SMT DEF UnlockAllTsd
<1>3. CASE UnlockAllHooks(t)
  BY <1>3, SMT DEF UnlockAllHooks
<1>4. CASE UnlockAllArena(t)
  BY <1>4, SMT DEF UnlockAllArena
<1>5. CASE UnlockAllNext(t)
  BY <1>5, SMT DEF UnlockAllNext, GoRound
<1>6. CASE UnlockAllList(t)
  BY <1>6, SMT DEF UnlockAllList
<1> QED BY <1>1, <1>2, <1>3, <1>4, <1>5, <1>6 DEF Parent

LEMMA OnlyAtforkWork ==
  ASSUME NEW t \in Threads, ForkTypeInv, AtforkWork(t)
  PROVE  OnlyMine(t)
<1> USE DEF ForkTypeInv, ForkTypeOK, OnlyMine, Goto, At, Take, Crash, Return, Remember,
        shared, inits, lookup, forkvars
<1>1. CASE MallocAtfork(t)
  BY <1>1, SMT DEF MallocAtfork, Unlocked
<1>2. CASE WaitList(t)
  BY <1>2, SMT DEF WaitList
<1>3. CASE LeaveList(t)
  BY <1>3, SMT DEF LeaveList
<1>4. CASE FreeAtfork(t)
  BY <1>4, SMT DEF FreeAtfork, Unlocked, ArenaForChunk
<1>5. CASE LockChunkArena(t)
  BY <1>5, SMT DEF LockChunkArena, ArenaForChunk
<1>6. CASE GetMark(t)
  BY <1>6, SMT DEF GetMark
<1> QED BY <1>1, <1>2, <1>3, <1>4, <1>5, <1>6 DEF AtforkWork

LEMMA OnlyForks ==
  ASSUME NEW t \in Threads, ForkTypeInv, Forks(t)
  PROVE  OnlyMine(t)
<1> USE DEF ForkTypeInv, ForkTypeOK, OnlyMine, Goto, At, Take, Crash, Return, Remember,
        shared, inits, lookup, forkvars
<1>1. CASE Forks(t)
  BY <1>1, SMT DEF Forks
<1> QED BY <1>1

----------------------------------------------------------------------------
(* The ring.                                                               *)

LEMMA RingLeast == ASSUME NEW C \in SUBSET Arenas, Closed(C) PROVE OnRing \subseteq C
  BY DEF OnRing

LEMMA MainOnRing == Main \in OnRing /\ OnRing \subseteq Arenas
  BY DEF OnRing, Closed, Arenas

\* The ring goes on.
LEMMA RingMoves ==
  ASSUME next \in [Arenas -> Arenas \cup {Null}], NeverEnds, NEW a \in OnRing
  PROVE  next[a] \in OnRing /\ next[a] # Null
<1> DEFINE C == {b \in Arenas : next[b] # Null}
<1>1. Closed(C)
  BY ArenaAssumption DEF Closed, NeverEnds, Arenas
<1>2. next[a] # Null /\ a \in Arenas
  BY <1>1, RingLeast, MainOnRing
<1>3. ASSUME NEW E \in SUBSET Arenas, Closed(E) PROVE next[a] \in E
  BY <1>2, <1>3 DEF OnRing, Closed
<1> QED BY <1>2, <1>3 DEF OnRing

\* A round that is back at main_arena has been everywhere.
LEMMA RoundEnds ==
  ASSUME NEW D \in SUBSET OnRing, NEW a, Through(D, a), next[a] = Main
  PROVE  OnRing = D
<1>1. Closed(D) /\ D \in SUBSET Arenas
  BY MainOnRing DEF Through, Closed
<1> QED BY <1>1, RingLeast

\* On the way along the ring nothing is met twice.
LEMMA RoundGoesOn ==
  ASSUME NEW r, P!Descending(r), NEW D \in SUBSET OnRing, NEW a, Through(D, a),
         next[a] # Main
  PROVE  next[a] \notin D
<1> SUFFICES ASSUME next[a] \in D PROVE FALSE
  OBVIOUS
<1> DEFINE E == D \ {Main}
           R == {r[b] : b \in E}
<1>1. E \subseteq Dynamic /\ next[a] \in E
  BY MainOnRing DEF Arenas
<1>2. r \in [Arenas -> Nat]
        /\ \A b \in Dynamic : next[b] \notin {Main, Null} => r[next[b]] < r[b]
  BY DEF P!Descending, P!Arenas, Arenas
<1>3. \A b \in E : next[b] \in E
  BY DEF Through
<1>4. R \in SUBSET Nat /\ r[next[a]] \in R
  BY <1>1, <1>2 DEF Arenas
<1>5. PICK m \in R : \A k \in R : m <= k
  BY <1>4, LeastNatural
<1>6. PICK b \in E : m = r[b]
  BY <1>5
<1>7. next[b] \in E /\ next[b] \notin {Main, Null} /\ b \in Dynamic
  BY <1>1, <1>3, ArenaAssumption DEF Arenas
<1>8. r[next[b]] < r[b] /\ r[next[b]] \in R /\ r[b] \in Nat /\ r[next[b]] \in Nat
  BY <1>1, <1>2, <1>7 DEF Arenas
<1> QED BY <1>5, <1>6, <1>8

\* An arena whose lock is taken on the way is one that any thread may know.
LEMMA RingIsPublic ==
  ASSUME ForkTypeInv, P!SharedRefsKnown
  PROVE  \A a \in OnRing \ {Main} : P!Public(a)
<1> DEFINE C == {b \in Arenas : b = Main \/ P!Public(b)}
<1>1. \A a \in Arenas : P!Known(next[a])
  BY DEF P!SharedRefsKnown, P!Arenas, Arenas
<1>2. Closed(C)
  BY <1>1, SMT DEF Closed, P!Known, Arenas, ForkTypeInv, ForkTypeOK
<1> QED BY <1>2, RingLeast

----------------------------------------------------------------------------
(* The rounds of the handlers.                                             *)

\* The forking thread on its rounds, and between them.
RoundLabels == ForkLabels \ {"fork_list"}

LEMMA RoundElsewhere ==
  ASSUME NEW t \in Threads, pc'[t] \notin RoundLabels
  PROVE  RoundAt(t)'
  BY SMT DEF RoundAt, RoundLabels, ForkLabels, PrepareLabels, ParentLabels

LEMMA SameRing ==
  ASSUME next' = next
  PROVE  /\ OnRing' = OnRing
         /\ \A D, a : (Upto(D, a)' <=> Upto(D, a)) /\ (Through(D, a)' <=> Through(D, a))
  BY DEF OnRing, Closed, Upto, Through

LEMMA RoundFrame ==
  ASSUME NEW t \in Threads, RoundAt(t), pc'[t] = pc[t], av'[t] = av[t], process' = process,
         next' = next, \A b \in Dynamic : mutex'[b] = t <=> mutex[b] = t
  PROVE  RoundAt(t)'
<1>1. OnRing' = OnRing
  BY SameRing
<1>2. ASSUME NEW D \in SUBSET OnRing, NEW a \in OnRing
      PROVE  /\ (LockedBy(t, D)' <=> LockedBy(t, D)) /\ (UnlockedBy(t, D)' <=> UnlockedBy(t, D))
             /\ (LockedBy(t, OnRing \ D)' <=> LockedBy(t, OnRing \ D))
             /\ (LockedBy(t, (OnRing \ D) \cup {a})' <=> LockedBy(t, (OnRing \ D) \cup {a}))
  <2>1. \A b \in OnRing \ {Main} : mutex'[b] = t <=> mutex[b] = t
    BY MainOnRing DEF Arenas
  <2> QED BY <1>1, <2>1 DEF LockedBy, UnlockedBy
<1>3. \A D, a : Upto(D, a) => a \in OnRing
  BY MainOnRing DEF Upto
<1>4. CASE pc[t] = "fork_lock"
  <2>1. PICK D \in SUBSET OnRing : Upto(D, av[t]) /\ LockedBy(t, D)
    BY <1>4 DEF RoundAt
  <2>2. Upto(D, av[t])' /\ LockedBy(t, D)'
    BY <1>2, <1>3, <2>1, SameRing
  <2> QED BY <1>1, <1>4, <2>2, SMT DEF RoundAt
<1>9. CASE pc[t] = "fork_next"
  <2>1. PICK D \in SUBSET OnRing : Through(D, av[t]) /\ LockedBy(t, D)
    BY <1>9 DEF RoundAt
  <2>2. Through(D, av[t])' /\ LockedBy(t, D)'
    BY <1>2, <2>1, SameRing, MainOnRing
  <2> QED BY <1>1, <1>9, <2>2, SMT DEF RoundAt
<1>5. CASE pc[t] \in {"fork_hooks", "fork_tsd", "fork", "unlock_tsd", "unlock_hooks",
                      "unlock_list"}
  <2>1. (LockedBy(t, OnRing)' <=> LockedBy(t, OnRing))
        /\ (UnlockedBy(t, OnRing)' <=> UnlockedBy(t, OnRing))
    <3>1. \A b \in OnRing \ {Main} : mutex'[b] = t <=> mutex[b] = t
      BY MainOnRing DEF Arenas
    <3> QED BY <1>1, <3>1 DEF LockedBy, UnlockedBy
  <2> QED BY <1>5, <2>1, SMT DEF RoundAt
<1>6. CASE pc[t] = "unlock_arena"
  <2>1. PICK D \in SUBSET OnRing :
          /\ Upto(D, av[t]) /\ UnlockedBy(t, D)
          /\ process = "parent" => LockedBy(t, (OnRing \ D) \cup {av[t]})
    BY <1>6 DEF RoundAt
  <2>2. /\ Upto(D, av[t])' /\ UnlockedBy(t, D)'
        /\ process = "parent" => LockedBy(t, (OnRing \ D) \cup {av[t]})'
    BY <1>1, <1>2, <1>3, <2>1, SameRing
  <2> QED BY <1>1, <1>6, <2>2, SMT DEF RoundAt
<1>7. CASE pc[t] = "unlock_next"
  <2>1. PICK D \in SUBSET OnRing :
          /\ Through(D, av[t]) /\ UnlockedBy(t, D)
          /\ process = "parent" => LockedBy(t, OnRing \ D)
    BY <1>7 DEF RoundAt
  <2>2. /\ Through(D, av[t])' /\ UnlockedBy(t, D)'
        /\ process = "parent" => LockedBy(t, OnRing \ D)'
    BY <1>1, <1>2, <2>1, SameRing, MainOnRing
  <2> QED BY <1>1, <1>7, <2>2, SMT DEF RoundAt
<1>8. CASE pc[t] \notin RoundLabels
  BY <1>8, RoundElsewhere
<1> QED BY <1>4, <1>5, <1>6, <1>7, <1>8, <1>9, SMT DEF RoundLabels, ForkLabels, PrepareLabels,
                                                 ParentLabels

\* The steps of the round that takes the locks.
LEMMA RoundPrepares ==
  ASSUME ForkTypeInv, NeverEnds, NEW t \in Threads, RoundAt(t), Prepare(t)
  PROVE  RoundAt(t)'
<1> USE ArenaAssumption DEF At, Goto, ForkTypeInv, ForkTypeOK
<1> PICK a : a = av[t]
  OBVIOUS
<1>1. CASE LockAllList(t)
  <2>1. pc'[t] = "fork_lock" /\ av'[t] = Main /\ next' = next
    BY <1>1, SMT DEF LockAllList
  <2>2. Upto({}, Main)' /\ LockedBy(t, {})'
    BY DEF Upto, LockedBy
  <2>3. Upto({}, av[t])'
    BY <2>1, <2>2 DEF Upto
  <2> QED BY <2>1, <2>2, <2>3, SMT DEF RoundAt
<1>2. CASE LockAllArena(t)
  <2>1. pc[t] = "fork_lock" /\ pc'[t] = "fork_next" /\ av'[t] = a /\ next' = next
    BY <1>2, SMT DEF LockAllArena, lookup
  <2>2. PICK D \in SUBSET OnRing : Upto(D, a) /\ LockedBy(t, D)
    BY <2>1 DEF RoundAt
  <2>3. a \in OnRing /\ OnRing' = OnRing /\ D \cup {a} \in SUBSET OnRing
    BY <2>1, <2>2, MainOnRing, SameRing DEF Upto
  <2>4. Through(D \cup {a}, a)
    BY <2>2 DEF Through, Upto
  <2>5. Through(D \cup {a}, av[t])'
    BY <2>1, <2>4 DEF Through
  <2>6. \A b \in OnRing \ {Main} : mutex[b] = t \/ b = a => mutex'[b] = t
    BY <1>2, <2>3, MainOnRing, SMT DEF LockAllArena, Take, Locks
  <2>7. LockedBy(t, D \cup {a})'
    BY <2>2, <2>3, <2>6 DEF LockedBy
  <2> QED BY <2>1, <2>3, <2>5, <2>7, SMT DEF RoundAt
<1>3. CASE LockAllNext(t)
  <2>1. /\ pc[t] = "fork_next" /\ av'[t] = next[a] /\ next' = next /\ mutex' = mutex
        /\ pc'[t] = IF next[a] = Main THEN "fork_hooks" ELSE "fork_lock"
    BY <1>3, SMT DEF LockAllNext, GoRound, shared
  <2>2. PICK D \in SUBSET OnRing : Through(D, a) /\ LockedBy(t, D)
    BY <2>1 DEF RoundAt
  <2>3. next[a] \in OnRing /\ OnRing' = OnRing /\ LockedBy(t, D)'
    BY <2>1, <2>2, RingMoves, SameRing DEF Through, LockedBy
  <2>4. CASE next[a] = Main
    <3>1. D = OnRing
      BY <2>2, <2>4, RoundEnds
    <3> QED BY <2>1, <2>3, <2>4, <3>1, SMT DEF RoundAt
  <2>5. CASE next[a] # Main
    <3>1. Upto(D, next[a])
      BY <2>2, <2>3, <2>5 DEF Upto, Through
    <3>2. Upto(D, av[t])'
      BY <2>1, <2>3, <3>1, SMT DEF Upto
    <3> QED BY <2>1, <2>3, <2>5, <3>2, SMT DEF RoundAt
  <2> QED BY <2>4, <2>5
<1>4. CASE LockAllHooks(t)
  <2>1. pc[t] = "fork_hooks" /\ pc'[t] = "fork_tsd" /\ av' = av /\ next' = next
        /\ mutex' = mutex
    BY <1>4, SMT DEF LockAllHooks, lookup
  <2> QED BY <2>1, SameRing, SMT DEF RoundAt, LockedBy
<1>5. CASE LockAllTsd(t)
  <2>1. pc[t] = "fork_tsd" /\ pc'[t] = "fork" /\ av' = av /\ next' = next /\ mutex' = mutex
    BY <1>5, SMT DEF LockAllTsd, lookup
  <2> QED BY <2>1, SameRing, SMT DEF RoundAt, LockedBy
<1> QED BY <1>1, <1>2, <1>3, <1>4, <1>5 DEF Prepare

\* The steps of the round that gives them back.
LEMMA RoundUndoes ==
  ASSUME ForkTypeInv, NeverEnds, process = "parent" => P!RingOrder, NEW t \in Threads,
         RoundAt(t), Parent(t)
  PROVE  RoundAt(t)'
<1> USE ArenaAssumption DEF At, Goto, ForkTypeInv, ForkTypeOK
<1> PICK a : a = av[t]
  OBVIOUS
<1>1. CASE ForkParent(t)
  <2>1. pc[t] = "fork" /\ pc'[t] = "unlock_tsd" /\ av' = av /\ next' = next /\ mutex' = mutex
    BY <1>1, SMT DEF ForkParent, lookup, shared
  <2> QED BY <2>1, SameRing, SMT DEF RoundAt, LockedBy
<1>2. CASE UnlockAllTsd(t)
  <2>1. pc[t] = "unlock_tsd" /\ pc'[t] = "unlock_hooks" /\ av' = av /\ next' = next
        /\ mutex' = mutex
    BY <1>2, SMT DEF UnlockAllTsd, lookup
  <2> QED BY <2>1, SameRing, SMT DEF RoundAt, LockedBy
<1>3. CASE UnlockAllHooks(t)
  <2>1. pc[t] = "unlock_hooks" /\ pc'[t] = "unlock_arena" /\ av'[t] = a /\ next' = next
        /\ mutex' = mutex
    BY <1>3, SMT DEF UnlockAllHooks, lookup
  <2>2. a = Main /\ LockedBy(t, OnRing) /\ OnRing' = OnRing
    BY <2>1, SameRing DEF RoundAt
  <2>3. Upto({}, av[t])' /\ UnlockedBy(t, {})' /\ LockedBy(t, (OnRing \ {}) \cup {av[t]})'
    BY <2>1, <2>2 DEF Upto, UnlockedBy, LockedBy
  <2>4. {} \in SUBSET OnRing'
    OBVIOUS
  <2>5. UnlockedBy(t, {})' /\ LockedBy(t, (OnRing \ {}) \cup {av[t]})'
    BY <2>3
  <2> QED BY <2>1, <2>3, <2>4, <2>5, Zenon DEF RoundAt
<1>4. CASE UnlockAllArena(t)
  <2>1. /\ pc[t] = "unlock_arena" /\ pc'[t] = "unlock_next" /\ av'[t] = a /\ next' = next
        /\ process' = process
        /\ mutex' = IF a = Main THEN mutex ELSE [mutex EXCEPT ![a] = Null]
    BY <1>4, SMT DEF UnlockAllArena, lookup, forkvars
  <2>2. PICK D \in SUBSET OnRing :
          /\ Upto(D, a) /\ UnlockedBy(t, D)
          /\ process = "parent" => LockedBy(t, (OnRing \ D) \cup {a})
    BY <2>1 DEF RoundAt
  <2>3. a \in OnRing /\ OnRing' = OnRing /\ D \cup {a} \in SUBSET OnRing
    BY <2>1, <2>2, MainOnRing, SameRing DEF Upto
  <2>4. Through(D \cup {a}, a)
    BY <2>2 DEF Through, Upto
  <2>5. Through(D \cup {a}, av[t])'
    BY <2>1, <2>4 DEF Through
  <2>6. \A b \in OnRing \ {Main} : mutex'[b] = IF b = a THEN Null ELSE mutex[b]
    BY <2>1, <2>3, MainOnRing, SMT DEF Locks
  <2>7. UnlockedBy(t, D \cup {a})' /\ (process = "parent" => LockedBy(t,
        OnRing \ (D \cup {a}))')
    BY <2>2, <2>3, <2>6 DEF LockedBy, UnlockedBy, Arenas
  <2>8. (process = "parent" => LockedBy(t, OnRing \ (D \cup {a})))'
    BY <2>1, <2>7
  <2>9. pc'[t] = "unlock_next" /\ D \cup {a} \in SUBSET OnRing'
    BY <2>1, <2>3
  <2>10. UnlockedBy(t, D \cup {a})'
    BY <2>7
  <2> QED BY <2>5, <2>8, <2>9, <2>10, Zenon DEF RoundAt
<1>5. CASE UnlockAllNext(t)
  <2>1. /\ pc[t] = "unlock_next" /\ av'[t] = next[a] /\ next' = next /\ mutex' = mutex
        /\ process' = process
        /\ pc'[t] = IF next[a] = Main THEN "unlock_list" ELSE "unlock_arena"
    BY <1>5, SMT DEF UnlockAllNext, GoRound, shared, forkvars
  <2>2. PICK D \in SUBSET OnRing :
          /\ Through(D, a) /\ UnlockedBy(t, D)
          /\ process = "parent" => LockedBy(t, OnRing \ D)
    BY <2>1 DEF RoundAt
  <2>3. next[a] \in OnRing /\ OnRing' = OnRing /\ UnlockedBy(t, D)'
    BY <2>1, <2>2, RingMoves, SameRing DEF Through, UnlockedBy
  <2>4. CASE next[a] = Main
    <3>1. D = OnRing
      BY <2>2, <2>4, RoundEnds
    <3> QED BY <2>1, <2>3, <2>4, <3>1, SMT DEF RoundAt
  <2>5. CASE next[a] # Main
    <3>1. Upto(D, next[a])
      BY <2>2, <2>3, <2>5 DEF Upto, Through
    <3>2. Upto(D, av[t])'
      BY <2>1, <2>3, <3>1, SMT DEF Upto
    <3>3. process = "parent" => next[a] \notin D
      BY <2>2, <2>5, RoundGoesOn DEF P!RingOrder
    <3>4. process = "parent" => LockedBy(t, (OnRing \ D) \cup {av[t]})'
      BY <2>1, <2>2, <2>3, <3>3 DEF LockedBy
    <3>5. (process = "parent" => LockedBy(t, (OnRing \ D) \cup {av[t]}))'
      BY <2>1, <3>4
    <3>6. pc'[t] = "unlock_arena" /\ D \in SUBSET OnRing'
      BY <2>1, <2>3, <2>5
    <3> QED BY <2>3, <3>2, <3>5, <3>6, Zenon DEF RoundAt
  <2> QED BY <2>4, <2>5
<1>6. CASE UnlockAllList(t)
  <2>1. pc'[t] = "idle"
    BY <1>6, SMT DEF UnlockAllList, Return
  <2> QED BY <2>1, RoundElsewhere DEF RoundLabels, ForkLabels, PrepareLabels, ParentLabels
<1> QED BY <1>1, <1>2, <1>3, <1>4, <1>5, <1>6 DEF Parent

----------------------------------------------------------------------------
(* A step of t, unless the child begins.                                   *)

StepOf(t) == \/ Forks(t) \/ Prepare(t) \/ Parent(t) \/ AtforkWork(t) \/ PlainWork(t)
             \/ (Call(t) /\ UNCHANGED forkvars)

LEMMA ItIsSettled == ASSUME ForkIInv PROVE Settled
<1>1. CASE process = "parent"
  <2>1. P!BootInv /\ P!ListInv /\ P!TypeInv /\ ForkTypeInv /\ OneForks /\ ParentInv
    BY <1>1 DEF ForkIInv, PlainInv, P!Inductive, P!ArenaInv
  <2>2. ASSUME NEW t \in Threads, pc[t] \in {"claim"} \cup InitLabels
        PROVE  initialized # 1
    <3>1. PlainPc[t] = pc[t]
      BY <2>2, SMT DEF PlainPc, ForkLabels, PrepareLabels, ParentLabels, InitLabels
    <3> QED BY <2>1, <2>2, <3>1, SMT DEF P!BootInv, P!InitLabels, InitLabels
  <2>3. ASSUME NEW h \in Hooks, hook[h] = "atfork" PROVE initialized = 1
    BY <2>1, <2>3, SMT DEF ParentInv, OneForks, Labels, InitLabels, SearchLabels,
                           BirthLabels, LinkLabels, EngineLabels
  <2>4. initialized # 1 => mutex["list"] = Null
    BY <2>1 DEF P!ListInv, P!Locks, P!Arenas
  <2> QED BY <2>2, <2>3, <2>4 DEF Settled
<1>2. CASE process = "child"
  BY <1>2 DEF ForkIInv, ChildInv, Settled
<1> QED BY <1>1, <1>2 DEF ForkIInv, ForkTypeInv, ForkTypeOK

LEMMA ItNeverEnds == ASSUME ForkIInv, initialized = 1 PROVE NeverEnds
<1>1. CASE process = "parent"
  <2>1. P!RingLinks
    BY <1>1 DEF ForkIInv, PlainInv, P!RingInv
  <2>2. next[Main] # Null /\ \A a \in Arenas : next[a] # Null => P!Onward(next[a])
    BY <2>1 DEF P!RingLinks, P!Arenas, Arenas
  <2> QED BY <2>2 DEF NeverEnds, P!Onward
<1>2. CASE process = "child"
  BY <1>2 DEF ForkIInv, ChildInv
<1> QED BY <1>1, <1>2 DEF ForkIInv, ForkTypeInv, ForkTypeOK

LEMMA ForksLater ==
  ASSUME OneForks, NEW t \in Threads, pc[t] \in ForkLabels
  PROVE  initialized = 1
  BY SMT DEF OneForks, ForkLabels, PrepareLabels, ParentLabels, Labels, InitLabels,
             SearchLabels, BirthLabels, LinkLabels, EngineLabels

\* A step of Arena gives no lock back that another thread holds.
LEMMA PlainHolds ==
  ASSUME P!Orderly, ForkTypeInv, OneForks, ParentInv, PlainInv, NEW t \in Threads,
         Call(t) \/ Work(t), UNCHANGED forkvars, NEW l \in Locks, mutex[l] # Null,
         mutex'[l] # mutex[l]
  PROVE  mutex[l] = t
<1> USE ArenaAssumption DEF Arenas, AllOps, AllocOps, P!AllocOps, P!Arenas, P!AllOps
<1>1. P!Call(t) \/ P!Work(t)
  BY PlainWorks DEF P!Orderly
<1>2. P!ArenaInv /\ P!TypeInv /\ P!ListInv /\ l \in P!Locks
  BY DEF PlainInv, P!Inductive, P!Locks, Locks
<1>3. CASE P!Call(t) \/ P!Enter(t)
  BY <1>2, <1>3, P!HoldsCallEnter
<1>4. CASE P!Initialise(t)
  BY <1>2, <1>4, P!HoldsInitialise
<1>5. CASE P!Search(t)
  BY <1>2, <1>5, P!HoldsSearch
<1>6. CASE P!Create(t)
  BY <1>2, <1>6, P!HoldsCreate
<1>7. CASE P!Use(t)
  BY <1>2, <1>7, P!HoldsUse
<1>8. CASE P!Own(t)
  BY <1>2, <1>8, P!HoldsOwn
<1> QED BY <1>1, <1>3, <1>4, <1>5, <1>6, <1>7, <1>8 DEF P!Work

LEMMA StepType ==
  ASSUME ForkIInv, NEW t \in Threads, StepOf(t)
  PROVE  ForkTypeInv'
<1>1. ForkTypeInv /\ (pc[t] \in {"fork_next", "unlock_next"} => next[av[t]] # Null)
  <2>1. ASSUME pc[t] \in {"fork_next", "unlock_next"} PROVE next[av[t]] # Null
    <3>1. av[t] \in OnRing
      <4>1. RoundAt(t)
        BY DEF ForkIInv, RoundInv
      <4>2. PICK D \in SUBSET OnRing : Through(D, av[t])
        BY <2>1, <4>1 DEF RoundAt
      <4> QED BY <4>2 DEF Through
    <3>2. initialized = 1
      BY <2>1, ForksLater DEF ForkIInv, ForkLabels, PrepareLabels, ParentLabels
    <3> QED BY <3>1, <3>2, ItNeverEnds, RingMoves DEF ForkIInv, ForkTypeInv, ForkTypeOK
  <2> QED BY <2>1 DEF ForkIInv
<1>2. CASE PlainWork(t)
  BY <1>1, <1>2, ForkTypeEnter, ForkTypeInitialise, ForkTypeSearch, ForkTypeCreate,
     ForkTypeUse, ForkTypeOwn DEF PlainWork, Work
<1> QED BY <1>1, <1>2, ForkTypeCall, ForkTypeForks, ForkTypePrepare, ForkTypeParent,
           ForkTypeAtforkWork DEF StepOf

LEMMA StepList ==
  ASSUME ForkIInv, NEW t \in Threads, StepOf(t)
  PROVE  OneForks' /\ ListHeld'
<1>1. ForkTypeInv /\ OneForks /\ ListHeld /\ Settled
  BY ItIsSettled DEF ForkIInv
<1>2. CASE PlainWork(t)
  BY <1>1, <1>2, ForkListEnter, ForkListInitialise, ForkListSearch, ForkListCreate,
     ForkListUse, ForkListOwn DEF PlainWork, Work
<1> QED BY <1>1, <1>2, ForkListCall, ForkListForks, ForkListPrepare, ForkListParent,
           ForkListAtforkWork DEF StepOf

LEMMA StepMoves ==
  ASSUME ForkTypeInv, NEW t \in Threads, StepOf(t)
  PROVE  OnlyMine(t)
<1>1. CASE PlainWork(t)
  BY <1>1, OnlyEnter, OnlyInitialise, OnlySearch, OnlyCreate, OnlyUse, OnlyOwn
     DEF PlainWork, Work
<1> QED BY <1>1, OnlyCall, OnlyForks, OnlyPrepare, OnlyParent, OnlyAtforkWork DEF StepOf

LEMMA NobodyElse ==
  ASSUME ForkIInv, process = "child", NEW t \in Threads, NEW u \in Threads, t # u, StepOf(u)
  PROVE  pc[t] = "gone"
<1>1. pc[u] # "gone"
  BY SMT DEF StepOf, Forks, Prepare, LockAllList, LockAllArena, LockAllNext, GoRound,
     LockAllHooks, LockAllTsd, Parent, ForkParent, UnlockAllTsd, UnlockAllHooks,
     UnlockAllArena, UnlockAllNext, UnlockAllList, AtforkWork, MallocAtfork, WaitList,
     LeaveList, FreeAtfork, LockChunkArena, GetMark, PlainWork, Call, At, Work,
     Enter, EnterPlain, EnterRealloc, EnterSmall, EnterIni, DropHook, EnterStarter,
     Initialise, InitCheck, InitClaim, InitMain, InitRing, InitList, InitTsd, InitDone,
     Search, GetTsd, TryDirect, Get2, LockMain, ScanTake, ScanBusy, ScanNext, ScanCrash,
     TryList, Create, DropList, NewArena, NewArenaFails, SetTsd, MutexInit, MutexLock,
     ListLock, LinkNext, LinkMain, ListUnlock, Use, GotNothing, RefuseMain, EngineEnter,
     EngineLeave, EngineFails, Unlock, UnlockFailed, Own, NotMine, LockOwner, TrimLock
<1> QED BY <1>1 DEF ForkIInv, ChildInv

\* While t goes round no other thread turns the ring or one of its locks over.
LEMMA RoundUndisturbed ==
  ASSUME P!Orderly, ForkIInv, NEW t \in Threads, NEW u \in Threads, t # u, StepOf(u),
         pc[t] \in RoundLabels
  PROVE  next' = next /\ \A b \in Dynamic : mutex'[b] = t <=> mutex[b] = t
<1>1. pc[t] \in ForkLabels /\ pc[t] # "fork_list" /\ pc[u] \notin ForkLabels
      /\ mutex["list"] = t /\ pc[t] # "gone"
  BY DEF RoundLabels, ForkIInv, OneForks, ListHeld, ForkLabels, PrepareLabels, ParentLabels
<1>2. initialized = 1 /\ process = "parent" /\ Settled
  BY <1>1, ForksLater, NobodyElse, ItIsSettled DEF ForkIInv, ForkTypeInv, ForkTypeOK
<1>3. ForkTypeInv /\ OneForks /\ ListHeld /\ ParentInv /\ PlainInv /\ OnlyMine(u)
  BY <1>2, StepMoves DEF ForkIInv
<1>4. next' = next
  <2>1. pc[u] \notin {"link_next", "link_main", "init_ring"}
    BY <1>1, <1>2, <1>3 DEF ListHeld, Settled, InitLabels
  <2> QED BY <1>3, <2>1 DEF OnlyMine
<1>5. ASSUME NEW b \in Dynamic, mutex[b] = t PROVE mutex'[b] = t
  <2>1. b \in Locks /\ mutex[b] # Null /\ b # "list"
    BY <1>5, ArenaAssumption DEF Locks, Arenas
  <2>2. ~ Prepare(u) /\ ~ Parent(u)
    BY <1>1, SMT DEF Prepare, LockAllList, LockAllArena, LockAllNext, GoRound,
       LockAllHooks, LockAllTsd, Parent, ForkParent, UnlockAllTsd, UnlockAllHooks,
       UnlockAllArena, UnlockAllNext, UnlockAllList, At, ForkLabels, PrepareLabels,
       ParentLabels
  <2>3. CASE Forks(u)
    BY <1>5, <2>3 DEF Forks, shared
  <2>4. CASE AtforkWork(u)
    <3>1. CASE MallocAtfork(u) \/ FreeAtfork(u) \/ GetMark(u)
      BY <1>5, <3>1, SMT DEF MallocAtfork, Unlocked, FreeAtfork, GetMark, Crash, shared
    <3>2. CASE WaitList(u) \/ LeaveList(u)
      BY <1>3, <1>5, <2>1, <3>2, SMT DEF WaitList, LeaveList, Take, ForkTypeInv, ForkTypeOK
    <3>3. CASE LockChunkArena(u)
      <4>1. PICK l : mutex[l] = Null /\ mutex' = [mutex EXCEPT ![l] = u]
        BY <3>3 DEF LockChunkArena, Take
      <4> QED BY <1>3, <1>5, <2>1, <4>1 DEF ForkTypeInv, ForkTypeOK
    <3> QED BY <2>4, <3>1, <3>2, <3>3 DEF AtforkWork
  <2>5. CASE PlainWork(u) \/ (Call(u) /\ UNCHANGED forkvars)
    <3>1. (Call(u) \/ Work(u)) /\ UNCHANGED forkvars
      BY <2>5 DEF PlainWork
    <3>2. mutex'[b] # mutex[b] => mutex[b] = u
      BY <1>3, <2>1, <3>1, PlainHolds
    <3> QED BY <1>5, <3>2
  <2> QED BY <2>2, <2>3, <2>4, <2>5 DEF StepOf
<1>6. ASSUME NEW b \in Dynamic, mutex'[b] = t PROVE mutex[b] = t
  BY <1>3, <1>6, ArenaAssumption DEF OnlyMine, Locks, Arenas
<1> QED BY <1>4, <1>5, <1>6

\* A step of Arena leads to a label of Arena.
LEMMA PlainLabels ==
  ASSUME ForkTypeInv, NEW t \in Threads, Call(t) \/ Work(t)
  PROVE  pc'[t] \in Labels
<1> USE DEF ForkTypeInv, ForkTypeOK, Goto, Return, Crash, Labels, InitLabels, SearchLabels,
            BirthLabels, LinkLabels, EngineLabels
<1>1. CASE Call(t) \/ Enter(t)
  BY <1>1, SMT DEF Call, Enter, EnterPlain, EnterRealloc, EnterSmall, EnterIni, DropHook, EnterStarter, At
<1>2. CASE Initialise(t)
  BY <1>2, SMT DEF Initialise, InitCheck, InitClaim, InitMain, InitRing, InitList, InitTsd,
     InitDone
<1>3. CASE Search(t)
  BY <1>3, SMT DEF Search, GetTsd, TryDirect, Get2, LockMain, ScanTake, ScanBusy, ScanNext,
     ScanCrash, TryList
<1>4. CASE Create(t)
  BY <1>4, SMT DEF Create, DropList, NewArena, NewArenaFails, SetTsd, MutexInit, MutexLock,
     ListLock, LinkNext, LinkMain, ListUnlock
<1>5. CASE Use(t)
  BY <1>5, SMT DEF Use, GotNothing, RefuseMain, EngineEnter, EngineLeave, EngineFails,
     Unlock, UnlockFailed
<1>6. CASE Own(t)
  BY <1>6, SMT DEF Own, NotMine, LockOwner, TrimLock
<1> QED BY <1>1, <1>2, <1>3, <1>4, <1>5, <1>6 DEF Work

LEMMA StepRound ==
  ASSUME P!Orderly, ForkIInv, NEW u \in Threads, StepOf(u)
  PROVE  RoundInv'
<1>1. ForkTypeInv /\ OneForks /\ RoundInv /\ OnlyMine(u)
  BY StepMoves DEF ForkIInv
<1> SUFFICES ASSUME NEW t \in Threads PROVE RoundAt(t)'
  BY DEF RoundInv
<1>2. CASE t # u
  <2>1. pc'[t] = pc[t] /\ av'[t] = av[t] /\ process' = process
    BY <1>1, <1>2 DEF OnlyMine
  <2>2. CASE pc[t] \in RoundLabels
    BY <1>1, <1>2, <2>1, <2>2, RoundUndisturbed, RoundFrame DEF RoundInv
  <2>3. CASE pc[t] \notin RoundLabels
    BY <2>1, <2>3, RoundElsewhere
  <2> QED BY <2>2, <2>3
<1>3. CASE t = u
  <2>1. CASE Prepare(t) \/ Parent(t)
    <3>1. pc[t] \in ForkLabels
      BY <2>1, SMT DEF Prepare, LockAllList, LockAllArena, LockAllNext, GoRound,
         LockAllHooks, LockAllTsd, Parent, ForkParent, UnlockAllTsd, UnlockAllHooks,
         UnlockAllArena, UnlockAllNext, UnlockAllList, At, ForkLabels, PrepareLabels,
         ParentLabels
    <3>2. NeverEnds
      BY <1>1, <3>1, ForksLater, ItNeverEnds
    <3>3. process = "parent" => P!RingOrder
      BY DEF ForkIInv, PlainInv, P!RingInv
    <3> QED BY <1>1, <2>1, <3>2, <3>3, RoundPrepares, RoundUndoes DEF RoundInv
  <2>2. CASE Forks(t)
    <3>1. pc'[t] = "fork_list"
      BY <1>1, <2>2, SMT DEF Forks, Goto, ForkTypeInv, ForkTypeOK
    <3> QED BY <3>1, RoundElsewhere DEF RoundLabels
  <2>3. CASE AtforkWork(t)
    <3>1. pc'[t] \in {"got", "wait_list", "leave_list", "enter", "chunk_arena", "idle",
                      "crashed"}
      BY <1>1, <2>3, SMT DEF AtforkWork, MallocAtfork, Unlocked, WaitList, LeaveList,
         FreeAtfork, LockChunkArena, GetMark, Crash, Goto, Return, ForkTypeInv, ForkTypeOK
    <3> QED BY <3>1, RoundElsewhere DEF RoundLabels, ForkLabels, PrepareLabels, ParentLabels
  <2>4. CASE PlainWork(t) \/ (Call(t) /\ UNCHANGED forkvars)
    <3>1. pc'[t] \in Labels
      BY <1>1, <2>4, PlainLabels DEF PlainWork
    <3> QED BY <3>1, RoundElsewhere DEF RoundLabels, ForkLabels, PrepareLabels, ParentLabels,
               Labels, InitLabels, SearchLabels, BirthLabels, LinkLabels, EngineLabels
  <2> QED BY <1>3, <2>1, <2>2, <2>3, <2>4 DEF StepOf
<1> QED BY <1>2, <1>3

=============================================================================
