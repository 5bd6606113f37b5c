---------------------------- MODULE ArenaProofs ----------------------------
(***************************************************************************)
(* Proofs about the arena layer, for any number of threads and arenas.     *)
(***************************************************************************)
EXTENDS ArenaInvariant, Iteration

LEMMA TypeInit == Init => TypeInv
  BY ArenaAssumption, SMT DEF Init, TypeInv, TypeOK, PointerInv, ExistInv, Locks, Arenas,
     Labels, BirthLabels, LinkLabels, EngineLabels, AllOps, AllocOps, Hooks

LEMMA TypeCallEnter ==
  ASSUME TypeInv, NEW t \in Threads, Call(t) \/ Enter(t)
  PROVE  TypeInv'
<1> USE ArenaAssumption DEF TypeInv, TypeOK, PointerInv, ExistInv, Labels, InitLabels,
        SearchLabels, BirthLabels, LinkLabels, EngineLabels, AllOps, AllocOps,
        Hooks, Arenas, Goto, At, HookOf, shared, lookup, inits
<1>1. CASE Call(t)
  BY <1>1, SMT DEF Call, CanStart
<1>2. CASE EnterPlain(t)
  BY <1>2, SMT DEF EnterPlain
<1>s. CASE EnterSmall(t)
  BY <1>s, SMT DEF EnterSmall
<1>3. CASE EnterRealloc(t)
  BY <1>3, SMT DEF EnterRealloc
<1>4. CASE EnterIni(t)
  BY <1>4, SMT DEF EnterIni
<1>5. CASE DropHook(t)
  BY <1>5, SMT DEF DropHook
<1>6. CASE EnterStarter(t)
  BY <1>6, SMT DEF EnterStarter, Arenas
<1> QED BY <1>1, <1>2, <1>s, <1>3, <1>4, <1>5, <1>6 DEF Enter

LEMMA TypeInitialise ==
  ASSUME TypeInv, NEW t \in Threads, Initialise(t)
  PROVE  TypeInv'
<1> USE ArenaAssumption DEF TypeInv, TypeOK, PointerInv, ExistInv, Labels, InitLabels,
        SearchLabels, BirthLabels, LinkLabels, EngineLabels, AllOps, AllocOps,
        Hooks, Arenas, Locks, Goto, At, Take, Remember, Crash, Return,
        shared, lookup, inits
<1>1. CASE InitCheck(t)
  BY <1>1, SMT DEF InitCheck
<1>2. CASE InitClaim(t)
  BY <1>2, SMT DEF InitClaim
<1>3. CASE InitMain(t)
  BY <1>3, SMT DEF InitMain
<1>4. CASE InitRing(t)
  BY <1>4, SMT DEF InitRing
<1>5. CASE InitList(t)
  BY <1>5, SMT DEF InitList
<1>6. CASE InitTsd(t)
  BY <1>6, SMT DEF InitTsd
<1>7. CASE InitDone(t)
  BY <1>7, SMT DEF InitDone
<1> QED BY <1>1, <1>2, <1>3, <1>4, <1>5, <1>6, <1>7 DEF Initialise

LEMMA TypeSearch ==
  ASSUME TypeInv, NEW t \in Threads, Search(t)
  PROVE  TypeInv'
<1> USE ArenaAssumption DEF TypeInv, TypeOK, PointerInv, ExistInv, Labels, InitLabels,
        SearchLabels, BirthLabels, LinkLabels, EngineLabels, AllOps, AllocOps,
        Hooks, Arenas, Locks, Goto, At, Take, Remember, Crash, Return,
        shared, lookup, inits
<1>1. CASE GetTsd(t)
  BY <1>1, SMT DEF GetTsd
<1>2. CASE TryDirect(t)
  BY <1>2, SMT DEF TryDirect
<1>3. CASE Get2(t)
  BY <1>3, SMT DEF Get2
<1>4. CASE LockMain(t)
  BY <1>4, SMT DEF LockMain
<1>5. CASE ScanTake(t)
  BY <1>5, SMT DEF ScanTake
<1>6. CASE ScanBusy(t)
  BY <1>6, SMT DEF ScanBusy
<1>7. CASE ScanNext(t)
  BY <1>7, SMT DEF ScanNext
<1>8. CASE ScanCrash(t)
  BY <1>8, SMT DEF ScanCrash
<1>9. CASE TryList(t)
  BY <1>9, SMT DEF TryList
<1> QED BY <1>1, <1>2, <1>3, <1>4, <1>5, <1>6, <1>7, <1>8, <1>9 DEF Search

LEMMA TypeCreate ==
  ASSUME TypeInv, NEW t \in Threads, Create(t)
  PROVE  TypeInv'
<1> USE ArenaAssumption DEF TypeInv, TypeOK, PointerInv, ExistInv, Labels, InitLabels,
        SearchLabels, BirthLabels, LinkLabels, EngineLabels, AllOps, AllocOps,
        Hooks, Arenas, Locks, Goto, At, Take, Remember, Crash, Return,
        shared, lookup, inits
<1>1. CASE DropList(t)
  BY <1>1, SMT DEF DropList
<1>2. CASE NewArena(t)
  BY <1>2, SMT DEF NewArena
<1>3. CASE NewArenaFails(t)
  BY <1>3, SMT DEF NewArenaFails
<1>4. CASE SetTsd(t)
  BY <1>4, SMT DEF SetTsd
<1>5. CASE MutexInit(t)
  BY <1>5, SMT DEF MutexInit
<1>6. CASE MutexLock(t)
  BY <1>6, SMT DEF MutexLock
<1>7. CASE ListLock(t)
  BY <1>7, SMT DEF ListLock
<1>8. CASE LinkNext(t)
  BY <1>8, SMT DEF LinkNext
<1>9. CASE LinkMain(t)
  BY <1>9, SMT DEF LinkMain
<1>10. CASE ListUnlock(t)
  BY <1>10, SMT DEF ListUnlock
<1> QED BY <1>1, <1>2, <1>3, <1>4, <1>5, <1>6, <1>7, <1>8, <1>9, <1>10 DEF Create

LEMMA TypeUse ==
  ASSUME TypeInv, NEW t \in Threads, Use(t)
  PROVE  TypeInv'
<1> USE ArenaAssumption DEF TypeInv, TypeOK, PointerInv, ExistInv, Labels, InitLabels,
        SearchLabels, BirthLabels, LinkLabels, EngineLabels, AllOps, AllocOps,
        Hooks, Arenas, Locks, Goto, At, Take, Remember, Crash, Return,
        shared, lookup, inits
<1>1. CASE GotNothing(t)
  BY <1>1, SMT DEF GotNothing
<1>2. CASE RefuseMain(t)
  BY <1>2, SMT DEF RefuseMain
<1>3. CASE EngineEnter(t)
  BY <1>3, SMT DEF EngineEnter
<1>4. CASE EngineLeave(t)
  BY <1>4, SMT DEF EngineLeave, Gain
<1>5. CASE EngineFails(t)
  <2>1. CASE op[t] = "malloc"
    BY <1>5, <2>1, SMT DEF EngineFails
  <2>2. CASE op[t] # "malloc"
    BY <1>5, <2>2, SMT DEF EngineFails
  <2> QED BY <2>1, <2>2
<1>6. CASE Unlock(t)
  BY <1>6, SMT DEF Unlock
<1>7. CASE UnlockFailed(t)
  BY <1>7, SMTT(30) DEF UnlockFailed
<1> QED BY <1>1, <1>2, <1>3, <1>4, <1>5, <1>6, <1>7 DEF Use

LEMMA TypeOwn ==
  ASSUME TypeInv, NEW t \in Threads, Own(t)
  PROVE  TypeInv'
<1> USE ArenaAssumption DEF TypeInv, TypeOK, PointerInv, ExistInv, Labels, InitLabels,
        SearchLabels, BirthLabels, LinkLabels, EngineLabels, AllOps, AllocOps,
        Hooks, Arenas, Locks, Goto, At, Take, Remember, Crash, Return,
        shared, lookup, inits
<1>1. CASE NotMine(t)
  BY <1>1, SMT DEF NotMine
<1>2. CASE LockOwner(t)
  BY <1>2, SMTT(30) DEF LockOwner
<1>3. CASE TrimLock(t)
  BY <1>3, SMT DEF TrimLock
<1> QED BY <1>1, <1>2, <1>3 DEF Own

----------------------------------------------------------------------------
(* Starting up: the boot part of the invariant is inductive.               *)

LEMMA BootInvCallEnter ==
  ASSUME Started, TypeInv, BootInv, NEW t \in Threads,
         Call(t) \/ Enter(t)
  PROVE  BootInv'
<1> USE ArenaAssumption DEF Labels, InitLabels, SearchLabels, BirthLabels, LinkLabels,
        EngineLabels, Goto, At, Take, Remember, Crash, Return, shared, lookup,
        inits, Started, TypeInv, TypeOK, BootInv, Hooks, AllOps, AllocOps, PlainOps
<1>1. CASE Call(t)
  BY <1>1, SMT DEF Call, CanStart, HookOf
<1>2. CASE EnterPlain(t)
  BY <1>2, SMT DEF EnterPlain, CanStart, HookOf
<1>s. CASE EnterSmall(t)
  BY <1>s, SMT DEF EnterSmall, CanStart, HookOf
<1>3. CASE EnterRealloc(t)
  BY <1>3, SMT DEF EnterRealloc, CanStart, HookOf
<1>4. CASE EnterIni(t)
  BY <1>4, SMT DEF EnterIni, CanStart, HookOf
<1>5. CASE DropHook(t)
  BY <1>5, SMT DEF DropHook, CanStart, HookOf
<1>6. CASE EnterStarter(t)
  BY <1>6, SMT DEF EnterStarter, CanStart, HookOf
<1> QED BY <1>1, <1>2, <1>s, <1>3, <1>4, <1>5, <1>6 DEF Enter

LEMMA BootInvInitialise ==
  ASSUME Started, TypeInv, BootInv, NEW t \in Threads,
         Initialise(t)
  PROVE  BootInv'
<1> USE ArenaAssumption DEF Labels, InitLabels, SearchLabels, BirthLabels, LinkLabels,
        EngineLabels, Goto, At, Take, Remember, Crash, Return, shared, lookup,
        inits, Started, TypeInv, TypeOK, BootInv, Hooks, AllOps, AllocOps, PlainOps
<1>1. CASE InitCheck(t)
  BY <1>1, SMT DEF InitCheck
<1>2. CASE InitClaim(t)
  BY <1>2, SMT DEF InitClaim
<1>3. CASE InitMain(t)
  BY <1>3, SMT DEF InitMain
<1>4. CASE InitRing(t)
  BY <1>4, SMT DEF InitRing
<1>5. CASE InitList(t)
  BY <1>5, SMT DEF InitList
<1>6. CASE InitTsd(t)
  BY <1>6, SMT DEF InitTsd
<1>7. CASE InitDone(t)
  BY <1>7, SMT DEF InitDone, HookOf
<1> QED BY <1>1, <1>2, <1>3, <1>4, <1>5, <1>6, <1>7 DEF Initialise

LEMMA BootInvSearch ==
  ASSUME Started, TypeInv, BootInv, NEW t \in Threads,
         Search(t)
  PROVE  BootInv'
<1> USE ArenaAssumption DEF Labels, InitLabels, SearchLabels, BirthLabels, LinkLabels,
        EngineLabels, Goto, At, Take, Remember, Crash, Return, shared, lookup,
        inits, Started, TypeInv, TypeOK, BootInv, Hooks, AllOps, AllocOps, PlainOps
<1>1. CASE GetTsd(t)
  BY <1>1, SMT DEF GetTsd
<1>2. CASE TryDirect(t)
  BY <1>2, SMT DEF TryDirect
<1>3. CASE Get2(t)
  BY <1>3, SMT DEF Get2
<1>4. CASE LockMain(t)
  BY <1>4, SMT DEF LockMain
<1>5. CASE ScanTake(t)
  BY <1>5, SMT DEF ScanTake
<1>6. CASE ScanBusy(t)
  BY <1>6, SMT DEF ScanBusy
<1>7. CASE ScanNext(t)
  BY <1>7, SMT DEF ScanNext
<1>8. CASE ScanCrash(t)
  BY <1>8, SMT DEF ScanCrash
<1>9. CASE TryList(t)
  BY <1>9, SMT DEF TryList
<1> QED BY <1>1, <1>2, <1>3, <1>4, <1>5, <1>6, <1>7, <1>8, <1>9 DEF Search

LEMMA BootInvCreate ==
  ASSUME Started, TypeInv, BootInv, NEW t \in Threads,
         Create(t)
  PROVE  BootInv'
<1> USE ArenaAssumption DEF Labels, InitLabels, SearchLabels, BirthLabels, LinkLabels,
        EngineLabels, Goto, At, Take, Remember, Crash, Return, shared, lookup,
        inits, Started, TypeInv, TypeOK, BootInv, Hooks, AllOps, AllocOps, PlainOps
<1>1. CASE DropList(t)
  BY <1>1, SMT DEF DropList
<1>2. CASE NewArena(t)
  BY <1>2, SMT DEF NewArena
<1>3. CASE NewArenaFails(t)
  BY <1>3, SMT DEF NewArenaFails
<1>4. CASE SetTsd(t)
  BY <1>4, SMT DEF SetTsd
<1>5. CASE MutexInit(t)
  BY <1>5, SMT DEF MutexInit
<1>6. CASE MutexLock(t)
  BY <1>6, SMT DEF MutexLock
<1>7. CASE ListLock(t)
  BY <1>7, SMT DEF ListLock
<1>8. CASE LinkNext(t)
  BY <1>8, SMT DEF LinkNext
<1>9. CASE LinkMain(t)
  BY <1>9, SMT DEF LinkMain
<1>10. CASE ListUnlock(t)
  BY <1>10, SMT DEF ListUnlock
<1> QED BY <1>1, <1>2, <1>3, <1>4, <1>5, <1>6, <1>7, <1>8, <1>9, <1>10 DEF Create

LEMMA BootInvUse ==
  ASSUME Started, TypeInv, BootInv, NEW t \in Threads,
         Use(t)
  PROVE  BootInv'
<1> USE ArenaAssumption DEF Labels, InitLabels, SearchLabels, BirthLabels, LinkLabels,
        EngineLabels, Goto, At, Take, Remember, Crash, Return, shared, lookup,
        inits, Started, TypeInv, TypeOK, BootInv, Hooks, AllOps, AllocOps, PlainOps
<1>1. CASE GotNothing(t)
  BY <1>1, SMT DEF GotNothing
<1>2. CASE RefuseMain(t)
  BY <1>2, SMT DEF RefuseMain
<1>3. CASE EngineEnter(t)
  BY <1>3, SMT DEF EngineEnter
<1>4. CASE EngineLeave(t)
  BY <1>4, SMT DEF EngineLeave, Gain
<1>5. CASE EngineFails(t)
  <2>1. CASE op[t] = "malloc"
    BY <1>5, <2>1, SMT DEF EngineFails
  <2>2. CASE ~(op[t] = "malloc")
    BY <1>5, <2>2, SMT DEF EngineFails
  <2> QED BY <2>1, <2>2
<1>6. CASE Unlock(t)
  BY <1>6, SMT DEF Unlock
<1>7. CASE UnlockFailed(t)
  <2>1. CASE op[t] = "realloc"
    BY <1>7, <2>1, SMT DEF UnlockFailed
  <2>2. CASE ~(op[t] = "realloc")
    BY <1>7, <2>2, SMT DEF UnlockFailed
  <2> QED BY <2>1, <2>2
<1> QED BY <1>1, <1>2, <1>3, <1>4, <1>5, <1>6, <1>7 DEF Use

LEMMA BootInvOwn ==
  ASSUME Started, TypeInv, BootInv, NEW t \in Threads,
         Own(t)
  PROVE  BootInv'
<1> USE ArenaAssumption DEF Labels, InitLabels, SearchLabels, BirthLabels, LinkLabels,
        EngineLabels, Goto, At, Take, Remember, Crash, Return, shared, lookup,
        inits, Started, TypeInv, TypeOK, BootInv, Hooks, AllOps, AllocOps, PlainOps
<1>1. CASE NotMine(t)
  BY <1>1, SMT DEF NotMine
<1>2. CASE LockOwner(t)
  <2>1. initialized = 1
    BY <1>2, SMT DEF LockOwner, ExistInv, Arenas
  <2>2. initialized' = 1 /\ UNCHANGED <<hook, saved, heaps, op>>
    BY <1>2, <2>1 DEF LockOwner
  <2>3. pc' = [pc EXCEPT ![t] = "got"] /\ pc[t] = "owner"
    BY <1>2, SMT DEF LockOwner
  <2> QED BY <2>1, <2>2, <2>3, SMT
<1>3. CASE TrimLock(t)
  BY <1>3, SMT DEF TrimLock
<1> QED BY <1>1, <1>2, <1>3 DEF Own

----------------------------------------------------------------------------
(* main_arena stays locked once anybody may look for an arena.             *)

LEMMA MainInvCallEnter ==
  ASSUME Orderly, TypeInv, LockInv, PublishInv, BootInv, MainInv, NEW t \in Threads,
         Call(t) \/ Enter(t)
  PROVE  MainInv'
<1> USE ArenaAssumption DEF Labels, InitLabels, SearchLabels, BirthLabels, LinkLabels,
        EngineLabels, Goto, At, Take, Remember, Crash, Return, shared, lookup,
        inits, Orderly, Started, DistinctSlots, TypeInv, TypeOK,
        Arenas, Locks, BootInv, MainInv, LockInv,
        PublishInv, LocalsKnown, OneCreator, Known, Public, PlainOps, PointerInv
<1>1. CASE Call(t)
  BY <1>1, SMT DEF Call, CanStart, HookOf
<1>2. CASE EnterPlain(t)
  BY <1>2, SMT DEF EnterPlain, CanStart, HookOf
<1>s. CASE EnterSmall(t)
  BY <1>s, SMT DEF EnterSmall, CanStart, HookOf
<1>3. CASE EnterRealloc(t)
  BY <1>3, SMT DEF EnterRealloc, CanStart, HookOf
<1>4. CASE EnterIni(t)
  BY <1>4, SMT DEF EnterIni, CanStart, HookOf
<1>5. CASE DropHook(t)
  BY <1>5, SMT DEF DropHook, CanStart, HookOf
<1>6. CASE EnterStarter(t)
  BY <1>6, SMT DEF EnterStarter, CanStart, HookOf
<1> QED BY <1>1, <1>2, <1>s, <1>3, <1>4, <1>5, <1>6 DEF Enter

LEMMA MainInvInitialise ==
  ASSUME Orderly, TypeInv, LockInv, PublishInv, BootInv, MainInv, NEW t \in Threads,
         Initialise(t)
  PROVE  MainInv'
<1> USE ArenaAssumption DEF Labels, InitLabels, SearchLabels, BirthLabels, LinkLabels,
        EngineLabels, Goto, At, Take, Remember, Crash, Return, shared, lookup,
        inits, Orderly, Started, DistinctSlots, TypeInv, TypeOK,
        Arenas, Locks, BootInv, MainInv, LockInv,
        PublishInv, LocalsKnown, OneCreator, Known, Public, PlainOps, PointerInv
<1>1. CASE InitCheck(t)
  BY <1>1, SMT DEF InitCheck
<1>2. CASE InitClaim(t)
  BY <1>2, SMT DEF InitClaim
<1>3. CASE InitMain(t)
  BY <1>3, SMT DEF InitMain
<1>4. CASE InitRing(t)
  BY <1>4, SMT DEF InitRing
<1>5. CASE InitList(t)
  BY <1>5, SMT DEF InitList
<1>6. CASE InitTsd(t)
  <2>1. /\ pc[t] = "init_tsd" /\ pc' = [pc EXCEPT ![t] = "init_done"]
        /\ tsd' = [s \in Slots |-> IF s = SlotOf[t] THEN Main ELSE Null]
        /\ UNCHANGED <<initialized, mutex, heaps, av>>
    BY <1>6 DEF InitTsd
  <2>2. initialized = 0 /\ heaps = {}
    BY <2>1, SMT
  <2> QED BY <2>1, <2>2, SMT
<1>7. CASE InitDone(t)
  BY <1>7, SMTT(30) DEF InitDone, HookOf
<1> QED BY <1>1, <1>2, <1>3, <1>4, <1>5, <1>6, <1>7 DEF Initialise

LEMMA MainInvSearch ==
  ASSUME Orderly, TypeInv, LockInv, PublishInv, BootInv, MainInv, NEW t \in Threads,
         Search(t)
  PROVE  MainInv'
<1> USE ArenaAssumption DEF Labels, InitLabels, SearchLabels, BirthLabels, LinkLabels,
        EngineLabels, Goto, At, Take, Remember, Crash, Return, shared, lookup,
        inits, Orderly, Started, DistinctSlots, TypeInv, TypeOK,
        Arenas, Locks, BootInv, MainInv, LockInv,
        PublishInv, LocalsKnown, OneCreator, Known, Public, PlainOps, PointerInv
<1>1. CASE GetTsd(t)
  BY <1>1, SMT DEF GetTsd
<1>2. CASE TryDirect(t)
  BY <1>2, SMT DEF TryDirect
<1>3. CASE Get2(t)
  BY <1>3, SMT DEF Get2
<1>4. CASE LockMain(t)
  BY <1>4, SMT DEF LockMain
<1>5. CASE ScanTake(t)
  BY <1>5, SMT DEF ScanTake
<1>6. CASE ScanBusy(t)
  BY <1>6, SMT DEF ScanBusy
<1>7. CASE ScanNext(t)
  BY <1>7, SMT DEF ScanNext
<1>8. CASE ScanCrash(t)
  BY <1>8, SMT DEF ScanCrash
<1>9. CASE TryList(t)
  BY <1>9, SMT DEF TryList
<1> QED BY <1>1, <1>2, <1>3, <1>4, <1>5, <1>6, <1>7, <1>8, <1>9 DEF Search

LEMMA MainInvCreate ==
  ASSUME Orderly, TypeInv, LockInv, PublishInv, BootInv, MainInv, NEW t \in Threads,
         Create(t)
  PROVE  MainInv'
<1> USE ArenaAssumption DEF Labels, InitLabels, SearchLabels, BirthLabels, LinkLabels,
        EngineLabels, Goto, At, Take, Remember, Crash, Return, shared, lookup,
        inits, Orderly, Started, DistinctSlots, TypeInv, TypeOK,
        Arenas, Locks, BootInv, MainInv, LockInv,
        PublishInv, LocalsKnown, OneCreator, Known, Public, PlainOps, PointerInv
<1>1. CASE DropList(t)
  BY <1>1, SMT DEF DropList
<1>2. CASE NewArena(t)
  BY <1>2, SMT DEF NewArena
<1>3. CASE NewArenaFails(t)
  BY <1>3, SMT DEF NewArenaFails
<1>4. CASE SetTsd(t)
  BY <1>4, SMT DEF SetTsd
<1>5. CASE MutexInit(t)
  BY <1>5, SMT DEF MutexInit
<1>6. CASE MutexLock(t)
  BY <1>6, SMT DEF MutexLock
<1>7. CASE ListLock(t)
  BY <1>7, SMT DEF ListLock
<1>8. CASE LinkNext(t)
  BY <1>8, SMT DEF LinkNext
<1>9. CASE LinkMain(t)
  BY <1>9, SMT DEF LinkMain
<1>10. CASE ListUnlock(t)
  BY <1>10, SMT DEF ListUnlock
<1> QED BY <1>1, <1>2, <1>3, <1>4, <1>5, <1>6, <1>7, <1>8, <1>9, <1>10 DEF Create

LEMMA MainInvUse ==
  ASSUME Orderly, TypeInv, LockInv, PublishInv, BootInv, MainInv, NEW t \in Threads,
         Use(t)
  PROVE  MainInv'
<1> USE ArenaAssumption DEF Labels, InitLabels, SearchLabels, BirthLabels, LinkLabels,
        EngineLabels, Goto, At, Take, Remember, Crash, Return, shared, lookup,
        inits, Orderly, Started, DistinctSlots, TypeInv, TypeOK,
        Arenas, Locks, BootInv, MainInv, LockInv,
        PublishInv, LocalsKnown, OneCreator, Known, Public, PlainOps, PointerInv
<1>1. CASE GotNothing(t)
  BY <1>1, SMT DEF GotNothing
<1>2. CASE RefuseMain(t)
  BY <1>2, SMT DEF RefuseMain
<1>3. CASE EngineEnter(t)
  BY <1>3, SMT DEF EngineEnter
<1>4. CASE EngineLeave(t)
  BY <1>4, SMT DEF EngineLeave, Gain
<1>5. CASE EngineFails(t)
  <2>1. CASE op[t] = "malloc"
    BY <1>5, <2>1, SMT DEF EngineFails
  <2>2. CASE ~(op[t] = "malloc")
    BY <1>5, <2>2, SMT DEF EngineFails
  <2> QED BY <2>1, <2>2
<1>6. CASE Unlock(t)
  BY <1>6, SMT DEF Unlock
<1>7. CASE UnlockFailed(t)
  <2>1. CASE op[t] = "realloc"
    BY <1>7, <2>1, SMT DEF UnlockFailed
  <2>2. CASE ~(op[t] = "realloc")
    BY <1>7, <2>2, SMT DEF UnlockFailed
  <2> QED BY <2>1, <2>2
<1> QED BY <1>1, <1>2, <1>3, <1>4, <1>5, <1>6, <1>7 DEF Use

LEMMA MainInvOwn ==
  ASSUME Orderly, TypeInv, LockInv, PublishInv, BootInv, MainInv, NEW t \in Threads,
         Own(t)
  PROVE  MainInv'
<1> USE ArenaAssumption DEF Labels, InitLabels, SearchLabels, BirthLabels, LinkLabels,
        EngineLabels, Goto, At, Take, Remember, Crash, Return, shared, lookup,
        inits, Orderly, Started, DistinctSlots, TypeInv, TypeOK,
        Arenas, Locks, BootInv, MainInv, LockInv,
        PublishInv, LocalsKnown, OneCreator, Known, Public, PlainOps, PointerInv
<1>1. CASE NotMine(t)
  BY <1>1, SMT DEF NotMine
<1>2. CASE LockOwner(t)
  <2>1. CASE op[t] = "realloc"
    BY <1>2, <2>1, SMT DEF LockOwner
  <2>2. CASE ~(op[t] = "realloc")
    BY <1>2, <2>2, SMT DEF LockOwner
  <2> QED BY <2>1, <2>2
<1>3. CASE TrimLock(t)
  BY <1>3, SMT DEF TrimLock
<1> QED BY <1>1, <1>2, <1>3 DEF Own

----------------------------------------------------------------------------
(* Whoever links or uses an arena keeps its lock to itself.                *)

LEMMA LockInvCallEnter ==
  ASSUME Orderly, TypeInv, LockInv, PublishInv, BootInv, MainInv, NEW t \in Threads,
         Call(t) \/ Enter(t)
  PROVE  LockInv'
<1> USE ArenaAssumption DEF Labels, InitLabels, SearchLabels, BirthLabels, LinkLabels,
        EngineLabels, Goto, At, Take, Remember, Crash, Return, shared, lookup,
        inits, Orderly, Started, DistinctSlots, TypeInv, TypeOK,
        Arenas, Locks, AllOps, AllocOps, PlainOps, PointerInv, BootInv,
        MainInv, LockInv, PublishInv, SharedRefsKnown, LocalsKnown, OneCreator,
        TsdKnown, Known, Public
<1>1. CASE Call(t)
  BY <1>1, SMT DEF Call, CanStart, HookOf
<1>2. CASE EnterPlain(t)
  BY <1>2, SMT DEF EnterPlain, CanStart, HookOf
<1>s. CASE EnterSmall(t)
  BY <1>s, SMT DEF EnterSmall, CanStart, HookOf
<1>3. CASE EnterRealloc(t)
  BY <1>3, SMT DEF EnterRealloc, CanStart, HookOf
<1>4. CASE EnterIni(t)
  BY <1>4, SMT DEF EnterIni, CanStart, HookOf
<1>5. CASE DropHook(t)
  BY <1>5, SMT DEF DropHook, CanStart, HookOf
<1>6. CASE EnterStarter(t)
  BY <1>6, SMT DEF EnterStarter, CanStart, HookOf
<1> QED BY <1>1, <1>2, <1>s, <1>3, <1>4, <1>5, <1>6 DEF Enter

LEMMA LockInvInitialise ==
  ASSUME Orderly, TypeInv, LockInv, PublishInv, BootInv, MainInv, NEW t \in Threads,
         Initialise(t)
  PROVE  LockInv'
<1> USE ArenaAssumption DEF Labels, InitLabels, SearchLabels, BirthLabels, LinkLabels,
        EngineLabels, Goto, At, Take, Remember, Crash, Return, shared, lookup,
        inits, Orderly, Started, DistinctSlots, TypeInv, TypeOK,
        Arenas, Locks, AllOps, AllocOps, PlainOps, PointerInv, BootInv,
        MainInv, LockInv, PublishInv, SharedRefsKnown, LocalsKnown, OneCreator,
        TsdKnown, Known, Public
<1>1. CASE InitCheck(t)
  BY <1>1, SMT DEF InitCheck
<1>2. CASE InitClaim(t)
  BY <1>2, SMT DEF InitClaim
<1>3. CASE InitMain(t)
  BY <1>3, SMT DEF InitMain
<1>4. CASE InitRing(t)
  BY <1>4, SMT DEF InitRing
<1>5. CASE InitList(t)
  BY <1>5, SMT DEF InitList
<1>6. CASE InitTsd(t)
  BY <1>6, SMT DEF InitTsd
<1>7. CASE InitDone(t)
  BY <1>7, SMT DEF InitDone, HookOf
<1> QED BY <1>1, <1>2, <1>3, <1>4, <1>5, <1>6, <1>7 DEF Initialise

LEMMA LockInvSearch ==
  ASSUME Orderly, TypeInv, LockInv, PublishInv, BootInv, MainInv, NEW t \in Threads,
         Search(t)
  PROVE  LockInv'
<1> USE ArenaAssumption DEF Labels, InitLabels, SearchLabels, BirthLabels, LinkLabels,
        EngineLabels, Goto, At, Take, Remember, Crash, Return, shared, lookup,
        inits, Orderly, Started, DistinctSlots, TypeInv, TypeOK,
        Arenas, Locks, AllOps, AllocOps, PlainOps, PointerInv, BootInv,
        MainInv, LockInv, PublishInv, SharedRefsKnown, LocalsKnown, OneCreator,
        TsdKnown, Known, Public
<1>1. CASE GetTsd(t)
  BY <1>1, SMT DEF GetTsd
<1>2. CASE TryDirect(t)
  BY <1>2, SMT DEF TryDirect
<1>3. CASE Get2(t)
  BY <1>3, SMT DEF Get2
<1>4. CASE LockMain(t)
  BY <1>4, SMT DEF LockMain
<1>5. CASE ScanTake(t)
  BY <1>5, SMT DEF ScanTake
<1>6. CASE ScanBusy(t)
  BY <1>6, SMT DEF ScanBusy
<1>7. CASE ScanNext(t)
  BY <1>7, SMT DEF ScanNext
<1>8. CASE ScanCrash(t)
  BY <1>8, SMT DEF ScanCrash
<1>9. CASE TryList(t)
  BY <1>9, SMT DEF TryList
<1> QED BY <1>1, <1>2, <1>3, <1>4, <1>5, <1>6, <1>7, <1>8, <1>9 DEF Search

LEMMA LockInvCreate ==
  ASSUME Orderly, TypeInv, LockInv, PublishInv, BootInv, MainInv, NEW t \in Threads,
         Create(t)
  PROVE  LockInv'
<1> USE ArenaAssumption DEF Labels, InitLabels, SearchLabels, BirthLabels, LinkLabels,
        EngineLabels, Goto, At, Take, Remember, Crash, Return, shared, lookup,
        inits, Orderly, Started, DistinctSlots, TypeInv, TypeOK,
        Arenas, Locks, AllOps, AllocOps, PlainOps, PointerInv, BootInv,
        MainInv, LockInv, PublishInv, SharedRefsKnown, LocalsKnown, OneCreator,
        TsdKnown, Known, Public
<1>1. CASE DropList(t)
  BY <1>1, SMT DEF DropList
<1>2. CASE NewArena(t)
  BY <1>2, SMT DEF NewArena
<1>3. CASE NewArenaFails(t)
  BY <1>3, SMT DEF NewArenaFails
<1>4. CASE SetTsd(t)
  BY <1>4, SMT DEF SetTsd
<1>5. CASE MutexInit(t)
  BY <1>5, SMT DEF MutexInit
<1>6. CASE MutexLock(t)
  BY <1>6, SMT DEF MutexLock
<1>7. CASE ListLock(t)
  BY <1>7, SMT DEF ListLock
<1>8. CASE LinkNext(t)
  BY <1>8, SMT DEF LinkNext
<1>9. CASE LinkMain(t)
  BY <1>9, SMT DEF LinkMain
<1>10. CASE ListUnlock(t)
  BY <1>10, SMT DEF ListUnlock
<1> QED BY <1>1, <1>2, <1>3, <1>4, <1>5, <1>6, <1>7, <1>8, <1>9, <1>10 DEF Create

LEMMA LockInvUse ==
  ASSUME Orderly, TypeInv, LockInv, PublishInv, BootInv, MainInv, NEW t \in Threads,
         Use(t)
  PROVE  LockInv'
<1> USE ArenaAssumption DEF Labels, InitLabels, SearchLabels, BirthLabels, LinkLabels,
        EngineLabels, Goto, At, Take, Remember, Crash, Return, shared, lookup,
        inits, Orderly, Started, DistinctSlots, TypeInv, TypeOK,
        Arenas, Locks, AllOps, AllocOps, PlainOps, PointerInv, BootInv,
        MainInv, LockInv, PublishInv, SharedRefsKnown, LocalsKnown, OneCreator,
        TsdKnown, Known, Public
<1>1. CASE GotNothing(t)
  BY <1>1, SMT DEF GotNothing
<1>2. CASE RefuseMain(t)
  BY <1>2, SMT DEF RefuseMain
<1>3. CASE EngineEnter(t)
  BY <1>3, SMT DEF EngineEnter
<1>4. CASE EngineLeave(t)
  BY <1>4, SMT DEF EngineLeave, Gain
<1>5. CASE EngineFails(t)
  <2>1. CASE op[t] = "malloc"
    BY <1>5, <2>1, SMT DEF EngineFails
  <2>2. CASE ~(op[t] = "malloc")
    BY <1>5, <2>2, SMT DEF EngineFails
  <2> QED BY <2>1, <2>2
<1>6. CASE Unlock(t)
  BY <1>6, SMT DEF Unlock
<1>7. CASE UnlockFailed(t)
  <2>1. CASE op[t] = "realloc"
    BY <1>7, <2>1, SMT DEF UnlockFailed
  <2>2. CASE ~(op[t] = "realloc")
    BY <1>7, <2>2, SMT DEF UnlockFailed
  <2> QED BY <2>1, <2>2
<1> QED BY <1>1, <1>2, <1>3, <1>4, <1>5, <1>6, <1>7 DEF Use

LEMMA LockInvOwn ==
  ASSUME Orderly, TypeInv, LockInv, PublishInv, BootInv, MainInv, NEW t \in Threads,
         Own(t)
  PROVE  LockInv'
<1> USE ArenaAssumption DEF Labels, InitLabels, SearchLabels, BirthLabels, LinkLabels,
        EngineLabels, Goto, At, Take, Remember, Crash, Return, shared, lookup,
        inits, Orderly, Started, DistinctSlots, TypeInv, TypeOK,
        Arenas, Locks, AllOps, AllocOps, PlainOps, PointerInv, BootInv,
        MainInv, LockInv, PublishInv, SharedRefsKnown, LocalsKnown, OneCreator,
        TsdKnown, Known, Public
<1>1. CASE NotMine(t)
  BY <1>1, SMT DEF NotMine
<1>2. CASE LockOwner(t)
  <2>1. CASE op[t] = "realloc"
    BY <1>2, <2>1, SMT DEF LockOwner
  <2>2. CASE ~(op[t] = "realloc")
    BY <1>2, <2>2, SMT DEF LockOwner
  <2> QED BY <2>1, <2>2
<1>3. CASE TrimLock(t)
  BY <1>3, SMT DEF TrimLock
<1> QED BY <1>1, <1>2, <1>3 DEF Own

----------------------------------------------------------------------------
(* What a call carries agrees with where it is.                            *)

LEMMA CallInvCallEnter ==
  ASSUME Orderly, TypeInv, LockInv, PublishInv, BootInv, CallInv, NEW t \in Threads,
         Call(t) \/ Enter(t)
  PROVE  CallInv'
<1> USE ArenaAssumption DEF Labels, InitLabels, SearchLabels, BirthLabels, LinkLabels,
        EngineLabels, Goto, At, Take, Remember, Crash, Return, shared, lookup,
        inits, Orderly, Started, DistinctSlots, TypeInv, TypeOK,
        Arenas, Hooks, AllOps, AllocOps, PlainOps, BootInv, LockInv, CallInv,
        PublishInv, LocalsKnown, Known, Public
<1>1. CASE Call(t)
  BY <1>1, SMT DEF Call, CanStart, HookOf
<1>2. CASE EnterPlain(t)
  BY <1>2, SMT DEF EnterPlain, CanStart, HookOf
<1>s. CASE EnterSmall(t)
  BY <1>s, SMT DEF EnterSmall, CanStart, HookOf
<1>3. CASE EnterRealloc(t)
  BY <1>3, SMT DEF EnterRealloc, CanStart, HookOf
<1>4. CASE EnterIni(t)
  BY <1>4, SMT DEF EnterIni, CanStart, HookOf
<1>5. CASE DropHook(t)
  BY <1>5, SMT DEF DropHook, CanStart, HookOf
<1>6. CASE EnterStarter(t)
  BY <1>6, SMT DEF EnterStarter, CanStart, HookOf
<1> QED BY <1>1, <1>2, <1>s, <1>3, <1>4, <1>5, <1>6 DEF Enter

LEMMA CallInvInitialise ==
  ASSUME Orderly, TypeInv, LockInv, PublishInv, BootInv, CallInv, NEW t \in Threads,
         Initialise(t)
  PROVE  CallInv'
<1> USE ArenaAssumption DEF Labels, InitLabels, SearchLabels, BirthLabels, LinkLabels,
        EngineLabels, Goto, At, Take, Remember, Crash, Return, shared, lookup,
        inits, Orderly, Started, DistinctSlots, TypeInv, TypeOK,
        Arenas, Hooks, AllOps, AllocOps, PlainOps, BootInv, LockInv, CallInv,
        PublishInv, LocalsKnown, Known, Public
<1>1. CASE InitCheck(t)
  BY <1>1, SMT DEF InitCheck
<1>2. CASE InitClaim(t)
  BY <1>2, SMT DEF InitClaim
<1>3. CASE InitMain(t)
  BY <1>3, SMT DEF InitMain
<1>4. CASE InitRing(t)
  BY <1>4, SMT DEF InitRing
<1>5. CASE InitList(t)
  BY <1>5, SMT DEF InitList
<1>6. CASE InitTsd(t)
  BY <1>6, SMT DEF InitTsd
<1>7. CASE InitDone(t)
  BY <1>7, SMT DEF InitDone, HookOf
<1> QED BY <1>1, <1>2, <1>3, <1>4, <1>5, <1>6, <1>7 DEF Initialise

LEMMA CallInvSearch ==
  ASSUME Orderly, TypeInv, LockInv, PublishInv, BootInv, CallInv, NEW t \in Threads,
         Search(t)
  PROVE  CallInv'
<1> USE ArenaAssumption DEF Labels, InitLabels, SearchLabels, BirthLabels, LinkLabels,
        EngineLabels, Goto, At, Take, Remember, Crash, Return, shared, lookup,
        inits, Orderly, Started, DistinctSlots, TypeInv, TypeOK,
        Arenas, Hooks, AllOps, AllocOps, PlainOps, BootInv, LockInv, CallInv,
        PublishInv, LocalsKnown, Known, Public
<1>1. CASE GetTsd(t)
  BY <1>1, SMT DEF GetTsd
<1>2. CASE TryDirect(t)
  BY <1>2, SMT DEF TryDirect
<1>3. CASE Get2(t)
  BY <1>3, SMT DEF Get2
<1>4. CASE LockMain(t)
  BY <1>4, SMT DEF LockMain
<1>5. CASE ScanTake(t)
  BY <1>5, SMT DEF ScanTake
<1>6. CASE ScanBusy(t)
  BY <1>6, SMT DEF ScanBusy
<1>7. CASE ScanNext(t)
  BY <1>7, SMT DEF ScanNext
<1>8. CASE ScanCrash(t)
  BY <1>8, SMT DEF ScanCrash
<1>9. CASE TryList(t)
  BY <1>9, SMT DEF TryList
<1> QED BY <1>1, <1>2, <1>3, <1>4, <1>5, <1>6, <1>7, <1>8, <1>9 DEF Search

LEMMA CallInvCreate ==
  ASSUME Orderly, TypeInv, LockInv, PublishInv, BootInv, CallInv, NEW t \in Threads,
         Create(t)
  PROVE  CallInv'
<1> USE ArenaAssumption DEF Labels, InitLabels, SearchLabels, BirthLabels, LinkLabels,
        EngineLabels, Goto, At, Take, Remember, Crash, Return, shared, lookup,
        inits, Orderly, Started, DistinctSlots, TypeInv, TypeOK,
        Arenas, Hooks, AllOps, AllocOps, PlainOps, BootInv, LockInv, CallInv,
        PublishInv, LocalsKnown, Known, Public
<1>1. CASE DropList(t)
  BY <1>1, SMT DEF DropList
<1>2. CASE NewArena(t)
  BY <1>2, SMT DEF NewArena
<1>3. CASE NewArenaFails(t)
  BY <1>3, SMT DEF NewArenaFails
<1>4. CASE SetTsd(t)
  BY <1>4, SMT DEF SetTsd
<1>5. CASE MutexInit(t)
  BY <1>5, SMT DEF MutexInit
<1>6. CASE MutexLock(t)
  BY <1>6, SMT DEF MutexLock
<1>7. CASE ListLock(t)
  BY <1>7, SMT DEF ListLock
<1>8. CASE LinkNext(t)
  BY <1>8, SMT DEF LinkNext
<1>9. CASE LinkMain(t)
  BY <1>9, SMT DEF LinkMain
<1>10. CASE ListUnlock(t)
  BY <1>10, SMT DEF ListUnlock
<1> QED BY <1>1, <1>2, <1>3, <1>4, <1>5, <1>6, <1>7, <1>8, <1>9, <1>10 DEF Create

LEMMA CallInvUse ==
  ASSUME Orderly, TypeInv, LockInv, PublishInv, BootInv, CallInv, NEW t \in Threads,
         Use(t)
  PROVE  CallInv'
<1> USE ArenaAssumption DEF Labels, InitLabels, SearchLabels, BirthLabels, LinkLabels,
        EngineLabels, Goto, At, Take, Remember, Crash, Return, shared, lookup,
        inits, Orderly, Started, DistinctSlots, TypeInv, TypeOK,
        Arenas, Hooks, AllOps, AllocOps, PlainOps, BootInv, LockInv, CallInv,
        PublishInv, LocalsKnown, Known, Public
<1>1. CASE GotNothing(t)
  BY <1>1, SMT DEF GotNothing
<1>2. CASE RefuseMain(t)
  BY <1>2, SMT DEF RefuseMain
<1>3. CASE EngineEnter(t)
  BY <1>3, SMT DEF EngineEnter
<1>4. CASE EngineLeave(t)
  BY <1>4, SMT DEF EngineLeave, Gain
<1>5. CASE EngineFails(t)
  <2>1. CASE op[t] = "malloc"
    BY <1>5, <2>1, SMT DEF EngineFails
  <2>2. CASE ~(op[t] = "malloc")
    BY <1>5, <2>2, SMT DEF EngineFails
  <2> QED BY <2>1, <2>2
<1>6. CASE Unlock(t)
  BY <1>6, SMT DEF Unlock
<1>7. CASE UnlockFailed(t)
  <2>1. CASE op[t] = "realloc"
    BY <1>7, <2>1, SMT DEF UnlockFailed
  <2>2. CASE ~(op[t] = "realloc")
    BY <1>7, <2>2, SMT DEF UnlockFailed
  <2> QED BY <2>1, <2>2
<1> QED BY <1>1, <1>2, <1>3, <1>4, <1>5, <1>6, <1>7 DEF Use

LEMMA CallInvOwn ==
  ASSUME Orderly, TypeInv, LockInv, PublishInv, BootInv, CallInv, NEW t \in Threads,
         Own(t)
  PROVE  CallInv'
<1> USE ArenaAssumption DEF Labels, InitLabels, SearchLabels, BirthLabels, LinkLabels,
        EngineLabels, Goto, At, Take, Remember, Crash, Return, shared, lookup,
        inits, Orderly, Started, DistinctSlots, TypeInv, TypeOK,
        Arenas, Hooks, AllOps, AllocOps, PlainOps, BootInv, LockInv, CallInv,
        PublishInv, LocalsKnown, Known, Public
<1>1. CASE NotMine(t)
  BY <1>1, SMT DEF NotMine
<1>2. CASE LockOwner(t)
  <2>1. CASE op[t] = "realloc"
    BY <1>2, <2>1, SMT DEF LockOwner
  <2>2. CASE ~(op[t] = "realloc")
    BY <1>2, <2>2, SMT DEF LockOwner
  <2> QED BY <2>1, <2>2
<1>3. CASE TrimLock(t)
  BY <1>3, SMT DEF TrimLock
<1> QED BY <1>1, <1>2, <1>3 DEF Own

----------------------------------------------------------------------------
(* A new arena stays private until its creator has locked it.              *)

(* A step that creates no arena and hands around only known arenas.        *)
LEMMA PublishFrame ==
  ASSUME TypeInv, PublishInv, NEW t \in Threads,
         pc[t] \notin BirthLabels, pc'[t] \notin BirthLabels, heaps' = heaps,
         \A u \in Threads \ {t} : /\ pc'[u] = pc[u] /\ av'[u] = av[u]
                                  /\ start'[u] = start[u] /\ blk'[u] = blk[u],
         Known(av'[t]), Known(start'[t]), blk'[t] = Foreign \/ Known(blk'[t]),
         \A a \in Arenas : Known(next'[a]) /\ (a # Main /\ held'[a] > 0 => Public(a)),
         \A s \in Slots : tsd'[s] = tsd[s] \/ Known(tsd'[s])
  PROVE  PublishInv'
<1> USE ArenaAssumption DEF Known, Public
<1>1. SharedRefsKnown'
  BY SMT DEF SharedRefsKnown, TypeInv, TypeOK
<1>2. TsdKnown'
  BY SMT DEF PublishInv, TsdKnown, BirthLabels
<1>3. LocalsKnown'
  BY SMT DEF PublishInv, LocalsKnown
<1>4. OneCreator'
  BY SMT DEF PublishInv, OneCreator
<1> QED BY <1>1, <1>2, <1>3, <1>4 DEF PublishInv

LEMMA PublishEngineEnter ==
  ASSUME TypeInv, PublishInv, NEW t \in Threads, EngineEnter(t)
  PROVE  PublishInv'
<1>1. /\ pc[t] = "got" /\ pc' = [pc EXCEPT ![t] = "using"]
      /\ UNCHANGED <<next, held, heaps, tsd, av, start, blk>>
  BY DEF EngineEnter, At, Goto, shared
<1>2. /\ pc[t] \notin BirthLabels /\ pc'[t] \notin BirthLabels
      /\ \A u \in Threads \ {t} : pc'[u] = pc[u]
  BY <1>1, SMT DEF BirthLabels, TypeInv, TypeOK
<1>3. Known(av[t]) /\ Known(start[t]) /\ (blk[t] = Foreign \/ Known(blk[t]))
  BY <1>2 DEF PublishInv, LocalsKnown
<1>4. \A a \in Arenas : Known(next[a]) /\ (a # Main /\ held[a] > 0 => Public(a))
  BY DEF PublishInv, SharedRefsKnown
<1> QED BY <1>1, <1>2, <1>3, <1>4, PublishFrame

LEMMA PublishReturn ==
  ASSUME TypeInv, PublishInv, NEW t \in Threads, pc[t] \notin BirthLabels,
         Return(t, Null), UNCHANGED <<next, heaps, tsd>>
  PROVE  PublishInv'
<1>1. /\ pc' = [pc EXCEPT ![t] = "idle"] /\ av' = [av EXCEPT ![t] = Null]
      /\ start' = [start EXCEPT ![t] = Null] /\ blk' = [blk EXCEPT ![t] = Null]
      /\ held' = held
  BY ArenaAssumption DEF Return, Goto
<1>2. /\ pc'[t] = "idle" /\ av'[t] = Null /\ start'[t] = Null /\ blk'[t] = Null
      /\ \A u \in Threads \ {t} : /\ pc'[u] = pc[u] /\ av'[u] = av[u]
                                  /\ start'[u] = start[u] /\ blk'[u] = blk[u]
  BY <1>1, SMT DEF TypeInv, TypeOK
<1>3. pc'[t] \notin BirthLabels /\ Known(Null)
  BY <1>2 DEF BirthLabels, Known
<1>4. \A a \in Arenas : Known(next[a]) /\ (a # Main /\ held[a] > 0 => Public(a))
  BY DEF PublishInv, SharedRefsKnown
<1> QED BY <1>1, <1>2, <1>3, <1>4, PublishFrame

LEMMA PublishInvCallEnter ==
  ASSUME DistinctSlots, TypeInv, WorkersLock, PublishInv, NEW t \in Threads,
         Call(t) \/ Enter(t)
  PROVE  PublishInv'
<1> USE ArenaAssumption DEF Labels, InitLabels, SearchLabels, BirthLabels, LinkLabels,
        EngineLabels, Goto, At, Take, Remember, Crash, Return, shared, lookup,
        inits, DistinctSlots, TypeInv, TypeOK, Arenas, PointerInv, WorkersLock,
        PublishInv,
        SharedRefsKnown, TsdKnown, LocalsKnown, OneCreator, Known, Public
<1>1. CASE Call(t)
  <2>1. pc[t] = "idle" /\ pc' = [pc EXCEPT ![t] = "enter"]
        /\ UNCHANGED <<av, start, next, heaps, tsd>>
    BY <1>1 DEF Call
  <2>2. PICK b \in Arenas \cup {Foreign, Null} :
          /\ b \in Arenas => held[b] > 0
          /\ blk' = [blk EXCEPT ![t] = b]
          /\ held' = IF b \in Arenas THEN [held EXCEPT ![b] = @ - 1] ELSE held
    BY <1>1 DEF Call
  <2>3. b = Foreign \/ Known(b)
    BY <2>2, SMT
  <2>4. \A a \in Arenas : a # Main /\ held'[a] > 0 => Public(a)
    BY <2>2, SMT
  <2> QED BY <2>1, <2>2, <2>3, <2>4, PublishFrame, SMTT(30)
<1>2. CASE EnterPlain(t)
  BY <1>2, SMT DEF EnterPlain, CanStart, HookOf
<1>s. CASE EnterSmall(t)
  <2>1. UNCHANGED <<pc, av, start, blk, held, next, heaps, tsd>>
    BY <1>s DEF EnterSmall
  <2> QED BY <2>1, SMT
<1>3. CASE EnterRealloc(t)
  <2>1. UNCHANGED <<pc, av, start, blk, held, next, heaps, tsd>>
    BY <1>3 DEF EnterRealloc
  <2> QED BY <2>1, SMT
<1>4. CASE EnterIni(t)
  BY <1>4, SMT DEF EnterIni, CanStart, HookOf
<1>5. CASE DropHook(t)
  BY <1>5, SMT DEF DropHook, CanStart, HookOf
<1>6. CASE EnterStarter(t)
  BY <1>6, SMT DEF EnterStarter, CanStart, HookOf
<1> QED BY <1>1, <1>2, <1>s, <1>3, <1>4, <1>5, <1>6 DEF Enter

LEMMA PublishInvInitialise ==
  ASSUME DistinctSlots, TypeInv, WorkersLock, PublishInv, NEW t \in Threads,
         Initialise(t)
  PROVE  PublishInv'
<1> USE ArenaAssumption DEF Labels, InitLabels, SearchLabels, BirthLabels, LinkLabels,
        EngineLabels, Goto, At, Take, Remember, Crash, Return, shared, lookup,
        inits, DistinctSlots, TypeInv, TypeOK, Arenas, PointerInv, WorkersLock,
        PublishInv,
        SharedRefsKnown, TsdKnown, LocalsKnown, OneCreator, Known, Public
<1>1. CASE InitCheck(t)
  BY <1>1, SMT DEF InitCheck
<1>2. CASE InitClaim(t)
  BY <1>2, SMT DEF InitClaim
<1>3. CASE InitMain(t)
  BY <1>3, SMT DEF InitMain
<1>4. CASE InitRing(t)
  BY <1>4, SMT DEF InitRing
<1>5. CASE InitList(t)
  BY <1>5, SMT DEF InitList
<1>6. CASE InitTsd(t)
  BY <1>6, SMT DEF InitTsd
<1>7. CASE InitDone(t)
  BY <1>7, SMT DEF InitDone, HookOf
<1> QED BY <1>1, <1>2, <1>3, <1>4, <1>5, <1>6, <1>7 DEF Initialise

LEMMA PublishInvSearch ==
  ASSUME DistinctSlots, TypeInv, WorkersLock, PublishInv, NEW t \in Threads,
         Search(t)
  PROVE  PublishInv'
<1> USE ArenaAssumption DEF Labels, InitLabels, SearchLabels, BirthLabels, LinkLabels,
        EngineLabels, Goto, At, Take, Remember, Crash, Return, shared, lookup,
        inits, DistinctSlots, TypeInv, TypeOK, Arenas, PointerInv, WorkersLock,
        PublishInv,
        SharedRefsKnown, TsdKnown, LocalsKnown, OneCreator, Known, Public
<1>1. CASE GetTsd(t)
  BY <1>1, SMT DEF GetTsd
<1>2. CASE TryDirect(t)
  BY <1>2, SMT DEF TryDirect
<1>3. CASE Get2(t)
  BY <1>3, SMT DEF Get2
<1>4. CASE LockMain(t)
  BY <1>4, SMT DEF LockMain
<1>5. CASE ScanTake(t)
  BY <1>5, SMT DEF ScanTake
<1>6. CASE ScanBusy(t)
  BY <1>6, SMT DEF ScanBusy
<1>7. CASE ScanNext(t)
  BY <1>7, SMT DEF ScanNext
<1>8. CASE ScanCrash(t)
  BY <1>8, SMT DEF ScanCrash
<1>9. CASE TryList(t)
  BY <1>9, SMTT(30) DEF TryList
<1> QED BY <1>1, <1>2, <1>3, <1>4, <1>5, <1>6, <1>7, <1>8, <1>9 DEF Search

LEMMA PublishInvCreate ==
  ASSUME DistinctSlots, TypeInv, WorkersLock, PublishInv, NEW t \in Threads,
         Create(t)
  PROVE  PublishInv'
<1> USE ArenaAssumption DEF Labels, InitLabels, SearchLabels, BirthLabels, LinkLabels,
        EngineLabels, Goto, At, Take, Remember, Crash, Return, shared, lookup,
        inits, DistinctSlots, TypeInv, TypeOK, Arenas, PointerInv, WorkersLock,
        PublishInv,
        SharedRefsKnown, TsdKnown, LocalsKnown, OneCreator, Known, Public
<1>1. CASE DropList(t)
  BY <1>1, SMT DEF DropList
<1>2. CASE NewArena(t)
  BY <1>2, SMT DEF NewArena
<1>3. CASE NewArenaFails(t)
  BY <1>3, SMT DEF NewArenaFails
<1>4. CASE SetTsd(t)
  BY <1>4, SMT DEF SetTsd
<1>5. CASE MutexInit(t)
  BY <1>5, SMT DEF MutexInit
<1>6. CASE MutexLock(t)
  BY <1>6, SMT DEF MutexLock
<1>7. CASE ListLock(t)
  BY <1>7, SMT DEF ListLock
<1>8. CASE LinkNext(t)
  BY <1>8, SMT DEF LinkNext
<1>9. CASE LinkMain(t)
  BY <1>9, PublishFrame, SMT DEF LinkMain
<1>10. CASE ListUnlock(t)
  BY <1>10, SMT DEF ListUnlock
<1> QED BY <1>1, <1>2, <1>3, <1>4, <1>5, <1>6, <1>7, <1>8, <1>9, <1>10 DEF Create

LEMMA PublishInvUse ==
  ASSUME DistinctSlots, TypeInv, WorkersLock, PublishInv, NEW t \in Threads,
         Use(t)
  PROVE  PublishInv'
<1> USE ArenaAssumption DEF Labels, InitLabels, SearchLabels, BirthLabels, LinkLabels,
        EngineLabels, Goto, At, Take, Remember, Crash, Return, shared, lookup,
        inits, DistinctSlots, TypeInv, TypeOK, Arenas, PointerInv, WorkersLock,
        PublishInv,
        SharedRefsKnown, TsdKnown, LocalsKnown, OneCreator, Known, Public
<1>1. CASE GotNothing(t)
  <2>1. CASE op[t] = "pvalloc"
    <3>1. /\ pc' = [pc EXCEPT ![t] = "crashed"] /\ pc[t] = "got"
          /\ UNCHANGED <<av, start, blk, held, next, heaps, tsd>>
      BY <1>1, <2>1, SMT DEF GotNothing
    <3> QED BY <3>1, SMT
  <2>2. CASE ~(op[t] = "pvalloc")
    BY <1>1, <2>2, PublishReturn DEF GotNothing
  <2> QED BY <2>1, <2>2
<1>2. CASE RefuseMain(t)
  BY <1>2, PublishReturn DEF RefuseMain
<1>3. CASE EngineEnter(t)
  BY <1>3, PublishEngineEnter
<1>4. CASE EngineLeave(t)
  BY <1>4, PublishFrame, SMT DEF EngineLeave, Gain
<1>5. CASE EngineFails(t)
  <2>1. CASE op[t] = "malloc"
    BY <1>5, <2>1, PublishReturn DEF EngineFails
  <2>2. CASE ~(op[t] = "malloc")
    BY <1>5, <2>2, PublishFrame, SMTT(30) DEF EngineFails
  <2> QED BY <2>1, <2>2
<1>6. CASE Unlock(t)
  BY <1>6, PublishFrame, SMT DEF Unlock
<1>7. CASE UnlockFailed(t)
  <2>1. CASE op[t] = "realloc"
    BY <1>7, <2>1, PublishFrame, SMTT(30) DEF UnlockFailed
  <2>2. CASE ~(op[t] = "realloc")
    BY <1>7, <2>2, PublishReturn DEF UnlockFailed
  <2> QED BY <2>1, <2>2
<1> QED BY <1>1, <1>2, <1>3, <1>4, <1>5, <1>6, <1>7 DEF Use

LEMMA PublishInvOwn ==
  ASSUME DistinctSlots, TypeInv, WorkersLock, PublishInv, NEW t \in Threads,
         Own(t)
  PROVE  PublishInv'
<1> USE ArenaAssumption DEF Labels, InitLabels, SearchLabels, BirthLabels, LinkLabels,
        EngineLabels, Goto, At, Take, Remember, Crash, Return, shared, lookup,
        inits, DistinctSlots, TypeInv, TypeOK, Arenas, PointerInv, WorkersLock,
        PublishInv,
        SharedRefsKnown, TsdKnown, LocalsKnown, OneCreator, Known, Public
<1>1. CASE NotMine(t)
  BY <1>1, PublishReturn DEF NotMine
<1>2. CASE LockOwner(t)
  <2>1. CASE op[t] = "realloc"
    BY <1>2, <2>1, SMTT(30) DEF LockOwner
  <2>2. CASE ~(op[t] = "realloc")
    BY <1>2, <2>2, SMTT(30) DEF LockOwner
  <2> QED BY <2>1, <2>2
<1>3. CASE TrimLock(t)
  BY <1>3, SMT DEF TrimLock
<1> QED BY <1>1, <1>2, <1>3 DEF Own

----------------------------------------------------------------------------
(* The lock of a created arena stays with the thread that works in it.     *)

LEMMA WorkersLockCallEnter ==
  ASSUME TypeInv, WorkersLock, PublishInv, NEW t \in Threads,
         Call(t) \/ Enter(t)
  PROVE  WorkersLock'
<1> USE ArenaAssumption DEF Labels, InitLabels, SearchLabels, BirthLabels, LinkLabels,
        EngineLabels, Goto, At, Take, Remember, Crash, Return, shared, lookup,
        inits, TypeInv, TypeOK, PointerInv, Arenas, Locks, WorkersLock,
        PublishInv, LocalsKnown, OneCreator, Known, Public
<1>1. CASE Call(t)
  BY <1>1, SMT DEF Call, CanStart
<1>2. CASE EnterPlain(t)
  BY <1>2, SMT DEF EnterPlain, HookOf
<1>s. CASE EnterSmall(t)
  BY <1>s, SMT DEF EnterSmall
<1>3. CASE EnterRealloc(t)
  BY <1>3, SMT DEF EnterRealloc
<1>4. CASE EnterIni(t)
  BY <1>4, SMT DEF EnterIni, HookOf
<1>5. CASE DropHook(t)
  BY <1>5, SMT DEF DropHook, HookOf
<1>6. CASE EnterStarter(t)
  BY <1>6, SMT DEF EnterStarter, HookOf
<1> QED BY <1>1, <1>2, <1>s, <1>3, <1>4, <1>5, <1>6 DEF Enter

LEMMA WorkersLockInitialise ==
  ASSUME TypeInv, WorkersLock, PublishInv, NEW t \in Threads,
         Initialise(t)
  PROVE  WorkersLock'
<1> USE ArenaAssumption DEF Labels, InitLabels, SearchLabels, BirthLabels, LinkLabels,
        EngineLabels, Goto, At, Take, Remember, Crash, Return, shared, lookup,
        inits, TypeInv, TypeOK, PointerInv, Arenas, Locks, WorkersLock,
        PublishInv, LocalsKnown, OneCreator, Known, Public
<1>1. CASE InitCheck(t)
  BY <1>1, SMT DEF InitCheck
<1>2. CASE InitClaim(t)
  BY <1>2, SMT DEF InitClaim
<1>3. CASE InitMain(t)
  BY <1>3, SMT DEF InitMain
<1>4. CASE InitRing(t)
  BY <1>4, SMT DEF InitRing
<1>5. CASE InitList(t)
  BY <1>5, SMT DEF InitList
<1>6. CASE InitTsd(t)
  BY <1>6, SMT DEF InitTsd
<1>7. CASE InitDone(t)
  BY <1>7, SMT DEF InitDone, HookOf
<1> QED BY <1>1, <1>2, <1>3, <1>4, <1>5, <1>6, <1>7 DEF Initialise

LEMMA WorkersLockSearch ==
  ASSUME TypeInv, WorkersLock, PublishInv, NEW t \in Threads,
         Search(t)
  PROVE  WorkersLock'
<1> USE ArenaAssumption DEF Labels, InitLabels, SearchLabels, BirthLabels, LinkLabels,
        EngineLabels, Goto, At, Take, Remember, Crash, Return, shared, lookup,
        inits, TypeInv, TypeOK, PointerInv, Arenas, Locks, WorkersLock,
        PublishInv, LocalsKnown, OneCreator, Known, Public
<1>1. CASE GetTsd(t)
  BY <1>1, SMT DEF GetTsd
<1>2. CASE TryDirect(t)
  BY <1>2, SMT DEF TryDirect
<1>3. CASE Get2(t)
  BY <1>3, SMT DEF Get2
<1>4. CASE LockMain(t)
  BY <1>4, SMT DEF LockMain
<1>5. CASE ScanTake(t)
  <2>1. /\ pc[t] = "scan" /\ pc' = [pc EXCEPT ![t] = "got"]
        /\ av' = av /\ heaps' = heaps
        /\ mutex[av[t]] = Null /\ mutex' = [mutex EXCEPT ![av[t]] = t]
    BY <1>5, SMT DEF ScanTake
  <2> QED BY <2>1, SMT
<1>6. CASE ScanBusy(t)
  BY <1>6, SMT DEF ScanBusy
<1>7. CASE ScanNext(t)
  BY <1>7, SMT DEF ScanNext
<1>8. CASE ScanCrash(t)
  BY <1>8, SMT DEF ScanCrash
<1>9. CASE TryList(t)
  BY <1>9, SMT DEF TryList
<1> QED BY <1>1, <1>2, <1>3, <1>4, <1>5, <1>6, <1>7, <1>8, <1>9 DEF Search

LEMMA WorkersLockCreate ==
  ASSUME TypeInv, WorkersLock, PublishInv, NEW t \in Threads,
         Create(t)
  PROVE  WorkersLock'
<1> USE ArenaAssumption DEF Labels, InitLabels, SearchLabels, BirthLabels, LinkLabels,
        EngineLabels, Goto, At, Take, Remember, Crash, Return, shared, lookup,
        inits, TypeInv, TypeOK, PointerInv, Arenas, Locks, WorkersLock,
        PublishInv, LocalsKnown, OneCreator, Known, Public
<1>1. CASE DropList(t)
  BY <1>1, SMT DEF DropList
<1>2. CASE NewArena(t)
  BY <1>2, SMT DEF NewArena
<1>3. CASE NewArenaFails(t)
  BY <1>3, SMT DEF NewArenaFails
<1>4. CASE SetTsd(t)
  BY <1>4, SMT DEF SetTsd
<1>5. CASE MutexInit(t)
  BY <1>5, SMT DEF MutexInit
<1>6. CASE MutexLock(t)
  BY <1>6, SMT DEF MutexLock
<1>7. CASE ListLock(t)
  BY <1>7, SMT DEF ListLock
<1>8. CASE LinkNext(t)
  BY <1>8, SMT DEF LinkNext
<1>9. CASE LinkMain(t)
  BY <1>9, SMT DEF LinkMain
<1>10. CASE ListUnlock(t)
  BY <1>10, SMT DEF ListUnlock
<1> QED BY <1>1, <1>2, <1>3, <1>4, <1>5, <1>6, <1>7, <1>8, <1>9, <1>10 DEF Create

LEMMA WorkersLockUse ==
  ASSUME TypeInv, WorkersLock, PublishInv, NEW t \in Threads,
         Use(t)
  PROVE  WorkersLock'
<1> USE ArenaAssumption DEF Labels, InitLabels, SearchLabels, BirthLabels, LinkLabels,
        EngineLabels, Goto, At, Take, Remember, Crash, Return, shared, lookup,
        inits, TypeInv, TypeOK, PointerInv, Arenas, Locks, WorkersLock,
        PublishInv, LocalsKnown, OneCreator, Known, Public
<1>1. CASE GotNothing(t)
  BY <1>1, SMT DEF GotNothing
<1>2. CASE RefuseMain(t)
  BY <1>2, SMT DEF RefuseMain
<1>3. CASE EngineEnter(t)
  BY <1>3, SMT DEF EngineEnter
<1>4. CASE EngineLeave(t)
  BY <1>4, SMT DEF EngineLeave, Gain
<1>5. CASE EngineFails(t)
  <2>1. CASE op[t] = "malloc"
    BY <1>5, <2>1, SMT DEF EngineFails
  <2>2. CASE ~(op[t] = "malloc")
    BY <1>5, <2>2, SMT DEF EngineFails
  <2> QED BY <2>1, <2>2
<1>6. CASE Unlock(t)
  BY <1>6, SMT DEF Unlock
<1>7. CASE UnlockFailed(t)
  <2>1. CASE op[t] = "realloc"
    BY <1>7, <2>1, SMT DEF UnlockFailed
  <2>2. CASE ~(op[t] = "realloc")
    BY <1>7, <2>2, SMT DEF UnlockFailed
  <2> QED BY <2>1, <2>2
<1> QED BY <1>1, <1>2, <1>3, <1>4, <1>5, <1>6, <1>7 DEF Use

LEMMA WorkersLockOwn ==
  ASSUME TypeInv, WorkersLock, PublishInv, NEW t \in Threads,
         Own(t)
  PROVE  WorkersLock'
<1> USE ArenaAssumption DEF Labels, InitLabels, SearchLabels, BirthLabels, LinkLabels,
        EngineLabels, Goto, At, Take, Remember, Crash, Return, shared, lookup,
        inits, TypeInv, TypeOK, PointerInv, Arenas, Locks, WorkersLock,
        PublishInv, LocalsKnown, OneCreator, Known, Public
<1>1. CASE NotMine(t)
  BY <1>1, SMT DEF NotMine
<1>2. CASE LockOwner(t)
  <2>1. CASE op[t] = "realloc"
    BY <1>2, <2>1, SMT DEF LockOwner
  <2>2. CASE ~(op[t] = "realloc")
    BY <1>2, <2>2, SMT DEF LockOwner
  <2> QED BY <2>1, <2>2
<1>3. CASE TrimLock(t)
  BY <1>3, SMT DEF TrimLock
<1> QED BY <1>1, <1>2, <1>3 DEF Own

(* With distinct slots the two parts are inductive, in whatever order      *)
(* threads come, race and fail.                                            *)
LEMMA RaceStep ==
  ASSUME DistinctSlots, RaceInv, [Next]_vars
  PROVE  PublishInv' /\ WorkersLock'
<1> USE DEF RaceInv
<1>1. ASSUME NEW t \in Threads, Call(t) \/ Work(t)
      PROVE  PublishInv'
  BY <1>1, PublishInvCallEnter, PublishInvInitialise, PublishInvSearch,
     PublishInvCreate, PublishInvUse, PublishInvOwn DEF Work
<1>2. ASSUME NEW t \in Threads, Call(t) \/ Work(t)
      PROVE  WorkersLock'
  BY <1>2, WorkersLockCallEnter, WorkersLockInitialise, WorkersLockSearch,
     WorkersLockCreate, WorkersLockUse, WorkersLockOwn DEF Work
<1>3. CASE UNCHANGED vars
  BY <1>3, SMT DEF vars, shared, lookup, PublishInv, SharedRefsKnown, TsdKnown,
     LocalsKnown, OneCreator, WorkersLock, Known, Public
<1> QED BY <1>1, <1>2, <1>3 DEF Next, Finished

----------------------------------------------------------------------------
LEMMA ArenaInvInit == Orderly /\ Init => ArenaInv
  BY ArenaAssumption, SMT DEF Init, ArenaInv, BootInv, MainInv, PublishInv,
     SharedRefsKnown, TsdKnown, LocalsKnown, OneCreator, WorkersLock, LockInv, CallInv, Known,
     Arenas, Locks, Hooks, AllOps, AllocOps, PlainOps, InitLabels, SearchLabels,
     BirthLabels, LinkLabels, EngineLabels

LEMMA ArenaInvStep ==
  ASSUME Orderly, TypeInv, ArenaInv, [Next]_vars
  PROVE  ArenaInv'
<1> USE DEF ArenaInv, Orderly
<1>1. PublishInv' /\ WorkersLock'
  BY RaceStep DEF RaceInv, Orderly
<1>2. ASSUME NEW t \in Threads, Call(t) \/ Enter(t)
      PROVE  BootInv' /\ MainInv' /\ LockInv' /\ CallInv'
  BY <1>2, BootInvCallEnter, MainInvCallEnter, LockInvCallEnter,
     CallInvCallEnter
<1>3. ASSUME NEW t \in Threads, Initialise(t)
      PROVE  BootInv' /\ MainInv' /\ LockInv' /\ CallInv'
  BY <1>3, BootInvInitialise, MainInvInitialise, LockInvInitialise,
     CallInvInitialise
<1>4. ASSUME NEW t \in Threads, Search(t)
      PROVE  BootInv' /\ MainInv' /\ LockInv' /\ CallInv'
  BY <1>4, BootInvSearch, MainInvSearch, LockInvSearch, CallInvSearch
<1>5. ASSUME NEW t \in Threads, Create(t)
      PROVE  BootInv' /\ MainInv' /\ LockInv' /\ CallInv'
  BY <1>5, BootInvCreate, MainInvCreate, LockInvCreate, CallInvCreate
<1>6. ASSUME NEW t \in Threads, Use(t)
      PROVE  BootInv' /\ MainInv' /\ LockInv' /\ CallInv'
  BY <1>6, BootInvUse, MainInvUse, LockInvUse, CallInvUse
<1>7. ASSUME NEW t \in Threads, Own(t)
      PROVE  BootInv' /\ MainInv' /\ LockInv' /\ CallInv'
  BY <1>7, BootInvOwn, MainInvOwn, LockInvOwn, CallInvOwn
<1>8. ASSUME UNCHANGED vars
      PROVE  BootInv' /\ MainInv' /\ LockInv' /\ CallInv'
  BY <1>8, SMT DEF vars, shared, lookup, BootInv, MainInv, LockInv, CallInv
<1> QED BY <1>1, <1>2, <1>3, <1>4, <1>5, <1>6, <1>7, <1>8 DEF Next, Work, Finished

LEMMA TypeStep == TypeInv /\ [Next]_vars => TypeInv'
<1> SUFFICES ASSUME TypeInv, [Next]_vars PROVE TypeInv'
  OBVIOUS
<1>1. ASSUME NEW t \in Threads, Call(t) \/ Work(t) PROVE TypeInv'
  BY <1>1, TypeCallEnter, TypeInitialise, TypeSearch, TypeCreate, TypeUse,
     TypeOwn DEF Work
<1>2. CASE UNCHANGED vars
  BY <1>2, SMT DEF TypeInv, TypeOK, PointerInv, ExistInv, vars, shared, lookup
<1> QED BY <1>1, <1>2 DEF Next, Finished

(* Every variable keeps its type, whatever the program's threads do.       *)
THEOREM TypeCorrect == Spec => []TypeOK
<1>1. TypeInv => TypeOK
  BY DEF TypeInv
<1> QED BY TypeInit, TypeStep, <1>1, PTL DEF Spec

(* The invariant of an orderly program (one thread makes the first call,   *)
(* no two threads share a tsd slot), for any number of threads, slots and  *)
(* arenas.                                                                 *)
THEOREM InvariantHolds == ASSUME Orderly PROVE Spec => []Inductive
<1>1. Init => Inductive
  BY TypeInit, ArenaInvInit DEF Inductive
<1>2. Inductive /\ [Next]_vars => Inductive'
  BY TypeStep, ArenaInvStep DEF Inductive
<1> QED BY <1>1, <1>2, PTL DEF Spec

(* In an orderly program, where each thread has a tsd slot of its own and  *)
(* one thread makes the first call, the lock handed out by arena_get       *)
(* really excludes: no two threads are ever inside the engine of one       *)
(* arena, although a new arena is announced in the tsd table before its    *)
(* mutex is initialised. Where slots are shared this is false              *)
(* (arena_shared_slot).                                                    *)
THEOREM ArenasExclusive == ASSUME Orderly PROVE Spec => []ArenaExclusive
<1>1. Inductive => ArenaExclusive
  BY SMT DEF Inductive, ArenaInv, LockInv, ArenaExclusive, EngineLabels
<1> QED BY InvariantHolds, <1>1, PTL

(* As long as no two threads share a tsd slot, the arenas _int_new_arena   *)
(* made are never used by two threads at a time, whatever races through    *)
(* ptmalloc_init, whichever calls fail and however many threads there are. *)
(* Where slots are shared this is false (arena_shared_slot).               *)
THEOREM CreatedArenasExclusive ==
  ASSUME DistinctSlots PROVE Spec => []CreatedArenaExclusive
<1>1. Init => RaceInv
  BY ArenaAssumption, TypeInit, SMT DEF Init, RaceInv, PublishInv, SharedRefsKnown,
     TsdKnown, LocalsKnown, OneCreator, WorkersLock, Known, Arenas, Locks,
     BirthLabels, LinkLabels, EngineLabels
<1>2. RaceInv /\ [Next]_vars => RaceInv'
  BY TypeStep, RaceStep DEF RaceInv
<1>3. RaceInv => CreatedArenaExclusive
  BY SMT DEF RaceInv, WorkersLock, CreatedArenaExclusive, EngineLabels, TypeInv,
     TypeOK, PointerInv, Arenas
<1> QED BY <1>1, <1>2, <1>3, PTL DEF Spec

LEMMA InvariantDisables == Inductive => MainDisabled
  BY ArenaAssumption, SMT DEF Inductive, ArenaInv, LockInv, MainInv, CallInv, MainDisabled,
     EngineLabels, TypeInv, TypeOK, Arenas

(* In an orderly program (distinct tsd slots, one first caller) main_arena *)
(* is disabled, as readme.md promises.                                     *)
THEOREM MainIsDisabled == ASSUME Orderly PROVE Spec => []MainDisabled
BY InvariantHolds, InvariantDisables, PTL

----------------------------------------------------------------------------
(* Who holds the spin locks of the arena layer, and when.                 *)

(* A thread holds a lock only while it works under it.                     *)

LEMMA HolderCallEnter ==
  ASSUME KeepsNoLock, TypeInv, HolderInv, NEW t \in Threads,
         Call(t) \/ Enter(t)
  PROVE  HolderInv'
<1> USE ArenaAssumption DEF Labels, InitLabels, SearchLabels, BirthLabels, LinkLabels,
        EngineLabels, Goto, At, Take, Remember, Crash, Return, shared, lookup,
        inits, TypeInv, TypeOK, PointerInv, Arenas, Locks, HolderInv,
        KeepsNoLock, AllOps, AllocOps
<1>1. CASE Call(t)
  BY <1>1, SMT DEF Call, CanStart
<1>2. CASE EnterPlain(t)
  BY <1>2, SMT DEF EnterPlain, HookOf
<1>s. CASE EnterSmall(t)
  BY <1>s, SMT DEF EnterSmall
<1>3. CASE EnterRealloc(t)
  BY <1>3, SMT DEF EnterRealloc
<1>4. CASE EnterIni(t)
  BY <1>4, SMT DEF EnterIni, HookOf
<1>5. CASE DropHook(t)
  BY <1>5, SMT DEF DropHook, HookOf
<1>6. CASE EnterStarter(t)
  BY <1>6, SMT DEF EnterStarter, HookOf
<1> QED BY <1>1, <1>2, <1>s, <1>3, <1>4, <1>5, <1>6 DEF Enter

LEMMA HolderInitialise ==
  ASSUME KeepsNoLock, TypeInv, HolderInv, NEW t \in Threads,
         Initialise(t)
  PROVE  HolderInv'
<1> USE ArenaAssumption DEF Labels, InitLabels, SearchLabels, BirthLabels, LinkLabels,
        EngineLabels, Goto, At, Take, Remember, Crash, Return, shared, lookup,
        inits, TypeInv, TypeOK, PointerInv, Arenas, Locks, HolderInv,
        KeepsNoLock, AllOps, AllocOps
<1>1. CASE InitCheck(t)
  BY <1>1, SMT DEF InitCheck
<1>2. CASE InitClaim(t)
  BY <1>2, SMT DEF InitClaim
<1>3. CASE InitMain(t)
  BY <1>3, SMT DEF InitMain
<1>4. CASE InitRing(t)
  BY <1>4, SMT DEF InitRing
<1>5. CASE InitList(t)
  BY <1>5, SMT DEF InitList
<1>6. CASE InitTsd(t)
  BY <1>6, SMT DEF InitTsd
<1>7. CASE InitDone(t)
  BY <1>7, SMT DEF InitDone, HookOf
<1> QED BY <1>1, <1>2, <1>3, <1>4, <1>5, <1>6, <1>7 DEF Initialise

LEMMA HolderSearch ==
  ASSUME KeepsNoLock, TypeInv, HolderInv, NEW t \in Threads,
         Search(t)
  PROVE  HolderInv'
<1> USE ArenaAssumption DEF Labels, InitLabels, SearchLabels, BirthLabels, LinkLabels,
        EngineLabels, Goto, At, Take, Remember, Crash, Return, shared, lookup,
        inits, TypeInv, TypeOK, PointerInv, Arenas, Locks, HolderInv,
        KeepsNoLock, AllOps, AllocOps
<1>1. CASE GetTsd(t)
  BY <1>1, SMT DEF GetTsd
<1>2. CASE TryDirect(t)
  BY <1>2, SMT DEF TryDirect
<1>3. CASE Get2(t)
  BY <1>3, SMT DEF Get2
<1>4. CASE LockMain(t)
  BY <1>4, SMT DEF LockMain
<1>5. CASE ScanTake(t)
  BY <1>5, SMT DEF ScanTake
<1>6. CASE ScanBusy(t)
  BY <1>6, SMT DEF ScanBusy
<1>7. CASE ScanNext(t)
  BY <1>7, SMT DEF ScanNext
<1>8. CASE ScanCrash(t)
  BY <1>8, SMT DEF ScanCrash
<1>9. CASE TryList(t)
  BY <1>9, SMT DEF TryList
<1> QED BY <1>1, <1>2, <1>3, <1>4, <1>5, <1>6, <1>7, <1>8, <1>9 DEF Search

LEMMA HolderCreate ==
  ASSUME KeepsNoLock, TypeInv, HolderInv, NEW t \in Threads,
         Create(t)
  PROVE  HolderInv'
<1> USE ArenaAssumption DEF Labels, InitLabels, SearchLabels, BirthLabels, LinkLabels,
        EngineLabels, Goto, At, Take, Remember, Crash, Return, shared, lookup,
        inits, TypeInv, TypeOK, PointerInv, Arenas, Locks, HolderInv,
        KeepsNoLock, AllOps, AllocOps
<1>1. CASE DropList(t)
  BY <1>1, SMT DEF DropList
<1>2. CASE NewArena(t)
  BY <1>2, SMT DEF NewArena
<1>3. CASE NewArenaFails(t)
  BY <1>3, SMT DEF NewArenaFails
<1>4. CASE SetTsd(t)
  BY <1>4, SMT DEF SetTsd
<1>5. CASE MutexInit(t)
  BY <1>5, SMT DEF MutexInit
<1>6. CASE MutexLock(t)
  BY <1>6, SMT DEF MutexLock
<1>7. CASE ListLock(t)
  BY <1>7, SMT DEF ListLock
<1>8. CASE LinkNext(t)
  BY <1>8, SMT DEF LinkNext
<1>9. CASE LinkMain(t)
  BY <1>9, SMT DEF LinkMain
<1>10. CASE ListUnlock(t)
  BY <1>10, SMT DEF ListUnlock
<1> QED BY <1>1, <1>2, <1>3, <1>4, <1>5, <1>6, <1>7, <1>8, <1>9, <1>10 DEF Create

LEMMA HolderUse ==
  ASSUME KeepsNoLock, TypeInv, HolderInv, NEW t \in Threads,
         Use(t)
  PROVE  HolderInv'
<1> USE ArenaAssumption DEF Labels, InitLabels, SearchLabels, BirthLabels, LinkLabels,
        EngineLabels, Goto, At, Take, Remember, Crash, Return, shared, lookup,
        inits, TypeInv, TypeOK, PointerInv, Arenas, Locks, HolderInv,
        KeepsNoLock, AllOps, AllocOps
<1>1. CASE GotNothing(t)
  BY <1>1, SMT DEF GotNothing
<1>2. CASE RefuseMain(t)
  BY <1>2, SMT DEF RefuseMain
<1>3. CASE EngineEnter(t)
  BY <1>3, SMT DEF EngineEnter
<1>4. CASE EngineLeave(t)
  BY <1>4, SMT DEF EngineLeave, Gain
<1>5. CASE EngineFails(t)
  <2>1. CASE op[t] = "malloc"
    BY <1>5, <2>1, SMT DEF EngineFails
  <2>2. CASE ~(op[t] = "malloc")
    BY <1>5, <2>2, SMT DEF EngineFails
  <2> QED BY <2>1, <2>2
<1>6. CASE Unlock(t)
  BY <1>6, SMT DEF Unlock
<1>7. CASE UnlockFailed(t)
  <2>1. CASE op[t] = "realloc"
    BY <1>7, <2>1, SMT DEF UnlockFailed
  <2>2. CASE ~(op[t] = "realloc")
    BY <1>7, <2>2, SMT DEF UnlockFailed
  <2> QED BY <2>1, <2>2
<1> QED BY <1>1, <1>2, <1>3, <1>4, <1>5, <1>6, <1>7 DEF Use

LEMMA HolderOwn ==
  ASSUME KeepsNoLock, TypeInv, HolderInv, NEW t \in Threads,
         Own(t)
  PROVE  HolderInv'
<1> USE ArenaAssumption DEF Labels, InitLabels, SearchLabels, BirthLabels, LinkLabels,
        EngineLabels, Goto, At, Take, Remember, Crash, Return, shared, lookup,
        inits, TypeInv, TypeOK, PointerInv, Arenas, Locks, HolderInv,
        KeepsNoLock, AllOps, AllocOps
<1>1. CASE NotMine(t)
  BY <1>1, SMT DEF NotMine
<1>2. CASE LockOwner(t)
  <2>1. CASE op[t] = "realloc"
    BY <1>2, <2>1, SMT DEF LockOwner
  <2>2. CASE ~(op[t] = "realloc")
    BY <1>2, <2>2, SMT DEF LockOwner
  <2> QED BY <2>1, <2>2
<1>3. CASE TrimLock(t)
  BY <1>3, SMT DEF TrimLock
<1> QED BY <1>1, <1>2, <1>3 DEF Own

LEMMA HolderStep ==
  ASSUME KeepsNoLock, TypeInv, HolderInv, [Next]_vars
  PROVE  HolderInv'
<1>1. ASSUME NEW t \in Threads, Call(t) \/ Work(t) PROVE HolderInv'
  BY <1>1, HolderCallEnter, HolderInitialise, HolderSearch, HolderCreate,
     HolderUse, HolderOwn DEF Work
<1>2. CASE UNCHANGED vars
  BY <1>2, SMT DEF vars, shared, lookup, HolderInv
<1> QED BY <1>1, <1>2 DEF Next, Finished

(* A thread that is back in the program holds no lock that anybody will    *)
(* wait for, whatever the tsd slots, the order of the first calls and the  *)
(* number of threads, unless malloc fails in the engine: as itself, or for *)
(* calloc, realloc or a memalign of small alignment.                       *)
THEOREM LocksAreReturned ==
  ASSUME KeepsNoLock PROVE Spec => []ReturnsLockNothing
<1>1. Init => TypeInv /\ HolderInv
  BY ArenaAssumption, TypeInit, SMT DEF Init, HolderInv, Locks, Arenas
<1>2. TypeInv /\ HolderInv /\ [Next]_vars => (TypeInv /\ HolderInv)'
  BY TypeStep, HolderStep
<1>3. HolderInv => ReturnsLockNothing
  BY SMT DEF HolderInv, ReturnsLockNothing, Locks, Arenas, LinkLabels, EngineLabels
<1> QED BY <1>1, <1>2, <1>3, PTL DEF Spec

----------------------------------------------------------------------------
(* The list lock, in a started program.                                    *)

LEMMA ListCallEnter ==
  ASSUME TypeInv, BootInv, ListInv, NEW t \in Threads,
         Call(t) \/ Enter(t)
  PROVE  ListInv'
<1> USE ArenaAssumption DEF Labels, InitLabels, SearchLabels, BirthLabels, LinkLabels,
        EngineLabels, Goto, At, Take, Remember, Crash, Return, shared, lookup,
        inits, TypeInv, TypeOK, PointerInv, Arenas, Locks, ListInv,
        BootInv, ExistInv
<1>1. CASE Call(t)
  BY <1>1, SMT DEF Call, CanStart
<1>2. CASE EnterPlain(t)
  BY <1>2, SMT DEF EnterPlain, HookOf
<1>s. CASE EnterSmall(t)
  BY <1>s, SMT DEF EnterSmall
<1>3. CASE EnterRealloc(t)
  BY <1>3, SMT DEF EnterRealloc
<1>4. CASE EnterIni(t)
  BY <1>4, SMT DEF EnterIni, HookOf
<1>5. CASE DropHook(t)
  BY <1>5, SMT DEF DropHook, HookOf
<1>6. CASE EnterStarter(t)
  BY <1>6, SMT DEF EnterStarter, HookOf
<1> QED BY <1>1, <1>2, <1>s, <1>3, <1>4, <1>5, <1>6 DEF Enter

LEMMA ListInitialise ==
  ASSUME TypeInv, BootInv, ListInv, NEW t \in Threads,
         Initialise(t)
  PROVE  ListInv'
<1> USE ArenaAssumption DEF Labels, InitLabels, SearchLabels, BirthLabels, LinkLabels,
        EngineLabels, Goto, At, Take, Remember, Crash, Return, shared, lookup,
        inits, TypeInv, TypeOK, PointerInv, Arenas, Locks, ListInv,
        BootInv, ExistInv
<1>1. CASE InitCheck(t)
  BY <1>1, SMT DEF InitCheck
<1>2. CASE InitClaim(t)
  BY <1>2, SMT DEF InitClaim
<1>3. CASE InitMain(t)
  BY <1>3, SMT DEF InitMain
<1>4. CASE InitRing(t)
  BY <1>4, SMT DEF InitRing
<1>5. CASE InitList(t)
  BY <1>5, SMT DEF InitList
<1>6. CASE InitTsd(t)
  BY <1>6, SMT DEF InitTsd
<1>7. CASE InitDone(t)
  BY <1>7, SMT DEF InitDone, HookOf
<1> QED BY <1>1, <1>2, <1>3, <1>4, <1>5, <1>6, <1>7 DEF Initialise

LEMMA ListSearch ==
  ASSUME TypeInv, BootInv, ListInv, NEW t \in Threads,
         Search(t)
  PROVE  ListInv'
<1> USE ArenaAssumption DEF Labels, InitLabels, SearchLabels, BirthLabels, LinkLabels,
        EngineLabels, Goto, At, Take, Remember, Crash, Return, shared, lookup,
        inits, TypeInv, TypeOK, PointerInv, Arenas, Locks, ListInv,
        BootInv, ExistInv
<1>1. CASE GetTsd(t)
  BY <1>1, SMT DEF GetTsd
<1>2. CASE TryDirect(t)
  BY <1>2, SMT DEF TryDirect
<1>3. CASE Get2(t)
  BY <1>3, SMT DEF Get2
<1>4. CASE LockMain(t)
  BY <1>4, SMT DEF LockMain
<1>5. CASE ScanTake(t)
  BY <1>5, SMT DEF ScanTake
<1>6. CASE ScanBusy(t)
  BY <1>6, SMT DEF ScanBusy
<1>7. CASE ScanNext(t)
  BY <1>7, SMT DEF ScanNext
<1>8. CASE ScanCrash(t)
  BY <1>8, SMT DEF ScanCrash
<1>9. CASE TryList(t)
  BY <1>9, SMT DEF TryList
<1> QED BY <1>1, <1>2, <1>3, <1>4, <1>5, <1>6, <1>7, <1>8, <1>9 DEF Search

LEMMA ListCreate ==
  ASSUME TypeInv, BootInv, ListInv, NEW t \in Threads,
         Create(t)
  PROVE  ListInv'
<1> USE ArenaAssumption DEF Labels, InitLabels, SearchLabels, BirthLabels, LinkLabels,
        EngineLabels, Goto, At, Take, Remember, Crash, Return, shared, lookup,
        inits, TypeInv, TypeOK, PointerInv, Arenas, Locks, ListInv,
        BootInv, ExistInv
<1>1. CASE DropList(t)
  BY <1>1, SMT DEF DropList
<1>2. CASE NewArena(t)
  BY <1>2, SMT DEF NewArena
<1>3. CASE NewArenaFails(t)
  BY <1>3, SMT DEF NewArenaFails
<1>4. CASE SetTsd(t)
  BY <1>4, SMT DEF SetTsd
<1>5. CASE MutexInit(t)
  BY <1>5, SMT DEF MutexInit
<1>6. CASE MutexLock(t)
  BY <1>6, SMT DEF MutexLock
<1>7. CASE ListLock(t)
  BY <1>7, SMT DEF ListLock
<1>8. CASE LinkNext(t)
  BY <1>8, SMT DEF LinkNext
<1>9. CASE LinkMain(t)
  BY <1>9, SMT DEF LinkMain
<1>10. CASE ListUnlock(t)
  BY <1>10, SMT DEF ListUnlock
<1> QED BY <1>1, <1>2, <1>3, <1>4, <1>5, <1>6, <1>7, <1>8, <1>9, <1>10 DEF Create

LEMMA ListUse ==
  ASSUME TypeInv, BootInv, ListInv, NEW t \in Threads,
         Use(t)
  PROVE  ListInv'
<1> USE ArenaAssumption DEF Labels, InitLabels, SearchLabels, BirthLabels, LinkLabels,
        EngineLabels, Goto, At, Take, Remember, Crash, Return, shared, lookup,
        inits, TypeInv, TypeOK, PointerInv, Arenas, Locks, ListInv,
        BootInv, ExistInv
<1>1. CASE GotNothing(t)
  BY <1>1, SMT DEF GotNothing
<1>2. CASE RefuseMain(t)
  BY <1>2, SMT DEF RefuseMain
<1>3. CASE EngineEnter(t)
  BY <1>3, SMT DEF EngineEnter
<1>4. CASE EngineLeave(t)
  BY <1>4, SMT DEF EngineLeave, Gain
<1>5. CASE EngineFails(t)
  <2>1. CASE op[t] = "malloc"
    BY <1>5, <2>1, SMT DEF EngineFails
  <2>2. CASE ~(op[t] = "malloc")
    BY <1>5, <2>2, SMT DEF EngineFails
  <2> QED BY <2>1, <2>2
<1>6. CASE Unlock(t)
  BY <1>6, SMT DEF Unlock
<1>7. CASE UnlockFailed(t)
  <2>1. CASE op[t] = "realloc"
    BY <1>7, <2>1, SMT DEF UnlockFailed
  <2>2. CASE ~(op[t] = "realloc")
    BY <1>7, <2>2, SMT DEF UnlockFailed
  <2> QED BY <2>1, <2>2
<1> QED BY <1>1, <1>2, <1>3, <1>4, <1>5, <1>6, <1>7 DEF Use

LEMMA ListOwn ==
  ASSUME TypeInv, BootInv, ListInv, NEW t \in Threads,
         Own(t)
  PROVE  ListInv'
<1> USE ArenaAssumption DEF Labels, InitLabels, SearchLabels, BirthLabels, LinkLabels,
        EngineLabels, Goto, At, Take, Remember, Crash, Return, shared, lookup,
        inits, TypeInv, TypeOK, PointerInv, Arenas, Locks, ListInv,
        BootInv, ExistInv
<1>1. CASE NotMine(t)
  BY <1>1, SMT DEF NotMine
<1>2. CASE LockOwner(t)
  <2>1. CASE op[t] = "realloc"
    BY <1>2, <2>1, SMT DEF LockOwner
  <2>2. CASE ~(op[t] = "realloc")
    BY <1>2, <2>2, SMT DEF LockOwner
  <2> QED BY <2>1, <2>2
<1>3. CASE TrimLock(t)
  BY <1>3, SMT DEF TrimLock
<1> QED BY <1>1, <1>2, <1>3 DEF Own

LEMMA ListInit == Init => ListInv
  BY ArenaAssumption, SMT DEF Init, ListInv

LEMMA ListStep ==
  ASSUME TypeInv, BootInv, ListInv, [Next]_vars
  PROVE  ListInv'
<1>1. ASSUME NEW t \in Threads, Call(t) \/ Work(t) PROVE ListInv'
  BY <1>1, ListCallEnter, ListInitialise, ListSearch, ListCreate, ListUse,
     ListOwn DEF Work
<1>2. CASE UNCHANGED vars
  BY <1>2, SMT DEF vars, shared, lookup, ListInv
<1> QED BY <1>1, <1>2 DEF Next, Finished

----------------------------------------------------------------------------
(* Who changes a lock that is taken.                                       *)

LEMMA HoldsCallEnter ==
  ASSUME ArenaInv, TypeInv, ListInv, NEW l \in Locks,
         mutex[l] # Null, mutex'[l] # mutex[l], NEW t \in Threads,
         Call(t) \/ Enter(t)
  PROVE  mutex[l] = t /\ pc'[t] # pc[t]
<1> USE ArenaAssumption DEF Labels, InitLabels, SearchLabels, BirthLabels, LinkLabels,
        EngineLabels, Goto, At, Take, Remember, Crash, Return, shared, lookup,
        inits, TypeInv, TypeOK, PointerInv, Arenas, Locks, ArenaInv, ListInv,
        BootInv, MainInv, LockInv, WorkersLock, Public, PlainOps, AllOps, AllocOps
<1>1. CASE Call(t)
  BY <1>1, SMT DEF Call, CanStart
<1>2. CASE EnterPlain(t)
  BY <1>2, SMT DEF EnterPlain, HookOf
<1>s. CASE EnterSmall(t)
  BY <1>s, SMT DEF EnterSmall
<1>3. CASE EnterRealloc(t)
  BY <1>3, SMT DEF EnterRealloc
<1>4. CASE EnterIni(t)
  BY <1>4, SMT DEF EnterIni, HookOf
<1>5. CASE DropHook(t)
  BY <1>5, SMT DEF DropHook, HookOf
<1>6. CASE EnterStarter(t)
  BY <1>6, SMT DEF EnterStarter, HookOf
<1> QED BY <1>1, <1>2, <1>s, <1>3, <1>4, <1>5, <1>6 DEF Enter

LEMMA HoldsInitialise ==
  ASSUME ArenaInv, TypeInv, ListInv, NEW l \in Locks,
         mutex[l] # Null, mutex'[l] # mutex[l], NEW t \in Threads,
         Initialise(t)
  PROVE  mutex[l] = t /\ pc'[t] # pc[t]
<1> USE ArenaAssumption DEF Labels, InitLabels, SearchLabels, BirthLabels, LinkLabels,
        EngineLabels, Goto, At, Take, Remember, Crash, Return, shared, lookup,
        inits, TypeInv, TypeOK, PointerInv, Arenas, Locks, ArenaInv, ListInv,
        BootInv, MainInv, LockInv, WorkersLock, Public, PlainOps, AllOps, AllocOps
<1>1. CASE InitCheck(t)
  BY <1>1, SMT DEF InitCheck
<1>2. CASE InitClaim(t)
  BY <1>2, SMT DEF InitClaim
<1>3. CASE InitMain(t)
  BY <1>3, SMT DEF InitMain
<1>4. CASE InitRing(t)
  BY <1>4, SMT DEF InitRing
<1>5. CASE InitList(t)
  BY <1>5, SMT DEF InitList
<1>6. CASE InitTsd(t)
  BY <1>6, SMT DEF InitTsd
<1>7. CASE InitDone(t)
  BY <1>7, SMT DEF InitDone, HookOf
<1> QED BY <1>1, <1>2, <1>3, <1>4, <1>5, <1>6, <1>7 DEF Initialise

LEMMA HoldsSearch ==
  ASSUME ArenaInv, TypeInv, ListInv, NEW l \in Locks,
         mutex[l] # Null, mutex'[l] # mutex[l], NEW t \in Threads,
         Search(t)
  PROVE  mutex[l] = t /\ pc'[t] # pc[t]
<1> USE ArenaAssumption DEF Labels, InitLabels, SearchLabels, BirthLabels, LinkLabels,
        EngineLabels, Goto, At, Take, Remember, Crash, Return, shared, lookup,
        inits, TypeInv, TypeOK, PointerInv, Arenas, Locks, ArenaInv, ListInv,
        BootInv, MainInv, LockInv, WorkersLock, Public, PlainOps, AllOps, AllocOps
<1>1. CASE GetTsd(t)
  BY <1>1, SMT DEF GetTsd
<1>2. CASE TryDirect(t)
  BY <1>2, SMT DEF TryDirect
<1>3. CASE Get2(t)
  BY <1>3, SMT DEF Get2
<1>4. CASE LockMain(t)
  BY <1>4, SMT DEF LockMain
<1>5. CASE ScanTake(t)
  BY <1>5, SMT DEF ScanTake
<1>6. CASE ScanBusy(t)
  BY <1>6, SMT DEF ScanBusy
<1>7. CASE ScanNext(t)
  BY <1>7, SMT DEF ScanNext
<1>8. CASE ScanCrash(t)
  BY <1>8, SMT DEF ScanCrash
<1>9. CASE TryList(t)
  BY <1>9, SMT DEF TryList
<1> QED BY <1>1, <1>2, <1>3, <1>4, <1>5, <1>6, <1>7, <1>8, <1>9 DEF Search

LEMMA HoldsCreate ==
  ASSUME ArenaInv, TypeInv, ListInv, NEW l \in Locks,
         mutex[l] # Null, mutex'[l] # mutex[l], NEW t \in Threads,
         Create(t)
  PROVE  mutex[l] = t /\ pc'[t] # pc[t]
<1> USE ArenaAssumption DEF Labels, InitLabels, SearchLabels, BirthLabels, LinkLabels,
        EngineLabels, Goto, At, Take, Remember, Crash, Return, shared, lookup,
        inits, TypeInv, TypeOK, PointerInv, Arenas, Locks, ArenaInv, ListInv,
        BootInv, MainInv, LockInv, WorkersLock, Public, PlainOps, AllOps, AllocOps
<1>1. CASE DropList(t)
  BY <1>1, SMT DEF DropList
<1>2. CASE NewArena(t)
  BY <1>2, SMT DEF NewArena
<1>3. CASE NewArenaFails(t)
  BY <1>3, SMT DEF NewArenaFails
<1>4. CASE SetTsd(t)
  BY <1>4, SMT DEF SetTsd
<1>5. CASE MutexInit(t)
  <2>1. av[t] \in Dynamic /\ mutex[av[t]] = Null
    BY <1>5, SMT DEF MutexInit, PublishInv, OneCreator
  <2> QED BY <1>5, <2>1, SMT DEF MutexInit
<1>6. CASE MutexLock(t)
  BY <1>6, SMT DEF MutexLock
<1>7. CASE ListLock(t)
  BY <1>7, SMT DEF ListLock
<1>8. CASE LinkNext(t)
  BY <1>8, SMT DEF LinkNext
<1>9. CASE LinkMain(t)
  BY <1>9, SMT DEF LinkMain
<1>10. CASE ListUnlock(t)
  BY <1>10, SMT DEF ListUnlock
<1> QED BY <1>1, <1>2, <1>3, <1>4, <1>5, <1>6, <1>7, <1>8, <1>9, <1>10 DEF Create

LEMMA HoldsUse ==
  ASSUME ArenaInv, TypeInv, ListInv, NEW l \in Locks,
         mutex[l] # Null, mutex'[l] # mutex[l], NEW t \in Threads,
         Use(t)
  PROVE  mutex[l] = t /\ pc'[t] # pc[t]
<1> USE ArenaAssumption DEF Labels, InitLabels, SearchLabels, BirthLabels, LinkLabels,
        EngineLabels, Goto, At, Take, Remember, Crash, Return, shared, lookup,
        inits, TypeInv, TypeOK, PointerInv, Arenas, Locks, ArenaInv, ListInv,
        BootInv, MainInv, LockInv, WorkersLock, Public, PlainOps, AllOps, AllocOps
<1>1. CASE GotNothing(t)
  BY <1>1, SMT DEF GotNothing
<1>2. CASE RefuseMain(t)
  BY <1>2, SMT DEF RefuseMain
<1>3. CASE EngineEnter(t)
  BY <1>3, SMT DEF EngineEnter
<1>4. CASE EngineLeave(t)
  BY <1>4, SMT DEF EngineLeave, Gain
<1>5. CASE EngineFails(t)
  <2>1. CASE op[t] = "malloc"
    BY <1>5, <2>1, SMT DEF EngineFails
  <2>2. CASE ~(op[t] = "malloc")
    BY <1>5, <2>2, SMT DEF EngineFails
  <2> QED BY <2>1, <2>2
<1>6. CASE Unlock(t)
  BY <1>6, SMT DEF Unlock
<1>7. CASE UnlockFailed(t)
  <2>1. CASE op[t] = "realloc"
    BY <1>7, <2>1, SMT DEF UnlockFailed
  <2>2. CASE ~(op[t] = "realloc")
    BY <1>7, <2>2, SMT DEF UnlockFailed
  <2> QED BY <2>1, <2>2
<1> QED BY <1>1, <1>2, <1>3, <1>4, <1>5, <1>6, <1>7 DEF Use

LEMMA HoldsOwn ==
  ASSUME ArenaInv, TypeInv, ListInv, NEW l \in Locks,
         mutex[l] # Null, mutex'[l] # mutex[l], NEW t \in Threads,
         Own(t)
  PROVE  mutex[l] = t /\ pc'[t] # pc[t]
<1> USE ArenaAssumption DEF Labels, InitLabels, SearchLabels, BirthLabels, LinkLabels,
        EngineLabels, Goto, At, Take, Remember, Crash, Return, shared, lookup,
        inits, TypeInv, TypeOK, PointerInv, Arenas, Locks, ArenaInv, ListInv,
        BootInv, MainInv, LockInv, WorkersLock, Public, PlainOps, AllOps, AllocOps
<1>1. CASE NotMine(t)
  BY <1>1, SMT DEF NotMine
<1>2. CASE LockOwner(t)
  <2>1. CASE op[t] = "realloc"
    BY <1>2, <2>1, SMT DEF LockOwner
  <2>2. CASE ~(op[t] = "realloc")
    BY <1>2, <2>2, SMT DEF LockOwner
  <2> QED BY <2>1, <2>2
<1>3. CASE TrimLock(t)
  BY <1>3, SMT DEF TrimLock
<1> QED BY <1>1, <1>2, <1>3 DEF Own

(* In an orderly program (distinct tsd slots, one first caller) nobody but *)
(* the thread that took a lock ever releases it, initialises it again or   *)
(* takes it over.                                                          *)
THEOREM OnlyHoldersRelease ==
  ASSUME Orderly PROVE Spec => OnlyHolderReleases
<1>1. Init => ListInv
  BY ListInit
<1>2. Inductive /\ ListInv /\ [Next]_vars => ListInv'
  BY ListStep DEF Inductive, ArenaInv
<1>3. ASSUME Inductive, ListInv, [Next]_vars
      PROVE  \A l \in Locks : mutex[l] # Null /\ mutex'[l] # mutex[l]
                                => pc'[mutex[l]] # pc[mutex[l]]
  <2> SUFFICES ASSUME NEW l \in Locks, mutex[l] # Null, mutex'[l] # mutex[l]
               PROVE  pc'[mutex[l]] # pc[mutex[l]]
    OBVIOUS
  <2>1. ASSUME NEW t \in Threads, Call(t) \/ Work(t)
        PROVE  mutex[l] = t /\ pc'[t] # pc[t]
    BY <1>3, <2>1, HoldsCallEnter, HoldsInitialise, HoldsSearch, HoldsCreate,
       HoldsUse, HoldsOwn DEF Work, Inductive
  <2>2. ~ UNCHANGED vars
    BY DEF vars, shared
  <2> QED BY <1>3, <2>1, <2>2 DEF Next, Finished
<1>4. Inductive /\ ListInv /\ [Next]_vars
        => [\A l \in Locks : mutex[l] # Null /\ mutex'[l] # mutex[l]
                                => pc'[mutex[l]] # pc[mutex[l]]]_vars
  BY <1>3
<1> QED BY InvariantHolds, <1>1, <1>2, <1>4, PTL DEF Spec, OnlyHolderReleases

-----------------------------------------------------------------------------
(* The ring of arenas: a search that follows next meets no null pointer,   *)
(* comes back to main_arena, and misses no finished arena.                 *)

(* Only these steps write a next pointer.                                  *)
LEMMA OnlyLinksWriteNext ==
  ASSUME NEW t \in Threads, Call(t) \/ Work(t)
  PROVE  next' = next \/ InitRing(t) \/ LinkNext(t) \/ LinkMain(t)
  BY DEF Work, Enter, Initialise, Search, Create, Use, Own, Call, EnterPlain,
     EnterRealloc, EnterSmall, EnterIni, DropHook, EnterStarter, InitCheck, InitClaim,
     InitMain, InitList, InitTsd, InitDone, GetTsd, TryDirect, Get2, LockMain,
     ScanTake, ScanBusy, ScanNext, ScanCrash, TryList, DropList, NewArena,
     NewArenaFails, SetTsd, MutexInit, MutexLock, ListLock, ListUnlock,
     GotNothing, RefuseMain, EngineEnter, EngineLeave, EngineFails, Unlock,
     UnlockFailed, NotMine, LockOwner, TrimLock, Crash, shared

----------------------------------------------------------------------------
(* Next pointers lead towards main_arena, in any program.                  *)

LEMMA RingOrderStep ==
  ASSUME TypeInv, RingInv, NEW t \in Threads, Call(t) \/ Work(t)
  PROVE  RingOrder'
<1> USE ArenaAssumption DEF TypeInv, TypeOK, Arenas
<1>1. PICK r : Descending(r)
  BY DEF RingInv, RingOrder
<1>2. CASE next' = next
  BY <1>1, <1>2 DEF RingOrder, Descending
<1>3. CASE InitRing(t)
  <2>1. next' = [next EXCEPT ![Main] = Main]
    BY <1>3 DEF InitRing
  <2>2. Descending(r)'
    BY <1>1, <2>1, SMT DEF Descending
  <2> QED BY <2>2 DEF RingOrder
<1>4. CASE LinkNext(t)
  <2> PICK b, s : b = av[t] /\ s = [r EXCEPT ![b] = r[next[Main]] + 1]
    OBVIOUS
  <2>1. next' = [next EXCEPT ![b] = next[Main]] /\ pc[t] = "link_next"
    BY <1>4 DEF LinkNext, At
  <2>2. b \in Dynamic /\ next[b] = Null /\ next[Main] \in Arenas
    BY <2>1, SMT DEF RingInv, RingLinks, Creating
  <2>3. \A a \in Arenas : next[a] # b
    BY <2>2, SMT DEF RingInv, RingLinks, Onward
  <2>4. Descending(s)'
    BY <1>1, <2>1, <2>2, <2>3, SMT DEF Descending
  <2> QED BY <2>4 DEF RingOrder
<1>5. CASE LinkMain(t)
  <2>1. next' = [next EXCEPT ![Main] = av[t]]
    BY <1>5 DEF LinkMain
  <2>2. Descending(r)'
    BY <1>1, <2>1, SMT DEF Descending
  <2> QED BY <2>2 DEF RingOrder
<1> QED BY <1>2, <1>3, <1>4, <1>5, OnlyLinksWriteNext

LEMMA RingLinksCallEnter ==
  ASSUME TypeInv, RingLinks, NEW t \in Threads,
         Call(t) \/ Enter(t)
  PROVE  RingLinks'
<1> USE ArenaAssumption DEF Labels, InitLabels, SearchLabels, BirthLabels, LinkLabels,
        EngineLabels, Goto, At, Take, Remember, Crash, Return, shared, lookup,
        inits, TypeInv, TypeOK, PointerInv, Arenas, Locks, RingLinks,
        Creating, Onward
<1>1. CASE Call(t)
  BY <1>1, SMT DEF Call, CanStart
<1>2. CASE EnterPlain(t)
  BY <1>2, SMT DEF EnterPlain, HookOf
<1>s. CASE EnterSmall(t)
  BY <1>s, SMT DEF EnterSmall
<1>3. CASE EnterRealloc(t)
  BY <1>3, SMT DEF EnterRealloc
<1>4. CASE EnterIni(t)
  BY <1>4, SMT DEF EnterIni, HookOf
<1>5. CASE DropHook(t)
  BY <1>5, SMT DEF DropHook, HookOf
<1>6. CASE EnterStarter(t)
  BY <1>6, SMT DEF EnterStarter, HookOf
<1> QED BY <1>1, <1>2, <1>s, <1>3, <1>4, <1>5, <1>6 DEF Enter

LEMMA RingLinksInitialise ==
  ASSUME TypeInv, RingLinks, NEW t \in Threads,
         Initialise(t)
  PROVE  RingLinks'
<1> USE ArenaAssumption DEF Labels, InitLabels, SearchLabels, BirthLabels, LinkLabels,
        EngineLabels, Goto, At, Take, Remember, Crash, Return, shared, lookup,
        inits, TypeInv, TypeOK, PointerInv, Arenas, Locks, RingLinks,
        Creating, Onward
<1>1. CASE InitCheck(t)
  BY <1>1, SMT DEF InitCheck
<1>2. CASE InitClaim(t)
  BY <1>2, SMT DEF InitClaim
<1>3. CASE InitMain(t)
  BY <1>3, SMT DEF InitMain
<1>4. CASE InitRing(t)
  BY <1>4, SMT DEF InitRing
<1>5. CASE InitList(t)
  BY <1>5, SMT DEF InitList
<1>6. CASE InitTsd(t)
  BY <1>6, SMT DEF InitTsd
<1>7. CASE InitDone(t)
  BY <1>7, SMT DEF InitDone, HookOf
<1> QED BY <1>1, <1>2, <1>3, <1>4, <1>5, <1>6, <1>7 DEF Initialise

LEMMA RingLinksSearch ==
  ASSUME TypeInv, RingLinks, NEW t \in Threads,
         Search(t)
  PROVE  RingLinks'
<1> USE ArenaAssumption DEF Labels, InitLabels, SearchLabels, BirthLabels, LinkLabels,
        EngineLabels, Goto, At, Take, Remember, Crash, Return, shared, lookup,
        inits, TypeInv, TypeOK, PointerInv, Arenas, Locks, RingLinks,
        Creating, Onward
<1>1. CASE GetTsd(t)
  BY <1>1, SMT DEF GetTsd
<1>2. CASE TryDirect(t)
  BY <1>2, SMT DEF TryDirect
<1>3. CASE Get2(t)
  BY <1>3, SMT DEF Get2
<1>4. CASE LockMain(t)
  BY <1>4, SMT DEF LockMain
<1>5. CASE ScanTake(t)
  BY <1>5, SMT DEF ScanTake
<1>6. CASE ScanBusy(t)
  BY <1>6, SMT DEF ScanBusy
<1>7. CASE ScanNext(t)
  BY <1>7, SMT DEF ScanNext
<1>8. CASE ScanCrash(t)
  BY <1>8, SMT DEF ScanCrash
<1>9. CASE TryList(t)
  BY <1>9, SMT DEF TryList
<1> QED BY <1>1, <1>2, <1>3, <1>4, <1>5, <1>6, <1>7, <1>8, <1>9 DEF Search

LEMMA RingLinksCreate ==
  ASSUME TypeInv, RingLinks, NEW t \in Threads,
         Create(t)
  PROVE  RingLinks'
<1> USE ArenaAssumption DEF Labels, InitLabels, SearchLabels, BirthLabels, LinkLabels,
        EngineLabels, Goto, At, Take, Remember, Crash, Return, shared, lookup,
        inits, TypeInv, TypeOK, PointerInv, Arenas, Locks, RingLinks,
        Creating, Onward
<1>1. CASE DropList(t)
  BY <1>1, SMT DEF DropList
<1>2. CASE NewArena(t)
  BY <1>2, SMT DEF NewArena
<1>3. CASE NewArenaFails(t)
  BY <1>3, SMT DEF NewArenaFails
<1>4. CASE SetTsd(t)
  BY <1>4, SMT DEF SetTsd
<1>5. CASE MutexInit(t)
  BY <1>5, SMT DEF MutexInit
<1>6. CASE MutexLock(t)
  BY <1>6, SMT DEF MutexLock
<1>7. CASE ListLock(t)
  BY <1>7, SMT DEF ListLock
<1>8. CASE LinkNext(t)
  BY <1>8, SMT DEF LinkNext
<1>9. CASE LinkMain(t)
  BY <1>9, SMT DEF LinkMain
<1>10. CASE ListUnlock(t)
  BY <1>10, SMT DEF ListUnlock
<1> QED BY <1>1, <1>2, <1>3, <1>4, <1>5, <1>6, <1>7, <1>8, <1>9, <1>10 DEF Create

LEMMA RingLinksUse ==
  ASSUME TypeInv, RingLinks, NEW t \in Threads,
         Use(t)
  PROVE  RingLinks'
<1> USE ArenaAssumption DEF Labels, InitLabels, SearchLabels, BirthLabels, LinkLabels,
        EngineLabels, Goto, At, Take, Remember, Crash, Return, shared, lookup,
        inits, TypeInv, TypeOK, PointerInv, Arenas, Locks, RingLinks,
        Creating, Onward
<1>1. CASE GotNothing(t)
  BY <1>1, SMT DEF GotNothing
<1>2. CASE RefuseMain(t)
  BY <1>2, SMT DEF RefuseMain
<1>3. CASE EngineEnter(t)
  BY <1>3, SMT DEF EngineEnter
<1>4. CASE EngineLeave(t)
  BY <1>4, SMT DEF EngineLeave, Gain
<1>5. CASE EngineFails(t)
  <2>1. CASE op[t] = "malloc"
    BY <1>5, <2>1, SMT DEF EngineFails
  <2>2. CASE ~(op[t] = "malloc")
    BY <1>5, <2>2, SMT DEF EngineFails
  <2> QED BY <2>1, <2>2
<1>6. CASE Unlock(t)
  BY <1>6, SMT DEF Unlock
<1>7. CASE UnlockFailed(t)
  <2>1. CASE op[t] = "realloc"
    BY <1>7, <2>1, SMT DEF UnlockFailed
  <2>2. CASE ~(op[t] = "realloc")
    BY <1>7, <2>2, SMT DEF UnlockFailed
  <2> QED BY <2>1, <2>2
<1> QED BY <1>1, <1>2, <1>3, <1>4, <1>5, <1>6, <1>7 DEF Use

LEMMA RingLinksOwn ==
  ASSUME TypeInv, RingLinks, NEW t \in Threads,
         Own(t)
  PROVE  RingLinks'
<1> USE ArenaAssumption DEF Labels, InitLabels, SearchLabels, BirthLabels, LinkLabels,
        EngineLabels, Goto, At, Take, Remember, Crash, Return, shared, lookup,
        inits, TypeInv, TypeOK, PointerInv, Arenas, Locks, RingLinks,
        Creating, Onward
<1>1. CASE NotMine(t)
  BY <1>1, SMT DEF NotMine
<1>2. CASE LockOwner(t)
  <2>1. CASE op[t] = "realloc"
    BY <1>2, <2>1, SMT DEF LockOwner
  <2>2. CASE ~(op[t] = "realloc")
    BY <1>2, <2>2, SMT DEF LockOwner
  <2> QED BY <2>1, <2>2
<1>3. CASE TrimLock(t)
  BY <1>3, SMT DEF TrimLock
<1> QED BY <1>1, <1>2, <1>3 DEF Own

LEMMA RingInit == Init => RingInv
<1>1. Init => RingLinks
  BY ArenaAssumption, SMT DEF Init, RingLinks, Onward, Creating, BirthLabels, Arenas
<1>2. Init => RingOrder
  <2> SUFFICES ASSUME Init PROVE Descending([a \in Arenas |-> 0])
    BY DEF RingOrder
  <2> QED BY SMT DEF Init, Descending, Arenas
<1> QED BY <1>1, <1>2 DEF RingInv

LEMMA RingStep ==
  ASSUME TypeInv, RingInv, [Next]_vars
  PROVE  RingInv'
<1>1. ASSUME NEW t \in Threads, Call(t) \/ Work(t) PROVE RingInv'
  <2>1. RingLinks'
    BY <1>1, RingLinksCallEnter, RingLinksInitialise, RingLinksSearch,
       RingLinksCreate, RingLinksUse, RingLinksOwn DEF Work, RingInv
  <2> QED BY <1>1, <2>1, RingOrderStep DEF RingInv
<1>2. CASE UNCHANGED vars
  <2>1. RingLinks'
    BY <1>2, SMT DEF vars, shared, lookup, RingInv, RingLinks, Onward
  <2>2. RingOrder'
    BY <1>2 DEF vars, shared, RingInv, RingOrder, Descending
  <2> QED BY <2>1, <2>2 DEF RingInv
<1> QED BY <1>1, <1>2 DEF Next, Finished
----------------------------------------------------------------------------
(* Walking the ring.                                                       *)

(* Walk is the function its recursive definition describes.                *)
LEMMA WalkSteps ==
  ASSUME next \in [Arenas -> Arenas \cup {Null}], IsFiniteSet(Dynamic),
         NEW N \in Nat, N = Cardinality(Arenas)
  PROVE  /\ Walk \in [0..N -> Arenas \cup {Null}] /\ Walk[0] = Main
         /\ \A n \in 1..N :
              Walk[n] = IF Walk[n - 1] = Null THEN Null ELSE next[Walk[n - 1]]
<1>1. Walk = CHOOSE w : DefinesWalk(w, Main, next, Null, N)
  BY DEF Walk, DefinesWalk
<1>2. Main \in Arenas
  BY DEF Arenas
<1>3. \E w : DefinesWalk(w, Main, next, Null, N)
  BY <1>2, WalkDefined
<1>4. DefinesWalk(Walk, Main, next, Null, N)
  BY <1>1, <1>3, Zenon
<1>5. Walk \in [0..N -> Arenas \cup {Null}] /\ Follows(Walk, Main, next, Null, N)
  BY <1>2, <1>4, WalkFollows
<1> QED BY <1>5 DEF Follows

LEMMA ArenasFinite ==
  ASSUME IsFiniteSet(Dynamic)
  PROVE  /\ Cardinality(Arenas) \in Nat
         /\ Cardinality(Arenas) = Cardinality(Dynamic) + 1
         /\ Cardinality(Dynamic) \in Nat
<1>1. Main \notin Dynamic
  BY ArenaAssumption
<1>2. Arenas = Dynamic \cup {Main}
  BY DEF Arenas
<1> QED BY <1>1, <1>2, FS_AddElement, FS_CardinalityType

(* A walk cannot go down for as many steps as there are arenas.            *)
LEMMA WalkTurns ==
  ASSUME TypeOK, IsFiniteSet(Dynamic), NEW r \in [Arenas -> Nat],
         \A n \in 1..Cardinality(Arenas) : Walk[n] \in Dynamic,
         \A n \in 1..Cardinality(Arenas) :
           n + 1 \in 1..Cardinality(Arenas) => r[Walk[n + 1]] < r[Walk[n]]
  PROVE  FALSE
<1> DEFINE N == Cardinality(Arenas)
           w == [n \in 1..N |-> Walk[n]]
           s == [a \in Dynamic |-> r[a]]
<1>1. N \in Nat /\ Cardinality(Dynamic) \in Nat /\ N = Cardinality(Dynamic) + 1
  BY ArenasFinite
<1> HIDE DEF N
<1>2. w \in [1..N -> Dynamic] /\ s \in [Dynamic -> Int]
  BY DEF N, Arenas
<1>3. \A n \in 1..N : n + 1 \in 1..N => s[w[n + 1]] < s[w[n]]
  BY DEF N
<1>4. N <= Cardinality(Dynamic)
  <2> HIDE DEF w, s
  <2> QED BY <1>1, <1>2, <1>3, DescentIsShort
<1> QED BY <1>1, <1>4

(* In any program, even while threads race through ptmalloc_init: once the *)
(* allocator is set up, a search of the ring that starts at main_arena     *)
(* comes back to it.                                                       *)
THEOREM RingIsClosed ==
  ASSUME IsFiniteSet(Dynamic) PROVE Spec => []RingClosed
<1>1. Init => TypeInv /\ RingInv
  BY TypeInit, RingInit
<1>2. TypeInv /\ RingInv /\ [Next]_vars => (TypeInv /\ RingInv)'
  BY TypeStep, RingStep
<1>3. ASSUME TypeInv, RingInv PROVE RingClosed
  <2> SUFFICES ASSUME initialized = 1,
                      \A n \in 1..Cardinality(Arenas) : Walk[n] # Main
               PROVE  FALSE
    BY DEF RingClosed
  <2> PICK N : N = Cardinality(Arenas)
    OBVIOUS
  <2>1. N \in Nat
    BY ArenasFinite
  <2>2. /\ Walk[0] = Main
        /\ \A n \in 1..N :
             Walk[n] = IF Walk[n - 1] = Null THEN Null ELSE next[Walk[n - 1]]
    BY <1>3, <2>1, WalkSteps DEF TypeInv, TypeOK
  <2>3. PICK r : Descending(r)
    BY <1>3 DEF RingInv, RingOrder
  <2>4. \A n \in 1..N : Walk[n] \in Dynamic /\ next[Walk[n]] # Null
    <3> DEFINE S == {n \in Nat : n + 1 \in 1..N =>
                        Walk[n + 1] \in Dynamic /\ next[Walk[n + 1]] # Null}
    <3>1. \A a \in Arenas : next[a] # Null =>
            next[a] \in Arenas /\ (next[a] # Main => next[next[a]] # Null)
      BY <1>3, SMT DEF TypeInv, TypeOK, RingInv, RingLinks, Onward
    <3>2. 0 \in S
      <4> SUFFICES ASSUME 1 \in 1..N
                   PROVE  Walk[1] \in Dynamic /\ next[Walk[1]] # Null
        OBVIOUS
      <4>1. Walk[1] = next[Main]
        BY <2>2, ArenaAssumption DEF Arenas
      <4>2. next[Main] # Null /\ Main \in Arenas
        BY <1>3 DEF RingInv, RingLinks, Arenas
      <4> QED BY <3>1, <4>1, <4>2 DEF Arenas
    <3>3. ASSUME NEW n \in Nat, n \in S PROVE n + 1 \in S
      <4> SUFFICES ASSUME n + 2 \in 1..N
                   PROVE  Walk[n + 2] \in Dynamic /\ next[Walk[n + 2]] # Null
        OBVIOUS
      <4>1. n + 1 \in 1..N /\ (n + 2) - 1 = n + 1
        BY <2>1
      <4>2. Walk[n + 1] \in Dynamic /\ next[Walk[n + 1]] # Null
        BY <3>3, <4>1
      <4>3. Walk[n + 2] = next[Walk[n + 1]]
        BY <2>2, <4>1, <4>2, ArenaAssumption DEF Arenas
      <4> QED BY <3>1, <4>2, <4>3 DEF Arenas
    <3>4. Nat \subseteq S
      <4> HIDE DEF S
      <4> QED BY <3>2, <3>3, SetInduction
    <3> TAKE n \in 1..N
    <3>5. n - 1 \in S /\ (n - 1) + 1 = n
      BY <2>1, <3>4
    <3> QED BY <3>5
  <2>5. \A n \in 1..N : n + 1 \in 1..N => r[Walk[n + 1]] < r[Walk[n]]
    <3> TAKE n \in 1..N
    <3> HAVE n + 1 \in 1..N
    <3>1. (n + 1) - 1 = n /\ Walk[n] \in Dynamic /\ Walk[n + 1] \in Dynamic
      BY <2>1, <2>4
    <3>2. Walk[n + 1] = next[Walk[n]]
      BY <2>2, <3>1, ArenaAssumption DEF Arenas
    <3> QED BY <2>3, <3>1, <3>2, ArenaAssumption DEF Descending, Arenas
  <2>6. r \in [Arenas -> Nat]
    BY <2>3 DEF Descending
  <2> QED BY <1>3, <2>4, <2>5, <2>6, WalkTurns DEF TypeInv
<1> QED BY <1>1, <1>2, <1>3, PTL DEF Spec
----------------------------------------------------------------------------
(* A finished arena is on the ring, in a started program.                  *)

LEMMA ChainLinksCallEnter ==
  ASSUME TypeInv, BootInv, ListInv, RingLinks, ChainLinks, NEW t \in Threads,
         Call(t) \/ Enter(t)
  PROVE  ChainLinks'
<1> USE ArenaAssumption DEF Labels, InitLabels, SearchLabels, BirthLabels, LinkLabels,
        EngineLabels, Goto, At, Take, Remember, Crash, Return, shared, lookup,
        inits, TypeInv, TypeOK, PointerInv, Arenas, Locks, RingLinks,
        BootInv, ListInv, ChainLinks, Creating, Onward
<1>1. CASE Call(t)
  BY <1>1, SMT DEF Call, CanStart
<1>2. CASE EnterPlain(t)
  BY <1>2, SMT DEF EnterPlain, HookOf
<1>s. CASE EnterSmall(t)
  BY <1>s, SMT DEF EnterSmall
<1>3. CASE EnterRealloc(t)
  BY <1>3, SMT DEF EnterRealloc
<1>4. CASE EnterIni(t)
  BY <1>4, SMT DEF EnterIni, HookOf
<1>5. CASE DropHook(t)
  BY <1>5, SMT DEF DropHook, HookOf
<1>6. CASE EnterStarter(t)
  BY <1>6, SMT DEF EnterStarter, HookOf
<1> QED BY <1>1, <1>2, <1>s, <1>3, <1>4, <1>5, <1>6 DEF Enter

LEMMA ChainLinksInitialise ==
  ASSUME TypeInv, BootInv, ListInv, RingLinks, ChainLinks, NEW t \in Threads,
         Initialise(t)
  PROVE  ChainLinks'
<1> USE ArenaAssumption DEF Labels, InitLabels, SearchLabels, BirthLabels, LinkLabels,
        EngineLabels, Goto, At, Take, Remember, Crash, Return, shared, lookup,
        inits, TypeInv, TypeOK, PointerInv, Arenas, Locks, RingLinks,
        BootInv, ListInv, ChainLinks, Creating, Onward
<1>1. CASE InitCheck(t)
  BY <1>1, SMT DEF InitCheck
<1>2. CASE InitClaim(t)
  BY <1>2, SMT DEF InitClaim
<1>3. CASE InitMain(t)
  BY <1>3, SMT DEF InitMain
<1>4. CASE InitRing(t)
  BY <1>4, SMT DEF InitRing
<1>5. CASE InitList(t)
  BY <1>5, SMT DEF InitList
<1>6. CASE InitTsd(t)
  BY <1>6, SMT DEF InitTsd
<1>7. CASE InitDone(t)
  BY <1>7, SMT DEF InitDone, HookOf
<1> QED BY <1>1, <1>2, <1>3, <1>4, <1>5, <1>6, <1>7 DEF Initialise

LEMMA ChainLinksSearch ==
  ASSUME TypeInv, BootInv, ListInv, RingLinks, ChainLinks, NEW t \in Threads,
         Search(t)
  PROVE  ChainLinks'
<1> USE ArenaAssumption DEF Labels, InitLabels, SearchLabels, BirthLabels, LinkLabels,
        EngineLabels, Goto, At, Take, Remember, Crash, Return, shared, lookup,
        inits, TypeInv, TypeOK, PointerInv, Arenas, Locks, RingLinks,
        BootInv, ListInv, ChainLinks, Creating, Onward
<1>1. CASE GetTsd(t)
  BY <1>1, SMT DEF GetTsd
<1>2. CASE TryDirect(t)
  BY <1>2, SMT DEF TryDirect
<1>3. CASE Get2(t)
  BY <1>3, SMT DEF Get2
<1>4. CASE LockMain(t)
  BY <1>4, SMT DEF LockMain
<1>5. CASE ScanTake(t)
  BY <1>5, SMT DEF ScanTake
<1>6. CASE ScanBusy(t)
  BY <1>6, SMT DEF ScanBusy
<1>7. CASE ScanNext(t)
  BY <1>7, SMT DEF ScanNext
<1>8. CASE ScanCrash(t)
  BY <1>8, SMT DEF ScanCrash
<1>9. CASE TryList(t)
  BY <1>9, SMT DEF TryList
<1> QED BY <1>1, <1>2, <1>3, <1>4, <1>5, <1>6, <1>7, <1>8, <1>9 DEF Search

LEMMA ChainLinksCreate ==
  ASSUME TypeInv, BootInv, ListInv, RingLinks, ChainLinks, NEW t \in Threads,
         Create(t)
  PROVE  ChainLinks'
<1> USE ArenaAssumption DEF Labels, InitLabels, SearchLabels, BirthLabels, LinkLabels,
        EngineLabels, Goto, At, Take, Remember, Crash, Return, shared, lookup,
        inits, TypeInv, TypeOK, PointerInv, Arenas, Locks, RingLinks,
        BootInv, ListInv, ChainLinks, Creating, Onward
<1>1. CASE DropList(t)
  BY <1>1, SMT DEF DropList
<1>2. CASE NewArena(t)
  BY <1>2, SMT DEF NewArena
<1>3. CASE NewArenaFails(t)
  BY <1>3, SMT DEF NewArenaFails
<1>4. CASE SetTsd(t)
  BY <1>4, SMT DEF SetTsd
<1>5. CASE MutexInit(t)
  BY <1>5, SMT DEF MutexInit
<1>6. CASE MutexLock(t)
  BY <1>6, SMT DEF MutexLock
<1>7. CASE ListLock(t)
  BY <1>7, SMT DEF ListLock
<1>8. CASE LinkNext(t)
  BY <1>8, SMT DEF LinkNext
<1>9. CASE LinkMain(t)
  BY <1>9, SMT DEF LinkMain
<1>10. CASE ListUnlock(t)
  BY <1>10, SMT DEF ListUnlock
<1> QED BY <1>1, <1>2, <1>3, <1>4, <1>5, <1>6, <1>7, <1>8, <1>9, <1>10 DEF Create

LEMMA ChainLinksUse ==
  ASSUME TypeInv, BootInv, ListInv, RingLinks, ChainLinks, NEW t \in Threads,
         Use(t)
  PROVE  ChainLinks'
<1> USE ArenaAssumption DEF Labels, InitLabels, SearchLabels, BirthLabels, LinkLabels,
        EngineLabels, Goto, At, Take, Remember, Crash, Return, shared, lookup,
        inits, TypeInv, TypeOK, PointerInv, Arenas, Locks, RingLinks,
        BootInv, ListInv, ChainLinks, Creating, Onward
<1>1. CASE GotNothing(t)
  BY <1>1, SMT DEF GotNothing
<1>2. CASE RefuseMain(t)
  BY <1>2, SMT DEF RefuseMain
<1>3. CASE EngineEnter(t)
  BY <1>3, SMT DEF EngineEnter
<1>4. CASE EngineLeave(t)
  BY <1>4, SMT DEF EngineLeave, Gain
<1>5. CASE EngineFails(t)
  <2>1. CASE op[t] = "malloc"
    BY <1>5, <2>1, SMT DEF EngineFails
  <2>2. CASE ~(op[t] = "malloc")
    BY <1>5, <2>2, SMT DEF EngineFails
  <2> QED BY <2>1, <2>2
<1>6. CASE Unlock(t)
  BY <1>6, SMT DEF Unlock
<1>7. CASE UnlockFailed(t)
  <2>1. CASE op[t] = "realloc"
    BY <1>7, <2>1, SMT DEF UnlockFailed
  <2>2. CASE ~(op[t] = "realloc")
    BY <1>7, <2>2, SMT DEF UnlockFailed
  <2> QED BY <2>1, <2>2
<1> QED BY <1>1, <1>2, <1>3, <1>4, <1>5, <1>6, <1>7 DEF Use

LEMMA ChainLinksOwn ==
  ASSUME TypeInv, BootInv, ListInv, RingLinks, ChainLinks, NEW t \in Threads,
         Own(t)
  PROVE  ChainLinks'
<1> USE ArenaAssumption DEF Labels, InitLabels, SearchLabels, BirthLabels, LinkLabels,
        EngineLabels, Goto, At, Take, Remember, Crash, Return, shared, lookup,
        inits, TypeInv, TypeOK, PointerInv, Arenas, Locks, RingLinks,
        BootInv, ListInv, ChainLinks, Creating, Onward
<1>1. CASE NotMine(t)
  BY <1>1, SMT DEF NotMine
<1>2. CASE LockOwner(t)
  <2>1. CASE op[t] = "realloc"
    BY <1>2, <2>1, SMT DEF LockOwner
  <2>2. CASE ~(op[t] = "realloc")
    BY <1>2, <2>2, SMT DEF LockOwner
  <2> QED BY <2>1, <2>2
<1>3. CASE TrimLock(t)
  BY <1>3, SMT DEF TrimLock
<1> QED BY <1>1, <1>2, <1>3 DEF Own

(* An arena is linked by the step that makes main_arena point to it.       *)
LEMMA LinkedCallEnter ==
  ASSUME TypeInv, RingLinks, NEW t \in Threads, ~ LinkMain(t),
         Call(t) \/ Enter(t)
  PROVE  Linked' = Linked
<1> USE ArenaAssumption DEF Labels, InitLabels, SearchLabels, BirthLabels, LinkLabels,
        EngineLabels, Goto, At, Take, Remember, Crash, Return, shared, lookup,
        inits, TypeInv, TypeOK, PointerInv, Arenas, Locks, RingLinks,
        Linked, Creating
<1>1. CASE Call(t)
  BY <1>1, SMT DEF Call, CanStart
<1>2. CASE EnterPlain(t)
  BY <1>2, SMT DEF EnterPlain, HookOf
<1>s. CASE EnterSmall(t)
  BY <1>s, SMT DEF EnterSmall
<1>3. CASE EnterRealloc(t)
  BY <1>3, SMT DEF EnterRealloc
<1>4. CASE EnterIni(t)
  BY <1>4, SMT DEF EnterIni, HookOf
<1>5. CASE DropHook(t)
  BY <1>5, SMT DEF DropHook, HookOf
<1>6. CASE EnterStarter(t)
  BY <1>6, SMT DEF EnterStarter, HookOf
<1> QED BY <1>1, <1>2, <1>s, <1>3, <1>4, <1>5, <1>6 DEF Enter

LEMMA LinkedInitialise ==
  ASSUME TypeInv, RingLinks, NEW t \in Threads, ~ LinkMain(t),
         Initialise(t)
  PROVE  Linked' = Linked
<1> USE ArenaAssumption DEF Labels, InitLabels, SearchLabels, BirthLabels, LinkLabels,
        EngineLabels, Goto, At, Take, Remember, Crash, Return, shared, lookup,
        inits, TypeInv, TypeOK, PointerInv, Arenas, Locks, RingLinks,
        Linked, Creating
<1>1. CASE InitCheck(t)
  BY <1>1, SMT DEF InitCheck
<1>2. CASE InitClaim(t)
  BY <1>2, SMT DEF InitClaim
<1>3. CASE InitMain(t)
  BY <1>3, SMT DEF InitMain
<1>4. CASE InitRing(t)
  BY <1>4, SMT DEF InitRing
<1>5. CASE InitList(t)
  BY <1>5, SMT DEF InitList
<1>6. CASE InitTsd(t)
  BY <1>6, SMT DEF InitTsd
<1>7. CASE InitDone(t)
  BY <1>7, SMT DEF InitDone, HookOf
<1> QED BY <1>1, <1>2, <1>3, <1>4, <1>5, <1>6, <1>7 DEF Initialise

LEMMA LinkedSearch ==
  ASSUME TypeInv, RingLinks, NEW t \in Threads, ~ LinkMain(t),
         Search(t)
  PROVE  Linked' = Linked
<1> USE ArenaAssumption DEF Labels, InitLabels, SearchLabels, BirthLabels, LinkLabels,
        EngineLabels, Goto, At, Take, Remember, Crash, Return, shared, lookup,
        inits, TypeInv, TypeOK, PointerInv, Arenas, Locks, RingLinks,
        Linked, Creating
<1>1. CASE GetTsd(t)
  BY <1>1, SMT DEF GetTsd
<1>2. CASE TryDirect(t)
  BY <1>2, SMT DEF TryDirect
<1>3. CASE Get2(t)
  BY <1>3, SMT DEF Get2
<1>4. CASE LockMain(t)
  BY <1>4, SMT DEF LockMain
<1>5. CASE ScanTake(t)
  BY <1>5, SMT DEF ScanTake
<1>6. CASE ScanBusy(t)
  BY <1>6, SMT DEF ScanBusy
<1>7. CASE ScanNext(t)
  BY <1>7, SMT DEF ScanNext
<1>8. CASE ScanCrash(t)
  BY <1>8, SMT DEF ScanCrash
<1>9. CASE TryList(t)
  BY <1>9, SMT DEF TryList
<1> QED BY <1>1, <1>2, <1>3, <1>4, <1>5, <1>6, <1>7, <1>8, <1>9 DEF Search

LEMMA LinkedCreate ==
  ASSUME TypeInv, RingLinks, NEW t \in Threads, ~ LinkMain(t),
         Create(t)
  PROVE  Linked' = Linked
<1> USE ArenaAssumption DEF Labels, InitLabels, SearchLabels, BirthLabels, LinkLabels,
        EngineLabels, Goto, At, Take, Remember, Crash, Return, shared, lookup,
        inits, TypeInv, TypeOK, PointerInv, Arenas, Locks, RingLinks,
        Linked, Creating
<1>1. CASE DropList(t)
  BY <1>1, SMT DEF DropList
<1>2. CASE NewArena(t)
  BY <1>2, SMT DEF NewArena
<1>3. CASE NewArenaFails(t)
  BY <1>3, SMT DEF NewArenaFails
<1>4. CASE SetTsd(t)
  BY <1>4, SMT DEF SetTsd
<1>5. CASE MutexInit(t)
  BY <1>5, SMT DEF MutexInit
<1>6. CASE MutexLock(t)
  BY <1>6, SMT DEF MutexLock
<1>7. CASE ListLock(t)
  BY <1>7, SMT DEF ListLock
<1>8. CASE LinkNext(t)
  BY <1>8, SMT DEF LinkNext
<1>9. CASE LinkMain(t)
  BY <1>9, SMT DEF LinkMain
<1>10. CASE ListUnlock(t)
  BY <1>10, SMT DEF ListUnlock
<1> QED BY <1>1, <1>2, <1>3, <1>4, <1>5, <1>6, <1>7, <1>8, <1>9, <1>10 DEF Create

LEMMA LinkedUse ==
  ASSUME TypeInv, RingLinks, NEW t \in Threads, ~ LinkMain(t),
         Use(t)
  PROVE  Linked' = Linked
<1> USE ArenaAssumption DEF Labels, InitLabels, SearchLabels, BirthLabels, LinkLabels,
        EngineLabels, Goto, At, Take, Remember, Crash, Return, shared, lookup,
        inits, TypeInv, TypeOK, PointerInv, Arenas, Locks, RingLinks,
        Linked, Creating
<1>1. CASE GotNothing(t)
  BY <1>1, SMT DEF GotNothing
<1>2. CASE RefuseMain(t)
  BY <1>2, SMT DEF RefuseMain
<1>3. CASE EngineEnter(t)
  BY <1>3, SMT DEF EngineEnter
<1>4. CASE EngineLeave(t)
  BY <1>4, SMT DEF EngineLeave, Gain
<1>5. CASE EngineFails(t)
  <2>1. CASE op[t] = "malloc"
    BY <1>5, <2>1, SMT DEF EngineFails
  <2>2. CASE ~(op[t] = "malloc")
    BY <1>5, <2>2, SMT DEF EngineFails
  <2> QED BY <2>1, <2>2
<1>6. CASE Unlock(t)
  BY <1>6, SMT DEF Unlock
<1>7. CASE UnlockFailed(t)
  <2>1. CASE op[t] = "realloc"
    BY <1>7, <2>1, SMT DEF UnlockFailed
  <2>2. CASE ~(op[t] = "realloc")
    BY <1>7, <2>2, SMT DEF UnlockFailed
  <2> QED BY <2>1, <2>2
<1> QED BY <1>1, <1>2, <1>3, <1>4, <1>5, <1>6, <1>7 DEF Use

LEMMA LinkedOwn ==
  ASSUME TypeInv, RingLinks, NEW t \in Threads, ~ LinkMain(t),
         Own(t)
  PROVE  Linked' = Linked
<1> USE ArenaAssumption DEF Labels, InitLabels, SearchLabels, BirthLabels, LinkLabels,
        EngineLabels, Goto, At, Take, Remember, Crash, Return, shared, lookup,
        inits, TypeInv, TypeOK, PointerInv, Arenas, Locks, RingLinks,
        Linked, Creating
<1>1. CASE NotMine(t)
  BY <1>1, SMT DEF NotMine
<1>2. CASE LockOwner(t)
  <2>1. CASE op[t] = "realloc"
    BY <1>2, <2>1, SMT DEF LockOwner
  <2>2. CASE ~(op[t] = "realloc")
    BY <1>2, <2>2, SMT DEF LockOwner
  <2> QED BY <2>1, <2>2
<1>3. CASE TrimLock(t)
  BY <1>3, SMT DEF TrimLock
<1> QED BY <1>1, <1>2, <1>3 DEF Own

LEMMA LinkedStays ==
  ASSUME TypeInv, RingLinks, NEW t \in Threads, Call(t) \/ Work(t)
  PROVE  Linked' = IF LinkMain(t) THEN Linked \cup {av[t]} ELSE Linked
<1>1. CASE ~ LinkMain(t)
  BY <1>1, LinkedCallEnter, LinkedInitialise, LinkedSearch, LinkedCreate,
     LinkedUse, LinkedOwn DEF Work
<1>2. CASE LinkMain(t)
  BY <1>2, ArenaAssumption, SMT DEF LinkMain, At, Goto, Linked, Creating,
     BirthLabels, TypeInv, TypeOK, RingLinks, lookup
<1> QED BY <1>1, <1>2

LEMMA ChainOrderStep ==
  ASSUME TypeInv, BootInv, RingLinks, ChainInv, NEW t \in Threads,
         Call(t) \/ Work(t), initialized = 1
  PROVE  ChainOrder'
<1> USE ArenaAssumption DEF TypeInv, TypeOK, Arenas
<1>1. PICK r : Chained(r)
  BY DEF ChainInv, ChainOrder
<1>2. next[Main] \in Arenas
  BY SMT DEF RingLinks
<1>3. CASE next' = next /\ ~ LinkMain(t)
  BY <1>1, <1>3, LinkedStays DEF ChainOrder, Chained
<1>4. CASE InitRing(t)
  BY <1>4, SMT DEF InitRing, At, BootInv, InitLabels
<1>5. CASE LinkNext(t)
  <2>1. next' = [next EXCEPT ![av[t]] = next[Main]] /\ pc[t] = "link_next"
    BY <1>5 DEF LinkNext, At
  <2>2. av[t] \in Dynamic /\ av[t] \notin Linked
    BY <2>1, SMT DEF RingLinks, Creating, Linked
  <2>3. Linked' = Linked
    <3>1. ~ LinkMain(t)
      BY <2>1 DEF LinkMain, At
    <3> QED BY <3>1, LinkedStays
  <2>4. Chained(r)'
    BY <1>1, <2>1, <2>2, <2>3, SMT DEF Chained, Linked
  <2> QED BY <2>4 DEF ChainOrder
<1>6. CASE LinkMain(t)
  <2> PICK b, m : b = av[t] /\ m = next[Main]
    OBVIOUS
  <2> PICK s : s = [r EXCEPT ![b] = r[m] + 1]
    OBVIOUS
  <2>1. next' = [next EXCEPT ![Main] = b] /\ pc[t] = "link_main"
    BY <1>6 DEF LinkMain, At
  <2>2. b \in Dynamic /\ b \notin Linked /\ next[b] = m
    BY <2>1, SMT DEF RingLinks, Creating, Linked, ChainInv, ChainLinks
  <2>3. Linked' = Linked \cup {b} /\ Linked \subseteq Dynamic
    BY <1>6, LinkedStays DEF Linked
  <2>4. s \in [Arenas -> Nat] /\ \A a \in Linked : s[a] = r[a] /\ s[a] < s[b]
    BY <1>1, <1>2, <2>2, <2>3, SMT DEF Chained
  <2>5. Chained(s)'
    BY <1>1, <1>2, <2>1, <2>2, <2>3, <2>4, SMT DEF Chained
  <2> QED BY <2>5 DEF ChainOrder
<1> QED BY <1>3, <1>4, <1>5, <1>6, OnlyLinksWriteNext

(* The ring is empty when ptmalloc_init is done.                           *)
LEMMA ChainBegins ==
  ASSUME TypeInv, BootInv, ChainLinks, NEW t \in Threads, Call(t) \/ Work(t),
         initialized # 1, initialized' = 1
  PROVE  ChainOrder'
<1>1. InitDone(t)
  BY DEF Work, Enter, Initialise, Search, Create, Use, Own, Call, EnterPlain,
     EnterRealloc, EnterSmall, EnterIni, DropHook, EnterStarter, InitCheck, InitClaim,
     InitMain, InitRing, InitList, InitTsd, GetTsd, TryDirect, Get2, LockMain,
     ScanTake, ScanBusy, ScanNext, ScanCrash, TryList, DropList, NewArena,
     NewArenaFails, SetTsd, MutexInit, MutexLock, ListLock, LinkNext, LinkMain,
     ListUnlock, GotNothing, RefuseMain, EngineEnter, EngineLeave, EngineFails,
     Unlock, UnlockFailed, NotMine, LockOwner, TrimLock, Crash, shared, inits
<1>2. heaps' = {} /\ next'[Main] = Main
  BY <1>1, SMT DEF InitDone, At, BootInv, ChainLinks
<1>3. Linked' = {}
  BY <1>2 DEF Linked
<1> PICK r : r = [a \in Arenas |-> 0]
  OBVIOUS
<1>4. Chained(r)'
  BY <1>2, <1>3, SMT DEF Chained
<1> QED BY <1>4 DEF ChainOrder

LEMMA ChainStep ==
  ASSUME TypeInv, BootInv, ListInv, RingInv, ChainInv, [Next]_vars
  PROVE  ChainInv'
<1>1. ASSUME NEW t \in Threads, Call(t) \/ Work(t) PROVE ChainInv'
  <2>1. ChainLinks'
    BY <1>1, ChainLinksCallEnter, ChainLinksInitialise, ChainLinksSearch,
       ChainLinksCreate, ChainLinksUse, ChainLinksOwn DEF Work, RingInv, ChainInv
  <2>2. ASSUME initialized = 1 PROVE ChainOrder'
    BY <1>1, <2>2, ChainOrderStep DEF RingInv
  <2>3. ASSUME initialized # 1, initialized' = 1 PROVE ChainOrder'
    BY <1>1, <2>3, ChainBegins DEF ChainInv
  <2>4. ASSUME initialized' # 1 PROVE ChainOrder'
    BY <2>4 DEF ChainOrder
  <2> QED BY <2>1, <2>2, <2>3, <2>4 DEF ChainInv
<1>2. CASE UNCHANGED vars
  <2>1. ChainLinks'
    BY <1>2, SMT DEF vars, shared, lookup, ChainInv, ChainLinks
  <2>2. ChainOrder'
    BY <1>2 DEF vars, shared, lookup, inits, ChainInv, ChainOrder, Chained, Linked
  <2> QED BY <2>1, <2>2 DEF ChainInv
<1> QED BY <1>1, <1>2 DEF Next, Finished

LEMMA StartedInit == Init => BootInv /\ ListInv /\ ChainInv
<1>1. Init => BootInv
  BY ArenaAssumption, SMT DEF Init, BootInv, Hooks, AllOps, AllocOps, PlainOps,
     InitLabels, SearchLabels, BirthLabels, LinkLabels, EngineLabels
<1>2. Init => ChainInv
  BY SMT DEF Init, ChainInv, ChainOrder, ChainLinks
<1> QED BY <1>1, <1>2, ListInit

(* In a started program, shared slots or not, the arenas are created one   *)
(* behind the other, under the list lock, once ptmalloc_init is over.      *)
THEOREM StartedHolds ==
  ASSUME Started
  PROVE  Spec => [](TypeInv /\ BootInv /\ ListInv /\ RingInv /\ ChainInv)
<1>1. TypeInv /\ BootInv /\ [Next]_vars => BootInv'
  <2> SUFFICES ASSUME TypeInv, BootInv, [Next]_vars PROVE BootInv'
    OBVIOUS
  <2>1. ASSUME NEW t \in Threads, Call(t) \/ Work(t) PROVE BootInv'
    BY <2>1, BootInvCallEnter, BootInvInitialise, BootInvSearch, BootInvCreate,
       BootInvUse, BootInvOwn DEF Work
  <2>2. CASE UNCHANGED vars
    BY <2>2, SMT DEF vars, shared, BootInv
  <2> QED BY <2>1, <2>2 DEF Next, Finished
<1>2. Init => TypeInv /\ BootInv /\ ListInv /\ RingInv /\ ChainInv
  BY TypeInit, StartedInit, RingInit
<1>3. TypeInv /\ BootInv /\ ListInv /\ RingInv /\ ChainInv /\ [Next]_vars
        => (TypeInv /\ BootInv /\ ListInv /\ RingInv /\ ChainInv)'
  BY <1>1, TypeStep, ListStep, RingStep, ChainStep
<1> QED BY <1>2, <1>3, PTL DEF Spec

(* Two creators never overwrite each other's link, so that in a started    *)
(* program a search of the ring comes across every finished arena.         *)
THEOREM RingIsComplete ==
  ASSUME Started, IsFiniteSet(Dynamic) PROVE Spec => []RingComplete
<1>1. ASSUME TypeInv, ChainInv PROVE RingComplete
  <2> SUFFICES ASSUME initialized = 1, NEW b \in Linked,
                      \A n \in 0..Cardinality(Arenas) : Walk[n] # b
               PROVE  FALSE
    BY SMT DEF RingComplete, Linked, Creating
  <2> PICK N : N = Cardinality(Arenas)
    OBVIOUS
  <2>1. N \in Nat
    BY ArenasFinite
  <2>2. /\ Walk[0] = Main
        /\ \A n \in 1..N :
             Walk[n] = IF Walk[n - 1] = Null THEN Null ELSE next[Walk[n - 1]]
    BY <1>1, <2>1, WalkSteps DEF TypeInv, TypeOK
  <2>3. PICK r : Chained(r)
    BY <1>1 DEF ChainInv, ChainOrder
  <2>4. Linked \subseteq Dynamic /\ Null \notin Linked \cup {Main}
    BY <1>1, ArenaAssumption, SMT DEF Linked, TypeInv, TypeOK, Arenas
  <2>5. r \in [Arenas -> Nat] /\ Linked \subseteq Arenas
    BY <2>3, <2>4 DEF Chained, Arenas
  <2>6. \A n \in 1..N : Walk[n] \in Linked /\ r[b] < r[Walk[n]]
    <3> DEFINE S == {n \in Nat : n + 1 \in 1..N =>
                        Walk[n + 1] \in Linked /\ r[b] < r[Walk[n + 1]]}
    <3>1. 0 \in S
      <4> SUFFICES ASSUME 1 \in 1..N
                   PROVE  Walk[1] \in Linked /\ r[b] < r[Walk[1]]
        OBVIOUS
      <4>1. Walk[1] = next[Main] /\ Walk[1] # b
        BY <2>1, <2>2, <2>4
      <4>2. next[Main] \in Linked /\ r[b] <= r[next[Main]]
        BY <2>3 DEF Chained
      <4>3. r[b] # r[next[Main]]
        BY <2>3, <4>1, <4>2 DEF Chained
      <4> QED BY <2>5, <4>1, <4>2, <4>3
    <3>2. ASSUME NEW n \in Nat, n \in S PROVE n + 1 \in S
      <4> SUFFICES ASSUME n + 2 \in 1..N
                   PROVE  Walk[n + 2] \in Linked /\ r[b] < r[Walk[n + 2]]
        OBVIOUS
      <4> PICK a : a = Walk[n + 1]
        OBVIOUS
      <4>1. n + 1 \in 1..N /\ (n + 2) - 1 = n + 1 /\ n + 2 \in 0..N
        BY <2>1
      <4>2. a \in Linked /\ r[b] < r[a]
        BY <3>2, <4>1
      <4>3. Walk[n + 2] = next[a] /\ next[a] # b
        BY <2>2, <2>4, <4>1, <4>2
      <4>4. next[a] # Main
        BY <2>3, <2>5, <4>2 DEF Chained
      <4>5. next[a] \in Linked /\ r[b] <= r[next[a]]
        BY <2>3, <2>5, <4>2, <4>4 DEF Chained
      <4>6. r[b] # r[next[a]]
        BY <2>3, <4>3, <4>5 DEF Chained
      <4> QED BY <2>5, <4>3, <4>5, <4>6
    <3>3. Nat \subseteq S
      <4> HIDE DEF S
      <4> QED BY <3>1, <3>2, SetInduction
    <3> TAKE n \in 1..N
    <3>4. n - 1 \in S /\ (n - 1) + 1 = n
      BY <2>1, <3>3
    <3> QED BY <3>4
  <2>7. \A n \in 1..N : n + 1 \in 1..N => r[Walk[n + 1]] < r[Walk[n]]
    <3> TAKE n \in 1..N
    <3> HAVE n + 1 \in 1..N
    <3>1. (n + 1) - 1 = n /\ Walk[n] \in Linked /\ Walk[n + 1] \in Linked
      BY <2>1, <2>6
    <3>2. Walk[n + 1] = next[Walk[n]] /\ Walk[n + 1] # Main
      BY <2>2, <2>4, <3>1, ArenaAssumption
    <3> QED BY <2>3, <3>1, <3>2 DEF Chained
  <2>8. \A n \in 1..N : Walk[n] \in Dynamic
    BY <2>4, <2>6
  <2> QED BY <1>1, <2>5, <2>7, <2>8, WalkTurns DEF TypeInv
<1> QED BY <1>1, StartedHolds, PTL
----------------------------------------------------------------------------
(* No null pointer is followed, in a started program.                      *)

LEMMA CrashCallEnter ==
  ASSUME FollowsNoNull, TypeInv, BootInv, RingLinks, CrashInv, NEW t \in Threads,
         Call(t) \/ Enter(t)
  PROVE  CrashInv'
<1> USE ArenaAssumption DEF Labels, InitLabels, SearchLabels, BirthLabels, LinkLabels,
        EngineLabels, Goto, At, Take, Remember, Crash, Return, shared, lookup,
        inits, TypeInv, TypeOK, PointerInv, Arenas, Locks, RingLinks,
        BootInv, FollowsNoNull, CrashInv, AllOps, AllocOps, Creating, Onward
<1>1. CASE Call(t)
  BY <1>1, SMT DEF Call, CanStart
<1>2. CASE EnterPlain(t)
  BY <1>2, SMT DEF EnterPlain, HookOf
<1>s. CASE EnterSmall(t)
  BY <1>s, SMT DEF EnterSmall
<1>3. CASE EnterRealloc(t)
  BY <1>3, SMT DEF EnterRealloc
<1>4. CASE EnterIni(t)
  BY <1>4, SMT DEF EnterIni, HookOf
<1>5. CASE DropHook(t)
  BY <1>5, SMT DEF DropHook, HookOf
<1>6. CASE EnterStarter(t)
  BY <1>6, SMT DEF EnterStarter, HookOf
<1> QED BY <1>1, <1>2, <1>s, <1>3, <1>4, <1>5, <1>6 DEF Enter

LEMMA CrashInitialise ==
  ASSUME FollowsNoNull, TypeInv, BootInv, RingLinks, CrashInv, NEW t \in Threads,
         Initialise(t)
  PROVE  CrashInv'
<1> USE ArenaAssumption DEF Labels, InitLabels, SearchLabels, BirthLabels, LinkLabels,
        EngineLabels, Goto, At, Take, Remember, Crash, Return, shared, lookup,
        inits, TypeInv, TypeOK, PointerInv, Arenas, Locks, RingLinks,
        BootInv, FollowsNoNull, CrashInv, AllOps, AllocOps, Creating, Onward
<1>1. CASE InitCheck(t)
  BY <1>1, SMT DEF InitCheck
<1>2. CASE InitClaim(t)
  BY <1>2, SMT DEF InitClaim
<1>3. CASE InitMain(t)
  BY <1>3, SMT DEF InitMain
<1>4. CASE InitRing(t)
  BY <1>4, SMT DEF InitRing
<1>5. CASE InitList(t)
  BY <1>5, SMT DEF InitList
<1>6. CASE InitTsd(t)
  BY <1>6, SMT DEF InitTsd
<1>7. CASE InitDone(t)
  BY <1>7, SMT DEF InitDone, HookOf
<1> QED BY <1>1, <1>2, <1>3, <1>4, <1>5, <1>6, <1>7 DEF Initialise

LEMMA CrashSearch ==
  ASSUME FollowsNoNull, TypeInv, BootInv, RingLinks, CrashInv, NEW t \in Threads,
         Search(t)
  PROVE  CrashInv'
<1> USE ArenaAssumption DEF Labels, InitLabels, SearchLabels, BirthLabels, LinkLabels,
        EngineLabels, Goto, At, Take, Remember, Crash, Return, shared, lookup,
        inits, TypeInv, TypeOK, PointerInv, Arenas, Locks, RingLinks,
        BootInv, FollowsNoNull, CrashInv, AllOps, AllocOps, Creating, Onward
<1>1. CASE GetTsd(t)
  BY <1>1, SMT DEF GetTsd
<1>2. CASE TryDirect(t)
  BY <1>2, SMT DEF TryDirect
<1>3. CASE Get2(t)
  BY <1>3, SMT DEF Get2
<1>4. CASE LockMain(t)
  BY <1>4, SMT DEF LockMain
<1>5. CASE ScanTake(t)
  BY <1>5, SMT DEF ScanTake
<1>6. CASE ScanBusy(t)
  BY <1>6, SMT DEF ScanBusy
<1>7. CASE ScanNext(t)
  BY <1>7, SMT DEF ScanNext
<1>8. CASE ScanCrash(t)
  BY <1>8, SMT DEF ScanCrash
<1>9. CASE TryList(t)
  BY <1>9, SMT DEF TryList
<1> QED BY <1>1, <1>2, <1>3, <1>4, <1>5, <1>6, <1>7, <1>8, <1>9 DEF Search

LEMMA CrashCreate ==
  ASSUME FollowsNoNull, TypeInv, BootInv, RingLinks, CrashInv, NEW t \in Threads,
         Create(t)
  PROVE  CrashInv'
<1> USE ArenaAssumption DEF Labels, InitLabels, SearchLabels, BirthLabels, LinkLabels,
        EngineLabels, Goto, At, Take, Remember, Crash, Return, shared, lookup,
        inits, TypeInv, TypeOK, PointerInv, Arenas, Locks, RingLinks,
        BootInv, FollowsNoNull, CrashInv, AllOps, AllocOps, Creating, Onward
<1>1. CASE DropList(t)
  BY <1>1, SMT DEF DropList
<1>2. CASE NewArena(t)
  BY <1>2, SMT DEF NewArena
<1>3. CASE NewArenaFails(t)
  BY <1>3, SMT DEF NewArenaFails
<1>4. CASE SetTsd(t)
  BY <1>4, SMT DEF SetTsd
<1>5. CASE MutexInit(t)
  BY <1>5, SMT DEF MutexInit
<1>6. CASE MutexLock(t)
  BY <1>6, SMT DEF MutexLock
<1>7. CASE ListLock(t)
  BY <1>7, SMT DEF ListLock
<1>8. CASE LinkNext(t)
  BY <1>8, SMT DEF LinkNext
<1>9. CASE LinkMain(t)
  BY <1>9, SMT DEF LinkMain
<1>10. CASE ListUnlock(t)
  BY <1>10, SMT DEF ListUnlock
<1> QED BY <1>1, <1>2, <1>3, <1>4, <1>5, <1>6, <1>7, <1>8, <1>9, <1>10 DEF Create

LEMMA CrashUse ==
  ASSUME FollowsNoNull, TypeInv, BootInv, RingLinks, CrashInv, NEW t \in Threads,
         Use(t)
  PROVE  CrashInv'
<1> USE ArenaAssumption DEF Labels, InitLabels, SearchLabels, BirthLabels, LinkLabels,
        EngineLabels, Goto, At, Take, Remember, Crash, Return, shared, lookup,
        inits, TypeInv, TypeOK, PointerInv, Arenas, Locks, RingLinks,
        BootInv, FollowsNoNull, CrashInv, AllOps, AllocOps, Creating, Onward
<1>1. CASE GotNothing(t)
  BY <1>1, SMT DEF GotNothing
<1>2. CASE RefuseMain(t)
  BY <1>2, SMT DEF RefuseMain
<1>3. CASE EngineEnter(t)
  BY <1>3, SMT DEF EngineEnter
<1>4. CASE EngineLeave(t)
  BY <1>4, SMT DEF EngineLeave, Gain
<1>5. CASE EngineFails(t)
  <2>1. CASE op[t] = "malloc"
    BY <1>5, <2>1, SMT DEF EngineFails
  <2>2. CASE ~(op[t] = "malloc")
    BY <1>5, <2>2, SMT DEF EngineFails
  <2> QED BY <2>1, <2>2
<1>6. CASE Unlock(t)
  BY <1>6, SMT DEF Unlock
<1>7. CASE UnlockFailed(t)
  <2>1. CASE op[t] = "realloc"
    BY <1>7, <2>1, SMT DEF UnlockFailed
  <2>2. CASE ~(op[t] = "realloc")
    BY <1>7, <2>2, SMT DEF UnlockFailed
  <2> QED BY <2>1, <2>2
<1> QED BY <1>1, <1>2, <1>3, <1>4, <1>5, <1>6, <1>7 DEF Use

LEMMA CrashOwn ==
  ASSUME FollowsNoNull, TypeInv, BootInv, RingLinks, CrashInv, NEW t \in Threads,
         Own(t)
  PROVE  CrashInv'
<1> USE ArenaAssumption DEF Labels, InitLabels, SearchLabels, BirthLabels, LinkLabels,
        EngineLabels, Goto, At, Take, Remember, Crash, Return, shared, lookup,
        inits, TypeInv, TypeOK, PointerInv, Arenas, Locks, RingLinks,
        BootInv, FollowsNoNull, CrashInv, AllOps, AllocOps, Creating, Onward
<1>1. CASE NotMine(t)
  BY <1>1, SMT DEF NotMine
<1>2. CASE LockOwner(t)
  <2>1. CASE op[t] = "realloc"
    BY <1>2, <2>1, SMT DEF LockOwner
  <2>2. CASE ~(op[t] = "realloc")
    BY <1>2, <2>2, SMT DEF LockOwner
  <2> QED BY <2>1, <2>2
<1>3. CASE TrimLock(t)
  BY <1>3, SMT DEF TrimLock
<1> QED BY <1>1, <1>2, <1>3 DEF Own

(* Even where threads share tsd slots and an arena is announced before it  *)
(* is on the ring, no search of a started program follows a null next      *)
(* pointer: only pvalloc and a failing realloc can crash the process.      *)
THEOREM NeverCrashes ==
  ASSUME Started, FollowsNoNull PROVE Spec => []NoCrash
<1>1. Init => CrashInv
  BY SMT DEF Init, CrashInv
<1>2. TypeInv /\ BootInv /\ RingInv /\ CrashInv /\ [Next]_vars => CrashInv'
  <2> SUFFICES ASSUME TypeInv, BootInv, RingInv, CrashInv, [Next]_vars PROVE CrashInv'
    OBVIOUS
  <2>1. ASSUME NEW t \in Threads, Call(t) \/ Work(t) PROVE CrashInv'
    BY <2>1, CrashCallEnter, CrashInitialise, CrashSearch, CrashCreate, CrashUse,
       CrashOwn DEF Work, RingInv
  <2>2. CASE UNCHANGED vars
    BY <2>2, SMT DEF vars, CrashInv
  <2> QED BY <2>1, <2>2 DEF Next, Finished
<1>3. CrashInv => NoCrash
  BY DEF CrashInv, NoCrash, Alive
<1> QED BY <1>1, <1>2, <1>3, StartedHolds, PTL DEF Spec

-----------------------------------------------------------------------------
(* The refinement: in an orderly program the arena layer implements        *)
(* BlockService.                                                           *)

LEMMA OneChange ==
  ASSUME NEW S, NEW t \in S, NEW f, NEW g, NEW v,
         f = [x \in S |-> f[x]], g = [x \in S |-> g[x]],
         g[t] = v, \A u \in S \ {t} : g[u] = f[u]
  PROVE  g = [f EXCEPT ![t] = v]
  BY SMT

LEMMA PoolChange ==
  ASSUME TypeInv, NEW a \in Dynamic, NEW v, used' = [used EXCEPT ![a] = v]
  PROVE  OnPools(used)' = [OnPools(used) EXCEPT ![a] = v]
<1> DEFINE f == OnPools(used)
           g == OnPools(used')
<1>1. f = [x \in Dynamic |-> f[x]] /\ g = [x \in Dynamic |-> g[x]]
  BY SMT DEF OnPools
<1>2. g[a] = v /\ \A u \in Dynamic \ {a} : g[u] = f[u]
  BY SMT DEF OnPools, Arenas, TypeInv, TypeOK
<1> HIDE DEF f, g
<1>3. g = [f EXCEPT ![a] = v]
  BY <1>1, <1>2, OneChange, SMT
<1> QED BY <1>3 DEF f, g

LEMMA PhaseChange ==
  ASSUME NEW t \in Threads, NEW p, Phase(pc'[t]) = p,
         \A u \in Threads \ {t} : pc'[u] = pc[u]
  PROVE  [u \in Threads |-> Phase(pc[u])]'
           = [[u \in Threads |-> Phase(pc[u])] EXCEPT ![t] = p]
<1> DEFINE f == [u \in Threads |-> Phase(pc[u])]
           g == [u \in Threads |-> Phase(pc'[u])]
<1>1. /\ f = [x \in Threads |-> f[x]] /\ g = [x \in Threads |-> g[x]]
      /\ g[t] = p /\ \A u \in Threads \ {t} : g[u] = f[u]
  BY SMT
<1> HIDE DEF f, g
<1>2. g = [f EXCEPT ![t] = p]
  BY <1>1, OneChange, SMT
<1> QED BY <1>2 DEF f, g

LEMMA WantChange ==
  ASSUME NEW t \in Threads, NEW w, Want(pc'[t], op'[t], blk'[t]) = w,
         \A u \in Threads \ {t} : pc'[u] = pc[u] /\ op'[u] = op[u] /\ blk'[u] = blk[u]
  PROVE  [u \in Threads |-> Want(pc[u], op[u], blk[u])]'
           = [[u \in Threads |-> Want(pc[u], op[u], blk[u])] EXCEPT ![t] = w]
<1> DEFINE f == [u \in Threads |-> Want(pc[u], op[u], blk[u])]
           g == [u \in Threads |-> Want(pc'[u], op'[u], blk'[u])]
<1>1. /\ f = [x \in Threads |-> f[x]] /\ g = [x \in Threads |-> g[x]]
      /\ g[t] = w /\ \A u \in Threads \ {t} : g[u] = f[u]
  BY SMT
<1> HIDE DEF f, g
<1>2. g = [f EXCEPT ![t] = w]
  BY <1>1, OneChange, SMT
<1> QED BY <1>2 DEF f, g

(* A step between two labels of the same phase that touches no block is    *)
(* invisible to the service.                                               *)
LEMMA InvisibleStep ==
  ASSUME TypeInv, NEW t \in Threads,
         Phase(pc'[t]) = Phase(pc[t]),
         Want(pc'[t], op'[t], blk[t]) = Want(pc[t], op[t], blk[t]),
         \A u \in Threads \ {t} : pc'[u] = pc[u] /\ op'[u] = op[u],
         UNCHANGED <<used, held, blk>>
  PROVE  UNCHANGED Service!bsVars
<1>1. [u \in Threads |-> Phase(pc[u])]' = [u \in Threads |-> Phase(pc[u])]
  BY SMT
<1>2. [u \in Threads |-> Want(pc[u], op[u], blk[u])]'
        = [u \in Threads |-> Want(pc[u], op[u], blk[u])]
  BY SMT
<1> QED BY <1>1, <1>2 DEF Service!bsVars, OnPools

LEMMA ServiceInitially == Init => Service!ServiceInit
  BY ArenaAssumption, SMT DEF Init, Service!ServiceInit, OnPools, Phase, Want, Arenas

LEMMA CallIsAsk ==
  ASSUME Orderly, TypeInv, ArenaInv, NEW t \in Threads, Call(t)
  PROVE  Service!Ask(t)
<1> USE ArenaAssumption DEF TypeInv, TypeOK, ArenaInv, CallInv, At, Goto
<1>1. pc[t] = "idle" /\ pc' = [pc EXCEPT ![t] = "enter"] /\ UNCHANGED used
  BY DEF Call, shared
<1>2. PICK o \in Ops, b \in Arenas \cup {Foreign, Null} :
       /\ b = Null => o # "free"
       /\ b # Null => o \in {"free", "realloc"}
       /\ b \in Arenas => held[b] > 0
       /\ op' = [op EXCEPT ![t] = o]
       /\ blk' = [blk EXCEPT ![t] = b]
       /\ held' = IF b \in Arenas THEN [held EXCEPT ![b] = @ - 1] ELSE held
  BY DEF Call
<1>3. b # Main
  BY <1>2, SMT DEF PublishInv, SharedRefsKnown, Public, Arenas
<1> DEFINE w == IF b = Null THEN "alloc" ELSE o
<1>4. w \in {"alloc", "free", "realloc"} /\ (w = "alloc" <=> b = Null)
      /\ b \in Dynamic \cup {Foreign, Null}
  BY <1>2, <1>3, SMT DEF Arenas
<1>5. Want("enter", o, b) = w /\ Phase("enter") = "asked" /\ Phase("idle") = "idle"
  BY <1>2, <1>4, SMT DEF Want, Phase
<1>6. /\ \A u \in Threads \ {t} : pc'[u] = pc[u] /\ op'[u] = op[u] /\ blk'[u] = blk[u]
      /\ pc'[t] = "enter" /\ op'[t] = o /\ blk'[t] = b
  BY <1>1, <1>2, SMT
<1> HIDE DEF w, TypeInv, TypeOK, ArenaInv, CallInv
<1>7. /\ [u \in Threads |-> Phase(pc[u])]'
           = [[u \in Threads |-> Phase(pc[u])] EXCEPT ![t] = "asked"]
      /\ [u \in Threads |-> Want(pc[u], op[u], blk[u])]'
           = [[u \in Threads |-> Want(pc[u], op[u], blk[u])] EXCEPT ![t] = w]
  BY <1>5, <1>6, PhaseChange, WantChange
<1>8. /\ b \in Dynamic => OnPools(held)[b] > 0
      /\ OnPools(held)' = IF b \in Dynamic THEN [OnPools(held) EXCEPT ![b] = @ - 1]
                                           ELSE OnPools(held)
      /\ OnPools(used)' = OnPools(used)
  BY <1>1, <1>2, <1>3, SMT DEF OnPools, Arenas, TypeInv, TypeOK
<1>9. /\ (w = "alloc") <=> (b = Null)
      /\ b \in Dynamic => OnPools(held)[b] > 0
      /\ [u \in Threads |-> Want(pc[u], op[u], blk[u])]'
           = [[u \in Threads |-> Want(pc[u], op[u], blk[u])] EXCEPT ![t] = w]
      /\ blk' = [blk EXCEPT ![t] = b]
      /\ OnPools(held)' = IF b \in Dynamic
                            THEN [OnPools(held) EXCEPT ![b] = OnPools(held)[b] - 1]
                            ELSE OnPools(held)
  BY <1>2, <1>4, <1>7, <1>8
<1>10. [u \in Threads |-> Phase(pc[u])][t] = "idle"
  BY <1>1, <1>5
<1> HIDE DEF w
<1> QED BY <1>4, <1>7, <1>8, <1>9, <1>10, Zenon DEF Service!Ask

(* A call that comes back with nothing, whatever line it returned from.    *)
LEMMA TurnedDown ==
  ASSUME NEW t \in Threads, pc[t] \notin {"idle", "unlock"}, pc'[t] = "idle",
         blk[t] \in {Null, Foreign}, blk' = [blk EXCEPT ![t] = Null],
         \A u \in Threads \ {t} : pc'[u] = pc[u] /\ op'[u] = op[u] /\ blk'[u] = blk[u],
         UNCHANGED <<used, held>>
  PROVE  Service!TurnDown(t)
<1>1. /\ Phase(pc[t]) = "asked" /\ Phase(pc'[t]) = "idle"
      /\ Want(pc'[t], op'[t], blk'[t]) = "none"
  BY SMT DEF Phase, Want
<1>2. /\ [u \in Threads |-> Phase(pc[u])]'
           = [[u \in Threads |-> Phase(pc[u])] EXCEPT ![t] = "idle"]
      /\ [u \in Threads |-> Want(pc[u], op[u], blk[u])]'
           = [[u \in Threads |-> Want(pc[u], op[u], blk[u])] EXCEPT ![t] = "none"]
  BY <1>1, PhaseChange, WantChange
<1> QED BY <1>1, <1>2 DEF Service!TurnDown, OnPools

LEMMA EnterRefines ==
  ASSUME Orderly, TypeInv, ArenaInv, NEW t \in Threads, Enter(t)
  PROVE  Service!ReallocToFree(t) \/ UNCHANGED Service!bsVars
<1> USE ArenaAssumption DEF Goto, At, Take, Remember, Crash, Return, shared,
        lookup, inits, TypeInv, TypeOK, ArenaInv, CallInv, Phase, Want, AllOps,
        AllocOps, PlainOps, InitLabels, SearchLabels, BirthLabels, LinkLabels,
        EngineLabels
<1>1. CASE EnterPlain(t)
  BY <1>1, InvisibleStep, SMT DEF EnterPlain
<1>s. CASE EnterSmall(t)
  BY <1>s, InvisibleStep, SMT DEF EnterSmall
<1>2. CASE EnterRealloc(t)
  <2>1. CASE blk[t] = Null
    BY <1>2, <2>1, InvisibleStep, SMT DEF EnterRealloc
  <2>2. CASE blk[t] # Null
    <3>1. /\ pc[t] = "enter" /\ op[t] = "realloc" /\ op' = [op EXCEPT ![t] = "free"]
          /\ UNCHANGED <<used, held, pc, blk>>
      BY <1>2, <2>2 DEF EnterRealloc
    <3>2. /\ Want(pc[t], op[t], blk[t]) = "realloc" /\ Phase(pc[t]) = "asked"
          /\ Want(pc'[t], op'[t], blk'[t]) = "free"
          /\ \A u \in Threads \ {t} : pc'[u] = pc[u] /\ op'[u] = op[u] /\ blk'[u] = blk[u]
      BY <2>2, <3>1, SMT
    <3>3. [u \in Threads |-> Want(pc[u], op[u], blk[u])]'
            = [[u \in Threads |-> Want(pc[u], op[u], blk[u])] EXCEPT ![t] = "free"]
      BY <3>2, WantChange, SMTT(30)
    <3> QED BY <3>1, <3>2, <3>3 DEF Service!ReallocToFree, OnPools
  <2> QED BY <2>1, <2>2
<1>3. CASE EnterIni(t)
  BY <1>3, InvisibleStep, SMT DEF EnterIni
<1>4. CASE DropHook(t)
  BY <1>4, InvisibleStep, SMT DEF DropHook
<1>5. CASE EnterStarter(t)
  BY <1>5, SMT DEF EnterStarter, BootInv, HookOf, Hooks, Orderly, Started
<1> QED BY <1>1, <1>2, <1>s, <1>3, <1>4, <1>5 DEF Enter

LEMMA InitialiseInvisible ==
  ASSUME TypeInv, NEW t \in Threads, Initialise(t)
  PROVE  UNCHANGED Service!bsVars
<1> USE DEF Goto, At, Take, Remember, Crash, shared, lookup, inits, Phase, Want,
        TypeInv, TypeOK
<1>1. CASE InitCheck(t)
  BY <1>1, InvisibleStep, SMT DEF InitCheck
<1>2. CASE InitClaim(t)
  BY <1>2, InvisibleStep, SMT DEF InitClaim
<1>3. CASE InitMain(t)
  BY <1>3, InvisibleStep, SMT DEF InitMain
<1>4. CASE InitRing(t)
  BY <1>4, InvisibleStep, SMT DEF InitRing
<1>5. CASE InitList(t)
  BY <1>5, InvisibleStep, SMT DEF InitList
<1>6. CASE InitTsd(t)
  BY <1>6, InvisibleStep, SMT DEF InitTsd
<1>7. CASE InitDone(t)
  BY <1>7, InvisibleStep, SMT DEF InitDone
<1> QED BY <1>1, <1>2, <1>3, <1>4, <1>5, <1>6, <1>7 DEF Initialise

LEMMA SearchInvisible ==
  ASSUME TypeInv, NEW t \in Threads, Search(t)
  PROVE  UNCHANGED Service!bsVars
<1> USE DEF Goto, At, Take, Remember, Crash, shared, lookup, inits, Phase, Want,
        TypeInv, TypeOK
<1>1. CASE GetTsd(t)
  BY <1>1, InvisibleStep, SMT DEF GetTsd
<1>2. CASE TryDirect(t)
  BY <1>2, InvisibleStep, SMT DEF TryDirect
<1>3. CASE Get2(t)
  BY <1>3, InvisibleStep, SMT DEF Get2
<1>4. CASE LockMain(t)
  BY <1>4, InvisibleStep, SMT DEF LockMain
<1>5. CASE ScanTake(t)
  BY <1>5, InvisibleStep, SMT DEF ScanTake
<1>6. CASE ScanBusy(t)
  BY <1>6, InvisibleStep, SMT DEF ScanBusy
<1>7. CASE ScanNext(t)
  BY <1>7, InvisibleStep, SMT DEF ScanNext
<1>8. CASE ScanCrash(t)
  BY <1>8, InvisibleStep, SMT DEF ScanCrash
<1>9. CASE TryList(t)
  BY <1>9, InvisibleStep, SMT DEF TryList
<1> QED BY <1>1, <1>2, <1>3, <1>4, <1>5, <1>6, <1>7, <1>8, <1>9 DEF Search

LEMMA CreateInvisible ==
  ASSUME TypeInv, NEW t \in Threads, Create(t)
  PROVE  UNCHANGED Service!bsVars
<1> USE DEF Goto, At, Take, Remember, Crash, shared, lookup, inits, Phase, Want,
        TypeInv, TypeOK
<1>1. CASE DropList(t)
  BY <1>1, InvisibleStep, SMT DEF DropList
<1>2. CASE NewArena(t)
  BY <1>2, InvisibleStep, SMT DEF NewArena
<1>3. CASE NewArenaFails(t)
  BY <1>3, InvisibleStep, SMT DEF NewArenaFails
<1>4. CASE SetTsd(t)
  BY <1>4, InvisibleStep, SMT DEF SetTsd
<1>5. CASE MutexInit(t)
  BY <1>5, InvisibleStep, SMT DEF MutexInit
<1>6. CASE MutexLock(t)
  BY <1>6, InvisibleStep, SMT DEF MutexLock
<1>7. CASE ListLock(t)
  BY <1>7, InvisibleStep, SMT DEF ListLock
<1>8. CASE LinkNext(t)
  BY <1>8, InvisibleStep, SMT DEF LinkNext
<1>9. CASE LinkMain(t)
  BY <1>9, InvisibleStep, SMT DEF LinkMain
<1>10. CASE ListUnlock(t)
  BY <1>10, InvisibleStep, SMT DEF ListUnlock
<1> QED BY <1>1, <1>2, <1>3, <1>4, <1>5, <1>6, <1>7, <1>8, <1>9, <1>10 DEF Create

LEMMA EngineLeaveServes ==
  ASSUME Orderly, TypeInv, ArenaInv, NEW t \in Threads, EngineLeave(t)
  PROVE  Service!Allocate(t) \/ Service!Free(t) \/ Service!Resize(t)
<1> USE ArenaAssumption
<1>1. /\ pc[t] = "using" /\ pc'[t] = "unlock" /\ av[t] \in Dynamic
      /\ \A u \in Threads \ {t} : pc'[u] = pc[u] /\ op'[u] = op[u] /\ blk'[u] = blk[u]
      /\ old[t] = used[av[t]] /\ op[t] \in PlainOps /\ UNCHANGED <<held, op>>
  BY SMT DEF EngineLeave, At, Goto, TypeInv, TypeOK, ArenaInv, LockInv, BootInv, CallInv,
     EngineLabels, PlainOps, AllOps, AllocOps, lookup
<1>2. Phase(pc[t]) = "asked" /\ Phase(pc'[t]) = "served"
  BY <1>1, SMT DEF Phase
<1>3. [u \in Threads |-> Phase(pc[u])]'
        = [[u \in Threads |-> Phase(pc[u])] EXCEPT ![t] = "served"]
  BY <1>1, <1>2, PhaseChange
<1>4. ASSUME Want(pc'[t], op'[t], blk'[t]) = Want(pc[t], op[t], blk[t])
      PROVE  [u \in Threads |-> Want(pc[u], op[u], blk[u])]'
               = [u \in Threads |-> Want(pc[u], op[u], blk[u])]
  BY <1>1, <1>4, SMT
<1>5. CASE op[t] = "free"
  <2> DEFINE v == used[av[t]] - 1
  <2>1. /\ blk[t] = av[t] /\ blk' = [blk EXCEPT ![t] = Null]
        /\ used' = [used EXCEPT ![av[t]] = v]
    <3>1. Gain(op[t]) = -1
      BY <1>5, SMT DEF Gain
    <3>2. blk' = [blk EXCEPT ![t] = Null]
      BY <3>1 DEF EngineLeave
    <3>3. used' = [used EXCEPT ![av[t]] = old[t] + (-1)]
      BY <3>1 DEF EngineLeave
    <3>4. old[t] + (-1) = v
      BY <1>1, SMT DEF TypeInv, TypeOK, Arenas
    <3>5. blk[t] = av[t]
      BY <1>1, <1>5, SMT DEF ArenaInv, CallInv, EngineLabels
    <3> QED BY <3>2, <3>3, <3>4, <3>5
  <2>2. Want(pc[t], op[t], blk[t]) = "free" /\ Want(pc'[t], op'[t], blk'[t]) = "free"
    BY <1>1, <1>5, SMT DEF Want
  <2>3. OnPools(used)' = [OnPools(used) EXCEPT ![blk[t]] = OnPools(used)[blk[t]] - 1]
    <3>1. PICK a \in Dynamic, n \in Int : a = av[t] /\ n = used[a] - 1
      BY <1>1, SMT DEF TypeInv, TypeOK, Arenas
    <3>2. used' = [used EXCEPT ![a] = n]
      BY <2>1, <3>1
    <3>3. OnPools(used)' = [OnPools(used) EXCEPT ![a] = n]
      BY <3>2, PoolChange
    <3>4. OnPools(used)[a] = used[a]
      BY SMT DEF OnPools
    <3> QED BY <2>1, <3>1, <3>3, <3>4
  <2>4. OnPools(held)' = OnPools(held)
    BY <1>1 DEF OnPools
  <2> QED BY <1>1, <1>2, <1>3, <1>4, <2>1, <2>2, <2>3, <2>4 DEF Service!Free
<1>6. CASE op[t] = "realloc"
  <2>1. blk[t] = av[t] /\ blk' = blk /\ used' = used
    BY <1>1, <1>6, SMT DEF EngineLeave, Gain, TypeInv, TypeOK, ArenaInv, CallInv,
       EngineLabels, Arenas
  <2>2. /\ Want(pc[t], op[t], blk[t]) = "realloc"
        /\ Want(pc'[t], op'[t], blk'[t]) = "realloc"
    BY <1>1, <1>6, <2>1, SMT DEF Want, Arenas
  <2>3. OnPools(held)' = OnPools(held) /\ OnPools(used)' = OnPools(used)
    BY <1>1, <2>1 DEF OnPools
  <2> QED BY <1>1, <1>2, <1>3, <1>4, <2>1, <2>2, <2>3 DEF Service!Resize
<1>7. CASE op[t] \in AllocOps
  <2> DEFINE v == used[av[t]] + 1
  <2>1. /\ blk[t] = Null /\ blk' = [blk EXCEPT ![t] = av[t]]
        /\ used' = [used EXCEPT ![av[t]] = v]
    <3>1. Gain(op[t]) = 1 /\ Gain(op[t]) # -1 /\ Gain(op[t]) # 0
      BY <1>7, SMT DEF Gain, AllocOps
    <3>2. blk' = [blk EXCEPT ![t] = av[t]]
      BY <3>1, SMT DEF EngineLeave
    <3>3. used' = [used EXCEPT ![av[t]] = old[t] + 1]
      BY <3>1 DEF EngineLeave
    <3>4. blk[t] = Null
      BY <1>1, <1>7, SMT DEF ArenaInv, CallInv
    <3> QED BY <1>1, <3>2, <3>3, <3>4
  <2>2. Want(pc[t], op[t], blk[t]) = "alloc" /\ Want(pc'[t], op'[t], blk'[t]) = "alloc"
    BY <1>1, <1>7, SMT DEF Want, AllocOps
  <2>3. OnPools(used)' = [OnPools(used) EXCEPT ![av[t]] = OnPools(used)[av[t]] + 1]
    <3>1. PICK a \in Dynamic, n \in Int : a = av[t] /\ n = used[a] + 1
      BY <1>1, SMT DEF TypeInv, TypeOK, Arenas
    <3>2. used' = [used EXCEPT ![a] = n]
      BY <2>1, <3>1
    <3>3. OnPools(used)' = [OnPools(used) EXCEPT ![a] = n]
      BY <3>2, PoolChange
    <3>4. OnPools(used)[a] = used[a]
      BY SMT DEF OnPools
    <3> QED BY <2>1, <3>1, <3>3, <3>4
  <2>4. OnPools(held)' = OnPools(held)
    BY <1>1 DEF OnPools
  <2> QED BY <1>1, <1>2, <1>3, <1>4, <2>1, <2>2, <2>3, <2>4 DEF Service!Allocate
<1> QED BY <1>1, <1>5, <1>6, <1>7, SMT DEF PlainOps, AllOps, AllocOps

LEMMA UnlockAnswers ==
  ASSUME Orderly, TypeInv, ArenaInv, NEW t \in Threads, Unlock(t)
  PROVE  Service!Answer(t)
<1> USE ArenaAssumption
<1>1. /\ pc[t] = "unlock" /\ pc'[t] = "idle" /\ av[t] # Main
      /\ \A u \in Threads \ {t} : pc'[u] = pc[u] /\ op'[u] = op[u] /\ blk'[u] = blk[u]
      /\ blk' = [blk EXCEPT ![t] = Null] /\ UNCHANGED used
  BY SMT DEF Unlock, Return, At, Goto, TypeInv, TypeOK, ArenaInv, LockInv, EngineLabels
<1>2. /\ held' = IF blk[t] \in Arenas THEN [held EXCEPT ![blk[t]] = held[blk[t]] + 1]
                                       ELSE held
      /\ blk[t] # Main
  BY <1>1, SMT DEF Unlock, Return, TypeInv, TypeOK, ArenaInv, CallInv
<1>3. /\ Phase(pc[t]) = "served" /\ Phase(pc'[t]) = "idle"
      /\ Want(pc'[t], op'[t], blk'[t]) = "none"
  BY <1>1, SMT DEF Phase, Want
<1>4. /\ [u \in Threads |-> Phase(pc[u])]'
           = [[u \in Threads |-> Phase(pc[u])] EXCEPT ![t] = "idle"]
      /\ [u \in Threads |-> Want(pc[u], op[u], blk[u])]'
           = [[u \in Threads |-> Want(pc[u], op[u], blk[u])] EXCEPT ![t] = "none"]
  BY <1>1, <1>3, PhaseChange, WantChange
<1>5. /\ OnPools(held)' = IF blk[t] \in Dynamic
                          THEN [OnPools(held) EXCEPT ![blk[t]] = OnPools(held)[blk[t]] + 1]
                          ELSE OnPools(held)
      /\ OnPools(used)' = OnPools(used)
  BY <1>1, <1>2, SMT DEF OnPools, TypeInv, TypeOK, Arenas
<1> QED BY <1>1, <1>3, <1>4, <1>5 DEF Service!Answer

LEMMA UseRefines ==
  ASSUME Orderly, TypeInv, ArenaInv, NEW t \in Threads, Use(t)
  PROVE  Service!Serve(t) \/ UNCHANGED Service!bsVars
<1> USE ArenaAssumption DEF Goto, At, Crash, Return, shared, lookup, inits,
        TypeInv, TypeOK, ArenaInv, CallInv, AllOps, AllocOps, PlainOps, EngineLabels
<1>1. CASE GotNothing(t)
  <2>1. blk[t] = Null
    BY <1>1, SMT DEF GotNothing, BootInv
  <2>2. CASE op[t] = "pvalloc"
    BY <1>1, <2>1, <2>2, InvisibleStep, SMT DEF GotNothing, Phase, Want
  <2>3. CASE op[t] # "pvalloc"
    <3>1. Service!TurnDown(t)
      BY <1>1, <2>1, <2>3, TurnedDown, SMT DEF GotNothing
    <3> QED BY <3>1 DEF Service!Serve
  <2> QED BY <2>2, <2>3
<1>2. CASE RefuseMain(t)
  BY <1>2, SMT DEF RefuseMain, LockInv, Arenas
<1>3. CASE EngineEnter(t)
  BY <1>3, InvisibleStep, SMT DEF EngineEnter, Phase, Want
<1>4. CASE EngineLeave(t)
  BY <1>4, EngineLeaveServes DEF Service!Serve
<1>5. CASE EngineFails(t)
  <2>1. CASE op[t] = "malloc"
    <3>1. Service!TurnDown(t)
      BY <1>5, <2>1, TurnedDown, SMT DEF EngineFails
    <3> QED BY <3>1 DEF Service!Serve
  <2>2. CASE op[t] # "malloc"
    BY <1>5, <2>2, InvisibleStep, SMT DEF EngineFails, Phase, Want
  <2> QED BY <2>1, <2>2
<1>6. CASE Unlock(t)
  BY <1>6, UnlockAnswers DEF Service!Serve
<1>7. CASE UnlockFailed(t)
  <2>1. CASE op[t] = "realloc"
    BY <1>7, <2>1, InvisibleStep, SMT DEF UnlockFailed, Phase, Want
  <2>2. CASE op[t] # "realloc"
    <3>1. Service!TurnDown(t)
      BY <1>7, <2>2, TurnedDown, SMT DEF UnlockFailed, BootInv
    <3> QED BY <3>1 DEF Service!Serve
  <2> QED BY <2>1, <2>2
<1> QED BY <1>1, <1>2, <1>3, <1>4, <1>5, <1>6, <1>7 DEF Use

LEMMA OwnRefines ==
  ASSUME Orderly, TypeInv, ArenaInv, NEW t \in Threads, Own(t)
  PROVE  Service!Serve(t) \/ UNCHANGED Service!bsVars
<1> USE ArenaAssumption DEF Goto, At, Take, Remember, Return, shared, lookup, inits,
        TypeInv, TypeOK, ArenaInv, CallInv
<1>1. CASE NotMine(t)
  <2>1. pc[t] = "owner" /\ blk[t] = Foreign
    BY <1>1, SMT DEF NotMine, PublishInv, LocalsKnown
  <2>2. /\ pc[t] \notin {"idle", "unlock"} /\ pc'[t] = "idle" /\ blk[t] = Foreign
        /\ blk' = [blk EXCEPT ![t] = Null] /\ UNCHANGED <<used, held>>
        /\ \A u \in Threads \ {t} : pc'[u] = pc[u] /\ op'[u] = op[u] /\ blk'[u] = blk[u]
    BY <1>1, <2>1, ArenaAssumption, SMT DEF NotMine
  <2>3. Service!TurnDown(t)
    BY <2>2, TurnedDown
  <2> QED BY <2>3 DEF Service!Serve
<1>2. CASE LockOwner(t)
  BY <1>2, InvisibleStep, SMT DEF LockOwner, Phase, Want
<1>3. CASE TrimLock(t)
  BY <1>3, SMT DEF TrimLock, BootInv
<1> QED BY <1>1, <1>2, <1>3 DEF Own

LEMMA StepRefines ==
  ASSUME Orderly, TypeInv, ArenaInv, [Next]_vars
  PROVE  [Service!ServiceNext]_(Service!bsVars)
<1>1. CASE UNCHANGED vars
  BY <1>1, SMT DEF vars, shared, lookup, Service!bsVars, OnPools
<1>2. CASE Finished
  BY <1>2, SMT DEF Finished, vars, shared, lookup, Service!bsVars, OnPools
<1>3. ASSUME NEW t \in Threads, Call(t)
      PROVE  Service!ServiceNext
  BY <1>3, CallIsAsk DEF Service!ServiceNext
<1>4. ASSUME NEW t \in Threads, Work(t)
      PROVE  [Service!ServiceNext]_(Service!bsVars)
  <2>1. Service!ReallocToFree(t) \/ Service!Serve(t) \/ UNCHANGED Service!bsVars
    BY <1>4, EnterRefines, InitialiseInvisible, SearchInvisible, CreateInvisible,
       UseRefines, OwnRefines DEF Work
  <2> QED BY <2>1 DEF Service!ServiceNext
<1> QED BY <1>1, <1>2, <1>3, <1>4 DEF Next

(* Every behaviour of the arena layer under an orderly program, whose      *)
(* threads have distinct tsd slots and of which one makes the first call,  *)
(* is one of the atomic block service: with any number of threads and      *)
(* arenas, however their steps interleave, a call of malloc, calloc,       *)
(* memalign, valloc, pvalloc, realloc or free takes effect at once, on the *)
(* pool of one arena. Threads on one slot may lose an update of the arena  *)
(* they share (arena_shared_slot), which no service does.                  *)
THEOREM ArenaImplementsService ==
  ASSUME Orderly
  PROVE  Spec => ImplementsService
<1>1. Init => Service!ServiceInit
  BY ServiceInitially
<1>2. Inductive /\ [Next]_vars => [Service!ServiceNext]_(Service!bsVars)
  BY StepRefines DEF Inductive
<1> QED BY <1>1, <1>2, InvariantHolds, PTL DEF Spec, ImplementsService, Service!ServiceSpec

----------------------------------------------------------------------------
(* The accounts of the arenas, which every step of the service balances.   *)

Carriers(a) == Cardinality({t \in Threads : blk[t] = a})

Accounts == \A a \in Dynamic : used[a] = held[a] + Carriers(a)

LEMMA CarriersChange ==
  ASSUME IsFiniteSet(Threads), TypeOK, NEW t \in Threads, NEW b,
         blk' = [blk EXCEPT ![t] = b], NEW a
  PROVE  /\ Carriers(a) \in Nat
         /\ Carriers(a)' = Carriers(a) + (IF b = a THEN 1 ELSE 0)
                                       - (IF blk[t] = a THEN 1 ELSE 0)
<1> DEFINE C == {u \in Threads : blk[u] = a}
           R == C \ {t}
           D == {u \in Threads : blk'[u] = a}
<1>1. IsFiniteSet(C) /\ IsFiniteSet(R) /\ IsFiniteSet(D)
  BY FS_Subset
<1>2. C = IF blk[t] = a THEN R \cup {t} ELSE R
  BY SMT
<1>3. D = IF b = a THEN R \cup {t} ELSE R
  BY SMT DEF TypeOK
<1>4. t \notin R
  OBVIOUS
<1> HIDE DEF C, R, D
<1>5. Cardinality(R \cup {t}) = Cardinality(R) + 1 /\ Cardinality(R) \in Nat
      /\ Cardinality(C) \in Nat
  BY <1>1, <1>4, FS_AddElement, FS_CardinalityType
<1>6. /\ Cardinality(C) = Cardinality(R) + (IF blk[t] = a THEN 1 ELSE 0)
      /\ Cardinality(D) = Cardinality(R) + (IF b = a THEN 1 ELSE 0)
  BY <1>2, <1>3, <1>5
<1> QED BY <1>5, <1>6 DEF Carriers, C, D

\* t has b in the place of the block it carried, and the books say so.
Balances(t, b) ==
  /\ blk' = [blk EXCEPT ![t] = b]
  /\ \A a \in Dynamic : used'[a] - held'[a] = used[a] - held[a]
                           + (IF b = a THEN 1 ELSE 0) - (IF blk[t] = a THEN 1 ELSE 0)

LEMMA AccountsBalance ==
  ASSUME IsFiniteSet(Threads), TypeOK, Accounts, NEW t \in Threads, NEW b, Balances(t, b),
         \A a \in Dynamic : used'[a] \in Int /\ held'[a] \in Int
  PROVE  Accounts'
<1> SUFFICES ASSUME NEW a \in Dynamic
             PROVE  used'[a] = held'[a] + Carriers(a)'
  BY DEF Accounts
<1>1. /\ Carriers(a) \in Nat
      /\ Carriers(a)' = Carriers(a) + (IF b = a THEN 1 ELSE 0)
                                    - (IF blk[t] = a THEN 1 ELSE 0)
  BY CarriersChange DEF Balances
<1>2. used[a] = held[a] + Carriers(a) /\ used[a] \in Int /\ held[a] \in Int
  BY SMT DEF Accounts, TypeOK, Arenas
<1>3. used'[a] - held'[a] = used[a] - held[a]
                              + (IF b = a THEN 1 ELSE 0) - (IF blk[t] = a THEN 1 ELSE 0)
  BY DEF Balances
<1> QED BY <1>1, <1>2, <1>3

LEMMA AccountsStep ==
  ASSUME Orderly, IsFiniteSet(Threads), TypeInv, ArenaInv, Accounts, [Next]_vars
  PROVE  Accounts'
<1>1. [Service!ServiceNext]_(Service!bsVars)
  BY StepRefines
<1>2. CASE UNCHANGED Service!bsVars
  <2>1. blk' = blk /\ OnPools(used') = OnPools(used) /\ OnPools(held') = OnPools(held)
    BY <1>2 DEF Service!bsVars, OnPools
  <2>2. \A a \in Dynamic : used'[a] = used[a] /\ held'[a] = held[a]
    BY <2>1, SMT DEF OnPools
  <2> QED BY <2>1, <2>2 DEF Accounts, Carriers
<1>3. ASSUME NEW t \in Threads, Service!Ask(t) \/ Service!ReallocToFree(t) \/ Service!Serve(t)
      PROVE  Accounts'
  <2>0. /\ blk \in [Threads -> Arenas \cup {Null, Foreign}] /\ TypeOK
        /\ \A a \in Dynamic : used[a] \in Int /\ held[a] \in Int /\ a # Null /\ a # Foreign
    BY ArenaAssumption, SMT DEF TypeInv, TypeOK, Arenas
  <2>1. \A a \in Dynamic : used'[a] \in Int /\ held'[a] \in Int
    <3>1. TypeOK'
      BY TypeStep DEF TypeInv
    <3> QED BY <3>1, SMT DEF TypeOK, Arenas
  <2>2. CASE Service!Ask(t)
    <3>1. blk[t] = Null
      BY <2>2, SMT DEF Service!Ask, Phase, ArenaInv, CallInv
    <3>2. PICK b : /\ blk' = [blk EXCEPT ![t] = b]
                   /\ OnPools(held') = IF b \in Dynamic
                         THEN [OnPools(held) EXCEPT ![b] = OnPools(held)[b] - 1]
                         ELSE OnPools(held)
                   /\ OnPools(used') = OnPools(used)
      BY <2>2 DEF Service!Ask, OnPools
    <3>3. \A a \in Dynamic : used'[a] = used[a]
                             /\ held'[a] = IF b = a THEN held[a] - 1 ELSE held[a]
      BY <3>2, SMT DEF OnPools
    <3>4. Balances(t, b)
      BY <2>0, <3>1, <3>2, <3>3, SMT DEF Balances
    <3> QED BY <2>0, <2>1, <3>2, <3>4, AccountsBalance
  <2>3. CASE Service!ReallocToFree(t) \/ Service!Resize(t)
    <3>1. blk' = blk /\ OnPools(used') = OnPools(used) /\ OnPools(held') = OnPools(held)
      BY <2>3 DEF Service!ReallocToFree, Service!Resize, OnPools
    <3>2. \A a \in Dynamic : used'[a] = used[a] /\ held'[a] = held[a]
      BY <3>1, SMT DEF OnPools
    <3> QED BY <3>1, <3>2 DEF Accounts, Carriers
  <2>4. CASE Service!Allocate(t)
    <3>1. blk[t] = Null
      BY <2>4, SMT DEF Service!Allocate, Phase, Want, ArenaInv, CallInv, BootInv, PlainOps,
                       AllOps, AllocOps
    <3>2. PICK b \in Dynamic : /\ blk' = [blk EXCEPT ![t] = b]
                   /\ OnPools(used') = [OnPools(used) EXCEPT ![b] = OnPools(used)[b] + 1]
                   /\ OnPools(held') = OnPools(held)
      BY <2>4 DEF Service!Allocate, OnPools
    <3>3. ASSUME NEW a \in Dynamic
          PROVE  held'[a] = held[a] /\ used'[a] = IF b = a THEN used[a] + 1 ELSE used[a]
      <4>1. OnPools(used')[a] = used'[a] /\ OnPools(held')[a] = held'[a]
            /\ OnPools(held)[a] = held[a] /\ OnPools(used)[a] = used[a]
        BY DEF OnPools
      <4>2. DOMAIN OnPools(used) = Dynamic
        BY DEF OnPools
      <4> QED BY <3>2, <4>1, <4>2
    <3>4. Balances(t, b)
      BY <2>0, <3>1, <3>2, <3>3, SMT DEF Balances
    <3> QED BY <2>0, <2>1, <3>2, <3>4, AccountsBalance
  <2>5. CASE Service!Free(t)
    <3> PICK b \in {Null} : TRUE
      OBVIOUS
    <3>1. blk[t] \in Dynamic
      BY <2>5 DEF Service!Free
    <3>2. /\ blk' = [blk EXCEPT ![t] = b]
          /\ OnPools(used') = [OnPools(used) EXCEPT ![blk[t]] = OnPools(used)[blk[t]] - 1]
          /\ OnPools(held') = OnPools(held)
      BY <2>5 DEF Service!Free, OnPools
    <3>3. \A a \in Dynamic : held'[a] = held[a]
                             /\ used'[a] = IF blk[t] = a THEN used[a] - 1 ELSE used[a]
      BY <3>1, <3>2, SMT DEF OnPools
    <3>4. Balances(t, b)
      BY <2>0, <3>2, <3>3, SMT DEF Balances
    <3> QED BY <2>0, <2>1, <3>2, <3>4, AccountsBalance
  <2>6. CASE Service!TurnDown(t)
    <3> PICK b \in {Null} : TRUE
      OBVIOUS
    <3>1. /\ blk[t] \in {Null, Foreign} /\ blk' = [blk EXCEPT ![t] = b]
          /\ OnPools(used') = OnPools(used) /\ OnPools(held') = OnPools(held)
      BY <2>6 DEF Service!TurnDown, OnPools
    <3>2. \A a \in Dynamic : held'[a] = held[a] /\ used'[a] = used[a]
      BY <3>1, SMT DEF OnPools
    <3>3. Balances(t, b)
      BY <2>0, <3>1, <3>2 DEF Balances
    <3> QED BY <2>0, <2>1, <3>1, <3>3, AccountsBalance
  <2>7. CASE Service!Answer(t)
    <3> PICK b \in {Null} : TRUE
      OBVIOUS
    <3>1. /\ blk' = [blk EXCEPT ![t] = b]
          /\ OnPools(held') = IF blk[t] \in Dynamic
                THEN [OnPools(held) EXCEPT ![blk[t]] = OnPools(held)[blk[t]] + 1]
                ELSE OnPools(held)
          /\ OnPools(used') = OnPools(used)
      BY <2>7 DEF Service!Answer, OnPools
    <3>2. \A a \in Dynamic : used'[a] = used[a]
                             /\ held'[a] = IF blk[t] = a THEN held[a] + 1 ELSE held[a]
      BY <3>1, SMT DEF OnPools
    <3>3. Balances(t, b)
      BY <2>0, <3>1, <3>2, SMT DEF Balances
    <3> QED BY <2>0, <2>1, <3>1, <3>3, AccountsBalance
  <2> QED BY <1>3, <2>2, <2>3, <2>4, <2>5, <2>6, <2>7 DEF Service!Serve
<1> QED BY <1>1, <1>2, <1>3 DEF Service!ServiceNext

LEMMA AccountsClosed ==
  ASSUME IsFiniteSet(Threads), TypeInv, ArenaInv, Accounts
  PROVE  ChunksAccountedFor
<1>1. used[Main] = 0 /\ held[Main] = 0 /\ {t \in Threads : blk[t] = Main} = {}
  BY DEF ArenaInv, CallInv
<1>2. Cardinality({t \in Threads : blk[t] = Main}) = 0
  BY <1>1, FS_EmptySet
<1> QED BY <1>1, <1>2 DEF Accounts, Carriers, ChunksAccountedFor, Arenas

LEMMA AccountsOpen ==
  ASSUME Init, IsFiniteSet(Threads) PROVE Accounts
<1>1. \A a \in Dynamic : {t \in Threads : blk[t] = a} = {}
  BY ArenaAssumption, SMT DEF Init, Arenas
<1>2. \A a \in Dynamic : Carriers(a) = 0
  BY <1>1, FS_EmptySet DEF Carriers
<1> QED BY <1>2, SMT DEF Init, Accounts, Arenas

(* In an orderly program (distinct tsd slots, one first caller) of         *)
(* finitely many threads every chunk an arena counts as in use belongs to  *)
(* the program or is on its way to or from it: no update of the arena is   *)
(* lost and no block leaks, also when the engine is out of memory.         *)
THEOREM ChunksAreAccounted ==
  ASSUME Orderly, IsFiniteSet(Threads) PROVE Spec => []ChunksAccountedFor
<1>1. Init => Accounts
  BY AccountsOpen
<1>2. Inductive /\ Accounts /\ [Next]_vars => Accounts'
  BY AccountsStep DEF Inductive
<1>3. Inductive /\ Accounts => ChunksAccountedFor
  BY AccountsClosed DEF Inductive
<1> QED BY <1>1, <1>2, <1>3, InvariantHolds, PTL DEF Spec

----------------------------------------------------------------------------
(* What others may do to an orderly program: take and release the list     *)
(* lock and locks of public arenas, as long as who works under one keeps   *)
(* it, replace hooks, and turn a call of calloc into one of malloc.        *)

Interference ==
  /\ UNCHANGED <<initialized, next, heaps, tsd, used, held, pc, calls, lookup, blk>>
  /\ initialized = 1
  /\ hook' \in [Hooks -> {"ini", "none"}] /\ saved' \in [Hooks -> {"ini", "none"}]
  /\ op' \in [Threads -> AllOps \cup {"none", "starter_malloc", "starter_free"}]
  /\ \A t \in Threads : \/ op'[t] = op[t]
                        \/ pc[t] = "enter" /\ op[t] \in AllocOps /\ op'[t] = "malloc"
  /\ mutex' \in [Locks -> Threads \cup {Null}] /\ mutex'[Main] = mutex[Main]
  /\ \A t \in Threads :
       /\ pc[t] \in {"drop_list", "link_next", "link_main", "list_unlock"}
            => mutex'["list"] = mutex["list"]
       /\ pc[t] \in {"got"} \cup LinkLabels \cup EngineLabels /\ av[t] \in Dynamic
            => mutex'[av[t]] = mutex[av[t]]
  /\ \A a \in Dynamic : mutex'[a] # Null /\ mutex'[a] # mutex[a] => Public(a)

LEMMA InterferenceHarmless ==
  ASSUME Inductive, ListInv, RingInv, ChainInv, Interference
  PROVE  (Inductive /\ ListInv /\ RingInv /\ ChainInv)'
<1> USE ArenaAssumption DEF Inductive, ArenaInv, Interference, lookup
<1>1. TypeInv'
  BY SMT DEF TypeInv, TypeOK, PointerInv, ExistInv
<1>2. BootInv'
  <2>1. \A t \in Threads : op'[t] \in PlainOps \cup {"none"}
    BY SMT DEF BootInv, PlainOps, AllOps, AllocOps
  <2>2. \A h \in Hooks : hook'[h] # "starter" /\ saved'[h] # "starter"
    BY SMT DEF Hooks
  <2>3. hook'["realloc"] # "starter"
    BY <2>2, SMT DEF Hooks
  <2> QED BY <2>1, <2>2, <2>3, SMT DEF BootInv
<1>3. MainInv'
  BY SMT DEF MainInv
<1>4. PublishInv'
  BY SMT DEF PublishInv, SharedRefsKnown, TsdKnown, LocalsKnown, OneCreator, Known, Public
<1>5. WorkersLock'
  BY SMT DEF WorkersLock, Public
<1>6. LockInv'
  BY SMT DEF LockInv, TypeInv, TypeOK
<1>7. CallInv'
  BY SMT DEF CallInv, AllocOps, SearchLabels, BirthLabels, LinkLabels, EngineLabels
<1>8. ListInv'
  BY SMT DEF ListInv
<1>9. RingInv'
  BY SMT DEF RingInv, RingOrder, RingLinks, Descending, Onward
<1>10. ChainInv'
  <2>1. Linked' = Linked
    BY SMT DEF Linked
  <2> QED BY <2>1, SMT DEF ChainInv, ChainOrder, ChainLinks, Chained
<1> QED BY <1>1, <1>2, <1>3, <1>4, <1>5, <1>6, <1>7, <1>8, <1>9, <1>10

(* A call of free that goes on to the next allocator at once.              *)
LEMMA TurnedAwayHarmless ==
  ASSUME Orderly, Inductive, ListInv, RingInv, ChainInv, NEW t \in Threads,
         pc[t] = "enter", op[t] = "free", blk[t] = Foreign,
         Return(t, Null), UNCHANGED shared
  PROVE  (Inductive /\ ListInv /\ RingInv /\ ChainInv)'
<1> USE ArenaAssumption DEF Inductive, ArenaInv, shared, Return, Goto
<1>1. TypeInv'
  BY SMT DEF TypeInv, TypeOK, PointerInv, ExistInv, Labels, Arenas, BirthLabels,
             LinkLabels, EngineLabels
<1>2. BootInv'
  BY SMT DEF BootInv, PlainOps, AllOps, AllocOps, TypeInv, TypeOK, InitLabels, SearchLabels,
             BirthLabels, LinkLabels, EngineLabels
<1>3. MainInv'
  BY SMT DEF MainInv, TypeInv, TypeOK, SearchLabels
<1>4. PublishInv'
  BY PublishReturn DEF BirthLabels
<1>5. WorkersLock'
  BY SMT DEF WorkersLock, Public, TypeInv, TypeOK, BirthLabels, LinkLabels, EngineLabels
<1>6. LockInv'
  BY SMT DEF LockInv, TypeInv, TypeOK, LinkLabels, EngineLabels
<1>7. CallInv'
  BY SMT DEF CallInv, AllocOps, SearchLabels, BirthLabels, LinkLabels, EngineLabels,
             TypeInv, TypeOK, Arenas
<1>8. ListInv'
  BY SMT DEF ListInv, TypeInv, TypeOK
<1>9. RingInv'
  <2>1. RingOrder'
    BY SMT DEF RingInv, RingOrder, Descending
  <2>2. RingLinks'
    BY SMT DEF RingInv, RingLinks, Onward, Creating, BirthLabels, TypeInv, TypeOK
  <2> QED BY <2>1, <2>2 DEF RingInv
<1>10. ChainInv'
  <2>1. Linked' = Linked
    BY SMT DEF Linked, Creating, BirthLabels, TypeInv, TypeOK
  <2> QED BY <2>1, SMT DEF ChainInv, ChainOrder, ChainLinks, Chained, TypeInv, TypeOK
<1> QED BY <1>1, <1>2, <1>3, <1>4, <1>5, <1>6, <1>7, <1>8, <1>9, <1>10
=============================================================================
