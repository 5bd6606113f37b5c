------------------------------- MODULE Arena -------------------------------
(***************************************************************************)
(* The arena layer of the `_my_' copy of ptmalloc2: the spin locks, the    *)
(* ring of arenas, the thread-specific arena pointer, the one-time         *)
(* initialisation with its hooks, and the public entry points that find,   *)
(* lock, use and release an arena.  One step is one access to memory that  *)
(* threads share; the hook variables are saved and restored together, and  *)
(* the tsd store that follows a taken lock goes with the lock.             *)
(* Inside an arena the whole chunk engine is one counter                   *)
(* of chunks in use, read when the engine is entered and written when it   *)
(* is left, so that two threads inside one arena lose an update.           *)
(*                                                                         *)
(* A definition marked Fault is the one after it with a mistake the code   *)
(* does not make; nothing uses it.  PROJECT.json names the property that   *)
(* tells the two apart.                                                    *)
(***************************************************************************)
EXTENDS Integers, FiniteSets

CONSTANTS
  Threads,      \* the threads of the process
  Main,         \* main_arena
  Dynamic,      \* arenas that new_heap() can still provide; then it fails
  Slots,        \* entries of the thread-specific-data table
  SlotOf,       \* the entry each thread hashes to: pthread_self() % 256
  Early,        \* threads that may call before the allocator is set up
  WaitForArena, \* the other threads wait for the first arena (TRUE) or only
                \* for the end of ptmalloc_init (FALSE)
  Ops,          \* public entry points the program uses
  MayFail,      \* _int_malloc and its variants may run out of memory
  MaxCalls,     \* bound: calls each thread makes
  Foreign,      \* the owner of blocks of another allocator
  Null

(* "small_memalign" is memalign with an alignment every block has anyway.  *)
AllocOps == {"malloc", "calloc", "memalign", "small_memalign", "valloc",
             "pvalloc", "icalloc"}
AllOps   == AllocOps \cup {"free", "realloc", "trim"}
Arenas   == {Main} \cup Dynamic
Hooks    == {"malloc", "realloc", "memalign", "free"}

ASSUME ArenaAssumption ==
  /\ SlotOf \in [Threads -> Slots]
  /\ Early \subseteq Threads /\ Ops \subseteq AllOps
  /\ WaitForArena \in BOOLEAN /\ MayFail \in BOOLEAN /\ MaxCalls \in Nat
  /\ Main \notin Dynamic
  /\ Null \notin Arenas \cup Threads \cup {Foreign} /\ Foreign \notin Arenas
  /\ "list" \notin Arenas

Locks == Arenas \cup {"list"}

VARIABLES
  initialized,  \* __malloc_initialized: -1, 0 or 1
  hook,         \* __malloc_hook, __realloc_hook, __memalign_hook, __free_hook
  saved,        \* save_malloc_hook, save_memalign_hook, save_free_hook
  mutex,        \* who took each spin lock; Null is the lock word 0
  next,         \* mstate.next
  heaps,        \* arenas _int_new_arena has created
  tsd,          \* arena_key: the arena remembered in each slot
  used,         \* chunks in use, by the arena's own bookkeeping
  held,         \* blocks of each arena the program owns (environment)
  pc, op, calls,
  av,           \* ar_ptr / a: the arena a thread is working on
  start,        \* a_tsd: where its search of the ring began
  old,          \* the chunk count it read when it entered the engine
  blk           \* arena of the block it carries: argument or result

InitLabels   == {"init_main", "init_ring", "init_list", "init_tsd", "init_done"}
SearchLabels == {"get2", "lock_main", "scan", "next", "try_list", "drop_list", "new"}
BirthLabels  == {"set_tsd", "mutex_init", "mutex_lock"}
LinkLabels   == {"list_lock", "link_next", "link_main", "list_unlock"}
EngineLabels == {"using", "unlock", "unlock_failed"}
Labels == {"idle", "enter", "drop_hook", "check", "claim", "get", "try", "got",
           "owner", "trim", "crashed"}
          \cup InitLabels \cup SearchLabels \cup BirthLabels \cup LinkLabels
          \cup EngineLabels

shared == <<initialized, hook, saved, mutex, next, heaps, tsd, used>>
lookup == <<av, start, old>>
inits  == <<initialized, hook, saved>>
vars   == <<shared, held, pc, op, calls, lookup, blk>>

HookOf(o) == CASE o \in {"malloc", "calloc"} -> "malloc"
               [] o = "small_memalign"       -> "memalign"
               [] o \in Hooks                -> o
               [] OTHER                      -> "none"

TypeOK ==
  /\ initialized \in {-1, 0, 1}
  /\ hook \in [Hooks -> {"ini", "starter", "none"}]
  /\ saved \in [Hooks -> {"ini", "starter", "none"}]
  /\ mutex \in [Locks -> Threads \cup {Null}]
  /\ next \in [Arenas -> Arenas \cup {Null}]
  /\ heaps \subseteq Dynamic
  /\ tsd \in [Slots -> Arenas \cup {Null}]
  /\ used \in [Arenas -> Int] /\ held \in [Arenas -> Nat]
  /\ pc \in [Threads -> Labels]
  /\ op \in [Threads -> AllOps \cup {"none", "starter_malloc", "starter_free"}]
  /\ calls \in [Threads -> Nat]
  /\ av \in [Threads -> Arenas \cup {Null}]
  /\ start \in [Threads -> Arenas \cup {Null}]
  /\ old \in [Threads -> Int]
  /\ blk \in [Threads -> Arenas \cup {Null, Foreign}]

Init ==
  /\ initialized = -1
  /\ hook = [h \in Hooks |-> IF h = "free" THEN "none" ELSE "ini"]
  /\ saved = [h \in Hooks |-> "none"]
  /\ mutex = [l \in Locks |-> Null]
  /\ next = [a \in Arenas |-> Null]
  /\ heaps = {}
  /\ tsd = [s \in Slots |-> Null]
  /\ used = [a \in Arenas |-> 0]
  /\ held = [a \in Arenas |-> 0]
  /\ pc = [t \in Threads |-> "idle"]
  /\ op = [t \in Threads |-> "none"]
  /\ calls = [t \in Threads |-> 0]
  /\ av = [t \in Threads |-> Null]
  /\ start = [t \in Threads |-> Null]
  /\ old = [t \in Threads |-> 0]
  /\ blk = [t \in Threads |-> Null]

----------------------------------------------------------------------------
(* Helpers: moving a thread, its slot of the tsd table, returning.  A      *)
(* thread that crashes takes the process with it: the others stop too.     *)

Alive          == \A t \in Threads : pc[t] # "crashed"
At(t, label)   == Alive /\ pc[t] = label
Goto(t, label) == pc' = [pc EXCEPT ![t] = label]
Take(t, l)     == mutex[l] = Null /\ mutex' = [mutex EXCEPT ![l] = t]
Remember(t, a) == tsd' = [tsd EXCEPT ![SlotOf[t]] = a]

(* The call of t ends and hands block b (Null: none) to the program.       *)
Return(t, b) ==
  /\ Goto(t, "idle")
  /\ held' = IF b \in Arenas THEN [held EXCEPT ![b] = @ + 1] ELSE held
  /\ blk' = [blk EXCEPT ![t] = Null]
  /\ op' = [op EXCEPT ![t] = "none"]
  /\ av' = [av EXCEPT ![t] = Null]
  /\ start' = [start EXCEPT ![t] = Null]
  /\ old' = [old EXCEPT ![t] = 0]
  /\ UNCHANGED calls

(* A load or store through a null arena pointer: SIGSEGV ends the process. *)
Crash(t) == Goto(t, "crashed") /\ UNCHANGED <<shared, held, op, calls, lookup, blk>>

----------------------------------------------------------------------------
(* Entry points: pick the operation and its argument, then read the hook.  *)

CanStart(t) == \/ t \in Early
               \/ IF WaitForArena THEN heaps # {} ELSE initialized = 1

Call(t) ==
  /\ At(t, "idle") /\ calls[t] < MaxCalls /\ CanStart(t)
  /\ \E o \in Ops, b \in Arenas \cup {Foreign, Null} :
       /\ b = Null => o # "free"
       /\ b # Null => o \in {"free", "realloc"}
       /\ b \in Arenas => held[b] > 0
       /\ op' = [op EXCEPT ![t] = o]
       /\ blk' = [blk EXCEPT ![t] = b]
       /\ held' = IF b \in Arenas THEN [held EXCEPT ![b] = @ - 1] ELSE held
  /\ calls' = [calls EXCEPT ![t] = @ + 1]
  /\ Goto(t, "enter")
  /\ UNCHANGED <<shared, lookup>>

(* `If need less alignment than we give anyway, just relay to malloc':      *)
(* public_mALLOc, which reads a hook of its own and unlocks as malloc does. *)
EnterSmall(t) ==
  /\ At(t, "enter") /\ op[t] = "small_memalign" /\ hook["memalign"] = "none"
  /\ op' = [op EXCEPT ![t] = "malloc"]
  /\ UNCHANGED <<shared, held, pc, calls, lookup, blk>>

(* The hook is NULL: arena_get() for allocations, the owner test of free   *)
(* and realloc, the lock of main_arena for malloc_trim.                    *)
EnterPlain(t) ==
  /\ At(t, "enter")
  /\ HookOf(op[t]) \in Hooks => hook[HookOf(op[t])] = "none"
  /\ \/ op[t] \in {"malloc", "calloc", "memalign", "icalloc"} /\ Goto(t, "get")
     \/ op[t] \in {"valloc", "pvalloc"}
          /\ Goto(t, IF initialized < 0 THEN "check" ELSE "get")
     \/ op[t] \in {"free", "realloc"} /\ blk[t] # Null /\ Goto(t, "owner")
     \/ op[t] = "trim" /\ Goto(t, "trim")
  /\ UNCHANGED <<shared, held, op, calls, lookup, blk>>

(* Fault: realloc(p, 0) taken for malloc(0).                               *)
EnterReallocLeaks(t) ==
  /\ At(t, "enter") /\ op[t] = "realloc" /\ hook["realloc"] = "none"
  /\ op' = [op EXCEPT ![t] = "malloc"]
  /\ UNCHANGED <<shared, held, pc, calls, lookup, blk>>

(* realloc(NULL, n) is malloc(n); realloc(p, 0) is free(p).                *)
EnterRealloc(t) ==
  /\ At(t, "enter") /\ op[t] = "realloc" /\ hook["realloc"] = "none"
  /\ op' = [op EXCEPT ![t] = IF blk[t] = Null THEN "malloc" ELSE "free"]
  /\ UNCHANGED <<shared, held, pc, calls, lookup, blk>>

EnterIni(t) ==
  /\ At(t, "enter") /\ HookOf(op[t]) \in Hooks
  /\ hook[HookOf(op[t])] = "ini"
  /\ Goto(t, "drop_hook")
  /\ UNCHANGED <<shared, held, op, calls, lookup, blk>>

(* malloc_hook_ini, realloc_hook_ini, memalign_hook_ini: drop the hook,    *)
(* run ptmalloc_init, call the public function again.  calloc called the   *)
(* malloc hook, so it continues as malloc.                                 *)
DropHook(t) ==
  /\ At(t, "drop_hook")
  /\ hook' = [h \in Hooks |->
                IF \/ h = HookOf(op[t])
                   \/ h = "malloc" /\ op[t] = "realloc"
                THEN "none" ELSE hook[h]]
  /\ op' = [op EXCEPT ![t] = IF @ = "calloc" THEN "malloc" ELSE @]
  /\ Goto(t, "check")
  /\ UNCHANGED <<initialized, saved, mutex, next, heaps, tsd, used, held,
                 calls, lookup, blk>>

(* malloc_starter, memalign_starter, free_starter: main_arena, no lock.    *)
EnterStarter(t) ==
  /\ At(t, "enter") /\ HookOf(op[t]) \in Hooks
  /\ hook[HookOf(op[t])] = "starter"
  /\ op' = [op EXCEPT ![t] = IF @ = "free" THEN "starter_free"
                                           ELSE "starter_malloc"]
  /\ av' = [av EXCEPT ![t] = Main]
  /\ Goto(t, "got")
  /\ UNCHANGED <<shared, held, calls, start, old, blk>>

----------------------------------------------------------------------------
(* ptmalloc_init: the test and the claim of __malloc_initialized are two   *)
(* accesses, and so is every store that follows.                           *)

InitCheck(t) ==
  /\ At(t, "check")
  /\ Goto(t, IF initialized >= 0 THEN "enter" ELSE "claim")
  /\ UNCHANGED <<shared, held, op, calls, lookup, blk>>

InitClaim(t) ==
  /\ At(t, "claim")
  /\ initialized' = 0
  /\ saved' = hook
  /\ hook' = [h \in Hooks |-> IF h = "realloc" THEN hook[h] ELSE "starter"]
  /\ Goto(t, "init_main")
  /\ UNCHANGED <<mutex, next, heaps, tsd, used, held, op, calls, lookup, blk>>

InitMain(t) ==
  /\ At(t, "init_main")
  /\ mutex' = [mutex EXCEPT ![Main] = Null]
  /\ Goto(t, "init_ring")
  /\ UNCHANGED <<inits, next, heaps, tsd, used, held, op, calls, lookup, blk>>

InitRing(t) ==
  /\ At(t, "init_ring")
  /\ next' = [next EXCEPT ![Main] = Main]
  /\ Goto(t, "init_list")
  /\ UNCHANGED <<inits, mutex, heaps, tsd, used, held, op, calls, lookup, blk>>

InitList(t) ==
  /\ At(t, "init_list")
  /\ mutex' = [mutex EXCEPT !["list"] = Null]
  /\ Goto(t, "init_tsd")
  /\ UNCHANGED <<inits, next, heaps, tsd, used, held, op, calls, lookup, blk>>

InitTsd(t) ==
  /\ At(t, "init_tsd")
  /\ tsd' = [s \in Slots |-> IF s = SlotOf[t] THEN Main ELSE Null]
  /\ Goto(t, "init_done")
  /\ UNCHANGED <<inits, mutex, next, heaps, used, held, op, calls, lookup, blk>>

InitDone(t) ==
  /\ At(t, "init_done")
  /\ hook' = [saved EXCEPT !["realloc"] = hook["realloc"]]
  /\ initialized' = 1
  /\ Goto(t, IF HookOf(op[t]) \in Hooks THEN "enter" ELSE "get")
  /\ UNCHANGED <<saved, mutex, next, heaps, tsd, used, held, op, calls, lookup,
                 blk>>

----------------------------------------------------------------------------
(* arena_get and arena_get2.                                               *)

GetTsd(t) ==
  /\ At(t, "get")
  /\ av' = [av EXCEPT ![t] = tsd[SlotOf[t]]]
  /\ Goto(t, IF tsd[SlotOf[t]] = Null THEN "get2" ELSE "try")
  /\ UNCHANGED <<shared, held, op, calls, start, old, blk>>

(* Fault: main_arena, once taken, is good enough.                          *)
TryDirectMain(t) ==
  /\ At(t, "try")
  /\ \/ Take(t, av[t]) /\ Goto(t, "got")
     \/ mutex[av[t]] # Null /\ Goto(t, "get2") /\ UNCHANGED mutex
  /\ UNCHANGED <<inits, next, heaps, tsd, used, held, op, calls, lookup, blk>>

(* mutex_trylock of the remembered arena.  Taking main_arena is never      *)
(* enough: arena_get2 is called with main_arena left locked.               *)
TryDirect(t) ==
  /\ At(t, "try")
  /\ \/ Take(t, av[t]) /\ Goto(t, IF av[t] = Main THEN "get2" ELSE "got")
     \/ mutex[av[t]] # Null /\ Goto(t, "get2") /\ UNCHANGED mutex
  /\ UNCHANGED <<inits, next, heaps, tsd, used, held, op, calls, lookup, blk>>

Get2(t) ==
  /\ At(t, "get2")
  /\ LET a == IF av[t] = Null THEN Main ELSE next[av[t]] IN
       /\ start' = [start EXCEPT ![t] = IF av[t] = Null THEN Main ELSE av[t]]
       /\ av' = [av EXCEPT ![t] = IF a = Null THEN Main ELSE a]
       /\ Goto(t, IF a = Null THEN "lock_main" ELSE "scan")
  /\ UNCHANGED <<shared, held, op, calls, old, blk>>

(* `This can only happen while initializing the new arena.'                *)
LockMain(t) ==
  /\ At(t, "lock_main") /\ Take(t, Main)
  /\ Goto(t, "got")
  /\ UNCHANGED <<inits, next, heaps, tsd, used, held, op, calls, lookup, blk>>

(* Fault: the search looks at the lock word but does not take the lock.    *)
ScanTakeUnlocked(t) ==
  /\ At(t, "scan") /\ mutex[av[t]] = Null
  /\ Remember(t, av[t])
  /\ Goto(t, "got")
  /\ UNCHANGED <<inits, mutex, next, heaps, used, held, op, calls, lookup, blk>>

ScanTake(t) ==
  /\ At(t, "scan") /\ Take(t, av[t])
  /\ Remember(t, av[t])
  /\ Goto(t, "got")
  /\ UNCHANGED <<inits, next, heaps, used, held, op, calls, lookup, blk>>

ScanBusy(t) ==
  /\ At(t, "scan") /\ mutex[av[t]] # Null
  /\ Goto(t, "next")
  /\ UNCHANGED <<shared, held, op, calls, lookup, blk>>

(* Fault: the search does not notice that it is back where it began.       *)
ScanNextForever(t) ==
  /\ At(t, "next") /\ next[av[t]] # Null
  /\ av' = [av EXCEPT ![t] = next[av[t]]]
  /\ Goto(t, "scan")
  /\ UNCHANGED <<shared, held, op, calls, start, old, blk>>

ScanNext(t) ==
  /\ At(t, "next") /\ next[av[t]] # Null
  /\ av' = [av EXCEPT ![t] = next[av[t]]]
  /\ Goto(t, IF next[av[t]] = start[t] THEN "try_list" ELSE "scan")
  /\ UNCHANGED <<shared, held, op, calls, start, old, blk>>

ScanCrash(t) == At(t, "next") /\ next[av[t]] = Null /\ Crash(t)

(* Fault: the outcome of mutex_trylock(&list_lock) is ignored.             *)
TryListIgnored(t) ==
  /\ At(t, "try_list") /\ Goto(t, "drop_list")
  /\ UNCHANGED <<shared, held, op, calls, lookup, blk>>

TryList(t) ==
  /\ At(t, "try_list")
  /\ \/ Take(t, "list") /\ Goto(t, "drop_list") /\ UNCHANGED av
     \/ /\ mutex["list"] # Null /\ UNCHANGED mutex
        /\ av' = [av EXCEPT ![t] = start[t]] /\ Goto(t, "scan")
  /\ UNCHANGED <<inits, next, heaps, tsd, used, held, op, calls, start, old, blk>>

DropList(t) ==
  /\ At(t, "drop_list")
  /\ mutex' = [mutex EXCEPT !["list"] = Null]
  /\ Goto(t, "new")
  /\ UNCHANGED <<inits, next, heaps, tsd, used, held, op, calls, lookup, blk>>

(* _int_new_arena: fresh zeroed pages, so the lock word and next are 0.    *)
NewArena(t) ==
  /\ At(t, "new")
  /\ \E a \in Dynamic \ heaps :
       /\ heaps' = heaps \cup {a}
       /\ av' = [av EXCEPT ![t] = a]
  /\ Goto(t, "set_tsd")
  /\ UNCHANGED <<inits, mutex, next, tsd, used, held, op, calls, start, old, blk>>

(* Fault: search again instead of giving up.                               *)
NewArenaRetries(t) ==
  /\ At(t, "new") /\ (MayFail \/ heaps = Dynamic)
  /\ av' = [av EXCEPT ![t] = Null]
  /\ Goto(t, "get2")
  /\ UNCHANGED <<shared, held, op, calls, start, old, blk>>

NewArenaFails(t) ==
  /\ At(t, "new") /\ (MayFail \/ heaps = Dynamic)
  /\ av' = [av EXCEPT ![t] = Null]
  /\ Goto(t, "got")
  /\ UNCHANGED <<shared, held, op, calls, start, old, blk>>

SetTsd(t) ==
  /\ At(t, "set_tsd") /\ Remember(t, av[t])
  /\ Goto(t, "mutex_init")
  /\ UNCHANGED <<inits, mutex, next, heaps, used, held, op, calls, lookup, blk>>

(* Fault: the new arena is linked without being locked.                    *)
MutexInitOnly(t) ==
  /\ At(t, "mutex_init")
  /\ mutex' = [mutex EXCEPT ![av[t]] = Null]
  /\ Goto(t, "list_lock")
  /\ UNCHANGED <<inits, next, heaps, tsd, used, held, op, calls, lookup, blk>>

MutexInit(t) ==
  /\ At(t, "mutex_init")
  /\ mutex' = [mutex EXCEPT ![av[t]] = Null]
  /\ Goto(t, "mutex_lock")
  /\ UNCHANGED <<inits, next, heaps, tsd, used, held, op, calls, lookup, blk>>

MutexLock(t) ==
  /\ At(t, "mutex_lock") /\ Take(t, av[t])
  /\ Goto(t, "list_lock")
  /\ UNCHANGED <<inits, next, heaps, tsd, used, held, op, calls, lookup, blk>>

(* Fault: the new arena is linked without the list lock.                   *)
ListLockMissing(t) ==
  /\ At(t, "list_lock") /\ Goto(t, "link_next")
  /\ UNCHANGED <<shared, held, op, calls, lookup, blk>>

ListLock(t) ==
  /\ At(t, "list_lock") /\ Take(t, "list")
  /\ Goto(t, "link_next")
  /\ UNCHANGED <<inits, next, heaps, tsd, used, held, op, calls, lookup, blk>>

(* Fault: main_arena points to the new arena before that points on.        *)
LinkNextLate(t) ==
  /\ At(t, "link_next")
  /\ next' = [next EXCEPT ![Main] = av[t]]
  /\ Goto(t, "link_main")
  /\ UNCHANGED <<inits, mutex, heaps, tsd, used, held, op, calls, lookup, blk>>

LinkNext(t) ==
  /\ At(t, "link_next")
  /\ next' = [next EXCEPT ![av[t]] = next[Main]]
  /\ Goto(t, "link_main")
  /\ UNCHANGED <<inits, mutex, heaps, tsd, used, held, op, calls, lookup, blk>>

LinkMain(t) ==
  /\ At(t, "link_main")
  /\ next' = [next EXCEPT ![Main] = av[t]]
  /\ Goto(t, "list_unlock")
  /\ UNCHANGED <<inits, mutex, heaps, tsd, used, held, op, calls, lookup, blk>>

ListUnlock(t) ==
  /\ At(t, "list_unlock")
  /\ mutex' = [mutex EXCEPT !["list"] = Null]
  /\ Goto(t, "got")
  /\ UNCHANGED <<inits, next, heaps, tsd, used, held, op, calls, lookup, blk>>

----------------------------------------------------------------------------
(* Using the arena and coming back.                                        *)

(* No arena: every entry point returns 0 but pvalloc, which does not look. *)
GotNothing(t) ==
  /\ At(t, "got") /\ av[t] = Null
  /\ IF op[t] = "pvalloc" THEN Crash(t) ELSE Return(t, Null) /\ UNCHANGED shared

(* malloc refuses main_arena and returns 0, without unlocking it.          *)
RefuseMain(t) ==
  /\ At(t, "got") /\ av[t] = Main /\ op[t] = "malloc"
  /\ Return(t, Null) /\ UNCHANGED shared

EngineEnter(t) ==
  /\ At(t, "got") /\ av[t] # Null /\ ~(av[t] = Main /\ op[t] = "malloc")
  /\ old' = [old EXCEPT ![t] = used[av[t]]]
  /\ Goto(t, "using")
  /\ UNCHANGED <<shared, held, op, calls, av, start, blk>>

(* What a successful operation adds to the number of chunks in use.        *)
Gain(o) == IF o \in {"free", "starter_free"} THEN -1
           ELSE IF o \in {"realloc", "trim"} THEN 0 ELSE 1

EngineLeave(t) ==
  /\ At(t, "using")
  /\ used' = [used EXCEPT ![av[t]] = old[t] + Gain(op[t])]
  /\ blk' = [blk EXCEPT ![t] = CASE Gain(op[t]) = -1 -> Null
                                 [] Gain(op[t]) = 0  -> @
                                 [] OTHER            -> av[t]]
  /\ Goto(t, "unlock")
  /\ UNCHANGED <<inits, mutex, next, heaps, tsd, held, op, calls, lookup>>

(* The engine is out of memory.  malloc comes back with the arena still    *)
(* locked; the other entry points unlock it first.                         *)
EngineFails(t) ==
  /\ At(t, "using") /\ MayFail
  /\ op[t] \in AllocOps \cup {"starter_malloc", "realloc"}
  /\ IF op[t] = "malloc"
       THEN Return(t, Null)
       ELSE Goto(t, "unlock_failed")
            /\ UNCHANGED <<held, op, calls, lookup, blk>>
  /\ UNCHANGED shared

(* calloc and memalign drop the block they made in main_arena.             *)
Unlock(t) ==
  /\ At(t, "unlock")
  /\ mutex' = IF op[t] \in {"starter_malloc", "starter_free"} THEN mutex
              ELSE [mutex EXCEPT ![av[t]] = Null]
  /\ Return(t, IF av[t] = Main /\ op[t] \in {"calloc", "memalign"}
               THEN Null ELSE blk[t])
  /\ UNCHANGED <<inits, next, heaps, tsd, used>>

(* Fault: a failed call leaves its arena locked.                           *)
UnlockFailedNot(t) ==
  /\ At(t, "unlock_failed") /\ Return(t, Null) /\ UNCHANGED shared

(* realloc looks at the header in front of the 0 it is about to return.    *)
UnlockFailed(t) ==
  /\ At(t, "unlock_failed")
  /\ mutex' = IF op[t] = "starter_malloc" THEN mutex
              ELSE [mutex EXCEPT ![av[t]] = Null]
  /\ IF op[t] = "realloc"
       THEN Goto(t, "crashed") /\ UNCHANGED <<held, op, calls, lookup, blk>>
       ELSE Return(t, Null)
  /\ UNCHANGED <<inits, next, heaps, tsd, used>>

----------------------------------------------------------------------------
(* free and realloc of a block: whose is it, then lock its arena.          *)

NotMine(t) ==
  /\ At(t, "owner") /\ blk[t] \in {Main, Foreign}
  /\ Return(t, Null) /\ UNCHANGED shared

(* Fault: free and realloc enter the block's arena without its lock.       *)
LockOwnerMissing(t) ==
  /\ At(t, "owner") /\ blk[t] \in Dynamic
  /\ av' = [av EXCEPT ![t] = blk[t]]
  /\ Goto(t, "got")
  /\ UNCHANGED <<shared, held, op, calls, start, old, blk>>

LockOwner(t) ==
  /\ At(t, "owner") /\ blk[t] \in Dynamic /\ Take(t, blk[t])
  /\ av' = [av EXCEPT ![t] = blk[t]]
  /\ IF op[t] = "realloc" THEN Remember(t, blk[t]) ELSE UNCHANGED tsd
  /\ Goto(t, "got")
  /\ UNCHANGED <<inits, next, heaps, used, held, op, calls, start, old, blk>>

TrimLock(t) ==
  /\ At(t, "trim") /\ Take(t, Main)
  /\ av' = [av EXCEPT ![t] = Main]
  /\ Goto(t, "got")
  /\ UNCHANGED <<inits, next, heaps, tsd, used, held, op, calls, start, old, blk>>

----------------------------------------------------------------------------
Initialise(t) == InitCheck(t) \/ InitClaim(t) \/ InitMain(t) \/ InitRing(t)
                 \/ InitList(t) \/ InitTsd(t) \/ InitDone(t)
Enter(t)  == EnterPlain(t) \/ EnterSmall(t) \/ EnterRealloc(t) \/ EnterIni(t)
             \/ DropHook(t) \/ EnterStarter(t)
Search(t) == GetTsd(t) \/ TryDirect(t) \/ Get2(t) \/ LockMain(t) \/ ScanTake(t)
             \/ ScanBusy(t) \/ ScanNext(t) \/ ScanCrash(t) \/ TryList(t)
Create(t) == DropList(t) \/ NewArena(t) \/ NewArenaFails(t) \/ SetTsd(t)
             \/ MutexInit(t) \/ MutexLock(t) \/ ListLock(t) \/ LinkNext(t)
             \/ LinkMain(t) \/ ListUnlock(t)
Use(t)    == GotNothing(t) \/ RefuseMain(t) \/ EngineEnter(t) \/ EngineLeave(t)
             \/ EngineFails(t) \/ Unlock(t) \/ UnlockFailed(t)
Own(t)    == NotMine(t) \/ LockOwner(t) \/ TrimLock(t)

Work(t) == Enter(t) \/ Initialise(t) \/ Search(t) \/ Create(t) \/ Use(t) \/ Own(t)

(* Every thread has made its calls, or the process is gone.                *)
Finished ==
  /\ ~Alive \/ \A t \in Threads : pc[t] = "idle"
  /\ UNCHANGED vars

Next == (\E t \in Threads : Call(t) \/ Work(t)) \/ Finished

Spec     == Init /\ [][Next]_vars
FairSpec == Spec /\ \A t \in Threads : WF_vars(Work(t))
----------------------------------------------------------------------------
(* Properties.                                                             *)

(* Two threads are never inside the engine of one arena at the same time:  *)
(* what `arena_get() acquires an arena and locks the corresponding mutex'  *)
(* (_my_arena.c) is for.                                                   *)
ArenaExclusive ==
  \A t, u \in Threads :
    t # u /\ pc[t] = "using" /\ pc[u] = "using" => av[t] # av[u]

(* The same for the arenas _int_new_arena made: even threads racing        *)
(* through ptmalloc_init only re-initialise main_arena's and the list lock.*)
CreatedArenaExclusive ==
  \A t, u \in Threads :
    t # u /\ pc[t] = "using" /\ pc[u] = "using" => av[t] # av[u] \/ av[t] = Main

(* Every chunk an arena counts as in use belongs to the program or is on   *)
(* its way to or from it: no update of the arena is lost, no block leaks.  *)
ChunksAccountedFor ==
  Alive => \A a \in Arenas :
             used[a] = held[a] + Cardinality({t \in Threads : blk[t] = a})

(* `we have disabled the main_arena' (readme.md): arena_get never hands it *)
(* to an allocation, it never serves one, and once the first arena exists  *)
(* its lock is never free.                                                 *)
MainDisabled ==
  /\ \A t \in Threads : av[t] = Main /\ op[t] \in AllocOps
                        => pc[t] \notin {"got", "using"}
  /\ used[Main] = 0
  /\ heaps # {} => mutex[Main] # Null

(* A thread that is back in the program left no lock behind but            *)
(* main_arena's: nobody will ever wait for it in free() or realloc().      *)
ReturnsLockNothing ==
  \A t \in Threads : pc[t] = "idle" => \A l \in Locks \ {Main} : mutex[l] # t

(* What a search meets that starts at main_arena and follows next.         *)
Walk == LET size == Cardinality(Arenas)
            walk[n \in 0..size] == IF n = 0 THEN Main
                                   ELSE IF walk[n - 1] = Null THEN Null
                                   ELSE next[walk[n - 1]]
        IN walk

(* From main_arena the next pointers lead back to main_arena, whatever     *)
(* link a creator of an arena has half done: a search of the ring that     *)
(* starts there meets no null pointer and comes to its end.                *)
RingClosed ==
  initialized = 1 => \E n \in 1..Cardinality(Arenas) : Walk[n] = Main

(* Every arena whose creator is done linking it is on the ring: two        *)
(* creators never overwrite each other's link.                             *)
RingComplete ==
  LET inCreation == {av[t] : t \in {u \in Threads : pc[u] \in
                       BirthLabels \cup {"list_lock", "link_next", "link_main"}}}
  IN initialized = 1 =>
       heaps \ inCreation \subseteq {Walk[n] : n \in 0..Cardinality(Arenas)}

(* A taken lock is released, re-initialised or taken over only by a step   *)
(* of the thread that took it.                                             *)
OnlyHolderReleases ==
  [][\A l \in Locks : mutex[l] # Null /\ mutex'[l] # mutex[l]
                         => pc'[mutex[l]] # pc[mutex[l]]]_vars

(* No thread follows a null arena pointer or reads the header of a null    *)
(* block.                                                                  *)
NoCrash == Alive

(* Every call comes back: no thread waits for a lock nobody will release   *)
(* and no search of the ring goes on forever.                              *)
EveryCallReturns == \A t \in Threads : pc[t] # "idle" ~> pc[t] = "idle"
=============================================================================
