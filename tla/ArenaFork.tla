----------------------------- MODULE ArenaFork -----------------------------
(***************************************************************************)
(* A thread of the process forks.  Before it does, ptmalloc_lock_all takes *)
(* the list lock and every arena's lock but main_arena's, puts the atfork  *)
(* hooks in the place of those of malloc and free, and marks the slot of   *)
(* the forking thread; ptmalloc_unlock_all undoes this in the parent, and  *)
(* ptmalloc_unlock_all2 initialises the locks anew in the child, where no  *)
(* other thread exists, and undoes nothing else.  A behaviour follows the  *)
(* parent or the child.  The other threads go on in the meantime.          *)
(*                                                                         *)
(* A definition marked Fault is the one after it with a mistake the code   *)
(* does not make; nothing uses it.                                         *)
(***************************************************************************)
EXTENDS Arena

CONSTANTS
  Atfork,    \* ATFORK_ARENA_PTR, no arena
  Followed,  \* which of the processes a behaviour may follow
  Forkers,   \* threads that may fork
  MaxForks   \* bound: forks of the process

ASSUME ForkAssumption ==
  /\ Atfork \notin Arenas \cup Threads \cup {Null, Foreign}
  /\ Followed \subseteq {"parent", "child"}
  /\ Forkers \subseteq Threads /\ MaxForks \in Nat

VARIABLES
  process,    \* the process that is followed
  forks,
  save_arena  \* save_arena

forkvars == <<process, forks, save_arena>>
allvars  == <<vars, forkvars>>

PrepareLabels == {"fork_list", "fork_lock", "fork_next", "fork_hooks", "fork_tsd"}
ParentLabels  == {"unlock_tsd", "unlock_hooks", "unlock_arena", "unlock_next",
                  "unlock_list"}
ForkLabels    == PrepareLabels \cup {"fork"} \cup ParentLabels

Forking == \E t \in Threads : pc[t] \in ForkLabels

ForkInit == Init /\ process = "parent" /\ forks = 0 /\ save_arena = Null

----------------------------------------------------------------------------
(* ptmalloc_lock_all.  The program forks from one thread at a time, and    *)
(* not before ptmalloc_init is over.                                       *)

Forks(t) ==
  /\ t \in Forkers /\ At(t, "idle") /\ CanStart(t) /\ initialized = 1
  /\ forks < MaxForks /\ ~Forking
  /\ forks' = forks + 1
  /\ Goto(t, "fork_list")
  /\ UNCHANGED <<shared, held, op, calls, lookup, blk, process, save_arena>>

LockAllListFault(t) ==
  /\ At(t, "fork_list")
  /\ av' = [av EXCEPT ![t] = Main]
  /\ Goto(t, "fork_lock")
  /\ UNCHANGED <<shared, held, op, calls, start, old, blk, forkvars>>

LockAllList(t) ==
  /\ At(t, "fork_list") /\ Take(t, "list")
  /\ av' = [av EXCEPT ![t] = Main]
  /\ Goto(t, "fork_lock")
  /\ UNCHANGED <<inits, next, heaps, tsd, used, held, op, calls, start, old, blk,
                 forkvars>>

LockAllArena(t) ==
  /\ At(t, "fork_lock")
  /\ IF av[t] = Main THEN UNCHANGED mutex ELSE Take(t, av[t])
  /\ Goto(t, "fork_next")
  /\ UNCHANGED <<inits, next, heaps, tsd, used, held, op, calls, lookup, blk,
                 forkvars>>

GoRoundFault(t, label, around, done) ==
  /\ At(t, label)
  /\ av' = [av EXCEPT ![t] = next[av[t]]]
  /\ Goto(t, IF av[t] = Main THEN done ELSE around)
  /\ UNCHANGED <<shared, held, op, calls, start, old, blk, forkvars>>

\* Both handlers go round the ring, which the list lock keeps as it is.
GoRound(t, label, around, done) ==
  /\ At(t, label)
  /\ av' = [av EXCEPT ![t] = next[av[t]]]
  /\ Goto(t, IF next[av[t]] = Main THEN done ELSE around)
  /\ UNCHANGED <<shared, held, op, calls, start, old, blk, forkvars>>

LockAllNext(t) == GoRound(t, "fork_next", "fork_lock", "fork_hooks")

LockAllHooks(t) ==
  /\ At(t, "fork_hooks")
  /\ saved' = [saved EXCEPT !["malloc"] = hook["malloc"], !["free"] = hook["free"]]
  /\ hook'  = [hook EXCEPT !["malloc"] = "atfork", !["free"] = "atfork"]
  /\ Goto(t, "fork_tsd")
  /\ UNCHANGED <<initialized, mutex, next, heaps, tsd, used, held, op, calls, lookup,
                 blk, forkvars>>

LockAllTsd(t) ==
  /\ At(t, "fork_tsd")
  /\ save_arena' = tsd[SlotOf[t]]
  /\ Remember(t, Atfork)
  /\ Goto(t, "fork")
  /\ UNCHANGED <<inits, mutex, next, heaps, used, held, op, calls, lookup, blk,
                 process, forks>>

Prepare(t) == LockAllList(t) \/ LockAllArena(t) \/ LockAllNext(t) \/ LockAllHooks(t)
              \/ LockAllTsd(t)

----------------------------------------------------------------------------
(* ptmalloc_unlock_all, in the parent.                                     *)

ForkParent(t) ==
  /\ At(t, "fork") /\ "parent" \in Followed
  /\ Goto(t, "unlock_tsd")
  /\ UNCHANGED <<shared, held, op, calls, lookup, blk, forkvars>>

UnlockAllTsdFault(t) ==
  /\ At(t, "unlock_tsd")
  /\ Goto(t, "unlock_hooks")
  /\ UNCHANGED <<shared, held, op, calls, lookup, blk, forkvars>>

UnlockAllTsd(t) ==
  /\ At(t, "unlock_tsd")
  /\ Remember(t, save_arena)
  /\ Goto(t, "unlock_hooks")
  /\ UNCHANGED <<inits, mutex, next, heaps, used, held, op, calls, lookup, blk,
                 forkvars>>

UnlockAllHooks(t) ==
  /\ At(t, "unlock_hooks")
  /\ hook' = [hook EXCEPT !["malloc"] = saved["malloc"], !["free"] = saved["free"]]
  /\ Goto(t, "unlock_arena")
  /\ UNCHANGED <<initialized, saved, mutex, next, heaps, tsd, used, held, op, calls,
                 lookup, blk, forkvars>>

UnlockAllArena(t) ==
  /\ At(t, "unlock_arena")
  /\ mutex' = IF av[t] = Main THEN mutex ELSE [mutex EXCEPT ![av[t]] = Null]
  /\ Goto(t, "unlock_next")
  /\ UNCHANGED <<inits, next, heaps, tsd, used, held, op, calls, lookup, blk, forkvars>>

UnlockAllNext(t) == GoRound(t, "unlock_next", "unlock_arena", "unlock_list")

UnlockAllList(t) ==
  /\ At(t, "unlock_list")
  /\ mutex' = [mutex EXCEPT !["list"] = Null]
  /\ Return(t, Null)
  /\ UNCHANGED <<inits, next, heaps, tsd, used, forkvars>>

Parent(t) == ForkParent(t) \/ UnlockAllTsd(t) \/ UnlockAllHooks(t) \/ UnlockAllArena(t)
             \/ UnlockAllNext(t) \/ UnlockAllList(t)

----------------------------------------------------------------------------
(* The child: the forking thread and the memory, locks included.           *)
(* ptmalloc_unlock_all2 is built without the lines that give the hooks and *)
(* the slot their values back.                                             *)

ForkChild(t) ==
  /\ At(t, "fork") /\ "child" \in Followed
  /\ process' = "child"
  /\ pc' = [u \in Threads |-> IF u = t THEN "idle" ELSE "gone"]
  /\ av' = [av EXCEPT ![t] = Null]
  /\ LET ring == {Walk[n] : n \in 0..Cardinality(Arenas)}
     IN mutex' = [l \in Locks |-> IF l \in ring \cup {"list"} THEN Null ELSE mutex[l]]
  /\ UNCHANGED <<inits, next, heaps, tsd, used, held, op, calls, start, old, blk,
                 forks, save_arena>>

----------------------------------------------------------------------------
(* malloc_atfork and free_atfork: the thread that forks uses any arena     *)
(* without a lock, main_arena to allocate; the others wait for the list    *)
(* lock, or for the lock of the block's arena.                             *)

Marked(t) == tsd[SlotOf[t]] = Atfork

Unlocked(t, a, o) ==
  /\ op' = [op EXCEPT ![t] = o] /\ av' = [av EXCEPT ![t] = a]
  /\ Goto(t, "got")
  /\ UNCHANGED <<shared, held, calls, start, old, blk, forkvars>>

MallocAtfork(t) ==
  /\ At(t, "enter") /\ op[t] \in {"malloc", "calloc"} /\ hook["malloc"] = "atfork"
  /\ IF Marked(t) THEN Unlocked(t, Main, "starter_malloc")
     ELSE /\ op' = [op EXCEPT ![t] = "malloc"] /\ Goto(t, "wait_list")
          /\ UNCHANGED <<shared, held, calls, lookup, blk, forkvars>>

\* The list lock is taken and released; then malloc is called again.
WaitList(t) ==
  /\ At(t, "wait_list") /\ Take(t, "list")
  /\ Goto(t, "leave_list")
  /\ UNCHANGED <<inits, next, heaps, tsd, used, held, op, calls, lookup, blk, forkvars>>

LeaveList(t) ==
  /\ At(t, "leave_list")
  /\ mutex' = [mutex EXCEPT !["list"] = Null]
  /\ Goto(t, "enter")
  /\ UNCHANGED <<inits, next, heaps, tsd, used, held, op, calls, lookup, blk, forkvars>>

\* arena_for_chunk
ArenaForChunk(b) == IF b = Foreign THEN Main ELSE b

\* Nobody asks whose block it is.  One of the other copy's goes to its own
\* arena; one of the C library is taken for a block of main_arena.
FreeAtfork(t) ==
  /\ At(t, "enter") /\ op[t] = "free" /\ hook["free"] = "atfork"
  /\ \/ blk[t] = Foreign /\ Return(t, Null) /\ UNCHANGED <<shared, forkvars>>
     \/ IF Marked(t) THEN Unlocked(t, ArenaForChunk(blk[t]), "starter_free")
        ELSE /\ Goto(t, "chunk_arena")
             /\ UNCHANGED <<shared, held, op, calls, lookup, blk, forkvars>>

LockChunkArena(t) ==
  /\ At(t, "chunk_arena") /\ Take(t, ArenaForChunk(blk[t]))
  /\ av' = [av EXCEPT ![t] = ArenaForChunk(blk[t])]
  /\ Goto(t, "got")
  /\ UNCHANGED <<inits, next, heaps, tsd, used, held, op, calls, start, old, blk,
                 forkvars>>

\* arena_get takes the mark for an arena: SIGSEGV.
GetMark(t) == At(t, "get") /\ Marked(t) /\ Crash(t) /\ UNCHANGED forkvars

AtforkWork(t) == MallocAtfork(t) \/ WaitList(t) \/ LeaveList(t) \/ FreeAtfork(t)
                 \/ LockChunkArena(t) \/ GetMark(t)

PlainWork(t) == ~(pc[t] = "get" /\ Marked(t)) /\ Work(t) /\ UNCHANGED forkvars

ForkWork(t) == Prepare(t) \/ Parent(t) \/ ForkChild(t) \/ AtforkWork(t) \/ PlainWork(t)

(* Nobody gives main_arena's lock back: who waits for it in free_atfork    *)
(* waits for ever.  Nothing else may keep a thread from going on.          *)
ForkFinished ==
  /\ ~Alive \/ \A t \in Threads : \/ pc[t] \in {"idle", "gone"}
                                  \/ pc[t] = "chunk_arena" /\ blk[t] = Foreign
  /\ UNCHANGED allvars

ForkNext ==
  \/ \E t \in Threads : Forks(t) \/ ForkWork(t) \/ (Call(t) /\ UNCHANGED forkvars)
  \/ ForkFinished

ForkSpec     == ForkInit /\ [][ForkNext]_allvars
FairForkSpec == ForkSpec /\ \A t \in Threads : WF_allvars(ForkWork(t))

----------------------------------------------------------------------------
(* Properties.                                                             *)

(* When the process is copied no thread is in the engine of an arena or    *)
(* half-way through linking one: what the child inherits is at rest, so    *)
(* that it may use every arena on the ring (`to make sure that the mutexes *)
(* remain in a consistent state', _my_arena.c).                            *)
CopiedAtRest ==
  \A t, u \in Threads : pc[t] = "fork" /\ u # t =>
    pc[u] \notin {"using", "link_next", "link_main", "list_unlock"}

(* Once the handlers are done the locks are: whoever is back in the        *)
(* program holds none but main_arena's, and the child finds none taken by  *)
(* a thread that does not exist.  In the parent no hook and no mark is     *)
(* left either (ptmalloc_unlock_all, ptmalloc_unlock_all2).                *)
ForkLeavesNothing ==
  /\ \A l \in Locks \ {Main} : mutex[l] # Null => pc[mutex[l]] # "idle"
  /\ process = "child" => \A n \in 0..Cardinality(Arenas) :
       mutex[Walk[n]] # Null => pc[mutex[Walk[n]]] # "gone"
  /\ process = "parent" /\ ~Forking =>
       /\ hook["malloc"] # "atfork" /\ hook["free"] # "atfork"
       /\ \A s \in Slots : tsd[s] # Atfork

(* What holds of a process that does not fork holds of one that does:      *)
(* while it is copied the other threads lose no chunk, and main_arena, in  *)
(* which malloc_atfork allocates, serves nobody.  Of the child it does not *)
(* hold, whose hooks stay.                                                 *)
ParentUnharmed == process = "parent" => ChunksAccountedFor /\ MainDisabled
=============================================================================
