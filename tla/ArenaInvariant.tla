--------------------------- MODULE ArenaInvariant ---------------------------
(***************************************************************************)
(* The inductive invariants behind the arena layer's safety.  A program is *)
(* Started if one thread (Early) starts the allocator and the others come  *)
(* once an arena exists; independent_calloc and malloc_trim, which the     *)
(* preload library never calls, go around the initialisation and are left  *)
(* out.  It is Orderly if its threads hash to distinct tsd slots as well.  *)
(***************************************************************************)
EXTENDS ArenaRefinement

Started ==
  /\ WaitForArena = TRUE
  /\ \A t, u \in Early : t = u
  /\ Ops \cap {"icalloc", "trim"} = {}

(* Nothing in the code provides this: the slot is pthread_self() % 256.    *)
(* What is false without it, arena_shared_slot shows; what is left of the  *)
(* properties, arena_shared.                                               *)
DistinctSlots == \A t, u \in Threads : SlotOf[t] = SlotOf[u] => t = u

Orderly == Started /\ DistinctSlots

(* Together with the types: no thread searches from, links or uses a null  *)
(* arena, and whoever waits for main_arena's lock is to work in it.        *)
PointerInv ==
  \A t \in Threads :
    /\ pc[t] \in {"try", "scan", "next"} \cup BirthLabels \cup LinkLabels
                \cup EngineLabels => av[t] # Null
    /\ pc[t] \in {"scan", "next", "try_list"} => start[t] # Null
    /\ pc[t] = "lock_main" => av[t] = Main

(* Whatever refers to an arena refers to one that exists.                  *)
ExistInv ==
  LET Existing == heaps \cup {Main, Null} IN
  /\ \A a \in Arenas : next[a] \in Existing /\ (held[a] > 0 => a \in Existing)
  /\ \A s \in Slots : tsd[s] \in Existing
  /\ \A t \in Threads : /\ av[t] \in Existing /\ start[t] \in Existing
                       /\ blk[t] \in Existing \cup {Foreign}

TypeInv == TypeOK /\ PointerInv /\ ExistInv

PlainOps == AllOps \ {"icalloc", "trim"}

(* An arena other threads may know: its creator has locked it once.        *)
Public(a) == a \in heaps /\ \A t \in Threads : pc[t] \in BirthLabels => av[t] # a

Known(a) == a \in {Main, Null} \/ Public(a)

(* In a started program only the first thread is in a call before the      *)
(* first arena exists, and ptmalloc_init runs once, before any arena is    *)
(* looked for.                                                             *)
BootInv ==
  /\ heaps = {} => \A t \in Threads \ Early : pc[t] = "idle"
  /\ heaps # {} => initialized = 1
  /\ \A t \in Threads :
       /\ op[t] \in PlainOps \cup {"none"} /\ pc[t] # "trim"
       /\ pc[t] = "claim" => initialized = -1
       /\ pc[t] \in InitLabels => initialized = 0
       /\ pc[t] \in {"get", "try", "got"} \cup SearchLabels \cup BirthLabels
                     \cup LinkLabels \cup EngineLabels => initialized = 1
  /\ initialized = 0 => \E t \in Threads : pc[t] \in InitLabels
  /\ \A h \in {"malloc", "memalign"} :
       hook[h] = "none" => \/ initialized = 1
                           \/ \E t \in Threads : pc[t] \in {"check", "claim"} \cup InitLabels
  /\ \A h \in Hooks :
       /\ hook[h] = "starter" => initialized = 0
       /\ saved[h] # "starter"
  /\ hook["realloc"] # "starter"

(* main_arena is locked whenever a search may come across it.              *)
MainInv ==
  /\ heaps # {} => mutex[Main] # Null
  /\ heaps = {} /\ initialized = 1 => \A t \in Early : tsd[SlotOf[t]] = Main
  /\ \A t \in Threads :
       /\ pc[t] \in SearchLabels => mutex[Main] # Null
       /\ pc[t] = "init_done" => tsd[SlotOf[t]] = Main
       /\ pc[t] = "try" /\ heaps = {} => av[t] = Main

(* An arena that is being created is known to its creator alone: not to    *)
(* the ring, to the blocks the program holds, to another slot or thread.   *)
SharedRefsKnown ==
  \A a \in Arenas : Known(next[a]) /\ (a # Main /\ held[a] > 0 => Public(a))

TsdKnown ==
  \A s \in Slots : \/ Known(tsd[s])
                  \/ \E t \in Threads : /\ pc[t] \in {"mutex_init", "mutex_lock"}
                                        /\ SlotOf[t] = s /\ tsd[s] = av[t]

LocalsKnown ==
  \A t \in Threads :
    /\ Known(start[t])
    /\ blk[t] = Foreign \/ Known(blk[t])
    /\ pc[t] \notin BirthLabels => Known(av[t])

OneCreator ==
  \A t \in Threads : pc[t] \in BirthLabels =>
    /\ av[t] \in heaps
    /\ \A u \in Threads \ {t} : pc[u] \in BirthLabels => av[u] # av[t]

PublishInv == SharedRefsKnown /\ TsdKnown /\ LocalsKnown /\ OneCreator

(* Whoever links or uses a created arena is the one who locked it, and     *)
(* nobody did before its creator.                                          *)
WorkersLock ==
  /\ \A t \in Threads :
       pc[t] \in {"got"} \cup LinkLabels \cup EngineLabels /\ av[t] \in Dynamic
         => mutex[av[t]] = t
  /\ \A a \in Dynamic : mutex[a] # Null => Public(a)

(* All that distinct slots are needed for: it holds even while threads     *)
(* race through ptmalloc_init.                                             *)
RaceInv == TypeInv /\ PublishInv /\ WorkersLock

(* Only public_mALLOc comes back from a failed engine with its arena       *)
(* locked, and calloc, realloc(NULL) and a memalign of small alignment end *)
(* up in it.                                                               *)
KeepsNoLock == ~MayFail \/ Ops \cap {"malloc", "calloc", "realloc", "small_memalign"} = {}

(* A thread holds the list lock only while it links, and the lock of a     *)
(* created arena only while it works in that arena: in any program whose   *)
(* public_mALLOc does not fail.                                            *)
HolderInv ==
  /\ \A t \in Threads :
       /\ mutex["list"] = t => pc[t] \in {"drop_list", "link_next", "link_main",
                                        "list_unlock"}
       /\ \A a \in Dynamic : mutex[a] = t =>
            av[t] = a /\ pc[t] \in {"got"} \cup LinkLabels \cup EngineLabels
       /\ op[t] \in {"starter_malloc", "starter_free"} =>
            av[t] = Main /\ pc[t] \in {"got", "crashed"} \cup EngineLabels
  /\ Ops \cap {"malloc", "calloc", "realloc", "small_memalign"} = {} =>
       \A t \in Threads : op[t] \notin {"malloc", "calloc", "realloc", "small_memalign"}

(* In a started program whoever links an arena holds the list lock, and no *)
(* lock is taken before ptmalloc_init is done.                             *)
ListInv ==
  /\ \A t \in Threads :
       pc[t] \in {"drop_list", "link_next", "link_main", "list_unlock"}
         => mutex["list"] = t
  /\ initialized # 1 => \A l \in Locks : mutex[l] = Null

(* From its allocation to the moment main_arena points to it an arena      *)
(* belongs to its creator.                                                 *)
Creating == BirthLabels \cup {"list_lock", "link_next", "link_main"}

(* Next pointers lead towards main_arena: they go down some numbering of   *)
(* the arenas, and never end at an arena whose own pointer is not set.     *)
Descending(r) ==
  /\ r \in [Arenas -> Nat]
  /\ \A a \in Dynamic : next[a] \notin {Main, Null} => r[next[a]] < r[a]

Onward(a) == a = Main \/ next[a] # Null

(* The ring in any program, even while threads race through ptmalloc_init: *)
(* the next pointers a search can meet lead back to main_arena, and an     *)
(* arena enters the ring with its own pointer set.                         *)
RingOrder == \E r : Descending(r)

RingLinks ==
  /\ \A a \in Arenas : next[a] # Null => Onward(next[a]) /\ next[Main] # Null
  /\ \A a \in Dynamic \ heaps : next[a] = Null
  /\ initialized = 1 => next[Main] # Null
  /\ \A t \in Threads :
       /\ pc[t] \in {"init_list", "init_tsd", "init_done", "try_list", "drop_list",
                    "new"} \cup Creating => next[Main] # Null
       /\ pc[t] \in {"scan", "next"} => Onward(av[t])
       /\ pc[t] \in {"scan", "next", "try_list"} => Onward(start[t])
       /\ pc[t] \in Creating =>
            /\ av[t] \in heaps
            /\ next[av[t]] # Null <=> pc[t] = "link_main"
            /\ \A u \in Threads \ {t} : pc[u] \in Creating => av[u] # av[t]

RingInv == RingOrder /\ RingLinks

(* In a started program the ring holds the arenas whose creation is over,  *)
(* the newest next to main_arena: r is the order of their arrival.         *)
Linked == heaps \ {av[t] : t \in {u \in Threads : pc[u] \in Creating}}

Chained(r) ==
  /\ r \in [Arenas -> Nat]
  /\ next[Main] = Main => Linked = {}
  /\ next[Main] # Main => next[Main] \in Linked
                          /\ \A b \in Linked : r[b] <= r[next[Main]]
  /\ \A a \in Linked :
       /\ next[a] = Main => \A b \in Linked : r[a] <= r[b]
       /\ next[a] # Main => /\ next[a] \in Linked /\ r[next[a]] < r[a]
                            /\ \A b \in Linked : r[b] <= r[next[a]] \/ r[a] <= r[b]
       /\ \A b \in Linked : r[a] = r[b] => a = b

ChainOrder == initialized = 1 => \E r : Chained(r)

ChainLinks ==
  \A t \in Threads :
    /\ pc[t] = "link_main" => next[av[t]] = next[Main]
    /\ pc[t] \in {"init_list", "init_tsd", "init_done"} => next[Main] = Main

ChainInv == ChainOrder /\ ChainLinks

(* What a program has to do without for its process never to crash:        *)
(* pvalloc goes on without an arena, and a realloc that fails reads the    *)
(* header of the 0 it returns.                                             *)
FollowsNoNull == "pvalloc" \notin Ops /\ (~MayFail \/ "realloc" \notin Ops)

CrashInv ==
  \A t \in Threads :
    /\ pc[t] # "crashed"
    /\ pc[t] = "unlock_failed" => MayFail
    /\ op[t] \in {"pvalloc", "realloc"} => op[t] \in Ops

(* In an orderly program no thread works in main_arena, so that whoever    *)
(* links or uses an arena is the one who locked it.                        *)
LockInv ==
  \A t \in Threads :
    pc[t] \in LinkLabels \cup EngineLabels \/ (pc[t] = "got" /\ av[t] # Null)
      => av[t] \in heaps /\ mutex[av[t]] = t

(* What a call carries while it is under way.                              *)
CallInv ==
  /\ used[Main] = 0 /\ held[Main] = 0
  /\ \A t \in Threads :
       /\ blk[t] # Main
       /\ pc[t] = "idle" => op[t] = "none" /\ blk[t] = Null
       /\ pc[t] # "idle" => op[t] # "none"
       /\ op[t] = "free" => pc[t] = "unlock" \/ blk[t] # Null
       /\ op[t] \in AllocOps => pc[t] = "unlock" \/ blk[t] = Null
       /\ pc[t] = "owner" => op[t] \in {"free", "realloc"} /\ blk[t] # Null
       /\ pc[t] \in {"got"} \cup EngineLabels /\ op[t] \in {"free", "realloc"}
            => av[t] # Null /\ (blk[t] = av[t] \/ (op[t] = "free" /\ pc[t] = "unlock"))
       /\ pc[t] = "unlock" /\ op[t] = "free" => blk[t] = Null
       /\ pc[t] = "unlock_failed" => op[t] # "free"
       /\ pc[t] = "unlock" /\ op[t] \in AllocOps => blk[t] = av[t]
       /\ pc[t] \in SearchLabels \cup BirthLabels \cup LinkLabels \cup {"get", "try"}
            => op[t] \in AllocOps
       /\ pc[t] = "using" => old[t] = used[av[t]]

ArenaInv ==
  BootInv /\ MainInv /\ PublishInv /\ WorkersLock /\ LockInv /\ CallInv

(* Holds in every state of an orderly program, and every step preserves    *)
(* it: whoever uses an arena locked it, nobody but its creator knows an    *)
(* arena before it is locked for the first time, main_arena stays locked,  *)
(* and a call carries the block its operation is about.                    *)
Inductive == TypeInv /\ ArenaInv
=============================================================================
