---------------------------- MODULE ForkInvariant ----------------------------
(***************************************************************************)
(* The inductive invariant of a program that forks.  A fork leaves the     *)
(* arena layer as it is but for the locks: the invariants of Arena hold of *)
(* the parent if the thread that forks counts as idle, one that waits for  *)
(* it as about to ask, and the hooks and the slot it replaced as what it   *)
(* will put back.  In the child one thread is left.                        *)
(***************************************************************************)
EXTENDS ArenaFork

----------------------------------------------------------------------------
(* The parent, with the fork left out.                                     *)

PlainPc == [t \in Threads |-> CASE pc[t] \in ForkLabels                 -> "idle"
                                [] pc[t] \in {"wait_list", "leave_list"} -> "enter"
                                [] pc[t] = "chunk_arena"                 -> "owner"
                                [] OTHER                                 -> pc[t]]

PlainAv == [t \in Threads |-> IF pc[t] \in ForkLabels THEN Null ELSE av[t]]

PlainTsd == [s \in Slots |-> IF tsd[s] = Atfork THEN save_arena ELSE tsd[s]]

PlainHook == [h \in Hooks |-> IF hook[h] = "atfork" THEN saved[h] ELSE hook[h]]

Plain == INSTANCE ArenaInvariant WITH
           pc <- PlainPc, av <- PlainAv, tsd <- PlainTsd, hook <- PlainHook

----------------------------------------------------------------------------
(* Types.  Whoever looks at an arena or goes round the ring has one.       *)

WaitLabels == {"wait_list", "leave_list", "chunk_arena"}
HookValues == {"ini", "starter", "none", "atfork"}

ForkTypeOK ==
  /\ initialized \in {-1, 0, 1}
  /\ hook \in [Hooks -> HookValues] /\ saved \in [Hooks -> HookValues]
  /\ mutex \in [Locks -> Threads \cup {Null}]
  /\ next \in [Arenas -> Arenas \cup {Null}]
  /\ heaps \subseteq Dynamic
  /\ tsd \in [Slots -> Arenas \cup {Null, Atfork}]
  /\ used \in [Arenas -> Int] /\ held \in [Arenas -> Nat]
  /\ pc \in [Threads -> Labels \cup ForkLabels \cup WaitLabels \cup {"gone"}]
  /\ op \in [Threads -> AllOps \cup {"none", "starter_malloc", "starter_free"}]
  /\ calls \in [Threads -> Nat]
  /\ av \in [Threads -> Arenas \cup {Null}]
  /\ start \in [Threads -> Arenas \cup {Null}]
  /\ old \in [Threads -> Int]
  /\ blk \in [Threads -> Arenas \cup {Null, Foreign}]
  /\ process \in {"parent", "child"} /\ forks \in Nat
  /\ save_arena \in Arenas \cup {Null, Atfork}

ForkPointers ==
  \A t \in Threads :
    /\ pc[t] \in {"try", "scan", "next"} \cup BirthLabels \cup LinkLabels
                \cup EngineLabels \cup (ForkLabels \ {"fork_list"}) => av[t] # Null
    /\ pc[t] \in {"scan", "next", "try_list"} => start[t] # Null
    /\ pc[t] = "lock_main" => av[t] = Main
    /\ pc[t] = "idle" => av[t] = Null
    /\ pc[t] \in {"idle"} \cup ForkLabels => start[t] = Null /\ old[t] = 0

ForkTypeInv == ForkTypeOK /\ ForkPointers

(* One thread forks at a time, and only once ptmalloc_init is over.        *)
OneForks ==
  /\ \A t, u \in Threads : pc[t] \in ForkLabels /\ pc[u] \in ForkLabels => t = u
  /\ initialized # 1 => process = "parent" /\ \A t \in Threads : pc[t] \in Labels
  /\ hook["free"] # "ini" /\ saved["free"] # "ini"

(* Whoever links an arena, forks, or waited for a fork holds the list lock.*)
ListHeld ==
  \A t \in Threads :
    pc[t] \in {"drop_list", "link_next", "link_main", "list_unlock", "leave_list"}
             \cup (ForkLabels \ {"fork_list"}) => mutex["list"] = t

----------------------------------------------------------------------------
(* The rounds of the handlers.  The ring is what next leads to from        *)
(* main_arena, the least set that is closed.                               *)

Closed(C) == Main \in C /\ \A b \in C : next[b] \in C \cup {Null}

OnRing == {a \in Arenas : \A C \in SUBSET Arenas : Closed(C) => a \in C}

(* No next pointer a round meets leads to nothing.                         *)
NeverEnds == next[Main] # Null /\ \A a \in Arenas : next[a] # Null => next[next[a]] # Null

(* D was visited, and a is next.                                           *)
Upto(D, a) ==
  \/ D = {} /\ a = Main
  \/ /\ Main \in D /\ a \in OnRing
     /\ \A b \in D : next[b] \in (D \cup {a}) \ {Main}

(* D was visited, a last.                                                  *)
Through(D, a) == Main \in D /\ a \in D /\ \A b \in D \ {a} : next[b] \in D \ {Main}

LockedBy(t, D)   == \A b \in D \ {Main} : mutex[b] = t
UnlockedBy(t, D) == \A b \in D \ {Main} : mutex[b] # t

RoundAt(t) ==
  /\ pc[t] = "fork_lock" =>
       \E D \in SUBSET OnRing : Upto(D, av[t]) /\ LockedBy(t, D)
  /\ pc[t] = "fork_next" =>
       \E D \in SUBSET OnRing : Through(D, av[t]) /\ LockedBy(t, D)
  /\ pc[t] \in {"fork_hooks", "fork_tsd", "fork", "unlock_tsd", "unlock_hooks"} =>
       av[t] = Main /\ LockedBy(t, OnRing)
  /\ pc[t] = "unlock_arena" =>
       \E D \in SUBSET OnRing :
         /\ Upto(D, av[t]) /\ UnlockedBy(t, D)
         /\ process = "parent" => LockedBy(t, (OnRing \ D) \cup {av[t]})
  /\ pc[t] = "unlock_next" =>
       \E D \in SUBSET OnRing :
         /\ Through(D, av[t]) /\ UnlockedBy(t, D)
         /\ process = "parent" => LockedBy(t, OnRing \ D)
  /\ pc[t] = "unlock_list" => UnlockedBy(t, OnRing)

RoundInv == \A t \in Threads : RoundAt(t)

----------------------------------------------------------------------------
(* The parent: hooks and mark are in place only while a thread forks, who  *)
(* started the allocator or came after the first arena.                    *)
ParentInv ==
  /\ \A t \in Threads : pc[t] # "gone"
  /\ \A h \in Hooks : /\ saved[h] # "atfork"
                      /\ hook[h] = "atfork" =>
                           \E t \in Threads : pc[t] \in {"fork_tsd", "fork", "unlock_tsd",
                                                        "unlock_hooks"}
  /\ hook["realloc"] # "atfork" /\ hook["memalign"] # "atfork"
  /\ \A s \in Slots : tsd[s] = Atfork =>
       \E t \in Threads : pc[t] \in {"fork", "unlock_tsd"} /\ SlotOf[t] = s
  /\ save_arena # Atfork
  /\ \A t \in Threads :
       /\ pc[t] \in {"fork", "unlock_tsd"} => tsd[SlotOf[t]] = Atfork
       /\ pc[t] \in ForkLabels => t \in Early \/ heaps # {}
       /\ pc[t] = "chunk_arena" => heaps # {} /\ op[t] = "free"

(* The child: one thread is left.  No lock of the ring or of the list is   *)
(* one of a thread that is gone, and no next pointer leads to nothing.     *)
ChildInv ==
  /\ \A t, u \in Threads : pc[t] # "gone" /\ pc[u] # "gone" => t = u
  /\ initialized = 1
  /\ \A l \in OnRing \cup {"list"} : mutex[l] # Null => pc[mutex[l]] # "gone"
  /\ NeverEnds
  /\ \A t \in Threads :
       /\ pc[t] \notin {"claim"} \cup InitLabels
       /\ pc[t] \in BirthLabels \cup LinkLabels => av[t] \in Dynamic
       /\ pc[t] \in LinkLabels => mutex[av[t]] = t
       /\ pc[t] = "link_main" => next[av[t]] = next[Main]

(* Holds in every state of an orderly program that forks.  The invariants  *)
(* of Arena are meant of the parent; of the child only what its one thread *)
(* can come to depend on is left (ptmalloc_lock_all, ptmalloc_unlock_all,  *)
(* ptmalloc_unlock_all2, malloc_atfork, free_atfork).                      *)
ForkInductive ==
  /\ ForkTypeInv /\ OneForks /\ ListHeld /\ RoundInv
  /\ process = "parent" => /\ ParentInv /\ Plain!Inductive /\ Plain!ListInv
                           /\ Plain!ChainLinks /\ Plain!RingLinks
  /\ process = "child" => ChildInv

(* If malloc does not fail, a thread holds the lock of a created arena     *)
(* while it works in that arena or goes round the ring, and the list lock  *)
(* while it links, waits or forks; who works without a lock holds none.    *)
Starting == {"starter_malloc", "starter_free"}

HolderAt(t) ==
  /\ mutex["list"] = t =>
       pc[t] \in {"drop_list", "link_next", "link_main", "list_unlock", "leave_list"}
                \cup (ForkLabels \ {"fork_list"})
  /\ \A a \in Dynamic : mutex[a] = t =>
       \/ pc[t] \in ForkLabels \ {"fork_list"} /\ a \in OnRing
       \/ /\ av[t] = a /\ pc[t] \in {"got"} \cup LinkLabels \cup EngineLabels
          /\ op[t] \notin Starting
  /\ op[t] \in Starting => pc[t] \in {"got"} \cup EngineLabels
  /\ op[t] = "free" => pc[t] = "unlock" \/ blk[t] # Null
  /\ pc[t] = "chunk_arena" => blk[t] # Null
  /\ Ops \cap {"malloc", "calloc", "realloc", "small_memalign"} = {} =>
       op[t] \notin {"malloc", "calloc", "realloc", "small_memalign"}

ForkHolder == \A t \in Threads : pc[t] # "gone" => HolderAt(t)
=============================================================================
