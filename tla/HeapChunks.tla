----------------------------- MODULE HeapChunks -----------------------------
(***************************************************************************)
(* The chunk engine of one arena of ptmalloc2: _int_malloc, _int_free,     *)
(* _int_realloc, _int_memalign and calloc's clearing, with the heaps the   *)
(* arena lives in.  The arena's lock is held throughout a call (module     *)
(* Arena), so one call runs at a time; a step here is one iteration of a   *)
(* loop or one straight piece of code between two of them.                 *)
(*                                                                         *)
(* Addresses and sizes are counted in units of MALLOC_ALIGNMENT (two       *)
(* size_t words).  A chunk at address a has its size in the second word of *)
(* unit a; the first word of unit a is the footer of the chunk in front    *)
(* when that one is free, and part of its user memory when it is not.      *)
(*                                                                         *)
(* A definition marked Fault is the one after it with a mistake the code   *)
(* does not make; nothing uses it.                                         *)
(***************************************************************************)
EXTENDS Integers, Sequences, FiniteSets, SequencesExt

CONSTANTS
  Slots,         \* pointers the program keeps, 1..n
  Requests,      \* padded sizes it asks for (request2size)
  Alignments,    \* alignments it asks of memalign
  MinSize,       \* MINSIZE
  MaxFast,       \* av->max_fast
  MinLarge,      \* MIN_LARGE_SIZE
  BinWidth,      \* sizes that share a large bin
  ConsolidateAt, \* FASTBIN_CONSOLIDATION_THRESHOLD
  Page, HeapMin, HeapMax, TopPad,
  HeapInfo,      \* sizeof(heap_info)
  ArenaState,    \* sizeof(struct malloc_state), in the first heap
  Heaps,         \* bound: 1..n, the heaps the system can map
  MaxCalls,      \* bound: calls the program makes
  MayRefuse      \* mprotect and mmap may fail before that

ASSUME HeapAssumption ==
  /\ {MinSize, MaxFast, MinLarge, BinWidth, ConsolidateAt, Page, HeapMin, HeapMax,
      HeapInfo, ArenaState} \subseteq Nat \ {0}
  /\ Slots = 1..Cardinality(Slots)
  /\ TopPad \in Nat /\ MinSize > 1 /\ MaxFast < MinLarge
  /\ MinSize <= MinLarge /\ MinLarge <= HeapMax
  /\ Requests \subseteq Nat /\ \A n \in Requests : n >= MinSize
  /\ Alignments \subseteq Nat /\ \A n \in Alignments : n >= MinSize
  /\ Heaps = 1..Cardinality(Heaps) /\ 1 \in Heaps /\ MayRefuse \in BOOLEAN /\ MaxCalls \in Nat
  /\ HeapMin % Page = 0 /\ HeapMax % Page = 0 /\ HeapMin <= HeapMax
  /\ \A n \in Requests : n + HeapInfo + ArenaState + MinSize <= HeapMax

VARIABLES
  head,          \* boundary tags: the chunk headers memory holds now
  fast,          \* av->fastbins, by size
  haveFast,      \* have_fastchunks(av)
  bins,          \* av->bins; bin 1 holds the unsorted chunks
  marked,        \* av->binmap
  top,           \* av->top
  lastRemainder, \* av->last_remainder, or 0
  heapSize,      \* heap->size, 0 before the heap is mapped
  chain,         \* heaps of the arena, from the oldest (heap->prev)
  systemMem,     \* av->system_mem
  block,         \* what the program holds in each slot: address and size
  data,          \* words that hold what the program stored (history)
  fresh,         \* words mapped in this call and never written (history)
  calls,         \* calls made
  refused,       \* the system refused memory in this call, or new_heap a
                 \* size above HEAP_MAX (history)
  call,          \* the call in progress
  pc,
  want,          \* nb of _int_malloc
  idx,           \* the next bin to look at
  p,             \* the chunk _int_free works on
  result,        \* the chunk the call will return
  after,         \* where _int_free goes on
  resume         \* where malloc_consolidate goes on

lists   == <<fast, haveFast, bins, marked, lastRemainder>>
heaps   == <<heapSize, chain, systemMem>>
program == <<block, calls, refused, call>>
memory  == <<data, fresh>>
locals  == <<want, idx, p, result, after, resume>>
vars    == <<head, lists, top, heaps, program, memory, pc, locals>>

Ops      == {"none", "malloc", "calloc", "memalign", "realloc", "free"}
Nothing  == [at |-> 0, n |-> 0]
NoCall   == [op |-> "none", slot |-> 0, n |-> 0, align |-> 0, oldTop |-> 0, oldTopSize |-> 0]
Unsorted == 1

(* Words of memory. *)
PrevWord(a)     == 2 * a
SizeWord(a)     == 2 * a + 1
LinkWords(a)    == {2 * a + 2, 2 * a + 3}            \* fd and bk of a free chunk
UserWords(a, n) == (2 * a + 2) .. (2 * a + 2 * n)    \* up to the next chunk's size

(* Heaps: aligned to HeapMax, so that an address tells its heap. *)
Base(h)     == h * HeapMax
HeapOf(a)   == a \div HeapMax                        \* heap_for_ptr
HeapEnd(h)  == Base(h) + heapSize[h]
EndRoom     == MinSize - 1       \* from the last header of a heap given up to its end
Pages(n)    == ((n + Page - 1) \div Page) * Page
Words(h)    == (2 * Base(h)) .. (2 * HeapEnd(h) - 1)
MappedWords == UNION {Words(h) : h \in Heaps}
(* The size new_heap gives a heap for a request; none if it is above HeapMax. *)
HeapFits(n) == n + TopPad < HeapMin \/ n <= HeapMax
NewHeapSize(n) ==
  Pages(CASE n + TopPad < HeapMin  -> HeapMin
          [] n + TopPad \in HeapMin..HeapMax -> n + TopPad
          [] OTHER -> HeapMax)

Small(n) == n < MinLarge                             \* in_smallbin_range
(* bin_index: a bin per small size, then bins for ranges of sizes, of which *)
(* the last has no upper end.  (The ranges of the code grow with the size.) *)
LargeBin(n) == MinLarge + (n - MinLarge) \div BinWidth
LastBin     == LargeBin(HeapMax)
BinOf(n)    == IF Small(n) THEN n ELSE IF n <= HeapMax THEN LargeBin(n) ELSE LastBin
BinIds      == {Unsorted} \cup (MinSize .. LastBin)

(* Boundary tags.  Tags of chunks that no longer exist are forgotten: code  *)
(* that read one would read it outside the domain of head.                 *)
Size(a)  == head[a].size
NextChunk(a) == a + head[a].size
Inuse(a) == head[NextChunk(a)].pinuse
SetHead(h, a, size, pinuse, nonMain) ==
  [x \in DOMAIN h \cup {a} |->
     IF x = a THEN [size |-> size, pinuse |-> pinuse, nonMain |-> nonMain,
                    prev |-> IF a \in DOMAIN h THEN h[a].prev ELSE 0]
     ELSE h[x]]
SetHeadSize(h, a, size) == [h EXCEPT ![a].size = size, ![a].nonMain = TRUE]
SetFoot(h, a, size)     == [h EXCEPT ![a + size].prev = size]
ClearInuse(h, a)        == [h EXCEPT ![a].pinuse = FALSE]
(* The footer word belongs to the user once the chunk in front is in use. *)
SetInuse(h, a)          == [h EXCEPT ![a].pinuse = TRUE, ![a].prev = 0]
Forget(h, S)            == [x \in DOMAIN h \ S |-> h[x]]

Without(s, a) ==
  IF a \in Range(s) THEN RemoveAt(s, CHOOSE k \in DOMAIN s : s[k] = a) ELSE s
Unlink(a) == [i \in BinIds |-> Without(bins[i], a)]

HeapTypeOK ==
  /\ DOMAIN head \subseteq Nat
  /\ head \in [DOMAIN head -> [size : Nat, pinuse : BOOLEAN, nonMain : BOOLEAN, prev : Nat]]
  /\ fast \in [MinSize..MaxFast -> Seq(Nat)] /\ haveFast \in BOOLEAN
  /\ bins \in [BinIds -> Seq(Nat)] /\ marked \subseteq BinIds
  /\ top \in Nat /\ lastRemainder \in Nat
  /\ heapSize \in [Heaps -> 0..HeapMax] /\ chain \in Seq(Heaps) /\ systemMem \in Nat
  /\ block \in [Slots -> [at : Nat, n : Nat]] /\ data \in [Slots -> SUBSET Nat]
  /\ fresh \subseteq Nat /\ calls \in Nat /\ refused \in BOOLEAN
  /\ call.op \in Ops /\ call.n \in Nat /\ call.align \in Nat
  /\ want \in Nat /\ idx \in Nat /\ p \in Nat /\ result \in Nat
  /\ pc \in {"idle", "malloc", "unsorted", "fit", "scan", "top", "system", "finish", "got",
             "free", "consolidate", "trim", "realloc", "tail", "return", "fail"}
  /\ after \in {"return", "finish", "tail"} /\ resume \in {"unsorted", "trim"}

(***************************************************************************)
(* The program calls.                                                      *)
(***************************************************************************)
Starts(op, s, n, align, nb, label) ==
  /\ pc = "idle" /\ calls < MaxCalls
  /\ pc' = label /\ calls' = calls + 1
  /\ call' = [op |-> op, slot |-> s, n |-> n, align |-> align,
              oldTop |-> top, oldTopSize |-> Size(top)]
  /\ want' = nb
  /\ UNCHANGED <<head, lists, top, heaps, fresh, refused, idx, result, after, resume>>

(* Slots are alike: a new block goes to the first that is empty. *)
Empty(s) == block[s] = Nothing /\ \A t \in Slots : t < s => block[t] # Nothing
Malloc(s, n) ==
  /\ Empty(s) /\ Starts("malloc", s, n, 0, n, "malloc") /\ UNCHANGED <<block, data, p>>
(* calloc remembers the top chunk of before the allocation. *)
Calloc(s, n) ==
  /\ Empty(s) /\ Starts("calloc", s, n, 0, n, "malloc") /\ UNCHANGED <<block, data, p>>
(* The padding itself is padded once more by _int_malloc. *)
Memalign(s, n, align) ==
  /\ Empty(s)
  /\ Starts("memalign", s, n, align, n + align + MinSize + 1, "malloc")
  /\ UNCHANGED <<block, data, p>>
Realloc(s, n) ==
  /\ block[s] # Nothing /\ Starts("realloc", s, n, 0, n, "realloc") /\ UNCHANGED <<block, data, p>>
Free(s) ==
  /\ block[s] # Nothing /\ Starts("free", s, 0, 0, 0, "free")
  /\ p' = block[s].at
  /\ block' = [block EXCEPT ![s] = Nothing] /\ data' = [data EXCEPT ![s] = {}]

Calls ==
  \E s \in Slots :
    \/ \E n \in Requests :
         Malloc(s, n) \/ Calloc(s, n) \/ Realloc(s, n) \/ \E a \in Alignments : Memalign(s, n, a)
    \/ Free(s)

(***************************************************************************)
(* _int_malloc.                                                            *)
(***************************************************************************)
Goto(label) == pc' = label /\ UNCHANGED <<want, idx, p, result, after, resume>>
Found(v)    == result' = v /\ pc' = "got" /\ UNCHANGED <<want, idx, p, after, resume>>

FastHit  == want <= MaxFast /\ fast[want] # <<>>
SmallHit == Small(want) /\ bins[BinOf(want)] # <<>>

TakeFast ==
  /\ pc = "malloc" /\ FastHit
  /\ fast' = [fast EXCEPT ![want] = Tail(@)]
  /\ Found(Head(fast[want]))
  /\ UNCHANGED <<head, haveFast, bins, marked, lastRemainder, top, heaps, program>>

(* All of the free chunk v is given out. *)
HandOut(v) == [SetInuse(head, NextChunk(v)) EXCEPT ![v].nonMain = TRUE]
(* The first n units of v are given out, the rest stays a free chunk. *)
SplitNoFootFault(v, n) ==
  SetHead(SetHead(head, v, n, TRUE, TRUE), v + n, Size(v) - n, TRUE, FALSE)
SplitFree(v, n) ==
  LET rest == Size(v) - n IN
  SetFoot(SetHead(SetHead(head, v, n, TRUE, TRUE), v + n, rest, TRUE, FALSE), v + n, rest)

TakeSmall ==
  /\ pc = "malloc" /\ ~FastHit /\ SmallHit
  /\ LET v == Last(bins[BinOf(want)]) IN
     head' = HandOut(v) /\ bins' = Unlink(v) /\ Found(v)
  /\ UNCHANGED <<fast, haveFast, marked, lastRemainder, top, heaps, program>>

LazyConsolidationFault ==
  /\ pc = "malloc" /\ ~FastHit /\ ~SmallHit
  /\ Goto("unsorted") /\ UNCHANGED <<head, lists, top, heaps, program>>
(* A large request first merges the chunks in fastbins. *)
NoQuickHit ==
  /\ pc = "malloc" /\ ~FastHit /\ ~SmallHit
  /\ IF ~Small(want) /\ haveFast
     THEN pc' = "consolidate" /\ haveFast' = FALSE /\ resume' = "unsorted"
     ELSE pc' = "unsorted" /\ UNCHANGED <<haveFast, resume>>
  /\ UNCHANGED <<head, fast, bins, marked, lastRemainder, top, heaps, program,
                 want, idx, p, result, after>>

Oldest == Last(bins[Unsorted])
OnlyRemainder ==
  /\ Small(want) /\ Len(bins[Unsorted]) = 1 /\ Oldest = lastRemainder
  /\ Size(Oldest) > want + MinSize

SplitRemainder ==
  /\ pc = "unsorted" /\ bins[Unsorted] # <<>> /\ OnlyRemainder
  /\ head' = SplitFree(Oldest, want)
  /\ bins' = [bins EXCEPT ![Unsorted] = <<Oldest + want>>]
  /\ lastRemainder' = Oldest + want
  /\ Found(Oldest)
  /\ UNCHANGED <<fast, haveFast, marked, top, heaps, program>>

TakeExact ==
  /\ pc = "unsorted" /\ bins[Unsorted] # <<>> /\ ~OnlyRemainder
  /\ Size(Oldest) = want
  /\ head' = HandOut(Oldest) /\ bins' = Unlink(Oldest) /\ Found(Oldest)
  /\ UNCHANGED <<fast, haveFast, marked, lastRemainder, top, heaps, program>>

(* Small bins are queues; large bins are kept from the largest to the      *)
(* smallest, a chunk in front of those of its own size, or behind them     *)
(* when they are the smallest: their size word has PREV_INUSE, the size it *)
(* is compared with has not.                                               *)
Placed(v, bin) ==
  IF Small(Size(v)) \/ bin = <<>> THEN <<v>> \o bin
  ELSE IF Size(v) <= Size(Last(bin)) THEN Append(bin, v)
  ELSE LET fwd == CHOOSE i \in DOMAIN bin :
                    Size(bin[i]) <= Size(v) /\ \A j \in 1..(i - 1) : Size(bin[j]) > Size(v)
       IN InsertAt(bin, fwd, v)

UnmarkedFault ==
  /\ pc = "unsorted" /\ bins[Unsorted] # <<>> /\ ~OnlyRemainder
  /\ Size(Oldest) # want
  /\ bins' = [Unlink(Oldest) EXCEPT ![BinOf(Size(Oldest))] = Placed(Oldest, @)]
  /\ UNCHANGED <<head, fast, haveFast, marked, lastRemainder, top, heaps, program, pc, locals>>
PlaceInBin ==
  /\ pc = "unsorted" /\ bins[Unsorted] # <<>> /\ ~OnlyRemainder
  /\ Size(Oldest) # want
  /\ LET b == BinOf(Size(Oldest)) IN
     /\ bins' = [Unlink(Oldest) EXCEPT ![b] = Placed(Oldest, @)]
     /\ marked' = marked \cup {b}
  /\ UNCHANGED <<head, fast, haveFast, lastRemainder, top, heaps, program, pc, locals>>

AllPlaced ==
  /\ pc = "unsorted" /\ bins[Unsorted] = <<>>
  /\ pc' = IF Small(want) THEN "scan" ELSE "fit"
  /\ idx' = BinOf(want) + 1
  /\ UNCHANGED <<head, lists, top, heaps, program, want, p, result, after, resume>>

RestLostFault(v) ==
  /\ head' = IF Size(v) - want < MinSize THEN HandOut(v) ELSE SplitFree(v, want)
  /\ bins' = Unlink(v)
(* Chunk v of a bin: all of it, or what was asked for, with the rest as    *)
(* the only unsorted chunk.                                                *)
TakeBinned(v) ==
  IF Size(v) - want < MinSize
  THEN head' = HandOut(v) /\ bins' = Unlink(v)
  ELSE head' = SplitFree(v, want) /\ bins' = [Unlink(v) EXCEPT ![Unsorted] = <<v + want>>]

(* A large request looks in its own bin, smallest chunk first. *)
FitOwnBin ==
  /\ pc = "fit"
  /\ LET bin  == bins[BinOf(want)]
         fits == {i \in DOMAIN bin : Size(bin[i]) >= want}
     IN IF fits = {} THEN Goto("scan") /\ UNCHANGED <<head, bins>>
        ELSE LET v == bin[CHOOSE i \in fits : \A j \in fits : j <= i]
             IN TakeBinned(v) /\ Found(v)
  /\ UNCHANGED <<fast, haveFast, marked, lastRemainder, top, heaps, program>>

(* Then the bins above, as far as the bitmap shows them. *)
NextBin == CHOOSE i \in marked : i >= idx /\ \A j \in marked : j >= idx => i <= j
ScanTake ==
  /\ pc = "scan" /\ \E i \in marked : i >= idx
  /\ bins[NextBin] # <<>>
  /\ LET v == Last(bins[NextBin]) IN
     /\ TakeBinned(v) /\ Found(v)
     /\ lastRemainder' = IF Small(want) /\ Size(v) - want >= MinSize THEN v + want
                         ELSE lastRemainder
  /\ UNCHANGED <<fast, haveFast, marked, top, heaps, program>>
ScanMiss ==
  /\ pc = "scan" /\ \E i \in marked : i >= idx
  /\ bins[NextBin] = <<>>
  /\ marked' = marked \ {NextBin} /\ idx' = NextBin + 1
  /\ UNCHANGED <<head, fast, haveFast, bins, lastRemainder, top, heaps, program,
                 pc, want, p, result, after, resume>>
ScanOver ==
  /\ pc = "scan" /\ ~\E i \in marked : i >= idx
  /\ Goto("top") /\ UNCHANGED <<head, lists, top, heaps, program>>

(* The end of memory; sYSMALLOc ends with the same lines. *)
TopFits == Size(top) >= want + MinSize
SplitTop ==
  /\ pc \in {"top", "finish"} /\ TopFits
  /\ head' = SetHead(SetHead(head, top, want, TRUE, TRUE),
                     top + want, Size(top) - want, TRUE, FALSE)
  /\ top' = top + want
  /\ Found(top)
  /\ UNCHANGED <<lists, heaps, program>>
NoMemory ==
  /\ pc = "finish" /\ ~TopFits
  /\ Goto("fail") /\ UNCHANGED <<head, lists, top, heaps, program>>

FlagKeptFault ==
  /\ pc = "top" /\ ~TopFits /\ haveFast
  /\ pc' = "consolidate" /\ resume' = "unsorted"
  /\ UNCHANGED <<head, lists, top, heaps, program, want, idx, p, result, after>>
ConsolidateAndRetry ==
  /\ pc = "top" /\ ~TopFits /\ haveFast
  /\ haveFast' = FALSE /\ pc' = "consolidate" /\ resume' = "unsorted"
  /\ UNCHANGED <<head, fast, bins, marked, lastRemainder, top, heaps, program,
                 want, idx, p, result, after>>
AskSystem ==
  /\ pc = "top" /\ ~TopFits /\ ~haveFast
  /\ Goto("system") /\ UNCHANGED <<head, lists, top, heaps, program>>

(***************************************************************************)
(* sYSMALLOc, for an arena other than main_arena.                          *)
(***************************************************************************)
Diff     == Pages(MinSize + want - Size(top))
CanGrow  == heapSize[HeapOf(top)] + Diff <= HeapMax
Unmapped == {h \in Heaps : heapSize[h] = 0}
NewNeed  == want + MinSize + HeapInfo
CanMap   == Unmapped # {} /\ HeapFits(NewNeed)

GrowHeap ==
  /\ pc = "system" /\ CanGrow
  /\ heapSize' = [heapSize EXCEPT ![HeapOf(top)] = @ + Diff]
  /\ systemMem' = systemMem + Diff
  /\ head' = SetHead(head, top, HeapEnd(HeapOf(top)) + Diff - top, TRUE, FALSE)
  /\ Goto("finish")
  /\ UNCHANGED <<lists, top, chain, program>>

(* The rest of the old heap is freed, up to fenceposts that are never      *)
(* merged: a chunk of size 1 (or the small rest itself) with a footer, and *)
(* a header of size 0.                                                     *)
NewHeap ==
  /\ pc = "system" /\ (CanGrow => MayRefuse) /\ CanMap
  /\ \E k \in Unmapped :
     LET size == NewHeapSize(NewNeed)
         rest == Size(top) - MinSize
         ends == SetHead(SetHead(head, Base(k) + HeapInfo, size - HeapInfo, TRUE, FALSE),
                         top + rest + 1, 0, TRUE, FALSE)
     IN /\ heapSize' = [heapSize EXCEPT ![k] = size]
        /\ chain' = Append(chain, k) /\ systemMem' = systemMem + size
        /\ top' = Base(k) + HeapInfo
        /\ IF rest >= MinSize
           THEN /\ head' = SetHead(SetFoot(SetHead(ends, top + rest, 1, TRUE, FALSE), top + rest, 1),
                                   top, rest, TRUE, TRUE)
                /\ p' = top /\ pc' = "free" /\ after' = "finish"
           ELSE /\ head' = SetFoot(SetHead(ends, top, rest + 1, TRUE, FALSE), top, rest + 1)
                /\ pc' = "finish" /\ UNCHANGED <<p, after>>
  /\ refused' = CanGrow
  /\ UNCHANGED <<lists, block, calls, call, want, idx, result, resume>>

SystemRefuses ==
  /\ pc = "system" /\ (CanGrow \/ CanMap => MayRefuse)
  /\ refused' = TRUE /\ pc' = "finish"
  /\ UNCHANGED <<head, lists, top, heaps, block, calls, call, want, idx, p, result, after, resume>>

(***************************************************************************)
(* _int_free and malloc_consolidate.                                       *)
(***************************************************************************)
FreeFast ==
  /\ pc = "free" /\ Size(p) <= MaxFast
  /\ fast' = [fast EXCEPT ![Size(p)] = <<p>> \o @] /\ haveFast' = TRUE
  /\ pc' = after /\ after' = "return"
  /\ UNCHANGED <<head, bins, marked, lastRemainder, top, heaps, program,
                 want, idx, p, result, resume>>

(* Chunk a stops being in use: merged with the free chunks around it it    *)
(* becomes an unsorted chunk or part of the top chunk.                     *)
Start(a)  == IF head[a].pinuse THEN a ELSE a - head[a].prev
AtTop(a)  == NextChunk(a) = top
Joins(a)  == AtTop(a) \/ ~Inuse(NextChunk(a))             \* the next chunk
BackwardUncountedFault(a) == Size(a) + (IF Joins(a) THEN Size(NextChunk(a)) ELSE 0)
Merged(a) == (NextChunk(a) - Start(a)) + (IF Joins(a) THEN Size(NextChunk(a)) ELSE 0)
Release(a) ==
  LET s     == Start(a)
      gone  == ({a} \cup IF Joins(a) THEN {NextChunk(a)} ELSE {}) \ {s}
      whole == SetHead(Forget(head, gone), s, Merged(a), TRUE, FALSE)
      free  == [i \in BinIds |->
                  IF Joins(a) THEN Without(Without(bins[i], s), NextChunk(a))
                  ELSE Without(bins[i], s)]
  IN IF AtTop(a)
     THEN head' = whole /\ top' = s /\ bins' = free
     ELSE /\ head' = SetFoot(IF Joins(a) THEN whole ELSE ClearInuse(whole, NextChunk(a)), s, Merged(a))
          /\ bins' = [free EXCEPT ![Unsorted] = <<s>> \o @]
          /\ top' = top

FreeMerge ==
  /\ pc = "free" /\ Size(p) > MaxFast
  /\ Release(p)
  /\ IF Merged(p) < ConsolidateAt
     THEN pc' = after /\ after' = "return" /\ UNCHANGED <<haveFast, resume>>
     ELSE /\ haveFast' = FALSE /\ resume' = "trim"
          /\ pc' = IF haveFast THEN "consolidate" ELSE "trim"
          /\ UNCHANGED after
  /\ UNCHANGED <<fast, marked, lastRemainder, heaps, program, want, idx, p, result>>

ConsolidateOne ==
  /\ pc = "consolidate"
  /\ \E n \in DOMAIN fast :
       /\ fast[n] # <<>> /\ \A m \in DOMAIN fast : m < n => fast[m] = <<>>
       /\ Release(Head(fast[n]))
       /\ fast' = [fast EXCEPT ![n] = Tail(@)]
  /\ UNCHANGED <<haveFast, marked, lastRemainder, heaps, program, pc, locals>>
ConsolidateEnd ==
  /\ pc = "consolidate" /\ \A n \in DOMAIN fast : fast[n] = <<>>
  /\ pc' = resume /\ resume' = "unsorted"
  /\ UNCHANGED <<head, lists, top, heaps, program, want, idx, p, result, after>>

(***************************************************************************)
(* heap_trim.  A heap that holds nothing but the top chunk is dropped and  *)
(* never used again (delete_heap is commented out); the end of the heap    *)
(* before it becomes top, fenceposts and all.                              *)
(***************************************************************************)
Previous == chain[Len(chain) - 1]
Sentinel == HeapEnd(Previous) - EndRoom
Fence    == Sentinel - head[Sentinel].prev            \* prev_chunk
Ending   == Size(Fence) + EndRoom + (IF head[Fence].pinuse THEN 0 ELSE head[Fence].prev)
HeapEmpty == top = Base(HeapOf(top)) + HeapInfo
NoPadFault == HeapEmpty /\ Ending + (HeapMax - heapSize[Previous]) >= MinSize + Page
WorthDropping ==
  HeapEmpty /\ Ending + (HeapMax - heapSize[Previous]) >= TopPad + MinSize + Page

DropHeap ==
  /\ pc = "trim" /\ WorthDropping
  /\ LET h == HeapOf(top)
         s == Start(Fence)
     IN /\ head' = SetHead(Forget(head, {Fence, Sentinel} \cup {a \in DOMAIN head : HeapOf(a) = h}),
                           s, Ending, TRUE, FALSE)
        /\ bins' = IF s = Fence THEN bins ELSE Unlink(s)
        /\ top' = s
        /\ chain' = Front(chain) /\ systemMem' = systemMem - heapSize[h]
  /\ UNCHANGED <<fast, haveFast, marked, lastRemainder, heapSize, program, pc, locals>>

(* Whole pages at the end, but for the padding, go back to the system. *)
Extra == ((Size(top) - TopPad - MinSize + Page - 1) \div Page - 1) * Page
Shrink ==
  /\ pc = "trim" /\ ~WorthDropping
  /\ Extra >= Page /\ heapSize[HeapOf(top)] - Extra >= HeapInfo
  /\ heapSize' = [heapSize EXCEPT ![HeapOf(top)] = @ - Extra]
  /\ systemMem' = systemMem - Extra
  /\ head' = SetHead(head, top, Size(top) - Extra, TRUE, FALSE)
  /\ pc' = after /\ after' = "return"
  /\ UNCHANGED <<lists, top, chain, program, want, idx, p, result, resume>>
NoShrink ==
  /\ pc = "trim" /\ ~WorthDropping
  /\ (Extra >= Page /\ heapSize[HeapOf(top)] - Extra >= HeapInfo) => MayRefuse
  /\ pc' = after /\ after' = "return"
  /\ UNCHANGED <<head, lists, top, heaps, program, want, idx, p, result, resume>>

(***************************************************************************)
(* _int_realloc.                                                           *)
(***************************************************************************)
Old == block[call.slot].at
NextFree == NextChunk(Old) # top /\ ~Inuse(NextChunk(Old))
IntoTop  == NextChunk(Old) = top /\ Size(Old) + Size(top) >= want + MinSize
AnySizeFault == NextFree
IntoNext == NextFree /\ Size(Old) + Size(NextChunk(Old)) >= want
Moves    == Size(Old) < want /\ ~IntoTop /\ ~IntoNext

(* The block at Old now has size units; what it does not need is freed.    *)
SplitOld(h, size) ==
  /\ head' = SetInuse(SetHead(SetHeadSize(h, Old, want), Old + want, size - want, TRUE, TRUE),
                      Old + size)
  /\ result' = Old /\ p' = Old + want /\ pc' = "free" /\ after' = "return"
KeepOrSplit(h, size) ==
  IF size - want >= MinSize THEN SplitOld(h, size)
  ELSE /\ head' = SetInuse(SetHeadSize(h, Old, size), Old + size)
       /\ result' = Old /\ pc' = "return" /\ UNCHANGED <<p, after>>

ReallocInPlace ==
  /\ pc = "realloc" /\ Size(Old) >= want
  /\ KeepOrSplit(head, Size(Old))
  /\ UNCHANGED <<lists, top, heaps, program, want, idx, resume>>
ReallocIntoTop ==
  /\ pc = "realloc" /\ Size(Old) < want /\ IntoTop
  /\ head' = SetHead(SetHeadSize(Forget(head, {top}), Old, want),
                     Old + want, Size(Old) + Size(top) - want, TRUE, FALSE)
  /\ top' = Old + want
  /\ result' = Old /\ pc' = "return"
  /\ UNCHANGED <<lists, heaps, program, want, idx, p, after, resume>>
ReallocIntoNext ==
  /\ pc = "realloc" /\ Size(Old) < want /\ IntoNext
  /\ bins' = Unlink(NextChunk(Old))
  /\ KeepOrSplit(Forget(head, {NextChunk(Old)}), Size(Old) + Size(NextChunk(Old)))
  /\ UNCHANGED <<fast, haveFast, marked, lastRemainder, top, heaps, program, want, idx, resume>>
ReallocMove ==
  /\ pc = "realloc" /\ Moves
  /\ Goto("malloc") /\ UNCHANGED <<head, lists, top, heaps, program>>

(* The chunk malloc found is the one after the block: nothing to copy, and *)
(* as much as the old chunk to spare.                                      *)
ReallocJoin ==
  /\ pc = "got" /\ call.op = "realloc" /\ result = NextChunk(Old)
  /\ SplitOld(Forget(head, {result}), Size(Old) + Size(result))
  /\ UNCHANGED <<lists, top, heaps, program, want, idx, resume>>
(* The whole old chunk is copied, then freed. *)
ReallocCopy ==
  /\ pc = "got" /\ call.op = "realloc" /\ result # NextChunk(Old)
  /\ LET shift == 2 * (result - Old)
         moved == {w + shift : w \in data[call.slot] \cap UserWords(Old, Size(Old))}
     IN data' = [s \in Slots |-> IF s = call.slot THEN moved
                                 ELSE data[s] \ UserWords(result, Size(Old))]
  /\ block' = [block EXCEPT ![call.slot].at = result]
  /\ p' = Old /\ pc' = "free" /\ after' = "return"
  /\ UNCHANGED <<head, lists, top, heaps, fresh, calls, refused, call, want, idx, result, resume>>

(***************************************************************************)
(* _int_memalign.                                                          *)
(***************************************************************************)
RoundUp(n, a) == ((n + a - 1) \div a) * a
AlignedSpot(v, a) ==
  LET spot == RoundUp(v + 1, a) - 1 IN IF spot - v < MinSize THEN spot + a ELSE spot
MemalignCut ==
  /\ pc = "got" /\ call.op = "memalign"
  /\ IF (result + 1) % call.align = 0
     THEN Goto("tail") /\ UNCHANGED head
     ELSE LET spot == AlignedSpot(result, call.align)
              size == NextChunk(result) - spot
          IN /\ head' = SetHeadSize(SetInuse(SetHead(head, spot, size, TRUE, TRUE), spot + size),
                                    result, spot - result)
             /\ p' = result /\ result' = spot /\ pc' = "free" /\ after' = "tail"
             /\ UNCHANGED <<want, idx, resume>>
  /\ UNCHANGED <<lists, top, heaps, program>>
MemalignTail ==
  /\ pc = "tail"
  /\ IF Size(result) > call.n + MinSize
     THEN /\ head' = SetHeadSize(SetHead(head, result + call.n, Size(result) - call.n, TRUE, TRUE),
                                 result, call.n)
          /\ p' = result + call.n /\ pc' = "free" /\ after' = "return"
          /\ UNCHANGED <<want, idx, result, resume>>
     ELSE Goto("return") /\ UNCHANGED head
  /\ UNCHANGED <<lists, top, heaps, program>>

(***************************************************************************)
(* A call returns, and the program fills its block.                        *)
(***************************************************************************)
Finished == pc = "return" \/ (pc = "got" /\ call.op \in {"malloc", "calloc"})
TopIsCleanFault == IF result = call.oldTop THEN {} ELSE UserWords(result, Size(result))
(* calloc spares what was beyond the old top chunk, because it is new. *)
Cleared ==
  UserWords(result, IF result = call.oldTop /\ Size(result) > call.oldTopSize
                    THEN call.oldTopSize ELSE Size(result))
Holds ==
  LET words == UserWords(result, call.n) IN
  CASE call.op = "calloc"  -> words \cap (Cleared \cup fresh)
    [] call.op = "realloc" -> words \cap (data[call.slot]
                                          \cup (words \ UserWords(result, block[call.slot].n)))
    [] OTHER               -> words
Over ==
  /\ fresh' = {} /\ refused' = FALSE /\ call' = NoCall
  /\ pc' = "idle" /\ want' = 0 /\ idx' = 0 /\ p' = 0 /\ result' = 0
  /\ UNCHANGED <<head, lists, top, heaps, calls, after, resume>>
Return ==
  /\ Finished
  /\ IF call.op = "free" THEN UNCHANGED <<block, data>>
     ELSE /\ block' = [block EXCEPT ![call.slot] = [at |-> result, n |-> call.n]]
          /\ data' = [s \in Slots |-> IF s = call.slot THEN Holds
                                      ELSE data[s] \ (UserWords(result, call.n)
                                                      \cup IF call.op = "calloc" THEN Cleared ELSE {})]
  /\ Over
ReturnNull ==
  /\ pc = "fail" /\ UNCHANGED <<block, data>> /\ Over

(***************************************************************************)
(* What the engine writes: the tags that change and the links of the       *)
(* chunks on the lists that change.  Memory that was not mapped is zero.   *)
(***************************************************************************)
Tagged(a)  == a \notin DOMAIN head \/ head'[a] # head[a]
Footed(a)  == head'[a].prev # 0 /\ (a \in DOMAIN head => head'[a].prev # head[a].prev)
Relinked   == UNION ({Range(bins'[i]) : i \in {j \in BinIds : bins'[j] # bins[j]}}
                \cup {Range(fast'[i]) : i \in {j \in DOMAIN fast : fast'[j] # fast[j]}})
Written ==
  {SizeWord(a) : a \in {b \in DOMAIN head' : Tagged(b)}}
    \cup {PrevWord(a) : a \in {b \in DOMAIN head' : Footed(b)}}
    \cup UNION {LinkWords(a) : a \in Relinked}
Stores ==
  /\ data'  = [s \in Slots |-> data[s] \ Written]
  /\ fresh' = (fresh \cup (MappedWords' \ MappedWords)) \ Written

Allocates ==
  \/ TakeFast \/ TakeSmall \/ NoQuickHit \/ SplitRemainder \/ TakeExact \/ PlaceInBin
  \/ AllPlaced \/ FitOwnBin \/ ScanTake \/ ScanMiss \/ ScanOver \/ SplitTop \/ NoMemory
  \/ ConsolidateAndRetry \/ AskSystem \/ GrowHeap \/ NewHeap \/ SystemRefuses
Releases ==
  FreeFast \/ FreeMerge \/ ConsolidateOne \/ ConsolidateEnd \/ DropHeap \/ Shrink \/ NoShrink
Resizes ==
  \/ ReallocInPlace \/ ReallocIntoTop \/ ReallocIntoNext \/ ReallocMove \/ ReallocJoin
  \/ MemalignCut \/ MemalignTail
Engine == (Allocates \/ Releases \/ Resizes) /\ Stores
Work   == Engine \/ ReallocCopy \/ Return \/ ReturnNull

(* _int_new_arena: a heap for the first request, all of it top chunk. *)
HeapInit ==
  /\ \E n \in Requests :
       heapSize = [h \in Heaps |-> IF h = 1 THEN NewHeapSize(n + HeapInfo + ArenaState + 1) ELSE 0]
  /\ chain = <<1>> /\ systemMem = heapSize[1]
  /\ top = Base(1) + HeapInfo + ArenaState
  /\ head = [a \in {top} |-> [size |-> HeapEnd(1) - top, pinuse |-> TRUE,
                              nonMain |-> FALSE, prev |-> 0]]
  /\ fast = [n \in MinSize..MaxFast |-> <<>>] /\ haveFast = FALSE
  /\ bins = [i \in BinIds |-> <<>>] /\ marked = {} /\ lastRemainder = 0
  /\ block = [s \in Slots |-> Nothing] /\ data = [s \in Slots |-> {}]
  /\ fresh = {} /\ calls = 0 /\ refused = FALSE /\ call = NoCall
  /\ pc = "idle" /\ want = 0 /\ idx = 0 /\ p = 0 /\ result = 0
  /\ after = "return" /\ resume = "unsorted"

HeapNext == Calls \/ Work
HeapSpec == HeapInit /\ [][HeapNext]_vars
(* The thread that runs the engine is scheduled. *)
FairHeapSpec == HeapSpec /\ WF_vars(Work)
(***************************************************************************)
(* Properties.                                                             *)
(***************************************************************************)
LiveSlots      == {s \in Slots : block[s] # Nothing}
FirstChunk(h)  == Base(h) + HeapInfo + (IF h = chain[1] THEN ArenaState ELSE 0)
Current        == chain[Len(chain)]
Ends           == {HeapEnd(h) - EndRoom : h \in Range(chain) \ {Current}}  \* headers of size 0
Fences         == {a \in DOMAIN head \ (Ends \cup {top}) : NextChunk(a) \in Ends}
Ordinary       == DOMAIN head \ (Ends \cup Fences \cup {top})

(* The chunks of a heap lie side by side from its first byte to its end,    *)
(* where the current heap has the top chunk and an older one its fencepost; *)
(* nothing is left of a heap that was dropped, and av->system_mem counts    *)
(* the others.  A header written at a wrong offset, or a merge that counts *)
(* a neighbour wrongly, breaks this.                                       *)
ChunksTile ==
  /\ \A h \in Range(chain) : FirstChunk(h) \in DOMAIN head
  /\ HeapOf(top) = Current /\ NextChunk(top) = HeapEnd(Current)
  /\ \A a \in DOMAIN head : HeapOf(a) \in Range(chain)
  /\ \A a \in DOMAIN head \ (Ends \cup {top}) :
       /\ Size(a) > 0 /\ NextChunk(a) \in DOMAIN head /\ HeapOf(NextChunk(a)) = HeapOf(a)
       /\ \A b \in DOMAIN head : b <= a \/ b >= NextChunk(a)
  /\ \A a \in Ends : a \in DOMAIN head /\ Size(a) = 0
  /\ systemMem = SumFunctionOnSet(heapSize, Range(chain))
HeapShape == HeapTypeOK /\ ChunksTile

(* Every chunk is in one place: in one bin, in one fastbin, in one slot of  *)
(* the program or in the hands of the running call; and these hold nothing  *)
(* else.  No memory is lost and none is given out twice.                   *)
Binned == UNION {Range(bins[i]) : i \in BinIds}
Fasted == UNION {Range(fast[n]) : n \in DOMAIN fast}
Held   == {block[s].at : s \in LiveSlots}
InHand == ({result} \ (Held \cup {0})) \cup (IF pc = "free" THEN {p} ELSE {})
EveryChunkInOnePlace ==
  /\ Ordinary = Binned \cup Fasted \cup Held \cup InHand
  /\ Binned \cap (Fasted \cup Held \cup InHand) = {}
  /\ Fasted \cap (Held \cup InHand) = {} /\ Held \cap InHand = {}
  /\ \A i \in BinIds \ {Unsorted} : Range(bins[i]) \cap Range(bins[Unsorted]) = {}
  /\ \A i \in BinIds : IsInjective(bins[i])
  /\ \A n \in DOMAIN fast : IsInjective(fast[n])
  /\ \A s, t \in LiveSlots : block[s].at = block[t].at => s = t

(* What do_check_free_chunk and do_check_malloc_state assert of free        *)
(* chunks: tags, footer and bin agree, neighbours are in use, large bins    *)
(* are sorted, the bitmap shows every bin that is not empty.               *)
BinsAgree ==
  /\ \A a \in Binned :
       /\ ~Inuse(a) /\ head[NextChunk(a)].prev = Size(a)
       /\ head[a].pinuse /\ NextChunk(a) # top /\ Inuse(NextChunk(a))
       /\ ~head[a].nonMain
  /\ \A i \in BinIds \ {Unsorted} :
       /\ bins[i] # <<>> => i \in marked
       /\ \A k \in DOMAIN bins[i] :
            /\ BinOf(Size(bins[i][k])) = i
            /\ k > 1 => Size(bins[i][k - 1]) >= Size(bins[i][k])
(* Chunks in use are marked so: those of the program carry NON_MAIN_ARENA,  *)
(* by which free finds their arena; those in fastbins are of the bin's      *)
(* size, and the flag tells when there are any.                            *)
InUseAgree ==
  /\ \A a \in Ordinary \ Binned : Inuse(a) /\ head[a].nonMain
  /\ \A n \in DOMAIN fast :
       /\ \A a \in Range(fast[n]) : Size(a) = n
       /\ fast[n] # <<>> => haveFast \/ pc = "consolidate"
TagsAgree == BinsAgree /\ InUseAgree

(* What a block is entitled to; while realloc shrinks it, its new size. *)
Kept(s)     == IF s = call.slot /\ call.n < block[s].n THEN call.n ELSE block[s].n
OwnWords(s) == UserWords(block[s].at, Kept(s))
(* Blocks of the program lie apart from each other, inside chunks of their  *)
(* own that lie inside memory the system has given.                        *)
HeapBlocksDisjoint ==
  \A s \in LiveSlots :
    /\ Size(block[s].at) >= Kept(s) /\ OwnWords(s) \subseteq Words(HeapOf(block[s].at))
    /\ \A t \in LiveSlots \ {s} : OwnWords(s) \cap OwnWords(t) = {}
(* Nothing the engine writes (tags, footers, links) lands in a block, calloc *)
(* gives out zeros, and realloc keeps the contents, also while it runs.     *)
ContentsKept ==
  \A s \in LiveSlots : OwnWords(s) \subseteq data[s]

(* "This search is strictly by best-fit": a chunk taken from a bin is the   *)
(* smallest that fits, and the end of memory is used only if none fits.    *)
BestFit ==
  [][/\ pc \in {"fit", "scan"} /\ pc' = "got" =>
          \A a \in Binned : Size(a) >= want => Size(result') <= Size(a)
     /\ pc' = "top" => \A a \in Binned : Size(a) < want]_vars

(* The assertions of _int_malloc, sYSMALLOc, heap_trim and _int_memalign,   *)
(* and do_check_malloced_chunk: a chunk given out is less than MINSIZE      *)
(* larger than the request.                                                *)
HeapAssertions ==
  /\ pc = "top" /\ ~TopFits /\ haveFast => Small(want)
  /\ pc = "scan" => \A i \in marked : i >= idx /\ bins[i] # <<>> => Size(Last(bins[i])) >= want
  /\ pc = "system" =>
       /\ ~haveFast /\ ~TopFits
       /\ Size(top) >= MinSize /\ head[top].pinuse /\ NextChunk(top) % Page = 0
  /\ pc = "trim" /\ HeapEmpty =>
       /\ head[Sentinel].size = 0 /\ head[Sentinel].pinuse
       /\ Size(Fence) + EndRoom \in 1..(2 * MinSize - 1) /\ Ending \in 1..(HeapMax - 1)
       /\ Start(Fence) + Ending = HeapEnd(Previous)
  /\ pc = "got" => Size(result) - want \in 0..(MinSize - 1)
  /\ pc = "tail" => Size(result) >= call.n /\ (result + 1) % call.align = 0

(* "... or null if no space is available": a call fails only if the system  *)
(* had no memory for it.                                                   *)
FailsOnlyIfRefused == pc = "fail" => refused
(* So it is for requests within top_pad, which includes all that are small  *)
(* enough not to be mapped when the parameters have their default values.  *)
SmallRequestsServed == pc = "fail" /\ want <= TopPad => refused

(* The searches, the retry after consolidation and the loop of heap_trim    *)
(* end: every call returns.                                                *)
HeapCallReturns == pc # "idle" ~> pc = "idle"
=============================================================================
