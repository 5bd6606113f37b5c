---------------------------- MODULE HeapInvariant ----------------------------
(* The inductive invariant of HeapChunks.  Its first parts are about a       *)
(* memory given by parameters (h the headers, t the top chunk, hs the sizes  *)
(* of the heaps, ch the heaps of the arena, G the chunks in bins), so that   *)
(* they can be said of the memory before and after a step.                   *)
EXTENDS HeapChunks

-----------------------------------------------------------------------------
(* Geometry.                                                               *)

EndOf(g, hs)    == Base(g) + hs[g]
FirstOf(g, ch)  == Base(g) + HeapInfo + (IF g = ch[1] THEN ArenaState ELSE 0)
EndTags(hs, ch) == {EndOf(g, hs) - EndRoom : g \in Range(ch) \ {ch[Len(ch)]}}

InPages(n) == n % Page = 0
HeapsSound(hs, ch) ==
  /\ hs \in [Heaps -> 0..HeapMax] /\ \A g \in Heaps : InPages(hs[g])
  /\ ch \in Seq(Heaps) /\ ch # <<>> /\ IsInjective(ch)
  /\ \A g \in Range(ch) : hs[g] > 0
  /\ \A g \in Range(ch) \ {ch[Len(ch)]} : HeapOf(EndOf(g, hs) - EndRoom) = g

Tag      == [size : Nat, pinuse : BOOLEAN, nonMain : BOOLEAN, prev : Nat]
Typed(h) == DOMAIN h \subseteq Nat /\ h \in [DOMAIN h -> Tag]
Behind(h, a) == a + h[a].size

\* The chunks of a heap lie side by side.
Tiled(h, t, hs, ch) ==
  LET E == EndTags(hs, ch) IN
  /\ t \in DOMAIN h /\ t \notin E
  /\ HeapOf(t) = ch[Len(ch)] /\ Behind(h, t) = EndOf(ch[Len(ch)], hs) /\ h[t].size >= MinSize
  /\ \A g \in Range(ch) : FirstOf(g, ch) \in DOMAIN h /\ HeapOf(FirstOf(g, ch)) = g
  /\ \A a \in DOMAIN h :
       HeapOf(a) \in Range(ch) /\ FirstOf(HeapOf(a), ch) <= a /\ a < EndOf(HeapOf(a), hs)
  /\ \A e \in E : e \in DOMAIN h /\ h[e].size = 0
  /\ \A a \in DOMAIN h \ E : h[a].size > 0 /\ \A b \in DOMAIN h : b <= a \/ b >= Behind(h, a)
  /\ \A a \in DOMAIN h \ (E \cup {t}) :
       Behind(h, a) \in DOMAIN h /\ HeapOf(Behind(h, a)) = HeapOf(a)

\* The chunks that are neither top nor a fencepost.
OrdinaryOf(h, t, E) == {a \in DOMAIN h \ (E \cup {t}) : Behind(h, a) \notin E}

-----------------------------------------------------------------------------
(* Boundary tags.                                                          *)

\* Every footer and every clear PREV_INUSE belongs to a chunk in a bin.
FootersSound(h, t, E, G) ==
  /\ h[t].pinuse
  /\ \A x \in DOMAIN h \ E : h[x].pinuse => h[x].prev = 0
  /\ \A x \in DOMAIN h : ~h[x].pinuse =>
       x - h[x].prev \in G /\ h[x - h[x].prev].size = h[x].prev
  /\ \A e \in E :
       /\ h[e].pinuse /\ h[e].prev \in 1..MinSize
       /\ e - h[e].prev \in DOMAIN h /\ h[e - h[e].prev].size = h[e].prev

\* Chunks in bins are marked free and do not touch; the others of the arena
\* are of a least size and carry NON_MAIN_ARENA.
FlagsSound(h, t, E, G) ==
  LET O == OrdinaryOf(h, t, E) IN
  /\ G \subseteq O
  /\ \A a \in O : h[a].size >= MinSize
  /\ \A a \in O \ G : h[a].nonMain
  /\ \A a \in G :
       /\ h[a].pinuse /\ ~h[a].nonMain
       /\ ~h[Behind(h, a)].pinuse /\ h[Behind(h, a)].prev = h[a].size
       /\ Behind(h, a) # t /\ h[Behind(h, Behind(h, a))].pinuse

MemorySound(h, t, hs, ch, G) ==
  LET E == EndTags(hs, ch) IN
  /\ Typed(h) /\ HeapsSound(hs, ch)
  /\ Tiled(h, t, hs, ch)
  /\ FootersSound(h, t, E, G)
  /\ FlagsSound(h, t, E, G)

-----------------------------------------------------------------------------
(* Lists.                                                                  *)

\* The sizes of the chunks on a list do not grow.
Falling(s, h) == \A j, k \in DOMAIN s : j < k => h[s[j]].size >= h[s[k]].size
InBins(bs)    == UNION {Range(bs[i]) : i \in BinIds}
ListsSound(bs, mk, h) ==
  /\ bs \in [BinIds -> Seq(Nat)] /\ mk \subseteq BinIds
  /\ \A i \in BinIds : IsInjective(bs[i])
  /\ \A i, j \in BinIds : i # j => Range(bs[i]) \cap Range(bs[j]) = {}
  /\ \A i \in BinIds \ {Unsorted} :
       /\ bs[i] # <<>> => i \in mk
       /\ \A a \in Range(bs[i]) : BinOf(h[a].size) = i
       /\ Falling(bs[i], h)
BinsSound == ListsSound(bins, marked, head)

FastSound ==
  /\ fast \in [MinSize..MaxFast -> Seq(Nat)]
  /\ \A n \in DOMAIN fast :
       /\ IsInjective(fast[n])
       /\ \A a \in Range(fast[n]) : Size(a) = n
       /\ fast[n] # <<>> => haveFast \/ pc = "consolidate"

\* O is made of the four others, which have nothing in common.
Parted(O, B, F, H, I) ==
  /\ O = B \cup F \cup H \cup I
  /\ B \cap F = {} /\ B \cap H = {} /\ B \cap I = {}
  /\ F \cap H = {} /\ F \cap I = {} /\ H \cap I = {}
PlacesSound ==
  /\ Parted(OrdinaryOf(head, top, EndTags(heapSize, chain)), Binned, Fasted, Held, InHand)
  /\ \A s, t \in LiveSlots : block[s].at = block[t].at => s = t

-----------------------------------------------------------------------------
(* The call in progress.                                                   *)

Searching == {"malloc", "unsorted", "fit", "scan", "top", "system", "finish", "fail"}
\* _int_free runs, and goes on at after.
Releasing == pc \in {"free", "trim"} \/ (pc = "consolidate" /\ resume = "trim")
\* _int_malloc runs.
Merging    == pc = "consolidate" /\ resume = "unsorted"
Allocating == pc \in Searching \/ Merging \/ (Releasing /\ after = "finish")
Returning  == pc = "return" \/ (Releasing /\ after = "return")
Tailing    == pc = "tail" \/ (Releasing /\ after = "tail")

Padded == IF call.op = "memalign" THEN call.n + call.align + MinSize + 1 ELSE call.n

LocalsTyped ==
  /\ block \in [Slots -> [at : Nat, n : Nat]]
  /\ lastRemainder \in Nat /\ haveFast \in BOOLEAN
  /\ calls \in Nat /\ refused \in BOOLEAN
  /\ want \in Nat /\ idx \in Nat /\ p \in Nat /\ result \in Nat
  /\ pc \in {"idle", "malloc", "unsorted", "fit", "scan", "top", "system", "finish", "got",
             "free", "consolidate", "trim", "realloc", "tail", "return", "fail"}
  /\ after \in {"return", "finish", "tail"} /\ resume \in {"unsorted", "trim"}
  /\ ~Releasing => after = "return"
CallSound ==
  /\ call.op \in Ops /\ call.n \in Nat /\ call.align \in Nat
  /\ call.oldTop \in Nat /\ call.oldTopSize \in Nat
  /\ \A s \in LiveSlots : block[s].n \in Requests
  /\ pc = "idle" => call = NoCall /\ result = 0
  /\ pc # "idle" =>
       /\ call.slot \in Slots /\ call.op # "none"
       /\ (call.op = "realloc") = (call.slot \in LiveSlots)
       /\ call.op # "free" => call.n \in Requests /\ want = Padded
       /\ call.op = "memalign" => call.align \in Alignments
\* Where the call is, and what it has in hand.
WhereSound ==
  /\ pc = "realloc" => call.op = "realloc" /\ result = 0
  /\ Allocating =>
       /\ call.op # "free" /\ result = 0
       /\ call.op = "realloc" => Size(Old) < want
  /\ pc = "got" =>
       /\ call.op # "free" /\ result \notin Held /\ result # 0
       /\ Size(result) - want \in 0..(MinSize - 1)
       /\ call.op = "realloc" => Size(Old) < want
  /\ Tailing =>
       /\ call.op = "memalign" /\ result \notin Held /\ result # 0
       /\ Size(result) >= call.n /\ (result + 1) % call.align = 0
  /\ Returning =>
       IF call.op = "free" THEN result = 0
       ELSE /\ call.op \in {"realloc", "memalign"}
            /\ call.op = "realloc" => result = Old
            /\ call.op = "memalign" => result \notin Held /\ result # 0
            /\ Size(result) >= call.n
  /\ pc = "free" => p # result /\ p # 0 /\ p \notin Held

\* What the searches know of the lists.
SearchSound ==
  /\ pc = "consolidate" => ~haveFast
  /\ pc \in {"unsorted", "fit", "scan", "top"} /\ haveFast => Small(want)
  /\ pc \in {"unsorted", "fit", "scan", "top"} \/ Merging
       => (Small(want) => bins[BinOf(want)] = <<>>)
  /\ pc \in {"fit", "scan", "top"} => bins[Unsorted] = <<>>
  /\ pc = "fit" => ~Small(want) /\ idx = BinOf(want) + 1
  /\ pc = "scan" =>
       /\ idx > BinOf(want)
       /\ \A a \in Binned : Size(a) >= want => BinOf(Size(a)) >= idx
  /\ pc = "system" => ~haveFast /\ ~TopFits

\* The heap made for this request is the current one, and the one before has
\* no room for it.
NoRoom(rest) == rest + (HeapMax - heapSize[Previous]) < want + MinSize + Page
JustMapped ==
  /\ TopFits /\ Len(chain) > 1
  /\ pc = "free" =>
       /\ head[p].pinuse /\ ~haveFast /\ NextChunk(p) = Fence
       /\ NoRoom(HeapEnd(Previous) - p)
  /\ pc = "consolidate" => FALSE
  /\ pc = "trim" => NoRoom(Ending)
FinishSound ==
  /\ pc = "finish" => TopFits \/ refused \/ want > TopPad
  /\ pc = "fail" => refused \/ want > TopPad
  /\ Releasing /\ after = "finish" => JustMapped \/ refused \/ want > TopPad

\* The program's data: what calloc does not clear is new memory.
BeyondTop == {w \in Words(HeapOf(call.oldTop)) : w > 2 * (call.oldTop + call.oldTopSize)}
ClearSound ==
  call.op = "calloc" =>
    /\ HeapOf(call.oldTop) \in Heaps /\ heapSize[HeapOf(call.oldTop)] > 0
    /\ pc \notin {"finish", "got", "fail"} =>
         HeapEnd(HeapOf(call.oldTop)) <= call.oldTop + call.oldTopSize
    /\ pc = "finish" => BeyondTop \subseteq fresh
    /\ pc = "got" => BeyondTop \cap UserWords(result, Size(result)) \subseteq fresh
DataSound ==
  /\ data \in [Slots -> SUBSET Nat] /\ fresh \subseteq Nat
  /\ \A s \in LiveSlots : Size(block[s].at) >= Kept(s)
  /\ ContentsKept
  /\ ClearSound

CountSound == systemMem \in Nat /\ systemMem = SumFunctionOnSet(heapSize, Range(chain))

HeapInductive ==
  /\ MemorySound(head, top, heapSize, chain, Binned)
  /\ BinsSound /\ FastSound /\ PlacesSound
  /\ LocalsTyped /\ CallSound /\ WhereSound /\ SearchSound /\ FinishSound
  /\ DataSound /\ CountSound
=============================================================================
