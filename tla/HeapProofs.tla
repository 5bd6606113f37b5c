------------------------------ MODULE HeapProofs ------------------------------
(***************************************************************************)
(* Proofs about the chunk and bin engine of ptmalloc2, for any sizes the     *)
(* assumption allows, any number of heaps and any bound on the blocks: that  *)
(* every step of every call keeps HeapInductive, and what follows from it.   *)
(***************************************************************************)
EXTENDS HeapMemoryProofs

-----------------------------------------------------------------------------
(* The structure of the heap and of its lists, step by step.               *)

Structure == Mem /\ BinsSound /\ FastSound /\ PlacesSound

\* What the parts say of the chunks.
LEMMA ChunkFacts ==
  ASSUME Structure
  PROVE  /\ Typed(head) /\ Mem /\ ListsSound(bins, marked, head) /\ Binned = InBins(bins)
         /\ Parted(Ord, Binned, Fasted, Held, InHand)
         /\ top \in DOMAIN head /\ top \in Nat /\ top # 0 /\ top \notin Ord /\ Size(top) \in Nat
         /\ \A a \in Ord : /\ a \in DOMAIN head /\ a \in Nat /\ a # 0
                           /\ Size(a) \in Nat /\ Size(a) >= MinSize
         /\ 0 \notin Ord
<1>1. Typed(head) /\ HeapsSound(heapSize, chain) /\ Tiled(head, top, heapSize, chain)
  BY DEF Structure, Mem, MemorySound
<1>2. ASSUME NEW a \in DOMAIN head PROVE a \in Nat /\ a # 0
  <2>1. HeapOf(a) \in Range(chain) /\ FirstOf(HeapOf(a), chain) <= a
    BY <1>1 DEF Tiled
  <2>2. FirstOf(HeapOf(a), chain) \in Nat /\ FirstOf(HeapOf(a), chain) > Base(HeapOf(a)) /\ Base(HeapOf(a)) \in Nat
    BY <1>1, <2>1, HeapFacts
  <2>3. a \in Nat
    BY <1>1, TypedTags
  <2> QED BY ONLY <2>1, <2>2, <2>3
<1>3. \A a \in OrdinaryOf(head, top, OldEnds) : a \in DOMAIN head \ (OldEnds \cup {top}) /\ head[a].size >= MinSize
  BY Neighbours DEF Structure, Mem, OldEnds
<1>4. top \in DOMAIN head
  BY <1>1 DEF Tiled
<1>5. Parted(Ord, Binned, Fasted, Held, InHand)
  BY DEF Structure, PlacesSound, Ord
<1>6. ListsSound(bins, marked, head) /\ Binned = InBins(bins) /\ Mem
  BY DEF Structure, BinsSound, Binned, InBins
<1>7. Size(top) \in Nat
  BY <1>1, <1>4, TypedTags DEF Size
<1>8. top \notin Ord
  BY <1>3 DEF Ord, OldEnds
<1>9. \A a \in Ord : a \in DOMAIN head /\ a \in Nat /\ a # 0 /\ Size(a) \in Nat /\ Size(a) >= MinSize
  BY <1>1, <1>2, <1>3, TypedTags DEF Ord, OldEnds, Size
<1> QED BY <1>1, <1>2, <1>4, <1>5, <1>6, <1>7, <1>8, <1>9

\* The parts of the new state, put together.
LEMMA NewStructure ==
  ASSUME Structure, UNCHANGED block,
         MemorySound(head', top', heapSize', chain', Binned'),
         ListsSound(bins', marked', head'), FastSound',
         Parted(Ord', Binned', Fasted', Held, InHand')
  PROVE  Structure' /\ Held' = Held /\ LiveSlots' = LiveSlots
<1>1. LiveSlots' = LiveSlots /\ Held' = Held
  BY DEF LiveSlots, Held
<1>2. Mem' /\ BinsSound'
  BY DEF Mem, BinsSound
<1>3. PlacesSound'
  BY <1>1 DEF PlacesSound, Structure, Ord
<1> QED BY <1>1, <1>2, <1>3 DEF Structure

\* The fastbins stay as they are.
LEMMA FastKept ==
  ASSUME Structure, UNCHANGED fast, SameSizes(head, head', Fasted),
         \A n \in DOMAIN fast : fast[n] # <<>> => haveFast' \/ pc' = "consolidate"
  PROVE  FastSound' /\ Fasted' = Fasted
<1>1. Fasted' = Fasted
  BY DEF Fasted
<1>2. \A n \in DOMAIN fast : Range(fast[n]) \subseteq Fasted
  BY DEF Fasted
<1> QED BY <1>1, <1>2 DEF FastSound, Structure, SameSizes, Size

\* have_fastchunks tells of every chunk in a fastbin, except while these are merged.
LEMMA FlagHolds ==
  ASSUME Structure
  PROVE  \A n \in DOMAIN fast : fast[n] # <<>> => haveFast \/ pc = "consolidate"
BY DEF Structure, FastSound

\* What the running call has in hand.
LEMMA InHandIs ==
  /\ result = 0 /\ pc # "free" => InHand = {}
  /\ result = 0 /\ pc = "free" => InHand = {p}
  /\ result # 0 /\ result \notin Held /\ pc # "free" => InHand = {result}
  /\ result # 0 /\ result \notin Held /\ pc = "free" => InHand = {result, p}
  /\ result \in Held /\ pc # "free" => InHand = {}
  /\ result \in Held /\ pc = "free" => InHand = {p}
  /\ pc = "free" => p \in InHand
BY DEF InHand

\* The same of the state after a step that keeps the blocks.
LEMMA NextInHand ==
  ASSUME Held' = Held
  PROVE
  /\ result' = 0 /\ pc' # "free" => InHand' = {}
  /\ result' = 0 /\ pc' = "free" => InHand' = {p'}
  /\ result' # 0 /\ result' \notin Held /\ pc' # "free" => InHand' = {result'}
  /\ result' # 0 /\ result' \notin Held /\ pc' = "free" => InHand' = {result', p'}
  /\ result' \in Held /\ pc' # "free" => InHand' = {}
  /\ result' \in Held /\ pc' = "free" => InHand' = {p'}
BY DEF InHand

\* What the program holds is a matter of its blocks.
LEMMA SameHeld ==
  ASSUME UNCHANGED block
  PROVE  Held' = Held /\ LiveSlots' = LiveSlots
BY DEF Held, LiveSlots

-----------------------------------------------------------------------------
(* _int_malloc.                                                            *)

\* v is given to the call.
GaveOut(v) ==
  /\ Structure' /\ result' = v /\ v # 0 /\ v \notin Held
  /\ SameSizes(head, head', Held)

\* A chunk leaves its bin for the hands of the call.
LEMMA TakeWholeStep ==
  ASSUME Structure, InHand = {}, pc # "consolidate", NEW v \in Binned,
         head' = HandOut(v), bins' = Unlink(v), result' = v, pc' = "got",
         UNCHANGED <<fast, haveFast, marked, top, heapSize, chain, block>>
  PROVE  GaveOut(v) /\ head'[v].size = Size(v) /\ Binned' = Binned \ {v}
         /\ SameSizes(head, head', DOMAIN head)
         /\ \A i \in BinIds : Range(bins'[i]) = Range(bins[i]) \ {v} /\ (bins[i] = <<>> => bins'[i] = <<>>)
<1>1. /\ Typed(head) /\ Mem /\ ListsSound(bins, marked, head) /\ Binned = InBins(bins)
      /\ Parted(Ord, Binned, Fasted, Held, InHand)
      /\ \A a \in Ord : a \in DOMAIN head /\ a \in Nat /\ a # 0
  BY ChunkFacts
<1>2. v \in Ord /\ v \in Nat /\ v # 0 /\ v \notin Held /\ v \in DOMAIN head /\ v \notin Fasted
  BY <1>1 DEF Parted
<1>3. /\ MemorySound(head', top, heapSize, chain, Binned \ {v})
      /\ OrdinaryOf(head', top, OldEnds) = Ord
      /\ \A x \in DOMAIN head : head'[x].size = head[x].size
  BY <1>1, HandOutSound
<1>4. /\ ListsSound(bins', marked, head') /\ InBins(bins') = InBins(bins) \ {v}
      /\ \A i \in BinIds : Range(bins'[i]) = Range(bins[i]) \ {v} /\ (bins[i] = <<>> => bins'[i] = <<>>)
  <2>1. SameSizes(head, head', InBins(bins) \ {v})
    BY <1>1, <1>3 DEF Parted, SameSizes
  <2>2. bins' = Unlinked(bins, v)
    BY DEF Unlink, Unlinked
  <2>3. IsUnlinked(Unlinked(bins, v), bins, marked, head', v)
    BY <2>1, <1>1, <1>2, UnlinkedSound
  <2> QED BY ONLY <2>2, <2>3 DEF IsUnlinked
<1>5. Binned' = Binned \ {v}
  BY <1>1, <1>4 DEF Binned, InBins
<1>6. Ord' = Ord
  BY <1>3 DEF Ord, OldEnds
<1>7. SameSizes(head, head', Fasted) /\ SameSizes(head, head', Held) /\ SameSizes(head, head', DOMAIN head)
  BY <1>1, <1>3 DEF Parted, SameSizes
<1>8. FastSound' /\ Fasted' = Fasted
  BY <1>7, FlagHolds, FastKept
<1>9. Held' = Held
  BY SameHeld
<1>10. InHand' = {v}
  BY <1>2, <1>9, NextInHand
<1>11. Parted(Ord', Binned', Fasted', Held, InHand')
  BY <1>1, <1>2, <1>5, <1>6, <1>8, <1>10 DEF Parted
<1>12. Structure'
  <2>1. MemorySound(head', top', heapSize', chain', Binned') /\ ListsSound(bins', marked', head') /\ UNCHANGED block
    BY <1>3, <1>4, <1>5
  <2> QED BY ONLY <2>1, <1>8, <1>11, NewStructure, Structure
<1>13. head'[v].size = Size(v)
  BY <1>2, <1>3 DEF Size
<1> QED BY <1>2, <1>4, <1>5, <1>7, <1>12, <1>13 DEF GaveOut

\* v was the only chunk of its bin besides the rest.
LEMMA TakeSplitStep ==
  ASSUME Structure, InHand = {}, pc # "consolidate", NEW v \in Binned,
         want \in Nat, want >= MinSize, Size(v) - want >= MinSize,
         head' = SplitFree(v, want),
         bins' = [Unlink(v) EXCEPT ![Unsorted] = <<v + want>>], Range(bins[Unsorted]) \subseteq {v},
         result' = v, pc' = "got",
         UNCHANGED <<fast, haveFast, marked, top, heapSize, chain, block>>
  PROVE  GaveOut(v) /\ head'[v].size = want
<1> DEFINE b == Unlink(v)
           G == (Binned \ {v}) \cup {v + want}
<1>1. /\ Typed(head) /\ Mem /\ ListsSound(bins, marked, head) /\ Binned = InBins(bins)
      /\ Parted(Ord, Binned, Fasted, Held, InHand)
      /\ \A a \in Ord : a \in DOMAIN head /\ a \in Nat /\ a # 0
  BY ChunkFacts
<1>2. v \in Ord /\ v \in Nat /\ v # 0 /\ v \notin Held /\ v \in DOMAIN head /\ v \notin Fasted
  BY <1>1 DEF Parted
<1>3. /\ MemorySound(head', top, heapSize, chain, G)
      /\ OrdinaryOf(head', top, OldEnds) = Ord \cup {v + want}
      /\ v + want \notin DOMAIN head /\ v + want \in Nat
      /\ head'[v].size = want
      /\ \A x \in DOMAIN head \ {v} : head'[x].size = head[x].size
  BY <1>1, SplitFreeSound
<1>4. /\ ListsSound(b, marked, head') /\ InBins(b) = InBins(bins) \ {v}
      /\ \A i \in BinIds : Range(b[i]) = Range(bins[i]) \ {v} /\ (bins[i] = <<>> => b[i] = <<>>)
  <2>1. SameSizes(head, head', InBins(bins) \ {v})
    BY <1>1, <1>3 DEF Parted, SameSizes
  <2>2. b = Unlinked(bins, v)
    BY DEF Unlink, Unlinked
  <2>3. IsUnlinked(Unlinked(bins, v), bins, marked, head', v)
    BY <2>1, <1>1, <1>2, UnlinkedSound
  <2> QED BY ONLY <2>2, <2>3 DEF IsUnlinked
<1> HIDE DEF b, G
<1>5. b[Unsorted] = <<>> /\ Unsorted \in BinIds
  <2>1. Range(b[Unsorted]) = {} /\ Unsorted \in BinIds
    BY <1>4 DEF BinIds
  <2>2. Range(b[Unsorted]) = {} <=> b[Unsorted] = <<>>
    BY <1>4, <2>1, ListFacts
  <2> QED BY <2>1, <2>2
<1>6. v + want \notin InBins(b)
  BY <1>1, <1>3, <1>4 DEF Parted
<1>7. bins' = OnFront(b, v + want)
  <2>1. <<v + want>> \o <<>> = <<v + want>>
    BY <1>3
  <2> QED BY <1>5, <2>1 DEF b, OnFront
<1>8. ListsSound(bins', marked, head') /\ InBins(bins') = InBins(b) \cup {v + want}
  <2>1. IsOnFront(OnFront(b, v + want), b, marked, head', v + want)
    BY <1>3, <1>4, <1>6, OnFrontSound
  <2> QED BY ONLY <2>1, <1>7 DEF IsOnFront
<1>9. Binned' = G
  BY <1>1, <1>4, <1>8 DEF Binned, InBins, G
<1>10. Ord' = Ord \cup {v + want}
  BY <1>3 DEF Ord, OldEnds
<1>11. SameSizes(head, head', Fasted) /\ SameSizes(head, head', Held)
  BY <1>1, <1>2, <1>3 DEF Parted, SameSizes
<1>12. FastSound' /\ Fasted' = Fasted
  BY <1>11, FlagHolds, FastKept
<1>13. Held' = Held
  BY SameHeld
<1>14. InHand' = {v}
  BY <1>2, <1>13, NextInHand
<1>15. Parted(Ord', Binned', Fasted', Held, InHand')
  <2> DEFINE w == v + want
  <2>1. w \notin Ord /\ v \in Binned /\ InHand = {}
    BY <1>1, <1>3
  <2>2. Ord' = Ord \cup {w} /\ Binned' = (Binned \ {v}) \cup {w}
    BY <1>9, <1>10 DEF G
  <2> HIDE DEF w
  <2> QED BY ONLY <2>1, <2>2, <1>1, <1>12, <1>14 DEF Parted
<1>16. Structure'
  <2>1. MemorySound(head', top', heapSize', chain', Binned') /\ ListsSound(bins', marked', head') /\ UNCHANGED block
    BY <1>3, <1>8, <1>9
  <2> QED BY ONLY <2>1, <1>12, <1>15, NewStructure, Structure
<1> QED BY <1>2, <1>3, <1>11, <1>16 DEF GaveOut

\* Steps that change no chunk and no list.
LEMMA QuietStep ==
  ASSUME Structure, UNCHANGED <<head, fast, bins, top, heapSize, chain, block>>,
         marked' = marked \/ (\E i \in marked : bins[i] = <<>> /\ marked' = marked \ {i}),
         \A n \in DOMAIN fast : fast[n] # <<>> => haveFast' \/ pc' = "consolidate",
         InHand' = InHand
  PROVE  Structure' /\ SameSizes(head, head', DOMAIN head) /\ Binned' = Binned /\ Ord' = Ord
<1>1. /\ Mem /\ ListsSound(bins, marked, head)
      /\ Parted(Ord, Binned, Fasted, Held, InHand)
  BY ChunkFacts
<1>2. SameSizes(head, head', Fasted) /\ SameSizes(head, head', DOMAIN head)
  BY DEF SameSizes
<1>3. FastSound' /\ Fasted' = Fasted
  BY <1>2, FastKept
<1>4. Ord' = Ord /\ Binned' = Binned
  BY DEF Ord, Binned
<1>5. ListsSound(bins', marked', head')
  BY <1>1 DEF ListsSound
<1>6. MemorySound(head', top', heapSize', chain', Binned') /\ Parted(Ord', Binned', Fasted', Held, InHand')
  BY <1>1, <1>3, <1>4 DEF Mem
<1> QED BY <1>2, <1>3, <1>4, <1>5, <1>6, NewStructure

\* A chunk leaves its fastbin for the hands of the call.
LEMMA TakeFastStep ==
  ASSUME Structure, InHand = {}, pc # "consolidate", want \in DOMAIN fast, fast[want] # <<>>,
         fast' = [fast EXCEPT ![want] = Tail(@)], result' = Head(fast[want]), pc' = "got",
         UNCHANGED <<head, haveFast, bins, marked, top, heapSize, chain, block>>
  PROVE  GaveOut(Head(fast[want])) /\ head'[Head(fast[want])].size = want
<1> DEFINE v == Head(fast[want])
<1>1. /\ Mem /\ ListsSound(bins, marked, head)
      /\ Parted(Ord, Binned, Fasted, Held, InHand)
      /\ \A a \in Ord : a \in DOMAIN head /\ a \in Nat /\ a # 0
  BY ChunkFacts
<1>2. FastSound
  BY DEF Structure
<1>3. /\ Tail(fast[want]) \in Seq(Nat) /\ IsInjective(Tail(fast[want]))
      /\ v \in Range(fast[want]) /\ Range(Tail(fast[want])) = Range(fast[want]) \ {v}
  <2>1. fast[want] \in Seq(Nat) /\ IsInjective(fast[want])
    BY <1>2 DEF FastSound
  <2> QED BY ONLY <2>1, fast[want] # <<>>, TailIs
<1> HIDE DEF v
<1>4. v \in Fasted /\ v \in Ord /\ v # 0 /\ v \notin Held
  BY <1>1, <1>3 DEF Fasted, Parted
<1>5. DOMAIN fast' = DOMAIN fast /\ fast'[want] = Tail(fast[want]) /\ \A n \in DOMAIN fast \ {want} : fast'[n] = fast[n]
  OBVIOUS
<1>6. \A n \in DOMAIN fast \ {want} : v \notin Range(fast[n])
  <2>1. \A n \in DOMAIN fast : v \in Range(fast[n]) => Size(v) = n
    BY <1>2 DEF FastSound
  <2> QED BY <2>1, <1>3
<1>7. Fasted' = Fasted \ {v}
  BY <1>3, <1>5, <1>6 DEF Fasted
<1>8. FastSound'
  <2>1. fast' \in [MinSize..MaxFast -> Seq(Nat)]
    BY <1>2, <1>3, <1>5 DEF FastSound
  <2>2. \A n \in DOMAIN fast : fast[n] # <<>> => haveFast
    BY FlagHolds
  <2>3. \A n \in DOMAIN fast' : IsInjective(fast'[n]) /\ Range(fast'[n]) \subseteq Range(fast[n])
                                /\ (fast'[n] # <<>> => haveFast')
    BY <2>2, <1>2, <1>3, <1>5 DEF FastSound
  <2> QED BY <2>1, <2>3, <1>2, <1>5 DEF FastSound, Size
<1>9. Held' = Held
  BY SameHeld
<1>10. InHand' = {v}
  BY <1>4, <1>9, NextInHand DEF v
<1>11. Ord' = Ord /\ Binned' = Binned
  BY DEF Ord, Binned
<1>12. Parted(Ord', Binned', Fasted', Held, InHand')
  BY <1>1, <1>4, <1>7, <1>10, <1>11 DEF Parted
<1>13. Structure'
  <2>1. MemorySound(head', top', heapSize', chain', Binned') /\ ListsSound(bins', marked', head') /\ UNCHANGED block
    BY <1>1, <1>11 DEF Mem
  <2> QED BY ONLY <2>1, <1>8, <1>12, NewStructure, Structure
<1>14. Size(v) = want
  BY <1>2, <1>3 DEF FastSound
<1> QED BY <1>4, <1>13, <1>14 DEF GaveOut, SameSizes, Size, v

\* A chunk moves from the unsorted ones to its bin.
LEMMA PlaceStep ==
  ASSUME Structure, pc = "unsorted", bins[Unsorted] # <<>>, InHand' = InHand,
         bins' = [Unlink(Oldest) EXCEPT ![BinOf(Size(Oldest))] = Placed(Oldest, @)],
         marked' = marked \cup {BinOf(Size(Oldest))},
         UNCHANGED <<head, fast, haveFast, top, heapSize, chain, block, pc>>
  PROVE  /\ Structure' /\ Binned' = Binned /\ Oldest \in Binned
         /\ \A i \in BinIds \ {Unsorted, BinOf(Size(Oldest))} : bins'[i] = bins[i]
<1> DEFINE v == Oldest
           b == BinOf(Size(v))
           u == Unlink(v)
           x == Placed(v, u[b])
<1>1. /\ Typed(head) /\ Mem /\ ListsSound(bins, marked, head) /\ Binned = InBins(bins)
      /\ Parted(Ord, Binned, Fasted, Held, InHand)
      /\ \A a \in Ord : a \in DOMAIN head /\ a \in Nat /\ a # 0 /\ Size(a) \in Nat /\ Size(a) >= MinSize
  BY ChunkFacts
<1>2. /\ Unsorted \in BinIds
      /\ \A i \in BinIds : bins[i] \in Seq(Nat) /\ IsInjective(bins[i]) /\ Range(bins[i]) \subseteq Binned
  BY <1>1, ListFacts
<1>3. v \in Range(bins[Unsorted])
  BY <1>2, LastIs DEF Oldest
<1>4. v \in Binned /\ v \in Ord /\ v \in Nat /\ Size(v) \in Nat /\ Size(v) >= MinSize
  BY <1>1, <1>2, <1>3 DEF Parted
<1>5. b \in BinIds \ {Unsorted}
  BY <1>4, BinRange
<1>6. /\ ListsSound(u, marked, head) /\ InBins(u) = InBins(bins) \ {v}
      /\ \A i \in BinIds : Range(u[i]) = Range(bins[i]) \ {v}
  <2>1. SameSizes(head, head, InBins(bins) \ {v})
    BY DEF SameSizes
  <2>2. u = Unlinked(bins, v)
    BY DEF Unlink, Unlinked
  <2>3. IsUnlinked(Unlinked(bins, v), bins, marked, head, v)
    BY <2>1, <1>1, <1>4, UnlinkedSound
  <2> QED BY ONLY <2>2, <2>3 DEF IsUnlinked
<1>7. \A i \in BinIds \ {Unsorted} : u[i] = bins[i]
  <2> SUFFICES ASSUME NEW i \in BinIds \ {Unsorted} PROVE u[i] = bins[i]
    OBVIOUS
  <2>1. u[i] = Without(bins[i], v)
    BY DEF Unlink
  <2>2. v \notin Range(bins[i])
    BY <1>1, <1>2, <1>3 DEF ListsSound
  <2> QED BY <2>1, <2>2 DEF Without
<1> HIDE DEF u, b, v
<1>8. u[b] \in Seq(Nat) /\ IsInjective(u[b]) /\ Falling(u[b], head) /\ \A a \in Range(u[b]) : BinOf(Size(a)) = b
  BY <1>5, <1>6 DEF ListsSound, Size
<1>9. v \notin Range(u[b]) /\ Range(u[b]) \subseteq Ord
  BY <1>1, <1>2, <1>5, <1>6 DEF Parted
<1>10. Small(Size(v)) => \A a \in Range(u[b]) : Size(a) = Size(v)
  <2>1. SUFFICES ASSUME Small(Size(v)), NEW a \in Range(u[b]) PROVE Size(a) = Size(v)
    OBVIOUS
  <2>2. BinOf(Size(a)) = BinOf(Size(v)) /\ Size(a) \in Nat
    BY <1>1, <1>8, <1>9 DEF b
  <2> QED BY <2>1, <2>2, <1>4, SmallBin
<1>11. x \in Seq(Nat) /\ IsInjective(x) /\ Range(x) = Range(u[b]) \cup {v} /\ Falling(x, head)
  <2>1. \A a \in Range(u[b]) : Size(a) \in Nat
    BY <1>1, <1>9
  <2> DEFINE s == u[b]
  <2>2. s \in Seq(Nat) /\ IsInjective(s) /\ v \in Nat /\ v \notin Range(s) /\ Falling(s, head)
        /\ (\A a \in Range(s) : Size(a) \in Nat) /\ Size(v) \in Nat
        /\ (Small(Size(v)) => \A a \in Range(s) : Size(a) = Size(v))
    BY <2>1, <1>4, <1>8, <1>9, <1>10
  <2> HIDE DEF s
  <2>3. Placed(v, s) \in Seq(Nat) /\ IsInjective(Placed(v, s))
         /\ Range(Placed(v, s)) = Range(s) \cup {v} /\ Falling(Placed(v, s), head)
    BY ONLY <2>2, PlacedIs
  <2> QED BY <2>3 DEF s
<1> HIDE DEF x
<1>12. bins' = PutAt(u, b, x)
  <2>1. bins' = [u EXCEPT ![b] = Placed(v, @)]
    BY DEF u, b, v
  <2>2. DOMAIN u = BinIds
    BY <1>6 DEF ListsSound
  <2> QED BY <2>1, <2>2, <1>5 DEF PutAt, x
<1>13. IsPutAt(PutAt(u, b, x), u, marked, head, v, b)
  <2>1. v \notin InBins(u) /\ BinOf(head[v].size) = b
    BY <1>6 DEF b, Size
  <2> QED BY <2>1, <1>4, <1>5, <1>6, <1>11, PutAtSound
<1>14. /\ ListsSound(bins', marked', head') /\ InBins(bins') = InBins(bins)
       /\ \A i \in BinIds \ {b} : bins'[i] = u[i]
  BY <1>1, <1>4, <1>6, <1>12, <1>13 DEF IsPutAt, b, v
<1>15. Binned' = Binned /\ Ord' = Ord
  BY <1>1, <1>14 DEF Binned, InBins, Ord
<1>16. FastSound' /\ Fasted' = Fasted
  <2>1. SameSizes(head, head', Fasted)
    BY DEF SameSizes
  <2> QED BY <2>1, FlagHolds, FastKept
<1>17. Structure'
  <2>1. MemorySound(head', top', heapSize', chain', Binned') /\ Parted(Ord', Binned', Fasted', Held, InHand')
    BY <1>1, <1>15, <1>16 DEF Mem
  <2> QED BY <2>1, <1>14, <1>16, NewStructure
<1>18. \A i \in BinIds \ {Unsorted, b} : bins'[i] = bins[i]
  BY <1>7, <1>14
<1> QED BY <1>4, <1>15, <1>17, <1>18 DEF b, v

\* The end of memory.
LEMMA SplitTopStep ==
  ASSUME Structure, InHand = {}, pc # "consolidate",
         want \in Nat, want >= MinSize, TopFits,
         head' = TopSplit(want), top' = top + want, result' = top, pc' = "got",
         UNCHANGED <<fast, haveFast, bins, marked, heapSize, chain, block>>
  PROVE  GaveOut(top) /\ head'[top].size = want
<1>1. /\ Typed(head) /\ Mem /\ ListsSound(bins, marked, head) /\ Binned = InBins(bins)
      /\ Parted(Ord, Binned, Fasted, Held, InHand)
      /\ \A a \in Ord : a \in DOMAIN head /\ a \in Nat /\ a # 0
      /\ top \in DOMAIN head /\ top \in Nat /\ top # 0 /\ top \notin Ord /\ Size(top) \in Nat
  BY ChunkFacts
<1>2. IsCutOff(TopSplit(want), top, want)
  <2>1. Size(top) - want >= MinSize
    BY <1>1, Constants DEF TopFits
  <2> QED BY <2>1, <1>1, TopSplitSound
<1>3. /\ MemorySound(head', top', heapSize', chain', Binned) /\ Ord' = Ord \cup {top}
      /\ head'[top].size = want
      /\ \A x \in DOMAIN head \ {top} : head'[x] = head[x]
  BY <1>2 DEF IsCutOff, Ord, OldEnds
<1>4. Binned' = Binned
  BY DEF Binned
<1>5. SameSizes(head, head', Fasted) /\ SameSizes(head, head', Held) /\ SameSizes(head, head', InBins(bins))
  BY <1>1, <1>3 DEF Parted, SameSizes
<1>6. ListsSound(bins', marked', head')
  BY <1>1, <1>5, ListsSame DEF SameSizes
<1>7. FastSound' /\ Fasted' = Fasted
  BY <1>5, FlagHolds, FastKept
<1>8. Held' = Held /\ top \notin Held
  BY <1>1, SameHeld DEF Parted
<1>9. InHand' = {top}
  BY <1>1, <1>8, NextInHand
<1>10. Parted(Ord', Binned', Fasted', Held, InHand')
  BY <1>1, <1>3, <1>4, <1>7, <1>9 DEF Parted
<1>11. Structure'
  BY <1>3, <1>4, <1>6, <1>7, <1>10, NewStructure
<1> QED BY <1>1, <1>3, <1>5, <1>8, <1>11 DEF GaveOut

-----------------------------------------------------------------------------
(* Steps that leave the lists alone, or take one chunk from them.          *)

\* Headers change while chunks, bins and hands stay.
LEMMA UsedStep ==
  ASSUME Structure, pc # "consolidate", UNCHANGED <<bins, marked, fast, haveFast, block>>,
         MemorySound(head', top', heapSize', chain', Binned),
         SameSizes(head, head', Binned), SameSizes(head, head', Fasted),
         Parted(Ord', Binned, Fasted, Held, InHand')
  PROVE  Structure' /\ Binned' = Binned
<1>1. ListsSound(bins, marked, head) /\ Binned = InBins(bins)
  BY ChunkFacts
<1>2. Binned' = Binned
  BY DEF Binned
<1>3. ListsSound(bins', marked', head')
  BY <1>1, ListsSame DEF SameSizes
<1>4. FastSound' /\ Fasted' = Fasted
  BY FlagHolds, FastKept
<1> QED BY <1>2, <1>3, <1>4, NewStructure

\* The structure survives when a chunk is taken from a list.
LEMMA UnlinkStep ==
  ASSUME Structure, pc # "consolidate" \/ (\A n \in DOMAIN fast : fast[n] = <<>>),
         UNCHANGED <<marked, fast, haveFast, block>>,
         NEW v \in Binned, bins' = Unlink(v),
         MemorySound(head', top', heapSize', chain', Binned \ {v}),
         SameSizes(head, head', Binned \ {v}), SameSizes(head, head', Fasted),
         Parted(Ord', Binned \ {v}, Fasted, Held, InHand')
  PROVE  Structure' /\ Binned' = Binned \ {v}
         /\ \A i \in BinIds : bins[i] = <<>> => bins'[i] = <<>>
<1>1. /\ ListsSound(bins, marked, head) /\ Binned = InBins(bins) /\ Parted(Ord, Binned, Fasted, Held, InHand)
      /\ \A a \in Ord : a \in Nat
  BY ChunkFacts
<1>2. v \in Nat
  BY <1>1 DEF Parted
<1>3. /\ ListsSound(bins', marked', head') /\ InBins(bins') = InBins(bins) \ {v}
      /\ \A i \in BinIds : bins[i] = <<>> => bins'[i] = <<>>
  <2>1. bins' = Unlinked(bins, v)
    BY DEF Unlink, Unlinked
  <2>2. IsUnlinked(Unlinked(bins, v), bins, marked, head', v)
    BY <1>1, <1>2, UnlinkedSound
  <2> QED BY <2>1, <2>2 DEF IsUnlinked
<1>4. Binned' = Binned \ {v}
  BY <1>1, <1>3 DEF Binned, InBins
<1>5. FastSound' /\ Fasted' = Fasted
  BY FlagHolds, FastKept
<1> QED BY <1>3, <1>4, <1>5, NewStructure

\* The top chunk and its heap change size.
LEMMA ResizeStep ==
  ASSUME Structure, pc # "consolidate", NEW n \in Nat, n >= MinSize,
         NEW m \in 1..HeapMax, InPages(m), top + n = Base(HeapOf(top)) + m,
         head' = SetHead(head, top, n, TRUE, FALSE),
         heapSize' = [heapSize EXCEPT ![HeapOf(top)] = m], InHand' = InHand,
         UNCHANGED <<top, chain, bins, marked, fast, haveFast, block>>
  PROVE  /\ Structure' /\ Binned' = Binned /\ head'[top].size = n
         /\ SameSizes(head, head', DOMAIN head \ {top}) /\ HeapOf(top) = Current
<1>1. /\ Mem /\ Parted(Ord, Binned, Fasted, Held, InHand)
      /\ \A a \in Ord : a \in DOMAIN head /\ a # top
  BY ChunkFacts
<1>2. IsResized(SetHead(head, top, n, TRUE, FALSE), n, m)
  BY <1>1, ResizedSound
<1>3. /\ MemorySound(head', top', heapSize', chain', Binned)
      /\ Ord' = Ord
      /\ HeapOf(top) = Current /\ head'[top].size = n /\ \A x \in DOMAIN head \ {top} : head'[x] = head[x]
  BY <1>2 DEF IsResized, Ord, OldEnds
<1>4. SameSizes(head, head', DOMAIN head \ {top})
  BY <1>3 DEF SameSizes
<1>5. SameSizes(head, head', Binned) /\ SameSizes(head, head', Fasted)
  BY <1>1, <1>4 DEF SameSizes, Parted
<1> QED BY <1>1, <1>3, <1>4, <1>5, UsedStep

\* A new heap becomes the current one; what was left of the old top chunk
\* may stay in hand.
LEMMA NewHeapStep ==
  ASSUME Structure, pc # "consolidate", NEW k \in Heaps, heapSize[k] = 0,
         NEW m \in 1..HeapMax, InPages(m), m - HeapInfo >= MinSize,
         InHand = {},
         IF Size(top) - MinSize >= MinSize
         THEN head' = RetireLarge(k, m) /\ InHand' = {top}
         ELSE head' = RetireSmall(k, m) /\ InHand' = {},
         heapSize' = [heapSize EXCEPT ![k] = m], chain' = Append(chain, k), top' = Base(k) + HeapInfo,
         UNCHANGED <<bins, marked, fast, haveFast, block>>
  PROVE  /\ Structure' /\ Binned' = Binned /\ head'[top'].size = m - HeapInfo
         /\ SameSizes(head, head', DOMAIN head \ {top})
<1> DEFINE S == IF Size(top) - MinSize >= MinSize THEN {top} ELSE {}
<1>1. /\ Mem /\ Parted(Ord, Binned, Fasted, Held, InHand) /\ Size(top) \in Nat
      /\ top \notin Ord /\ \A a \in Ord : a \in DOMAIN head /\ a # top
  BY ChunkFacts
<1>2. MinSize \in Nat
  BY Constants
<1>3. IsNewHeap(head', k, m, S)
  <2>1. CASE Size(top) - MinSize >= MinSize
    <3>1. IsNewHeap(RetireLarge(k, m), k, m, {top})
      BY <2>1, <1>1, RetireLargeSound
    <3> QED BY <3>1, <2>1
  <2>2. CASE ~(Size(top) - MinSize >= MinSize)
    <3>0. Size(top) - MinSize < MinSize
      BY ONLY <2>2, <1>1, <1>2
    <3>1. IsNewHeap(RetireSmall(k, m), k, m, {})
      BY <3>0, <1>1, RetireSmallSound
    <3> QED BY <3>1, <2>2
  <2> QED BY <2>1, <2>2
<1>4. /\ MemorySound(head', top', heapSize', chain', Binned) /\ Ord' = Ord \cup S
      /\ head'[top'].size = m - HeapInfo /\ \A x \in DOMAIN head \ {top} : head'[x] = head[x]
  BY <1>3 DEF IsNewHeap, Ord
<1>5. InHand' = S
  OBVIOUS
<1>6. SameSizes(head, head', DOMAIN head \ {top})
  BY <1>4 DEF SameSizes
<1>7. SameSizes(head, head', Binned) /\ SameSizes(head, head', Fasted)
  BY <1>1, <1>6 DEF SameSizes, Parted
<1>8. Parted(Ord', Binned, Fasted, Held, InHand')
  <2>1. S \cap Ord = {} /\ InHand = {}
    BY <1>1
  <2> HIDE DEF S
  <2> QED BY ONLY <2>1, <1>1, <1>4, <1>5 DEF Parted
<1> QED BY <1>4, <1>6, <1>7, <1>8, UsedStep

-----------------------------------------------------------------------------
(* _int_free, malloc_consolidate and heap_trim.                            *)

\* A chunk that is freed joins the lists of free chunks or the top chunk;
\* of the others that are in use nothing changes.
LEMMA ReleaseCore ==
  ASSUME Structure, NEW a \in Ord, a \notin Binned, Release(a), UNCHANGED <<marked, heapSize, chain>>
  PROVE  /\ MemorySound(head', top', heapSize', chain', Binned') /\ ListsSound(bins', marked', head')
         /\ Ord' \ Binned' = (Ord \ Binned) \ {a} /\ Binned' \subseteq Ord'
         /\ SameSizes(head, head', (Ord \ Binned) \ {a})
         /\ IsReleased(head', a) /\ top' = (IF AtTop(a) THEN Start(a) ELSE top)
         /\ \A i \in BinIds \ {Unsorted} : bins[i] = <<>> => bins'[i] = <<>>
<1> DEFINE s == Start(a)
           nx == NextChunk(a)
           b1 == Unlinked(bins, s)
           b2 == IF Joins(a) THEN Unlinked(b1, nx) ELSE b1
           k == Released(a)
<1>1. /\ Typed(head) /\ Mem /\ ListsSound(bins, marked, head) /\ Binned = InBins(bins)
      /\ Parted(Ord, Binned, Fasted, Held, InHand)
      /\ \A x \in Ord : x \in DOMAIN head /\ x \in Nat
  BY ChunkFacts
<1>2. IsReleased(k, a)
  BY <1>1, ReleasedSound
<1>3. head' = k /\ top' = IF AtTop(a) THEN s ELSE top
  BY DEF Release, Released, Whole, Gone
<1>4. bins' = IF AtTop(a) THEN b2 ELSE OnFront(b2, s)
  <2>1. b2 = [i \in BinIds |-> IF Joins(a) THEN Without(Without(bins[i], s), nx) ELSE Without(bins[i], s)]
    <3>1. CASE Joins(a)
      BY <3>1 DEF Unlinked
    <3>2. CASE ~Joins(a)
      BY <3>2 DEF Unlinked
    <3> QED BY <3>1, <3>2
  <2> QED BY <2>1 DEF Release, OnFront
<1> HIDE DEF s, nx, b1, b2, k
<1>5. /\ MemorySound(k, IF AtTop(a) THEN s ELSE top, heapSize, chain, IF AtTop(a) THEN Binned \ {s} ELSE (Binned \ {nx}) \cup {s})
      /\ OrdinaryOf(k, IF AtTop(a) THEN s ELSE top, OldEnds)
          = IF AtTop(a) THEN Ord \ {a, s} ELSE (IF Joins(a) THEN Ord \ {a, nx} ELSE Ord \ {a}) \cup {s}
      /\ s \in Binned \cup {a} /\ s \in Nat /\ nx # s /\ nx # a
      /\ ~AtTop(a) => (Joins(a) <=> nx \in Binned)
      /\ \A x \in DOMAIN k \ {s} : x \in DOMAIN head /\ k[x].size = head[x].size
  BY <1>2 DEF IsReleased, s, nx
<1>6. nx \in Nat /\ (AtTop(a) => Joins(a) /\ nx = top)
  BY <1>1, Around DEF nx, AtTop, Joins
<1>7. AtTop(a) => nx \notin Binned
  BY <1>1, <1>6, ChunkFacts DEF Parted
<1> DEFINE B2 == IF AtTop(a) THEN Binned \ {s} ELSE (Binned \ {nx}) \cup {s}
           O2 == IF AtTop(a) THEN Ord \ {a, s} ELSE (IF Joins(a) THEN Ord \ {a, nx} ELSE Ord \ {a}) \cup {s}
           N2 == (Binned \ {s}) \ {nx}
           t2 == IF AtTop(a) THEN s ELSE top
<1>8. N2 \subseteq B2 /\ B2 \subseteq O2 /\ O2 \ B2 = (Ord \ Binned) \ {a}
  <2>1. Binned \subseteq Ord
    BY <1>1 DEF Parted
  <2>2. CASE AtTop(a)
    BY <2>1, <2>2, <1>5
  <2>3. CASE ~AtTop(a) /\ Joins(a)
    BY <2>1, <2>3, <1>5
  <2>4. CASE ~AtTop(a) /\ ~Joins(a)
    BY <2>1, <2>4, <1>5
  <2> QED BY <2>2, <2>3, <2>4
<1> HIDE DEF O2, B2, t2
<1>9. MemorySound(k, t2, heapSize, chain, B2) /\ OrdinaryOf(k, t2, OldEnds) = O2
  BY <1>5 DEF B2, O2, t2
<1>10. O2 \subseteq DOMAIN k /\ \A x \in O2 \ {s} : k[x].size = head[x].size
  BY <1>5, <1>9 DEF OrdinaryOf
<1>11. SameSizes(head, k, N2) /\ SameSizes(head, k, (Ord \ Binned) \ {a})
  <2>1. N2 \subseteq O2 \ {s}
    BY <1>8
  <2>2. (Ord \ Binned) \ {a} \subseteq O2 \ {s}
    BY <1>5, <1>8
  <2> QED BY <2>1, <2>2, <1>10 DEF SameSizes
<1> HIDE DEF N2
<1>12. ListsSound(b2, marked, k) /\ InBins(b2) = IF Joins(a) THEN N2 ELSE Binned \ {s}
  <2>1. ASSUME NEW z, SameSizes(head, z, Binned \ {s})
        PROVE  ListsSound(b1, marked, z) /\ InBins(b1) = Binned \ {s}
    BY <2>1, <1>1, <1>5, UnlinkedSound DEF IsUnlinked, b1
  <2>2. SameSizes(head, head, Binned \ {s})
    BY DEF SameSizes
  <2>3. CASE ~Joins(a)
    <3>1. ~AtTop(a)
      BY <2>3, <1>6
    <3>2. Binned \ {s} = N2
      BY <3>1, <2>3, <1>5 DEF N2
    <3> QED BY <3>2, <2>1, <2>3, <1>11 DEF b2
  <2>4. CASE Joins(a)
    <3>1. ListsSound(b1, marked, head) /\ InBins(b1) = Binned \ {s}
      BY <2>1, <2>2
    <3>2. SameSizes(head, k, InBins(b1) \ {nx})
      BY <3>1, <1>11 DEF N2
    <3>3. IsUnlinked(Unlinked(b1, nx), b1, marked, k, nx)
      BY <3>1, <3>2, <1>6, UnlinkedSound
    <3> QED BY <3>1, <3>3, <2>4 DEF IsUnlinked, b2, N2
  <2> QED BY <2>3, <2>4
<1>13. ListsSound(bins', marked, k) /\ InBins(bins') = B2
  <2>1. CASE AtTop(a)
    <3>1. N2 = B2
      BY <2>1, <1>7 DEF B2, N2
    <3> QED BY <3>1, <2>1, <1>4, <1>6, <1>12
  <2>2. CASE ~AtTop(a)
    <3>1. InBins(b2) \cup {s} = B2 /\ s \notin InBins(b2)
      BY <2>2, <1>5, <1>12 DEF B2, N2
    <3>2. IsOnFront(OnFront(b2, s), b2, marked, k, s)
      BY <3>1, <1>5, <1>12, OnFrontSound
    <3> QED BY <3>1, <3>2, <2>2, <1>4 DEF IsOnFront
  <2> QED BY <2>1, <2>2
<1>14. Binned' = B2 /\ Ord' = O2
  BY <1>3, <1>9, <1>13 DEF Binned, InBins, Ord, OldEnds, t2
<1>15. \A i \in BinIds \ {Unsorted} : bins[i] = <<>> => bins'[i] = <<>>
  <2>1. ASSUME NEW c, NEW x PROVE \A i \in BinIds : c[i] = <<>> => Unlinked(c, x)[i] = <<>>
    BY DEF Unlinked, Without, Range
  <2>2. \A i \in BinIds : bins[i] = <<>> => b2[i] = <<>>
    BY <2>1 DEF b1, b2
  <2>3. \A i \in BinIds \ {Unsorted} : OnFront(b2, s)[i] = b2[i]
    <3>1. DOMAIN b2 = BinIds
      BY <1>12 DEF ListsSound
    <3> QED BY <3>1 DEF OnFront
  <2> QED BY <2>2, <2>3, <1>4
<1>16. MemorySound(head', top', heapSize', chain', Binned')
  BY <1>3, <1>9, <1>14 DEF t2
<1>17. ListsSound(bins', marked', head')
  BY <1>3, <1>13
<1> QED BY <1>2, <1>3, <1>8, <1>11, <1>14, <1>15, <1>16, <1>17 DEF s

\* The chunks that are not free: what the lists and the calls have of them.
LEMMA InUse ==
  ASSUME Structure
  PROVE  Ord \ Binned = Fasted \cup Held \cup InHand
BY ChunkFacts DEF Parted

\* A chunk in hand goes to its fastbin.
LEMMA FreeFastStep ==
  ASSUME Structure, pc = "free", FreeFast, InHand' = InHand \ {p}
  PROVE  Structure' /\ SameSizes(head, head', DOMAIN head) /\ Binned' = Binned
<1> DEFINE n == Size(p)
<1>1. /\ Typed(head) /\ Mem /\ ListsSound(bins, marked, head) /\ Binned = InBins(bins)
      /\ Parted(Ord, Binned, Fasted, Held, InHand)
      /\ \A a \in Ord : a \in DOMAIN head /\ a \in Nat /\ Size(a) \in Nat /\ Size(a) >= MinSize
  BY ChunkFacts
<1>2. p \in InHand /\ p \in Ord /\ p \notin Fasted /\ p \in Nat
  BY <1>1, InHandIs DEF Parted
<1>3. FastSound
  BY DEF Structure
<1>4. n \in MinSize..MaxFast
  BY <1>1, <1>2, Constants DEF FreeFast
<1>5. /\ fast[n] \in Seq(Nat) /\ IsInjective(fast[n]) /\ p \notin Range(fast[n]) /\ DOMAIN fast = MinSize..MaxFast
  BY <1>2, <1>3, <1>4 DEF FastSound, Fasted
<1>6. /\ <<p>> \o fast[n] \in Seq(Nat) /\ IsInjective(<<p>> \o fast[n])
      /\ Range(<<p>> \o fast[n]) = Range(fast[n]) \cup {p}
  BY ONLY <1>2, <1>5, InFrontIs
<1>7. UNCHANGED <<head, bins, marked, top, heapSize, chain, block>> /\ haveFast'
  BY DEF FreeFast, heaps, program
<1>8. /\ DOMAIN fast' = DOMAIN fast /\ fast'[n] = <<p>> \o fast[n]
      /\ \A m \in DOMAIN fast \ {n} : fast'[m] = fast[m]
  BY <1>4, <1>5 DEF FreeFast
<1>9. Size(p) = n /\ \A m \in DOMAIN fast : IsInjective(fast[m]) /\ \A a \in Range(fast[m]) : Size(a) = m
  BY <1>3 DEF FastSound
<1> HIDE DEF n
<1>10. fast' \in [MinSize..MaxFast -> Seq(Nat)]
  <2>1. \A m \in MinSize..MaxFast : fast'[m] \in Seq(Nat)
    BY <1>3, <1>4, <1>5, <1>6, <1>8 DEF FastSound
  <2>2. fast' = [m \in DOMAIN fast' |-> fast'[m]]
    BY DEF FreeFast
  <2> QED BY <2>1, <2>2, <1>5, <1>8
<1>11. FastSound'
  <2>1. ASSUME NEW m \in DOMAIN fast'
        PROVE  IsInjective(fast'[m]) /\ \A a \in Range(fast'[m]) : Size(a) = m
    <3>1. CASE m = n
      BY <3>1, <1>4, <1>5, <1>6, <1>8, <1>9
    <3>2. CASE m # n
      BY <3>2, <1>8, <1>9
    <3> QED BY <3>1, <3>2
  <2>2. \A a : Size(a)' = Size(a)
    BY <1>7 DEF Size
  <2> QED BY <2>1, <2>2, <1>7, <1>10 DEF FastSound
<1>12. Fasted' = Fasted \cup {p}
  BY <1>4, <1>5, <1>6, <1>8 DEF Fasted
<1>13. Ord' = Ord /\ Binned' = Binned
  BY <1>7 DEF Ord, Binned
<1>14. Parted(Ord', Binned', Fasted', Held, InHand')
  BY <1>1, <1>2, <1>12, <1>13 DEF Parted
<1>15. MemorySound(head', top', heapSize', chain', Binned') /\ ListsSound(bins', marked', head')
  BY <1>1, <1>7, <1>13 DEF Mem
<1>16. SameSizes(head, head', DOMAIN head)
  BY <1>7 DEF SameSizes
<1> QED BY <1>7, <1>11, <1>13, <1>14, <1>15, <1>16, NewStructure

\* A chunk in hand is released.
LEMMA FreeMergeStep ==
  ASSUME Structure, pc = "free", Release(p), InHand' = InHand \ {p},
         UNCHANGED <<fast, marked, heapSize, chain, block>>,
         haveFast' = haveFast \/ pc' = "consolidate" \/ ~haveFast
  PROVE  /\ Structure' /\ SameSizes(head, head', (Ord \ Binned) \ {p})
         /\ IsReleased(head', p) /\ top' = (IF AtTop(p) THEN Start(p) ELSE top)
         /\ p \in Ord /\ p \notin Binned
         /\ \A i \in BinIds \ {Unsorted} : bins[i] = <<>> => bins'[i] = <<>>
<1>1. Parted(Ord, Binned, Fasted, Held, InHand)
  BY ChunkFacts
<1>2. p \in InHand /\ p \in Ord /\ p \notin Binned /\ p \notin Fasted
  BY <1>1, InHandIs DEF Parted
<1>3. /\ MemorySound(head', top', heapSize', chain', Binned') /\ ListsSound(bins', marked', head')
      /\ Ord' \ Binned' = (Ord \ Binned) \ {p} /\ Binned' \subseteq Ord'
      /\ SameSizes(head, head', (Ord \ Binned) \ {p})
      /\ IsReleased(head', p) /\ top' = (IF AtTop(p) THEN Start(p) ELSE top)
      /\ \A i \in BinIds \ {Unsorted} : bins[i] = <<>> => bins'[i] = <<>>
  BY <1>2, ReleaseCore
<1>4. SameSizes(head, head', Fasted)
  BY <1>1, <1>2, <1>3 DEF SameSizes, Parted
<1>5. FastSound' /\ Fasted' = Fasted
  BY <1>4, FlagHolds, FastKept
<1>6. Parted(Ord', Binned', Fasted', Held, InHand')
  BY <1>1, <1>2, <1>3, <1>5 DEF Parted
<1> QED BY <1>2, <1>3, <1>5, <1>6, NewStructure

\* malloc_consolidate releases the chunks of the fastbins one by one.
LEMMA ConsolidateStep ==
  ASSUME Structure, ConsolidateOne
  PROVE  /\ Structure' /\ SameSizes(head, head', Held) /\ SameSizes(head, head', InHand)
         /\ \A i \in BinIds \ {Unsorted} : bins[i] = <<>> => bins'[i] = <<>>
<1>1. /\ Parted(Ord, Binned, Fasted, Held, InHand) /\ FastSound
  BY ChunkFacts DEF Structure
<1>2. /\ pc = "consolidate" /\ UNCHANGED <<marked, heapSize, chain, block, pc, result, p, haveFast>>
  BY DEF ConsolidateOne, heaps, program, locals
<1>3. PICK n \in DOMAIN fast : fast[n] # <<>> /\ Release(Head(fast[n])) /\ fast' = [fast EXCEPT ![n] = Tail(@)]
  BY DEF ConsolidateOne
<1> DEFINE v == Head(fast[n])
<1>4. /\ Tail(fast[n]) \in Seq(Nat) /\ IsInjective(Tail(fast[n]))
      /\ v \in Range(fast[n]) /\ Range(Tail(fast[n])) = Range(fast[n]) \ {v}
  <2>1. fast[n] \in Seq(Nat) /\ IsInjective(fast[n]) /\ fast[n] # <<>>
    BY <1>1, <1>3 DEF FastSound
  <2> QED BY ONLY <2>1, TailIs
<1>5. Release(v)
  BY <1>3
<1> HIDE DEF v
<1>6. v \in Fasted /\ v \in Ord /\ v \notin Binned
  BY <1>1, <1>4 DEF Fasted, Parted
<1>7. /\ MemorySound(head', top', heapSize', chain', Binned') /\ ListsSound(bins', marked', head')
      /\ Ord' \ Binned' = (Ord \ Binned) \ {v} /\ Binned' \subseteq Ord'
      /\ SameSizes(head, head', (Ord \ Binned) \ {v})
      /\ \A i \in BinIds \ {Unsorted} : bins[i] = <<>> => bins'[i] = <<>>
  BY <1>2, <1>5, <1>6, ReleaseCore
<1>8. DOMAIN fast' = DOMAIN fast /\ fast'[n] = Tail(fast[n]) /\ \A m \in DOMAIN fast \ {n} : fast'[m] = fast[m]
  BY <1>3
<1>9. \A m \in DOMAIN fast \ {n} : v \notin Range(fast[m])
  <2>1. \A m \in DOMAIN fast : v \in Range(fast[m]) => Size(v) = m
    BY <1>1 DEF FastSound
  <2> QED BY <2>1, <1>4
<1>10. Fasted' = Fasted \ {v}
  BY <1>4, <1>8, <1>9 DEF Fasted
<1>11. SameSizes(head, head', Fasted') /\ SameSizes(head, head', Held) /\ SameSizes(head, head', InHand)
  BY <1>1, <1>6, <1>7, <1>10 DEF SameSizes, Parted
<1>12. FastSound'
  <2>1. fast' \in [MinSize..MaxFast -> Seq(Nat)]
    BY <1>1, <1>4, <1>8, <1>3 DEF FastSound
  <2>2. \A m \in DOMAIN fast' : IsInjective(fast'[m]) /\ Range(fast'[m]) \subseteq Range(fast[m])
    BY <1>1, <1>4, <1>8 DEF FastSound
  <2>3. \A m \in DOMAIN fast' : \A a \in Range(fast'[m]) : head'[a].size = m
    <3>1. \A m \in DOMAIN fast' : Range(fast'[m]) \subseteq Fasted'
      BY DEF Fasted
    <3>2. \A m \in DOMAIN fast : \A a \in Range(fast[m]) : head[a].size = m
      BY <1>1 DEF FastSound, Size
    <3> QED BY <3>1, <3>2, <2>2, <1>8, <1>11 DEF SameSizes
  <2> QED BY <2>1, <2>2, <2>3, <1>2 DEF FastSound, Size
<1>13. InHand' = InHand
  BY <1>2 DEF InHand, Held, LiveSlots
<1>14. Parted(Ord', Binned', Fasted', Held, InHand')
  BY <1>1, <1>6, <1>7, <1>10, <1>13 DEF Parted
<1> QED BY <1>2, <1>7, <1>11, <1>12, <1>14, NewStructure

\* heap_trim drops a heap.
LEMMA DropHeapStep ==
  ASSUME Structure, DropHeap
  PROVE  /\ Structure' /\ head'[top'].size = Ending /\ top' = Start(Fence)
         /\ SameSizes(head, head', Held) /\ SameSizes(head, head', InHand)
         /\ \A i \in BinIds : bins[i] = <<>> => bins'[i] = <<>>
         /\ IsDropDone(head', Start(Fence))
<1> DEFINE s == Start(Fence)
<1>1. /\ Mem /\ ListsSound(bins, marked, head) /\ Binned = InBins(bins)
      /\ Parted(Ord, Binned, Fasted, Held, InHand)
      /\ \A a \in Ord : a \in DOMAIN head /\ a \in Nat
  BY ChunkFacts
<1>2. /\ pc = "trim" /\ HeapEmpty /\ UNCHANGED <<marked, fast, haveFast, block, pc, result, p, heapSize>>
      /\ chain' = Front(chain) /\ top' = s
      /\ head' = DropHead(s)
      /\ bins' = IF s = Fence THEN bins ELSE Unlink(s)
  BY DEF DropHeap, WorthDropping, program, locals, DropHead
<1>3. IsDropDone(DropHead(s), s)
  BY <1>1, <1>2, DropSound
<1>4. IsDropDone(head', s)
  BY <1>2, <1>3
<1> HIDE DEF s
<1>5. /\ MemorySound(head', top', heapSize', chain', Binned \ {s})
      /\ Ord' = Ord \ {s}
      /\ s # Fence => s \in Binned
      /\ head'[s].size = Ending
      /\ \A x \in DOMAIN head' \ {s} : x \in DOMAIN head /\ head'[x] = head[x]
  BY <1>2, <1>4 DEF IsDropDone, Ord, OldEnds
<1>6. Fence \notin Ord /\ Fence \notin Binned
  BY <1>1, <1>2, FenceHere
<1>7. Ord' \subseteq DOMAIN head' /\ s \notin Ord'
  BY <1>5 DEF Ord, OrdinaryOf
<1>8. SameSizes(head, head', Ord')
  BY <1>5, <1>7 DEF SameSizes
<1>9. (Ord \ Binned) \subseteq Ord' /\ (Binned \ {s}) \subseteq Ord'
  BY <1>1, <1>5, <1>6 DEF Parted
<1>10. /\ SameSizes(head, head', Held) /\ SameSizes(head, head', InHand)
       /\ SameSizes(head, head', Fasted) /\ SameSizes(head, head', Binned \ {s})
  BY <1>1, <1>8, <1>9 DEF SameSizes, Parted
<1>11. InHand' = InHand
  BY <1>2 DEF InHand, Held, LiveSlots
<1>12. Parted(Ord', Binned \ {s}, Fasted, Held, InHand')
  BY <1>1, <1>5, <1>6, <1>11 DEF Parted
<1>13. Structure' /\ \A i \in BinIds : bins[i] = <<>> => bins'[i] = <<>>
  <2>1. CASE s = Fence
    <3>1. Binned \ {s} = Binned
      BY <2>1, <1>6
    <3> QED BY <3>1, <2>1, <1>2, <1>5, <1>10, <1>12, UsedStep
  <2>2. CASE s # Fence
    BY <2>2, <1>2, <1>5, <1>10, <1>12, UnlinkStep
  <2> QED BY <2>1, <2>2
<1> QED BY <1>2, <1>4, <1>5, <1>10, <1>13 DEF s

-----------------------------------------------------------------------------
(* _int_realloc and _int_memalign.                                         *)

\* A chunk that is in use is cut in two; the second part is in hand.
LEMMA CutStep ==
  ASSUME Structure, pc # "consolidate", NEW a \in Held \cup InHand, NEW n \in Nat,
         IsCutOff(head', a, n), InHand' = InHand \cup {a + n},
         UNCHANGED <<top, heapSize, chain, bins, marked, fast, haveFast, block>>
  PROVE  /\ Structure' /\ SameSizes(head, head', Ord \ {a})
         /\ head'[a].size = n /\ head'[a + n].size = Size(a) - n
         /\ a + n \notin Ord /\ a + n \in Nat /\ a + n # 0 /\ a \in Ord /\ Binned' = Binned
<1>1. /\ Parted(Ord, Binned, Fasted, Held, InHand)
      /\ top \notin Ord /\ \A x \in Ord : x \in DOMAIN head
  BY ChunkFacts
<1>2. a \in Ord /\ a # top /\ a \notin Binned /\ a \notin Fasted
  BY <1>1 DEF Parted
<1>3. /\ MemorySound(head', top, heapSize, chain, Binned)
      /\ OrdinaryOf(head', top, OldEnds) = Ord \cup {a + n}
      /\ a + n \notin DOMAIN head /\ a + n \in Nat
      /\ head'[a].size = n /\ head'[a + n].size = Size(a) - n
      /\ \A x \in DOMAIN head \ {a} : head'[x] = head[x]
  BY <1>2 DEF IsCutOff
<1>4. SameSizes(head, head', Ord \ {a})
  BY <1>1, <1>3 DEF SameSizes
<1>5. SameSizes(head, head', Binned) /\ SameSizes(head, head', Fasted)
  BY <1>1, <1>2, <1>4 DEF SameSizes, Parted
<1>6. Ord' = Ord \cup {a + n} /\ a + n \notin Ord
  BY <1>1, <1>3 DEF Ord, OldEnds
<1>7. Parted(Ord', Binned, Fasted, Held, InHand')
  <2> DEFINE w == a + n
  <2>1. Ord' = Ord \cup {w} /\ w \notin Ord /\ InHand' = InHand \cup {w}
    BY <1>6
  <2> HIDE DEF w
  <2> QED BY ONLY <2>1, <1>1 DEF Parted
<1>8. Structure' /\ Binned' = Binned
  BY <1>3, <1>5, <1>7, UsedStep
<1>9. a + n # 0
  <2>1. a \in Nat /\ a # 0
    BY <1>2, ChunkFacts
  <2> QED BY ONLY <2>1, n \in Nat
<1> QED BY <1>2, <1>3, <1>4, <1>6, <1>8, <1>9

\* The block grows into the top chunk.
LEMMA IntoTopStep ==
  ASSUME Structure, pc # "consolidate", NEW a \in Held, NEW n \in Nat,
         NextChunk(a) = top, n > Size(a), Size(a) + Size(top) - n >= MinSize,
         head' = IntoTopHead(a, n), top' = a + n, InHand' = InHand,
         UNCHANGED <<heapSize, chain, bins, marked, fast, haveFast, block>>
  PROVE  /\ Structure' /\ SameSizes(head, head', Ord \ {a}) /\ head'[a].size = n
<1>1. /\ Mem /\ Parted(Ord, Binned, Fasted, Held, InHand)
      /\ top \notin Ord /\ \A x \in Ord : x \in DOMAIN head
  BY ChunkFacts
<1>2. a \in Ord /\ a \notin Binned /\ a \notin Fasted
  BY <1>1 DEF Parted
<1>3. IsIntoTop(IntoTopHead(a, n), a, n)
  BY <1>1, <1>2, IntoTopSound
<1>4. /\ MemorySound(head', top', heapSize', chain', Binned) /\ Ord' = Ord
      /\ head'[a].size = n /\ \A x \in DOMAIN head \ {a, top} : head'[x] = head[x]
  BY <1>3 DEF IsIntoTop, Ord, OldEnds
<1>5. SameSizes(head, head', Ord \ {a})
  BY <1>1, <1>4 DEF SameSizes
<1>6. SameSizes(head, head', Binned) /\ SameSizes(head, head', Fasted)
  BY <1>1, <1>2, <1>5 DEF SameSizes, Parted
<1> QED BY <1>1, <1>4, <1>5, <1>6, UsedStep

\* The block takes all of the free chunk behind it.
LEMMA IntoNextStep ==
  ASSUME Structure, pc # "consolidate", NEW a \in Held, NextChunk(a) \in Binned,
         head' = IntoNextWhole(a, NextChunk(a), Size(a) + Size(NextChunk(a))),
         bins' = Unlink(NextChunk(a)), InHand' = InHand,
         UNCHANGED <<top, heapSize, chain, marked, fast, haveFast, block>>
  PROVE  /\ Structure' /\ SameSizes(head, head', (Ord \ Binned) \ {a})
         /\ head'[a].size = Size(a) + Size(NextChunk(a))
         /\ \A i \in BinIds : bins[i] = <<>> => bins'[i] = <<>>
<1> DEFINE nx == NextChunk(a)
           total == Size(a) + Size(nx)
<1>1. /\ Mem /\ Parted(Ord, Binned, Fasted, Held, InHand)
      /\ top \notin Ord /\ \A x \in Ord : x \in DOMAIN head
  BY ChunkFacts
<1>2. a \in Ord /\ a \notin Binned /\ a \notin Fasted
  BY <1>1 DEF Parted
<1>3. head' = IntoNextWhole(a, nx, total) /\ total = Size(a) + Size(nx)
      /\ nx = NextChunk(a) /\ nx \in Binned /\ bins' = Unlink(nx)
  OBVIOUS
<1> HIDE DEF nx, total
<1>4. /\ MemorySound(head', top, heapSize, chain, Binned \ {nx})
      /\ OrdinaryOf(head', top, OldEnds) = Ord \ {nx}
      /\ head'[a].size = total
      /\ \A x \in DOMAIN head \ {a, nx} : head'[x].size = head[x].size
  <2>1. Mem /\ a \in Ord /\ a \notin Binned /\ nx = NextChunk(a) /\ nx \in Binned /\ total = Size(a) + Size(nx)
    BY <1>1, <1>2, <1>3
  <2>2. IsIntoNext(IntoNextWhole(a, nx, total), a, nx, total)
    BY ONLY <2>1, IntoNextSound
  <2> QED BY <2>2, <1>3 DEF IsIntoNext
<1>5. Ord' = Ord \ {nx}
  BY <1>4 DEF Ord, OldEnds
<1>6. SameSizes(head, head', (Ord \ {nx}) \ {a})
  BY <1>1, <1>4 DEF SameSizes
<1>7. /\ SameSizes(head, head', Binned \ {nx}) /\ SameSizes(head, head', Fasted)
      /\ SameSizes(head, head', (Ord \ Binned) \ {a})
  BY <1>1, <1>2, <1>3, <1>6 DEF SameSizes, Parted
<1>8. Parted(Ord', Binned \ {nx}, Fasted, Held, InHand')
  BY <1>1, <1>3, <1>5 DEF Parted
<1>9. Structure' /\ \A i \in BinIds : bins[i] = <<>> => bins'[i] = <<>>
  BY <1>3, <1>4, <1>7, <1>8, UnlinkStep
<1> QED BY <1>4, <1>7, <1>9 DEF nx, total

\* It takes a part; the rest is in hand.
LEMMA IntoNextSplitStep ==
  ASSUME Structure, pc # "consolidate", NEW a \in Held, NextChunk(a) \in Binned,
         NEW n \in Nat, n >= MinSize, n >= Size(a), Size(a) + Size(NextChunk(a)) - n >= MinSize,
         head' = SplitHead(Forget(head, {NextChunk(a)}), a, n, Size(a) + Size(NextChunk(a))),
         bins' = Unlink(NextChunk(a)), InHand' = InHand \cup {a + n}, InHand = {},
         UNCHANGED <<top, heapSize, chain, marked, fast, haveFast, block>>
  PROVE  /\ Structure' /\ SameSizes(head, head', (Ord \ Binned) \ {a}) /\ head'[a].size = n
         /\ \A i \in BinIds : bins[i] = <<>> => bins'[i] = <<>>
         /\ a + n \notin Held /\ a + n # 0
<1> DEFINE nx == NextChunk(a)
           total == Size(a) + Size(nx)
           w == a + n
<1>1. /\ Mem /\ Parted(Ord, Binned, Fasted, Held, InHand)
      /\ top \notin Ord /\ \A x \in Ord : x \in DOMAIN head
  BY ChunkFacts
<1>2. a \in Ord /\ a \notin Binned /\ a \notin Fasted
  BY <1>1 DEF Parted
<1>3. head' = SplitHead(Forget(head, {nx}), a, n, total) /\ total = Size(a) + Size(nx)
      /\ nx = NextChunk(a) /\ nx \in Binned /\ bins' = Unlink(nx)
  OBVIOUS
<1>30. total - n >= MinSize
  <2>1. Size(a) \in Nat /\ Size(nx) \in Nat /\ MinSize \in Nat
    BY <1>1, <1>2, <1>3, ChunkFacts, Constants DEF Parted
  <2>2. Size(a) + Size(nx) - n >= MinSize /\ n \in Nat
    OBVIOUS
  <2> HIDE DEF nx
  <2> QED BY ONLY <2>1, <2>2
<1> HIDE DEF nx, total
<1>4. /\ MemorySound(head', top, heapSize, chain, Binned \ {nx})
      /\ OrdinaryOf(head', top, OldEnds) = (Ord \ {nx}) \cup {a + n}
      /\ a + n \notin DOMAIN head \ {nx} /\ a + n \in Nat
      /\ head'[a].size = n
      /\ \A x \in DOMAIN head \ {a, nx} : head'[x].size = head[x].size
  <2>1. Mem /\ a \in Ord /\ a \notin Binned /\ nx = NextChunk(a) /\ nx \in Binned /\ total = Size(a) + Size(nx)
        /\ n \in Nat /\ n >= MinSize /\ total - n >= MinSize /\ n >= Size(a)
    BY <1>1, <1>2, <1>3, <1>30
  <2>2. IsIntoNextSplit(SplitHead(Forget(head, {nx}), a, n, total), a, nx, n, total)
    BY ONLY <2>1, IntoNextSplitSound
  <2> QED BY <2>2, <1>3 DEF IsIntoNextSplit
<1>5. Ord' = (Ord \ {nx}) \cup {w} /\ InHand' = InHand \cup {w} /\ w \notin Ord \ {nx}
  BY <1>1, <1>4 DEF Ord, OldEnds
<1> HIDE DEF w
<1>6. SameSizes(head, head', (Ord \ {nx}) \ {a})
  BY <1>1, <1>4 DEF SameSizes
<1>7. /\ SameSizes(head, head', Binned \ {nx}) /\ SameSizes(head, head', Fasted)
      /\ SameSizes(head, head', (Ord \ Binned) \ {a})
  BY <1>1, <1>2, <1>3, <1>6 DEF SameSizes, Parted
<1>8. Parted(Ord', Binned \ {nx}, Fasted, Held, InHand') /\ w \notin Held
  BY <1>1, <1>3, <1>5 DEF Parted
<1>9. Structure' /\ \A i \in BinIds : bins[i] = <<>> => bins'[i] = <<>>
  BY <1>3, <1>4, <1>7, <1>8, UnlinkStep
<1>10. w # 0
  <2>1. a \in Nat /\ a # 0
    BY <1>2, ChunkFacts
  <2>2. a + n # 0
    BY ONLY <2>1, n \in Nat
  <2> QED BY <2>2 DEF w
<1> QED BY <1>4, <1>5, <1>7, <1>8, <1>9, <1>10 DEF w

\* The block takes a part of the chunk malloc found behind it.
LEMMA JoinStep ==
  ASSUME Structure, pc # "consolidate", NEW a \in Held, InHand = {NextChunk(a)},
         NEW n \in Nat, n >= MinSize, n > Size(a), Size(NextChunk(a)) >= n,
         head' = SplitHead(Forget(head, {NextChunk(a)}), a, n, Size(a) + Size(NextChunk(a))),
         InHand' = {a + n},
         UNCHANGED <<top, heapSize, chain, bins, marked, fast, haveFast, block>>
  PROVE  /\ Structure' /\ SameSizes(head, head', Held \ {a}) /\ head'[a].size = n
         /\ a + n \notin Held /\ a + n # 0
<1> DEFINE nx == NextChunk(a)
           total == Size(a) + Size(nx)
           w == a + n
<1>1. /\ Mem /\ Parted(Ord, Binned, Fasted, Held, InHand)
      /\ top \notin Ord /\ \A x \in Ord : x \in DOMAIN head
  BY ChunkFacts
<1>2. a \in Ord /\ a \notin Binned /\ a \notin Fasted /\ nx \in Ord /\ nx \notin Binned /\ nx \notin Fasted /\ nx \notin Held
  BY <1>1 DEF Parted
<1>3. head' = SplitHead(Forget(head, {nx}), a, n, Size(a) + Size(nx))
      /\ nx = NextChunk(a) /\ InHand = {nx} /\ Size(nx) >= n
  OBVIOUS
<1> HIDE DEF nx
<1>4. IsJoined(SplitHead(Forget(head, {nx}), a, n, Size(a) + Size(nx)), a, nx, n, Size(a) + Size(nx))
  BY <1>1, <1>2, <1>3, JoinedSound
<1> HIDE DEF total
<1>5. /\ MemorySound(head', top, heapSize, chain, Binned)
      /\ OrdinaryOf(head', top, OldEnds) = (Ord \ {nx}) \cup {a + n}
      /\ a + n \notin DOMAIN head \ {nx} /\ a + n \in Nat
      /\ head'[a].size = n
      /\ \A x \in DOMAIN head \ {a, nx} : head'[x].size = head[x].size
  BY <1>3, <1>4 DEF IsJoined
<1>6. Ord' = (Ord \ {nx}) \cup {w} /\ InHand' = {w} /\ w \notin Ord \ {nx}
  BY <1>1, <1>5 DEF Ord, OldEnds
<1> HIDE DEF w
<1>7. SameSizes(head, head', (Ord \ {nx}) \ {a})
  BY <1>1, <1>5 DEF SameSizes
<1>8. /\ SameSizes(head, head', Binned) /\ SameSizes(head, head', Fasted) /\ SameSizes(head, head', Held \ {a})
  BY <1>1, <1>2, <1>7 DEF SameSizes, Parted
<1>9. Parted(Ord', Binned, Fasted, Held, InHand') /\ w \notin Held
  BY <1>1, <1>2, <1>3, <1>6 DEF Parted
<1>10. Structure'
  BY <1>5, <1>8, <1>9, UsedStep
<1>11. w # 0
  <2>1. a \in Nat /\ a # 0
    BY <1>2, ChunkFacts
  <2>2. a + n # 0
    BY ONLY <2>1, n \in Nat
  <2> QED BY <2>2 DEF w
<1> QED BY <1>5, <1>6, <1>8, <1>9, <1>10, <1>11 DEF w

-----------------------------------------------------------------------------
(* Words of memory.                                                        *)

\* The words of a chunk in use lie apart from all tags, from the footers
\* that hold something, from the links of free chunks and from the words of
\* other chunks; they are words of its heap.
LEMMA WordsApart ==
  ASSUME NEW h, NEW t, NEW hs, NEW ch, NEW G, MemorySound(h, t, hs, ch, G),
         NEW a \in OrdinaryOf(h, t, EndTags(hs, ch)), a \notin G
  PROVE  /\ \A x \in DOMAIN h : SizeWord(x) \notin UserWords(a, h[a].size)
         /\ \A x \in DOMAIN h : h[x].prev # 0 => PrevWord(x) \notin UserWords(a, h[a].size)
         /\ \A x \in OrdinaryOf(h, t, EndTags(hs, ch)) : x # a =>
              /\ LinkWords(x) \cap UserWords(a, h[a].size) = {}
              /\ UserWords(x, h[x].size) \cap UserWords(a, h[a].size) = {}
<1> DEFINE E == EndTags(hs, ch)
           O == OrdinaryOf(h, t, E)
<1>1. /\ Typed(h) /\ \A x \in DOMAIN h \ E : \A b \in DOMAIN h : b <= x \/ b >= Behind(h, x)
  BY DEF MemorySound, Tiled
<1>2. /\ a \in DOMAIN h /\ a \in Nat /\ h[a].size \in Nat /\ h[a].size >= MinSize
      /\ Behind(h, a) \in DOMAIN h /\ Behind(h, a) = a + h[a].size
      /\ h[Behind(h, a)].prev = 0
  BY BehindUsed
<1>3. \A x \in O : /\ x \in DOMAIN h \ (E \cup {t}) /\ x \in Nat /\ h[x].size \in Nat /\ h[x].size >= MinSize
                   /\ Behind(h, x) = x + h[x].size
  <2>1. \A x \in O : x \in DOMAIN h \ (E \cup {t}) /\ h[x].size >= MinSize
    BY Neighbours
  <2> QED BY <2>1, <1>1, TypedTags DEF Behind
<1>4. MinSize \in Nat /\ MinSize > 1
  BY Constants
<1>5. a \in DOMAIN h \ E
  BY <1>3
<1>6. \A x \in DOMAIN h : x \in Nat /\ (x <= a \/ x >= a + h[a].size)
  BY <1>1, <1>2, <1>5, TypedTags
<1>7. ASSUME NEW x \in DOMAIN h PROVE SizeWord(x) \notin UserWords(a, h[a].size)
  <2>1. x \in Nat /\ (x <= a \/ x >= a + h[a].size)
    BY <1>6
  <2> QED BY ONLY <2>1, <1>2 DEF SizeWord, UserWords
<1>8. ASSUME NEW x \in DOMAIN h, h[x].prev # 0 PROVE PrevWord(x) \notin UserWords(a, h[a].size)
  <2>1. x \in Nat /\ (x <= a \/ x >= a + h[a].size) /\ x # a + h[a].size
    BY <1>2, <1>6, <1>8
  <2> QED BY ONLY <2>1, <1>2 DEF PrevWord, UserWords
<1>9. ASSUME NEW x \in O, x # a
      PROVE  /\ LinkWords(x) \cap UserWords(a, h[a].size) = {}
             /\ UserWords(x, h[x].size) \cap UserWords(a, h[a].size) = {}
  <2>1. x \in Nat /\ h[x].size \in Nat /\ h[x].size >= MinSize /\ (x <= a \/ x >= a + h[a].size) /\ x # a
        /\ (a <= x \/ a >= x + h[x].size)
    BY <1>1, <1>2, <1>3, <1>6, <1>9
  <2> DEFINE n == h[a].size
             m == h[x].size
  <2>2. a \in Nat /\ n \in Nat /\ m \in Nat /\ x \in Nat
    BY <1>2, <2>1
  <2>3. (x >= a + n) \/ (a >= x + m /\ m > 1)
    BY ONLY <2>1, <1>2, <1>4
  <2> HIDE DEF n, m
  <2>4. \A w \in UserWords(a, n) : w \in Int /\ w >= 2 * a + 2 /\ w <= 2 * a + 2 * n
    BY <2>2 DEF UserWords
  <2>5. \A w \in UserWords(x, m) : w \in Int /\ w >= 2 * x + 2 /\ w <= 2 * x + 2 * m
    BY <2>2 DEF UserWords
  <2>6. \A w \in LinkWords(x) : w \in Int /\ w >= 2 * x + 2 /\ w <= 2 * x + 3
    BY <2>2 DEF LinkWords
  <2>7. \A w \in UserWords(a, n) : w \notin UserWords(x, m)
    BY ONLY <2>2, <2>3, <2>4, <2>5
  <2>8. \A w \in UserWords(a, n) : w \notin LinkWords(x)
    BY ONLY <2>2, <2>3, <2>4, <2>6
  <2> QED BY <2>7, <2>8 DEF n, m
<1> QED BY <1>7, <1>8, <1>9

\* They are words of its heap.
LEMMA WordsInHeap ==
  ASSUME Structure, NEW a \in Ord, NEW n \in Nat, n <= Size(a)
  PROVE  /\ UserWords(a, n) \subseteq Words(HeapOf(a)) /\ UserWords(a, n) \subseteq UserWords(a, Size(a))
         /\ UserWords(a, n) \subseteq Nat
<1>1. MemorySound(head, top, heapSize, chain, Binned) /\ Typed(head) /\ HeapsSound(heapSize, chain) /\ Tiled(head, top, heapSize, chain)
  BY DEF Structure, Mem, MemorySound
<1>2. /\ a \in DOMAIN head \ (EndTags(heapSize, chain) \cup {top})
      /\ Behind(head, a) \in DOMAIN head \ EndTags(heapSize, chain)
      /\ a \in Nat /\ Size(a) \in Nat
  BY <1>1, Neighbours, ChunkFacts DEF Ord
<1>3. HeapOf(Behind(head, a)) = HeapOf(a) /\ Behind(head, a) < EndOf(HeapOf(a), heapSize)
      /\ HeapOf(a) \in Range(chain)
  BY <1>1, <1>2 DEF Tiled
<1>4. /\ Base(HeapOf(a)) \in Nat /\ Base(HeapOf(a)) <= a
      /\ HeapEnd(HeapOf(a)) \in Nat /\ HeapEnd(HeapOf(a)) = EndOf(HeapOf(a), heapSize)
  BY <1>1, <1>2, <1>3, HeapFacts, HeapRange, BaseIsNat DEF HeapEnd, EndOf
<1>5. a + Size(a) < HeapEnd(HeapOf(a))
  BY <1>2, <1>3, <1>4 DEF Behind, Size
<1>6. UserWords(a, n) \subseteq Words(HeapOf(a))
  <2> DEFINE b == Base(HeapOf(a))
             e == HeapEnd(HeapOf(a))
             z == Size(a)
  <2>1. b \in Nat /\ b <= a /\ e \in Nat /\ a + z < e /\ a \in Nat /\ z \in Nat /\ n <= z /\ n \in Nat
    BY <1>2, <1>4, <1>5
  <2> HIDE DEF b, e, z
  <2>2. (2 * a + 2) .. (2 * a + 2 * n) \subseteq (2 * b) .. (2 * e - 1)
    BY ONLY <2>1
  <2> QED BY <2>2 DEF UserWords, Words, b, e
<1>7. UserWords(a, n) \subseteq UserWords(a, Size(a)) /\ UserWords(a, n) \subseteq Nat
  BY ONLY <1>2, n <= Size(a), n \in Nat DEF UserWords
<1> QED BY <1>6, <1>7

\* Nothing the engine writes lands in a chunk in use.
LEMMA WrittenElsewhere ==
  ASSUME Structure, Structure', NEW a \in Ord', a \notin Binned', a \notin Fasted'
  PROVE  Written \cap UserWords(a, head'[a].size) = {}
<1> DEFINE U == UserWords(a, head'[a].size)
<1>1. MemorySound(head', top', heapSize', chain', Binned') /\ a \in OrdinaryOf(head', top', EndTags(heapSize', chain'))
  BY DEF Structure, Mem, Ord
<1>2. Binned' \subseteq Ord' /\ Fasted' \subseteq Ord'
  BY DEF Structure, PlacesSound, Parted, Ord
<1>3. DOMAIN fast' = DOMAIN fast
  BY DEF Structure, FastSound
<1>4. Relinked \subseteq Binned' \cup Fasted'
  BY <1>3 DEF Relinked, Binned, Fasted
<1>5. /\ \A x \in DOMAIN head' : SizeWord(x) \notin U
      /\ \A x \in DOMAIN head' : head'[x].prev # 0 => PrevWord(x) \notin U
      /\ \A x \in OrdinaryOf(head', top', EndTags(heapSize', chain')) : x # a => LinkWords(x) \cap U = {}
  BY <1>1, WordsApart
<1>6. \A x \in Relinked : LinkWords(x) \cap U = {}
  BY <1>2, <1>4, <1>5 DEF Ord
<1> HIDE DEF U
<1>7. ASSUME NEW w \in Written
      PROVE  \/ \E b \in DOMAIN head' : w = SizeWord(b)
             \/ \E b \in DOMAIN head' : head'[b].prev # 0 /\ w = PrevWord(b)
             \/ \E x \in Relinked : w \in LinkWords(x)
  BY DEF Written, Footed
<1>8. \A w \in Written : w \notin U
  BY <1>5, <1>6, <1>7
<1> QED BY <1>8 DEF U

-----------------------------------------------------------------------------
(* What the program stored.                                                *)

\* The sizes of the chunks suffice.
Enough == \A s \in LiveSlots : Size(block[s].at) >= Kept(s)

\* The chunk of a block.
LEMMA BlockFacts ==
  ASSUME Structure, LocalsTyped, CallSound, NEW s \in LiveSlots
  PROVE  /\ block[s].at \in Held /\ block[s].at \in Ord /\ block[s].at \in Nat /\ block[s].n \in Nat
         /\ block[s].at \notin Binned /\ block[s].at \notin Fasted
         /\ s \in Slots /\ Kept(s) \in Nat /\ Size(block[s].at) \in Nat
<1>1. s \in Slots /\ block[s] \in [at : Nat, n : Nat] /\ block[s].at \in Held
  BY DEF LiveSlots, LocalsTyped, Held
<1>2. block[s].at \in Ord /\ block[s].at \notin Binned /\ block[s].at \notin Fasted
  BY <1>1, ChunkFacts DEF Parted
<1>3. Kept(s) \in Nat
  BY <1>1 DEF Kept, CallSound
<1> QED BY <1>1, <1>2, <1>3, ChunkFacts

\* Words of memory are numbers.
LEMMA MappedTyped ==
  ASSUME HeapsSound(heapSize, chain)
  PROVE  MappedWords \subseteq Nat
<1>1. \A g \in Heaps : Base(g) \in Nat /\ HeapEnd(g) \in Nat
  <2>1. \A g \in Heaps : Base(g) \in Nat
    BY BaseIsNat, Constants
  <2>2. \A g \in Heaps : heapSize[g] \in Nat
    BY Constants DEF HeapsSound
  <2> QED BY ONLY <2>1, <2>2 DEF HeapEnd
<1>2. \A g \in Heaps : Words(g) \subseteq Nat
  BY <1>1 DEF Words
<1> QED BY <1>2 DEF MappedWords

\* No store of the engine touches what the program stored in its blocks.
LEMMA DataKept ==
  ASSUME Structure, Structure', Stores, UNCHANGED <<block, call>>, LocalsTyped, CallSound,
         data \in [Slots -> SUBSET Nat], fresh \subseteq Nat, ContentsKept,
         \A s \in LiveSlots : head'[block[s].at].size >= Kept(s)
  PROVE  /\ data' \in [Slots -> SUBSET Nat] /\ fresh' \subseteq Nat /\ ContentsKept' /\ Enough'
<1>1. LiveSlots' = LiveSlots /\ Held' = Held /\ \A s : Kept(s)' = Kept(s)
  BY DEF LiveSlots, Held, Kept
<1>2. data' \in [Slots -> SUBSET Nat]
  BY DEF Stores
<1>3. fresh' \subseteq Nat
  <2>1. HeapsSound(heapSize', chain')
    BY DEF Structure, Mem, MemorySound
  <2>2. \A g \in Heaps : Base(g) \in Nat /\ HeapEnd(g)' \in Nat
    <3>1. \A g \in Heaps : Base(g) \in Nat
      BY BaseIsNat, Constants
    <3>2. \A g \in Heaps : heapSize'[g] \in Nat
      BY <2>1, Constants DEF HeapsSound
    <3> QED BY ONLY <3>1, <3>2 DEF HeapEnd
  <2>3. \A g \in Heaps : Words(g)' \subseteq Nat
    BY <2>2 DEF Words
  <2>4. MappedWords' \subseteq Nat
    BY <2>3 DEF MappedWords
  <2> QED BY <2>4 DEF Stores
<1>4. Enough'
  BY <1>1 DEF Enough, Size
<1>5. ASSUME NEW s \in LiveSlots PROVE OwnWords(s)' \subseteq data'[s]
  <2> DEFINE a == block[s].at
             n == Kept(s)
  <2>1. s \in Slots /\ a \in Held /\ a \in Nat /\ n \in Nat
    BY BlockFacts
  <2>2. a \in Ord' /\ a \notin Binned' /\ a \notin Fasted'
    <3>1. Parted(Ord', Binned', Fasted', Held', InHand')
      BY DEF Structure, PlacesSound, Ord
    <3> QED BY <3>1, <2>1, <1>1 DEF Parted
  <2>3. Written \cap UserWords(a, head'[a].size) = {}
    BY <2>2, WrittenElsewhere
  <2>4. head'[a].size \in Nat
    BY <2>2, TypedTags DEF Structure, Mem, MemorySound, Ord, OrdinaryOf
  <2>5. head'[a].size >= n
    OBVIOUS
  <2>6. OwnWords(s)' = UserWords(a, n) /\ OwnWords(s) = UserWords(a, n)
    BY <1>1 DEF OwnWords
  <2> HIDE DEF a, n
  <2>7. UserWords(a, n) \subseteq UserWords(a, head'[a].size)
    BY ONLY <2>1, <2>4, <2>5 DEF UserWords
  <2>8. UserWords(a, n) \subseteq data[s]
    BY <2>6 DEF ContentsKept
  <2>9. data'[s] = data[s] \ Written
    BY <2>1 DEF Stores
  <2> QED BY <2>3, <2>6, <2>7, <2>8, <2>9
<1>6. ContentsKept'
  BY <1>1, <1>5 DEF ContentsKept
<1> QED BY <1>2, <1>3, <1>4, <1>6

-----------------------------------------------------------------------------
(* The call in progress, step by step.                                     *)

\* The invariant by its parts.
LEMMA Parts ==
  HeapInductive <=> /\ Structure /\ LocalsTyped /\ CallSound /\ WhereSound /\ SearchSound
                    /\ FinishSound /\ DataSound /\ CountSound
BY DEF HeapInductive, Structure, Mem

\* The same of the next state.
LEMMA PartsNext ==
  HeapInductive' <=> /\ Structure' /\ LocalsTyped' /\ CallSound' /\ WhereSound' /\ SearchSound'
                     /\ FinishSound' /\ DataSound' /\ CountSound'
BY DEF HeapInductive, Structure, Mem

\* What is asked for.
LEMMA WantFacts ==
  ASSUME LocalsTyped, CallSound, pc # "idle", call.op # "free"
  PROVE  /\ call.n \in Requests /\ call.n \in Nat /\ call.n >= MinSize
         /\ want \in Nat /\ want >= call.n /\ want >= MinSize
         /\ call.op # "memalign" => want = call.n
         /\ call.op = "memalign" =>
              /\ call.align \in Nat /\ call.align >= MinSize
              /\ want = call.n + call.align + MinSize + 1
<1>1. call.n \in Requests /\ want = Padded /\ (call.op = "memalign" => call.align \in Alignments)
  BY DEF CallSound
<1>2. Requests \subseteq Nat /\ \A n \in Requests : n >= MinSize
  BY HeapAssumption
<1>3. Alignments \subseteq Nat /\ \A n \in Alignments : n >= MinSize
  BY HeapAssumption
<1>4. call.n \in Nat /\ call.n >= MinSize /\ (call.op = "memalign" => call.align \in Nat /\ call.align >= MinSize)
  BY <1>1, <1>2, <1>3
<1>5. want = IF call.op = "memalign" THEN call.n + call.align + MinSize + 1 ELSE call.n
  BY <1>1 DEF Padded
<1>6. MinSize \in Nat /\ want \in Nat
  BY Constants DEF LocalsTyped
<1>7. want >= call.n
  <2>1. CASE call.op = "memalign"
    <3>1. want = call.n + call.align + MinSize + 1
      BY <1>5, <2>1
    <3> QED BY ONLY <3>1, <2>1, <1>4, <1>6
  <2>2. CASE call.op # "memalign"
    <3>1. want = call.n
      BY <1>5, <2>2
    <3> QED BY ONLY <3>1, <1>4
  <2> QED BY <2>1, <2>2
<1>8. want >= MinSize
  BY ONLY <1>4, <1>6, <1>7
<1> QED BY <1>1, <1>4, <1>5, <1>6, <1>7, <1>8

\* The block realloc resizes.
LEMMA OldFacts ==
  ASSUME Structure, LocalsTyped, CallSound, pc # "idle", call.op = "realloc"
  PROVE  /\ call.slot \in LiveSlots /\ Old \in Held /\ Old \in Ord /\ Old \notin Binned /\ Old \notin Fasted
         /\ Size(Old) \in Nat /\ Old \in Nat /\ Old # 0
<1>1. call.slot \in LiveSlots
  BY DEF CallSound
<1> QED BY <1>1, BlockFacts, ChunkFacts DEF Old

\* The blocks of a step that keeps them.
LEMMA BlocksKept ==
  ASSUME Structure, LocalsTyped, CallSound, DataSound, SameSizes(head, head', Held)
  PROVE  \A s \in LiveSlots : head'[block[s].at].size >= Kept(s)
BY BlockFacts DEF DataSound, SameSizes, Size

\* Nothing lies beyond the old top chunk before memory comes from the system.
LEMMA NothingBeyond ==
  ASSUME NEW g \in Nat, HeapEnd(g) \in Nat, call.oldTop \in Nat, call.oldTopSize \in Nat,
         HeapEnd(g) <= call.oldTop + call.oldTopSize
  PROVE  \A w \in Words(g) : ~(w > 2 * (call.oldTop + call.oldTopSize))
<1> DEFINE e == HeapEnd(g)
           b == Base(g)
           z == call.oldTop + call.oldTopSize
<1>1. b \in Nat /\ e \in Nat /\ z \in Nat /\ e <= z
  BY BaseIsNat
<1> HIDE DEF e, b, z
<1>2. \A w \in (2 * b) .. (2 * e - 1) : ~(w > 2 * z)
  BY ONLY <1>1
<1> QED BY <1>2 DEF Words, e, b, z

\* What calloc knows of new memory holds on while its old heap does not grow.
LEMMA ClearFrame ==
  ASSUME Structure, LocalsTyped, CallSound, ClearSound, UNCHANGED call, pc \notin {"finish", "got", "fail"},
         call.op = "calloc" => /\ heapSize'[HeapOf(call.oldTop)] \in Nat
                               /\ heapSize'[HeapOf(call.oldTop)] > 0
                               /\ heapSize'[HeapOf(call.oldTop)] <= heapSize[HeapOf(call.oldTop)]
  PROVE  ClearSound'
<1> DEFINE g == HeapOf(call.oldTop)
<1> SUFFICES ASSUME call.op = "calloc" PROVE ClearSound'
  BY DEF ClearSound
<1>1. /\ g \in Heaps /\ heapSize[g] > 0 /\ HeapEnd(g) <= call.oldTop + call.oldTopSize
      /\ call.oldTop \in Nat /\ call.oldTopSize \in Nat
      /\ heapSize'[g] \in Nat /\ heapSize'[g] > 0 /\ heapSize'[g] <= heapSize[g]
  BY DEF ClearSound, CallSound
<1>2. heapSize[g] \in Nat /\ g \in Nat /\ Base(g) \in Nat
  <2>1. heapSize \in [Heaps -> 0..HeapMax]
    BY DEF Structure, Mem, MemorySound, HeapsSound
  <2>2. HeapMax \in Nat /\ Heaps \subseteq Nat
    BY Constants
  <2>3. heapSize[g] \in 0..HeapMax /\ g \in Nat
    BY <2>1, <2>2, <1>1
  <2> HIDE DEF g
  <2>4. heapSize[g] \in Nat
    BY ONLY <2>2, <2>3
  <2>5. Base(g) \in Nat
    BY ONLY <2>3, BaseIsNat
  <2> QED BY <2>3, <2>4, <2>5
<1> HIDE DEF g
<1>3. Base(g) + heapSize'[g] <= call.oldTop + call.oldTopSize /\ Base(g) + heapSize'[g] \in Nat
  BY ONLY <1>1, <1>2 DEF HeapEnd
<1>4. \A w \in (2 * Base(g)) .. (2 * (Base(g) + heapSize'[g]) - 1) : ~(w > 2 * (call.oldTop + call.oldTopSize))
  <2> DEFINE e == Base(g) + heapSize'[g]
             z == call.oldTop + call.oldTopSize
  <2>1. e \in Nat /\ z \in Nat /\ e <= z
    BY <1>1, <1>3
  <2> HIDE DEF e, z
  <2>2. \A w \in (2 * Base(g)) .. (2 * e - 1) : ~(w > 2 * z)
    BY ONLY <2>1, <1>2
  <2> QED BY <2>2 DEF e, z
<1>5. BeyondTop' = {}
  BY <1>4 DEF BeyondTop, Words, HeapEnd, g
<1> QED BY <1>1, <1>3, <1>5 DEF ClearSound, HeapEnd, g

\* The parts of the next state, put together, for the steps of the engine.
LEMMA EngineFrame ==
  ASSUME HeapInductive, Stores, Structure', UNCHANGED <<block, call, want, calls>>,
         pc # "idle", pc' # "idle",
         LocalsTyped', WhereSound', SearchSound', FinishSound', ClearSound', CountSound',
         \A s \in LiveSlots : head'[block[s].at].size >= Kept(s)
  PROVE  HeapInductive'
<1>1. Structure /\ LocalsTyped /\ CallSound /\ DataSound
  BY Parts
<1>2. LiveSlots' = LiveSlots
  BY DEF LiveSlots
<1>3. CallSound'
  BY <1>1, <1>2 DEF CallSound, Padded
<1>4. data' \in [Slots -> SUBSET Nat] /\ fresh' \subseteq Nat /\ ContentsKept' /\ Enough'
  BY <1>1, DataKept DEF DataSound
<1>5. DataSound'
  BY <1>4 DEF DataSound, Enough
<1> QED BY <1>3, <1>5, PartsNext

\* The same for the steps that keep all heaps.
LEMMA SameHeapsFrame ==
  ASSUME HeapInductive, UNCHANGED <<heapSize, chain, systemMem, call>>
  PROVE  /\ CountSound'
         /\ pc \notin {"finish", "got", "fail"} => ClearSound'
<1>1. Structure /\ LocalsTyped /\ CallSound /\ DataSound /\ CountSound
  BY Parts
<1>2. CountSound'
  BY <1>1 DEF CountSound
<1>3. ASSUME pc \notin {"finish", "got", "fail"} PROVE ClearSound'
  <2>1. call.op = "calloc" => /\ heapSize[HeapOf(call.oldTop)] \in Nat
                              /\ heapSize[HeapOf(call.oldTop)] > 0
    BY <1>1 DEF DataSound, ClearSound, Structure, Mem, MemorySound, HeapsSound
  <2>2. ClearSound
    BY <1>1 DEF DataSound
  <2> QED BY <2>1, <2>2, <1>1, <1>3, ClearFrame
<1> QED BY <1>2, <1>3

\* _int_malloc has found chunk v.
LEMMA GotControl ==
  ASSUME HeapInductive, Stores, NEW v, GaveOut(v), Found(v),
         pc \in {"malloc", "unsorted", "fit", "scan", "top", "finish"},
         UNCHANGED <<program, heapSize, chain, systemMem, haveFast>>, lastRemainder' \in Nat,
         head'[v].size - want \in 0..(MinSize - 1)
  PROVE  HeapInductive'
<1>1. Structure /\ LocalsTyped /\ CallSound /\ WhereSound /\ DataSound /\ ClearSound
  BY Parts DEF DataSound
<1>2. /\ UNCHANGED <<block, calls, refused, call, want, idx, p, after, resume>>
      /\ pc' = "got" /\ result' = v
  BY DEF Found, program
<1>3. Structure' /\ v # 0 /\ v \notin Held /\ SameSizes(head, head', Held)
  BY DEF GaveOut
<1>4. Held' = Held /\ LiveSlots' = LiveSlots
  BY <1>2, SameHeld
<1>5. InHand' = {v}
  BY <1>2, <1>3, <1>4, NextInHand
<1>6. v \in Ord' /\ v \notin Binned' /\ v \notin Fasted'
  BY <1>3, <1>5 DEF Structure, PlacesSound, Parted, Ord
<1>7. v \in Nat
  BY <1>3, <1>6 DEF Structure, Mem, MemorySound, Typed, Ord, OrdinaryOf
<1>8. LocalsTyped'
  BY <1>1, <1>2, <1>7 DEF LocalsTyped, Releasing
<1>9. ~Releasing' /\ ~Allocating' /\ ~Tailing' /\ ~Returning' /\ ~Merging'
  BY <1>2 DEF Releasing, Allocating, Tailing, Returning, Searching, Merging
<1>10. WhereSound'
  <2>1. call.op # "free" /\ (call.op = "realloc" => Size(Old) < want)
    BY <1>1 DEF WhereSound, Allocating, Searching
  <2>2. call.op = "realloc" => Size(Old)' < want
    <3> SUFFICES ASSUME call.op = "realloc" PROVE Size(Old)' < want
      OBVIOUS
    <3>1. Old \in Held
      BY <1>1, OldFacts
    <3>2. head'[Old].size = head[Old].size
      BY <3>1, <1>3 DEF SameSizes
    <3> QED BY <2>1, <3>2, <1>2 DEF Size, Old
  <2>3. Size(result)' - want' \in 0..(MinSize - 1)
    BY <1>2 DEF Size
  <2> QED BY <1>2, <1>3, <1>4, <1>9, <2>1, <2>2, <2>3 DEF WhereSound
<1>11. SearchSound' /\ FinishSound'
  BY <1>2, <1>9 DEF SearchSound, FinishSound
<1>12. CountSound' /\ (pc # "finish" => ClearSound')
  BY <1>2, SameHeapsFrame
<1>13. ASSUME pc = "finish" PROVE ClearSound'
  <2> SUFFICES ASSUME call.op = "calloc" PROVE ClearSound'
    BY <1>2 DEF ClearSound
  <2>1. HeapOf(call.oldTop) \in Heaps /\ heapSize[HeapOf(call.oldTop)] > 0 /\ BeyondTop \subseteq fresh
    BY <1>1, <1>13 DEF ClearSound
  <2>2. BeyondTop' = BeyondTop
    BY <1>2 DEF BeyondTop, Words, HeapEnd
  <2>3. Written \cap UserWords(v, head'[v].size) = {}
    BY <1>1, <1>3, <1>6, WrittenElsewhere
  <2>4. fresh \ Written \subseteq fresh'
    BY DEF Stores
  <2>5. (BeyondTop \cap UserWords(result, Size(result)))' \subseteq fresh'
    BY <1>2, <2>1, <2>2, <2>3, <2>4 DEF Size, UserWords
  <2> QED BY <1>2, <2>1, <2>5 DEF ClearSound
<1>14. \A s \in LiveSlots : head'[block[s].at].size >= Kept(s)
  BY <1>1, <1>3, BlocksKept
<1> QED BY <1>2, <1>3, <1>8, <1>10, <1>11, <1>12, <1>13, <1>14, EngineFrame

\* While _int_malloc searches, the call has nothing in hand.
LEMMA Searches ==
  ASSUME HeapInductive, pc \in Searching
  PROVE  /\ Structure /\ LocalsTyped /\ CallSound /\ WhereSound /\ SearchSound /\ FinishSound
         /\ InHand = {} /\ result = 0 /\ pc # "idle" /\ pc # "consolidate" /\ pc # "free"
         /\ call.op # "free" /\ want \in Nat /\ want >= MinSize /\ lastRemainder \in Nat
         /\ after = "return"
<1>1. Structure /\ LocalsTyped /\ CallSound /\ WhereSound /\ SearchSound /\ FinishSound
  BY Parts
<1>2. pc # "idle" /\ pc # "consolidate" /\ pc # "free" /\ pc # "trim"
  BY DEF Searching
<1>3. Allocating /\ call.op # "free" /\ result = 0
  BY <1>1 DEF WhereSound, Allocating
<1>4. InHand = {}
  BY <1>2, <1>3, InHandIs
<1>5. want \in Nat /\ want >= MinSize
  BY <1>1, <1>2, <1>3, WantFacts
<1> QED BY <1>1, <1>2, <1>3, <1>4, <1>5 DEF LocalsTyped, Releasing

\* The chunks of a bin have the sizes of that bin.
LEMMA BinMembers ==
  ASSUME Structure, NEW i \in BinIds, bins[i] # <<>>
  PROVE  /\ Last(bins[i]) \in Range(bins[i]) /\ Range(bins[i]) \subseteq Binned
         /\ Last(bins[i]) \in Binned /\ bins[i] \in Seq(Nat)
         /\ \A a \in Range(bins[i]) :
              /\ a \in Binned /\ a \in Ord /\ Size(a) \in Nat /\ Size(a) >= MinSize
              /\ i # Unsorted => BinOf(Size(a)) = i
<1>1. ListsSound(bins, marked, head) /\ Binned = InBins(bins) /\ Parted(Ord, Binned, Fasted, Held, InHand)
  BY ChunkFacts
<1>2. bins[i] \in Seq(Nat) /\ Range(bins[i]) \subseteq Binned
  BY <1>1, ListFacts
<1>3. Last(bins[i]) \in Range(bins[i])
  BY <1>2, LastIs
<1>4. ASSUME NEW a \in Range(bins[i]) PROVE a \in Binned /\ a \in Ord /\ Size(a) \in Nat /\ Size(a) >= MinSize
  <2>1. a \in Binned /\ a \in Ord
    BY <1>1, <1>2, <1>4 DEF Parted
  <2> QED BY <2>1, ChunkFacts
<1>5. i # Unsorted => \A a \in Range(bins[i]) : BinOf(Size(a)) = i
  BY <1>1 DEF ListsSound, Size
<1> QED BY <1>2, <1>3, <1>4, <1>5

\* TakeFast keeps the invariant.
LEMMA TakeFastKept ==
  ASSUME HeapInductive, TakeFast, Stores
  PROVE  HeapInductive'
<1>1. pc = "malloc" /\ pc \in Searching /\ FastHit
  BY DEF TakeFast, Searching
<1>2. /\ Structure /\ InHand = {} /\ want \in Nat /\ want >= MinSize /\ pc # "consolidate"
      /\ lastRemainder \in Nat
  BY <1>1, Searches
<1>3. want \in DOMAIN fast /\ fast[want] # <<>>
  <2>1. DOMAIN fast = MinSize..MaxFast /\ MinSize \in Nat /\ MaxFast \in Nat
    BY <1>2, HeapAssumption, Constants DEF Structure, FastSound
  <2> QED BY <2>1, <1>1, <1>2 DEF FastHit
<1> DEFINE v == Head(fast[want])
<1>4. /\ fast' = [fast EXCEPT ![want] = Tail(@)] /\ result' = v /\ pc' = "got" /\ Found(v)
      /\ UNCHANGED <<head, haveFast, bins, marked, top, heapSize, chain, systemMem, block, program, lastRemainder>>
  BY DEF TakeFast, Found, program, heaps
<1>5. GaveOut(v) /\ head'[v].size = want
  BY <1>1, <1>2, <1>3, <1>4, TakeFastStep
<1> HIDE DEF v
<1>6. head'[v].size - want \in 0..(MinSize - 1)
  BY ONLY <1>5, <1>2, Constants
<1> QED BY <1>1, <1>2, <1>4, <1>5, <1>6, GotControl

\* TakeSmall keeps the invariant.
LEMMA TakeSmallKept ==
  ASSUME HeapInductive, TakeSmall, Stores
  PROVE  HeapInductive'
<1>1. pc = "malloc" /\ pc \in Searching /\ SmallHit
  BY DEF TakeSmall, Searching
<1>2. /\ Structure /\ InHand = {} /\ want \in Nat /\ want >= MinSize /\ pc # "consolidate"
      /\ lastRemainder \in Nat
  BY <1>1, Searches
<1> DEFINE v == Last(bins[BinOf(want)])
<1>3. BinOf(want) \in BinIds \ {Unsorted} /\ bins[BinOf(want)] # <<>> /\ Small(want)
  BY <1>1, <1>2, BinRange DEF SmallHit
<1>4. v \in Binned /\ Size(v) \in Nat /\ BinOf(Size(v)) = BinOf(want)
  BY <1>2, <1>3, BinMembers
<1>5. /\ head' = HandOut(v) /\ bins' = Unlink(v) /\ result' = v /\ pc' = "got" /\ Found(v)
      /\ UNCHANGED <<fast, haveFast, marked, top, heapSize, chain, systemMem, block, program, lastRemainder>>
  BY DEF TakeSmall, Found, program, heaps
<1> HIDE DEF v
<1>6. Size(v) = want
  BY <1>2, <1>3, <1>4, SmallBin
<1>7. GaveOut(v) /\ head'[v].size = Size(v)
  BY <1>2, <1>4, <1>5, TakeWholeStep
<1>8. head'[v].size - want \in 0..(MinSize - 1)
  BY ONLY <1>6, <1>7, <1>2, Constants
<1> QED BY <1>1, <1>2, <1>5, <1>7, <1>8, GotControl

\* TakeExact keeps the invariant.
LEMMA TakeExactKept ==
  ASSUME HeapInductive, TakeExact, Stores
  PROVE  HeapInductive'
<1>1. pc = "unsorted" /\ pc \in Searching /\ bins[Unsorted] # <<>> /\ Size(Oldest) = want
  BY DEF TakeExact, Searching
<1>2. /\ Structure /\ InHand = {} /\ want \in Nat /\ want >= MinSize /\ pc # "consolidate"
      /\ lastRemainder \in Nat
  BY <1>1, Searches
<1>3. Oldest \in Binned
  BY <1>1, <1>2, BinMembers DEF Oldest, BinIds
<1>5. /\ head' = HandOut(Oldest) /\ bins' = Unlink(Oldest) /\ result' = Oldest /\ pc' = "got" /\ Found(Oldest)
      /\ UNCHANGED <<fast, haveFast, marked, top, heapSize, chain, systemMem, block, program, lastRemainder>>
  BY DEF TakeExact, Found, program, heaps
<1>7. GaveOut(Oldest) /\ head'[Oldest].size = Size(Oldest)
  BY <1>2, <1>3, <1>5, TakeWholeStep
<1>8. head'[Oldest].size - want \in 0..(MinSize - 1)
  BY ONLY <1>1, <1>7, <1>2, Constants
<1> QED BY <1>1, <1>2, <1>5, <1>7, <1>8, GotControl

\* SplitRemainder keeps the invariant.
LEMMA SplitRemainderKept ==
  ASSUME HeapInductive, SplitRemainder, Stores
  PROVE  HeapInductive'
<1>1. pc = "unsorted" /\ pc \in Searching /\ bins[Unsorted] # <<>> /\ OnlyRemainder
  BY DEF SplitRemainder, Searching
<1>2. /\ Structure /\ InHand = {} /\ want \in Nat /\ want >= MinSize /\ pc # "consolidate"
  BY <1>1, Searches
<1>3. Oldest \in Binned /\ bins[Unsorted] \in Seq(Nat) /\ Size(Oldest) \in Nat /\ Unsorted \in BinIds
  BY <1>1, <1>2, BinMembers DEF Oldest, BinIds
<1>4. Range(bins[Unsorted]) \subseteq {Oldest}
  <2>1. Len(bins[Unsorted]) = 1 /\ Oldest = bins[Unsorted][Len(bins[Unsorted])]
    BY <1>1, <1>3, LastIs DEF OnlyRemainder, Oldest
  <2>2. DOMAIN bins[Unsorted] = 1..1
    BY <1>3, <2>1
  <2> QED BY <2>1, <2>2 DEF Range
<1>5. /\ head' = SplitFree(Oldest, want) /\ bins' = [bins EXCEPT ![Unsorted] = <<Oldest + want>>]
      /\ result' = Oldest /\ pc' = "got" /\ Found(Oldest) /\ lastRemainder' = Oldest + want
      /\ UNCHANGED <<fast, haveFast, marked, top, heapSize, chain, systemMem, block, program>>
  BY DEF SplitRemainder, Found, program, heaps
<1>6. bins' = [Unlink(Oldest) EXCEPT ![Unsorted] = <<Oldest + want>>]
  <2>1. ListsSound(bins, marked, head)
    BY <1>2, ChunkFacts
  <2>2. ASSUME NEW i \in BinIds, i # Unsorted PROVE Unlink(Oldest)[i] = bins[i]
    <3>1. Oldest \in Range(bins[Unsorted])
      BY <1>1, <1>2, <1>3, BinMembers DEF Oldest
    <3>2. Oldest \notin Range(bins[i])
      BY <2>1, <2>2, <3>1, <1>3 DEF ListsSound
    <3> QED BY <3>2 DEF Unlink, Without
  <2>3. bins = [i \in BinIds |-> bins[i]]
    BY <2>1 DEF ListsSound
  <2>4. DOMAIN Unlink(Oldest) = BinIds
    BY DEF Unlink
  <2>5. [bins EXCEPT ![Unsorted] = <<Oldest + want>>] = [i \in BinIds |-> IF i = Unsorted THEN <<Oldest + want>> ELSE bins[i]]
    BY <2>3
  <2>6. [Unlink(Oldest) EXCEPT ![Unsorted] = <<Oldest + want>>]
          = [i \in BinIds |-> IF i = Unsorted THEN <<Oldest + want>> ELSE Unlink(Oldest)[i]]
    BY <2>4 DEF Unlink
  <2> QED BY <1>5, <2>2, <2>5, <2>6
<1>7. Size(Oldest) - want >= MinSize
  <2>1. Size(Oldest) > want + MinSize
    BY <1>1 DEF OnlyRemainder
  <2> QED BY ONLY <2>1, <1>2, <1>3, Constants
<1>8. GaveOut(Oldest) /\ head'[Oldest].size = want
  BY <1>2, <1>3, <1>4, <1>5, <1>6, <1>7, TakeSplitStep
<1>9. head'[Oldest].size - want \in 0..(MinSize - 1)
  BY ONLY <1>8, <1>2, Constants
<1>10. lastRemainder' \in Nat
  <2>1. Oldest \in Nat
    BY <1>2, <1>3, ChunkFacts DEF Parted
  <2> QED BY ONLY <2>1, <1>2, <1>5
<1> QED BY <1>1, <1>2, <1>5, <1>8, <1>9, <1>10, GotControl

\* A chunk that is large enough is taken from a bin.
LEMMA TakeBinnedKept ==
  ASSUME HeapInductive, Stores, pc \in {"fit", "scan"}, NEW v \in Binned, Size(v) >= want,
         TakeBinned(v), Found(v), UNCHANGED <<fast, haveFast, marked, top, heaps, program>>,
         lastRemainder' \in Nat
  PROVE  HeapInductive'
<1>1. pc \in Searching
  BY DEF Searching
<1>2. /\ Structure /\ InHand = {} /\ want \in Nat /\ want >= MinSize /\ pc # "consolidate" /\ SearchSound
  BY <1>1, Searches
<1>3. bins[Unsorted] = <<>>
  BY <1>2 DEF SearchSound
<1>4. Range(bins[Unsorted]) \subseteq {v}
  BY <1>3 DEF Range
<1>5. /\ result' = v /\ pc' = "got"
      /\ UNCHANGED <<fast, haveFast, marked, top, heapSize, chain, systemMem, block, program>>
  BY DEF Found, program, heaps
<1>6. Size(v) \in Nat /\ MinSize \in Nat
  BY <1>2, ChunkFacts, Constants DEF Parted
<1>7. GaveOut(v) /\ head'[v].size - want \in 0..(MinSize - 1)
  <2>1. CASE Size(v) - want < MinSize
    <3>1. head' = HandOut(v) /\ bins' = Unlink(v)
      BY <2>1 DEF TakeBinned
    <3>2. GaveOut(v) /\ head'[v].size = Size(v)
      BY <1>2, <1>5, <3>1, TakeWholeStep
    <3>3. Size(v) - want \in 0..(MinSize - 1)
      BY ONLY <2>1, <1>2, <1>6, Size(v) >= want
    <3> QED BY <3>2, <3>3
  <2>2. CASE ~(Size(v) - want < MinSize)
    <3>1. head' = SplitFree(v, want) /\ bins' = [Unlink(v) EXCEPT ![Unsorted] = <<v + want>>]
      BY <2>2 DEF TakeBinned
    <3>2. Size(v) - want >= MinSize
      BY ONLY <2>2, <1>2, <1>6
    <3>3. GaveOut(v) /\ head'[v].size = want
      BY <1>2, <1>4, <1>5, <3>1, <3>2, TakeSplitStep
    <3>4. head'[v].size - want \in 0..(MinSize - 1)
      BY ONLY <3>3, <1>2, Constants
    <3> QED BY <3>3, <3>4
  <2> QED BY <2>1, <2>2
<1> QED BY <1>1, <1>2, <1>5, <1>7, GotControl

\* _int_malloc goes on searching.
LEMMA SearchWhere ==
  ASSUME HeapInductive, Allocating, pc # "idle", Allocating', ~Releasing',
         UNCHANGED <<call, want, block, result>>, SameSizes(head, head', Held)
  PROVE  WhereSound'
<1>1. Structure /\ LocalsTyped /\ CallSound /\ WhereSound
  BY Parts
<1>2. call.op # "free" /\ result = 0 /\ (call.op = "realloc" => Size(Old) < want)
  BY <1>1 DEF WhereSound
<1>3. call.op = "realloc" => Size(Old)' < want
  <2> SUFFICES ASSUME call.op = "realloc" PROVE Size(Old)' < want
    OBVIOUS
  <2>1. Old \in Held
    BY <1>1, OldFacts
  <2>2. head'[Old].size = head[Old].size
    BY <2>1 DEF SameSizes
  <2> QED BY <1>2, <2>2 DEF Size, Old
<1>4. pc' \in Searching \/ pc' = "consolidate"
  BY DEF Allocating, Merging
<1>5. pc' \notin {"realloc", "got", "free", "tail", "return", "trim"}
  BY <1>4 DEF Searching
<1>6. ~Tailing' /\ ~Returning'
  BY <1>5 DEF Tailing, Returning
<1> QED BY <1>2, <1>3, <1>5, <1>6 DEF WhereSound

\* A step of the search that leaves memory alone.
LEMMA SearchKept ==
  ASSUME HeapInductive, Stores, Allocating, pc # "idle", Allocating', ~Releasing', LocalsTyped',
         Structure', SameSizes(head, head', Held), pc \notin {"finish", "got", "fail"},
         UNCHANGED <<block, calls, call, want, result, heapSize, chain, systemMem>>,
         SearchSound', FinishSound'
  PROVE  HeapInductive'
<1>1. Structure /\ LocalsTyped /\ CallSound /\ DataSound
  BY Parts
<1>2. UNCHANGED <<block, calls, call>>
  OBVIOUS
<1>3. WhereSound'
  BY <1>2, SearchWhere
<1>4. CountSound' /\ ClearSound'
  BY <1>2, SameHeapsFrame
<1>5. \A s \in LiveSlots : head'[block[s].at].size >= Kept(s)
  BY <1>1, BlocksKept
<1>6. pc' # "idle"
  BY DEF Allocating, Searching, Merging, Releasing
<1> QED BY <1>2, <1>3, <1>4, <1>5, <1>6, EngineFrame

\* The same when neither tags nor lists change.
LEMMA SearchQuiet ==
  ASSUME HeapInductive, Stores, pc \in Searching, pc \notin {"finish", "fail"},
         pc' \in Searching \/ (pc' = "consolidate" /\ resume' = "unsorted"),
         UNCHANGED <<head, fast, bins, top, heaps, block, calls, call, want, result, after, lastRemainder>>,
         refused' \in BOOLEAN,
         marked' = marked \/ (\E i \in marked : bins[i] = <<>> /\ marked' = marked \ {i}),
         haveFast' = haveFast \/ pc' = "consolidate", haveFast' \in BOOLEAN,
         idx' \in Nat, p' \in Nat, resume' \in {"unsorted", "trim"},
         SearchSound', FinishSound'
  PROVE  HeapInductive'
<1>1. /\ Structure /\ LocalsTyped /\ InHand = {} /\ result = 0 /\ pc # "idle" /\ pc # "free" /\ pc # "consolidate"
      /\ after = "return"
  BY Searches
<1>2. UNCHANGED <<block, calls, call, heapSize, chain, systemMem>>
  BY DEF heaps
<1>3. \A n \in DOMAIN fast : fast[n] # <<>> => haveFast' \/ pc' = "consolidate"
  BY <1>1, FlagHolds
<1>4. pc' # "free" /\ pc' # "trim" /\ ~Releasing'
  BY DEF Searching, Releasing
<1>5. InHand' = InHand
  <2>1. Held' = Held
    BY <1>2, SameHeld
  <2>2. InHand' = {}
    BY <1>1, <1>4, <2>1, NextInHand
  <2> QED BY <1>1, <2>2
<1>6. Structure' /\ SameSizes(head, head', DOMAIN head)
  BY <1>1, <1>2, <1>3, <1>5, QuietStep
<1>7. SameSizes(head, head', Held)
  BY DEF SameSizes
<1>8. Allocating /\ Allocating' /\ pc \notin {"got"}
  BY DEF Allocating, Merging, Searching
<1>9. LocalsTyped'
  BY <1>1, <1>2, <1>4 DEF LocalsTyped, Searching
<1> QED BY <1>1, <1>2, <1>4, <1>6, <1>7, <1>8, <1>9, SearchKept

\* NoQuickHit keeps the invariant.
LEMMA NoQuickHitKept ==
  ASSUME HeapInductive, NoQuickHit, Stores
  PROVE  HeapInductive'
<1>1. pc = "malloc" /\ pc \in Searching /\ pc \notin {"finish", "fail"} /\ ~SmallHit
  BY DEF NoQuickHit, Searching
<1>2. LocalsTyped /\ SearchSound
  BY <1>1, Searches
<1>3. /\ UNCHANGED <<head, fast, bins, marked, top, heaps, block, calls, refused, call, want, idx, p, result, after, lastRemainder>>
      /\ IF ~Small(want) /\ haveFast
         THEN pc' = "consolidate" /\ haveFast' = FALSE /\ resume' = "unsorted"
         ELSE pc' = "unsorted" /\ haveFast' = haveFast /\ resume' = resume
  BY DEF NoQuickHit, program
<1>4. /\ pc' \in Searching \/ (pc' = "consolidate" /\ resume' = "unsorted")
      /\ haveFast' = haveFast \/ pc' = "consolidate"
      /\ haveFast' \in BOOLEAN /\ refused' \in BOOLEAN /\ idx' \in Nat /\ p' \in Nat /\ resume' \in {"unsorted", "trim"}
  BY <1>2, <1>3 DEF Searching, LocalsTyped
<1>5. SearchSound'
  <2>1. Small(want) => bins[BinOf(want)] = <<>>
    BY <1>1 DEF SmallHit
  <2>2. pc' = "consolidate" => ~haveFast'
    BY <1>3
  <2>3. pc' = "unsorted" /\ haveFast' => Small(want)
    BY <1>3
  <2>4. pc' \in {"unsorted", "consolidate"}
    BY <1>3
  <2> QED BY <1>3, <2>1, <2>2, <2>3, <2>4 DEF SearchSound, Small, BinOf
<1>6. FinishSound'
  BY <1>2, <1>3, <1>4, <1>1 DEF FinishSound, Releasing, LocalsTyped
<1> QED BY <1>1, <1>3, <1>4, <1>5, <1>6, SearchQuiet

\* A chunk in bins is in the bin of its size, once no chunk is unsorted.
LEMMA BinnedAt ==
  ASSUME Structure, bins[Unsorted] = <<>>, NEW a \in Binned
  PROVE  /\ Size(a) \in Nat /\ Size(a) >= MinSize
         /\ BinOf(Size(a)) \in marked /\ BinOf(Size(a)) \in Nat /\ BinOf(Size(a)) \in BinIds
         /\ a \in Range(bins[BinOf(Size(a))]) /\ bins[BinOf(Size(a))] # <<>>
<1>1. ListsSound(bins, marked, head) /\ Binned = InBins(bins)
  BY ChunkFacts
<1>2. PICK i \in BinIds : a \in Range(bins[i])
  BY <1>1, ListFacts
<1>3. bins[i] # <<>> /\ i # Unsorted
  BY <1>1, <1>2, ListFacts
<1>4. Size(a) \in Nat /\ Size(a) >= MinSize /\ BinOf(Size(a)) = i
  BY <1>2, <1>3, BinMembers
<1>5. i \in marked
  BY <1>1, <1>3 DEF ListsSound
<1> QED BY <1>2, <1>3, <1>4, <1>5, BinRange

\* When no chunk of its own bin fits a request, those that do are above.
LEMMA AboveBin ==
  ASSUME Structure, want \in Nat, want >= MinSize, bins[Unsorted] = <<>>,
         \A a \in Range(bins[BinOf(want)]) : Size(a) < want
  PROVE  /\ BinOf(want) \in Nat
         /\ \A a \in Binned : Size(a) >= want => BinOf(Size(a)) >= BinOf(want) + 1
<1>0. BinOf(want) \in Nat
  BY BinRange
<1>1. ASSUME NEW a \in Binned, Size(a) >= want PROVE BinOf(Size(a)) >= BinOf(want) + 1
  <2>1. Size(a) \in Nat /\ BinOf(Size(a)) \in Nat /\ a \in Range(bins[BinOf(Size(a))])
    BY BinnedAt
  <2>2. BinOf(want) <= BinOf(Size(a))
    BY <2>1, <1>1, BinOrder
  <2>3. BinOf(want) # BinOf(Size(a))
    <3> SUFFICES ASSUME BinOf(want) = BinOf(Size(a)) PROVE FALSE
      OBVIOUS
    <3>1. Size(a) < want
      BY <2>1
    <3> QED BY ONLY <3>1, <2>1, <1>1, want \in Nat
  <2> QED BY ONLY <2>1, <2>2, <2>3, <1>0
<1> QED BY <1>0, <1>1

\* AllPlaced keeps the invariant.
LEMMA AllPlacedKept ==
  ASSUME HeapInductive, AllPlaced, Stores
  PROVE  HeapInductive'
<1>1. pc = "unsorted" /\ pc \in Searching /\ pc \notin {"finish", "fail"} /\ bins[Unsorted] = <<>>
  BY DEF AllPlaced, Searching
<1>2. LocalsTyped /\ SearchSound /\ Structure /\ want \in Nat /\ want >= MinSize
  BY <1>1, Searches
<1>3. /\ UNCHANGED <<head, fast, haveFast, bins, marked, top, heaps, block, calls, refused, call, want, p, result, after, resume, lastRemainder>>
      /\ pc' = (IF Small(want) THEN "scan" ELSE "fit") /\ idx' = BinOf(want) + 1
  BY DEF AllPlaced, lists, program
<1>4. BinOf(want) \in Nat /\ BinOf(want) \in BinIds
  BY <1>2, BinRange
<1>5. /\ pc' \in Searching \/ (pc' = "consolidate" /\ resume' = "unsorted")
      /\ haveFast' \in BOOLEAN /\ refused' \in BOOLEAN /\ idx' \in Nat /\ p' \in Nat /\ resume' \in {"unsorted", "trim"}
  BY <1>2, <1>3, <1>4 DEF Searching, LocalsTyped
<1>6. Small(want) => bins[BinOf(want)] = <<>>
  BY <1>1, <1>2 DEF SearchSound
<1>7. Small(want) => \A a \in Binned : Size(a) >= want => BinOf(Size(a)) >= idx'
  <2>1. Small(want) => Range(bins[BinOf(want)]) = {}
    BY <1>6 DEF Range
  <2> QED BY <2>1, <1>1, <1>2, <1>3, AboveBin
<1>8. SearchSound'
  <2>1. haveFast' => Small(want)
    BY <1>1, <1>2, <1>3 DEF SearchSound
  <2>2. UNCHANGED <<bins, head, want, Binned>>
    BY <1>3 DEF Binned
  <2>3. pc' = "scan" => Small(want)
    BY <1>3
  <2>4. idx' > BinOf(want)
    BY <1>3, <1>4
  <2>5. pc' \in {"scan", "fit"} /\ (pc' = "fit" => ~Small(want))
    BY <1>3
  <2>6. BinOf(want)' = BinOf(want) /\ Small(want)' = Small(want) /\ \A a : BinOf(Size(a))' = BinOf(Size(a)) /\ Size(a)' = Size(a)
    BY <2>2 DEF BinOf, Small, Size
  <2> QED BY <1>1, <1>3, <1>6, <1>7, <2>1, <2>2, <2>3, <2>4, <2>5, <2>6 DEF SearchSound
<1>9. FinishSound'
  BY <1>2, <1>3, <1>1 DEF FinishSound, Releasing, LocalsTyped
<1> QED BY <1>1, <1>3, <1>5, <1>8, <1>9, SearchQuiet

\* The next bin of the scan.
LEMMA NextBinIs ==
  ASSUME HeapInductive, pc = "scan", \E i \in marked : i >= idx
  PROVE  /\ NextBin \in marked /\ NextBin \in Nat /\ NextBin >= idx /\ NextBin \in BinIds \ {Unsorted}
         /\ \A j \in marked : j >= idx => NextBin <= j
         /\ idx \in Nat /\ idx > BinOf(want) /\ BinOf(want) \in Nat
<1>1. LocalsTyped /\ SearchSound /\ Structure /\ want \in Nat /\ want >= MinSize /\ idx \in Nat
  BY Searches DEF Searching, LocalsTyped
<1>2. BinOf(want) \in BinIds \ {Unsorted} /\ BinOf(want) \in Nat /\ idx > BinOf(want)
  BY <1>1, BinRange DEF SearchSound
<1>3. marked \subseteq BinIds
  BY <1>1, ChunkFacts DEF ListsSound
<1>4. MinSize \in Nat /\ BinIds \subseteq Nat
  <2>1. \A i \in MinSize..LastBin : i \in Nat
    <3>1. MinSize \in Nat /\ LastBin \in Nat
      <4>1. HeapMax \in Nat /\ MinLarge \in Nat /\ MinLarge <= HeapMax
        BY Constants, HeapAssumption
      <4> QED BY <4>1, Constants, LargeBinOrder DEF LastBin
    <3> QED BY <3>1
  <2> QED BY <2>1, Constants DEF BinIds, Unsorted
<1> DEFINE T == {i \in marked : i >= idx}
<1>5. T \subseteq Nat /\ T # {}
  BY <1>3, <1>4
<1>6. \E i \in T : \A j \in T : i <= j
  <2> HIDE DEF T
  <2> QED BY <1>5, LeastIndex
<1>7. \E i \in marked : i >= idx /\ \A j \in marked : j >= idx => i <= j
  BY <1>6
<1>8. NextBin \in marked /\ NextBin >= idx /\ \A j \in marked : j >= idx => NextBin <= j
  BY <1>7 DEF NextBin
<1>9. NextBin \in BinIds /\ NextBin \in Nat
  BY <1>8, <1>3, <1>4
<1>10. NextBin # Unsorted
  <2>1. BinOf(want) # 1 /\ BinOf(want) # 0
    <3>1. BinOf(want) \in MinSize..LastBin
      BY <1>2 DEF BinIds, Unsorted
    <3> QED BY <3>1, Constants
  <2> QED BY ONLY <2>1, <1>8, <1>9, <1>2, <1>1 DEF Unsorted
<1> QED BY <1>1, <1>2, <1>8, <1>9, <1>10

\* ScanMiss keeps the invariant.
LEMMA ScanMissKept ==
  ASSUME HeapInductive, ScanMiss, Stores
  PROVE  HeapInductive'
<1>1. /\ pc = "scan" /\ pc \in Searching /\ pc \notin {"finish", "fail"} /\ pc' = "scan"
      /\ bins[NextBin] = <<>> /\ \E i \in marked : i >= idx
  BY DEF ScanMiss, Searching
<1>2. LocalsTyped /\ SearchSound /\ Structure /\ want \in Nat /\ want >= MinSize
  BY <1>1, Searches
<1>3. /\ NextBin \in marked /\ NextBin \in Nat /\ NextBin >= idx
      /\ \A j \in marked : j >= idx => NextBin <= j
      /\ idx \in Nat /\ idx > BinOf(want) /\ BinOf(want) \in Nat
  BY <1>1, NextBinIs
<1>4. /\ UNCHANGED <<head, fast, haveFast, bins, top, heaps, block, calls, refused, call, want, p, result, after, resume, lastRemainder>>
      /\ marked' = marked \ {NextBin} /\ idx' = NextBin + 1
  BY DEF ScanMiss, program
<1>5. /\ pc' \in Searching \/ (pc' = "consolidate" /\ resume' = "unsorted")
      /\ haveFast' \in BOOLEAN /\ refused' \in BOOLEAN /\ idx' \in Nat /\ p' \in Nat /\ resume' \in {"unsorted", "trim"}
  BY <1>1, <1>2, <1>3, <1>4 DEF LocalsTyped
<1>6. idx' > BinOf(want)
  BY ONLY <1>3, <1>4
<1>7. \A a \in Binned : Size(a) >= want => BinOf(Size(a)) >= idx'
  <2> SUFFICES ASSUME NEW a \in Binned, Size(a) >= want PROVE BinOf(Size(a)) >= idx'
    OBVIOUS
  <2>1. bins[Unsorted] = <<>> /\ BinOf(Size(a)) >= idx
    BY <1>1, <1>2 DEF SearchSound
  <2>2. BinOf(Size(a)) \in marked /\ BinOf(Size(a)) \in Nat /\ bins[BinOf(Size(a))] # <<>>
    BY <1>2, <2>1, BinnedAt
  <2>3. NextBin <= BinOf(Size(a)) /\ NextBin # BinOf(Size(a))
    BY <1>1, <1>3, <2>1, <2>2
  <2> QED BY ONLY <2>2, <2>3, <1>3, <1>4
<1>8. SearchSound'
  <2>2. UNCHANGED <<bins, head, want, Binned>>
    BY <1>4 DEF Binned
  <2>6. BinOf(want)' = BinOf(want) /\ Small(want)' = Small(want) /\ \A a : BinOf(Size(a))' = BinOf(Size(a)) /\ Size(a)' = Size(a)
    BY <2>2 DEF BinOf, Small, Size
  <2>7. (haveFast => Small(want)) /\ (Small(want) => bins[BinOf(want)] = <<>>) /\ bins[Unsorted] = <<>>
    BY <1>1, <1>2 DEF SearchSound
  <2> QED BY <1>1, <1>4, <1>6, <1>7, <2>2, <2>6, <2>7 DEF SearchSound
<1>9. FinishSound'
  BY <1>1 DEF FinishSound, Releasing
<1>10. \E i \in marked : bins[i] = <<>> /\ marked' = marked \ {i}
  BY <1>1, <1>3, <1>4
<1> QED BY <1>1, <1>4, <1>5, <1>8, <1>9, <1>10, SearchQuiet

\* ScanOver keeps the invariant.
LEMMA ScanOverKept ==
  ASSUME HeapInductive, ScanOver, Stores
  PROVE  HeapInductive'
<1>1. /\ pc = "scan" /\ pc \in Searching /\ pc \notin {"finish", "fail"} /\ pc' = "top"
  BY DEF ScanOver, Searching, Goto
<1>2. LocalsTyped /\ SearchSound
  BY <1>1, Searches
<1>4. UNCHANGED <<head, fast, haveFast, bins, marked, top, heaps, block, calls, refused, call, want, idx, p, result, after, resume, lastRemainder>>
  BY DEF ScanOver, Goto, lists, program
<1>5. /\ pc' \in Searching \/ (pc' = "consolidate" /\ resume' = "unsorted")
      /\ haveFast' \in BOOLEAN /\ refused' \in BOOLEAN /\ idx' \in Nat /\ p' \in Nat /\ resume' \in {"unsorted", "trim"}
  BY <1>1, <1>2, <1>4 DEF LocalsTyped, Searching
<1>8. SearchSound'
  <2>6. BinOf(want)' = BinOf(want) /\ Small(want)' = Small(want)
    BY <1>4 DEF BinOf, Small
  <2>7. (haveFast => Small(want)) /\ (Small(want) => bins[BinOf(want)] = <<>>) /\ bins[Unsorted] = <<>>
    BY <1>1, <1>2 DEF SearchSound
  <2> QED BY <1>1, <1>4, <2>6, <2>7 DEF SearchSound
<1>9. FinishSound'
  BY <1>1 DEF FinishSound, Releasing
<1> QED BY <1>1, <1>4, <1>5, <1>8, <1>9, SearchQuiet

\* FitOwnBin keeps the invariant.
LEMMA FitOwnBinKept ==
  ASSUME HeapInductive, FitOwnBin, Stores
  PROVE  HeapInductive'
<1> DEFINE bin  == bins[BinOf(want)]
           fits == {i \in DOMAIN bin : Size(bin[i]) >= want}
<1>1. pc = "fit" /\ pc \in Searching /\ pc \notin {"finish", "fail"}
  BY DEF FitOwnBin, Searching
<1>2. /\ LocalsTyped /\ SearchSound /\ Structure /\ want \in Nat /\ want >= MinSize
      /\ lastRemainder \in Nat
  BY <1>1, Searches
<1>3. BinOf(want) \in BinIds \ {Unsorted} /\ BinOf(want) \in Nat
  BY <1>2, BinRange
<1>4. ListsSound(bins, marked, head) /\ Binned = InBins(bins)
  BY <1>2, ChunkFacts
<1>5. bin \in Seq(Nat) /\ Range(bin) \subseteq Binned
  BY <1>3, <1>4, ListFacts
<1>6. UNCHANGED <<fast, haveFast, marked, top, heaps, program, block, calls, refused, call, lastRemainder>>
  BY DEF FitOwnBin, program
<1>7. CASE fits = {}
  <2>1. pc' = "scan" /\ UNCHANGED <<want, idx, p, result, after, resume, head, bins>>
    BY <1>7 DEF FitOwnBin, Goto
  <2>2. \A a \in Range(bin) : Size(a) < want
    <3> SUFFICES ASSUME NEW a \in Range(bin) PROVE Size(a) < want
      OBVIOUS
    <3>1. PICK i \in DOMAIN bin : a = bin[i]
      BY DEF Range
    <3>2. ~(Size(a) >= want)
      BY <1>7, <3>1
    <3>3. Size(a) \in Nat
      BY <1>2, <1>5, ChunkFacts DEF Parted
    <3> QED BY ONLY <3>2, <3>3, <1>2
  <2>3. idx = BinOf(want) + 1 /\ ~Small(want) /\ bins[Unsorted] = <<>> /\ ~haveFast
    BY <1>1, <1>2 DEF SearchSound
  <2>4. idx > BinOf(want) /\ idx \in Nat
    BY ONLY <2>3, <1>3
  <2>5. \A a \in Binned : Size(a) >= want => BinOf(Size(a)) >= idx
    BY <1>2, <2>2, <2>3, AboveBin
  <2>6. SearchSound'
    <3>1. UNCHANGED Binned
      BY <2>1 DEF Binned
    <3>2. BinOf(want)' = BinOf(want) /\ Small(want)' = Small(want) /\ \A a : BinOf(Size(a))' = BinOf(Size(a)) /\ Size(a)' = Size(a)
      BY <2>1 DEF BinOf, Small, Size
    <3> QED BY <1>6, <2>1, <2>3, <2>4, <2>5, <3>1, <3>2 DEF SearchSound
  <2>7. FinishSound'
    BY <2>1 DEF FinishSound, Releasing
  <2>8. /\ pc' \in Searching \/ (pc' = "consolidate" /\ resume' = "unsorted")
        /\ haveFast' \in BOOLEAN /\ refused' \in BOOLEAN /\ idx' \in Nat /\ p' \in Nat /\ resume' \in {"unsorted", "trim"}
    BY <1>2, <1>6, <2>1 DEF LocalsTyped, Searching
  <2> QED BY <1>1, <1>6, <2>1, <2>6, <2>7, <2>8, SearchQuiet
<1>8. CASE fits # {}
  <2> DEFINE best == CHOOSE i \in fits : \A j \in fits : j <= i
             v    == bin[best]
  <2>1. TakeBinned(v) /\ Found(v)
    BY <1>8 DEF FitOwnBin
  <2>2. Len(bin) \in Nat /\ fits \subseteq 1..Len(bin)
    BY <1>5
  <2>3. \E i \in fits : \A j \in fits : j <= i
    <3> HIDE DEF fits, bin
    <3> QED BY <2>2, <1>8, GreatestIndex
  <2>4. best \in fits
    BY <2>3
  <2>5. v \in Binned /\ Size(v) >= want
    BY <2>4, <1>5 DEF Range
  <2> HIDE DEF v, best
  <2>6. lastRemainder' \in Nat
    BY <1>2, <1>6
  <2> QED BY <1>1, <1>6, <2>1, <2>5, <2>6, TakeBinnedKept
<1> QED BY <1>7, <1>8

\* ScanTake keeps the invariant.
LEMMA ScanTakeKept ==
  ASSUME HeapInductive, ScanTake, Stores
  PROVE  HeapInductive'
<1> DEFINE v == Last(bins[NextBin])
<1>1. /\ pc = "scan" /\ pc \in Searching /\ \E i \in marked : i >= idx
      /\ bins[NextBin] # <<>> /\ TakeBinned(v) /\ Found(v)
      /\ lastRemainder' = (IF Small(want) /\ Size(v) - want >= MinSize THEN v + want ELSE lastRemainder)
      /\ UNCHANGED <<fast, haveFast, marked, top, heaps, program>>
  BY DEF ScanTake, Searching
<1>2. /\ Structure /\ want \in Nat /\ lastRemainder \in Nat
  BY <1>1, Searches
<1>3. /\ NextBin \in Nat /\ NextBin >= idx /\ NextBin \in BinIds \ {Unsorted}
      /\ idx \in Nat /\ idx > BinOf(want) /\ BinOf(want) \in Nat
  BY <1>1, NextBinIs
<1>4. v \in Binned /\ Size(v) \in Nat /\ BinOf(Size(v)) = NextBin /\ v \in Ord
  BY <1>1, <1>2, <1>3, BinMembers
<1>5. v \in Nat
  BY <1>2, <1>4, ChunkFacts
<1> HIDE DEF v
<1>6. BinOf(want) < BinOf(Size(v))
  BY ONLY <1>3, <1>4
<1>7. want < Size(v)
  BY <1>2, <1>4, <1>6, LowerBin
<1>8. Size(v) >= want
  BY ONLY <1>7, <1>2, <1>4
<1>9. lastRemainder' \in Nat
  BY ONLY <1>1, <1>2, <1>5
<1> QED BY <1>1, <1>4, <1>8, <1>9, TakeBinnedKept

\* PlaceInBin keeps the invariant.
LEMMA PlaceInBinKept ==
  ASSUME HeapInductive, PlaceInBin, Stores
  PROVE  HeapInductive'
<1> DEFINE b == BinOf(Size(Oldest))
<1>1. pc = "unsorted" /\ pc \in Searching /\ pc \notin {"finish", "got", "fail"} /\ bins[Unsorted] # <<>> /\ Size(Oldest) # want
  BY DEF PlaceInBin, Searching
<1>2. /\ LocalsTyped /\ SearchSound /\ Structure /\ InHand = {} /\ result = 0
      /\ want \in Nat /\ want >= MinSize /\ pc # "idle" /\ after = "return"
  BY <1>1, Searches
<1>3. /\ bins' = [Unlink(Oldest) EXCEPT ![BinOf(Size(Oldest))] = Placed(Oldest, @)]
      /\ marked' = marked \cup {BinOf(Size(Oldest))}
      /\ UNCHANGED <<head, fast, haveFast, lastRemainder, top, heapSize, chain, systemMem,
                     block, calls, refused, call, pc, want, idx, p, result, after, resume>>
  BY DEF PlaceInBin, heaps, program, locals
<1>4. InHand' = InHand
  BY <1>3 DEF InHand, Held, LiveSlots
<1>5. /\ Structure' /\ Binned' = Binned /\ Oldest \in Binned
      /\ \A i \in BinIds \ {Unsorted, BinOf(Size(Oldest))} : bins'[i] = bins[i]
  BY <1>1, <1>2, <1>3, <1>4, PlaceStep
<1>6. Size(Oldest) \in Nat
  BY <1>2, <1>5, ChunkFacts DEF Parted
<1>7. Small(want) => bins'[BinOf(want)] = <<>>
  <2> SUFFICES ASSUME Small(want) PROVE bins'[BinOf(want)] = <<>>
    OBVIOUS
  <2>1. BinOf(want) # BinOf(Size(Oldest))
    BY <1>1, <1>2, <1>6, SmallBin
  <2>2. BinOf(want) \in BinIds \ {Unsorted}
    BY <1>2, BinRange
  <2>3. bins[BinOf(want)] = <<>>
    BY <1>1, <1>2 DEF SearchSound
  <2> QED BY <1>5, <2>1, <2>2, <2>3
<1>8. SearchSound'
  <2>6. BinOf(want)' = BinOf(want) /\ Small(want)' = Small(want)
    BY <1>3 DEF BinOf, Small
  <2>7. haveFast => Small(want)
    BY <1>1, <1>2 DEF SearchSound
  <2> QED BY <1>1, <1>3, <1>7, <2>6, <2>7 DEF SearchSound
<1>9. FinishSound' /\ ~Releasing'
  BY <1>1, <1>3 DEF FinishSound, Releasing
<1>10. LocalsTyped'
  BY <1>2, <1>3, <1>9 DEF LocalsTyped
<1>11. SameSizes(head, head', Held)
  BY <1>3 DEF SameSizes
<1>12. Allocating /\ Allocating'
  BY <1>1, <1>3 DEF Allocating, Searching
<1> QED BY <1>1, <1>2, <1>3, <1>5, <1>8, <1>9, <1>10, <1>11, <1>12, SearchKept

\* SplitTop keeps the invariant.
LEMMA SplitTopKept ==
  ASSUME HeapInductive, SplitTop, Stores
  PROVE  HeapInductive'
<1>1. pc \in {"top", "finish"} /\ pc \in Searching /\ TopFits
  BY DEF SplitTop, Searching
<1>2. /\ Structure /\ InHand = {} /\ want \in Nat /\ want >= MinSize /\ pc # "consolidate"
      /\ lastRemainder \in Nat
  BY <1>1, Searches
<1>5. /\ head' = TopSplit(want) /\ top' = top + want /\ result' = top /\ pc' = "got" /\ Found(top)
      /\ UNCHANGED <<fast, haveFast, bins, marked, heapSize, chain, systemMem, block, program, lastRemainder>>
  BY DEF SplitTop, Found, program, heaps, lists, TopSplit
<1>7. GaveOut(top) /\ head'[top].size = want
  BY <1>1, <1>2, <1>5, SplitTopStep
<1>8. head'[top].size - want \in 0..(MinSize - 1)
  BY ONLY <1>7, <1>2, Constants
<1>9. pc \in {"malloc", "unsorted", "fit", "scan", "top", "finish"}
  BY <1>1
<1>10. lastRemainder' \in Nat
  BY <1>2, <1>5
<1> QED BY <1>5, <1>7, <1>8, <1>9, <1>10, GotControl

\* NoMemory keeps the invariant.
LEMMA NoMemoryKept ==
  ASSUME HeapInductive, NoMemory, Stores
  PROVE  HeapInductive'
<1>1. pc = "finish" /\ pc \in Searching /\ ~TopFits /\ pc' = "fail"
  BY DEF NoMemory, Searching, Goto
<1>2. /\ Structure /\ LocalsTyped /\ CallSound /\ WhereSound /\ SearchSound /\ FinishSound
      /\ InHand = {} /\ result = 0 /\ pc # "idle" /\ pc # "consolidate" /\ pc # "free"
  BY <1>1, Searches
<1>3. UNCHANGED <<head, fast, haveFast, bins, marked, lastRemainder, top, heapSize, chain, systemMem,
                  block, calls, refused, call, want, idx, p, result, after, resume>>
  BY DEF NoMemory, Goto, lists, heaps, program
<1>4. InHand' = InHand
  BY <1>1, <1>3 DEF InHand, Held, LiveSlots
<1>5. \A n \in DOMAIN fast : fast[n] # <<>> => haveFast' \/ pc' = "consolidate"
  BY <1>2, <1>3, FlagHolds
<1>6. Structure' /\ SameSizes(head, head', DOMAIN head)
  BY <1>2, <1>3, <1>4, <1>5, QuietStep
<1>7. ~Releasing /\ ~Releasing' /\ Allocating /\ Allocating'
  BY <1>1 DEF Releasing, Allocating, Searching
<1>8. LocalsTyped'
  BY <1>1, <1>2, <1>3, <1>7 DEF LocalsTyped
<1>9. SameSizes(head, head', Held)
  BY <1>3 DEF SameSizes
<1>10. WhereSound'
  BY <1>2, <1>3, <1>7, <1>9, SearchWhere
<1>11. SearchSound'
  BY <1>1 DEF SearchSound, Merging
<1>12. FinishSound'
  BY <1>1, <1>2, <1>3, <1>7 DEF FinishSound
<1>13. CountSound' /\ DataSound
  BY <1>3, SameHeapsFrame, Parts
<1>14. ClearSound'
  BY <1>1, <1>3, <1>13 DEF DataSound, ClearSound
<1>15. \A s \in LiveSlots : head'[block[s].at].size >= Kept(s)
  BY <1>2, <1>9, <1>13, BlocksKept
<1> QED BY <1>1, <1>2, <1>3, <1>6, <1>8, <1>10, <1>11, <1>12, <1>13, <1>14, <1>15, EngineFrame

\* ConsolidateAndRetry keeps the invariant.
LEMMA ConsolidateAndRetryKept ==
  ASSUME HeapInductive, ConsolidateAndRetry, Stores
  PROVE  HeapInductive'
<1>1. /\ pc = "top" /\ pc \in Searching /\ pc \notin {"finish", "fail"}
      /\ pc' = "consolidate" /\ resume' = "unsorted" /\ haveFast' = FALSE
  BY DEF ConsolidateAndRetry, Searching
<1>2. LocalsTyped /\ SearchSound /\ after = "return"
  BY <1>1, Searches
<1>4. UNCHANGED <<head, fast, bins, marked, top, heaps, block, calls, refused, call, want, idx, p, result, after, lastRemainder>>
  BY DEF ConsolidateAndRetry, program
<1>5. /\ pc' \in Searching \/ (pc' = "consolidate" /\ resume' = "unsorted")
      /\ haveFast' \in BOOLEAN /\ refused' \in BOOLEAN /\ idx' \in Nat /\ p' \in Nat /\ resume' \in {"unsorted", "trim"}
  BY <1>1, <1>2, <1>4 DEF LocalsTyped
<1>8. SearchSound'
  <2>6. BinOf(want)' = BinOf(want) /\ Small(want)' = Small(want)
    BY <1>4 DEF BinOf, Small
  <2>7. Small(want) => bins[BinOf(want)] = <<>>
    BY <1>1, <1>2 DEF SearchSound
  <2> QED BY <1>1, <1>4, <2>6, <2>7 DEF SearchSound
<1>9. FinishSound'
  BY <1>1 DEF FinishSound, Releasing
<1> QED BY <1>1, <1>4, <1>5, <1>8, <1>9, SearchQuiet

\* AskSystem keeps the invariant.
LEMMA AskSystemKept ==
  ASSUME HeapInductive, AskSystem, Stores
  PROVE  HeapInductive'
<1>1. /\ pc = "top" /\ pc \in Searching /\ pc \notin {"finish", "fail"} /\ pc' = "system"
      /\ ~TopFits /\ ~haveFast
  BY DEF AskSystem, Searching, Goto
<1>2. LocalsTyped
  BY <1>1, Searches
<1>4. UNCHANGED <<head, fast, haveFast, bins, marked, top, heaps, block, calls, refused, call, want, idx, p, result, after, resume, lastRemainder>>
  BY DEF AskSystem, Goto, lists, program
<1>5. /\ pc' \in Searching \/ (pc' = "consolidate" /\ resume' = "unsorted")
      /\ haveFast' \in BOOLEAN /\ refused' \in BOOLEAN /\ idx' \in Nat /\ p' \in Nat /\ resume' \in {"unsorted", "trim"}
  BY <1>1, <1>2, <1>4 DEF LocalsTyped, Searching
<1>8. SearchSound'
  BY <1>1, <1>4 DEF SearchSound, Merging, TopFits, Size
<1>9. FinishSound'
  BY <1>1 DEF FinishSound, Releasing
<1> QED BY <1>1, <1>4, <1>5, <1>8, <1>9, SearchQuiet

\* SystemRefuses keeps the invariant.
LEMMA SystemRefusesKept ==
  ASSUME HeapInductive, SystemRefuses, Stores
  PROVE  HeapInductive'
<1>1. /\ pc = "system" /\ pc \in Searching /\ pc \notin {"finish", "fail"} /\ pc' = "finish" /\ refused' = TRUE
  BY DEF SystemRefuses, Searching
<1>2. LocalsTyped
  BY <1>1, Searches
<1>4. UNCHANGED <<head, fast, haveFast, bins, marked, top, heaps, block, calls, call, want, idx, p, result, after, resume, lastRemainder>>
  BY DEF SystemRefuses, lists
<1>5. /\ pc' \in Searching \/ (pc' = "consolidate" /\ resume' = "unsorted")
      /\ haveFast' \in BOOLEAN /\ refused' \in BOOLEAN /\ idx' \in Nat /\ p' \in Nat /\ resume' \in {"unsorted", "trim"}
  BY <1>1, <1>2, <1>4 DEF LocalsTyped, Searching
<1>8. SearchSound'
  BY <1>1 DEF SearchSound, Merging
<1>9. FinishSound'
  BY <1>1 DEF FinishSound, Releasing
<1> QED BY <1>1, <1>4, <1>5, <1>8, <1>9, SearchQuiet

-----------------------------------------------------------------------------
(* Memory from the system.                                                 *)

\* Multiples.
LEMMA MultipleIs ==
  ASSUME NEW d \in Nat, d > 0, NEW n \in Nat
  PROVE  n % d = 0 <=> \E q \in Nat : n = q * d
<1>1. ASSUME NEW q \in Nat, n = q * d PROVE n % d = 0
  BY <1>1
<1>2. ASSUME n % d = 0 PROVE \E q \in Nat : n = q * d
  <2>1. n = d * (n \div d) + (n % d) /\ n \div d \in Nat
    OBVIOUS
  <2>2. n = (n \div d) * d
    BY <2>1, <1>2
  <2> QED BY <2>1, <2>2
<1> QED BY <1>1, <1>2

\* Sums and differences of whole pages.
LEMMA PagedSum ==
  ASSUME NEW m \in Nat, NEW n \in Nat, InPages(m), InPages(n)
  PROVE  InPages(m + n) /\ (m >= n => InPages(m - n))
<1>1. Page \in Nat /\ Page > 0
  BY Constants
<1>2. PICK i \in Nat : m = i * Page
  BY <1>1, MultipleIs DEF InPages
<1>3. PICK j \in Nat : n = j * Page
  BY <1>1, MultipleIs DEF InPages
<1>4. m + n = (i + j) * Page /\ i + j \in Nat /\ m + n \in Nat
  BY <1>1, <1>2, <1>3
<1>5. InPages(m + n)
  BY ONLY <1>4, <1>1, MultipleIs DEF InPages
<1>6. ASSUME m >= n PROVE InPages(m - n)
  <2>1. i >= j
    <3> SUFFICES ASSUME i < j PROVE FALSE
      BY <1>2, <1>3
    <3>1. i + 1 <= j
      BY <1>2, <1>3
    <3>2. (i + 1) * Page <= j * Page
      BY <3>1, <1>1, <1>2, <1>3
    <3>3. (i + 1) * Page = i * Page + Page
      BY <1>1, <1>2
    <3> QED BY <3>2, <3>3, <1>1, <1>2, <1>3, <1>6
  <2>2. i - j \in Nat /\ m - n \in Nat
    BY <2>1, <1>2, <1>3, <1>6
  <2>3. m - n = (i - j) * Page
    BY <1>1, <1>2, <1>3, <2>2
  <2> QED BY ONLY <2>2, <2>3, <1>1, MultipleIs DEF InPages
<1> QED BY <1>5, <1>6

\* Sizes are rounded up to whole pages.
LEMMA PagesIs ==
  ASSUME NEW n \in Nat
  PROVE  /\ Pages(n) \in Nat /\ InPages(Pages(n)) /\ Pages(n) >= n /\ Pages(n) < n + Page
         /\ \A m \in Nat : m >= n /\ InPages(m) => Pages(n) <= m
<1>1. Page \in Nat /\ Page > 0
  BY Constants
<1> DEFINE c == n + Page - 1
           q == c \div Page
<1>2. c \in Nat /\ c = n + (Page - 1)
  BY <1>1
<1>3. q \in Nat /\ q * Page <= c /\ c < (q + 1) * Page
  <2> HIDE DEF c
  <2> QED BY <1>1, <1>2
<1>4. Pages(n) = q * Page
  BY DEF Pages
<1> HIDE DEF q, c
<1>5. (q + 1) * Page = q * Page + Page /\ q * Page \in Nat
  BY <1>1, <1>3
<1>6. Pages(n) \in Nat /\ Pages(n) >= n /\ Pages(n) < n + Page
  <2> DEFINE z == q * Page
  <2>1. z \in Nat /\ z <= c /\ c < z + Page /\ Pages(n) = z
    BY <1>3, <1>4, <1>5
  <2> HIDE DEF z
  <2> QED BY ONLY <2>1, <1>1, <1>2, n \in Nat
<1>7. InPages(Pages(n))
  BY ONLY <1>1, <1>3, <1>4, <1>6, MultipleIs DEF InPages
<1>8. ASSUME NEW m \in Nat, m >= n, InPages(m) PROVE Pages(n) <= m
  <2>1. PICK j \in Nat : m = j * Page
    BY <1>1, <1>8, MultipleIs DEF InPages
  <2> SUFFICES ASSUME Pages(n) > m PROVE FALSE
    BY <1>6
  <2>2. q > j
    <3> SUFFICES ASSUME q <= j PROVE FALSE
      BY <1>3, <2>1
    <3>1. q * Page <= j * Page
      BY <1>1, <1>3, <2>1
    <3> DEFINE y == q * Page
               z == j * Page
    <3>2. y <= z /\ y \in Nat /\ z \in Nat /\ m = z /\ Pages(n) = y
      BY <3>1, <1>1, <1>3, <1>4, <2>1
    <3> HIDE DEF y, z
    <3> QED BY ONLY <3>2, Pages(n) > m
  <2>3. j + 1 <= q
    BY <2>2, <1>3, <2>1
  <2>4. (j + 1) * Page <= q * Page
    BY <2>3, <1>1, <1>3, <2>1
  <2>5. (j + 1) * Page = j * Page + Page
    BY <1>1, <2>1
  <2>6. m + Page <= Pages(n)
    <3> DEFINE y == q * Page
               z == j * Page
    <3>1. z + Page <= y /\ m = z /\ Pages(n) = y
      BY <2>4, <2>5, <1>4, <2>1
    <3> HIDE DEF y, z
    <3> QED BY ONLY <3>1
  <2> QED BY ONLY <2>6, <1>6, <1>8, <1>1, n \in Nat, m \in Nat
<1> QED BY <1>6, <1>7, <1>8

\* Heaps are of whole pages.
LEMMA HeapMaxPaged == InPages(HeapMax) /\ InPages(HeapMin) /\ HeapMin <= HeapMax /\ HeapMin \in Nat /\ HeapMin > 0
                      /\ TopPad \in Nat
<1>1. HeapMin % Page = 0 /\ HeapMax % Page = 0 /\ HeapMin <= HeapMax /\ TopPad \in Nat
  BY HeapAssumption
<1>2. HeapMin \in Nat \ {0}
  BY Constants
<1> QED BY <1>1, <1>2 DEF InPages

\* What new_heap maps is enough.
LEMMA NewHeapSizeIs ==
  ASSUME NEW n \in Nat, n > 0, HeapFits(n)
  PROVE  /\ NewHeapSize(n) \in 1..HeapMax /\ InPages(NewHeapSize(n)) /\ NewHeapSize(n) >= n
<1>1. HeapMax \in Nat /\ HeapMax > 0 /\ InPages(HeapMax) /\ HeapMin \in Nat /\ HeapMin > 0 /\ HeapMin <= HeapMax
      /\ TopPad \in Nat
  BY HeapMaxPaged, Constants
<1>2. ASSUME NEW m \in Nat, m >= n, m <= HeapMax
      PROVE  Pages(m) \in 1..HeapMax /\ InPages(Pages(m)) /\ Pages(m) >= n
  <2>1. Pages(m) \in Nat /\ InPages(Pages(m)) /\ Pages(m) >= m /\ Pages(m) <= HeapMax
    BY <1>1, <1>2, PagesIs
  <2> QED BY <2>1, <1>1, <1>2
<1>3. CASE n + TopPad < HeapMin
  <2>0. n + TopPad \notin HeapMin..HeapMax
    BY <1>1, <1>3
  <2>1. NewHeapSize(n) = Pages(HeapMin)
    BY <1>3, <2>0 DEF NewHeapSize
  <2>2. HeapMin >= n
    BY <1>1, <1>3
  <2> QED BY <2>1, <2>2, <1>1, <1>2
<1>4. CASE ~(n + TopPad < HeapMin) /\ n + TopPad \in HeapMin..HeapMax
  <2>1. NewHeapSize(n) = Pages(n + TopPad)
    BY <1>4 DEF NewHeapSize
  <2>2. n + TopPad >= n /\ n + TopPad \in Nat /\ n + TopPad <= HeapMax
    BY <1>1, <1>4
  <2> QED BY <2>1, <2>2, <1>2
<1>5. CASE ~(n + TopPad < HeapMin) /\ n + TopPad \notin HeapMin..HeapMax
  <2>1. NewHeapSize(n) = Pages(HeapMax)
    BY <1>5 DEF NewHeapSize
  <2>2. n <= HeapMax
    BY <1>5 DEF HeapFits
  <2> QED BY <2>1, <2>2, <1>1, <1>2
<1> QED BY <1>3, <1>4, <1>5

\* The top chunk reaches to the end of the current heap.
LEMMA TopAtEnd ==
  ASSUME Structure
  PROVE  /\ HeapOf(top) = Current /\ Current \in Range(chain) /\ Current \in Heaps /\ Current \in Nat
         /\ heapSize[Current] \in Nat /\ heapSize[Current] > 0 /\ heapSize[Current] <= HeapMax
         /\ InPages(heapSize[Current]) /\ Base(Current) \in Nat
         /\ top \in Nat /\ Size(top) \in Nat /\ Size(top) >= MinSize /\ head[top].pinuse
         /\ top + Size(top) = HeapEnd(Current) /\ Base(Current) + HeapInfo <= top
         /\ IsFiniteSet(Range(chain)) /\ \A g \in Range(chain) : heapSize[g] \in Int
         /\ Range(chain) \subseteq Heaps /\ \A g \in Heaps : heapSize[g] \in Nat
<1>1. HeapsSound(heapSize, chain) /\ Tiled(head, top, heapSize, chain) /\ head[top].pinuse
  BY DEF Structure, Mem, MemorySound, FootersSound
<1>2. /\ Range(chain) \subseteq Heaps /\ Current \in Range(chain)
      /\ \A g \in Range(chain) : g \in Nat /\ Base(g) \in Nat /\ heapSize[g] \in Nat /\ heapSize[g] <= HeapMax
                                 /\ FirstOf(g, chain) \in Nat /\ FirstOf(g, chain) > Base(g)
  BY <1>1, HeapFacts DEF Current
<1>3. top \in Nat /\ Size(top) \in Nat
  BY ChunkFacts
<1>4. HeapOf(top) = Current /\ Behind(head, top) = EndOf(Current, heapSize) /\ Size(top) >= MinSize
      /\ FirstOf(Current, chain) <= top
  BY <1>1 DEF Tiled, Current, Size
<1>5. top + Size(top) = HeapEnd(Current)
  BY <1>4 DEF Behind, Size, EndOf, HeapEnd
<1>6. Base(Current) + HeapInfo <= top
  <2>1. HeapInfo \in Nat /\ ArenaState \in Nat /\ Base(Current) \in Nat
    BY Constants, <1>2
  <2>2. FirstOf(Current, chain) = Base(Current) + HeapInfo \/ FirstOf(Current, chain) = Base(Current) + HeapInfo + ArenaState
    BY <2>1 DEF FirstOf
  <2> QED BY ONLY <2>1, <2>2, <1>3, <1>4
<1>7. heapSize[Current] > 0 /\ InPages(heapSize[Current])
  BY <1>1, <1>2 DEF HeapsSound
<1>8. IsFiniteSet(Range(chain))
  <2>1. chain \in Seq(Heaps) /\ Len(chain) \in Nat /\ DOMAIN chain = 1..Len(chain)
    BY <1>1 DEF HeapsSound
  <2>2. chain \in Surjection(DOMAIN chain, Range(chain))
    <3>1. chain \in [1..Len(chain) -> Heaps]
      BY <2>1
    <3>2. chain \in [DOMAIN chain -> Range(chain)]
      BY <2>1, <3>1 DEF Range
    <3> QED BY <3>2 DEF Surjection, Range
  <2>3. IsFiniteSet(DOMAIN chain)
    BY <2>1, FS_Interval
  <2> QED BY <2>2, <2>3, FS_Surjection
<1>9. \A g \in Heaps : heapSize[g] \in Nat
  <2>1. heapSize \in [Heaps -> 0..HeapMax] /\ HeapMax \in Nat
    BY <1>1, Constants DEF HeapsSound
  <2> QED BY <2>1
<1> QED BY <1>1, <1>2, <1>3, <1>4, <1>5, <1>6, <1>7, <1>8, <1>9

\* What grow_heap adds makes the top chunk large enough.
LEMMA DiffIs ==
  ASSUME Structure, want \in Nat, ~TopFits
  PROVE  Diff \in Nat /\ InPages(Diff) /\ Size(top) + Diff >= want + MinSize
<1>1. Size(top) \in Nat /\ MinSize \in Nat
  BY TopAtEnd, Constants
<1>2. MinSize + want - Size(top) \in Nat /\ Size(top) + (MinSize + want - Size(top)) = want + MinSize
  BY <1>1 DEF TopFits
<1>3. Diff \in Nat /\ InPages(Diff) /\ Diff >= MinSize + want - Size(top)
  BY <1>2, PagesIs DEF Diff
<1> QED BY ONLY <1>1, <1>2, <1>3, want \in Nat

\* Words beyond the end of a heap are not mapped.
LEMMA NotMapped ==
  ASSUME Structure, NEW g \in Heaps, NEW w \in Nat,
         w >= 2 * HeapEnd(g), w < 2 * (Base(g) + HeapMax), HeapEnd(g) \in Nat
  PROVE  w \notin MappedWords
<1>1. HeapMax \in Nat /\ g \in Nat /\ Heaps \subseteq Nat /\ Base(g) \in Nat
  BY Constants, BaseIsNat
<1>2. \A x \in Heaps : heapSize[x] \in Nat /\ heapSize[x] <= HeapMax
  <2>1. heapSize \in [Heaps -> 0..HeapMax]
    BY DEF Structure, Mem, MemorySound, HeapsSound
  <2> QED BY <2>1, <1>1
<1> SUFFICES ASSUME NEW x \in Heaps, w \in Words(x) PROVE FALSE
  BY DEF MappedWords
<1>3. x \in Nat /\ Base(x) \in Nat /\ heapSize[x] \in Nat /\ heapSize[x] <= HeapMax
  BY <1>1, <1>2, BaseIsNat
<1>4. w >= 2 * Base(x) /\ w < 2 * (Base(x) + heapSize[x])
  <2> DEFINE e == Base(x) + heapSize[x]
  <2>1. w \in (2 * Base(x)) .. (2 * e - 1) /\ e \in Nat
    BY <1>3 DEF Words, HeapEnd
  <2> HIDE DEF e
  <2>2. w >= 2 * Base(x) /\ w < 2 * e
    BY ONLY <2>1, <1>3, w \in Nat
  <2> QED BY <2>2 DEF e
<1>5. x # g
  <2> SUFFICES ASSUME x = g PROVE FALSE
    OBVIOUS
  <2>1. w < 2 * HeapEnd(g)
    BY <1>4 DEF HeapEnd
  <2> QED BY ONLY <2>1, w \in Nat, HeapEnd(g) \in Nat, w >= 2 * HeapEnd(g)
<1>6. w >= 2 * Base(g)
  <2>1. HeapEnd(g) >= Base(g)
    <3>1. heapSize[g] \in Nat
      BY <1>2
    <3> QED BY ONLY <3>1, <1>1 DEF HeapEnd
  <2> QED BY ONLY <2>1, <1>1, w \in Nat, HeapEnd(g) \in Nat, w >= 2 * HeapEnd(g)
<1>7. w \div 2 \in Nat /\ 2 * (w \div 2) <= w /\ w < 2 * (w \div 2) + 2
  OBVIOUS
<1> DEFINE a == w \div 2
<1> HIDE DEF a
<1>8. a \in Nat /\ 2 * a <= w /\ w < 2 * a + 2
  BY <1>7 DEF a
<1>9. Base(g) <= a /\ a < Base(g) + HeapMax
  BY ONLY <1>1, <1>6, <1>8, w \in Nat, w < 2 * (Base(g) + HeapMax)
<1>10. Base(x) <= a /\ a < Base(x) + HeapMax
  BY ONLY <1>1, <1>3, <1>4, <1>8, w \in Nat
<1>11. HeapOf(a) = g
  BY ONLY <1>1, <1>8, <1>9, HeapIs
<1>12. HeapOf(a) = x
  BY ONLY <1>3, <1>8, <1>10, HeapIs
<1> QED BY <1>5, <1>11, <1>12

\* What is beyond the old top chunk when the heap has grown is new.
LEMMA GrownIsFresh ==
  ASSUME Structure, CallSound, ClearSound, call.op = "calloc", pc = "system", Stores,
         NEW m \in 1..HeapMax, heapSize' = [heapSize EXCEPT ![Current] = m],
         \E n : head' = SetHead(head, top, n, TRUE, FALSE),
         UNCHANGED <<bins, fast, call>>
  PROVE  BeyondTop' \subseteq fresh'
<1> DEFINE g == HeapOf(call.oldTop)
           z == call.oldTop + call.oldTopSize
<1>1. /\ g \in Heaps /\ heapSize[g] > 0 /\ HeapEnd(g) <= z
      /\ call.oldTop \in Nat /\ call.oldTopSize \in Nat /\ z \in Nat
  BY DEF ClearSound, CallSound
<1>2. /\ Current \in Heaps /\ top \in Nat /\ Size(top) \in Nat /\ Size(top) >= MinSize
      /\ top + Size(top) = HeapEnd(Current) /\ \A x \in Heaps : heapSize[x] \in Nat
  BY TopAtEnd
<1>3. g \in Nat /\ Base(g) \in Nat /\ heapSize[g] \in Nat /\ HeapMax \in Nat /\ MinSize \in Nat /\ MinSize > 1
  <2> HIDE DEF g
  <2> QED BY <1>1, <1>2, Constants, BaseIsNat
<1>4. HeapEnd(g) \in Nat
  BY <1>3 DEF HeapEnd
<1>5. Written \subseteq {SizeWord(top)}
  <2>1. PICK n : head' = SetHead(head, top, n, TRUE, FALSE)
    OBVIOUS
  <2>2. top \in DOMAIN head
    BY ChunkFacts
  <2>3. DOMAIN head' = DOMAIN head /\ \A a \in DOMAIN head : a # top => head'[a] = head[a]
    BY <2>1, <2>2 DEF SetHead
  <2>4. \A a \in DOMAIN head : head'[a].prev = head[a].prev
    BY <2>1, <2>2 DEF SetHead
  <2>5. \A a \in DOMAIN head' : Tagged(a) => a = top
    BY <2>3 DEF Tagged
  <2>6. \A a \in DOMAIN head' : ~Footed(a)
    BY <2>3, <2>4 DEF Footed
  <2>7. Relinked = {}
    BY DEF Relinked
  <2> QED BY <2>5, <2>6, <2>7 DEF Written
<1> SUFFICES ASSUME NEW w \in BeyondTop' PROVE w \in fresh'
  OBVIOUS
<1> DEFINE e == Base(g) + heapSize'[g]
<1>6. w \in (2 * Base(g)) .. (2 * e - 1) /\ w > 2 * z
  BY DEF BeyondTop, Words, HeapEnd
<1>7. heapSize'[g] \in Nat /\ heapSize'[g] <= HeapMax /\ (g # Current => heapSize'[g] = heapSize[g])
  <2>1. heapSize \in [Heaps -> 0..HeapMax]
    BY DEF Structure, Mem, MemorySound, HeapsSound
  <2>2. heapSize'[g] = IF g = Current THEN m ELSE heapSize[g]
    BY <2>1, <1>1
  <2>3. heapSize[g] <= HeapMax
    BY <2>1, <1>1, <1>3
  <2>4. m \in Nat /\ m <= HeapMax
    BY <1>3
  <2> QED BY <2>2, <2>3, <2>4, <1>3
<1> HIDE DEF g, z
<1>8. e \in Nat /\ e <= Base(g) + HeapMax
  BY ONLY <1>3, <1>7
<1>9. g # Current => e = HeapEnd(g)
  BY <1>7 DEF HeapEnd
<1> HIDE DEF e
<1>10. w \in Nat /\ w < 2 * e /\ w >= 2 * HeapEnd(g) /\ w >= 2 * Base(g)
  BY ONLY <1>1, <1>3, <1>4, <1>6, <1>8
<1>11. g = Current
  BY ONLY <1>4, <1>8, <1>9, <1>10
<1>12. w < 2 * (Base(g) + HeapMax)
  BY ONLY <1>3, <1>8, <1>10
<1>13. w \notin MappedWords
  BY <1>1, <1>4, <1>10, <1>12, NotMapped
<1>14. w \in MappedWords'
  <2>1. w \in (2 * Base(g)) .. (2 * e - 1)
    BY <1>6
  <2> QED BY <2>1, <1>1 DEF MappedWords, Words, HeapEnd, e
<1>15. w # SizeWord(top)
  BY ONLY <1>2, <1>3, <1>4, <1>10, <1>11 DEF SizeWord
<1> QED BY <1>5, <1>13, <1>14, <1>15 DEF Stores

\* GrowHeap keeps the invariant.
LEMMA GrowHeapKept ==
  ASSUME HeapInductive, GrowHeap, Stores
  PROVE  HeapInductive'
<1> DEFINE n == Size(top) + Diff
           m == heapSize[Current] + Diff
<1>1. pc = "system" /\ pc \in Searching /\ CanGrow /\ pc' = "finish"
  BY DEF GrowHeap, Searching, Goto
<1>2. /\ LocalsTyped /\ CallSound /\ WhereSound /\ SearchSound /\ Structure /\ InHand = {} /\ result = 0
      /\ want \in Nat /\ want >= MinSize /\ pc # "idle" /\ pc # "consolidate" /\ after = "return"
  BY <1>1, Searches
<1>3. DataSound /\ CountSound /\ ClearSound
  BY Parts DEF DataSound
<1>4. ~TopFits /\ ~haveFast
  BY <1>1, <1>2 DEF SearchSound
<1>5. Diff \in Nat /\ InPages(Diff) /\ Size(top) + Diff >= want + MinSize
  BY <1>2, <1>4, DiffIs
<1>6. /\ HeapOf(top) = Current /\ Current \in Range(chain) /\ Current \in Heaps /\ Current \in Nat
      /\ heapSize[Current] \in Nat /\ heapSize[Current] > 0
      /\ InPages(heapSize[Current]) /\ Base(Current) \in Nat
      /\ top \in Nat /\ Size(top) \in Nat /\ Size(top) >= MinSize
      /\ top + Size(top) = HeapEnd(Current)
      /\ IsFiniteSet(Range(chain)) /\ \A g \in Range(chain) : heapSize[g] \in Int
  BY <1>2, TopAtEnd
<1>7. /\ UNCHANGED <<fast, haveFast, bins, marked, lastRemainder, top, chain,
                    block, calls, refused, call, want, idx, p, result, after, resume>>
      /\ heapSize' = [heapSize EXCEPT ![HeapOf(top)] = @ + Diff]
      /\ systemMem' = systemMem + Diff
      /\ head' = SetHead(head, top, HeapEnd(HeapOf(top)) + Diff - top, TRUE, FALSE)
  BY DEF GrowHeap, Goto, lists, program
<1>8. heapSize' = [heapSize EXCEPT ![Current] = m] /\ heapSize' = [heapSize EXCEPT ![HeapOf(top)] = m]
  BY <1>6, <1>7
<1>9. HeapEnd(HeapOf(top)) + Diff - top = n
  <2>1. HeapEnd(Current) \in Nat
    BY <1>6 DEF HeapEnd
  <2> QED BY <2>1, <1>5, <1>6
<1>10. head' = SetHead(head, top, n, TRUE, FALSE)
  BY <1>7, <1>9
<1>11. m \in 1..HeapMax /\ InPages(m) /\ top + n = Base(HeapOf(top)) + m /\ n \in Nat /\ n >= MinSize
  <2>1. HeapMax \in Nat /\ MinSize \in Nat
    BY Constants
  <2>2. m <= HeapMax
    BY <1>1, <1>6 DEF CanGrow
  <2>3. InPages(m)
    BY <1>5, <1>6, PagedSum
  <2>4. top + Size(top) = Base(Current) + heapSize[Current]
    BY <1>6 DEF HeapEnd
  <2>5. m \in 1..HeapMax /\ top + n = Base(Current) + m /\ n \in Nat /\ n >= MinSize
    BY ONLY <2>1, <2>2, <2>4, <1>5, <1>6
  <2> QED BY <2>3, <2>5, <1>6
<1>12. InHand' = InHand
  BY <1>1, <1>7 DEF InHand, Held, LiveSlots
<1>13. /\ Structure' /\ head'[top].size = n /\ SameSizes(head, head', DOMAIN head \ {top})
  <2> HIDE DEF n, m
  <2> QED BY <1>2, <1>7, <1>8, <1>10, <1>11, <1>12, ResizeStep
<1>14. SameSizes(head, head', Held)
  <2>1. Held \subseteq DOMAIN head \ {top}
    BY <1>2, ChunkFacts DEF Parted
  <2> QED BY <1>13, <2>1 DEF SameSizes
<1>15. ~Releasing' /\ Allocating /\ Allocating'
  BY <1>1 DEF Releasing, Allocating, Searching
<1>16. LocalsTyped'
  BY <1>1, <1>2, <1>7 DEF LocalsTyped
<1>17. WhereSound'
  BY <1>2, <1>7, <1>14, <1>15, SearchWhere
<1>18. SearchSound'
  BY <1>1 DEF SearchSound, Merging
<1>19. FinishSound'
  <2>1. TopFits'
    BY <1>5, <1>7, <1>13 DEF TopFits, Size
  <2> QED BY <2>1, <1>1, <1>15 DEF FinishSound
<1>20. CountSound'
  <2>1. heapSize'[Current] = m /\ m \in Int /\ \A x \in Range(chain) \ {Current} : heapSize'[x] = heapSize[x]
    <3>1. heapSize \in [Heaps -> 0..HeapMax] /\ Range(chain) \subseteq Heaps
      BY <1>2, TopAtEnd DEF Structure, Mem, MemorySound, HeapsSound
    <3>2. heapSize'[Current] = m /\ \A x \in Range(chain) \ {Current} : heapSize'[x] = heapSize[x]
      BY <3>1, <1>6, <1>8
    <3> QED BY <3>2, <1>5, <1>6
  <2> HIDE DEF m
  <2>2. SumFunctionOnSet(heapSize', Range(chain)) = SumFunctionOnSet(heapSize, Range(chain)) + (heapSize'[Current] - heapSize[Current])
    BY <2>1, <1>6, SumOnChanged
  <2>3. systemMem \in Nat /\ systemMem = SumFunctionOnSet(heapSize, Range(chain))
    BY <1>3 DEF CountSound
  <2>4. m - heapSize[Current] = Diff
    BY <1>5, <1>6 DEF m
  <2>5. systemMem' \in Nat
    BY <2>3, <1>5, <1>7
  <2> QED BY <2>1, <2>2, <2>3, <2>4, <2>5, <1>7 DEF CountSound
<1>21. ClearSound'
  <2> SUFFICES ASSUME call.op = "calloc" PROVE ClearSound'
    BY <1>7 DEF ClearSound
  <2>1. HeapOf(call.oldTop) \in Heaps /\ heapSize[HeapOf(call.oldTop)] > 0
    BY <1>3 DEF ClearSound
  <2>2. heapSize'[HeapOf(call.oldTop)] > 0
    <3>1. heapSize \in [Heaps -> 0..HeapMax]
      BY <1>2 DEF Structure, Mem, MemorySound, HeapsSound
    <3> HIDE DEF m
    <3>2. m > 0
      BY <1>11, Constants
    <3> QED BY <3>1, <3>2, <2>1, <1>8
  <2>3. BeyondTop' \subseteq fresh'
    <3> HIDE DEF m, n
    <3> QED BY <1>1, <1>2, <1>3, <1>7, <1>8, <1>10, <1>11, GrownIsFresh
  <2> QED BY <1>1, <1>7, <2>1, <2>2, <2>3 DEF ClearSound
<1>22. \A s \in LiveSlots : head'[block[s].at].size >= Kept(s)
  BY <1>2, <1>3, <1>14, BlocksKept
<1> QED BY <1>1, <1>2, <1>7, <1>13, <1>16, <1>17, <1>18, <1>19, <1>20, <1>21, <1>22, EngineFrame

\* The new heap of NewHeap is large enough for the request.
LEMMA NewSizeIs ==
  ASSUME want \in Nat, HeapFits(NewNeed)
  PROVE  /\ NewHeapSize(NewNeed) \in 1..HeapMax /\ InPages(NewHeapSize(NewNeed))
         /\ NewHeapSize(NewNeed) - HeapInfo >= want + MinSize /\ NewHeapSize(NewNeed) - HeapInfo >= MinSize
<1>1. MinSize \in Nat /\ MinSize > 1 /\ HeapInfo \in Nat /\ HeapInfo > 0 /\ HeapMax \in Nat
  BY Constants
<1>2. NewNeed \in Nat /\ NewNeed > 0 /\ NewNeed = want + MinSize + HeapInfo
  BY <1>1 DEF NewNeed
<1>3. NewHeapSize(NewNeed) \in 1..HeapMax /\ InPages(NewHeapSize(NewNeed)) /\ NewHeapSize(NewNeed) >= NewNeed
  BY <1>2, NewHeapSizeIs
<1> DEFINE z == NewHeapSize(NewNeed)
<1>4. z \in Nat /\ z >= NewNeed
  BY <1>1, <1>3
<1> HIDE DEF z
<1>5. z - HeapInfo >= want + MinSize /\ z - HeapInfo >= MinSize
  BY ONLY <1>1, <1>2, <1>4, want \in Nat
<1> QED BY <1>3, <1>5 DEF z

\* The rest of the old top chunk before the fenceposts, and that it left no
\* room for the request.
LEMMA RetiredTop ==
  ASSUME Structure, want \in Nat, ~TopFits, NEW k \in Heaps, heapSize[k] = 0,
         NEW m \in 1..HeapMax, InPages(m), m - HeapInfo >= MinSize,
         Size(top) - MinSize >= MinSize, head' = RetireLarge(k, m),
         heapSize' = [heapSize EXCEPT ![k] = m], chain' = Append(chain, k), UNCHANGED want
  PROVE  /\ head'[top].pinuse /\ Behind(head', top) = Fence' /\ Len(chain') > 1
         /\ ~CanGrow => (HeapEnd(Previous)' - top) + (HeapMax - heapSize'[Previous']) < want' + MinSize + Page
<1>1. /\ head'[top].size = Size(top) - MinSize /\ head'[top].pinuse
      /\ Behind(head', top) + 1 = EndOf(chain[Len(chain)], heapSize) - EndRoom
      /\ head'[EndOf(chain[Len(chain)], heapSize) - EndRoom].prev = 1
  BY ChunkFacts, RetireLargeSound
<1>2. /\ Current \in Heaps /\ heapSize[Current] > 0 /\ heapSize[Current] \in Nat /\ top \in Nat /\ Size(top) \in Nat
      /\ Size(top) >= MinSize /\ top + Size(top) = HeapEnd(Current) /\ HeapOf(top) = Current /\ Base(Current) \in Nat
  BY TopAtEnd
<1>3. Previous' = Current /\ Len(chain') > 1
  <2>1. chain \in Seq(Heaps) /\ chain # <<>>
    BY DEF Structure, Mem, MemorySound, HeapsSound
  <2>2. Len(chain) \in Nat /\ Len(chain) >= 1
    BY <2>1, EmptySeq, LenProperties
  <2>3. Len(chain') = Len(chain) + 1 /\ \A i \in 1..Len(chain) : chain'[i] = chain[i]
    BY <2>1
  <2>4. Len(chain') - 1 = Len(chain) /\ Len(chain) \in 1..Len(chain)
    BY ONLY <2>2, <2>3
  <2>5. chain'[Len(chain') - 1] = chain[Len(chain)]
    BY <2>3, <2>4
  <2> QED BY <2>2, <2>3, <2>5 DEF Previous, Current
<1>4. heapSize'[Current] = heapSize[Current]
  <2>1. heapSize \in [Heaps -> 0..HeapMax]
    BY DEF Structure, Mem, MemorySound, HeapsSound
  <2>2. Current # k
    BY <1>2
  <2> QED BY <2>1, <2>2
<1>5. Sentinel' = EndOf(Current, heapSize) - EndRoom
  BY <1>3, <1>4 DEF Sentinel, HeapEnd, EndOf
<1>6. Behind(head', top) = Fence'
  <2> DEFINE e == EndOf(Current, heapSize) - EndRoom
             b == Behind(head', top)
  <2>1. b + 1 = e /\ head'[e].prev = 1 /\ Sentinel' = e
    BY <1>1, <1>5 DEF Current
  <2>2. b \in Nat
    <3>1. b = top + (Size(top) - MinSize)
      BY <1>1 DEF Behind
    <3> QED BY ONLY <3>1, <1>2, Size(top) - MinSize >= MinSize, Constants
  <2>3. Fence' = e - 1
    BY <2>1 DEF Fence
  <2> HIDE DEF e, b
  <2>4. e - 1 = b
    BY ONLY <2>1, <2>2
  <2> QED BY <2>3, <2>4 DEF b
<1>7. ASSUME ~CanGrow
      PROVE  (HeapEnd(Previous)' - top) + (HeapMax - heapSize'[Previous']) < want' + MinSize + Page
  <2>1. HeapEnd(Previous)' = HeapEnd(Current) /\ heapSize'[Previous'] = heapSize[Current]
    BY <1>3, <1>4 DEF HeapEnd
  <2>3. MinSize \in Nat /\ Page \in Nat /\ HeapMax \in Nat
    BY Constants
  <2>1a. ~(Size(top) >= want + MinSize)
    BY DEF TopFits
  <2>2. Size(top) < want + MinSize
    BY ONLY <2>1a, <2>3, <1>2, want \in Nat
  <2>4. MinSize + want - Size(top) \in Nat
    BY ONLY <2>2, <2>3, <1>2, want \in Nat
  <2>5. Diff \in Nat /\ Diff < (MinSize + want - Size(top)) + Page
    BY <2>4, PagesIs DEF Diff
  <2>6. heapSize[Current] + Diff > HeapMax
    <3>1. ~(heapSize[Current] + Diff <= HeapMax)
      BY <1>7, <1>2 DEF CanGrow
    <3> QED BY ONLY <3>1, <2>3, <2>5, <1>2
  <2>7. HeapEnd(Current) - top = Size(top)
    <3>1. HeapEnd(Current) \in Nat
      BY <1>2 DEF HeapEnd
    <3> QED BY ONLY <3>1, <1>2
  <2>8. Size(top) + (HeapMax - heapSize[Current]) < want + MinSize + Page
    BY ONLY <2>2, <2>3, <2>5, <2>6, <1>2, want \in Nat
  <2> QED BY <2>1, <2>7, <2>8
<1> QED BY <1>1, <1>3, <1>6, <1>7

\* NewHeap keeps the invariant.
LEMMA NewHeapKept ==
  ASSUME HeapInductive, NewHeap, Stores
  PROVE  HeapInductive'
<1> DEFINE m == NewHeapSize(NewNeed)
           large == Size(top) - MinSize >= MinSize
<1>1. pc = "system" /\ pc \in Searching /\ CanMap /\ pc # "free" /\ pc # "finish"
  BY DEF NewHeap, Searching
<1>2. /\ LocalsTyped /\ CallSound /\ WhereSound /\ SearchSound /\ Structure /\ InHand = {} /\ result = 0
      /\ want \in Nat /\ want >= MinSize /\ pc # "idle" /\ pc # "consolidate" /\ after = "return"
  BY <1>1, Searches
<1>3. DataSound /\ CountSound /\ ClearSound
  BY Parts DEF DataSound
<1>4. ~TopFits /\ ~haveFast
  BY <1>1, <1>2 DEF SearchSound
<1>5. PICK k \in Unmapped :
      /\ heapSize' = [heapSize EXCEPT ![k] = m]
      /\ chain' = Append(chain, k) /\ systemMem' = systemMem + m
      /\ top' = Base(k) + HeapInfo
      /\ IF large THEN /\ head' = RetireLarge(k, m) /\ p' = top /\ pc' = "free" /\ after' = "finish"
         ELSE /\ head' = RetireSmall(k, m) /\ pc' = "finish" /\ UNCHANGED <<p, after>>
  BY DEF NewHeap, RetireLarge, RetireSmall, NewEnds, Fresh
<1>6. /\ UNCHANGED <<fast, haveFast, bins, marked, lastRemainder, block, calls, call, want, idx, result, resume>>
      /\ refused' = CanGrow
  BY DEF NewHeap, lists
<1>7. k \in Heaps /\ heapSize[k] = 0
  BY DEF Unmapped
<1>8. m \in 1..HeapMax /\ InPages(m) /\ m - HeapInfo >= want + MinSize /\ m - HeapInfo >= MinSize
  BY <1>1, <1>2, NewSizeIs DEF CanMap
<1> HIDE DEF m
<1>9. Held' = Held /\ LiveSlots' = LiveSlots
  BY <1>6, SameHeld
<1>10. /\ top \in DOMAIN head /\ top \in Nat /\ top # 0 /\ top \notin Ord /\ Held \subseteq Ord
       /\ Size(top) \in Nat
  BY <1>2, ChunkFacts DEF Parted
<1>11. IF large THEN InHand' = {top} ELSE InHand' = {}
  <2>1. CASE large
    <3>1. result' = 0 /\ pc' = "free" /\ p' = top
      BY <2>1, <1>2, <1>5, <1>6
    <3> QED BY <2>1, <3>1, <1>9, NextInHand
  <2>2. CASE ~large
    <3>1. result' = 0 /\ pc' # "free"
      BY <2>2, <1>2, <1>5, <1>6
    <3> QED BY <2>2, <3>1, <1>9, NextInHand
  <2> QED BY <2>1, <2>2
<1>12. /\ Structure' /\ head'[top'].size = m - HeapInfo
       /\ SameSizes(head, head', DOMAIN head \ {top})
  <2>1. IF large THEN head' = RetireLarge(k, m) /\ InHand' = {top} ELSE head' = RetireSmall(k, m) /\ InHand' = {}
    BY <1>5, <1>11
  <2>2. /\ heapSize' = [heapSize EXCEPT ![k] = m] /\ chain' = Append(chain, k)
        /\ top' = Base(k) + HeapInfo
    BY <1>5
  <2> QED BY <1>2, <1>6, <1>7, <1>8, <2>1, <2>2, NewHeapStep
<1>13. SameSizes(head, head', Held)
  <2>1. Held \subseteq DOMAIN head \ {top}
    BY <1>2, <1>10, ChunkFacts
  <2> QED BY <1>12, <2>1 DEF SameSizes
<1>14. TopFits'
  BY <1>6, <1>8, <1>12 DEF TopFits, Size
<1>15. CanGrow \in BOOLEAN
  BY DEF CanGrow
<1>16. LocalsTyped'
  <2>1. CASE large
    BY <2>1, <1>2, <1>5, <1>6, <1>10, <1>15 DEF LocalsTyped, Releasing
  <2>2. CASE ~large
    BY <2>2, <1>1, <1>2, <1>5, <1>6, <1>15 DEF LocalsTyped, Releasing
  <2> QED BY <2>1, <2>2
<1>17. call.op # "free" /\ (call.op = "realloc" => Size(Old) < want)
  BY <1>1, <1>2 DEF WhereSound, Allocating
<1>18. call.op = "realloc" => Size(Old)' < want'
  <2> SUFFICES ASSUME call.op = "realloc" PROVE Size(Old)' < want'
    OBVIOUS
  <2>1. Old \in Held
    BY <1>2, OldFacts
  <2>2. head'[Old].size = head[Old].size
    BY <2>1, <1>13 DEF SameSizes
  <2> QED BY <1>6, <1>17, <2>2 DEF Size, Old
<1>19. WhereSound'
  <2>1. CASE large
    <3>1. pc' = "free" /\ after' = "finish" /\ p' = top /\ result' = 0
      BY <2>1, <1>2, <1>5, <1>6
    <3>2. ~Tailing' /\ ~Returning'
      BY <3>1 DEF Tailing, Returning
    <3>3. top \notin Held'
      BY <1>9, <1>10
    <3> QED BY <3>1, <3>2, <3>3, <1>6, <1>10, <1>17, <1>18 DEF WhereSound
  <2>2. CASE ~large
    <3>1. pc' = "finish" /\ result' = 0
      BY <2>2, <1>2, <1>5, <1>6
    <3>2. ~Tailing' /\ ~Returning'
      BY <3>1 DEF Tailing, Returning, Releasing
    <3> QED BY <3>1, <3>2, <1>6, <1>17, <1>18 DEF WhereSound
  <2> QED BY <2>1, <2>2
<1>20. pc' \in {"free", "finish"}
  BY <1>5
<1>21. SearchSound'
  BY <1>20 DEF SearchSound, Merging
<1>22. FinishSound'
  <2>1. CASE ~large
    <3>1. pc' = "finish"
      BY <2>1, <1>5
    <3> QED BY <3>1, <1>14 DEF FinishSound, Releasing
  <2>2. CASE large /\ CanGrow
    <3>1. refused' /\ pc' = "free"
      BY <2>2, <1>5, <1>6
    <3> QED BY <3>1 DEF FinishSound
  <2>3. CASE large /\ ~CanGrow
    <3>1. pc' = "free" /\ p' = top
      BY <2>3, <1>5
    <3>2. /\ head'[top].pinuse /\ Behind(head', top) = Fence' /\ Len(chain') > 1
          /\ (HeapEnd(Previous)' - top) + (HeapMax - heapSize'[Previous']) < want' + MinSize + Page
      <4>1. /\ heapSize' = [heapSize EXCEPT ![k] = m] /\ chain' = Append(chain, k)
            /\ head' = RetireLarge(k, m) /\ Size(top) - MinSize >= MinSize
        BY <2>3, <1>5
      <4>2. m - HeapInfo >= MinSize
        BY <1>8
      <4> QED BY <1>2, <1>4, <1>6, <1>7, <1>8, <2>3, <4>1, <4>2, RetiredTop
    <3>3. NextChunk(p)' = Fence' /\ head'[p'].pinuse
      BY <3>1, <3>2 DEF NextChunk, Behind
    <3>4. NoRoom(HeapEnd(Previous) - p)'
      BY <3>1, <3>2 DEF NoRoom
    <3>5. ~haveFast'
      BY <1>4, <1>6
    <3>6. JustMapped'
      BY <3>1, <3>2, <3>3, <3>4, <3>5, <1>14 DEF JustMapped
    <3> QED BY <3>1, <3>6 DEF FinishSound
  <2> QED BY <2>1, <2>2, <2>3
<1>23. \A g \in Heaps \ {k} : heapSize'[g] = heapSize[g]
  <2>1. heapSize \in [Heaps -> 0..HeapMax]
    BY <1>2 DEF Structure, Mem, MemorySound, HeapsSound
  <2> QED BY <2>1, <1>5
<1>24. heapSize'[k] = m /\ m \in Int /\ m \in Nat
  <2>1. heapSize \in [Heaps -> 0..HeapMax] /\ m \in Nat
    BY <1>2, <1>8, Constants DEF Structure, Mem, MemorySound, HeapsSound
  <2> QED BY <2>1, <1>5, <1>7
<1>25. CountSound'
  <2>1. k \notin Range(chain) /\ Range(chain) \subseteq Heaps /\ IsFiniteSet(Range(chain))
        /\ chain \in Seq(Heaps) /\ \A g \in Range(chain) : heapSize[g] \in Int
    BY <1>2, <1>7, TopAtEnd DEF Structure, Mem, MemorySound, HeapsSound
  <2>2. Range(chain') = Range(chain) \cup {k}
    BY <2>1, <1>5, <1>7, AppendProperties DEF Range
  <2>3. IsFiniteSet(Range(chain'))
    BY <2>1, <2>2, FS_AddElement
  <2>4. Range(chain') \ {k} = Range(chain) /\ k \in Range(chain')
    BY <2>1, <2>2
  <2>5. \A x \in Range(chain') : heapSize'[x] \in Int
    BY <2>1, <2>2, <1>23, <1>24
  <2>6. \A x \in Range(chain') \ {k} : heapSize[x] = heapSize'[x]
    BY <2>1, <2>4, <1>23
  <2>7. SumFunctionOnSet(heapSize', Range(chain')) = heapSize'[k] + SumFunctionOnSet(heapSize, Range(chain') \ {k})
    <3> DEFINE f == heapSize'
               S == Range(chain')
    <3>1. IsFiniteSet(S) /\ (\A x \in S : f[x] \in Int) /\ k \in S /\ \A x \in S \ {k} : heapSize[x] = f[x]
      BY <2>3, <2>4, <2>5, <2>6
    <3> HIDE DEF f, S
    <3>2. SumFunctionOnSet(f, S) = f[k] + SumFunctionOnSet(heapSize, S \ {k})
      BY ONLY <3>1, SumOnSplit
    <3> QED BY <3>2 DEF f, S
  <2>8. systemMem \in Nat /\ systemMem = SumFunctionOnSet(heapSize, Range(chain))
    BY <1>3 DEF CountSound
  <2>9. systemMem' = m + systemMem /\ systemMem' \in Nat
    BY <2>8, <1>5, <1>24
  <2> QED BY <2>4, <2>7, <2>8, <2>9, <1>24 DEF CountSound
<1>26. ClearSound'
  <2>1. call.op = "calloc" => HeapOf(call.oldTop) \in Heaps /\ heapSize[HeapOf(call.oldTop)] > 0
    BY <1>3 DEF ClearSound
  <2>2. call.op = "calloc" => HeapOf(call.oldTop) \in Heaps \ {k}
    BY <2>1, <1>7
  <2>3. \A g \in Heaps : heapSize[g] \in Nat
    BY <1>2, TopAtEnd
  <2>4. call.op = "calloc" => /\ heapSize'[HeapOf(call.oldTop)] \in Nat
                              /\ heapSize'[HeapOf(call.oldTop)] > 0
                              /\ heapSize'[HeapOf(call.oldTop)] <= heapSize[HeapOf(call.oldTop)]
    BY <2>1, <2>2, <2>3, <1>23
  <2> QED BY <1>1, <1>2, <1>3, <1>6, <2>4, ClearFrame
<1>27. \A s \in LiveSlots : head'[block[s].at].size >= Kept(s)
  BY <1>2, <1>3, <1>13, BlocksKept
<1> QED BY <1>2, <1>6, <1>12, <1>16, <1>19, <1>20, <1>21, <1>22, <1>25, <1>26, <1>27, EngineFrame

-----------------------------------------------------------------------------
(* _int_free, malloc_consolidate and heap_trim.                            *)

\* While a chunk is released.
LEMMA ReleasesFacts ==
  ASSUME HeapInductive, Releasing
  PROVE  /\ Structure /\ LocalsTyped /\ CallSound /\ WhereSound /\ SearchSound /\ FinishSound
         /\ DataSound /\ CountSound /\ ClearSound
         /\ pc # "idle" /\ pc \notin {"finish", "got", "fail"}
         /\ after \in {"return", "finish", "tail"}
         /\ result # 0 => result \in Held \cup InHand
<1>1. pc \in {"free", "trim", "consolidate"}
  BY DEF Releasing
<1>2. /\ Structure /\ LocalsTyped /\ CallSound /\ WhereSound /\ SearchSound /\ FinishSound
      /\ DataSound /\ CountSound
  BY Parts
<1>3. result # 0 => result \in Held \cup InHand
  BY DEF InHand
<1> QED BY <1>1, <1>2, <1>3 DEF DataSound, LocalsTyped

\* A release that goes on, or goes on after.
LEMMA ReleaseWhere ==
  ASSUME HeapInductive, Releasing,
         UNCHANGED <<block, call, want, result>>, SameSizes(head, head', Held),
         result # 0 => head'[result].size = head[result].size,
         \/ Releasing' /\ pc' # "free" /\ after' = after
         \/ pc' = after /\ after' = "return"
  PROVE  WhereSound'
<1>1. Structure /\ LocalsTyped /\ CallSound /\ WhereSound /\ after \in {"return", "finish", "tail"} /\ pc # "idle"
  BY ReleasesFacts
<1>2. pc' \in {"trim", "consolidate", "return", "finish", "tail"}
  BY <1>1 DEF Releasing
<1>3. Held' = Held /\ Size(result)' = (IF result = 0 THEN Size(result)' ELSE Size(result))
  BY SameHeld DEF Size
<1>4. call.op = "realloc" => Size(Old)' = Size(Old)
  <2> SUFFICES ASSUME call.op = "realloc" PROVE Size(Old)' = Size(Old)
    OBVIOUS
  <2>1. Old \in Held
    BY <1>1, OldFacts
  <2>2. head'[Old].size = head[Old].size
    BY <2>1 DEF SameSizes
  <2> QED BY <2>2 DEF Size, Old
<1>5. CASE after = "finish"
  <2>1. Allocating
    BY <1>5 DEF Allocating
  <2>2. call.op # "free" /\ result = 0 /\ (call.op = "realloc" => Size(Old) < want)
    BY <2>1, <1>1 DEF WhereSound
  <2>3. ~Tailing' /\ ~Returning'
    BY <1>5, <1>2 DEF Tailing, Returning, Releasing
  <2> QED BY <1>2, <1>4, <2>2, <2>3 DEF WhereSound
<1>6. CASE after = "return"
  <2>1. Returning
    BY <1>6 DEF Returning
  <2>2. ~Tailing' /\ ~Allocating'
    BY <1>6, <1>2 DEF Tailing, Allocating, Merging, Searching, Releasing
  <2>3. IF call.op = "free" THEN result = 0
        ELSE /\ call.op \in {"realloc", "memalign"}
             /\ call.op = "realloc" => result = Old
             /\ call.op = "memalign" => result \notin Held /\ result # 0
             /\ Size(result) >= call.n
    BY <2>1, <1>1 DEF WhereSound
  <2>4. Old' = Old
    BY DEF Old
  <2>5. call.op = "realloc" => Old # 0
    BY <1>1, OldFacts
  <2> QED BY <1>2, <1>3, <2>2, <2>3, <2>4, <2>5 DEF WhereSound
<1>7. CASE after = "tail"
  <2>1. Tailing
    BY <1>7 DEF Tailing
  <2>2. ~Returning' /\ ~Allocating'
    BY <1>7, <1>2 DEF Returning, Allocating, Merging, Searching, Releasing
  <2>3. /\ call.op = "memalign" /\ result \notin Held /\ result # 0
        /\ Size(result) >= call.n /\ (result + 1) % call.align = 0
    BY <2>1, <1>1 DEF WhereSound
  <2> QED BY <1>2, <1>3, <2>2, <2>3 DEF WhereSound
<1> QED BY <1>1, <1>5, <1>6, <1>7

\* The parts of the next state, put together for a release.
LEMMA ReleaseKept ==
  ASSUME HeapInductive, Releasing, Stores, Structure',
         UNCHANGED <<block, call, calls, refused, want, idx, p, result, lastRemainder>>, SameSizes(head, head', Held),
         result # 0 => head'[result].size = head[result].size,
         haveFast' \in BOOLEAN, resume' \in {"unsorted", "trim"}, pc' = "consolidate" => ~haveFast',
         \/ Releasing' /\ pc' # "free" /\ after' = after
         \/ pc' = after /\ after' = "return",
         FinishSound', ClearSound', CountSound'
  PROVE  HeapInductive'
<1>1. /\ Structure /\ LocalsTyped /\ CallSound /\ WhereSound /\ after \in {"return", "finish", "tail"}
      /\ pc # "idle" /\ DataSound
  BY ReleasesFacts
<1>2. pc' \in {"trim", "consolidate", "return", "finish", "tail"} /\ ~Merging'
  BY <1>1 DEF Releasing, Merging
<1>3. LocalsTyped'
  BY <1>1, <1>2 DEF LocalsTyped
<1>4. WhereSound'
  BY ReleaseWhere
<1>5. SearchSound'
  BY <1>2 DEF SearchSound
<1>6. \A s \in LiveSlots : head'[block[s].at].size >= Kept(s)
  BY <1>1, BlocksKept
<1>7. pc' # "idle"
  BY <1>2
<1> QED BY <1>1, <1>3, <1>4, <1>5, <1>6, <1>7, EngineFrame

\* The chunk to be freed is in hand.
LEMMA FreedHand ==
  ASSUME pc = "free", pc' # "free", UNCHANGED <<block, result>>, p # result, p \notin Held
  PROVE  InHand' = InHand \ {p} /\ (result # 0 /\ result \notin Held => result \in InHand \ {p})
BY DEF InHand, Held, LiveSlots

\* FreeFast keeps the invariant.
LEMMA FreeFastKept ==
  ASSUME HeapInductive, FreeFast, Stores
  PROVE  HeapInductive'
<1>1. pc = "free" /\ Releasing /\ pc' = after /\ after' = "return" /\ haveFast' = TRUE
  BY DEF FreeFast, Releasing
<1>2. /\ Structure /\ LocalsTyped /\ CallSound /\ WhereSound /\ FinishSound
      /\ after \in {"return", "finish", "tail"} /\ pc \notin {"finish", "got", "fail"}
      /\ (result # 0 => result \in Held \cup InHand)
  BY <1>1, ReleasesFacts
<1>3. UNCHANGED <<head, bins, marked, lastRemainder, top, heapSize, chain, systemMem,
                  block, calls, refused, call, want, idx, p, result, resume>>
  BY DEF FreeFast, heaps, program
<1>4. p # result /\ p \notin Held /\ pc' # "free"
  BY <1>1, <1>2 DEF WhereSound
<1>5. InHand' = InHand \ {p}
  BY <1>1, <1>3, <1>4, FreedHand
<1>6. Structure'
  BY <1>1, <1>2, <1>5, FreeFastStep
<1>7. SameSizes(head, head', Held) /\ (result # 0 => head'[result].size = head[result].size)
  BY <1>3 DEF SameSizes
<1>8. ~Releasing'
  BY <1>1, <1>2 DEF Releasing
<1>9. FinishSound'
  <2>1. pc' = "finish" => TopFits \/ refused \/ want > TopPad
    BY <1>1, <1>2 DEF FinishSound, JustMapped
  <2>2. pc' # "fail" /\ TopFits' = TopFits
    BY <1>1, <1>2, <1>3 DEF TopFits, Size
  <2> QED BY <1>3, <1>8, <2>1, <2>2 DEF FinishSound
<1>10. CountSound' /\ ClearSound'
  BY <1>2, <1>3, SameHeapsFrame
<1>11. haveFast' \in BOOLEAN /\ resume' \in {"unsorted", "trim"} /\ (pc' = "consolidate" => ~haveFast')
  BY <1>1, <1>2, <1>3 DEF LocalsTyped
<1> QED BY <1>1, <1>3, <1>6, <1>7, <1>9, <1>10, <1>11, ReleaseKept

\* A chunk that ends at the fenceposts of the heap before the current one is
\* freed: the end of that heap is then as large as the chunk made it.
LEMMA FreedAtFence ==
  ASSUME Structure, NEW a \in Ord, a \notin Binned, Release(a), Len(chain) > 1,
         head[a].pinuse, NextChunk(a) = Fence, UNCHANGED <<heapSize, chain>>
  PROVE  /\ top' = top /\ head'[top].size = Size(top)
         /\ Previous' = Previous /\ Ending' = HeapEnd(Previous) - a
<1>1. Mem /\ Typed(head)
  BY ChunkFacts
<1>2. IsFence(head, heapSize, chain, Fence, Sentinel)
  BY DEF IsFence, Fence, Sentinel, Previous, EndOf, HeapEnd
<1>3. /\ Sentinel \in DOMAIN head /\ head[Sentinel].pinuse
      /\ Fence \in DOMAIN head /\ Fence # top /\ Behind(head, Fence) = Sentinel
      /\ head[Fence].size = head[Sentinel].prev /\ head[Fence].size \in 1..MinSize
      /\ Fence + head[Fence].size + EndRoom = HeapEnd(Previous)
  BY <1>1, <1>2, FenceFacts DEF Mem, HeapEnd, EndOf, Previous
<1>4. /\ a \in DOMAIN head /\ a \in Nat /\ a # top /\ head[a].size \in Nat /\ head[a].size > 0
      /\ Fence = a + head[a].size /\ Fence \in Nat
  BY <1>1, Around
<1>5. Start(a) = a /\ ~AtTop(a) /\ ~Joins(a)
  BY <1>3 DEF Start, AtTop, Joins, Inuse, NextChunk, Behind
<1>6. Merged(a) = Fence - a
  <2>1. Merged(a) = (Fence - a) + 0
    BY <1>5 DEF Merged
  <2> QED BY <2>1, <1>4
<1>7. Fence - a \in Nat /\ a + (Fence - a) = Fence /\ Fence # a
  BY <1>4
<1>8. Sentinel \in Nat /\ Sentinel # a /\ Sentinel # Fence
  <2>1. Sentinel = Fence + head[Fence].size
    BY <1>3 DEF Behind
  <2> HIDE DEF Sentinel, Fence
  <2> QED BY <2>1, <1>3, <1>4
<1> DEFINE f == Fence
           w == Whole(a)
           m == ClearInuse(w, f)
<1>9. head' = SetFoot(m, a, f - a) /\ top' = top
  BY <1>5, <1>6 DEF Release, Whole, Gone
<1>10. IsWhole(w, a, f - a, {})
  <2>1. Gone(a) = {}
    BY <1>5 DEF Gone
  <2>2. IsWhole(w, a, Merged(a), {})
    BY <2>1, <1>1, <1>4, <1>5, <1>6, <1>7, WholeIs DEF Whole
  <2> QED BY <2>2, <1>6
<1>11. /\ Typed(w) /\ DOMAIN w = DOMAIN head /\ \A x \in DOMAIN head \ {a} : w[x] = head[x]
  BY <1>10 DEF IsWhole
<1> HIDE DEF w, f
<1>12. Typed(m) /\ IsTagged(w, m, f, w[f].size, FALSE, w[f].nonMain, w[f].prev)
  BY <1>3, <1>11, ClearInuseIs DEF f
<1> HIDE DEF m
<1>13. IsTagged(m, head', f, m[f].size, m[f].pinuse, m[f].nonMain, f - a)
  <2>1. a + (f - a) = f /\ f \in DOMAIN m /\ f - a \in Nat
    BY <1>3, <1>7, <1>11, <1>12 DEF IsTagged, f
  <2>2. Typed(SetFoot(m, a, f - a)) /\ IsTagged(m, SetFoot(m, a, f - a), a + (f - a),
          m[a + (f - a)].size, m[a + (f - a)].pinuse, m[a + (f - a)].nonMain, f - a)
    BY ONLY <2>1, <1>12, SetFootIs
  <2> QED BY <2>1, <2>2, <1>9
<1>14. /\ head'[f].size = head[f].size /\ ~head'[f].pinuse /\ head'[f].prev = f - a
       /\ \A x \in DOMAIN head \ {a, f} : head'[x] = head[x]
  BY <1>3, <1>7, <1>11, <1>12, <1>13 DEF IsTagged, f
<1>15. head'[Sentinel] = head[Sentinel] /\ head'[top].size = Size(top)
  <2>1. top \in DOMAIN head
    BY ChunkFacts
  <2> QED BY <2>1, <1>3, <1>4, <1>8, <1>14 DEF f, Size
<1>16. Previous' = Previous /\ HeapEnd(Previous)' = HeapEnd(Previous)
  BY DEF Previous, HeapEnd
<1>17. Sentinel' = Sentinel
  BY <1>16 DEF Sentinel
<1>18. Fence' = f
  BY <1>15, <1>17 DEF Fence, f
<1>19. Ending' = head[f].size + EndRoom + (f - a)
  BY <1>14, <1>18 DEF Ending, Size
<1>20. head[f].size + EndRoom + (f - a) = HeapEnd(Previous) - a
  <2>1. f + head[f].size + EndRoom = HeapEnd(Previous) /\ head[f].size \in Nat /\ f \in Nat
    BY <1>3, <1>4, TypedTags, <1>1 DEF f
  <2>2. EndRoom \in Nat
    BY Constants
  <2> QED BY ONLY <2>1, <2>2, <1>4
<1> QED BY <1>9, <1>15, <1>16, <1>19, <1>20

\* FreeMerge keeps what _int_malloc knows of a heap it has just mapped.
LEMMA FreeMergeFinish ==
  ASSUME HeapInductive, FreeMerge, Structure', top' = (IF AtTop(p) THEN Start(p) ELSE top)
  PROVE  FinishSound'
<1>1. pc = "free" /\ Releasing
  BY DEF FreeMerge, Releasing
<1>2. /\ Structure /\ LocalsTyped /\ CallSound /\ WhereSound /\ FinishSound
      /\ after \in {"return", "finish", "tail"}
  BY <1>1, ReleasesFacts
<1>3. UNCHANGED <<heapSize, chain, refused, want>>
  BY DEF FreeMerge, heaps, program
<1>4. \/ pc' = after /\ after' = "return"
      \/ pc' = "trim" /\ after' = after
      \/ haveFast /\ pc' = "consolidate" /\ after' = after
  BY DEF FreeMerge
<1>5. pc' # "fail" /\ pc' # "free"
  BY <1>2, <1>4
<1>6. CASE after # "finish"
  <2>1. pc' # "finish" /\ after' # "finish"
    BY <1>2, <1>4, <1>6
  <2> QED BY <2>1, <1>5 DEF FinishSound
<1>7. CASE after = "finish" /\ (refused \/ want > TopPad)
  BY <1>3, <1>7 DEF FinishSound
<1>8. CASE after = "finish" /\ JustMapped
  <2>1. /\ TopFits /\ Len(chain) > 1 /\ head[p].pinuse /\ ~haveFast /\ NextChunk(p) = Fence
        /\ NoRoom(HeapEnd(Previous) - p)
    BY <1>1, <1>8 DEF JustMapped
  <2>2. p \in Ord /\ p \notin Binned
    <3>1. p \in InHand
      BY <1>1 DEF InHand
    <3> QED BY <3>1, <1>2, ChunkFacts DEF Parted
  <2>3. Release(p)
    BY DEF FreeMerge
  <2>4. /\ top' = top /\ head'[top].size = Size(top)
        /\ Previous' = Previous /\ Ending' = HeapEnd(Previous) - p
    BY <1>2, <1>3, <2>1, <2>2, <2>3, FreedAtFence
  <2>5. TopFits'
    BY <2>1, <2>4, <1>3 DEF TopFits, Size
  <2>6. NoRoom(Ending)'
    BY <2>1, <2>4, <1>3 DEF NoRoom
  <2>7. Len(chain') > 1 /\ pc' # "consolidate"
    BY <2>1, <1>2, <1>3, <1>4
  <2>8. JustMapped'
    BY <2>5, <2>6, <2>7, <1>5 DEF JustMapped
  <2> QED BY <2>5, <2>8, <1>5 DEF FinishSound
<1>9. after = "finish" => JustMapped \/ refused \/ want > TopPad
  BY <1>1, <1>2 DEF FinishSound
<1> QED BY <1>6, <1>7, <1>8, <1>9

\* FreeMerge keeps the invariant.
LEMMA FreeMergeKept ==
  ASSUME HeapInductive, FreeMerge, Stores
  PROVE  HeapInductive'
<1>1. pc = "free" /\ Releasing /\ Release(p)
  BY DEF FreeMerge, Releasing
<1>2. /\ Structure /\ LocalsTyped /\ CallSound /\ WhereSound /\ FinishSound
      /\ after \in {"return", "finish", "tail"} /\ pc \notin {"finish", "got", "fail"}
      /\ (result # 0 => result \in Held \cup InHand) /\ haveFast \in BOOLEAN
  BY <1>1, ReleasesFacts DEF LocalsTyped
<1>3. UNCHANGED <<fast, marked, lastRemainder, heapSize, chain, systemMem,
                  block, calls, refused, call, want, idx, p, result>>
  BY DEF FreeMerge, heaps, program
<1>4. \/ pc' = after /\ after' = "return" /\ haveFast' = haveFast /\ resume' = resume
      \/ /\ haveFast' = FALSE /\ resume' = "trim" /\ after' = after
         /\ pc' = IF haveFast THEN "consolidate" ELSE "trim"
  BY DEF FreeMerge
<1>5. pc' # "free" /\ p # result /\ p \notin Held
  BY <1>1, <1>2, <1>4 DEF WhereSound
<1>6. InHand' = InHand \ {p} /\ (result # 0 /\ result \notin Held => result \in InHand \ {p})
  BY <1>1, <1>3, <1>5, FreedHand
<1>7. haveFast' = haveFast \/ pc' = "consolidate" \/ ~haveFast
  BY <1>4
<1>8. /\ Structure' /\ SameSizes(head, head', (Ord \ Binned) \ {p})
      /\ top' = (IF AtTop(p) THEN Start(p) ELSE top)
  BY <1>1, <1>2, <1>3, <1>6, <1>7, FreeMergeStep
<1>9. Held \cup InHand \subseteq Ord \ Binned
  BY <1>2, InUse
<1>10. SameSizes(head, head', Held) /\ (result # 0 => head'[result].size = head[result].size)
  BY <1>2, <1>5, <1>8, <1>9 DEF SameSizes
<1>11. FinishSound'
  BY <1>8, FreeMergeFinish
<1>12. CountSound' /\ ClearSound'
  BY <1>2, <1>3, SameHeapsFrame
<1>13. haveFast' \in BOOLEAN /\ resume' \in {"unsorted", "trim"} /\ (pc' = "consolidate" => ~haveFast')
  BY <1>2, <1>4 DEF LocalsTyped
<1>14. \/ Releasing' /\ pc' # "free" /\ after' = after
       \/ pc' = after /\ after' = "return"
  BY <1>4, <1>5 DEF Releasing
<1> QED BY <1>1, <1>3, <1>8, <1>10, <1>11, <1>12, <1>13, <1>14, ReleaseKept

\* ConsolidateOne keeps the invariant.
LEMMA ConsolidateOneKept ==
  ASSUME HeapInductive, ConsolidateOne, Stores
  PROVE  HeapInductive'
<1>1. pc = "consolidate" /\ pc \notin {"finish", "got", "fail"} /\ pc # "idle"
  BY DEF ConsolidateOne
<1>2. /\ Structure /\ LocalsTyped /\ CallSound /\ WhereSound /\ SearchSound /\ FinishSound
  BY Parts
<1>3. UNCHANGED <<haveFast, marked, lastRemainder, heapSize, chain, systemMem,
                  block, calls, refused, call, pc, want, idx, p, result, after, resume>>
  BY DEF ConsolidateOne, heaps, program, locals
<1>4. /\ Structure' /\ SameSizes(head, head', Held) /\ SameSizes(head, head', InHand)
      /\ \A i \in BinIds \ {Unsorted} : bins[i] = <<>> => bins'[i] = <<>>
  BY <1>2, ConsolidateStep
<1>5. haveFast = FALSE /\ resume \in {"unsorted", "trim"} /\ after \in {"return", "finish", "tail"}
  BY <1>1, <1>2 DEF SearchSound, LocalsTyped
<1>6. CASE resume = "trim"
  <2>1. Releasing /\ Releasing'
    BY <1>1, <1>3, <1>6 DEF Releasing
  <2>2. result # 0 => head'[result].size = head[result].size
    BY <2>1, <1>4, ReleasesFacts DEF SameSizes
  <2>3. FinishSound'
    BY <1>1, <1>2, <1>3, <2>1 DEF FinishSound, JustMapped
  <2>4. CountSound' /\ ClearSound'
    BY <1>1, <1>3, SameHeapsFrame
  <2> QED BY <1>1, <1>3, <1>4, <1>5, <2>1, <2>2, <2>3, <2>4, ReleaseKept
<1>7. CASE resume = "unsorted"
  <2>1. Merging /\ Allocating /\ ~Releasing
    BY <1>1, <1>7 DEF Merging, Allocating, Releasing
  <2>2. Merging' /\ Allocating' /\ ~Releasing'
    BY <1>1, <1>3, <1>7 DEF Merging, Allocating, Releasing
  <2>3. LocalsTyped'
    BY <1>2, <1>3, <2>1 DEF LocalsTyped
  <2>4. SearchSound'
    <3>1. call.op # "free"
      BY <2>1, <1>2 DEF WhereSound
    <3>2. want \in Nat /\ want >= MinSize
      BY <3>1, <1>1, <1>2, WantFacts
    <3>3. BinOf(want) \in BinIds \ {Unsorted}
      BY <3>2, BinRange
    <3>4. Small(want) => bins[BinOf(want)] = <<>>
      BY <2>1, <1>2 DEF SearchSound
    <3>5. Small(want) => bins'[BinOf(want)] = <<>>
      BY <3>3, <3>4, <1>4
    <3> QED BY <3>5, <1>1, <1>3, <1>5 DEF SearchSound
  <2>5. FinishSound'
    BY <1>1, <1>3, <2>2 DEF FinishSound
  <2> QED BY <1>1, <1>3, <1>4, <2>1, <2>2, <2>3, <2>4, <2>5, SearchKept
<1> QED BY <1>5, <1>6, <1>7

\* ConsolidateEnd keeps the invariant.
LEMMA ConsolidateEndKept ==
  ASSUME HeapInductive, ConsolidateEnd, Stores
  PROVE  HeapInductive'
<1>1. /\ pc = "consolidate" /\ pc \notin {"finish", "got", "fail"} /\ pc # "idle"
      /\ \A n \in DOMAIN fast : fast[n] = <<>>
      /\ pc' = resume /\ resume' = "unsorted"
  BY DEF ConsolidateEnd
<1>2. /\ Structure /\ LocalsTyped /\ CallSound /\ WhereSound /\ SearchSound /\ FinishSound
  BY Parts
<1>3. UNCHANGED <<head, fast, haveFast, bins, marked, lastRemainder, top, heapSize, chain, systemMem,
                  block, calls, refused, call, want, idx, p, result, after>>
  BY DEF ConsolidateEnd, heaps, program, lists
<1>4. haveFast = FALSE /\ resume \in {"unsorted", "trim"} /\ after \in {"return", "finish", "tail"}
  BY <1>1, <1>2 DEF SearchSound, LocalsTyped
<1>5. InHand' = InHand
  BY <1>1, <1>3, <1>4 DEF InHand, Held, LiveSlots
<1>6. Structure' /\ SameSizes(head, head', DOMAIN head)
  BY <1>1, <1>2, <1>3, <1>5, QuietStep
<1>7. SameSizes(head, head', Held)
  BY <1>3 DEF SameSizes
<1>8. CASE resume = "trim"
  <2>1. Releasing /\ Releasing'
    BY <1>1, <1>8 DEF Releasing
  <2>2. result # 0 => head'[result].size = head[result].size
    BY <1>3
  <2>3. FinishSound'
    BY <1>1, <1>2, <1>3, <1>8, <2>1 DEF FinishSound, JustMapped
  <2>4. CountSound' /\ ClearSound'
    BY <1>1, <1>3, SameHeapsFrame
  <2>5. pc' # "free" /\ after' = after /\ haveFast' \in BOOLEAN /\ resume' \in {"unsorted", "trim"}
        /\ (pc' = "consolidate" => ~haveFast')
    BY <1>1, <1>3, <1>4, <1>8
  <2> QED BY <1>1, <1>3, <1>6, <1>7, <2>1, <2>2, <2>3, <2>4, <2>5, ReleaseKept
<1>9. CASE resume = "unsorted"
  <2>1. Merging /\ Allocating /\ ~Releasing
    BY <1>1, <1>9 DEF Merging, Allocating, Releasing
  <2>2. Allocating' /\ ~Releasing' /\ pc' = "unsorted"
    BY <1>1, <1>9 DEF Allocating, Releasing, Searching
  <2>3. LocalsTyped'
    BY <1>1, <1>2, <1>3, <2>1, <2>2 DEF LocalsTyped
  <2>4. SearchSound'
    <3>1. Small(want) => bins[BinOf(want)] = <<>>
      BY <2>1, <1>2 DEF SearchSound
    <3> QED BY <3>1, <1>3, <1>4, <2>2 DEF SearchSound
  <2>5. FinishSound'
    BY <1>3, <2>2 DEF FinishSound
  <2> QED BY <1>1, <1>3, <1>6, <1>7, <2>1, <2>2, <2>3, <2>4, <2>5, SearchKept
<1> QED BY <1>4, <1>8, <1>9

\* DropHeap keeps the invariant.
LEMMA DropHeapKept ==
  ASSUME HeapInductive, DropHeap, Stores
  PROVE  HeapInductive'
<1>1. /\ pc = "trim" /\ Releasing /\ pc \notin {"finish", "got", "fail"} /\ WorthDropping /\ HeapEmpty
  BY DEF DropHeap, Releasing, WorthDropping
<1>2. /\ Structure /\ LocalsTyped /\ CallSound /\ WhereSound /\ SearchSound /\ FinishSound
      /\ CountSound /\ ClearSound /\ (result # 0 => result \in Held \cup InHand)
  BY <1>1, ReleasesFacts
<1>3. /\ UNCHANGED <<fast, haveFast, marked, lastRemainder, heapSize,
                     block, calls, refused, call, pc, want, idx, p, result, after, resume>>
      /\ chain' = Front(chain) /\ systemMem' = systemMem - heapSize[HeapOf(top)]
  BY DEF DropHeap, program, locals
<1>4. Structure' /\ SameSizes(head, head', Held) /\ SameSizes(head, head', InHand)
  BY <1>2, DropHeapStep
<1>5. /\ HeapOf(top) = Current /\ Current \in Range(chain) /\ heapSize[Current] \in Nat
      /\ IsFiniteSet(Range(chain)) /\ Range(chain) \subseteq Heaps /\ \A g \in Heaps : heapSize[g] \in Nat
      /\ chain \in Seq(Heaps) /\ IsInjective(chain) /\ TopPad \in Nat
  BY <1>2, TopAtEnd, HeapMaxPaged DEF Structure, Mem, MemorySound, HeapsSound
<1>6. Mem
  BY <1>2, ChunkFacts
<1>7. Len(chain) > 1 /\ IsFence(head, heapSize, chain, Fence, Sentinel)
  BY <1>1, <1>6, EmptyHeap DEF IsFence
<1>8. Range(chain') = Range(chain) \ {Current}
  BY <1>3, <1>5, <1>7, FrontIs DEF Current
<1>9. JustMapped => want > TopPad
  <2> SUFFICES ASSUME JustMapped PROVE want > TopPad
    OBVIOUS
  <2> DEFINE u == HeapMax - heapSize[Previous]
  <2>1. NoRoom(Ending)
    BY <1>1 DEF JustMapped
  <2>2. Ending + u < want + MinSize + Page /\ Ending + u >= TopPad + MinSize + Page
    BY <2>1, <1>1 DEF NoRoom, WorthDropping
  <2>3. Ending \in Int
    <3>1. head[Fence].size \in Nat /\ EndRoom \in Nat /\ head[Fence].prev \in Nat
      BY <1>1, <1>6, FenceHere
    <3> QED BY <3>1 DEF Ending, Size
  <2>4. u \in Int
    <3>1. Previous \in Heaps
      BY <1>5, <1>6, <1>7, FenceFacts DEF Mem, Previous
    <3>2. heapSize[Previous] \in Nat /\ HeapMax \in Nat
      BY <3>1, <1>5, Constants
    <3> QED BY <3>2
  <2>5. want \in Nat /\ MinSize \in Nat /\ Page \in Nat
    BY <1>2, Constants DEF LocalsTyped
  <2> HIDE DEF u
  <2> QED BY ONLY <2>2, <2>3, <2>4, <2>5, <1>5
<1>10. FinishSound'
  <2>1. after = "finish" => refused \/ want > TopPad
    BY <1>1, <1>2, <1>9 DEF FinishSound
  <2> QED BY <2>1, <1>1, <1>3 DEF FinishSound
<1>11. CountSound'
  <2>1. systemMem = SumFunctionOnSet(heapSize, Range(chain))
    BY <1>2 DEF CountSound
  <2>2. /\ SumFunctionOnSet(heapSize, Range(chain)) = heapSize[Current] + SumFunctionOnSet(heapSize, Range(chain) \ {Current})
        /\ SumFunctionOnSet(heapSize, Range(chain) \ {Current}) \in Int
    <3> DEFINE f == heapSize
               S == Range(chain)
    <3>1. IsFiniteSet(S) /\ (\A x \in S : f[x] \in Int) /\ Current \in S
      BY <1>5
    <3> HIDE DEF f, S
    <3>2. /\ SumFunctionOnSet(f, S) = f[Current] + SumFunctionOnSet(f, S \ {Current})
          /\ SumFunctionOnSet(f, S \ {Current}) \in Int
      BY ONLY <3>1, SumOnRest
    <3> QED BY <3>2 DEF f, S
  <2>3. SumFunctionOnSet(heapSize, Range(chain) \ {Current}) \in Nat
    <3> DEFINE f == heapSize
               S == Range(chain) \ {Current}
    <3>1. IsFiniteSet(S)
      BY <1>5, FS_RemoveElement
    <3>2. \A x \in S : f[x] \in Nat
      BY <1>5
    <3> HIDE DEF f, S
    <3>3. SumFunctionOnSet(f, S) \in Nat
      BY ONLY <3>1, <3>2, SumOnNat
    <3> QED BY <3>3 DEF f, S
  <2>4. systemMem' = SumFunctionOnSet(heapSize, Range(chain) \ {Current})
    <3>1. systemMem' = systemMem - heapSize[Current]
      BY <1>3, <1>5
    <3> QED BY ONLY <3>1, <2>1, <2>2, <1>5
  <2> QED BY <2>3, <2>4, <1>3, <1>8 DEF CountSound
<1>12. ClearSound'
  <2>1. call.op = "calloc" => HeapOf(call.oldTop) \in Heaps /\ heapSize[HeapOf(call.oldTop)] > 0
    BY <1>2 DEF ClearSound
  <2>2. call.op = "calloc" => /\ heapSize'[HeapOf(call.oldTop)] \in Nat
                              /\ heapSize'[HeapOf(call.oldTop)] > 0
                              /\ heapSize'[HeapOf(call.oldTop)] <= heapSize[HeapOf(call.oldTop)]
    BY <2>1, <1>3, <1>5
  <2> QED BY <1>1, <1>2, <1>3, <2>2, ClearFrame
<1>13. Releasing' /\ pc' # "free" /\ after' = after /\ pc' # "consolidate"
  BY <1>1, <1>3 DEF Releasing
<1>14. result # 0 => head'[result].size = head[result].size
  BY <1>2, <1>4 DEF SameSizes
<1>15. haveFast' \in BOOLEAN /\ resume' \in {"unsorted", "trim"}
  BY <1>2, <1>3 DEF LocalsTyped
<1> QED BY <1>1, <1>3, <1>4, <1>10, <1>11, <1>12, <1>13, <1>14, <1>15, ReleaseKept

\* NoShrink keeps the invariant.
LEMMA NoShrinkKept ==
  ASSUME HeapInductive, NoShrink, Stores
  PROVE  HeapInductive'
<1>1. /\ pc = "trim" /\ Releasing /\ pc \notin {"finish", "got", "fail"}
      /\ pc' = after /\ after' = "return"
  BY DEF NoShrink, Releasing
<1>2. /\ Structure /\ LocalsTyped /\ CallSound /\ WhereSound /\ FinishSound
      /\ after \in {"return", "finish", "tail"}
  BY <1>1, ReleasesFacts
<1>3. UNCHANGED <<head, fast, haveFast, bins, marked, lastRemainder, top, heapSize, chain, systemMem,
                  block, calls, refused, call, want, idx, p, result, resume>>
  BY DEF NoShrink, heaps, program, lists
<1>4. pc' # "free" /\ pc' # "consolidate" /\ pc' # "fail" /\ pc # "free"
  BY <1>1, <1>2
<1>5. InHand' = InHand
  BY <1>3, <1>4 DEF InHand, Held, LiveSlots
<1>6. \A n \in DOMAIN fast : fast[n] # <<>> => haveFast' \/ pc' = "consolidate"
  BY <1>1, <1>2, <1>3, FlagHolds
<1>7. Structure'
  BY <1>2, <1>3, <1>5, <1>6, QuietStep
<1>8. SameSizes(head, head', Held) /\ (result # 0 => head'[result].size = head[result].size)
  BY <1>3 DEF SameSizes
<1>9. FinishSound'
  <2>1. pc' = "finish" => TopFits \/ refused \/ want > TopPad
    BY <1>1, <1>2 DEF FinishSound, JustMapped
  <2>2. TopFits' = TopFits
    BY <1>3 DEF TopFits, Size
  <2> QED BY <1>1, <1>3, <1>4, <2>1, <2>2 DEF FinishSound
<1>10. CountSound' /\ ClearSound'
  BY <1>1, <1>3, SameHeapsFrame
<1>11. haveFast' \in BOOLEAN /\ resume' \in {"unsorted", "trim"}
  BY <1>2, <1>3 DEF LocalsTyped
<1> QED BY <1>1, <1>3, <1>4, <1>7, <1>8, <1>9, <1>10, <1>11, ReleaseKept

\* What heap_trim gives back: whole pages, and not the padding.
LEMMA ExtraIs ==
  ASSUME Size(top) \in Nat, Extra >= Page
  PROVE  Extra \in Nat /\ InPages(Extra) /\ Extra + TopPad + MinSize + 1 <= Size(top)
<1>1. /\ Page \in Nat /\ Page > 0 /\ MinSize \in Nat /\ TopPad \in Nat
  BY Constants, HeapMaxPaged
<1> DEFINE v == Size(top) - TopPad - MinSize + Page - 1
           q == v \div Page
           e == q * Page
<1>2. v \in Int /\ v + TopPad + MinSize + 1 = Size(top) + Page
  BY <1>1
<1>3. q \in Int /\ e <= v /\ e \in Int
  <2> HIDE DEF v
  <2>1. q \in Int /\ q * Page <= v
    BY <1>1, <1>2
  <2> QED BY <2>1, <1>1
<1>4. Extra = (q - 1) * Page
  BY DEF Extra
<1> HIDE DEF q
<1>5. (q - 1) * Page = e - Page
  BY <1>1, <1>3
<1>6. q - 1 >= 1
  <2>1. (q - 1) * Page >= Page
    BY <1>4
  <2> QED BY ONLY <2>1, <1>1, <1>3
<1> HIDE DEF e, v
<1>7. Extra \in Nat /\ Extra + TopPad + MinSize + 1 <= Size(top)
  <2>1. Extra = e - Page
    BY <1>4, <1>5
  <2> QED BY ONLY <2>1, <1>1, <1>2, <1>3, Size(top) \in Nat, Extra >= Page
<1>8. InPages(Extra)
  <2>1. q - 1 \in Nat
    BY <1>3, <1>6
  <2> QED BY ONLY <2>1, <1>1, <1>4, <1>7, MultipleIs DEF InPages
<1> QED BY <1>7, <1>8

\* Shrink keeps the invariant.
LEMMA ShrinkKept ==
  ASSUME HeapInductive, Shrink, Stores
  PROVE  HeapInductive'
<1> DEFINE n == Size(top) - Extra
           m == heapSize[Current] - Extra
<1>1. /\ pc = "trim" /\ Releasing /\ pc \notin {"finish", "got", "fail"}
      /\ pc' = after /\ after' = "return"
  BY DEF Shrink, Releasing
<1>2. /\ Structure /\ LocalsTyped /\ CallSound /\ WhereSound /\ FinishSound /\ CountSound /\ ClearSound
      /\ after \in {"return", "finish", "tail"} /\ (result # 0 => result \in Held \cup InHand)
  BY <1>1, ReleasesFacts
<1>3. /\ HeapOf(top) = Current /\ Current \in Range(chain) /\ Current \in Heaps
      /\ heapSize[Current] \in Nat /\ heapSize[Current] > 0 /\ heapSize[Current] <= HeapMax
      /\ InPages(heapSize[Current]) /\ Base(Current) \in Nat
      /\ top \in Nat /\ Size(top) \in Nat /\ top + Size(top) = HeapEnd(Current)
      /\ IsFiniteSet(Range(chain)) /\ (\A g \in Range(chain) : heapSize[g] \in Int)
      /\ Range(chain) \subseteq Heaps /\ \A g \in Heaps : heapSize[g] \in Nat
  BY <1>2, TopAtEnd
<1>4. /\ UNCHANGED <<fast, haveFast, bins, marked, lastRemainder, top, chain,
                     block, calls, refused, call, want, idx, p, result, resume>>
      /\ heapSize' = [heapSize EXCEPT ![HeapOf(top)] = @ - Extra]
      /\ systemMem' = systemMem - Extra
      /\ head' = SetHead(head, top, Size(top) - Extra, TRUE, FALSE)
      /\ Extra >= Page /\ heapSize[HeapOf(top)] - Extra >= HeapInfo
  BY DEF Shrink, lists, program
<1>5. Extra \in Nat /\ InPages(Extra) /\ Extra + TopPad + MinSize + 1 <= Size(top)
  BY <1>3, <1>4, ExtraIs
<1>6. heapSize' = [heapSize EXCEPT ![HeapOf(top)] = m] /\ head' = SetHead(head, top, n, TRUE, FALSE)
  BY <1>3, <1>4
<1>7. /\ n \in Nat /\ n >= MinSize /\ n >= TopPad + MinSize + 1 /\ m \in 1..HeapMax /\ m \in Nat
      /\ m <= heapSize[Current] /\ heapSize[Current] >= Extra
      /\ top + n = Base(HeapOf(top)) + m
  <2>1. heapSize[Current] - Extra >= HeapInfo
    BY <1>3, <1>4
  <2>2. top + Size(top) = Base(Current) + heapSize[Current]
    BY <1>3 DEF HeapEnd
  <2>3. HeapInfo \in Nat /\ HeapInfo > 0 /\ MinSize \in Nat /\ HeapMax \in Nat /\ TopPad \in Nat
    BY Constants, HeapMaxPaged
  <2>4. /\ n \in Nat /\ n >= MinSize /\ n >= TopPad + MinSize + 1 /\ m \in 1..HeapMax /\ m \in Nat
        /\ m <= heapSize[Current] /\ heapSize[Current] >= Extra
        /\ top + n = Base(Current) + m
    BY ONLY <2>1, <2>2, <2>3, <1>3, <1>5
  <2> QED BY <2>4, <1>3
<1>8. InPages(m)
  BY <1>3, <1>5, <1>7, PagedSum
<1>9. pc' # "free" /\ pc' # "consolidate" /\ pc' # "fail" /\ pc # "free" /\ pc # "consolidate"
  BY <1>1, <1>2
<1>10. InHand' = InHand
  BY <1>4, <1>9 DEF InHand, Held, LiveSlots
<1> HIDE DEF n, m
<1>11. Structure' /\ head'[top].size = n /\ SameSizes(head, head', DOMAIN head \ {top})
  BY <1>2, <1>4, <1>6, <1>7, <1>8, <1>9, <1>10, ResizeStep
<1>12. Held \cup InHand \subseteq DOMAIN head \ {top}
  BY <1>2, ChunkFacts DEF Parted
<1>13. SameSizes(head, head', Held) /\ (result # 0 => head'[result].size = head[result].size)
  BY <1>2, <1>11, <1>12 DEF SameSizes
<1>14. FinishSound'
  <2>1. want > TopPad \/ TopFits'
    <3>1. TopFits' <=> n >= want + MinSize
      BY <1>4, <1>11 DEF TopFits, Size
    <3>2. want \in Nat /\ TopPad \in Nat /\ MinSize \in Nat
      BY <1>2, Constants, HeapMaxPaged DEF LocalsTyped
    <3> QED BY ONLY <3>1, <3>2, <1>7
  <2> QED BY <1>1, <1>4, <1>9, <2>1 DEF FinishSound
<1>15. heapSize \in [Heaps -> 0..HeapMax]
  BY <1>2 DEF Structure, Mem, MemorySound, HeapsSound
<1>16. heapSize'[Current] = m /\ \A x \in Heaps \ {Current} : heapSize'[x] = heapSize[x]
  BY <1>3, <1>6, <1>15
<1>17. CountSound'
  <2>1. m \in Int /\ heapSize'[Current] \in Int /\ \A x \in Range(chain) \ {Current} : heapSize'[x] = heapSize[x]
    BY <1>3, <1>7, <1>16
  <2>2. SumFunctionOnSet(heapSize', Range(chain)) = SumFunctionOnSet(heapSize, Range(chain)) + (heapSize'[Current] - heapSize[Current])
    BY <2>1, <1>3, SumOnChanged
  <2>3. systemMem \in Nat /\ systemMem = SumFunctionOnSet(heapSize, Range(chain))
    BY <1>2 DEF CountSound
  <2>4. systemMem' = SumFunctionOnSet(heapSize', Range(chain))
    <3>1. m = heapSize[Current] - Extra
      BY DEF m
    <3> QED BY ONLY <3>1, <2>2, <2>3, <1>3, <1>4, <1>5, <1>7, <1>16
  <2>5. SumFunctionOnSet(heapSize', Range(chain)) \in Nat
    <3> DEFINE f == heapSize'
               S == Range(chain)
    <3>1. IsFiniteSet(S) /\ \A x \in S : f[x] \in Nat
      BY <1>3, <1>7, <1>16
    <3> HIDE DEF f, S
    <3>2. SumFunctionOnSet(f, S) \in Nat
      BY ONLY <3>1, SumOnNat
    <3> QED BY <3>2 DEF f, S
  <2> QED BY <2>4, <2>5, <1>4 DEF CountSound
<1>18. ClearSound'
  <2>1. call.op = "calloc" => HeapOf(call.oldTop) \in Heaps /\ heapSize[HeapOf(call.oldTop)] > 0
    BY <1>2 DEF ClearSound
  <2>2. m > 0
    BY <1>7, Constants
  <2>3. call.op = "calloc" => /\ heapSize'[HeapOf(call.oldTop)] \in Nat
                              /\ heapSize'[HeapOf(call.oldTop)] > 0
                              /\ heapSize'[HeapOf(call.oldTop)] <= heapSize[HeapOf(call.oldTop)]
    <3>1. CASE HeapOf(call.oldTop) = Current
      BY ONLY <3>1, <2>2, <1>7, <1>16
    <3>2. CASE HeapOf(call.oldTop) # Current
      BY <3>2, <2>1, <1>3, <1>16
    <3> QED BY <3>1, <3>2
  <2> QED BY <1>1, <1>2, <1>4, <2>3, ClearFrame
<1>19. haveFast' \in BOOLEAN /\ resume' \in {"unsorted", "trim"}
  BY <1>2, <1>4 DEF LocalsTyped
<1> QED BY <1>1, <1>4, <1>9, <1>11, <1>13, <1>14, <1>17, <1>18, <1>19, ReleaseKept

\* _int_free, malloc_consolidate and heap_trim keep the invariant.
LEMMA ReleasesKept ==
  ASSUME HeapInductive, Releases, Stores
  PROVE  HeapInductive'
BY FreeFastKept, FreeMergeKept, ConsolidateOneKept, ConsolidateEndKept, DropHeapKept, ShrinkKept,
   NoShrinkKept DEF Releases

\* _int_malloc and sYSMALLOc keep the invariant.
LEMMA AllocatesKept ==
  ASSUME HeapInductive, Allocates, Stores
  PROVE  HeapInductive'
BY TakeFastKept, TakeSmallKept, NoQuickHitKept, SplitRemainderKept, TakeExactKept, PlaceInBinKept,
   AllPlacedKept, FitOwnBinKept, ScanTakeKept, ScanMissKept, ScanOverKept, SplitTopKept, NoMemoryKept,
   ConsolidateAndRetryKept, AskSystemKept, GrowHeapKept, NewHeapKept, SystemRefusesKept DEF Allocates

-----------------------------------------------------------------------------
(* _int_realloc.                                                           *)

\* The call has its block, and perhaps a rest of it to free.
LEMMA OldResized ==
  ASSUME HeapInductive, Stores, Structure', call.op = "realloc", pc \in {"realloc", "got"},
         UNCHANGED <<block, calls, refused, call, want, idx, resume, heapSize, chain, systemMem>>,
         haveFast' \in BOOLEAN, lastRemainder' \in Nat,
         SameSizes(head, head', Held \ {Old}), head'[Old].size \in Nat, head'[Old].size >= want,
         result' = Old, after' = "return", p' \in Nat,
         pc' = "return" \/ (pc' = "free" /\ p' \notin Held /\ p' # 0)
  PROVE  HeapInductive'
<1>1. /\ Structure /\ LocalsTyped /\ CallSound /\ WhereSound /\ DataSound
  BY Parts
<1>2. pc # "idle" /\ pc' # "idle" /\ pc' # "finish" /\ pc' # "fail" /\ pc' # "consolidate"
  OBVIOUS
<1>3. call.n \in Nat /\ want \in Nat /\ want = call.n
  BY <1>1, <1>2, WantFacts
<1>4. call.slot \in LiveSlots /\ Old \in Held /\ Old \in Nat /\ Old # 0
  BY <1>1, <1>2, OldFacts
<1>5. Held' = Held /\ LiveSlots' = LiveSlots /\ Old' = Old
  BY SameHeld DEF Old
<1>6. LocalsTyped'
  BY <1>1, <1>4 DEF LocalsTyped
<1>7. Returning' /\ ~Allocating' /\ ~Tailing'
  BY DEF Returning, Allocating, Tailing, Releasing, Merging, Searching
<1>8. WhereSound'
  <2>1. Size(result)' = head'[Old].size
    BY DEF Size
  <2>2. pc' = "free" => p' # result'
    BY <1>4
  <2> QED BY <2>1, <2>2, <1>2, <1>3, <1>5, <1>7 DEF WhereSound
<1>9. SearchSound' /\ FinishSound'
  BY <1>2 DEF SearchSound, FinishSound, Merging
<1>10. CountSound' /\ ClearSound'
  BY SameHeapsFrame DEF ClearSound
<1>11. ASSUME NEW s \in LiveSlots PROVE head'[block[s].at].size >= Kept(s)
  <2>1. block[s].at \in Held /\ Kept(s) \in Nat /\ Size(block[s].at) \in Nat /\ block[s].n \in Nat
    BY <1>1, BlockFacts
  <2>2. Size(block[s].at) >= Kept(s)
    BY <1>1 DEF DataSound
  <2>3. CASE s = call.slot
    <3>1. Kept(s) <= call.n
      BY <2>1, <2>3, <1>3 DEF Kept
    <3>2. block[s].at = Old
      BY <2>3 DEF Old
    <3> QED BY <3>1, <3>2, <2>1, <1>3
  <2>4. CASE s # call.slot
    <3>1. block[s].at # Old
      BY <2>4, <1>1, <1>4 DEF Structure, PlacesSound, Old
    <3> QED BY <3>1, <2>1, <2>2 DEF SameSizes, Size
  <2> QED BY <2>3, <2>4
<1> QED BY <1>1, <1>2, <1>6, <1>8, <1>9, <1>10, <1>11, EngineFrame

\* When a resize begins.
LEMMA Resizing ==
  ASSUME HeapInductive, pc = "realloc"
  PROVE  /\ Structure /\ LocalsTyped /\ CallSound /\ WhereSound /\ Mem
         /\ call.op = "realloc" /\ result = 0 /\ InHand = {} /\ after = "return"
         /\ Old \in Held /\ Old \in Ord /\ Old \notin Binned /\ Old \in Nat /\ Old # 0 /\ Size(Old) \in Nat
         /\ want \in Nat /\ want >= MinSize /\ Held \subseteq Ord \ Binned
         /\ haveFast \in BOOLEAN /\ lastRemainder \in Nat /\ p \in Nat
<1>1. /\ Structure /\ LocalsTyped /\ CallSound /\ WhereSound
  BY Parts
<1>2. call.op = "realloc" /\ result = 0 /\ pc # "idle"
  BY <1>1 DEF WhereSound
<1>3. /\ Old \in Held /\ Old \in Ord /\ Old \notin Binned /\ Old \in Nat /\ Old # 0 /\ Size(Old) \in Nat
  BY <1>1, <1>2, OldFacts
<1>4. want \in Nat /\ want >= MinSize
  BY <1>1, <1>2, WantFacts
<1>5. InHand = {}
  BY <1>2 DEF InHand
<1>6. after = "return" /\ haveFast \in BOOLEAN /\ lastRemainder \in Nat /\ p \in Nat
  BY <1>1 DEF LocalsTyped, Releasing
<1>7. Held \subseteq Ord \ Binned /\ Mem
  BY <1>1, InUse, ChunkFacts
<1> QED BY <1>1, <1>2, <1>3, <1>4, <1>5, <1>6, <1>7

\* A block that is large enough.
LEMMA ReallocInPlaceKept ==
  ASSUME HeapInductive, ReallocInPlace, Stores
  PROVE  HeapInductive'
<1>1. pc = "realloc" /\ Size(Old) >= want
  BY DEF ReallocInPlace
<1>2. /\ Structure /\ LocalsTyped /\ CallSound /\ WhereSound /\ Mem
      /\ call.op = "realloc" /\ result = 0 /\ InHand = {} /\ after = "return"
      /\ Old \in Held /\ Old \in Ord /\ Old \notin Binned /\ Old \in Nat /\ Old # 0 /\ Size(Old) \in Nat
      /\ want \in Nat /\ want >= MinSize /\ Held \subseteq Ord \ Binned
      /\ haveFast \in BOOLEAN /\ lastRemainder \in Nat /\ p \in Nat
  BY <1>1, Resizing
<1>3. UNCHANGED <<fast, haveFast, bins, marked, lastRemainder, top, heapSize, chain, systemMem,
                  block, calls, refused, call, want, idx, resume>>
  BY DEF ReallocInPlace, lists, heaps, program
<1>4. Held' = Held
  BY <1>3, SameHeld
<1>5. \A n \in DOMAIN fast : fast[n] # <<>> => haveFast' \/ pc' = "consolidate"
  BY <1>1, <1>2, <1>3, FlagHolds
<1>6. CASE Size(Old) - want >= MinSize
  <2>1. /\ head' = SplitHead(head, Old, want, Size(Old))
        /\ result' = Old /\ p' = Old + want /\ pc' = "free" /\ after' = "return"
    BY <1>6 DEF ReallocInPlace, KeepOrSplit, SplitOld, SplitHead
  <2>2. IsCutOff(head', Old, want)
    BY <1>2, <1>6, <2>1, SplitOffSound
  <2>3. InHand' = {Old + want}
    BY <1>2, <1>4, <2>1, NextInHand
  <2>4. /\ Structure' /\ SameSizes(head, head', Ord \ {Old})
        /\ head'[Old].size = want /\ Old + want \notin Ord /\ Old + want \in Nat /\ Old + want # 0
    <3>1. pc # "consolidate" /\ Old \in Held \cup InHand /\ want \in Nat /\ Structure
      BY <1>1, <1>2
    <3>2. InHand' = InHand \cup {Old + want}
      BY <1>2, <2>3
    <3>3. UNCHANGED <<top, heapSize, chain, bins, marked, fast, haveFast, block>>
      BY <1>3
    <3> QED BY ONLY <3>1, <3>2, <3>3, <2>2, CutStep
  <2>5. SameSizes(head, head', Held \ {Old}) /\ Old + want \notin Held
    BY <1>2, <2>4 DEF SameSizes
  <2>6. /\ UNCHANGED <<block, calls, refused, call, want, idx, resume, heapSize, chain, systemMem>>
        /\ haveFast' \in BOOLEAN /\ lastRemainder' \in Nat /\ call.op = "realloc"
    BY <1>2, <1>3
  <2>7. /\ head'[Old].size \in Nat /\ head'[Old].size >= want
        /\ p' \in Nat /\ p' \notin Held /\ p' # 0
    BY <1>2, <2>1, <2>4, <2>5
  <2> QED BY ONLY HeapInductive, Stores, <1>1, <2>1, <2>4, <2>5, <2>6, <2>7, OldResized
<1>7. CASE ~(Size(Old) - want >= MinSize)
  <2>1. /\ head' = SetInuse(SetHeadSize(head, Old, Size(Old)), Old + Size(Old))
        /\ result' = Old /\ pc' = "return" /\ UNCHANGED <<p, after>>
    BY <1>7 DEF ReallocInPlace, KeepOrSplit
  <2>2. head' = head
    BY <1>2, <2>1, KeptSame
  <2>3. InHand' = InHand
    BY <1>2, <1>4, <2>1, NextInHand
  <2>4. Structure'
    BY <1>2, <1>3, <1>5, <2>2, <2>3, QuietStep
  <2>5. SameSizes(head, head', Held \ {Old}) /\ head'[Old].size = Size(Old)
    BY <2>2 DEF SameSizes, Size
  <2> QED BY <1>1, <1>2, <1>3, <2>1, <2>4, <2>5, OldResized
<1> QED BY <1>6, <1>7

\* The block grows into the top chunk.
LEMMA ReallocIntoTopKept ==
  ASSUME HeapInductive, ReallocIntoTop, Stores
  PROVE  HeapInductive'
<1>1. pc = "realloc" /\ Size(Old) < want /\ NextChunk(Old) = top /\ Size(Old) + Size(top) >= want + MinSize
  BY DEF ReallocIntoTop, IntoTop
<1>2. /\ Structure /\ LocalsTyped /\ CallSound /\ WhereSound /\ Mem
      /\ call.op = "realloc" /\ result = 0 /\ InHand = {} /\ after = "return"
      /\ Old \in Held /\ Old \in Ord /\ Old \notin Binned /\ Old \in Nat /\ Old # 0 /\ Size(Old) \in Nat
      /\ want \in Nat /\ want >= MinSize /\ Held \subseteq Ord \ Binned
      /\ haveFast \in BOOLEAN /\ lastRemainder \in Nat /\ p \in Nat
  BY <1>1, Resizing
<1>3. /\ UNCHANGED <<fast, haveFast, bins, marked, lastRemainder, heapSize, chain, systemMem,
                     block, calls, refused, call, want, idx, resume, p, after>>
      /\ head' = IntoTopHead(Old, want) /\ top' = Old + want /\ result' = Old /\ pc' = "return"
  BY DEF ReallocIntoTop, lists, heaps, program, IntoTopHead
<1>4. Held' = Held
  BY <1>3, SameHeld
<1>5. InHand' = InHand
  BY <1>2, <1>3, <1>4, NextInHand
<1>6. want > Size(Old) /\ Size(Old) + Size(top) - want >= MinSize
  <2>1. Size(top) \in Nat
    BY <1>2, ChunkFacts
  <2> QED BY <2>1, <1>1, <1>2, Constants
<1>7. Structure' /\ SameSizes(head, head', Ord \ {Old}) /\ head'[Old].size = want
  BY <1>1, <1>2, <1>3, <1>5, <1>6, IntoTopStep
<1>8. SameSizes(head, head', Held \ {Old})
  BY <1>2, <1>7 DEF SameSizes
<1> QED BY <1>1, <1>2, <1>3, <1>7, <1>8, OldResized

\* The block grows into the free chunk behind it.
LEMMA ReallocIntoNextKept ==
  ASSUME HeapInductive, ReallocIntoNext, Stores
  PROVE  HeapInductive'
<1> DEFINE nx == NextChunk(Old)
           total == Size(Old) + Size(nx)
<1>1. pc = "realloc" /\ Size(Old) < want /\ nx # top /\ ~Inuse(nx) /\ total >= want
  BY DEF ReallocIntoNext, IntoNext, NextFree
<1>2. /\ Structure /\ LocalsTyped /\ CallSound /\ WhereSound /\ Mem
      /\ call.op = "realloc" /\ result = 0 /\ InHand = {} /\ after = "return"
      /\ Old \in Held /\ Old \in Ord /\ Old \notin Binned /\ Old \in Nat /\ Old # 0 /\ Size(Old) \in Nat
      /\ want \in Nat /\ want >= MinSize /\ Held \subseteq Ord \ Binned
      /\ haveFast \in BOOLEAN /\ lastRemainder \in Nat /\ p \in Nat
  BY <1>1, Resizing
<1>3. /\ UNCHANGED <<fast, haveFast, top, marked, lastRemainder, heapSize, chain, systemMem,
                     block, calls, refused, call, want, idx, resume>>
      /\ bins' = Unlink(nx) /\ KeepOrSplit(Forget(head, {nx}), total)
  BY DEF ReallocIntoNext, heaps, program
<1>4. nx \in Binned
  <2>1. ~AtTop(Old) /\ Joins(Old)
    BY <1>1 DEF AtTop, Joins
  <2> QED BY <2>1, <1>2, Around
<1>5. Held' = Held /\ pc # "consolidate"
  BY <1>1, <1>3, SameHeld
<1>6. Size(nx) \in Nat /\ total \in Nat
  <2>1. Size(nx) \in Nat
    BY <1>2, <1>4, ChunkFacts DEF Parted
  <2> QED BY <2>1, <1>2
<1>7. CASE total - want >= MinSize
  <2>1. /\ head' = SplitHead(Forget(head, {nx}), Old, want, total)
        /\ result' = Old /\ p' = Old + want /\ pc' = "free" /\ after' = "return"
    BY <1>3, <1>7 DEF KeepOrSplit, SplitOld, SplitHead
  <2>2. InHand' = InHand \cup {Old + want}
    BY <1>2, <1>5, <2>1, NextInHand
  <2>3. want >= Size(Old)
    BY <1>1, <1>2
  <2>4. /\ Structure' /\ SameSizes(head, head', (Ord \ Binned) \ {Old}) /\ head'[Old].size = want
        /\ Old + want \notin Held /\ Old + want # 0
    <3>1. Structure /\ pc # "consolidate" /\ Old \in Held /\ NextChunk(Old) \in Binned /\ InHand = {}
      BY <1>2, <1>4, <1>5
    <3>2. /\ want \in Nat /\ want >= MinSize /\ want >= Size(Old)
          /\ Size(Old) + Size(NextChunk(Old)) - want >= MinSize
      <4> DEFINE x == Size(NextChunk(Old))
                 y == Size(Old)
      <4>1. x \in Nat /\ y \in Nat /\ (y + x) - want >= MinSize
        BY <1>2, <1>6, <1>7
      <4> HIDE DEF x, y
      <4>2. y + x - want >= MinSize
        BY ONLY <4>1, <1>2, Constants
      <4> QED BY <4>2, <1>2, <2>3 DEF x, y
    <3>3. /\ head' = SplitHead(Forget(head, {NextChunk(Old)}), Old, want, Size(Old) + Size(NextChunk(Old)))
          /\ bins' = Unlink(NextChunk(Old)) /\ InHand' = InHand \cup {Old + want}
      BY <1>3, <2>1, <2>2
    <3>4. UNCHANGED <<top, heapSize, chain, marked, fast, haveFast, block>>
      BY <1>3
    <3> QED BY ONLY <3>1, <3>2, <3>3, <3>4, IntoNextSplitStep
  <2>5. SameSizes(head, head', Held \ {Old})
    BY <1>2, <2>4 DEF SameSizes
  <2>6. Old + want \in Nat
    BY <1>2
  <2> QED BY <1>1, <1>2, <1>3, <2>1, <2>4, <2>5, <2>6, OldResized
<1>8. CASE ~(total - want >= MinSize)
  <2>1. /\ head' = IntoNextWhole(Old, nx, total)
        /\ result' = Old /\ pc' = "return" /\ UNCHANGED <<p, after>>
    BY <1>3, <1>8 DEF KeepOrSplit, IntoNextWhole
  <2>2. InHand' = InHand
    BY <1>2, <1>5, <2>1, NextInHand
  <2>3. Structure' /\ SameSizes(head, head', (Ord \ Binned) \ {Old}) /\ head'[Old].size = total
    BY <1>2, <1>3, <1>4, <1>5, <2>1, <2>2, IntoNextStep
  <2>4. SameSizes(head, head', Held \ {Old})
    BY <1>2, <2>3 DEF SameSizes
  <2> QED BY <1>1, <1>2, <1>3, <1>6, <2>1, <2>3, <2>4, OldResized
<1> QED BY <1>7, <1>8

\* The block must move: memory is asked for.
LEMMA ReallocMoveKept ==
  ASSUME HeapInductive, ReallocMove, Stores
  PROVE  HeapInductive'
<1>1. pc = "realloc" /\ Size(Old) < want /\ pc' = "malloc"
  BY DEF ReallocMove, Moves, Goto
<1>2. /\ Structure /\ LocalsTyped /\ CallSound /\ DataSound
      /\ call.op = "realloc" /\ result = 0 /\ InHand = {} /\ after = "return"
  BY <1>1, Resizing, Parts
<1>3. UNCHANGED <<head, fast, haveFast, bins, marked, lastRemainder, top, heapSize, chain, systemMem,
                  block, calls, refused, call, want, idx, p, result, after, resume>>
  BY DEF ReallocMove, Goto, lists, heaps, program
<1>4. Held' = Held
  BY <1>3, SameHeld
<1>5. \A n \in DOMAIN fast : fast[n] # <<>> => haveFast' \/ pc' = "consolidate"
  BY <1>1, <1>2, <1>3, FlagHolds
<1>6. InHand' = InHand
  BY <1>1, <1>2, <1>3, <1>4, NextInHand
<1>7. Structure'
  BY <1>2, <1>3, <1>5, <1>6, QuietStep
<1>8. LocalsTyped'
  BY <1>1, <1>2, <1>3 DEF LocalsTyped
<1>9. Size(Old)' = Size(Old)
  BY <1>3 DEF Size, Old
<1>10. ~Returning' /\ ~Tailing'
  BY <1>1 DEF Returning, Tailing, Releasing
<1>11. WhereSound'
  BY <1>1, <1>2, <1>3, <1>9, <1>10 DEF WhereSound
<1>12. SearchSound' /\ FinishSound'
  BY <1>1 DEF SearchSound, FinishSound, Merging, Releasing
<1>13. CountSound' /\ ClearSound'
  BY <1>1, <1>3, SameHeapsFrame
<1>14. \A s \in LiveSlots : head'[block[s].at].size >= Kept(s)
  BY <1>2, <1>3 DEF DataSound, Size
<1> QED BY <1>1, <1>3, <1>7, <1>8, <1>11, <1>12, <1>13, <1>14, EngineFrame

\* The chunk found is the one behind the block.
LEMMA ReallocJoinKept ==
  ASSUME HeapInductive, ReallocJoin, Stores
  PROVE  HeapInductive'
<1>1. pc = "got" /\ call.op = "realloc" /\ result = NextChunk(Old)
  BY DEF ReallocJoin
<1>2. /\ Structure /\ LocalsTyped /\ CallSound /\ WhereSound
  BY Parts
<1>3. /\ result \notin Held /\ result # 0 /\ Size(result) - want \in 0..(MinSize - 1) /\ Size(Old) < want
  BY <1>1, <1>2 DEF WhereSound
<1>4. Old \in Held /\ Old \in Ord /\ Old \in Nat /\ Size(Old) \in Nat
  BY <1>1, <1>2, OldFacts
<1>5. want \in Nat /\ want >= MinSize
  BY <1>1, <1>2, WantFacts
<1>6. InHand = {NextChunk(Old)}
  BY <1>1, <1>3, InHandIs
<1>7. /\ UNCHANGED <<fast, haveFast, bins, marked, lastRemainder, top, heapSize, chain, systemMem,
                     block, calls, refused, call, want, idx, resume>>
      /\ head' = SplitHead(Forget(head, {NextChunk(Old)}), Old, want, Size(Old) + Size(NextChunk(Old)))
      /\ result' = Old /\ p' = Old + want /\ pc' = "free" /\ after' = "return"
  BY <1>1 DEF ReallocJoin, SplitOld, SplitHead, lists, heaps, program
<1>8. Held' = Held
  BY <1>7, SameHeld
<1>9. InHand' = {Old + want}
  BY <1>4, <1>7, <1>8, NextInHand
<1>10. want > Size(Old) /\ Size(NextChunk(Old)) >= want
  <2>1. result \in InHand
    BY <1>1, <1>6
  <2>2. Size(result) \in Nat
    BY <2>1, <1>2, InUse, ChunkFacts
  <2>3. Size(result) >= want
    BY ONLY <2>2, <1>3, <1>5, Constants
  <2> QED BY <2>3, <1>1, <1>3, <1>4, <1>5
<1>11. /\ Structure' /\ SameSizes(head, head', Held \ {Old}) /\ head'[Old].size = want
       /\ Old + want \notin Held /\ Old + want # 0
  BY <1>1, <1>2, <1>4, <1>5, <1>6, <1>7, <1>9, <1>10, JoinStep
<1>12. haveFast' \in BOOLEAN /\ lastRemainder' \in Nat /\ Old + want \in Nat
  BY <1>2, <1>4, <1>5, <1>7 DEF LocalsTyped
<1> QED BY <1>1, <1>5, <1>7, <1>11, <1>12, OldResized

-----------------------------------------------------------------------------
(* _int_memalign.                                                          *)

\* The call has its aligned chunk, and perhaps a rest of it to free.
LEMMA SpotResized ==
  ASSUME HeapInductive, Stores, Structure', call.op = "memalign", pc \in {"got", "tail"},
         UNCHANGED <<block, calls, refused, call, want, idx, resume, heapSize, chain, systemMem>>,
         haveFast' \in BOOLEAN, lastRemainder' \in Nat, p' \in Nat, result' \in Nat,
         SameSizes(head, head', Held), result' \notin Held, result' # 0, head'[result'].size >= call.n,
         \/ /\ (pc' = "tail" /\ after' = "return") \/ (pc' = "free" /\ after' = "tail")
            /\ (result' + 1) % call.align = 0
         \/ pc' \in {"return", "free"} /\ after' = "return",
         pc' = "free" => p' # result' /\ p' # 0 /\ p' \notin Held
  PROVE  HeapInductive'
<1>1. /\ Structure /\ LocalsTyped /\ CallSound /\ WhereSound /\ DataSound
  BY Parts
<1>2. /\ pc # "idle" /\ pc' # "idle" /\ pc' # "finish" /\ pc' # "fail" /\ pc' # "consolidate"
      /\ pc' # "realloc" /\ pc' # "got" /\ after' # "finish" /\ after' \in {"return", "tail"}
      /\ pc' \in {"tail", "free", "return"} /\ (pc' # "free" => after' = "return")
  OBVIOUS
<1>3. Held' = Held /\ LiveSlots' = LiveSlots
  BY SameHeld
<1>4. LocalsTyped'
  BY <1>1, <1>2 DEF LocalsTyped, Releasing
<1>5. ~Allocating'
  BY <1>2 DEF Allocating, Releasing, Merging, Searching
<1>6. Size(result)' = head'[result'].size
  BY DEF Size
<1>7. WhereSound'
  <2>1. CASE Tailing'
    <3>1. ~Returning' /\ (result' + 1) % call.align = 0
      BY <2>1, <1>2 DEF Tailing, Returning, Releasing
    <3> QED BY <2>1, <3>1, <1>2, <1>3, <1>5, <1>6 DEF WhereSound
  <2>2. CASE ~Tailing'
    BY <2>2, <1>2, <1>3, <1>5, <1>6 DEF WhereSound
  <2> QED BY <2>1, <2>2
<1>8. SearchSound' /\ FinishSound'
  BY <1>2 DEF SearchSound, FinishSound, Merging
<1>9. CountSound' /\ ClearSound'
  BY SameHeapsFrame DEF ClearSound
<1>10. \A s \in LiveSlots : head'[block[s].at].size >= Kept(s)
  BY <1>1, BlocksKept
<1> QED BY <1>1, <1>2, <1>4, <1>7, <1>8, <1>9, <1>10, EngineFrame

\* An aligned spot with room for a free chunk in front of it.
LEMMA AlignedSpotIs ==
  ASSUME NEW v \in Nat, NEW a \in Nat, a >= MinSize
  PROVE  /\ AlignedSpot(v, a) \in Nat
         /\ AlignedSpot(v, a) - v \in MinSize..(a + MinSize - 1)
         /\ (AlignedSpot(v, a) + 1) % a = 0
<1>1. MinSize \in Nat /\ MinSize > 1 /\ a > 0
  BY Constants
<1> DEFINE c == (v + 1) + a - 1
           q == c \div a
           z == q * a
<1>2. c \in Nat /\ c = v + a
  BY <1>1
<1>3. q \in Nat /\ q * a <= c /\ c < (q + 1) * a
  <2> HIDE DEF c
  <2> QED BY <1>1, <1>2
<1>4. RoundUp(v + 1, a) = z
  BY DEF RoundUp
<1> HIDE DEF q, c
<1>5. z \in Nat /\ (q + 1) * a = z + a
  BY <1>1, <1>3
<1>6. z >= v + 1 /\ z <= v + a
  <2>1. z <= c /\ c < z + a
    BY <1>3, <1>5
  <2> HIDE DEF z
  <2> QED BY ONLY <2>1, <1>1, <1>2, <1>5, v \in Nat, a \in Nat
<1>7. z % a = 0 /\ (z + a) % a = 0
  <2>1. z + a = (q + 1) * a /\ q + 1 \in Nat /\ z + a \in Nat
    BY <1>3, <1>5
  <2>2. (z + a) % a = 0
    <3> DEFINE y == z + a
    <3>1. y = (q + 1) * a /\ y \in Nat
      BY <2>1
    <3> HIDE DEF y
    <3>2. y % a = 0
      BY <3>1, <2>1, <1>1, MultipleIs
    <3> QED BY <3>2 DEF y
  <2>3. z % a = 0
    BY <1>1, <1>3, <1>5, MultipleIs
  <2> QED BY <2>2, <2>3
<1> HIDE DEF z
<1>8. CASE z - 1 - v < MinSize
  <2>1. AlignedSpot(v, a) = z - 1 + a
    BY <1>4, <1>8 DEF AlignedSpot
  <2>2. z - 1 + a \in Nat /\ (z - 1 + a) + 1 = z + a
        /\ (z - 1 + a) - v \in MinSize..(a + MinSize - 1)
    BY ONLY <1>1, <1>5, <1>6, <1>8, v \in Nat, a \in Nat, a >= MinSize
  <2> QED BY <2>1, <2>2, <1>7
<1>9. CASE ~(z - 1 - v < MinSize)
  <2>1. AlignedSpot(v, a) = z - 1
    BY <1>4, <1>9 DEF AlignedSpot
  <2>2. z - 1 \in Nat /\ (z - 1) + 1 = z /\ (z - 1) - v \in MinSize..(a + MinSize - 1)
    BY ONLY <1>1, <1>5, <1>6, <1>9, v \in Nat, a \in Nat, a >= MinSize
  <2> QED BY <2>1, <2>2, <1>7
<1> QED BY <1>8, <1>9

\* The front of the chunk found is cut off at the aligned spot.
LEMMA MemalignCutKept ==
  ASSUME HeapInductive, MemalignCut, Stores
  PROVE  HeapInductive'
<1>1. pc = "got" /\ call.op = "memalign"
  BY DEF MemalignCut
<1>2. /\ Structure /\ LocalsTyped /\ CallSound /\ WhereSound /\ Mem
  BY Parts, ChunkFacts
<1>3. result \notin Held /\ result # 0 /\ Size(result) - want \in 0..(MinSize - 1)
  BY <1>1, <1>2 DEF WhereSound
<1>4. /\ call.n \in Nat /\ call.n >= MinSize /\ call.align \in Nat /\ call.align >= MinSize
      /\ want \in Nat /\ want = call.n + call.align + MinSize + 1 /\ MinSize \in Nat
  BY <1>1, <1>2, WantFacts, Constants
<1>5. InHand = {result} /\ result \in Ord /\ result \notin Binned /\ result \in Nat /\ Size(result) \in Nat
      /\ Held \subseteq Ord
  <2>1. InHand = {result}
    BY <1>1, <1>3, InHandIs
  <2> QED BY <2>1, <1>2, InUse, ChunkFacts
<1>6. Size(result) >= want
  BY ONLY <1>3, <1>4, <1>5
<1>7. UNCHANGED <<fast, haveFast, bins, marked, lastRemainder, top, heapSize, chain, systemMem,
                  block, calls, refused, call, want, idx, resume>>
  BY DEF MemalignCut, lists, heaps, program, Goto
<1>8. Held' = Held /\ after = "return" /\ haveFast \in BOOLEAN /\ lastRemainder \in Nat /\ p \in Nat
  BY <1>1, <1>2, <1>7, SameHeld DEF LocalsTyped, Releasing
<1>9. CASE (result + 1) % call.align = 0
  <2>1. pc' = "tail" /\ UNCHANGED <<head, p, result, after>>
    BY <1>9 DEF MemalignCut, Goto
  <2>2. InHand' = InHand
    BY <1>3, <1>5, <1>8, <2>1, NextInHand
  <2>3. \A n \in DOMAIN fast : fast[n] # <<>> => haveFast' \/ pc' = "consolidate"
    BY <1>1, <1>2, <1>7, FlagHolds
  <2>4. Structure'
    BY <1>2, <1>7, <2>1, <2>2, <2>3, QuietStep
  <2>5. SameSizes(head, head', Held)
    BY <2>1 DEF SameSizes
  <2>6. head'[result'].size >= call.n
    <3>1. Size(result) >= call.n
      BY ONLY <1>4, <1>5, <1>6
    <3> QED BY <3>1, <2>1 DEF Size
  <2>7. (result' + 1) % call.align = 0
    BY <1>9, <2>1
  <2> QED BY <1>1, <1>3, <1>5, <1>7, <1>8, <2>1, <2>4, <2>5, <2>6, <2>7, SpotResized
<1>10. CASE (result + 1) % call.align # 0
  <2> DEFINE s == AlignedSpot(result, call.align)
             n == s - result
  <2>1. /\ s \in Nat /\ n \in MinSize..(call.align + MinSize - 1) /\ (s + 1) % call.align = 0
    BY <1>4, <1>5, AlignedSpotIs
  <2>2. /\ head' = SetHeadSize(SetInuse(SetHead(head, s, NextChunk(result) - s, TRUE, TRUE),
                                        s + (NextChunk(result) - s)), result, s - result)
        /\ p' = result /\ result' = s /\ pc' = "free" /\ after' = "tail"
    BY <1>10 DEF MemalignCut
  <2> HIDE DEF s
  <2>3. /\ n \in Nat /\ n >= MinSize /\ Size(result) - n >= MinSize /\ Size(result) - n >= call.n
        /\ result + n = s /\ n # 0
    BY ONLY <2>1, <1>4, <1>5, <1>6, Constants DEF n
  <2>4. NextChunk(result) - s = Size(result) - n
    <3>1. NextChunk(result) = result + Size(result)
      BY DEF NextChunk, Size
    <3> QED BY ONLY <3>1, <2>1, <2>3, <1>5 DEF n
  <2> HIDE DEF n
  <2>5. head' = FrontSplit(result, n)
    BY <2>2, <2>3, <2>4 DEF FrontSplit, n
  <2>6. IsCutOff(head', result, n)
    BY <1>2, <1>5, <2>3, <2>5, FrontSplitSound
  <2>7. s \notin Ord /\ s \notin Held /\ s # 0 /\ s # result
    <3>1. result + n \notin Ord
      BY <2>6 DEF IsCutOff, Ord, OrdinaryOf
    <3>2. s # 0 /\ s # result
      BY ONLY <2>1, <2>3, <1>5, Constants
    <3> QED BY <3>1, <3>2, <2>3, <1>5
  <2>8. InHand' = InHand \cup {result + n}
    <3>1. InHand' = {s, result}
      BY <1>8, <2>2, <2>7, NextInHand
    <3> QED BY <3>1, <2>3, <1>5
  <2>9. /\ Structure' /\ SameSizes(head, head', Ord \ {result}) /\ head'[result + n].size = Size(result) - n
    <3>1. result \in Held \cup InHand /\ pc # "consolidate"
      BY <1>1, <1>5
    <3> QED BY <3>1, <1>2, <1>7, <2>3, <2>6, <2>8, CutStep
  <2>10. SameSizes(head, head', Held)
    BY <1>3, <1>5, <2>9 DEF SameSizes
  <2>11. head'[result'].size >= call.n /\ (result' + 1) % call.align = 0
    BY <2>1, <2>2, <2>3, <2>9
  <2> QED BY <1>1, <1>3, <1>5, <1>7, <1>8, <2>1, <2>2, <2>7, <2>9, <2>10, <2>11, SpotResized
<1> QED BY <1>9, <1>10

\* What is left behind the block is cut off.
LEMMA MemalignTailKept ==
  ASSUME HeapInductive, MemalignTail, Stores
  PROVE  HeapInductive'
<1>1. pc = "tail" /\ Tailing
  BY DEF MemalignTail, Tailing
<1>2. /\ Structure /\ LocalsTyped /\ CallSound /\ WhereSound /\ Mem
  BY Parts, ChunkFacts
<1>3. /\ call.op = "memalign" /\ result \notin Held /\ result # 0 /\ Size(result) >= call.n
  BY <1>1, <1>2 DEF WhereSound
<1>4. /\ call.n \in Nat /\ call.n >= MinSize /\ MinSize \in Nat
  BY <1>1, <1>2, <1>3, WantFacts, Constants
<1>5. InHand = {result} /\ result \in Ord /\ result \notin Binned /\ result \in Nat /\ Size(result) \in Nat
      /\ Held \subseteq Ord
  <2>1. InHand = {result}
    BY <1>1, <1>3, InHandIs
  <2> QED BY <2>1, <1>2, InUse, ChunkFacts
<1>7. UNCHANGED <<fast, haveFast, bins, marked, lastRemainder, top, heapSize, chain, systemMem,
                  block, calls, refused, call, want, idx, resume>>
  BY DEF MemalignTail, lists, heaps, program, Goto
<1>8. Held' = Held /\ after = "return" /\ haveFast \in BOOLEAN /\ lastRemainder \in Nat /\ p \in Nat
  BY <1>1, <1>2, <1>7, SameHeld DEF LocalsTyped, Releasing
<1>9. CASE ~(Size(result) > call.n + MinSize)
  <2>1. pc' = "return" /\ UNCHANGED <<head, p, result, after>>
    BY <1>9 DEF MemalignTail, Goto
  <2>2. InHand' = InHand
    BY <1>3, <1>5, <1>8, <2>1, NextInHand
  <2>3. \A n \in DOMAIN fast : fast[n] # <<>> => haveFast' \/ pc' = "consolidate"
    BY <1>1, <1>2, <1>7, FlagHolds
  <2>4. Structure'
    BY <1>2, <1>7, <2>1, <2>2, <2>3, QuietStep
  <2>5. SameSizes(head, head', Held)
    BY <2>1 DEF SameSizes
  <2>6. head'[result'].size >= call.n
    BY <1>3, <2>1 DEF Size
  <2> QED BY <1>1, <1>3, <1>5, <1>7, <1>8, <2>1, <2>4, <2>5, <2>6, SpotResized
<1>10. CASE Size(result) > call.n + MinSize
  <2>2. /\ head' = TailSplit(result, call.n)
        /\ p' = result + call.n /\ pc' = "free" /\ after' = "return" /\ result' = result
    BY <1>10 DEF MemalignTail, TailSplit
  <2>3. Size(result) - call.n >= MinSize /\ result + call.n \in Nat /\ result + call.n # result
        /\ result + call.n # 0
    BY ONLY <1>4, <1>5, <1>10, Constants
  <2>6. IsCutOff(head', result, call.n)
    BY <1>2, <1>4, <1>5, <2>2, <2>3, TailSplitSound
  <2>7. result + call.n \notin Held
    <3>1. result + call.n \notin Ord
      BY <2>6 DEF IsCutOff, Ord, OrdinaryOf
    <3> QED BY <3>1, <1>5
  <2>8. InHand' = InHand \cup {result + call.n}
    <3>1. InHand' = {result, result + call.n}
      BY <1>3, <1>8, <2>2, NextInHand
    <3> QED BY <3>1, <1>5
  <2>9. /\ Structure' /\ SameSizes(head, head', Ord \ {result}) /\ head'[result].size = call.n
    <3>1. result \in Held \cup InHand /\ pc # "consolidate"
      BY <1>1, <1>5
    <3> QED BY <3>1, <1>2, <1>4, <1>7, <2>6, <2>8, CutStep
  <2>10. SameSizes(head, head', Held)
    BY <1>3, <1>5, <2>9 DEF SameSizes
  <2>11. head'[result'].size >= call.n
    BY <2>2, <2>9, <1>4
  <2>12. result' \in Nat /\ p' \in Nat /\ haveFast' \in BOOLEAN /\ lastRemainder' \in Nat
         /\ result' \notin Held /\ result' # 0
    BY <1>3, <1>5, <1>7, <1>8, <2>2, <2>3
  <2>13. pc' = "free" => p' # result' /\ p' # 0 /\ p' \notin Held
    BY <2>2, <2>3, <2>7
  <2> QED BY <1>1, <1>3, <1>7, <2>2, <2>9, <2>10, <2>11, <2>12, <2>13, SpotResized
<1> QED BY <1>9, <1>10

\* _int_realloc and _int_memalign keep the invariant.
LEMMA ResizesKept ==
  ASSUME HeapInductive, Resizes, Stores
  PROVE  HeapInductive'
BY ReallocInPlaceKept, ReallocIntoTopKept, ReallocIntoNextKept, ReallocMoveKept, ReallocJoinKept,
   MemalignCutKept, MemalignTailKept DEF Resizes

-----------------------------------------------------------------------------
(* The steps of the program: it calls, copies, and takes what it is given. *)

\* Memory stays as it is; chunks change hands between program and call.
LEMMA HandedOver ==
  ASSUME Structure, UNCHANGED <<head, fast, haveFast, bins, marked, top, heapSize, chain>>,
         pc # "consolidate",
         Held' \cup InHand' = Held \cup InHand, Held' \cap InHand' = {},
         \A s, t \in LiveSlots' : block'[s].at = block'[t].at => s = t
  PROVE  Structure'
<1>1. Binned' = Binned /\ Fasted' = Fasted
  BY DEF Binned, Fasted
<1>2. Mem'
  BY <1>1 DEF Structure, Mem
<1>3. BinsSound'
  BY DEF Structure, BinsSound
<1>4. FastSound'
  BY DEF Structure, FastSound, Size
<1>5. Parted(Ord, Binned, Fasted, Held, InHand)
  BY DEF Structure, PlacesSound, Ord
<1>6. Parted(Ord, Binned, Fasted, Held', InHand')
  BY <1>5 DEF Parted
<1>7. Ord' = Ord
  BY DEF Ord
<1>8. PlacesSound'
  BY <1>1, <1>6, <1>7 DEF PlacesSound, Ord
<1> QED BY <1>2, <1>3, <1>4, <1>8 DEF Structure

\* What the program stored is still there, from one state to the next.
LEMMA BlocksAsBefore ==
  ASSUME HeapInductive, UNCHANGED head, LiveSlots' \subseteq LiveSlots,
         \A s \in LiveSlots' : block'[s] = block[s] /\ data'[s] = data[s] /\ Kept(s)' \in Nat /\ Kept(s)' <= Kept(s)
  PROVE  ContentsKept' /\ \A s \in LiveSlots' : (Size(block[s].at) >= Kept(s))'
<1>1. Structure /\ LocalsTyped /\ CallSound /\ DataSound
  BY Parts
<1>2. ASSUME NEW s \in LiveSlots'
      PROVE  (OwnWords(s))' \subseteq data'[s] /\ (Size(block[s].at) >= Kept(s))'
  <2>1. s \in LiveSlots /\ block'[s] = block[s] /\ data'[s] = data[s] /\ Kept(s)' \in Nat /\ Kept(s)' <= Kept(s)
    BY <1>2
  <2>2. /\ block[s].at \in Nat /\ Kept(s) \in Nat /\ Size(block[s].at) \in Nat
    BY <1>1, <2>1, BlockFacts
  <2>3. Size(block[s].at) >= Kept(s) /\ OwnWords(s) \subseteq data[s]
    BY <1>1, <2>1 DEF DataSound, ContentsKept
  <2>4. Size(block[s].at)' = Size(block[s].at)
    BY <2>1 DEF Size
  <2>5. (Size(block[s].at) >= Kept(s))'
    <3> DEFINE x == Size(block[s].at)'
               y == Kept(s)'
    <3>1. x = Size(block[s].at) /\ y \in Nat /\ y <= Kept(s)
      BY <2>1, <2>4
    <3> HIDE DEF x, y
    <3>2. x >= y
      BY ONLY <3>1, <2>2, <2>3
    <3> QED BY <3>2 DEF x, y
  <2>6. (OwnWords(s))' = UserWords(block[s].at, Kept(s)')
    BY <2>1 DEF OwnWords, UserWords
  <2>7. UserWords(block[s].at, Kept(s)') \subseteq UserWords(block[s].at, Kept(s))
    <3> DEFINE y == Kept(s)'
               x == Kept(s)
               b == block[s].at
    <3>1. y \in Nat /\ y <= x /\ x \in Nat /\ b \in Nat
      BY <2>1, <2>2
    <3> HIDE DEF x, y, b
    <3>2. \A w \in UserWords(b, y) : w \in UserWords(b, x)
      BY ONLY <3>1 DEF UserWords
    <3> QED BY <3>2 DEF x, y, b
  <2> QED BY <2>1, <2>3, <2>5, <2>6, <2>7 DEF OwnWords
<1> QED BY <1>2 DEF ContentsKept

\* Between two calls.
LEMMA Idle ==
  ASSUME HeapInductive, pc = "idle"
  PROVE  /\ Structure /\ LocalsTyped /\ CallSound /\ DataSound /\ CountSound
         /\ call = NoCall /\ result = 0 /\ InHand = {} /\ after = "return" /\ ~Releasing
         /\ \A s \in LiveSlots : Kept(s) = block[s].n /\ block[s].n \in Nat
<1>1. Structure /\ LocalsTyped /\ CallSound /\ DataSound /\ CountSound
  BY Parts
<1>2. call = NoCall /\ result = 0
  BY <1>1 DEF CallSound
<1>3. InHand = {} /\ ~Releasing
  BY <1>2 DEF InHand, Releasing
<1>4. after = "return"
  BY <1>1, <1>3 DEF LocalsTyped
<1>5. ASSUME NEW s \in LiveSlots PROVE Kept(s) = block[s].n /\ block[s].n \in Nat
  <2>1. s \in Slots /\ block[s].n \in Nat
    BY <1>1, BlockFacts
  <2>2. s # 0
    <3>1. Slots = 1..Cardinality(Slots)
      BY HeapAssumption DEF HeapAssumption
    <3>2. \A g \in 1..Cardinality(Slots) : g \in Nat /\ g >= 1
      OBVIOUS
    <3>3. \A g \in Slots : g \in Nat /\ g >= 1
      BY <3>1, <3>2
    <3> QED BY <2>1, <3>3
  <2> QED BY <2>1, <2>2, <1>2 DEF Kept, NoCall
<1> QED BY <1>1, <1>2, <1>3, <1>4, <1>5

\* A call starts.
LEMMA Started ==
  ASSUME HeapInductive, NEW op \in Ops \ {"none"}, NEW s \in Slots, NEW n \in Nat, NEW align \in Nat,
         NEW nb \in Nat, NEW label,
         Starts(op, s, n, align, nb, label), p' \in Nat, Structure', LiveSlots' \subseteq LiveSlots,
         \A t \in LiveSlots' : block'[t] = block[t] /\ data'[t] = data[t],
         block' \in [Slots -> [at : Nat, n : Nat]], data' \in [Slots -> SUBSET Nat],
         (op = "realloc") = (s \in LiveSlots'),
         op # "free" => n \in Requests /\ nb = (IF op = "memalign" THEN n + align + MinSize + 1 ELSE n),
         op = "memalign" => align \in Alignments,
         label = (IF op = "free" THEN "free" ELSE IF op = "realloc" THEN "realloc" ELSE "malloc"),
         label = "free" => p' # 0 /\ p' \notin Held'
  PROVE  HeapInductive'
<1>1. pc = "idle" /\ pc' = label
  BY DEF Starts
<1>2. /\ Structure /\ LocalsTyped /\ CallSound /\ DataSound /\ CountSound
      /\ call = NoCall /\ result = 0 /\ after = "return"
      /\ \A t \in LiveSlots : Kept(t) = block[t].n /\ block[t].n \in Nat
  BY <1>1, Idle
<1>3. /\ UNCHANGED <<head, fast, haveFast, bins, marked, lastRemainder, top, heapSize, chain, systemMem,
                     fresh, refused, idx, result, after, resume>>
      /\ calls' = calls + 1 /\ want' = nb
      /\ call' = [op |-> op, slot |-> s, n |-> n, align |-> align, oldTop |-> top, oldTopSize |-> Size(top)]
  BY DEF Starts, lists, heaps
<1>4. /\ call'.op = op /\ call'.slot = s /\ call'.n = n /\ call'.align = align
      /\ call'.oldTop = top /\ call'.oldTopSize = Size(top)
  BY <1>3
<1>5. label \in {"free", "realloc", "malloc"}
  OBVIOUS
<1>6. LocalsTyped'
  <2>1. calls' \in Nat
    BY <1>2, <1>3 DEF LocalsTyped
  <2> QED BY <2>1, <1>1, <1>2, <1>3, <1>5 DEF LocalsTyped
<1>7. top \in Nat /\ Size(top) \in Nat /\ HeapOf(top) = Current /\ Current \in Heaps /\ heapSize[Current] > 0
      /\ top + Size(top) = HeapEnd(Current) /\ HeapEnd(Current) \in Nat
  <2>1. /\ top \in Nat /\ Size(top) \in Nat /\ HeapOf(top) = Current /\ Current \in Heaps /\ heapSize[Current] > 0
        /\ top + Size(top) = HeapEnd(Current)
    BY <1>2, TopAtEnd
  <2>2. top + Size(top) \in Nat
    BY ONLY <2>1
  <2> QED BY <2>1, <2>2
<1>8. CallSound'
  <2>1. \A t \in LiveSlots' : block'[t].n \in Requests
    BY <1>2 DEF CallSound
  <2>2. call'.op # "free" => call'.n \in Requests /\ want' = Padded'
    BY <1>3, <1>4 DEF Padded
  <2>3. pc' # "idle"
    BY <1>1, <1>5
  <2> QED BY <2>1, <2>2, <2>3, <1>4, <1>7 DEF CallSound
<1>9. WhereSound'
  <2>1. after' = "return" /\ result' = 0
    BY <1>2, <1>3
  <2>2. ~Tailing'
    BY <2>1, <1>1, <1>5 DEF Tailing, Releasing
  <2>3. CASE op = "free"
    <3>1. ~Allocating' /\ pc' = "free"
      BY <2>1, <2>3, <1>1 DEF Allocating, Merging, Searching
    <3>2. p' # result' /\ p' # 0 /\ p' \notin Held'
      BY <2>1, <2>3
    <3> QED BY <2>1, <2>2, <2>3, <3>1, <3>2, <1>4 DEF WhereSound
  <2>4. CASE op # "free"
    <3>1. ~Returning' /\ pc' # "free" /\ pc' # "got"
      BY <2>4, <1>1 DEF Returning, Releasing
    <3>2. op = "realloc" => pc' = "realloc" /\ ~Allocating'
      BY <1>1 DEF Allocating, Releasing, Merging, Searching
    <3>3. op # "realloc" => pc' = "malloc"
      BY <2>4, <1>1
    <3> QED BY <2>1, <2>2, <2>4, <3>1, <3>2, <3>3, <1>4 DEF WhereSound
  <2> QED BY <2>3, <2>4
<1>10. SearchSound'
  BY <1>1, <1>5 DEF SearchSound, Merging
<1>11. FinishSound'
  BY <1>1, <1>2, <1>3, <1>5 DEF FinishSound
<1>12. CountSound'
  BY <1>2, <1>3 DEF CountSound
<1>13. ContentsKept' /\ \A t \in LiveSlots' : (Size(block[t].at) >= Kept(t))'
  <2>1. ASSUME NEW t \in LiveSlots' PROVE Kept(t)' \in Nat /\ Kept(t)' <= Kept(t)
    <3>1. t \in LiveSlots /\ block'[t].n = block[t].n
      BY <2>1
    <3>2. Kept(t) = block[t].n /\ block[t].n \in Nat
      BY <3>1, <1>2
    <3>3. Kept(t)' = IF t = s /\ n < block[t].n THEN n ELSE block[t].n
      BY <3>1, <1>4 DEF Kept
    <3> QED BY <3>2, <3>3
  <2> QED BY <2>1, <1>3, BlocksAsBefore
<1>14. ClearSound'
  <2>1. HeapOf(top)' = Current /\ heapSize' = heapSize /\ pc' \notin {"finish", "got", "fail"}
    BY <1>1, <1>3, <1>5, <1>7 DEF HeapOf
  <2>2. HeapOf(call.oldTop)' = Current
    BY <1>4, <1>7 DEF HeapOf
  <2>3. HeapEnd(HeapOf(call.oldTop))' = HeapEnd(Current)
    BY <2>1, <2>2 DEF HeapEnd
  <2>4. (HeapEnd(HeapOf(call.oldTop)) <= call.oldTop + call.oldTopSize)'
    <3>1. HeapEnd(Current) <= top + Size(top)
      BY ONLY <1>7
    <3> QED BY <3>1, <2>3, <1>4
  <2> QED BY <2>1, <2>2, <2>4, <1>7 DEF ClearSound
<1>15. DataSound'
  <2>1. fresh' \subseteq Nat
    BY <1>2, <1>3 DEF DataSound
  <2> QED BY <2>1, <1>13, <1>14 DEF DataSound
<1> QED BY <1>6, <1>8, <1>9, <1>10, <1>11, <1>12, <1>15, PartsNext

\* A call that leaves the blocks as they are.
LEMMA StartedSame ==
  ASSUME HeapInductive, NEW op \in Ops \ {"none", "free"}, NEW s \in Slots, NEW n \in Requests,
         NEW align \in Nat, NEW nb, NEW label,
         Starts(op, s, n, align, nb, label), UNCHANGED <<block, data, p>>,
         (op = "realloc") = (s \in LiveSlots),
         nb = (IF op = "memalign" THEN n + align + MinSize + 1 ELSE n),
         op = "memalign" => align \in Alignments,
         label = (IF op = "realloc" THEN "realloc" ELSE "malloc")
  PROVE  HeapInductive'
<1>1. pc = "idle" /\ pc' = label
  BY DEF Starts
<1>2. /\ Structure /\ LocalsTyped /\ CallSound /\ DataSound /\ result = 0 /\ InHand = {}
  BY <1>1, Idle
<1>3. UNCHANGED <<head, fast, haveFast, bins, marked, top, heapSize, chain, result>>
  BY DEF Starts, lists, heaps
<1>4. Held' = Held /\ LiveSlots' = LiveSlots
  BY SameHeld
<1>5. InHand' = {}
  BY <1>1, <1>2, <1>3 DEF InHand
<1>6. \A t, u \in LiveSlots : block[t].at = block[u].at => t = u
  BY <1>2 DEF Structure, PlacesSound
<1>7. Structure'
  BY <1>1, <1>2, <1>3, <1>4, <1>5, <1>6, HandedOver
<1>8. n \in Nat /\ nb \in Nat
  <2>1. n \in Nat
    BY HeapAssumption DEF HeapAssumption
  <2> QED BY <2>1, Constants
<1>9. /\ p' \in Nat /\ block' \in [Slots -> [at : Nat, n : Nat]] /\ data' \in [Slots -> SUBSET Nat]
  BY <1>2 DEF LocalsTyped, DataSound
<1>10. op \in Ops \ {"none"} /\ op # "free" /\ label # "free"
       /\ label = (IF op = "free" THEN "free" ELSE IF op = "realloc" THEN "realloc" ELSE "malloc")
  OBVIOUS
<1> QED BY <1>4, <1>7, <1>8, <1>9, <1>10, Started

\* A slot is empty or live.
LEMMA SlotIs ==
  ASSUME NEW s \in Slots
  PROVE  (block[s] = Nothing <=> s \notin LiveSlots)
BY DEF LiveSlots

\* The program gives a block back.
LEMMA FreeKept ==
  ASSUME HeapInductive, NEW s \in Slots, Free(s)
  PROVE  HeapInductive'
<1>1. /\ pc = "idle" /\ pc' = "free" /\ s \in LiveSlots /\ Starts("free", s, 0, 0, 0, "free")
      /\ p' = block[s].at
      /\ block' = [block EXCEPT ![s] = Nothing] /\ data' = [data EXCEPT ![s] = {}]
  BY SlotIs DEF Free, Starts
<1>2. /\ Structure /\ LocalsTyped /\ CallSound /\ DataSound /\ result = 0 /\ InHand = {}
  BY <1>1, Idle
<1>3. UNCHANGED <<head, fast, haveFast, bins, marked, top, heapSize, chain, result>>
  BY <1>1 DEF Starts, lists, heaps
<1>4. block \in [Slots -> [at : Nat, n : Nat]] /\ data \in [Slots -> SUBSET Nat]
  BY <1>2 DEF LocalsTyped, DataSound
<1>5. /\ block' \in [Slots -> [at : Nat, n : Nat]] /\ data' \in [Slots -> SUBSET Nat]
      /\ block'[s] = Nothing
      /\ \A t \in Slots \ {s} : block'[t] = block[t] /\ data'[t] = data[t]
  <2>1. Nothing \in [at : Nat, n : Nat]
    BY DEF Nothing
  <2> QED BY <2>1, <1>1, <1>4
<1>6. LiveSlots' = LiveSlots \ {s}
  BY <1>5 DEF LiveSlots
<1>7. \A t, u \in LiveSlots : block[t].at = block[u].at => t = u
  BY <1>2 DEF Structure, PlacesSound
<1>8. Held' = Held \ {block[s].at} /\ block[s].at \in Held
  <2>1. Held' = {block'[t].at : t \in LiveSlots'}
    BY DEF Held
  <2>2. Held' = {block[t].at : t \in LiveSlots \ {s}}
    <3>1. \A t \in LiveSlots' : block'[t].at = block[t].at
      BY <1>5, <1>6 DEF LiveSlots
    <3> QED BY <2>1, <3>1, <1>6
  <2> QED BY <2>2, <1>1, <1>7 DEF Held
<1>9. block[s].at \in Nat /\ block[s].at # 0
  <2>1. block[s].at \in Ord
    BY <1>1, <1>2, BlockFacts
  <2> QED BY <2>1, <1>2, ChunkFacts
<1>10. InHand' = {block[s].at}
  <2>1. result' = 0 /\ pc' = "free" /\ p' = block[s].at
    BY <1>1, <1>2, <1>3
  <2> QED BY <2>1 DEF InHand
<1>11. Structure'
  <2>1. Held' \cup InHand' = Held \cup InHand /\ Held' \cap InHand' = {} /\ pc # "consolidate"
    BY <1>1, <1>2, <1>8, <1>10
  <2>2. \A t, u \in LiveSlots' : block'[t].at = block'[u].at => t = u
    BY <1>5, <1>6, <1>7 DEF LiveSlots
  <2> QED BY <2>1, <2>2, <1>2, <1>3, HandedOver
<1>12. \A t \in LiveSlots' : block'[t] = block[t] /\ data'[t] = data[t]
  BY <1>5, <1>6 DEF LiveSlots
<1>13. /\ "free" \in Ops \ {"none"} /\ 0 \in Nat /\ ("free" = "realloc") = (s \in LiveSlots')
       /\ LiveSlots' \subseteq LiveSlots
  BY <1>6 DEF Ops
<1>14. p' \in Nat /\ p' # 0 /\ p' \notin Held'
  BY <1>1, <1>8, <1>9
<1>15. "free" = (IF "free" = "free" THEN "free" ELSE IF "free" = "realloc" THEN "realloc" ELSE "malloc")
  OBVIOUS
<1>16. /\ Starts("free", s, 0, 0, 0, "free")
       /\ "free" # "free" => 0 \in Requests /\ 0 = (IF "free" = "memalign" THEN 0 + 0 + MinSize + 1 ELSE 0)
       /\ "free" = "memalign" => 0 \in Alignments
       /\ "free" = "free" => p' # 0 /\ p' \notin Held'
  BY <1>1, <1>14
<1> QED BY ONLY HeapInductive, s \in Slots, <1>5, <1>11, <1>12, <1>13, <1>14, <1>15, <1>16, Started

\* Every call of the program keeps the invariant when it starts.
LEMMA CallsKept ==
  ASSUME HeapInductive, Calls
  PROVE  HeapInductive'
<1>1. PICK s \in Slots :
        \/ \E n \in Requests :
             Malloc(s, n) \/ Calloc(s, n) \/ Realloc(s, n) \/ \E a \in Alignments : Memalign(s, n, a)
        \/ Free(s)
  BY DEF Calls
<1>2. CASE Free(s)
  BY <1>2, FreeKept
<1>3. ASSUME NEW n \in Requests, Malloc(s, n) PROVE HeapInductive'
  <2>1. Starts("malloc", s, n, 0, n, "malloc") /\ s \notin LiveSlots /\ UNCHANGED <<block, data, p>>
    BY <1>3, SlotIs DEF Malloc, Empty
  <2>2. "malloc" \in Ops \ {"none", "free"} /\ 0 \in Nat /\ ("malloc" = "realloc") = (s \in LiveSlots)
    BY <2>1 DEF Ops
  <2> QED BY <2>1, <2>2, StartedSame
<1>4. ASSUME NEW n \in Requests, Calloc(s, n) PROVE HeapInductive'
  <2>1. Starts("calloc", s, n, 0, n, "malloc") /\ s \notin LiveSlots /\ UNCHANGED <<block, data, p>>
    BY <1>4, SlotIs DEF Calloc, Empty
  <2>2. "calloc" \in Ops \ {"none", "free"} /\ 0 \in Nat /\ ("calloc" = "realloc") = (s \in LiveSlots)
    BY <2>1 DEF Ops
  <2> QED BY <2>1, <2>2, StartedSame
<1>5. ASSUME NEW n \in Requests, Realloc(s, n) PROVE HeapInductive'
  <2>1. Starts("realloc", s, n, 0, n, "realloc") /\ s \in LiveSlots /\ UNCHANGED <<block, data, p>>
    BY <1>5, SlotIs DEF Realloc
  <2>2. "realloc" \in Ops \ {"none", "free"} /\ 0 \in Nat /\ ("realloc" = "realloc") = (s \in LiveSlots)
    BY <2>1 DEF Ops
  <2> QED BY <2>1, <2>2, StartedSame
<1>6. ASSUME NEW n \in Requests, NEW a \in Alignments, Memalign(s, n, a) PROVE HeapInductive'
  <2>1. /\ Starts("memalign", s, n, a, n + a + MinSize + 1, "malloc") /\ s \notin LiveSlots
        /\ UNCHANGED <<block, data, p>>
    BY <1>6, SlotIs DEF Memalign, Empty
  <2>2. "memalign" \in Ops \ {"none", "free"} /\ a \in Nat /\ ("memalign" = "realloc") = (s \in LiveSlots)
    BY <2>1, HeapAssumption DEF Ops, HeapAssumption
  <2> QED BY <2>1, <2>2, StartedSame
<1> QED BY <1>1, <1>2, <1>3, <1>4, <1>5, <1>6

\* A call is over.
LEMMA Ended ==
  ASSUME HeapInductive, Over, pc \in {"return", "got", "fail"}, Structure',
         block' \in [Slots -> [at : Nat, n : Nat]], data' \in [Slots -> SUBSET Nat],
         \A s \in LiveSlots' : block'[s].n \in Requests,
         ContentsKept', \A s \in LiveSlots' : (Size(block[s].at) >= Kept(s))'
  PROVE  HeapInductive'
<1>1. /\ Structure /\ LocalsTyped /\ CallSound /\ DataSound /\ CountSound
  BY Parts
<1>2. /\ fresh' = {} /\ refused' = FALSE /\ call' = NoCall
      /\ pc' = "idle" /\ want' = 0 /\ idx' = 0 /\ p' = 0 /\ result' = 0
      /\ UNCHANGED <<haveFast, lastRemainder, heapSize, chain, systemMem, calls, after, resume>>
  BY DEF Over, lists, heaps
<1>3. after = "return"
  BY <1>1 DEF LocalsTyped, Releasing
<1>4. LocalsTyped'
  BY <1>1, <1>2, <1>3 DEF LocalsTyped
<1>5. /\ call'.op = "none" /\ call'.n = 0 /\ call'.align = 0 /\ call'.oldTop = 0 /\ call'.oldTopSize = 0
  BY <1>2 DEF NoCall
<1>6. CallSound'
  <2>1. 0 \in Nat /\ "none" \in Ops
    BY DEF Ops
  <2> QED BY <2>1, <1>2, <1>5 DEF CallSound
<1>7. WhereSound'
  <2>1. ~Allocating' /\ ~Tailing' /\ ~Returning'
    BY <1>2 DEF Allocating, Tailing, Returning, Releasing, Merging, Searching
  <2> QED BY <2>1, <1>2 DEF WhereSound
<1>8. SearchSound' /\ FinishSound'
  BY <1>2 DEF SearchSound, FinishSound, Merging, Releasing
<1>9. CountSound'
  BY <1>1, <1>2 DEF CountSound
<1>10. ClearSound'
  BY <1>5 DEF ClearSound
<1>11. fresh' \subseteq Nat
  BY <1>2
<1>12. DataSound'
  BY <1>10, <1>11 DEF DataSound
<1> QED BY <1>4, <1>6, <1>7, <1>8, <1>9, <1>12, PartsNext

\* A call fails: what realloc should have enlarged stays as it was.
LEMMA ReturnNullKept ==
  ASSUME HeapInductive, ReturnNull
  PROVE  HeapInductive'
<1>1. pc = "fail" /\ Over /\ UNCHANGED <<block, data>>
  BY DEF ReturnNull
<1>2. /\ pc \in Searching /\ pc # "consolidate" /\ pc # "free"
  BY <1>1 DEF Searching
<1>3. /\ Structure /\ LocalsTyped /\ CallSound /\ WhereSound /\ InHand = {} /\ result = 0
      /\ pc # "idle" /\ call.op # "free"
  BY <1>2, Searches
<1>4. DataSound
  BY Parts
<1>5. /\ UNCHANGED <<head, fast, haveFast, bins, marked, top, heapSize, chain>>
      /\ call' = NoCall /\ result' = 0 /\ pc' = "idle"
  BY <1>1 DEF Over, lists, heaps
<1>6. Held' = Held /\ LiveSlots' = LiveSlots
  BY <1>1, SameHeld
<1>7. InHand' = {}
  BY <1>5 DEF InHand
<1>8. \A t, u \in LiveSlots : block[t].at = block[u].at => t = u
  BY <1>3 DEF Structure, PlacesSound
<1>9. Structure'
  BY <1>1, <1>2, <1>3, <1>5, <1>6, <1>7, <1>8, HandedOver
<1>10. ASSUME NEW s \in LiveSlots PROVE Kept(s)' \in Nat /\ Kept(s)' <= Kept(s)
  <2>1. s \in Slots /\ block[s].n \in Nat /\ Kept(s) \in Nat
    BY <1>3, BlockFacts
  <2>2. Kept(s) = block[s].n
    <3> SUFFICES ASSUME s = call.slot, call.n < block[s].n PROVE FALSE
      BY DEF Kept
    <3>1. call.op = "realloc"
      BY <1>3 DEF CallSound
    <3>2. want = call.n /\ call.n \in Nat
      BY <3>1, <1>3, WantFacts
    <3>3. Size(Old) < want /\ Size(Old) \in Nat
      BY <3>1, <1>2, <1>3, OldFacts DEF WhereSound, Allocating
    <3>4. Kept(s) = call.n
      BY DEF Kept
    <3>5. Size(block[s].at) >= Kept(s) /\ block[s].at = Old
      BY <1>4 DEF DataSound, Old
    <3>6. Size(Old) >= call.n
      BY <3>4, <3>5
    <3> QED BY ONLY <3>2, <3>3, <3>6
  <2>3. Kept(s)' \in {0, block[s].n} /\ Kept(s)' \in Nat
    BY <1>1, <1>5, <2>1 DEF Kept, NoCall
  <2> QED BY ONLY <2>1, <2>2, <2>3
<1>11. ContentsKept' /\ \A s \in LiveSlots' : (Size(block[s].at) >= Kept(s))'
  BY <1>1, <1>5, <1>6, <1>10, BlocksAsBefore
<1>12. /\ block' \in [Slots -> [at : Nat, n : Nat]] /\ data' \in [Slots -> SUBSET Nat]
       /\ \A s \in LiveSlots' : block'[s].n \in Requests
  BY <1>1, <1>3, <1>4, <1>6 DEF LocalsTyped, DataSound, CallSound
<1> QED BY <1>1, <1>9, <1>11, <1>12, Ended

\* The words of a block are no other chunk's.
LEMMA OthersWords ==
  ASSUME Structure, LocalsTyped, CallSound, DataSound, NEW s \in LiveSlots,
         NEW a \in Ord, a \notin Binned, a # block[s].at
  PROVE  OwnWords(s) \cap UserWords(a, Size(a)) = {}
<1>1. /\ block[s].at \in Ord /\ block[s].at \notin Binned /\ Kept(s) \in Nat /\ Size(block[s].at) \in Nat
      /\ Size(block[s].at) >= Kept(s)
  BY BlockFacts DEF DataSound
<1>2. Kept(s) <= Size(block[s].at)
  BY ONLY <1>1
<1>3. OwnWords(s) \subseteq UserWords(block[s].at, Size(block[s].at))
  BY <1>1, <1>2, WordsInHeap DEF OwnWords
<1>4. UserWords(block[s].at, Size(block[s].at)) \cap UserWords(a, Size(a)) = {}
  BY <1>1, WordsApart DEF Structure, Mem, Ord, Size
<1> QED BY <1>3, <1>4

\* What is copied when a block moves.
Moved(a, b, n, S) == {w + 2 * (b - a) : w \in S \cap UserWords(a, n)}

\* A copy holds what the original held, as far as it reaches.
LEMMA MovedIs ==
  ASSUME NEW a \in Nat, NEW b \in Nat, NEW n \in Nat, NEW k \in Nat, k <= n,
         NEW S, S \subseteq Nat, UserWords(a, k) \subseteq S
  PROVE  Moved(a, b, n, S) \subseteq Nat /\ UserWords(b, k) \subseteq Moved(a, b, n, S)
<1>1. ASSUME NEW w \in S \cap UserWords(a, n) PROVE w + 2 * (b - a) \in Nat
  <2>1. w \in Nat /\ w >= 2 * a + 2
    BY <1>1 DEF UserWords
  <2> QED BY ONLY <2>1, a \in Nat, b \in Nat
<1>2. ASSUME NEW w \in UserWords(b, k) PROVE w \in Moved(a, b, n, S)
  <2> DEFINE v == w - 2 * (b - a)
  <2>1. w \in Int /\ w >= 2 * b + 2 /\ w <= 2 * b + 2 * k
    BY <1>2 DEF UserWords
  <2>2. v \in UserWords(a, k) /\ v \in UserWords(a, n) /\ v + 2 * (b - a) = w
    BY ONLY <2>1, a \in Nat, b \in Nat, k \in Nat, n \in Nat, k <= n DEF UserWords
  <2> HIDE DEF v
  <2>3. v \in S \cap UserWords(a, n)
    BY <2>2
  <2> QED BY <2>2, <2>3 DEF Moved
<1>3. Moved(a, b, n, S) \subseteq Nat
  BY <1>1 DEF Moved
<1> QED BY <1>2, <1>3

\* A call that found a chunk has that in hand.
LEMMA GotFacts ==
  ASSUME HeapInductive, pc = "got"
  PROVE  /\ Structure /\ LocalsTyped /\ CallSound /\ DataSound /\ CountSound
         /\ InHand = {result} /\ result \in Ord /\ result \notin Binned /\ result \notin Held
         /\ result \in Nat /\ result # 0 /\ Size(result) \in Nat /\ Size(result) >= want
         /\ want \in Nat /\ want >= call.n /\ call.n \in Nat /\ call.n \in Requests
         /\ call.op # "free" /\ call.slot \in Slots
         /\ call.op = "realloc" => Size(Old) < want
         /\ call.op # "memalign" => want = call.n
<1>1. /\ Structure /\ LocalsTyped /\ CallSound /\ WhereSound /\ DataSound /\ CountSound
  BY Parts
<1>2. /\ pc # "idle" /\ pc # "free"
      /\ call.op # "free" /\ result \notin Held /\ result # 0
      /\ Size(result) - want \in 0..(MinSize - 1)
      /\ call.op = "realloc" => Size(Old) < want
  BY <1>1 DEF WhereSound
<1>3. /\ want \in Nat /\ want >= call.n /\ call.n \in Nat /\ call.n \in Requests
      /\ call.op # "memalign" => want = call.n
  BY <1>1, <1>2, WantFacts
<1>4. InHand = {result}
  BY <1>2, InHandIs
<1>5. result \in Ord /\ result \notin Binned
  BY <1>1, <1>4, ChunkFacts DEF Parted
<1>6. result \in Nat /\ Size(result) \in Nat
  BY <1>1, <1>5, ChunkFacts
<1>7. Size(result) >= want
  <2>1. MinSize \in Nat
    BY Constants
  <2> QED BY ONLY <1>2, <1>3, <1>6, <2>1
<1>8. call.slot \in Slots
  BY <1>1, <1>2 DEF CallSound
<1> QED BY <1>1, <1>2, <1>3, <1>4, <1>5, <1>6, <1>7, <1>8

\* realloc found another place: the contents move, the old chunk is freed.
LEMMA ReallocCopyKept ==
  ASSUME HeapInductive, ReallocCopy
  PROVE  HeapInductive'
<1> DEFINE z == call.slot
<1>1. /\ pc = "got" /\ call.op = "realloc" /\ pc' = "free" /\ after' = "return" /\ p' = Old
      /\ UNCHANGED <<head, fast, haveFast, bins, marked, lastRemainder, top, heapSize, chain, systemMem,
                     fresh, calls, refused, call, want, idx, result, resume>>
      /\ block' = [block EXCEPT ![z].at = result]
  BY DEF ReallocCopy, lists, heaps
<1>2. data' = [s \in Slots |-> IF s = z THEN Moved(Old, result, Size(Old), data[z])
                               ELSE data[s] \ UserWords(result, Size(Old))]
  BY DEF ReallocCopy, Moved
<1>3. /\ Structure /\ LocalsTyped /\ CallSound /\ DataSound /\ CountSound
      /\ InHand = {result} /\ result \in Ord /\ result \notin Binned /\ result \notin Held
      /\ result \in Nat /\ result # 0 /\ Size(result) \in Nat /\ Size(result) >= want
      /\ want \in Nat /\ want = call.n /\ call.n \in Nat /\ call.n \in Requests
      /\ Size(Old) < want
  BY <1>1, GotFacts
<1>4. /\ z \in LiveSlots /\ z \in Slots /\ Old \in Held /\ Old \in Ord /\ Old \notin Binned
      /\ Size(Old) \in Nat /\ Old \in Nat /\ Old # 0 /\ Old = block[z].at
  BY <1>1, <1>3, OldFacts DEF Old, LiveSlots
<1>5. block \in [Slots -> [at : Nat, n : Nat]] /\ data \in [Slots -> SUBSET Nat]
  BY <1>3 DEF LocalsTyped, DataSound
<1>6. /\ block' \in [Slots -> [at : Nat, n : Nat]]
      /\ block'[z].at = result /\ block'[z].n = block[z].n
      /\ \A t \in Slots \ {z} : block'[t] = block[t]
  BY <1>1, <1>3, <1>4, <1>5
<1>7. LiveSlots' = LiveSlots
  <2>1. block'[z] # Nothing /\ block[z] # Nothing
    BY <1>3, <1>4, <1>6 DEF Nothing, LiveSlots
  <2>2. \A t \in Slots : block'[t] # Nothing <=> block[t] # Nothing
    BY <2>1, <1>6
  <2> QED BY <2>2 DEF LiveSlots
<1>8. \A t, u \in LiveSlots : block[t].at = block[u].at => t = u
  BY <1>3 DEF Structure, PlacesSound
<1>9. Held' = (Held \ {Old}) \cup {result}
  <2>1. Held' = {block'[t].at : t \in LiveSlots}
    BY <1>7 DEF Held
  <2>2. \A t \in LiveSlots : block'[t].at = IF t = z THEN result ELSE block[t].at
    BY <1>6 DEF LiveSlots
  <2>3. \A x : x \in Held' <=> x \in (Held \ {Old}) \cup {result}
    BY <2>1, <2>2, <1>4, <1>8, SMTT(30) DEF Held
  <2> QED BY <2>3
<1>10. Old' = result /\ Old # result
  BY <1>1, <1>3, <1>4, <1>6 DEF Old
<1>11. InHand' = {Old}
  <2>1. result' \in Held' /\ pc' = "free" /\ p' = Old
    BY <1>1, <1>9
  <2> QED BY <2>1 DEF InHand
<1>12. Structure'
  <2>1. Held' \cup InHand' = Held \cup InHand /\ Held' \cap InHand' = {} /\ pc # "consolidate"
    BY <1>1, <1>3, <1>4, <1>9, <1>10, <1>11
  <2>2. \A t, u \in LiveSlots' : block'[t].at = block'[u].at => t = u
    <3>1. \A t \in LiveSlots : block[t].at # result
      BY <1>3 DEF Held
    <3>2. \A t \in LiveSlots : block'[t].at = IF t = z THEN result ELSE block[t].at
      BY <1>6 DEF LiveSlots
    <3> QED BY <1>7, <1>8, <3>1, <3>2
  <2> QED BY <2>1, <2>2, <1>1, <1>3, HandedOver
<1>13. LocalsTyped'
  BY <1>1, <1>3, <1>4, <1>6 DEF LocalsTyped, Releasing
<1>14. CallSound'
  <2>1. \A t \in LiveSlots' : block'[t].n \in Requests
    <3>1. \A t \in LiveSlots : block'[t].n = block[t].n
      BY <1>6 DEF LiveSlots
    <3> QED BY <3>1, <1>3, <1>7 DEF CallSound
  <2>2. Padded' = Padded /\ pc' # "idle" /\ pc # "idle"
    BY <1>1 DEF Padded
  <2> QED BY <2>1, <2>2, <1>1, <1>3, <1>7 DEF CallSound
<1>15. Size(result)' = Size(result) /\ Size(Old') = Size(result)
  BY <1>1, <1>10 DEF Size
<1>16. WhereSound'
  <2>1. ~Allocating' /\ ~Tailing' /\ pc' # "got" /\ pc' # "realloc"
    BY <1>1 DEF Allocating, Tailing, Releasing, Merging, Searching
  <2>2. p' # result' /\ p' # 0 /\ p' \notin Held'
    BY <1>1, <1>4, <1>9, <1>10
  <2>3. result' = Old' /\ call'.op = "realloc" /\ call' = call
    BY <1>1, <1>10
  <2>4. Size(result)' >= call.n
    <3>1. Size(result) >= call.n
      BY ONLY <1>3
    <3> QED BY <3>1, <1>15
  <2> QED BY <2>1, <2>2, <2>3, <2>4 DEF WhereSound
<1>17. SearchSound'
  BY <1>1 DEF SearchSound, Merging
<1>18. FinishSound'
  BY <1>1 DEF FinishSound
<1>19. CountSound'
  BY <1>1, <1>3 DEF CountSound
<1>20. ClearSound'
  BY <1>1 DEF ClearSound
<1>21. \A t \in LiveSlots : /\ Kept(t)' = Kept(t) /\ Kept(t) \in Nat /\ Size(block[t].at) \in Nat
                            /\ Size(block[t].at) >= Kept(t) /\ OwnWords(t) \subseteq data[t] /\ t \in Slots
  <2>1. ASSUME NEW t \in LiveSlots PROVE Kept(t)' = Kept(t)
    <3>1. block'[t].n = block[t].n
      BY <1>6 DEF LiveSlots
    <3> QED BY <3>1, <1>1 DEF Kept
  <2> QED BY <2>1, <1>3, BlockFacts DEF DataSound, ContentsKept
<1>22. Kept(z) <= call.n /\ Kept(z) <= Size(Old) /\ Kept(z) \in Nat
  <2>1. Kept(z) \in Nat /\ Size(Old) >= Kept(z)
    BY <1>4, <1>21
  <2>2. Kept(z) <= Size(Old)
    BY ONLY <2>1, <1>4
  <2> QED BY ONLY <2>1, <2>2, <1>3, <1>4
<1>23. /\ Moved(Old, result, Size(Old), data[z]) \subseteq Nat
       /\ UserWords(result, Kept(z)) \subseteq Moved(Old, result, Size(Old), data[z])
  <2>1. data[z] \subseteq Nat /\ UserWords(Old, Kept(z)) \subseteq data[z]
    BY <1>4, <1>5, <1>21 DEF OwnWords
  <2> QED BY ONLY <2>1, <1>3, <1>4, <1>22, MovedIs
<1>24. data' \in [Slots -> SUBSET Nat]
  BY <1>2, <1>4, <1>5, <1>23
<1>25. ASSUME NEW t \in LiveSlots
       PROVE  (OwnWords(t))' \subseteq data'[t] /\ (Size(block[t].at) >= Kept(t))'
  <2>1. CASE t = z
    <3>1. (OwnWords(t))' = UserWords(result, Kept(z))
      BY <2>1, <1>6, <1>21 DEF OwnWords, UserWords
    <3>2. data'[t] = Moved(Old, result, Size(Old), data[z])
      BY <2>1, <1>2, <1>4
    <3>3. Size(block[t].at)' = Size(result)
      BY <2>1, <1>1, <1>6 DEF Size
    <3>4. Size(result) >= Kept(z)
      BY ONLY <1>3, <1>22
    <3> QED BY <2>1, <3>1, <3>2, <3>3, <3>4, <1>21, <1>23
  <2>2. CASE t # z
    <3>1. block'[t] = block[t] /\ data'[t] = data[t] \ UserWords(result, Size(Old))
      BY <2>2, <1>2, <1>6, <1>21
    <3>2. (OwnWords(t))' = OwnWords(t) /\ Size(block[t].at)' = Size(block[t].at)
      BY <3>1, <1>1, <1>21 DEF OwnWords, UserWords, Size
    <3>3. result # block[t].at
      BY <1>3 DEF Held
    <3>4. OwnWords(t) \cap UserWords(result, Size(result)) = {}
      BY <3>3, <1>3, OthersWords
    <3>5. Size(Old) <= Size(result)
      BY ONLY <1>3, <1>4
    <3>6. UserWords(result, Size(Old)) \subseteq UserWords(result, Size(result))
      BY <3>5, <1>3, <1>4, WordsInHeap
    <3> QED BY <3>1, <3>2, <3>4, <3>6, <1>21
  <2> QED BY <2>1, <2>2
<1>26. DataSound'
  <2>1. fresh' \subseteq Nat
    BY <1>1, <1>3 DEF DataSound
  <2> QED BY <2>1, <1>7, <1>20, <1>24, <1>25 DEF DataSound, ContentsKept
<1> QED BY <1>12, <1>13, <1>14, <1>16, <1>17, <1>18, <1>19, <1>26, PartsNext

\* No slot is 0, which stands for no call.
LEMMA SlotsArePositive ==
  \A s \in Slots : s \in Nat /\ s # 0
<1>1. Slots = 1..Cardinality(Slots)
  BY HeapAssumption DEF HeapAssumption
<1>2. \A g \in 1..Cardinality(Slots) : g \in Nat /\ g >= 1
  OBVIOUS
<1>3. \A g \in Slots : g \in Nat /\ g >= 1
  BY <1>1, <1>2
<1> QED BY <1>3

\* What a call that is over gives the program.
LEMMA FinishedFacts ==
  ASSUME HeapInductive, Finished
  PROVE  /\ Structure /\ LocalsTyped /\ CallSound /\ DataSound
         /\ pc \in {"return", "got"} /\ call.slot \in Slots
         /\ call.op = "free" => InHand = {} /\ call.slot \notin LiveSlots
         /\ call.op # "free" =>
              /\ result \in Ord /\ result \notin Binned /\ result \in Nat /\ result # 0
              /\ call.n \in Nat /\ call.n \in Requests
              /\ Size(result) \in Nat /\ Size(result) >= call.n
              /\ call.op = "realloc" <=> call.slot \in LiveSlots
              /\ IF call.slot \in LiveSlots THEN result = block[call.slot].at /\ InHand = {}
                 ELSE result \notin Held /\ InHand = {result}
              /\ call.op = "calloc" => pc = "got"
<1>1. /\ Structure /\ LocalsTyped /\ CallSound /\ WhereSound /\ DataSound /\ CountSound
  BY Parts
<1>2. pc \in {"return", "got"} /\ pc # "idle" /\ pc # "free"
  BY DEF Finished
<1>3. /\ call.slot \in Slots /\ ((call.op = "realloc") = (call.slot \in LiveSlots))
      /\ call.op # "free" => call.n \in Requests
  BY <1>1, <1>2 DEF CallSound
<1>4. CASE pc = "got"
  <2>1. call.op \in {"malloc", "calloc"}
    BY <1>4 DEF Finished
  <2>2. /\ InHand = {result} /\ result \in Ord /\ result \notin Binned /\ result \notin Held
        /\ result \in Nat /\ result # 0 /\ Size(result) \in Nat /\ Size(result) >= want
        /\ want \in Nat /\ want >= call.n /\ call.n \in Nat /\ call.n \in Requests
    BY <1>4, GotFacts
  <2>3. Size(result) >= call.n
    BY ONLY <2>2
  <2> QED BY <1>1, <1>2, <1>3, <1>4, <2>1, <2>2, <2>3
<1>5. CASE pc = "return"
  <2>1. IF call.op = "free" THEN result = 0
        ELSE /\ call.op \in {"realloc", "memalign"}
             /\ call.op = "realloc" => result = Old
             /\ call.op = "memalign" => result \notin Held /\ result # 0
             /\ Size(result) >= call.n
    BY <1>1, <1>5 DEF WhereSound, Returning
  <2>2. CASE call.op = "free"
    <3>1. InHand = {}
      BY <2>1, <2>2, <1>2, InHandIs
    <3> QED BY <3>1, <2>2, <1>1, <1>2, <1>3
  <2>3. CASE call.op = "realloc"
    <3>1. /\ call.slot \in LiveSlots /\ Old \in Held /\ Old \in Ord /\ Old \notin Binned
          /\ Size(Old) \in Nat /\ Old \in Nat /\ Old # 0 /\ Old = block[call.slot].at
      BY <1>1, <1>2, <2>3, OldFacts DEF Old
    <3>2. result = Old /\ Size(result) >= call.n
      BY <2>1, <2>3
    <3>3. InHand = {}
      BY <1>2, <3>1, <3>2, InHandIs
    <3>4. call.n \in Nat /\ call.n \in Requests
      BY <1>1, <1>2, <2>3, WantFacts
    <3> QED BY <3>1, <3>2, <3>3, <3>4, <2>3, <1>1, <1>2, <1>3
  <2>4. CASE call.op = "memalign"
    <3>1. result \notin Held /\ result # 0 /\ Size(result) >= call.n
      BY <2>1, <2>4
    <3>2. InHand = {result}
      BY <1>2, <3>1, InHandIs
    <3>3. result \in Ord /\ result \notin Binned
      BY <1>1, <3>2, ChunkFacts DEF Parted
    <3>4. result \in Nat /\ Size(result) \in Nat
      BY <1>1, <3>3, ChunkFacts
    <3>5. call.n \in Nat /\ call.n \in Requests
      BY <1>1, <1>2, <2>4, WantFacts
    <3>6. call.slot \notin LiveSlots
      BY <1>3, <2>4
    <3> QED BY <3>1, <3>2, <3>3, <3>4, <3>5, <3>6, <2>4, <1>1, <1>2, <1>3
  <2> QED BY <2>1, <2>2, <2>3, <2>4
<1> QED BY <1>2, <1>4, <1>5

\* What is written when a block is given out is inside its chunk, and all of
\* the block that the program may count on is there.
LEMMA HoldsIs ==
  ASSUME HeapInductive, Finished, call.op # "free"
  PROVE  /\ Holds \subseteq Nat /\ UserWords(result, call.n) \subseteq Holds
         /\ UserWords(result, call.n) \subseteq UserWords(result, Size(result))
         /\ call.op = "calloc" => Cleared \subseteq UserWords(result, Size(result))
<1> DEFINE words == UserWords(result, call.n)
           all   == UserWords(result, Size(result))
<1>1. /\ Structure /\ LocalsTyped /\ CallSound /\ DataSound
      /\ result \in Ord /\ result \notin Binned /\ result \in Nat /\ result # 0
      /\ call.n \in Nat /\ Size(result) \in Nat /\ Size(result) >= call.n
      /\ call.op = "realloc" => call.slot \in LiveSlots /\ result = block[call.slot].at
      /\ call.op = "calloc" => pc = "got"
  BY FinishedFacts
<1>2. call.oldTop \in Nat /\ call.oldTopSize \in Nat
  BY <1>1 DEF CallSound
<1>3. words \subseteq all /\ words \subseteq Nat
  <2>1. call.n <= Size(result)
    BY ONLY <1>1
  <2> QED BY <2>1, <1>1, WordsInHeap
<1>4. all \subseteq Words(HeapOf(result))
  <2>1. Size(result) <= Size(result)
    BY ONLY <1>1
  <2> QED BY <2>1, <1>1, WordsInHeap
<1>5. Cleared \subseteq all
  <2>1. CASE result = call.oldTop /\ Size(result) > call.oldTopSize
    <3>1. Cleared = UserWords(result, call.oldTopSize)
      BY <2>1 DEF Cleared
    <3>2. call.oldTopSize <= Size(result)
      BY ONLY <2>1, <1>1, <1>2
    <3> QED BY <3>1, <3>2, <1>1, <1>2, WordsInHeap
  <2>2. CASE ~(result = call.oldTop /\ Size(result) > call.oldTopSize)
    BY <2>2 DEF Cleared
  <2> QED BY <2>1, <2>2
<1>6. CASE call.op = "calloc"
  <2>1. Holds = words \cap (Cleared \cup fresh)
    BY <1>6 DEF Holds
  <2>2. BeyondTop \cap all \subseteq fresh
    BY <1>1, <1>6 DEF DataSound, ClearSound
  <2>3. ASSUME NEW w \in words, w \notin Cleared PROVE w \in fresh
    <3>1. result = call.oldTop /\ Size(result) > call.oldTopSize
      BY <2>3, <1>3 DEF Cleared
    <3>2. w \notin UserWords(result, call.oldTopSize) /\ w \in all
      BY <2>3, <3>1, <1>3 DEF Cleared
    <3>3. w > 2 * (call.oldTop + call.oldTopSize)
      BY ONLY <3>1, <3>2, <1>1, <1>2 DEF UserWords
    <3>4. w \in Words(HeapOf(call.oldTop))
      BY <3>1, <3>2, <1>4
    <3> QED BY <3>2, <3>3, <3>4, <2>2 DEF BeyondTop
  <2> QED BY <2>1, <2>3, <1>3, <1>5
<1>7. CASE call.op = "realloc"
  <2> DEFINE own == UserWords(result, block[call.slot].n)
  <2>1. Holds = words \cap (data[call.slot] \cup (words \ own))
    BY <1>7 DEF Holds
  <2>2. /\ call.slot \in LiveSlots /\ result = block[call.slot].at
        /\ block[call.slot].n \in Nat
    BY <1>1, <1>7, BlockFacts
  <2>3. OwnWords(call.slot) \subseteq data[call.slot]
    BY <2>2, <1>1 DEF DataSound, ContentsKept
  <2>4. words \cap own \subseteq OwnWords(call.slot)
    <3>1. OwnWords(call.slot) = UserWords(result, IF call.n < block[call.slot].n THEN call.n ELSE block[call.slot].n)
      BY <2>2 DEF OwnWords, Kept
    <3> QED BY <3>1
  <2> QED BY <2>1, <2>3, <2>4, <1>3, <1>7
<1>8. CASE call.op \notin {"calloc", "realloc"}
  <2>1. Holds = words
    BY <1>8 DEF Holds
  <2> QED BY <2>1, <1>3, <1>8
<1> QED BY <1>3, <1>5, <1>6, <1>7, <1>8

\* A call returns.
LEMMA ReturnKept ==
  ASSUME HeapInductive, Return
  PROVE  HeapInductive'
<1> DEFINE z == call.slot
<1>1. /\ Structure /\ LocalsTyped /\ CallSound /\ DataSound
      /\ pc \in {"return", "got"} /\ z \in Slots /\ Finished /\ Over
  BY FinishedFacts DEF Return
<1>2. /\ UNCHANGED <<head, fast, haveFast, bins, marked, top, heapSize, chain>>
      /\ call' = NoCall /\ result' = 0 /\ pc' = "idle"
  BY <1>1 DEF Over, lists, heaps
<1>3. InHand' = {}
  BY <1>2 DEF InHand
<1>4. block \in [Slots -> [at : Nat, n : Nat]] /\ data \in [Slots -> SUBSET Nat]
  BY <1>1 DEF LocalsTyped, DataSound
<1>5. \A t, u \in LiveSlots : block[t].at = block[u].at => t = u
  BY <1>1 DEF Structure, PlacesSound
<1>6. ASSUME NEW t \in LiveSlots
      PROVE  /\ t \in Slots /\ block[t].n \in Nat /\ block[t].n \in Requests
             /\ t # z => Kept(t) = block[t].n
             /\ Size(block[t].at) >= Kept(t) /\ OwnWords(t) \subseteq data[t] /\ block[t].at \in Held
  BY <1>1, BlockFacts DEF CallSound, DataSound, ContentsKept, Kept
<1>7. \A t \in Slots : Kept(t)' = block'[t].n
  BY <1>2, SlotsArePositive DEF Kept, NoCall
<1>8. CASE call.op = "free"
  <2>1. UNCHANGED <<block, data>>
    BY <1>8 DEF Return
  <2>2. InHand = {} /\ z \notin LiveSlots
    BY <1>1, <1>8, FinishedFacts
  <2>3. Held' = Held /\ LiveSlots' = LiveSlots
    BY <2>1, SameHeld
  <2>4. Structure'
    BY <1>1, <1>2, <1>3, <1>5, <2>1, <2>2, <2>3, HandedOver
  <2>5. \A t \in LiveSlots : Kept(t)' = Kept(t) /\ Kept(t) \in Nat
    BY <1>6, <1>7, <2>1, <2>2
  <2>6. \A t \in LiveSlots' : block'[t] = block[t] /\ data'[t] = data[t] /\ Kept(t)' \in Nat /\ Kept(t)' <= Kept(t)
    BY <2>1, <2>3, <2>5
  <2>7. ContentsKept' /\ \A s \in LiveSlots' : (Size(block[s].at) >= Kept(s))'
    BY <1>2, <2>3, <2>6, BlocksAsBefore
  <2>8. /\ block' \in [Slots -> [at : Nat, n : Nat]] /\ data' \in [Slots -> SUBSET Nat]
        /\ \A s \in LiveSlots' : block'[s].n \in Requests
    BY <2>1, <2>3, <1>4, <1>6
  <2>9. pc \in {"return", "got", "fail"}
    BY <1>1
  <2> QED BY <1>1, <2>4, <2>7, <2>8, <2>9, Ended
<1>9. CASE call.op # "free"
  <2>1. /\ result \in Ord /\ result \notin Binned /\ result \in Nat /\ result # 0
        /\ call.n \in Nat /\ call.n \in Requests
        /\ Size(result) \in Nat /\ Size(result) >= call.n
        /\ IF z \in LiveSlots THEN result = block[z].at /\ InHand = {}
           ELSE result \notin Held /\ InHand = {result}
    BY <1>1, <1>9, FinishedFacts
  <2>2. /\ Holds \subseteq Nat /\ UserWords(result, call.n) \subseteq Holds
        /\ UserWords(result, call.n) \subseteq UserWords(result, Size(result))
        /\ call.op = "calloc" => Cleared \subseteq UserWords(result, Size(result))
    BY <1>1, <1>9, HoldsIs
  <2> DEFINE gone == UserWords(result, call.n) \cup IF call.op = "calloc" THEN Cleared ELSE {}
  <2>3. /\ block' = [block EXCEPT ![z] = [at |-> result, n |-> call.n]]
        /\ data' = [s \in Slots |-> IF s = z THEN Holds ELSE data[s] \ gone]
    BY <1>9 DEF Return
  <2>4. gone \subseteq UserWords(result, Size(result))
    BY <2>2
  <2> HIDE DEF gone
  <2>5. /\ block' \in [Slots -> [at : Nat, n : Nat]] /\ data' \in [Slots -> SUBSET Nat]
        /\ block'[z].at = result /\ block'[z].n = call.n /\ block'[z] # Nothing /\ data'[z] = Holds
        /\ \A t \in Slots \ {z} : block'[t] = block[t] /\ data'[t] = data[t] \ gone
    BY <1>1, <1>4, <2>1, <2>2, <2>3 DEF Nothing
  <2>6. LiveSlots' = LiveSlots \cup {z}
    BY <1>1, <2>5 DEF LiveSlots
  <2>7. \A t \in LiveSlots \ {z} : block[t].at # result
    BY <1>5, <1>6, <2>1
  <2>8. Held' = Held \cup {result}
    <3>1. \A t \in LiveSlots' : block'[t].at = IF t = z THEN result ELSE block[t].at
      BY <2>5, <2>6 DEF LiveSlots
    <3>2. \A x : x \in Held' <=> x \in Held \cup {result}
      <4>1. \A x : x \in Held' <=> \E t \in LiveSlots' : x = block'[t].at
        BY DEF Held
      <4>2. \A x : x \in Held <=> \E t \in LiveSlots : x = block[t].at
        BY DEF Held
      <4> QED BY <4>1, <4>2, <3>1, <2>1, <2>6
    <3> QED BY <3>2
  <2>9. Structure'
    <3>1. Held' \cup InHand' = Held \cup InHand /\ Held' \cap InHand' = {} /\ pc # "consolidate"
      BY <1>1, <1>3, <1>6, <2>1, <2>8
    <3>2. \A t, u \in LiveSlots' : block'[t].at = block'[u].at => t = u
      <4>1. \A t \in LiveSlots' : block'[t].at = IF t = z THEN result ELSE block[t].at
        BY <2>5, <2>6 DEF LiveSlots
      <4> QED BY <4>1, <2>6, <2>7, <1>5
    <3> QED BY <3>1, <3>2, <1>1, <1>2, HandedOver
  <2>10. \A t \in LiveSlots' : block'[t].n \in Requests
    BY <1>6, <2>1, <2>5, <2>6
  <2>11. ASSUME NEW t \in LiveSlots'
         PROVE  (OwnWords(t))' \subseteq data'[t] /\ (Size(block[t].at) >= Kept(t))'
    <3>1. t \in Slots /\ Kept(t)' = block'[t].n
      BY <1>7, <2>6, <1>1, <1>6
    <3>2. CASE t = z
      <4>1. (OwnWords(t))' = UserWords(result, call.n)
        BY <3>1, <3>2, <2>5 DEF OwnWords, UserWords
      <4>2. Size(block[t].at)' = Size(result) /\ Kept(t)' = call.n
        BY <3>1, <3>2, <1>2, <2>5 DEF Size
      <4> QED BY <4>1, <4>2, <3>2, <2>1, <2>2, <2>5
    <3>3. CASE t # z
      <4>1. t \in LiveSlots /\ block'[t] = block[t] /\ data'[t] = data[t] \ gone
        BY <3>1, <3>3, <2>5, <2>6
      <4>2. /\ Kept(t) = block[t].n /\ Kept(t)' = block[t].n
            /\ Size(block[t].at) >= Kept(t) /\ OwnWords(t) \subseteq data[t]
        BY <4>1, <3>1, <3>3, <1>6
      <4>3. (OwnWords(t))' = OwnWords(t) /\ Size(block[t].at)' = Size(block[t].at)
        BY <4>1, <4>2, <1>2 DEF OwnWords, UserWords, Size
      <4>4. OwnWords(t) \cap UserWords(result, Size(result)) = {}
        BY <4>1, <3>3, <1>1, <2>1, <2>7, OthersWords
      <4> QED BY <4>1, <4>2, <4>3, <4>4, <2>4
    <3> QED BY <3>2, <3>3
  <2>12. ContentsKept'
    BY <2>11 DEF ContentsKept
  <2>13. pc \in {"return", "got", "fail"}
    BY <1>1
  <2> QED BY <1>1, <2>5, <2>9, <2>10, <2>11, <2>12, <2>13, Ended
<1> QED BY <1>8, <1>9

\* The memory of a new arena: one heap, all of it top chunk.
LEMMA FirstMemory ==
  ASSUME NEW hs \in [Heaps -> 0..HeapMax], \A g \in Heaps : InPages(hs[g]), NEW t,
         t = Base(1) + HeapInfo + ArenaState, NEW h, DOMAIN h = {t}, h = [x \in {t} |-> h[x]],        h[t] = [size |-> (Base(1) + hs[1]) - t, pinuse |-> TRUE, nonMain |-> FALSE, prev |-> 0],
         hs[1] >= HeapInfo + ArenaState + MinSize
  PROVE  MemorySound(h, t, hs, <<1>>, {}) /\ OrdinaryOf(h, t, EndTags(hs, <<1>>)) = {}
<1> DEFINE ch == <<1>>
<1>1. /\ 1 \in Heaps /\ HeapInfo \in Nat /\ ArenaState \in Nat /\ MinSize \in Nat /\ HeapMax \in Nat /\ HeapInfo > 0
      /\ MinSize > 1
  BY Constants, HeapAssumption DEF HeapAssumption
<1>2. hs[1] \in Nat /\ hs[1] <= HeapMax /\ Base(1) \in Nat
  BY <1>1, BaseIsNat
<1>3. /\ t \in Nat /\ Base(1) <= t /\ t < Base(1) + HeapMax
      /\ (Base(1) + hs[1]) - t \in Nat /\ (Base(1) + hs[1]) - t >= MinSize
      /\ t + ((Base(1) + hs[1]) - t) = Base(1) + hs[1] /\ t < Base(1) + hs[1]
  <2> DEFINE b == Base(1)
             m == hs[1]
  <2> HIDE DEF b, m
  <2>1. /\ t = b + HeapInfo + ArenaState /\ b \in Nat /\ m \in Nat /\ m <= HeapMax
        /\ m >= HeapInfo + ArenaState + MinSize
    BY <1>2 DEF b, m
  <2>2. /\ t \in Nat /\ b <= t /\ t < b + HeapMax
        /\ (b + m) - t \in Nat /\ (b + m) - t >= MinSize
        /\ t + ((b + m) - t) = b + m /\ t < b + m
    BY ONLY <2>1, <1>1
  <2> QED BY <2>2 DEF b, m
<1>4. HeapOf(t) = 1
  BY <1>2, <1>3, HeapIs
<1>5. ch \in Seq(Heaps) /\ ch # <<>> /\ Len(ch) = 1 /\ ch[1] = 1 /\ Range(ch) = {1} /\ ch[Len(ch)] = 1 /\ IsInjective(ch)
  <2>1. ch \in Seq(Heaps) /\ ch # <<>> /\ Len(ch) = 1 /\ ch[1] = 1 /\ DOMAIN ch = {1}
    BY <1>1
  <2>2. Range(ch) = {1}
    BY <2>1 DEF Range
  <2>3. IsInjective(ch)
    BY <2>1 DEF IsInjective
  <2> QED BY <2>1, <2>2, <2>3
<1> HIDE DEF ch
<1>6. EndTags(hs, ch) = {}
  BY <1>5 DEF EndTags
<1>7. FirstOf(1, ch) = t /\ EndOf(1, hs) = Base(1) + hs[1]
  BY <1>5 DEF FirstOf, EndOf
<1>8. /\ h[t].size = (Base(1) + hs[1]) - t /\ h[t].pinuse /\ h[t].prev = 0 /\ h[t].nonMain = FALSE
      /\ Behind(h, t) = EndOf(1, hs)
  BY <1>3, <1>7 DEF Behind
<1>9. HeapsSound(hs, ch)
  <2>1. hs[1] > 0
    BY ONLY <1>1, <1>2, hs[1] >= HeapInfo + ArenaState + MinSize
  <2>2. Range(ch) \ {ch[Len(ch)]} = {}
    BY <1>5
  <2> QED BY <2>1, <2>2, <1>5 DEF HeapsSound
<1>10. OrdinaryOf(h, t, {}) = {}
  BY DEF OrdinaryOf
<1>11. Typed(h)
  <2>1. h[t] \in Tag
    <3> DEFINE q == (Base(1) + hs[1]) - t
    <3>1. q \in Nat
      BY <1>3
    <3> HIDE DEF q
    <3>2. [size |-> q, pinuse |-> TRUE, nonMain |-> FALSE, prev |-> 0] \in Tag
      BY <3>1 DEF Tag
    <3> QED BY <3>2 DEF q
  <2>2. h \in [{t} -> Tag]
    <3>1. h = [x \in {t} |-> h[x]]
      OBVIOUS
    <3> QED BY <2>1, <3>1
  <2> QED BY <2>2, <1>3 DEF Typed
<1>12. Tiled(h, t, hs, ch)
  <2>1. t \in DOMAIN h /\ t \notin EndTags(hs, ch) /\ h[t].size >= MinSize /\ h[t].size > 0
    BY <1>1, <1>3, <1>6, <1>8
  <2>2. HeapOf(t) = ch[Len(ch)] /\ Behind(h, t) = EndOf(ch[Len(ch)], hs)
    BY <1>4, <1>5, <1>8
  <2>3. \A g \in Range(ch) : FirstOf(g, ch) \in DOMAIN h /\ HeapOf(FirstOf(g, ch)) = g
    BY <1>4, <1>5, <1>7
  <2>4. \A a \in DOMAIN h : HeapOf(a) \in Range(ch) /\ FirstOf(HeapOf(a), ch) <= a /\ a < EndOf(HeapOf(a), hs)
    BY <1>3, <1>4, <1>5, <1>7
  <2>5. \A a \in DOMAIN h : \A b \in DOMAIN h : b <= a
    BY <1>3
  <2> QED BY <2>1, <2>2, <2>3, <2>4, <2>5, <1>6 DEF Tiled
<1>13. FootersSound(h, t, EndTags(hs, ch), {})
  BY <1>6, <1>8 DEF FootersSound
<1>14. FlagsSound(h, t, EndTags(hs, ch), {})
  BY <1>6, <1>10 DEF FlagsSound
<1> QED BY <1>6, <1>9, <1>10, <1>11, <1>12, <1>13, <1>14 DEF MemorySound, ch

\* A sum of one term.
LEMMA SumOfOne ==
  ASSUME NEW f, NEW e, f[e] \in Int
  PROVE  SumFunctionOnSet(f, {e}) = f[e]
<1>1. IsFiniteSet({e}) /\ IsFiniteSet({})
  BY FS_Singleton, FS_EmptySet
<1>2. PICK it : IsSumOn(it, f, {e}) /\ SumFunctionOnSet(f, {e}) = it[{e}]
  BY <1>1, SumOnExists
<1>3. it[{}] = 0
  BY <1>2 DEF IsSumOn
<1>4. it[{e}] = LET x == CHOOSE y \in {e} : TRUE IN f[x] + it[{e} \ {x}]
  <2>1. {e} # {} /\ {e} \in SUBSET {e}
    OBVIOUS
  <2> QED BY <1>2, <2>1 DEF IsSumOn
<1>5. (CHOOSE y \in {e} : TRUE) = e /\ {e} \ {e} = {}
  OBVIOUS
<1>6. it[{e}] = f[e] + it[{}]
  BY <1>4, <1>5
<1> QED BY <1>2, <1>3, <1>6

\* A new arena satisfies the invariant.
LEMMA InitHolds == HeapInit => HeapInductive
<1> SUFFICES ASSUME HeapInit PROVE HeapInductive
  OBVIOUS
<1>1. PICK n \in Requests :
        heapSize = [h \in Heaps |-> IF h = 1 THEN NewHeapSize(n + HeapInfo + ArenaState + 1) ELSE 0]
  BY DEF HeapInit
<1>2. /\ chain = <<1>> /\ systemMem = heapSize[1]
      /\ top = Base(1) + HeapInfo + ArenaState
      /\ head = [a \in {top} |-> [size |-> HeapEnd(1) - top, pinuse |-> TRUE, nonMain |-> FALSE, prev |-> 0]]
      /\ fast = [k \in MinSize..MaxFast |-> <<>>] /\ haveFast = FALSE
      /\ bins = [i \in BinIds |-> <<>>] /\ marked = {} /\ lastRemainder = 0
      /\ block = [s \in Slots |-> Nothing] /\ data = [s \in Slots |-> {}]
      /\ fresh = {} /\ calls = 0 /\ refused = FALSE /\ call = NoCall
      /\ pc = "idle" /\ want = 0 /\ idx = 0 /\ p = 0 /\ result = 0
      /\ after = "return" /\ resume = "unsorted"
  BY DEF HeapInit
<1>3. /\ 1 \in Heaps /\ n \in Nat /\ n >= MinSize /\ n + HeapInfo + ArenaState + MinSize <= HeapMax
      /\ HeapInfo \in Nat /\ ArenaState \in Nat /\ MinSize \in Nat /\ MinSize > 1 /\ HeapMax \in Nat
  BY Constants, HeapAssumption DEF HeapAssumption
<1> DEFINE k == n + HeapInfo + ArenaState + 1
<1>4. k \in Nat /\ k > 0 /\ k <= HeapMax /\ k >= HeapInfo + ArenaState + MinSize
  BY ONLY <1>3
<1> HIDE DEF k
<1>5. NewHeapSize(k) \in 1..HeapMax /\ InPages(NewHeapSize(k)) /\ NewHeapSize(k) >= k
  BY <1>4, NewHeapSizeIs DEF HeapFits
<1>6. heapSize = [h \in Heaps |-> IF h = 1 THEN NewHeapSize(k) ELSE 0]
  BY <1>1 DEF k
<1>7. InPages(0)
  <2>1. Page \in Nat /\ Page > 0
    BY Constants
  <2> QED BY ONLY <2>1, SMT DEF InPages
<1>8. /\ heapSize \in [Heaps -> 0..HeapMax] /\ heapSize[1] = NewHeapSize(k) /\ heapSize[1] \in Nat
      /\ \A g \in Heaps : InPages(heapSize[g])
  <2>1. \A g \in Heaps : (IF g = 1 THEN NewHeapSize(k) ELSE 0) \in 0..HeapMax
    BY ONLY <1>3, <1>5
  <2> QED BY <2>1, <1>3, <1>5, <1>6, <1>7
<1>9. heapSize[1] >= HeapInfo + ArenaState + MinSize
  BY ONLY <1>3, <1>4, <1>5, <1>8
<1>10. /\ DOMAIN head = {top} /\ head = [x \in {top} |-> head[x]]
       /\ head[top] = [size |-> (Base(1) + heapSize[1]) - top, pinuse |-> TRUE, nonMain |-> FALSE, prev |-> 0]
  BY <1>2 DEF HeapEnd
<1>11. MemorySound(head, top, heapSize, <<1>>, {}) /\ OrdinaryOf(head, top, EndTags(heapSize, <<1>>)) = {}
  BY ONLY <1>2, <1>8, <1>9, <1>10, FirstMemory
<1>12. \A i \in BinIds : bins[i] = <<>> /\ Range(bins[i]) = {}
  BY <1>2 DEF Range
<1>13. \A m \in DOMAIN fast : fast[m] = <<>> /\ Range(fast[m]) = {}
  BY <1>2 DEF Range
<1>14. Binned = {} /\ Fasted = {}
  BY <1>12, <1>13 DEF Binned, Fasted
<1>15. LiveSlots = {}
  BY <1>2 DEF LiveSlots
<1>16. Held = {} /\ InHand = {}
  BY <1>2, <1>15 DEF Held, InHand
<1>17. BinsSound
  <2>1. bins \in [BinIds -> Seq(Nat)] /\ marked \subseteq BinIds
    BY <1>2
  <2>2. \A i \in BinIds : IsInjective(bins[i]) /\ Falling(bins[i], head)
    BY <1>12 DEF IsInjective, Falling
  <2> QED BY <2>1, <2>2, <1>12 DEF BinsSound, ListsSound
<1>18. FastSound
  <2>1. fast \in [MinSize..MaxFast -> Seq(Nat)]
    BY <1>2
  <2>2. \A m \in DOMAIN fast : IsInjective(fast[m])
    BY <1>13 DEF IsInjective
  <2> QED BY <2>1, <2>2, <1>13 DEF FastSound
<1>19. PlacesSound
  BY <1>2, <1>11, <1>14, <1>15, <1>16 DEF PlacesSound, Parted
<1>20. LocalsTyped
  <2>1. block \in [Slots -> [at : Nat, n : Nat]]
    BY <1>2 DEF Nothing
  <2> QED BY <2>1, <1>2 DEF LocalsTyped
<1>21. /\ call.op = "none" /\ call.n = 0 /\ call.align = 0 /\ call.oldTop = 0 /\ call.oldTopSize = 0
  BY <1>2 DEF NoCall
<1>22. CallSound
  BY <1>2, <1>15, <1>21 DEF CallSound, Ops
<1>23. WhereSound /\ SearchSound /\ FinishSound
  BY <1>2 DEF WhereSound, SearchSound, FinishSound, Allocating, Tailing, Returning, Releasing, Merging, Searching
<1>24. DataSound
  <2>1. data \in [Slots -> SUBSET Nat] /\ fresh \subseteq Nat
    BY <1>2
  <2>2. ClearSound
    BY <1>21 DEF ClearSound
  <2> QED BY <2>1, <2>2, <1>15 DEF DataSound, ContentsKept
<1>25. CountSound
  <2>1. Range(chain) = {1}
    BY <1>2 DEF Range
  <2>2. heapSize[1] \in Int
    BY <1>8
  <2>3. SumFunctionOnSet(heapSize, {1}) = heapSize[1]
    BY ONLY <2>2, SumOfOne
  <2> QED BY <2>1, <2>3, <1>2, <1>8 DEF CountSound
<1> QED BY <1>2, <1>11, <1>14, <1>17, <1>18, <1>19, <1>20, <1>22, <1>23, <1>24, <1>25 DEF HeapInductive

\* Nothing changes.
LEMMA StutterKept ==
  ASSUME HeapInductive, UNCHANGED vars
  PROVE  HeapInductive'
<1>1. UNCHANGED <<head, fast, haveFast, bins, marked, lastRemainder, top, heapSize, chain, systemMem,
                  block, calls, refused, call, data, fresh, pc, want, idx, p, result, after, resume>>
  BY DEF vars, lists, heaps, program, memory, locals
<1>2. /\ Structure /\ LocalsTyped /\ CallSound /\ WhereSound /\ SearchSound
      /\ FinishSound /\ DataSound /\ CountSound
  BY Parts
<1>3. Held' = Held /\ LiveSlots' = LiveSlots /\ Binned' = Binned /\ Fasted' = Fasted /\ InHand' = InHand
  BY <1>1 DEF Held, LiveSlots, Binned, Fasted, InHand
<1>4. Structure'
  BY <1>1, <1>2, <1>3 DEF Structure, Mem, BinsSound, FastSound, PlacesSound, Size
<1>5. Releasing' = Releasing /\ Merging' = Merging /\ Allocating' = Allocating /\ Tailing' = Tailing /\ Returning' = Returning
  BY <1>1 DEF Releasing, Merging, Allocating, Tailing, Returning
<1>6. Old' = Old /\ \A a : Size(a)' = Size(a) /\ NextChunk(a)' = NextChunk(a)
  BY <1>1 DEF Old, Size, NextChunk
<1>7. TopFits' = TopFits
  BY <1>1 DEF TopFits, Size
<1>8. LocalsTyped'
  BY <1>1, <1>2, <1>5 DEF LocalsTyped
<1>9. CallSound'
  BY <1>1, <1>2, <1>3 DEF CallSound, Padded
<1>10. WhereSound'
  BY <1>1, <1>2, <1>3, <1>5, <1>6 DEF WhereSound, Size
<1>11. SearchSound'
  BY <1>1, <1>2, <1>3, <1>5, <1>7 DEF SearchSound, Size
<1>12. JustMapped' = JustMapped
  BY <1>1 DEF JustMapped, TopFits, Size, NextChunk, Fence, Sentinel, HeapEnd, Previous, NoRoom, Ending
<1>13. FinishSound'
  BY <1>1, <1>2, <1>5, <1>7, <1>12 DEF FinishSound
<1>14. BeyondTop' = BeyondTop
  BY <1>1 DEF BeyondTop, Words, HeapEnd
<1>15. DataSound'
  BY <1>1, <1>2, <1>3, <1>14 DEF DataSound, ContentsKept, OwnWords, Kept, ClearSound, HeapEnd, Size
<1>16. CountSound'
  BY <1>1, <1>2 DEF CountSound
<1> QED BY <1>4, <1>8, <1>9, <1>10, <1>11, <1>13, <1>15, <1>16, PartsNext

\* Every step keeps the invariant.
LEMMA StepKept == HeapInductive /\ [HeapNext]_vars => HeapInductive'
<1> SUFFICES ASSUME HeapInductive, [HeapNext]_vars PROVE HeapInductive'
  OBVIOUS
<1>1. CASE Calls
  BY <1>1, CallsKept
<1>2. CASE Engine
  BY <1>2, AllocatesKept, ReleasesKept, ResizesKept DEF Engine
<1>3. CASE ReallocCopy
  BY <1>3, ReallocCopyKept
<1>4. CASE Return
  BY <1>4, ReturnKept
<1>5. CASE ReturnNull
  BY <1>5, ReturnNullKept
<1>6. CASE UNCHANGED vars
  BY <1>6, StutterKept
<1> QED BY <1>1, <1>2, <1>3, <1>4, <1>5, <1>6 DEF HeapNext, Work

\* The inductive invariant of the engine, types included, holds in every state
\* of every behaviour.
THEOREM HeapInvariantHolds == HeapSpec => []HeapInductive
BY InitHolds, StepKept, PTL DEF HeapSpec

-----------------------------------------------------------------------------
(* The properties.                                                         *)

\* The operators of the properties are those of the invariant.
LEMMA SameNames ==
  /\ Ends = EndTags(heapSize, chain) /\ Ordinary = Ord
  /\ \A g : FirstChunk(g) = FirstOf(g, chain) /\ HeapEnd(g) = EndOf(g, heapSize)
  /\ \A a : NextChunk(a) = Behind(head, a) /\ Size(a) = head[a].size
<1>1. Ends = EndTags(heapSize, chain)
  BY DEF Ends, EndTags, Current, HeapEnd, EndOf
<1>2. \A a : NextChunk(a) = Behind(head, a) /\ Size(a) = head[a].size
  BY DEF NextChunk, Behind, Size
<1>3. Ordinary = Ord
  BY <1>1, <1>2 DEF Ordinary, Fences, Ord, OrdinaryOf
<1>4. \A g : FirstChunk(g) = FirstOf(g, chain) /\ HeapEnd(g) = EndOf(g, heapSize)
  BY DEF FirstChunk, FirstOf, HeapEnd, EndOf
<1> QED BY <1>1, <1>2, <1>3, <1>4

\* The invariant implies that chunks tile the heaps.
LEMMA ShapeFollows == HeapInductive => HeapShape
<1> SUFFICES ASSUME HeapInductive PROVE HeapShape
  OBVIOUS
<1>1. Structure /\ LocalsTyped /\ CallSound /\ DataSound /\ CountSound
  BY Parts
<1>2. Typed(head) /\ HeapsSound(heapSize, chain) /\ Tiled(head, top, heapSize, chain)
  BY <1>1 DEF Structure, Mem, MemorySound
<1>3. HeapTypeOK
  <2>1. /\ DOMAIN head \subseteq Nat
        /\ head \in [DOMAIN head -> [size : Nat, pinuse : BOOLEAN, nonMain : BOOLEAN, prev : Nat]]
    BY <1>2 DEF Typed, Tag
  <2>2. fast \in [MinSize..MaxFast -> Seq(Nat)] /\ bins \in [BinIds -> Seq(Nat)] /\ marked \subseteq BinIds
    BY <1>1 DEF Structure, FastSound, BinsSound, ListsSound
  <2>3. top \in Nat
    BY <1>1, ChunkFacts
  <2>4. heapSize \in [Heaps -> 0..HeapMax] /\ chain \in Seq(Heaps) /\ systemMem \in Nat
    BY <1>1, <1>2 DEF HeapsSound, CountSound
  <2>5. data \in [Slots -> SUBSET Nat] /\ fresh \subseteq Nat
    BY <1>1 DEF DataSound
  <2>6. /\ block \in [Slots -> [at : Nat, n : Nat]]
        /\ lastRemainder \in Nat /\ haveFast \in BOOLEAN /\ calls \in Nat /\ refused \in BOOLEAN
        /\ want \in Nat /\ idx \in Nat /\ p \in Nat /\ result \in Nat
        /\ pc \in {"idle", "malloc", "unsorted", "fit", "scan", "top", "system", "finish", "got",
                   "free", "consolidate", "trim", "realloc", "tail", "return", "fail"}
        /\ after \in {"return", "finish", "tail"} /\ resume \in {"unsorted", "trim"}
    BY <1>1 DEF LocalsTyped
  <2>7. call.op \in Ops /\ call.n \in Nat /\ call.align \in Nat
    BY <1>1 DEF CallSound
  <2> QED BY <2>1, <2>2, <2>3, <2>4, <2>5, <2>6, <2>7 DEF HeapTypeOK
<1>4. ChunksTile
  <2>1. \A g \in Range(chain) : FirstChunk(g) \in DOMAIN head
    BY <1>2, SameNames DEF Tiled
  <2>2. HeapOf(top) = Current /\ NextChunk(top) = HeapEnd(Current)
    BY <1>2, SameNames DEF Tiled, Current
  <2>3. \A a \in DOMAIN head : HeapOf(a) \in Range(chain)
    BY <1>2 DEF Tiled
  <2>4. \A a \in DOMAIN head \ (Ends \cup {top}) :
          /\ Size(a) > 0 /\ NextChunk(a) \in DOMAIN head /\ HeapOf(NextChunk(a)) = HeapOf(a)
          /\ \A b \in DOMAIN head : b <= a \/ b >= NextChunk(a)
    BY <1>2, SameNames DEF Tiled
  <2>5. \A a \in Ends : a \in DOMAIN head /\ Size(a) = 0
    BY <1>2, SameNames DEF Tiled
  <2>6. systemMem = SumFunctionOnSet(heapSize, Range(chain))
    BY <1>1 DEF CountSound
  <2> QED BY <2>1, <2>2, <2>3, <2>4, <2>5, <2>6 DEF ChunksTile
<1> QED BY <1>3, <1>4 DEF HeapShape

\* The invariant implies that every chunk is in one place.
LEMMA PlacesFollow == HeapInductive => EveryChunkInOnePlace
<1> SUFFICES ASSUME HeapInductive PROVE EveryChunkInOnePlace
  OBVIOUS
<1>1. Structure
  BY Parts
<1>2. Parted(Ordinary, Binned, Fasted, Held, InHand)
  BY <1>1, ChunkFacts, SameNames
<1>3. ListsSound(bins, marked, head)
  BY <1>1, ChunkFacts
<1>4. \A i \in BinIds \ {Unsorted} : Range(bins[i]) \cap Range(bins[Unsorted]) = {}
  <2>1. Unsorted \in BinIds
    BY <1>3, ListFacts
  <2> QED BY <1>3, <2>1 DEF ListsSound
<1>5. \A i \in BinIds : IsInjective(bins[i])
  BY <1>3 DEF ListsSound
<1>6. \A n \in DOMAIN fast : IsInjective(fast[n])
  BY <1>1 DEF Structure, FastSound
<1>7. \A s, t \in LiveSlots : block[s].at = block[t].at => s = t
  BY <1>1 DEF Structure, PlacesSound
<1>8. /\ Ordinary = Binned \cup Fasted \cup Held \cup InHand
      /\ Binned \cap (Fasted \cup Held \cup InHand) = {}
      /\ Fasted \cap (Held \cup InHand) = {} /\ Held \cap InHand = {}
  BY <1>2 DEF Parted
<1> QED BY <1>4, <1>5, <1>6, <1>7, <1>8 DEF EveryChunkInOnePlace

\* A chunk behind one that is not in a bin says that it is in use.
LEMMA UsedIsMarked ==
  ASSUME Structure, NEW a \in Ord, a \notin Binned
  PROVE  head[Behind(head, a)].pinuse
<1> DEFINE h == head
           E == EndTags(heapSize, chain)
           x == Behind(h, a)
<1>1. /\ Typed(h) /\ Tiled(h, top, heapSize, chain) /\ FootersSound(h, top, E, Binned)
      /\ FlagsSound(h, top, E, Binned)
  BY DEF Structure, Mem, MemorySound
<1>2. a \in DOMAIN h \ (E \cup {top}) /\ x \in DOMAIN h
  BY <1>1 DEF Ord, OrdinaryOf, Tiled
<1> SUFFICES ASSUME ~h[x].pinuse PROVE FALSE
  OBVIOUS
<1> DEFINE g == x - h[x].prev
<1>3. g \in Binned /\ h[g].size = h[x].prev
  BY <1>1, <1>2 DEF FootersSound
<1>4. g \in Ord
  BY <1>1, <1>3 DEF FlagsSound, Ord
<1>5. g \in DOMAIN h \ (E \cup {top})
  BY <1>4 DEF Ord, OrdinaryOf
<1>6. /\ a \in Nat /\ g \in Nat /\ h[a].size \in Nat /\ h[g].size \in Nat /\ x = a + h[a].size
      /\ g = x - h[g].size /\ x \in Nat /\ Behind(h, g) = g + h[g].size
  <2>1. /\ a \in Nat /\ g \in Nat /\ h[a].size \in Nat /\ h[g].size \in Nat /\ x \in Nat
    BY <1>1, <1>2, <1>5, TypedTags
  <2> QED BY <2>1, <1>3 DEF Behind
<1>7. /\ h[a].size > 0 /\ h[g].size > 0
      /\ (g <= a \/ g >= a + h[a].size) /\ (a <= g \/ a >= g + h[g].size)
  BY <1>1, <1>2, <1>5 DEF Tiled, Behind
<1> HIDE DEF x, g
<1>8. g = a
  BY ONLY <1>6, <1>7
<1> QED BY <1>3, <1>8

\* The invariant implies that tags agree with bins and use.
LEMMA TagsFollow == HeapInductive => TagsAgree
<1> SUFFICES ASSUME HeapInductive PROVE TagsAgree
  OBVIOUS
<1>1. Structure
  BY Parts
<1>2. /\ FlagsSound(head, top, EndTags(heapSize, chain), Binned)
      /\ ListsSound(bins, marked, head) /\ FastSound
  BY <1>1, ChunkFacts DEF Structure, Mem, MemorySound
<1>3. \A a : Inuse(a) <=> head[Behind(head, a)].pinuse
  BY SameNames DEF Inuse
<1>4. ASSUME NEW a \in Binned
      PROVE  /\ ~Inuse(a) /\ head[NextChunk(a)].prev = Size(a)
             /\ head[a].pinuse /\ NextChunk(a) # top /\ Inuse(NextChunk(a))
             /\ ~head[a].nonMain
  BY <1>2, <1>3, SameNames DEF FlagsSound
<1>5. ASSUME NEW i \in BinIds \ {Unsorted}
      PROVE  /\ bins[i] # <<>> => i \in marked
             /\ \A k \in DOMAIN bins[i] :
                  /\ BinOf(Size(bins[i][k])) = i
                  /\ k > 1 => Size(bins[i][k - 1]) >= Size(bins[i][k])
  <2>1. bins[i] # <<>> => i \in marked
    BY <1>2 DEF ListsSound
  <2>2. (\A a \in Range(bins[i]) : BinOf(head[a].size) = i) /\ Falling(bins[i], head) /\ bins[i] \in Seq(Nat)
    BY <1>2 DEF ListsSound
  <2>3. ASSUME NEW k \in DOMAIN bins[i]
        PROVE  BinOf(Size(bins[i][k])) = i /\ (k > 1 => Size(bins[i][k - 1]) >= Size(bins[i][k]))
    <3>1. bins[i][k] \in Range(bins[i])
      BY DEF Range
    <3>2. BinOf(Size(bins[i][k])) = i
      BY <2>2, <3>1 DEF Size
    <3>3. ASSUME k > 1 PROVE Size(bins[i][k - 1]) >= Size(bins[i][k])
      <4>1. DOMAIN bins[i] = 1..Len(bins[i]) /\ Len(bins[i]) \in Nat
        BY <2>2
      <4>2. k \in 1..Len(bins[i])
        BY <4>1
      <4>3. k - 1 \in 1..Len(bins[i]) /\ k - 1 < k
        BY ONLY <3>3, <4>1, <4>2
      <4>4. k - 1 \in DOMAIN bins[i]
        BY <4>1, <4>3
      <4> QED BY <2>2, <4>3, <4>4 DEF Falling, Size
    <3> QED BY <3>2, <3>3
  <2> QED BY <2>1, <2>3
<1>6. BinsAgree
  BY <1>4, <1>5 DEF BinsAgree
<1>7. ASSUME NEW a \in Ordinary \ Binned PROVE Inuse(a) /\ head[a].nonMain
  <2>1. a \in Ord \ Binned
    BY SameNames
  <2>2. Inuse(a)
    BY <1>1, <1>3, <2>1, UsedIsMarked
  <2>3. head[a].nonMain
    BY <1>2, <2>1 DEF FlagsSound, Ord
  <2> QED BY <2>2, <2>3
<1>8. InUseAgree
  BY <1>2, <1>7 DEF InUseAgree, FastSound
<1> QED BY <1>6, <1>8 DEF TagsAgree

\* The invariant implies that blocks are disjoint.
LEMMA BlocksFollow == HeapInductive => HeapBlocksDisjoint
<1> SUFFICES ASSUME HeapInductive PROVE HeapBlocksDisjoint
  OBVIOUS
<1>1. Structure /\ LocalsTyped /\ CallSound /\ DataSound
  BY Parts
<1>2. ASSUME NEW s \in LiveSlots
      PROVE  /\ Size(block[s].at) >= Kept(s) /\ OwnWords(s) \subseteq Words(HeapOf(block[s].at))
             /\ OwnWords(s) \subseteq UserWords(block[s].at, Size(block[s].at))
             /\ block[s].at \in Ord /\ block[s].at \notin Binned
  <2>1. /\ block[s].at \in Ord /\ block[s].at \notin Binned /\ Kept(s) \in Nat /\ Size(block[s].at) \in Nat
        /\ Size(block[s].at) >= Kept(s)
    BY <1>1, BlockFacts DEF DataSound
  <2>2. Kept(s) <= Size(block[s].at)
    BY ONLY <2>1
  <2> QED BY <1>1, <2>1, <2>2, WordsInHeap DEF OwnWords
<1>3. ASSUME NEW s \in LiveSlots, NEW t \in LiveSlots \ {s}
      PROVE  OwnWords(s) \cap OwnWords(t) = {}
  <2>1. block[t].at # block[s].at
    BY <1>1 DEF Structure, PlacesSound
  <2>2. OwnWords(s) \cap UserWords(block[t].at, Size(block[t].at)) = {}
    BY <1>1, <1>2, <2>1, OthersWords
  <2> QED BY <1>2, <2>2
<1> QED BY <1>2, <1>3 DEF HeapBlocksDisjoint

\* The end of the current heap is the end of a page.
LEMMA EndInPages ==
  ASSUME Structure
  PROVE  HeapEnd(Current) % Page = 0
<1>1. /\ Current \in Nat /\ heapSize[Current] \in Nat /\ InPages(heapSize[Current]) /\ Base(Current) \in Nat
  BY TopAtEnd
<1>2. Page \in Nat /\ Page > 0 /\ HeapMax \in Nat
  BY Constants
<1>3. InPages(Base(Current))
  <2> DEFINE g == Current
  <2>1. PICK q \in Nat : HeapMax = q * Page
    BY <1>2, HeapMaxPaged, MultipleIs DEF InPages
  <2>2. Base(g) = g * HeapMax
    BY DEF Base
  <2>3. g \in Nat /\ Base(g) \in Nat
    BY <1>1
  <2> HIDE DEF g
  <2>4. g * q \in Nat
    BY ONLY <2>3, <2>1
  <2>5. Base(g) = (g * q) * Page
    BY ONLY <1>2, <2>1, <2>2, <2>3
  <2>6. Base(g) % Page = 0
    BY <1>2, <2>3, <2>4, <2>5, MultipleIs
  <2> QED BY <2>6 DEF InPages, g
<1>4. InPages(Base(Current) + heapSize[Current])
  BY <1>1, <1>3, PagedSum
<1> QED BY <1>4 DEF InPages, HeapEnd

\* What heap_trim asserts of the fencepost it finds.
LEMMA EndingIs ==
  ASSUME Structure, HeapEmpty
  PROVE  /\ head[Sentinel].size = 0 /\ head[Sentinel].pinuse
         /\ Size(Fence) + EndRoom \in 1..(2 * MinSize - 1) /\ Ending \in 1..(HeapMax - 1)
         /\ Start(Fence) + Ending = HeapEnd(Previous)
<1> DEFINE g == Previous
<1>1. Mem /\ Typed(head) /\ HeapsSound(heapSize, chain) /\ Tiled(head, top, heapSize, chain)
      /\ FootersSound(head, top, EndTags(heapSize, chain), Binned)
      /\ FlagsSound(head, top, EndTags(heapSize, chain), Binned)
      /\ MemorySound(head, top, heapSize, chain, Binned)
  BY DEF Structure, Mem, MemorySound
<1>2. IsFence(head, heapSize, chain, Fence, Sentinel)
  BY <1>1, EmptyHeap
<1>3. /\ head[Sentinel].size = 0 /\ head[Sentinel].pinuse
      /\ Fence \in DOMAIN head /\ Fence \notin EndTags(heapSize, chain) /\ Fence # top
      /\ Behind(head, Fence) = Sentinel
      /\ head[Fence].size \in 1..MinSize /\ HeapOf(Fence) = g
      /\ g \in Range(chain) /\ Fence + head[Fence].size + EndRoom = EndOf(g, heapSize)
  BY <1>1, <1>2, FenceFacts DEF Previous
<1>4. MinSize \in Nat /\ EndRoom = MinSize - 1 /\ EndRoom \in Nat /\ MinSize > 1 /\ HeapMax \in Nat
  BY Constants
<1>5. /\ Base(g) \in Nat /\ EndOf(g, heapSize) \in Nat /\ EndOf(g, heapSize) <= Base(g) + HeapMax
      /\ FirstOf(g, chain) \in Nat /\ FirstOf(g, chain) > Base(g)
  BY <1>1, <1>3, HeapFacts
<1>6. Fence \in Nat /\ head[Fence].prev \in Nat /\ head[Fence].size \in Nat
  BY <1>1, <1>3, TypedTags
<1>7. EndOf(g, heapSize) = HeapEnd(Previous)
  BY DEF EndOf, HeapEnd
<1>8. Start(Fence) \in DOMAIN head /\ HeapOf(Start(Fence)) = g
      /\ Start(Fence) + (IF head[Fence].pinuse THEN 0 ELSE head[Fence].prev) = Fence
  <2>1. CASE head[Fence].pinuse
    BY <2>1, <1>3, <1>6 DEF Start
  <2>2. CASE ~head[Fence].pinuse
    <3> DEFINE s == Fence - head[Fence].prev
    <3>1. s \in Binned /\ head[s].size = head[Fence].prev /\ Start(Fence) = s
      BY <2>2, <1>1, <1>3 DEF FootersSound, Start
    <3>2. s \in DOMAIN head \ (EndTags(heapSize, chain) \cup {top})
      BY <3>1, <1>1 DEF FlagsSound, OrdinaryOf
    <3>3. s \in Nat
      BY <1>1, <3>2, TypedTags
    <3>4. Behind(head, s) = Fence
      <4>1. s + head[Fence].prev = Fence
        BY ONLY <1>6
      <4> QED BY <4>1, <3>1 DEF Behind
    <3>5. HeapOf(s) = g
      BY <1>1, <1>3, <3>2, <3>4 DEF Tiled
    <3>6. s + head[Fence].prev = Fence
      BY ONLY <1>6
    <3> QED BY <2>2, <3>1, <3>2, <3>5, <3>6
  <2> QED BY <2>1, <2>2
<1>9. Start(Fence) \in Nat /\ FirstOf(g, chain) <= Start(Fence)
  BY <1>1, <1>8, TypedTags DEF Tiled
<1>10. Size(Fence) = head[Fence].size
       /\ Ending = Size(Fence) + EndRoom + (IF head[Fence].pinuse THEN 0 ELSE head[Fence].prev)
  BY DEF Size, Ending
<1> DEFINE x == IF head[Fence].pinuse THEN 0 ELSE head[Fence].prev
           z == Size(Fence)
           s == Start(Fence)
           f == Fence
           e == EndOf(g, heapSize)
           b == Base(g)
           k == FirstOf(g, chain)
<1>11. /\ x \in Nat /\ z \in 1..MinSize /\ s \in Nat /\ f \in Nat /\ e \in Nat /\ b \in Nat /\ k \in Nat
       /\ s + x = f /\ f + z + EndRoom = e /\ k > b /\ k <= s /\ e <= b + HeapMax
       /\ Ending = z + EndRoom + x
  BY <1>3, <1>5, <1>6, <1>8, <1>9, <1>10
<1> HIDE DEF x, z, s, f, e, b, k, g
<1>12. z + EndRoom \in 1..(2 * MinSize - 1)
  BY ONLY <1>4, <1>11
<1>13. z + EndRoom + x \in 1..(HeapMax - 1) /\ s + (z + EndRoom + x) = e
  BY ONLY <1>4, <1>11
<1> QED BY <1>3, <1>7, <1>11, <1>12, <1>13 DEF z, s, e, g

\* The invariant implies the assertions of the code.
LEMMA AssertionsFollow == HeapInductive => HeapAssertions
<1> SUFFICES ASSUME HeapInductive PROVE HeapAssertions
  OBVIOUS
<1>1. Structure /\ LocalsTyped /\ CallSound /\ WhereSound /\ SearchSound
  BY Parts
<1>2. pc = "top" /\ ~TopFits /\ haveFast => Small(want)
  BY <1>1 DEF SearchSound
<1>3. ASSUME pc = "scan", NEW i \in marked, i >= idx, bins[i] # <<>>
      PROVE  Size(Last(bins[i])) >= want
  <2>1. want \in Nat /\ want >= MinSize
    BY <1>3, Searches DEF Searching
  <2>2. idx > BinOf(want) /\ idx \in Nat
    BY <1>1, <1>3 DEF SearchSound, LocalsTyped
  <2>3. BinOf(want) \in BinIds \ {Unsorted} /\ BinOf(want) \in Nat
    BY <2>1, BinRange
  <2>4. MinSize \in Nat /\ MinSize > 1
    BY Constants
  <2>5. i \in BinIds
    BY <1>1 DEF Structure, BinsSound, ListsSound
  <2>6. BinOf(want) > 1
    <3>1. BinOf(want) \in MinSize..LastBin /\ BinOf(want) >= MinSize
      BY <2>3 DEF BinIds
    <3> QED BY ONLY <3>1, <2>3, <2>4
  <2>7. i \in Nat
    BY <2>5, <2>4 DEF BinIds, Unsorted
  <2>8. i # Unsorted /\ BinOf(want) < i
    <3>1. i # 1 /\ BinOf(want) < i
      BY ONLY <1>3, <2>2, <2>3, <2>6, <2>7
    <3> QED BY <3>1 DEF Unsorted
  <2> DEFINE v == Last(bins[i])
  <2>9. Size(v) \in Nat /\ BinOf(Size(v)) = i
    BY <1>1, <1>3, <2>5, <2>8, BinMembers
  <2> HIDE DEF v
  <2>10. want < Size(v)
    BY <2>1, <2>8, <2>9, LowerBin
  <2>11. Size(v) >= want
    BY ONLY <2>10, <2>1, <2>9
  <2> QED BY <2>11 DEF v
<1>4. pc = "system" =>
        /\ ~haveFast /\ ~TopFits
        /\ Size(top) >= MinSize /\ head[top].pinuse /\ NextChunk(top) % Page = 0
  <2>1. Size(top) >= MinSize /\ head[top].pinuse /\ top + Size(top) = HeapEnd(Current)
    BY <1>1, TopAtEnd
  <2>2. NextChunk(top) % Page = 0
    BY <1>1, <2>1, EndInPages DEF NextChunk, Size
  <2> QED BY <1>1, <2>1, <2>2 DEF SearchSound
<1>5. pc = "trim" /\ HeapEmpty =>
        /\ head[Sentinel].size = 0 /\ head[Sentinel].pinuse
        /\ Size(Fence) + EndRoom \in 1..(2 * MinSize - 1) /\ Ending \in 1..(HeapMax - 1)
        /\ Start(Fence) + Ending = HeapEnd(Previous)
  BY <1>1, EndingIs
<1>6. pc = "got" => Size(result) - want \in 0..(MinSize - 1)
  BY <1>1 DEF WhereSound
<1>7. pc = "tail" => Size(result) >= call.n /\ (result + 1) % call.align = 0
  BY <1>1 DEF WhereSound, Tailing
<1> QED BY <1>2, <1>3, <1>4, <1>5, <1>6, <1>7 DEF HeapAssertions

-----------------------------------------------------------------------------
(* Best fit.                                                               *)

\* A large request gets the smallest chunk that fits from its own bin.
LEMMA OwnBinIsBest ==
  ASSUME HeapInductive, FitOwnBin, pc' = "got", NEW a \in Binned, Size(a) >= want
  PROVE  Size(result') <= Size(a)
<1> DEFINE bin  == bins[BinOf(want)]
           fits == {i \in DOMAIN bin : Size(bin[i]) >= want}
           best == CHOOSE i \in fits : \A j \in fits : j <= i
           v    == bin[best]
<1>1. pc = "fit" /\ pc \in Searching
  BY DEF FitOwnBin, Searching
<1>2. /\ SearchSound /\ Structure /\ want \in Nat /\ want >= MinSize
  BY <1>1, Searches
<1>3. BinOf(want) \in BinIds \ {Unsorted} /\ BinOf(want) \in Nat
  BY <1>2, BinRange
<1>4. ListsSound(bins, marked, head) /\ Binned = InBins(bins)
  BY <1>2, ChunkFacts
<1>5. bin \in Seq(Nat) /\ Range(bin) \subseteq Binned
  BY <1>3, <1>4, ListFacts
<1>6. bins[Unsorted] = <<>>
  BY <1>1, <1>2 DEF SearchSound
<1>7. fits # {} /\ result' = v
  BY DEF FitOwnBin, Goto, Found
<1>8. best \in fits /\ \A j \in fits : j <= best
  <2>1. Len(bin) \in Nat /\ fits \subseteq 1..Len(bin)
    BY <1>5
  <2>2. \E i \in fits : \A j \in fits : j <= i
    <3> HIDE DEF fits, bin
    <3> QED BY <2>1, <1>7, GreatestIndex
  <2> QED BY <2>2
<1>9. /\ Size(a) \in Nat /\ BinOf(Size(a)) \in Nat /\ a \in Range(bins[BinOf(Size(a))])
      /\ BinOf(Size(a)) \in BinIds
  BY <1>2, <1>6, BinnedAt
<1>10. /\ v \in Range(bin) /\ Size(v) \in Nat /\ BinOf(Size(v)) = BinOf(want)
  <2>1. v \in Range(bin)
    BY <1>8 DEF Range
  <2>2. bin # <<>>
    BY <1>8
  <2> HIDE DEF v
  <2>3. Size(v) \in Nat /\ BinOf(Size(v)) = BinOf(want)
    BY <1>2, <1>3, <2>1, <2>2, BinMembers
  <2> QED BY <2>1, <2>3
<1>11. best \in DOMAIN bin /\ best \in Nat
  BY <1>5, <1>8
<1>12. BinOf(want) <= BinOf(Size(a))
  <2>1. want <= Size(a)
    BY ONLY Size(a) >= want, <1>2, <1>9
  <2> QED BY <1>2, <1>9, <2>1, BinOrder
<1>13. CASE BinOf(Size(a)) = BinOf(want)
  <2>1. PICK i \in DOMAIN bin : a = bin[i]
    BY <1>9, <1>13 DEF Range
  <2>2. i \in fits
    BY <2>1
  <2>3. i \in Nat /\ i <= best
    BY <1>5, <1>8, <2>2
  <2>4. Falling(bin, head)
    BY <1>3, <1>4 DEF ListsSound
  <2> HIDE DEF v, bin, fits, best
  <2>5. CASE i = best
    BY <2>1, <2>5, <1>7, <1>9 DEF v
  <2>6. CASE i # best
    <3>1. i < best
      BY ONLY <2>3, <2>6, <1>11
    <3>2. head[bin[i]].size >= head[bin[best]].size
      BY <2>4, <1>11, <3>1 DEF Falling
    <3>3. Size(a) >= Size(v)
      BY <3>2, <2>1 DEF Size, v
    <3>4. Size(v) <= Size(a)
      BY ONLY <3>3, <1>9, <1>10
    <3> QED BY <3>4, <1>7
  <2> QED BY <2>5, <2>6
<1>14. CASE BinOf(Size(a)) # BinOf(want)
  <2> HIDE DEF v
  <2>1. BinOf(Size(v)) < BinOf(Size(a))
    BY ONLY <1>3, <1>9, <1>10, <1>12, <1>14
  <2>2. Size(v) < Size(a)
    BY <1>9, <1>10, <2>1, LowerBin
  <2>3. Size(v) <= Size(a)
    BY ONLY <2>2, <1>9, <1>10
  <2> QED BY <2>3, <1>7
<1> QED BY <1>13, <1>14

\* The scan of the bitmap ends at the smallest chunk that fits.
LEMMA NextBinIsBest ==
  ASSUME HeapInductive, ScanTake, NEW a \in Binned, Size(a) >= want
  PROVE  Size(result') <= Size(a)
<1> DEFINE b == NextBin
           v == Last(bins[b])
<1>1. /\ pc = "scan" /\ pc \in Searching /\ (\E i \in marked : i >= idx) /\ bins[b] # <<>> /\ result' = v
  BY DEF ScanTake, Searching, Found
<1>2. /\ SearchSound /\ Structure /\ want \in Nat
  BY <1>1, Searches
<1>3. /\ b \in Nat /\ b \in BinIds \ {Unsorted} /\ \A j \in marked : j >= idx => b <= j
  BY <1>1, NextBinIs
<1>4. bins[Unsorted] = <<>> /\ BinOf(Size(a)) >= idx
  BY <1>1, <1>2 DEF SearchSound
<1>5. /\ Size(a) \in Nat /\ BinOf(Size(a)) \in Nat /\ a \in Range(bins[BinOf(Size(a))])
      /\ BinOf(Size(a)) \in marked
  BY <1>2, <1>4, BinnedAt
<1>6. b <= BinOf(Size(a))
  BY <1>3, <1>4, <1>5
<1> HIDE DEF b
<1>7. /\ v \in Range(bins[b]) /\ Size(v) \in Nat /\ BinOf(Size(v)) = b /\ bins[b] \in Seq(Nat)
      /\ \A x \in Range(bins[b]) : Size(x) \in Nat
  BY <1>1, <1>2, <1>3, BinMembers
<1>8. CASE BinOf(Size(a)) = b
  <2>1. Falling(bins[b], head)
    BY <1>2, <1>3, ChunkFacts DEF ListsSound
  <2>2. \A x \in Range(bins[b]) : head[x].size \in Nat
    BY <1>7 DEF Size
  <2>3. \A x \in Range(bins[b]) : head[x].size >= head[Last(bins[b])].size
    BY <1>1, <1>7, <2>1, <2>2, LastIs
  <2>4. Size(a) >= Size(v)
    BY <1>5, <1>8, <2>3 DEF Size
  <2> HIDE DEF v
  <2>5. Size(v) <= Size(a)
    BY ONLY <2>4, <1>5, <1>7
  <2> QED BY <2>5, <1>1
<1>9. CASE BinOf(Size(a)) # b
  <2> HIDE DEF v
  <2>1. BinOf(Size(v)) < BinOf(Size(a))
    BY ONLY <1>3, <1>5, <1>6, <1>7, <1>9
  <2>2. Size(v) < Size(a)
    BY <1>5, <1>7, <2>1, LowerBin
  <2>3. Size(v) <= Size(a)
    BY ONLY <2>2, <1>5, <1>7
  <2> QED BY <2>3, <1>1
<1> QED BY <1>8, <1>9

\* The scan ends without a chunk only when none fits.
LEMMA ScanOverFindsNone ==
  ASSUME HeapInductive, ScanOver, NEW a \in Binned
  PROVE  Size(a) < want
<1>1. pc = "scan" /\ pc \in Searching /\ ~\E i \in marked : i >= idx
  BY DEF ScanOver, Searching
<1>2. /\ SearchSound /\ Structure /\ want \in Nat
  BY <1>1, Searches
<1>3. bins[Unsorted] = <<>> /\ (Size(a) >= want => BinOf(Size(a)) >= idx)
  BY <1>1, <1>2 DEF SearchSound
<1>4. Size(a) \in Nat /\ BinOf(Size(a)) \in marked
  BY <1>2, <1>3, BinnedAt
<1>5. ~(Size(a) >= want)
  BY <1>1, <1>3, <1>4
<1> QED BY ONLY <1>2, <1>4, <1>5

\* The search of _int_malloc is by best fit.
LEMMA AllocatesBest ==
  ASSUME HeapInductive, Allocates
  PROVE  /\ pc \in {"fit", "scan"} /\ pc' = "got" =>
              \A a \in Binned : Size(a) >= want => Size(result') <= Size(a)
         /\ pc' = "top" => \A a \in Binned : Size(a) < want
<1>1. CASE FitOwnBin
  <2>1. pc' # "top"
    BY <1>1 DEF FitOwnBin, Goto, Found
  <2> QED BY <1>1, <2>1, OwnBinIsBest
<1>2. CASE ScanTake
  <2>1. pc' # "top"
    BY <1>2 DEF ScanTake, Found
  <2> QED BY <1>2, <2>1, NextBinIsBest
<1>3. CASE ScanOver
  <2>1. pc' # "got"
    BY <1>3 DEF ScanOver, Goto
  <2> QED BY <1>3, <2>1, ScanOverFindsNone
<1>4. CASE TakeFast \/ TakeSmall \/ NoQuickHit \/ SplitRemainder \/ TakeExact \/ PlaceInBin \/ AllPlaced
  <2>1. pc \notin {"fit", "scan"} /\ pc' # "top"
    BY <1>4 DEF TakeFast, TakeSmall, NoQuickHit, SplitRemainder, TakeExact, PlaceInBin, AllPlaced, Found
  <2> QED BY <2>1
<1>5. CASE ScanMiss \/ SplitTop \/ NoMemory \/ ConsolidateAndRetry \/ AskSystem
  <2>1. (pc \in {"fit", "scan"} => pc' # "got") /\ pc' # "top"
    BY <1>5 DEF ScanMiss, SplitTop, NoMemory, ConsolidateAndRetry, AskSystem, Found, Goto
  <2> QED BY <2>1
<1>6. CASE GrowHeap \/ NewHeap \/ SystemRefuses
  <2>1. pc = "system" /\ pc' # "top"
    BY <1>6 DEF GrowHeap, NewHeap, SystemRefuses, Goto
  <2> QED BY <2>1
<1> QED BY <1>1, <1>2, <1>3, <1>4, <1>5, <1>6 DEF Allocates

\* No step takes a chunk from a bin that is not the best fit.
LEMMA StepIsBest ==
  ASSUME HeapInductive, HeapNext
  PROVE  /\ pc \in {"fit", "scan"} /\ pc' = "got" =>
              \A a \in Binned : Size(a) >= want => Size(result') <= Size(a)
         /\ pc' = "top" => \A a \in Binned : Size(a) < want
<1>1. CASE Allocates
  BY <1>1, AllocatesBest
<1>2. CASE Calls
  <2>1. pc = "idle" /\ pc' # "top"
    BY <1>2 DEF Calls, Malloc, Calloc, Memalign, Realloc, Free, Starts
  <2> QED BY <2>1
<1>3. CASE Releases
  <2>1. after \in {"return", "finish", "tail"} /\ resume \in {"unsorted", "trim"}
    BY Parts DEF LocalsTyped
  <2>2. pc \notin {"fit", "scan"} /\ pc' # "top"
    BY <1>3, <2>1 DEF Releases, FreeFast, FreeMerge, ConsolidateOne, ConsolidateEnd, DropHeap, Shrink, NoShrink
  <2> QED BY <2>2
<1>4. CASE Resizes
  <2>1. pc \notin {"fit", "scan"} /\ pc' # "top"
    BY <1>4 DEF Resizes, ReallocInPlace, ReallocIntoTop, ReallocIntoNext, ReallocMove, ReallocJoin,
                MemalignCut, MemalignTail, KeepOrSplit, SplitOld, Goto
  <2> QED BY <2>1
<1>5. CASE ReallocCopy \/ Return \/ ReturnNull
  <2>1. pc \notin {"fit", "scan"} /\ pc' # "top"
    BY <1>5 DEF ReallocCopy, Return, Finished, ReturnNull, Over
  <2> QED BY <2>1
<1> QED BY <1>1, <1>2, <1>3, <1>4, <1>5 DEF HeapNext, Work, Engine

-----------------------------------------------------------------------------
(* The theorems.                                                           *)

\* Chunks tile the heaps of the arena exactly, whatever _int_malloc, _int_free,
\* _int_realloc, _int_memalign, sYSMALLOc and heap_trim do, and wherever the
\* system refuses memory.
THEOREM ChunksAlwaysTile == HeapSpec => []HeapShape
BY HeapInvariantHolds, ShapeFollows, PTL

\* No chunk is ever lost, and none is in two places: each is a block of the
\* program, in one fastbin, in one bin, the top chunk or a fencepost.
THEOREM NoChunkIsLost == HeapSpec => []EveryChunkInOnePlace
BY HeapInvariantHolds, PlacesFollow, PTL

\* What set_head, set_foot and the inuse bits say of a chunk and of the one
\* before it never disagrees with where the chunk is.
THEOREM TagsAlwaysAgree == HeapSpec => []TagsAgree
BY HeapInvariantHolds, TagsFollow, PTL

\* The blocks public_mALLOc and its siblings hand out never overlap and never
\* leave their chunks.
THEOREM BlocksStayApart == HeapSpec => []HeapBlocksDisjoint
BY HeapInvariantHolds, BlocksFollow, PTL

\* The engine writes into no block, calloc returns zeros, realloc keeps what
\* was stored.
THEOREM ContentsAreKept == HeapSpec => []ContentsKept
<1>1. HeapInductive => ContentsKept
  BY Parts DEF DataSound
<1> QED BY <1>1, HeapInvariantHolds, PTL

\* The assertions of _int_malloc, sYSMALLOc, heap_trim and _int_memalign hold
\* wherever they are reached.
THEOREM AssertionsHold == HeapSpec => []HeapAssertions
BY HeapInvariantHolds, AssertionsFollow, PTL

\* A request within top_pad fails only if the system refused memory.
THEOREM SmallRequestsFailRarely == HeapSpec => []SmallRequestsServed
<1>1. HeapInductive => SmallRequestsServed
  <2> SUFFICES ASSUME HeapInductive, pc = "fail", want <= TopPad PROVE refused
    BY DEF SmallRequestsServed
  <2>1. refused \/ want > TopPad
    BY Parts DEF FinishSound
  <2>2. want \in Nat /\ TopPad \in Nat
    BY Parts, HeapAssumption DEF LocalsTyped, HeapAssumption
  <2>3. ~(want > TopPad)
    BY ONLY <2>2, want <= TopPad
  <2> QED BY <2>1, <2>3
<1> QED BY <1>1, HeapInvariantHolds, PTL

\* A chunk taken from a bin is the smallest that fits, and the end of memory
\* is used only when none does.
THEOREM SearchIsBestFit == HeapSpec => BestFit
<1> DEFINE Best == /\ pc \in {"fit", "scan"} /\ pc' = "got" =>
                        \A a \in Binned : Size(a) >= want => Size(result') <= Size(a)
                   /\ pc' = "top" => \A a \in Binned : Size(a) < want
<1>1. HeapInductive /\ [HeapNext]_vars => [Best]_vars
  BY StepIsBest
<1>2. HeapSpec => [][Best]_vars
  <2> HIDE DEF Best
  <2> QED BY <1>1, HeapInvariantHolds, PTL DEF HeapSpec
<1> QED BY <1>2 DEF BestFit
=============================================================================
