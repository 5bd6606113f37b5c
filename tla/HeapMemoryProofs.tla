-------------------------- MODULE HeapMemoryProofs --------------------------
(***************************************************************************)
(* What the changes the engine of ptmalloc2 makes to its memory keep: a      *)
(* chunk is split, joined with the one behind it, taken from a bin or put    *)
(* there, the top chunk grows and shrinks, a heap comes and goes; and the    *)
(* same for whole runs of such changes, as _int_free, sYSMALLOc and          *)
(* heap_trim make them.  HeapProofs puts them together, action by action.    *)
(***************************************************************************)
EXTENDS HeapInvariant, Iteration, SequenceTheorems, TLAPS

-----------------------------------------------------------------------------
(* Addresses and heaps.                                                    *)

\* What the assumption says of the numbers the proofs count with.
LEMMA Constants ==
  /\ {MinSize, MaxFast, MinLarge, BinWidth, ConsolidateAt, Page, HeapMin, HeapMax,
      HeapInfo, ArenaState} \subseteq Nat \ {0}
  /\ MinSize \in Nat /\ MinSize > 1 /\ EndRoom \in Nat /\ EndRoom = MinSize - 1
  /\ HeapMax \in Nat /\ HeapMax > 0 /\ HeapInfo \in Nat /\ HeapInfo > 0
  /\ ArenaState \in Nat /\ ArenaState > 0 /\ Page \in Nat /\ Page > 0
  /\ Heaps \subseteq Nat /\ \A g \in Heaps : g >= 1
<1>1. {MinSize, MaxFast, MinLarge, BinWidth, ConsolidateAt, Page, HeapMin, HeapMax,
       HeapInfo, ArenaState} \subseteq Nat \ {0}
  BY HeapAssumption DEF HeapAssumption
<1>2. MinSize > 1 /\ Heaps = 1..Cardinality(Heaps)
  BY HeapAssumption DEF HeapAssumption
<1>3. /\ MinSize \in Nat /\ HeapMax \in Nat \ {0} /\ HeapInfo \in Nat \ {0}
      /\ ArenaState \in Nat \ {0} /\ Page \in Nat \ {0}
  BY <1>1
<1>4. \A g \in 1..Cardinality(Heaps) : g \in Nat /\ g >= 1
  OBVIOUS
<1>5. Heaps \subseteq Nat /\ \A g \in Heaps : g >= 1
  BY <1>2, <1>4
<1>6. EndRoom \in Nat /\ EndRoom = MinSize - 1
  BY <1>2, <1>3 DEF EndRoom
<1> QED BY <1>1, <1>2, <1>3, <1>5, <1>6

\* Heaps start at multiples of their greatest size.
LEMMA BaseIsNat ==
  ASSUME NEW g \in Nat
  PROVE  Base(g) \in Nat /\ (g >= 1 => Base(g) >= HeapMax)
<1>1. HeapMax \in Nat /\ HeapMax > 0
  BY Constants
<1>2. g * HeapMax \in Nat /\ (g >= 1 => g * HeapMax >= HeapMax)
  BY <1>1
<1> QED BY <1>2 DEF Base

\* Every address is within the room of the heap it tells (heap_for_ptr).
LEMMA HeapRange ==
  ASSUME NEW a \in Nat
  PROVE  HeapOf(a) \in Nat /\ Base(HeapOf(a)) <= a /\ a < Base(HeapOf(a)) + HeapMax
<1>1. HeapMax \in Nat /\ HeapMax > 0
  BY Constants
<1> DEFINE q == a \div HeapMax
<1>2. q \in Nat /\ q * HeapMax <= a /\ a < (q + 1) * HeapMax
  BY <1>1
<1>3. (q + 1) * HeapMax = q * HeapMax + HeapMax
  BY <1>1, <1>2
<1> QED BY <1>2, <1>3 DEF HeapOf, Base

\* An address in the room of a heap tells that heap.
LEMMA HeapIs ==
  ASSUME NEW a \in Nat, NEW g \in Nat, Base(g) <= a, a < Base(g) + HeapMax
  PROVE  HeapOf(a) = g
<1>1. HeapMax \in Nat /\ HeapMax > 0
  BY Constants
<1> DEFINE q == HeapOf(a)
<1>2. q \in Nat /\ q * HeapMax <= a /\ a < q * HeapMax + HeapMax
  BY HeapRange DEF Base
<1>3. g * HeapMax <= a /\ a < g * HeapMax + HeapMax
  BY DEF Base
<1> HIDE DEF q
<1>4. ~(q < g)
  <2> SUFFICES ASSUME q < g PROVE FALSE
    OBVIOUS
  <2>1. q + 1 <= g
    BY <1>2
  <2>2. (q + 1) * HeapMax <= g * HeapMax
    BY <2>1, <1>1, <1>2
  <2>3. (q + 1) * HeapMax = q * HeapMax + HeapMax
    BY <1>1, <1>2
  <2> QED BY <2>2, <2>3, <1>2, <1>3, <1>1
<1>5. ~(g < q)
  <2> SUFFICES ASSUME g < q PROVE FALSE
    OBVIOUS
  <2>1. g + 1 <= q
    BY <1>2
  <2>2. (g + 1) * HeapMax <= q * HeapMax
    BY <2>1, <1>1, <1>2
  <2>3. (g + 1) * HeapMax = g * HeapMax + HeapMax
    BY <1>1, <1>2
  <2> QED BY <2>2, <2>3, <1>2, <1>3, <1>1
<1>6. q = g
  BY <1>4, <1>5, <1>2
<1> QED BY <1>6 DEF q

-----------------------------------------------------------------------------
(* Headers.                                                                *)

\* The fields of a header are of the types Tag gives them.
LEMMA TypedTags ==
  ASSUME NEW h, Typed(h)
  PROVE  \A a \in DOMAIN h :
           /\ a \in Nat /\ h[a] \in Tag
           /\ h[a].size \in Nat /\ h[a].prev \in Nat /\ h[a].pinuse \in BOOLEAN
           /\ h[a].nonMain \in BOOLEAN /\ Behind(h, a) \in Nat
BY DEF Typed, Tag, Behind

\* The heaps of an arena: where they are, and their ends.
LEMMA HeapFacts ==
  ASSUME NEW hs, NEW ch, HeapsSound(hs, ch)
  PROVE  /\ Range(ch) \subseteq Heaps /\ ch[Len(ch)] \in Range(ch) /\ ch[1] \in Range(ch)
         /\ \A g \in Range(ch) :
              /\ g \in Nat /\ Base(g) \in Nat /\ hs[g] \in Nat /\ EndOf(g, hs) \in Nat
              /\ hs[g] <= HeapMax /\ EndOf(g, hs) <= Base(g) + HeapMax
              /\ FirstOf(g, ch) \in Nat /\ FirstOf(g, ch) > Base(g)
<1>1. ch \in Seq(Heaps) /\ ch # <<>> /\ hs \in [Heaps -> 0..HeapMax]
  BY DEF HeapsSound
<1>2. Len(ch) \in Nat /\ Len(ch) >= 1 /\ DOMAIN ch = 1..Len(ch) /\ \A i \in 1..Len(ch) : ch[i] \in Heaps
  BY <1>1, LenProperties, ElementOfSeq, EmptySeq
<1>3. Range(ch) \subseteq Heaps /\ ch[Len(ch)] \in Range(ch) /\ ch[1] \in Range(ch)
  BY <1>2 DEF Range
<1>4. ASSUME NEW g \in Range(ch)
      PROVE  /\ g \in Nat /\ Base(g) \in Nat /\ hs[g] \in Nat /\ EndOf(g, hs) \in Nat
             /\ hs[g] <= HeapMax /\ EndOf(g, hs) <= Base(g) + HeapMax
             /\ FirstOf(g, ch) \in Nat /\ FirstOf(g, ch) > Base(g)
  <2>1. g \in Nat /\ Base(g) \in Nat /\ g \in Heaps
    BY <1>3, Constants, BaseIsNat
  <2>2. hs[g] \in Nat /\ hs[g] <= HeapMax
    BY <2>1, <1>1, Constants
  <2>3. /\ HeapInfo \in Nat /\ HeapInfo > 0 /\ ArenaState \in Nat /\ HeapMax \in Nat
    BY Constants
  <2> QED BY <2>1, <2>2, <2>3 DEF EndOf, FirstOf
<1> QED BY <1>3, <1>4

\* The units of a chunk are units of its heap.
LEMMA InsideChunk ==
  ASSUME NEW h, NEW t, NEW hs, NEW ch, Typed(h), HeapsSound(hs, ch), Tiled(h, t, hs, ch),
         NEW a \in DOMAIN h, a \notin EndTags(hs, ch),
         NEW x \in Nat, a <= x, x < Behind(h, a)
  PROVE  HeapOf(x) = HeapOf(a) /\ x < EndOf(HeapOf(a), hs) /\ FirstOf(HeapOf(a), ch) <= x
<1> DEFINE g == HeapOf(a)
<1>1. /\ a \in Nat /\ g \in Range(ch) /\ FirstOf(g, ch) <= a /\ a < EndOf(g, hs)
      /\ a # t => Behind(h, a) \in DOMAIN h /\ HeapOf(Behind(h, a)) = g
      /\ a = t => Behind(h, a) = EndOf(g, hs)
      /\ \A b \in DOMAIN h : b < EndOf(HeapOf(b), hs)
      /\ Behind(h, a) \in Nat
  BY TypedTags DEF Tiled
<1>2. /\ g \in Nat /\ Base(g) \in Nat /\ EndOf(g, hs) \in Nat
      /\ EndOf(g, hs) <= Base(g) + HeapMax
      /\ FirstOf(g, ch) \in Nat /\ FirstOf(g, ch) > Base(g)
  BY <1>1, HeapFacts
<1>3. Behind(h, a) <= EndOf(g, hs)
  BY <1>1, <1>2
<1> HIDE DEF g
<1>4. x < EndOf(g, hs) /\ Base(g) <= x /\ x < Base(g) + HeapMax /\ FirstOf(g, ch) <= x
  BY <1>1, <1>2, <1>3, Constants
<1>5. HeapOf(x) = g
  BY <1>2, <1>4, HeapIs
<1> QED BY <1>4, <1>5 DEF g

\* The top chunk is the last of its heap.
LEMMA NothingBehindTop ==
  ASSUME NEW h, NEW t, NEW hs, NEW ch, Typed(h), HeapsSound(hs, ch), Tiled(h, t, hs, ch)
  PROVE  Behind(h, t) \notin DOMAIN h
<1> SUFFICES ASSUME Behind(h, t) \in DOMAIN h PROVE FALSE
  OBVIOUS
<1> DEFINE e == Behind(h, t)
           g == HeapOf(t)
<1>1. /\ e \in Nat /\ e = EndOf(g, hs) /\ g \in Range(ch) /\ HeapOf(e) \in Range(ch)
      /\ FirstOf(HeapOf(e), ch) <= e /\ e < EndOf(HeapOf(e), hs)
      /\ t \in Nat /\ FirstOf(g, ch) <= t /\ t < EndOf(g, hs)
  BY TypedTags DEF Tiled
<1>2. /\ g \in Nat /\ Base(g) \in Nat /\ EndOf(g, hs) <= Base(g) + HeapMax
      /\ FirstOf(g, ch) > Base(g) /\ FirstOf(g, ch) \in Nat
      /\ FirstOf(HeapOf(e), ch) > Base(HeapOf(e)) /\ FirstOf(HeapOf(e), ch) \in Nat
      /\ HeapMax \in Nat /\ HeapMax > 0 /\ Base(HeapOf(e)) \in Nat
  BY <1>1, HeapFacts, Constants
<1> HIDE DEF e, g
<1>3. HeapOf(e) # g
  BY <1>1
<1>4. e = Base(g) + HeapMax
  <2>1. Base(g) <= e
    BY <1>1, <1>2
  <2>2. ~(e < Base(g) + HeapMax)
    BY <2>1, <1>1, <1>2, <1>3, HeapIs
  <2> QED BY <2>2, <1>1, <1>2
<1>5. Base(g + 1) = Base(g) + HeapMax /\ g + 1 \in Nat
  BY <1>2 DEF Base
<1>6. HeapOf(e) = g + 1
  BY <1>1, <1>2, <1>4, <1>5, HeapIs
<1> QED BY <1>1, <1>2, <1>4, <1>5, <1>6

\* The chunks of k are those of h, but that a is split after n units.
IsSplit(h, k, a, n) ==
  /\ DOMAIN k = DOMAIN h \cup {a + n}
  /\ k[a].size = n /\ k[a + n].size = h[a].size - n
  /\ \A x \in DOMAIN h \ {a} : k[x].size = h[x].size

\* Where the parts are.
LEMMA SplitFacts ==
  ASSUME NEW h, NEW t, NEW hs, NEW ch, Typed(h), HeapsSound(hs, ch), Tiled(h, t, hs, ch),
         NEW a \in DOMAIN h, a \notin EndTags(hs, ch),
         NEW n \in Nat, 0 < n, n < h[a].size,
         NEW k, Typed(k), IsSplit(h, k, a, n)
  PROVE  /\ a + n \notin DOMAIN h /\ a + n \notin EndTags(hs, ch)
         /\ Behind(k, a) = a + n /\ Behind(k, a + n) = Behind(h, a)
         /\ \A x \in DOMAIN h \ {a} : Behind(k, x) = Behind(h, x)
         /\ HeapOf(a + n) = HeapOf(a) /\ a + n < EndOf(HeapOf(a), hs)
         /\ FirstOf(HeapOf(a), ch) <= a + n
<1>1. a \in Nat /\ h[a].size \in Nat /\ a < a + n /\ a + n < Behind(h, a)
  BY TypedTags DEF Behind
<1>2. a + n \notin DOMAIN h
  <2>1. \A b \in DOMAIN h : b <= a \/ b >= Behind(h, a)
    BY DEF Tiled
  <2>2. a + n \in Nat /\ Behind(h, a) \in Nat /\ ~(a + n <= a) /\ ~(a + n >= Behind(h, a))
    BY <1>1, TypedTags
  <2> QED BY <2>1, <2>2
<1>3. EndTags(hs, ch) \subseteq DOMAIN h
  BY DEF Tiled
<1>4. /\ a # a + n /\ k[a].size = n /\ k[a + n].size = h[a].size - n
      /\ \A x \in DOMAIN h \ {a} : k[x].size = h[x].size
  BY <1>1 DEF IsSplit
<1>5. /\ Behind(k, a) = a + n /\ Behind(k, a + n) = Behind(h, a)
      /\ \A x \in DOMAIN h \ {a} : Behind(k, x) = Behind(h, x)
  <2>1. a + n + (h[a].size - n) = a + h[a].size
    BY <1>1
  <2> QED BY <2>1, <1>4 DEF Behind
<1>6. /\ HeapOf(a + n) = HeapOf(a) /\ a + n < EndOf(HeapOf(a), hs)
      /\ FirstOf(HeapOf(a), ch) <= a + n
  BY <1>1, InsideChunk
<1> QED BY <1>2, <1>3, <1>5, <1>6

\* Chunks still tile the heaps when one is split, the top chunk or another.
LEMMA TilesSplit ==
  ASSUME NEW h, NEW t, NEW hs, NEW ch, Typed(h), HeapsSound(hs, ch), Tiled(h, t, hs, ch),
         NEW a \in DOMAIN h, a \notin EndTags(hs, ch),
         NEW n \in Nat, 0 < n, n < h[a].size, a = t => h[a].size - n >= MinSize,
         NEW k, Typed(k), IsSplit(h, k, a, n),
         NEW u, u = IF a = t THEN a + n ELSE t
  PROVE  Tiled(k, u, hs, ch)
<1> DEFINE E == EndTags(hs, ch)
<1>1. /\ a + n \notin DOMAIN h /\ a + n \notin E
      /\ Behind(k, a) = a + n /\ Behind(k, a + n) = Behind(h, a)
      /\ \A x \in DOMAIN h \ {a} : Behind(k, x) = Behind(h, x)
      /\ HeapOf(a + n) = HeapOf(a) /\ a + n < EndOf(HeapOf(a), hs)
      /\ FirstOf(HeapOf(a), ch) <= a + n
  BY SplitFacts
<1>2. /\ a \in Nat /\ h[a].size \in Nat /\ a < a + n /\ a + n < Behind(h, a) /\ a # a + n
      /\ Behind(h, a) \in Nat
  BY TypedTags DEF Behind
<1>3. /\ DOMAIN k = DOMAIN h \cup {a + n}
      /\ k[a].size = n /\ k[a + n].size = h[a].size - n
      /\ \A x \in DOMAIN h \ {a} : k[x].size = h[x].size
  BY DEF IsSplit
<1>4. \A x \in DOMAIN h : x \in Nat /\ h[x].size \in Nat /\ Behind(h, x) \in Nat
  BY TypedTags
<1>5. /\ t \in DOMAIN h /\ t \notin E
      /\ HeapOf(t) = ch[Len(ch)] /\ Behind(h, t) = EndOf(ch[Len(ch)], hs) /\ h[t].size >= MinSize
      /\ \A g \in Range(ch) : FirstOf(g, ch) \in DOMAIN h /\ HeapOf(FirstOf(g, ch)) = g
      /\ \A x \in DOMAIN h :
           HeapOf(x) \in Range(ch) /\ FirstOf(HeapOf(x), ch) <= x /\ x < EndOf(HeapOf(x), hs)
      /\ \A e \in E : e \in DOMAIN h /\ h[e].size = 0
      /\ \A x \in DOMAIN h \ E : h[x].size > 0 /\ \A b \in DOMAIN h : b <= x \/ b >= Behind(h, x)
      /\ \A x \in DOMAIN h \ (E \cup {t}) :
           Behind(h, x) \in DOMAIN h /\ HeapOf(Behind(h, x)) = HeapOf(x)
  BY DEF Tiled
<1> HIDE DEF E
<1>6. /\ u \in DOMAIN k /\ u \notin E
      /\ HeapOf(u) = ch[Len(ch)] /\ Behind(k, u) = EndOf(ch[Len(ch)], hs) /\ k[u].size >= MinSize
  BY <1>1, <1>2, <1>3, <1>5
<1>7. \A g \in Range(ch) : FirstOf(g, ch) \in DOMAIN k /\ HeapOf(FirstOf(g, ch)) = g
  BY <1>3, <1>5
<1>8. \A x \in DOMAIN k :
        HeapOf(x) \in Range(ch) /\ FirstOf(HeapOf(x), ch) <= x /\ x < EndOf(HeapOf(x), hs)
  BY <1>1, <1>3, <1>5
<1>9. \A e \in E : e \in DOMAIN k /\ k[e].size = 0
  BY <1>3, <1>5, a \notin E DEF E
<1>10. ASSUME NEW x \in DOMAIN k \ E
       PROVE  k[x].size > 0 /\ \A b \in DOMAIN k : b <= x \/ b >= Behind(k, x)
  <2>0. a \in DOMAIN h \ E
    BY DEF E
  <2>01. \A b \in DOMAIN h : b \in Nat /\ (b <= a \/ b >= Behind(h, a))
    BY <2>0, <1>4, <1>5
  <2>1. CASE x = a
    <3>1. \A b \in DOMAIN h : b <= a \/ b >= a + n
      BY <2>01, <1>2
    <3> QED BY <3>1, <2>1, <1>1, <1>2, <1>3
  <2>2. CASE x = a + n
    <3>1. \A b \in DOMAIN h : b <= a + n \/ b >= Behind(h, a)
      BY <2>01, <1>2
    <3> QED BY <3>1, <2>2, <1>1, <1>2, <1>3
  <2>3. CASE x \in DOMAIN h \ {a}
    <3>1. k[x].size = h[x].size /\ Behind(k, x) = Behind(h, x) /\ x \in Nat /\ h[x].size > 0
      BY <2>3, <1>1, <1>3, <1>4, <1>5
    <3>2. \A b \in DOMAIN h : b <= x \/ b >= Behind(h, x)
      BY <2>3, <1>5
    <3>3. a + n <= x \/ a + n >= Behind(h, x)
      <4>1. x <= a \/ x >= Behind(h, a)
        BY <2>0, <2>3, <1>5
      <4>2. a <= x \/ a >= Behind(h, x)
        BY <3>2
      <4> QED BY <4>1, <4>2, <2>3, <1>2, <1>4
    <3> QED BY <3>1, <3>2, <3>3, <1>3
  <2> QED BY <2>1, <2>2, <2>3, <1>3
<1>11. \A x \in DOMAIN k \ (E \cup {u}) :
         Behind(k, x) \in DOMAIN k /\ HeapOf(Behind(k, x)) = HeapOf(x)
  <2>0. a \in DOMAIN h \ E
    BY DEF E
  <2>1. SUFFICES ASSUME NEW x \in DOMAIN k \ (E \cup {u})
                 PROVE  Behind(k, x) \in DOMAIN k /\ HeapOf(Behind(k, x)) = HeapOf(x)
    OBVIOUS
  <2>2. CASE x = a
    BY <2>2, <1>1, <1>3
  <2>3. CASE x = a + n
    BY <2>3, <2>0, <1>1, <1>2, <1>3, <1>5
  <2>4. CASE x \in DOMAIN h \ {a}
    BY <2>4, <1>1, <1>2, <1>3, <1>5
  <2> QED BY <2>2, <2>3, <2>4, <1>3
<1> QED BY <1>6, <1>7, <1>8, <1>9, <1>10, <1>11 DEF Tiled, E

\* The chunks of k are those of h, but that the one behind a is part of a.
IsJoin(h, k, a) ==
  /\ DOMAIN k = DOMAIN h \ {Behind(h, a)}
  /\ k[a].size = h[a].size + h[Behind(h, a)].size
  /\ \A x \in DOMAIN h \ {a, Behind(h, a)} : k[x].size = h[x].size

\* When a chunk takes in the one behind it, all others stay where they are.
LEMMA JoinFacts ==
  ASSUME NEW h, NEW t, NEW hs, NEW ch, Typed(h), HeapsSound(hs, ch), Tiled(h, t, hs, ch),
         NEW a \in DOMAIN h, a \notin EndTags(hs, ch), a # t, Behind(h, a) \notin EndTags(hs, ch),
         NEW k, Typed(k), IsJoin(h, k, a)
  PROVE  /\ Behind(h, a) \in DOMAIN h /\ a < Behind(h, a) /\ a \in DOMAIN k
         /\ HeapOf(Behind(h, a)) = HeapOf(a)
         /\ Behind(k, a) = Behind(h, Behind(h, a))
         /\ \A x \in DOMAIN k \ {a} : Behind(k, x) = Behind(h, x)
         /\ \A x \in DOMAIN h \ (EndTags(hs, ch) \cup {t, a}) : Behind(h, x) # Behind(h, a)
         /\ \A g \in Range(ch) : FirstOf(g, ch) # Behind(h, a)
<1> DEFINE E == EndTags(hs, ch)
           b == Behind(h, a)
<1>1. \A x \in DOMAIN h : x \in Nat /\ h[x].size \in Nat /\ Behind(h, x) \in Nat
  BY TypedTags
<1>2. /\ \A x \in DOMAIN h \ E : h[x].size > 0 /\ \A y \in DOMAIN h : y <= x \/ y >= Behind(h, x)
      /\ b \in DOMAIN h /\ HeapOf(b) = HeapOf(a)
      /\ \A x \in DOMAIN h : FirstOf(HeapOf(x), ch) <= x /\ HeapOf(x) \in Range(ch)
      /\ \A g \in Range(ch) : HeapOf(FirstOf(g, ch)) = g
  BY DEF Tiled
<1>3. a < b /\ a \in Nat /\ b \in Nat /\ b \notin E /\ a \notin E
  BY <1>1, <1>2 DEF Behind
<1>4. /\ DOMAIN k = DOMAIN h \ {b} /\ k[a].size = h[a].size + h[b].size
      /\ \A x \in DOMAIN h \ {a, b} : k[x].size = h[x].size
  BY DEF IsJoin
<1>5. /\ Behind(k, a) = Behind(h, b)
      /\ \A x \in DOMAIN k \ {a} : Behind(k, x) = Behind(h, x)
  <2>1. a + (h[a].size + h[b].size) = (a + h[a].size) + h[b].size
    BY <1>1, <1>2
  <2>2. b = a + h[a].size
    BY DEF Behind
  <2> HIDE DEF b
  <2> QED BY <2>1, <2>2, <1>4 DEF Behind
<1>6. ASSUME NEW x \in DOMAIN h \ (E \cup {t, a}), Behind(h, x) = b
      PROVE  FALSE
  <2>1. x \in Nat /\ h[x].size > 0 /\ Behind(h, x) > x
    BY <1>1, <1>2 DEF Behind
  <2>2. x <= a \/ x >= b
    BY <1>2, <1>3
  <2>3. a <= x \/ a >= Behind(h, x)
    BY <1>2
  <2> HIDE DEF b
  <2> QED BY <2>1, <2>2, <2>3, <1>3, <1>6
<1>7. ASSUME NEW g \in Range(ch), FirstOf(g, ch) = b
      PROVE  FALSE
  <2>1. FirstOf(HeapOf(a), ch) <= a /\ HeapOf(a) \in Range(ch)
    BY <1>2
  <2>2. /\ g \in Nat /\ Base(g) \in Nat /\ FirstOf(g, ch) > Base(g) /\ hs[g] <= HeapMax
        /\ FirstOf(HeapOf(a), ch) \in Nat
    BY <2>1, HeapFacts
  <2>3. HeapOf(b) = g
    BY <1>2, <1>7
  <2> QED BY <2>1, <2>2, <2>3, <1>2, <1>3, <1>7
<1> HIDE DEF E, b
<1> QED BY <1>2, <1>3, <1>4, <1>5, <1>6, <1>7 DEF E, b

\* Chunks still tile the heaps when one takes in the one behind it.
LEMMA TilesJoin ==
  ASSUME NEW h, NEW t, NEW hs, NEW ch, Typed(h), HeapsSound(hs, ch), Tiled(h, t, hs, ch),
         NEW a \in DOMAIN h, a \notin EndTags(hs, ch), a # t, Behind(h, a) \notin EndTags(hs, ch),
         NEW k, Typed(k), IsJoin(h, k, a),
         NEW u, u = IF Behind(h, a) = t THEN a ELSE t
  PROVE  Tiled(k, u, hs, ch)
<1> DEFINE E == EndTags(hs, ch)
           b == Behind(h, a)
<1>1. /\ b \in DOMAIN h /\ a < b /\ a \in DOMAIN k
      /\ HeapOf(b) = HeapOf(a)
      /\ Behind(k, a) = Behind(h, b)
      /\ \A x \in DOMAIN k \ {a} : Behind(k, x) = Behind(h, x)
      /\ \A x \in DOMAIN h \ (E \cup {t, a}) : Behind(h, x) # b
      /\ \A g \in Range(ch) : FirstOf(g, ch) # b
  BY JoinFacts
<1>2. /\ DOMAIN k = DOMAIN h \ {b} /\ k[a].size = h[a].size + h[b].size
      /\ \A x \in DOMAIN h \ {a, b} : k[x].size = h[x].size
  BY DEF IsJoin
<1>3. /\ \A x \in DOMAIN h : x \in Nat /\ h[x].size \in Nat /\ Behind(h, x) \in Nat
      /\ a \in DOMAIN h \ E /\ b \in DOMAIN h \ E
  BY TypedTags, <1>1
<1>4. MinSize \in Nat
  BY Constants
<1>5. /\ t \in DOMAIN h /\ t \notin E
      /\ HeapOf(t) = ch[Len(ch)] /\ Behind(h, t) = EndOf(ch[Len(ch)], hs) /\ h[t].size >= MinSize
      /\ \A g \in Range(ch) : FirstOf(g, ch) \in DOMAIN h /\ HeapOf(FirstOf(g, ch)) = g
      /\ \A x \in DOMAIN h :
           HeapOf(x) \in Range(ch) /\ FirstOf(HeapOf(x), ch) <= x /\ x < EndOf(HeapOf(x), hs)
      /\ \A e \in E : e \in DOMAIN h /\ h[e].size = 0
      /\ \A x \in DOMAIN h \ E : h[x].size > 0 /\ \A y \in DOMAIN h : y <= x \/ y >= Behind(h, x)
      /\ \A x \in DOMAIN h \ (E \cup {t}) :
           Behind(h, x) \in DOMAIN h /\ HeapOf(Behind(h, x)) = HeapOf(x)
  BY DEF Tiled
<1>51. a # t
  OBVIOUS
<1>52. u = IF b = t THEN a ELSE t
  OBVIOUS
<1> HIDE DEF E, b
<1>6. /\ u \in DOMAIN k /\ u \notin E
      /\ HeapOf(u) = ch[Len(ch)] /\ Behind(k, u) = EndOf(ch[Len(ch)], hs) /\ k[u].size >= MinSize
  <2>1. CASE b = t
    BY <2>1, <1>1, <1>2, <1>3, <1>4, <1>5, <1>52
  <2>2. CASE b # t
    BY <2>2, <1>1, <1>2, <1>3, <1>4, <1>5, <1>51, <1>52
  <2> QED BY <2>1, <2>2
<1>7. \A g \in Range(ch) : FirstOf(g, ch) \in DOMAIN k /\ HeapOf(FirstOf(g, ch)) = g
  BY <1>1, <1>2, <1>5
<1>8. \A x \in DOMAIN k :
        HeapOf(x) \in Range(ch) /\ FirstOf(HeapOf(x), ch) <= x /\ x < EndOf(HeapOf(x), hs)
  BY <1>2, <1>5
<1>9. \A e \in E : e \in DOMAIN k /\ k[e].size = 0
  BY <1>2, <1>3, <1>5
<1>10. ASSUME NEW x \in DOMAIN k \ E
       PROVE  k[x].size > 0 /\ \A y \in DOMAIN k : y <= x \/ y >= Behind(k, x)
  <2>1. CASE x = a
    <3>1. h[a].size > 0 /\ h[b].size > 0
      BY <1>3, <1>5
    <3>2. \A y \in DOMAIN h : (y <= a \/ y >= b) /\ (y <= b \/ y >= Behind(h, b)) /\ y \in Nat
      BY <1>3, <1>5 DEF b
    <3>3. \A y \in DOMAIN k : y # b /\ y \in DOMAIN h
      BY <1>2
    <3>4. \A y \in DOMAIN k : y <= a \/ y >= Behind(h, b)
      BY <3>2, <3>3, <1>3
    <3> QED BY <2>1, <3>1, <3>4, <1>1, <1>2, <1>3
  <2>2. CASE x # a
    BY <2>2, <1>1, <1>2, <1>3, <1>5
  <2> QED BY <2>1, <2>2
<1>11. ASSUME NEW x \in DOMAIN k \ (E \cup {u})
       PROVE  Behind(k, x) \in DOMAIN k /\ HeapOf(Behind(k, x)) = HeapOf(x)
  <2>1. CASE x = a
    <3>1. b # t
      BY <2>1, <1>11, <1>52
    <3>2. Behind(h, b) \in DOMAIN h /\ HeapOf(Behind(h, b)) = HeapOf(b)
      BY <3>1, <1>3, <1>5
    <3>3. Behind(h, b) # b
      BY <1>3, <1>5 DEF Behind
    <3> QED BY <2>1, <3>2, <3>3, <1>1, <1>2
  <2>2. CASE x # a
    <3>1. x \in DOMAIN h \ (E \cup {t, a})
      BY <2>2, <1>2, <1>11, <1>51, <1>52
    <3> QED BY <3>1, <2>2, <1>1, <1>2, <1>5
  <2> QED BY <2>1, <2>2
<1> QED BY <1>6, <1>7, <1>8, <1>9, <1>10, <1>11 DEF Tiled, E

-----------------------------------------------------------------------------
(* Tags.                                                                   *)

\* What every chunk knows of the one in front of it and of the one behind.
LEMMA Neighbours ==
  ASSUME NEW h, NEW t, NEW hs, NEW ch, NEW G, MemorySound(h, t, hs, ch, G),
         NEW E, E = EndTags(hs, ch)
  PROVE  /\ t \in DOMAIN h /\ t \notin E /\ E \subseteq DOMAIN h
         /\ \A a \in DOMAIN h \ (E \cup {t}) :
              Behind(h, a) \in DOMAIN h /\ Behind(h, a) > a
         /\ \A a, b \in DOMAIN h \ (E \cup {t}) : Behind(h, a) = Behind(h, b) => a = b
         /\ \A a \in DOMAIN h \ (E \cup {t}) : a \notin G => h[Behind(h, a)].pinuse
         /\ \A x \in DOMAIN h : ~h[x].pinuse =>
              x \notin E /\ x # t /\ Behind(h, x - h[x].prev) = x
         /\ h[t].prev = 0
         /\ \A a \in OrdinaryOf(h, t, E) :
              /\ a \in DOMAIN h \ (E \cup {t}) /\ h[a].size >= MinSize
              /\ Behind(h, a) \in DOMAIN h \ E
         /\ \A a \in G :
              /\ a \in OrdinaryOf(h, t, E)
              /\ Behind(h, a) \in DOMAIN h \ (E \cup {t}) /\ Behind(h, a) \notin G
              /\ Behind(h, Behind(h, a)) \in DOMAIN h
<1>1. /\ Typed(h) /\ HeapsSound(hs, ch) /\ Tiled(h, t, hs, ch)
      /\ FootersSound(h, t, E, G) /\ FlagsSound(h, t, E, G)
  BY DEF MemorySound
<1>2. \A x \in DOMAIN h : x \in Nat /\ h[x].size \in Nat /\ h[x].prev \in Nat /\ Behind(h, x) \in Nat
  BY <1>1, TypedTags
<1>3. /\ t \in DOMAIN h /\ t \notin E /\ E \subseteq DOMAIN h
      /\ \A x \in DOMAIN h \ E : h[x].size > 0 /\ \A y \in DOMAIN h : y <= x \/ y >= Behind(h, x)
      /\ \A x \in DOMAIN h \ (E \cup {t}) : Behind(h, x) \in DOMAIN h
  BY <1>1 DEF Tiled
<1>4. \A a \in DOMAIN h \ E : Behind(h, a) > a
  BY <1>2, <1>3 DEF Behind
<1>5. \A a, b \in DOMAIN h \ (E \cup {t}) : Behind(h, a) = Behind(h, b) => a = b
  <2>1. SUFFICES ASSUME NEW a \in DOMAIN h \ (E \cup {t}), NEW b \in DOMAIN h \ (E \cup {t}),
                        Behind(h, a) = Behind(h, b), a # b
                 PROVE  FALSE
    OBVIOUS
  <2>2. (a <= b \/ a >= Behind(h, b)) /\ (b <= a \/ b >= Behind(h, a))
    BY <1>3
  <2> QED BY <2>1, <2>2, <1>2, <1>4
<1>6. \A x \in DOMAIN h : ~h[x].pinuse => x - h[x].prev \in G /\ h[x - h[x].prev].size = h[x].prev
  BY <1>1 DEF FootersSound
<1>7. \A x \in DOMAIN h : ~h[x].pinuse => Behind(h, x - h[x].prev) = x
  BY <1>2, <1>6 DEF Behind
<1>8. /\ G \subseteq OrdinaryOf(h, t, E)
      /\ \A a \in OrdinaryOf(h, t, E) : h[a].size >= MinSize
      /\ \A a \in G : h[a].pinuse /\ ~h[Behind(h, a)].pinuse /\ Behind(h, a) # t
  BY <1>1 DEF FlagsSound
<1>9. \A a \in OrdinaryOf(h, t, E) : a \in DOMAIN h \ (E \cup {t}) /\ Behind(h, a) \notin E
  BY DEF OrdinaryOf
<1>10. \A a \in DOMAIN h \ (E \cup {t}) : a \notin G => h[Behind(h, a)].pinuse
  <2>1. SUFFICES ASSUME NEW a \in DOMAIN h \ (E \cup {t}), a \notin G, ~h[Behind(h, a)].pinuse
                 PROVE  FALSE
    OBVIOUS
  <2> DEFINE x == Behind(h, a)
             y == x - h[x].prev
  <2>2. x \in DOMAIN h
    BY <1>3
  <2>3. y \in G /\ Behind(h, y) = x
    BY <2>1, <2>2, <1>6, <1>7
  <2>4. y \in DOMAIN h \ (E \cup {t})
    BY <2>3, <1>8, <1>9
  <2> QED BY <2>1, <2>3, <2>4, <1>5
<1>11. \A e \in E : h[e].pinuse
  BY <1>1 DEF FootersSound
<1>12. h[t].pinuse /\ h[t].prev = 0
  BY <1>1, <1>3 DEF FootersSound
<1> QED BY <1>3, <1>4, <1>5, <1>7, <1>8, <1>9, <1>10, <1>11, <1>12

\* k is h with the free chunk v in use.
IsTaken(h, k, v) ==
  LET b == Behind(h, v) IN
  /\ DOMAIN k = DOMAIN h /\ \A x \in DOMAIN h : k[x].size = h[x].size
  /\ k[b].pinuse /\ k[b].prev = 0 /\ k[b].nonMain = h[b].nonMain
  /\ k[v].pinuse = h[v].pinuse /\ k[v].prev = h[v].prev /\ k[v].nonMain
  /\ \A x \in DOMAIN h \ {v, b} : k[x] = h[x]

\* Tiling is about sizes only.
LEMMA SameTiles ==
  ASSUME NEW h, NEW t, NEW hs, NEW ch, Tiled(h, t, hs, ch),
         NEW k, DOMAIN k = DOMAIN h, \A x \in DOMAIN h : k[x].size = h[x].size
  PROVE  /\ Tiled(k, t, hs, ch) /\ \A x \in DOMAIN h : Behind(k, x) = Behind(h, x)
         /\ \A E : E \subseteq DOMAIN h => OrdinaryOf(k, t, E) = OrdinaryOf(h, t, E)
<1>1. \A x \in DOMAIN h : Behind(k, x) = Behind(h, x)
  BY DEF Behind
<1>2. t \in DOMAIN h
  BY DEF Tiled
<1>3. Tiled(k, t, hs, ch)
  BY <1>1, <1>2 DEF Tiled
<1>4. \A E : E \subseteq DOMAIN h => OrdinaryOf(k, t, E) = OrdinaryOf(h, t, E)
  BY <1>1 DEF OrdinaryOf
<1> QED BY <1>1, <1>3, <1>4

\* A chunk leaves its bin.
LEMMA TakenSound ==
  ASSUME NEW h, NEW t, NEW hs, NEW ch, NEW G, MemorySound(h, t, hs, ch, G),
         NEW v \in G, NEW k, Typed(k), IsTaken(h, k, v)
  PROVE  /\ MemorySound(k, t, hs, ch, G \ {v})
         /\ OrdinaryOf(k, t, EndTags(hs, ch)) = OrdinaryOf(h, t, EndTags(hs, ch))
         /\ \A x \in DOMAIN h : Behind(k, x) = Behind(h, x)
<1> DEFINE E == EndTags(hs, ch)
           O == OrdinaryOf(h, t, E)
           b == Behind(h, v)
<1>1. /\ Typed(h) /\ HeapsSound(hs, ch) /\ Tiled(h, t, hs, ch)
      /\ FootersSound(h, t, E, G) /\ FlagsSound(h, t, E, G)
  BY DEF MemorySound
<1>2. /\ t \in DOMAIN h /\ t \notin E /\ E \subseteq DOMAIN h
      /\ \A a, c \in DOMAIN h \ (E \cup {t}) : Behind(h, a) = Behind(h, c) => a = c
      /\ \A x \in DOMAIN h : ~h[x].pinuse => Behind(h, x - h[x].prev) = x
      /\ \A a \in G :
           /\ a \in O /\ a \in DOMAIN h \ (E \cup {t})
           /\ Behind(h, a) \in DOMAIN h \ (E \cup {t}) /\ Behind(h, a) \notin G
           /\ Behind(h, Behind(h, a)) \in DOMAIN h
  BY Neighbours
<1>3. /\ DOMAIN k = DOMAIN h /\ \A x \in DOMAIN h : k[x].size = h[x].size
      /\ k[b].pinuse /\ k[b].prev = 0 /\ k[b].nonMain = h[b].nonMain
      /\ k[v].pinuse = h[v].pinuse /\ k[v].prev = h[v].prev /\ k[v].nonMain
      /\ \A x \in DOMAIN h \ {v, b} : k[x] = h[x]
  BY DEF IsTaken
<1>4. /\ Tiled(k, t, hs, ch) /\ \A x \in DOMAIN h : Behind(k, x) = Behind(h, x)
      /\ OrdinaryOf(k, t, E) = O
  BY <1>1, <1>2, <1>3, SameTiles
<1>5. b # v /\ b \in DOMAIN h /\ v \in DOMAIN h /\ b \notin E /\ v \notin E /\ b # t /\ v # t
  BY <1>2
<1>6. FootersSound(k, t, E, G \ {v})
  <2>1. k[t].pinuse
    BY <1>1, <1>2, <1>3, <1>5 DEF FootersSound
  <2>2. \A x \in DOMAIN h \ E : k[x].pinuse => k[x].prev = 0
    BY <1>1, <1>2, <1>3, <1>5 DEF FootersSound
  <2>3. ASSUME NEW x \in DOMAIN h, ~k[x].pinuse
        PROVE  x - k[x].prev \in G \ {v} /\ k[x - k[x].prev].size = k[x].prev
    <3>1. x # b /\ h[x].pinuse = k[x].pinuse /\ h[x].prev = k[x].prev
      BY <2>3, <1>3, <1>5
    <3>2. x - h[x].prev \in G /\ h[x - h[x].prev].size = h[x].prev
      BY <3>1, <2>3, <1>1 DEF FootersSound
    <3>3. x - h[x].prev # v
      BY <3>1, <2>3, <1>2
    <3> QED BY <3>1, <3>2, <3>3, <1>2, <1>3
  <2>4. ASSUME NEW e \in E
        PROVE  /\ k[e].pinuse /\ k[e].prev \in 1..MinSize
               /\ e - k[e].prev \in DOMAIN k /\ k[e - k[e].prev].size = k[e].prev
    BY <1>1, <1>2, <1>3, <1>5 DEF FootersSound
  <2> QED BY <2>1, <2>2, <2>3, <2>4, <1>3 DEF FootersSound
<1>7. FlagsSound(k, t, E, G \ {v})
  <2>1. /\ G \subseteq O
        /\ \A a \in O : h[a].size >= MinSize /\ a \in DOMAIN h
        /\ \A a \in O \ G : h[a].nonMain
        /\ \A a \in G :
             /\ h[a].pinuse /\ ~h[a].nonMain
             /\ ~h[Behind(h, a)].pinuse /\ h[Behind(h, a)].prev = h[a].size
             /\ Behind(h, a) # t /\ h[Behind(h, Behind(h, a))].pinuse
    BY <1>1 DEF FlagsSound, OrdinaryOf
  <2>2. /\ G \ {v} \subseteq O
        /\ \A a \in O : k[a].size >= MinSize
        /\ \A a \in O \ (G \ {v}) : k[a].nonMain
    BY <2>1, <1>2, <1>3, <1>5
  <2>3. ASSUME NEW a \in G \ {v}
        PROVE  /\ k[a].pinuse /\ ~k[a].nonMain
               /\ ~k[Behind(k, a)].pinuse /\ k[Behind(k, a)].prev = k[a].size
               /\ Behind(k, a) # t /\ k[Behind(k, Behind(k, a))].pinuse
    <3>1. a # b /\ a # v /\ Behind(h, a) # b /\ Behind(h, a) # v /\ a \in DOMAIN h
      BY <2>1, <1>2
    <3>2. k[a] = h[a] /\ Behind(k, a) = Behind(h, a) /\ k[Behind(h, a)] = h[Behind(h, a)]
      BY <3>1, <1>2, <1>3, <1>4
    <3>3. Behind(k, Behind(h, a)) = Behind(h, Behind(h, a))
      BY <1>2, <1>4
    <3>4. k[Behind(h, Behind(h, a))].pinuse
      BY <2>1, <1>2, <1>3
    <3> QED BY <3>2, <3>3, <3>4, <2>1
  <2> QED BY <2>2, <2>3, <1>4 DEF FlagsSound
<1> QED BY <1>1, <1>4, <1>6, <1>7 DEF MemorySound

\* k is h with the chunk v, in use, marked free.
IsFreed(h, k, v) ==
  LET b == Behind(h, v) IN
  /\ DOMAIN k = DOMAIN h /\ \A x \in DOMAIN h : k[x].size = h[x].size
  /\ ~k[b].pinuse /\ k[b].prev = h[v].size /\ k[b].nonMain = h[b].nonMain
  /\ k[v].pinuse = h[v].pinuse /\ k[v].prev = h[v].prev /\ ~k[v].nonMain
  /\ \A x \in DOMAIN h \ {v, b} : k[x] = h[x]

\* A chunk with no free neighbour goes to a bin.
LEMMA FreedSound ==
  ASSUME NEW h, NEW t, NEW hs, NEW ch, NEW G, MemorySound(h, t, hs, ch, G),
         NEW v \in OrdinaryOf(h, t, EndTags(hs, ch)), v \notin G,
         h[v].pinuse, Behind(h, v) # t, h[Behind(h, Behind(h, v))].pinuse,
         NEW k, Typed(k), IsFreed(h, k, v)
  PROVE  /\ MemorySound(k, t, hs, ch, G \cup {v})
         /\ OrdinaryOf(k, t, EndTags(hs, ch)) = OrdinaryOf(h, t, EndTags(hs, ch))
         /\ \A x \in DOMAIN h : Behind(k, x) = Behind(h, x)
<1> DEFINE E == EndTags(hs, ch)
           O == OrdinaryOf(h, t, E)
           b == Behind(h, v)
<1>1. /\ Typed(h) /\ HeapsSound(hs, ch) /\ Tiled(h, t, hs, ch)
      /\ FootersSound(h, t, E, G) /\ FlagsSound(h, t, E, G)
  BY DEF MemorySound
<1>2. /\ t \in DOMAIN h /\ t \notin E /\ E \subseteq DOMAIN h
      /\ \A a \in DOMAIN h \ (E \cup {t}) : Behind(h, a) \in DOMAIN h /\ Behind(h, a) > a
      /\ \A a, c \in DOMAIN h \ (E \cup {t}) : Behind(h, a) = Behind(h, c) => a = c
      /\ \A x \in DOMAIN h : ~h[x].pinuse => Behind(h, x - h[x].prev) = x
      /\ \A a \in O : a \in DOMAIN h \ (E \cup {t}) /\ Behind(h, a) \in DOMAIN h \ E
      /\ \A a \in G :
           /\ a \in O /\ a \in DOMAIN h \ (E \cup {t})
           /\ Behind(h, a) \in DOMAIN h \ (E \cup {t}) /\ Behind(h, a) \notin G
           /\ Behind(h, Behind(h, a)) \in DOMAIN h
  BY Neighbours
<1>3. /\ DOMAIN k = DOMAIN h /\ \A x \in DOMAIN h : k[x].size = h[x].size
      /\ ~k[b].pinuse /\ k[b].prev = h[v].size /\ k[b].nonMain = h[b].nonMain
      /\ k[v].pinuse = h[v].pinuse /\ k[v].prev = h[v].prev /\ ~k[v].nonMain
      /\ \A x \in DOMAIN h \ {v, b} : k[x] = h[x]
  BY DEF IsFreed
<1>4. /\ Tiled(k, t, hs, ch) /\ \A x \in DOMAIN h : Behind(k, x) = Behind(h, x)
      /\ OrdinaryOf(k, t, E) = O
  BY <1>1, <1>2, <1>3, SameTiles
<1>5. /\ v \in O /\ b \in DOMAIN h /\ v \in DOMAIN h /\ b \notin E /\ v \notin E /\ b # t /\ v # t
      /\ h[v].pinuse /\ h[Behind(h, b)].pinuse /\ b \in Nat /\ v \in Nat /\ b > v /\ v \notin G
      /\ h[v].size \in Nat /\ b = v + h[v].size
  BY <1>1, <1>2, TypedTags DEF Behind
<1>6. b # v /\ b - h[v].size = v
  BY <1>5
<1>7. \A a \in G : a # b
  BY <1>1, <1>5 DEF FlagsSound
<1> HIDE DEF b
<1>8. FootersSound(k, t, E, G \cup {v})
  <2>1. k[t].pinuse
    BY <1>1, <1>2, <1>3, <1>5 DEF FootersSound
  <2>2. \A x \in DOMAIN h \ E : k[x].pinuse => k[x].prev = 0
    BY <1>1, <1>2, <1>3, <1>5 DEF FootersSound
  <2>3. ASSUME NEW x \in DOMAIN h, ~k[x].pinuse
        PROVE  x - k[x].prev \in G \cup {v} /\ k[x - k[x].prev].size = k[x].prev
    <3>1. CASE x = b
      BY <3>1, <1>3, <1>5, <1>6
    <3>2. CASE x # b
      <4>1. h[x].pinuse = k[x].pinuse /\ h[x].prev = k[x].prev
        BY <3>2, <1>3, <1>5
      <4>2. x - h[x].prev \in G /\ h[x - h[x].prev].size = h[x].prev
        BY <4>1, <2>3, <1>1 DEF FootersSound
      <4> QED BY <4>1, <4>2, <1>2, <1>3
    <3> QED BY <3>1, <3>2
  <2>4. ASSUME NEW e \in E
        PROVE  /\ k[e].pinuse /\ k[e].prev \in 1..MinSize
               /\ e - k[e].prev \in DOMAIN k /\ k[e - k[e].prev].size = k[e].prev
    BY <1>1, <1>2, <1>3, <1>5 DEF FootersSound
  <2> QED BY <2>1, <2>2, <2>3, <2>4, <1>3 DEF FootersSound
<1>9. FlagsSound(k, t, E, G \cup {v})
  <2>1. /\ G \subseteq O
        /\ \A a \in O : h[a].size >= MinSize /\ a \in DOMAIN h
        /\ \A a \in O \ G : h[a].nonMain
        /\ \A a \in G :
             /\ h[a].pinuse /\ ~h[a].nonMain
             /\ ~h[Behind(h, a)].pinuse /\ h[Behind(h, a)].prev = h[a].size
             /\ Behind(h, a) # t /\ h[Behind(h, Behind(h, a))].pinuse
    BY <1>1 DEF FlagsSound, OrdinaryOf
  <2>2. /\ G \cup {v} \subseteq O
        /\ \A a \in O : k[a].size >= MinSize
        /\ \A a \in O \ (G \cup {v}) : k[a].nonMain
    BY <2>1, <1>2, <1>3, <1>5
  <2>3. ASSUME NEW a \in G
        PROVE  /\ k[a].pinuse /\ ~k[a].nonMain
               /\ ~k[Behind(k, a)].pinuse /\ k[Behind(k, a)].prev = k[a].size
               /\ Behind(k, a) # t /\ k[Behind(k, Behind(k, a))].pinuse
    <3>1. a # b /\ a # v /\ Behind(h, a) # b /\ Behind(h, a) # v /\ a \in DOMAIN h
      BY <2>1, <1>2, <1>5, <1>7 DEF b
    <3>2. k[a] = h[a] /\ Behind(k, a) = Behind(h, a) /\ k[Behind(h, a)] = h[Behind(h, a)]
      BY <3>1, <1>2, <1>3, <1>4
    <3>3. Behind(k, Behind(h, a)) = Behind(h, Behind(h, a))
      BY <1>2, <1>4
    <3>4. Behind(h, Behind(h, a)) # b
      BY <3>1, <1>2, <1>5 DEF b
    <3>5. k[Behind(h, Behind(h, a))].pinuse
      BY <3>4, <2>1, <1>2, <1>3
    <3> QED BY <3>2, <3>3, <3>5, <2>1
  <2>4. /\ k[v].pinuse /\ ~k[v].nonMain
        /\ ~k[Behind(k, v)].pinuse /\ k[Behind(k, v)].prev = k[v].size
        /\ Behind(k, v) # t /\ k[Behind(k, Behind(k, v))].pinuse
    <3>1. Behind(k, v) = b /\ Behind(k, b) = Behind(h, b)
      BY <1>4, <1>5 DEF b
    <3>2. Behind(h, b) # b /\ Behind(h, b) # v /\ Behind(h, b) \in DOMAIN h
      BY <1>2, <1>5
    <3>3. k[Behind(h, b)].pinuse
      BY <3>2, <1>3, <1>5
    <3> QED BY <3>1, <3>3, <1>3, <1>5
  <2> QED BY <2>2, <2>3, <2>4, <1>4 DEF FlagsSound
<1> QED BY <1>1, <1>4, <1>8, <1>9 DEF MemorySound, b

\* k is h with a, in use or top, split after n units; what is behind is in
\* use, or top.
IsCut(h, k, t, a, n) ==
  /\ IsSplit(h, k, a, n)
  /\ k[a].pinuse = h[a].pinuse /\ k[a].prev = h[a].prev /\ k[a].nonMain
  /\ k[a + n].pinuse /\ k[a + n].prev = 0 /\ (a # t => k[a + n].nonMain)
  /\ \A x \in DOMAIN h \ {a} : k[x] = h[x]

\* A chunk that is in no bin is split, or the top chunk gives its front.
LEMMA CutSound ==
  ASSUME NEW h, NEW t, NEW hs, NEW ch, NEW G, MemorySound(h, t, hs, ch, G),
         NEW a \in OrdinaryOf(h, t, EndTags(hs, ch)) \cup {t}, a \notin G,
         NEW n \in Nat, n >= MinSize, h[a].size - n >= MinSize,
         NEW k, Typed(k), IsCut(h, k, t, a, n),
         NEW u, u = IF a = t THEN a + n ELSE t
  PROVE  /\ MemorySound(k, u, hs, ch, G)
         /\ OrdinaryOf(k, u, EndTags(hs, ch))
              = OrdinaryOf(h, t, EndTags(hs, ch)) \cup {IF a = t THEN t ELSE a + n}
         /\ a + n \notin DOMAIN h
<1> DEFINE E == EndTags(hs, ch)
           O == OrdinaryOf(h, t, E)
           c == a + n
<1>1. /\ Typed(h) /\ HeapsSound(hs, ch) /\ Tiled(h, t, hs, ch)
      /\ FootersSound(h, t, E, G) /\ FlagsSound(h, t, E, G)
  BY DEF MemorySound
<1>2. /\ t \in DOMAIN h /\ t \notin E /\ E \subseteq DOMAIN h
      /\ \A x \in DOMAIN h \ (E \cup {t}) : Behind(h, x) \in DOMAIN h /\ Behind(h, x) > x
      /\ \A x \in DOMAIN h \ (E \cup {t}) : x \notin G => h[Behind(h, x)].pinuse
      /\ \A x \in DOMAIN h : ~h[x].pinuse => Behind(h, x - h[x].prev) = x
      /\ \A x \in O : x \in DOMAIN h \ (E \cup {t}) /\ Behind(h, x) \in DOMAIN h \ E
      /\ \A x \in G :
           /\ x \in O /\ x \in DOMAIN h \ (E \cup {t})
           /\ Behind(h, x) \in DOMAIN h \ (E \cup {t}) /\ Behind(h, x) \notin G
           /\ Behind(h, Behind(h, x)) \in DOMAIN h
  BY Neighbours
<1>3. /\ a \in DOMAIN h /\ a \notin E /\ a \in Nat /\ h[a].size \in Nat /\ 0 < n /\ n < h[a].size
      /\ MinSize \in Nat /\ MinSize > 0 /\ h[a].size - n > 0 /\ a \notin G
      /\ a = t => h[a].size - n >= MinSize
  BY <1>1, <1>2, TypedTags, Constants
<1>4. /\ DOMAIN k = DOMAIN h \cup {c}
      /\ k[a].size = n /\ k[c].size = h[a].size - n
      /\ \A x \in DOMAIN h \ {a} : k[x].size = h[x].size
      /\ k[a].pinuse = h[a].pinuse /\ k[a].prev = h[a].prev /\ k[a].nonMain
      /\ k[c].pinuse /\ k[c].prev = 0 /\ (a # t => k[c].nonMain)
      /\ \A x \in DOMAIN h \ {a} : k[x] = h[x]
      /\ IsSplit(h, k, a, n)
  BY DEF IsCut, IsSplit
<1>5. /\ c \notin DOMAIN h /\ c \notin E
      /\ Behind(k, a) = c /\ Behind(k, c) = Behind(h, a)
      /\ \A x \in DOMAIN h \ {a} : Behind(k, x) = Behind(h, x)
  BY <1>1, <1>3, <1>4, SplitFacts
<1>6. Tiled(k, u, hs, ch)
  BY <1>1, <1>3, <1>4, TilesSplit
<1>7. c # a /\ u = IF a = t THEN c ELSE t
  BY <1>3, <1>5
<1>8. \A x \in DOMAIN h : x \in Nat /\ h[x].size \in Nat /\ h[x].prev \in Nat
  BY <1>1, TypedTags
<1>80. Behind(h, a) \notin E
  <2>1. CASE a = t
    BY <2>1, <1>1, <1>2, NothingBehindTop
  <2>2. CASE a # t
    BY <2>2, <1>2
  <2> QED BY <2>1, <2>2
<1> HIDE DEF c
<1>9. OrdinaryOf(k, u, E) = O \cup {IF a = t THEN t ELSE c}
  <2>1. ASSUME NEW x \in DOMAIN k \ (E \cup {u}), Behind(k, x) \notin E
        PROVE  x \in O \cup {IF a = t THEN t ELSE c}
    BY <2>1, <1>3, <1>4, <1>5, <1>7, <1>80 DEF OrdinaryOf
  <2>2. ASSUME NEW x \in O \cup {IF a = t THEN t ELSE c}
        PROVE  x \in DOMAIN k \ (E \cup {u}) /\ Behind(k, x) \notin E
    <3>1. CASE x = a
      BY <3>1, <1>2, <1>3, <1>4, <1>5, <1>7
    <3>2. CASE x # a /\ x \in O
      BY <3>2, <1>2, <1>3, <1>4, <1>5, <1>7
    <3>3. CASE x = c /\ a # t
      BY <3>3, <1>2, <1>3, <1>4, <1>5, <1>7, <1>80
    <3> QED BY <2>2, <3>1, <3>2, <3>3
  <2> QED BY <2>1, <2>2 DEF OrdinaryOf
<1>10. FootersSound(k, u, E, G)
  <2>1. k[u].pinuse
    BY <1>1, <1>2, <1>4, <1>7 DEF FootersSound
  <2>2. \A x \in DOMAIN k \ E : k[x].pinuse => k[x].prev = 0
    BY <1>1, <1>2, <1>3, <1>4 DEF FootersSound
  <2>3. ASSUME NEW x \in DOMAIN k, ~k[x].pinuse
        PROVE  x - k[x].prev \in G /\ k[x - k[x].prev].size = k[x].prev
    <3>1. x \in DOMAIN h /\ h[x].pinuse = k[x].pinuse /\ h[x].prev = k[x].prev
      BY <2>3, <1>4
    <3>2. x - h[x].prev \in G /\ h[x - h[x].prev].size = h[x].prev
      BY <3>1, <2>3, <1>1 DEF FootersSound
    <3>3. x - h[x].prev # a /\ x - h[x].prev \in DOMAIN h
      BY <3>2, <1>2, <1>3
    <3> QED BY <3>1, <3>2, <3>3, <1>4
  <2>4. ASSUME NEW e \in E
        PROVE  /\ k[e].pinuse /\ k[e].prev \in 1..MinSize
               /\ e - k[e].prev \in DOMAIN k /\ k[e - k[e].prev].size = k[e].prev
    <3>1. /\ h[e].pinuse /\ h[e].prev \in 1..MinSize
          /\ e - h[e].prev \in DOMAIN h /\ h[e - h[e].prev].size = h[e].prev
      BY <1>1 DEF FootersSound
    <3>2. k[e] = h[e]
      BY <1>2, <1>3, <1>4
    <3>3. e - h[e].prev # a
      <4>1. (e - h[e].prev) + h[e].prev = e
        BY <3>1, <1>2, <1>8
      <4>2. Behind(h, e - h[e].prev) = e
        BY <3>1, <4>1 DEF Behind
      <4> QED BY <4>2, <1>80
    <3> QED BY <3>1, <3>2, <3>3, <1>4
  <2> QED BY <2>1, <2>2, <2>3, <2>4 DEF FootersSound
<1>11. FlagsSound(k, u, E, G)
  <2>1. /\ G \subseteq O
        /\ \A x \in O : h[x].size >= MinSize /\ x \in DOMAIN h
        /\ \A x \in O \ G : h[x].nonMain
        /\ \A x \in G :
             /\ h[x].pinuse /\ ~h[x].nonMain
             /\ ~h[Behind(h, x)].pinuse /\ h[Behind(h, x)].prev = h[x].size
             /\ Behind(h, x) # t /\ h[Behind(h, Behind(h, x))].pinuse
    BY <1>1 DEF FlagsSound, OrdinaryOf
  <2>2. h[a].size - n = k[c].size /\ h[a].size - n >= MinSize /\ n >= MinSize
    BY <1>4
  <2>3. /\ G \subseteq OrdinaryOf(k, u, E)
        /\ \A x \in OrdinaryOf(k, u, E) : k[x].size >= MinSize
        /\ \A x \in OrdinaryOf(k, u, E) \ G : k[x].nonMain
    BY <2>1, <2>2, <1>3, <1>4, <1>7, <1>9
  <2>4. ASSUME NEW x \in G
        PROVE  /\ k[x].pinuse /\ ~k[x].nonMain
               /\ ~k[Behind(k, x)].pinuse /\ k[Behind(k, x)].prev = k[x].size
               /\ Behind(k, x) # u /\ k[Behind(k, Behind(k, x))].pinuse
    <3> DEFINE y == Behind(h, x)
    <3>1. x # a /\ k[x] = h[x] /\ Behind(k, x) = y /\ y \in DOMAIN h /\ y # t /\ y \notin E /\ y # c
      BY <1>2, <1>3, <1>4, <1>5
    <3> HIDE DEF y
    <3>2. k[y].pinuse = h[y].pinuse /\ k[y].prev = h[y].prev
      BY <3>1, <1>4
    <3>3. k[Behind(k, y)].pinuse
      <4>1. CASE y = a
        BY <4>1, <1>4, <1>5
      <4>2. CASE y # a
        BY <4>2, <3>1, <2>1, <1>2, <1>4, <1>5 DEF y
      <4> QED BY <4>1, <4>2
    <3> QED BY <3>1, <3>2, <3>3, <2>1, <1>7 DEF y
  <2> QED BY <2>3, <2>4 DEF FlagsSound
<1> QED BY <1>1, <1>5, <1>6, <1>9, <1>10, <1>11 DEF MemorySound, c

\* k is h with the chunk behind a, in use or top, as a part of a.
IsFused(h, k, t, a) ==
  /\ IsJoin(h, k, a)
  /\ k[a].pinuse = h[a].pinuse /\ k[a].prev = h[a].prev
  /\ Behind(h, a) # t => k[a].nonMain
  /\ \A x \in DOMAIN h \ {a, Behind(h, a)} : k[x] = h[x]

\* A chunk in no bin takes in the one behind it, or becomes top with it.
LEMMA FusedSound ==
  ASSUME NEW h, NEW t, NEW hs, NEW ch, NEW G, MemorySound(h, t, hs, ch, G),
         NEW a \in OrdinaryOf(h, t, EndTags(hs, ch)), a \notin G,
         Behind(h, a) \in OrdinaryOf(h, t, EndTags(hs, ch)) \/ (Behind(h, a) = t /\ h[a].pinuse),
         Behind(h, a) \notin G,
         NEW k, Typed(k), IsFused(h, k, t, a),
         NEW u, u = IF Behind(h, a) = t THEN a ELSE t
  PROVE  /\ MemorySound(k, u, hs, ch, G)
         /\ OrdinaryOf(k, u, EndTags(hs, ch))
              = OrdinaryOf(h, t, EndTags(hs, ch)) \ {IF Behind(h, a) = t THEN a ELSE Behind(h, a)}
         /\ Behind(k, a) = Behind(h, Behind(h, a))
         /\ \A x \in DOMAIN k \ {a} : Behind(k, x) = Behind(h, x)
<1> DEFINE E == EndTags(hs, ch)
           O == OrdinaryOf(h, t, E)
           b == Behind(h, a)
<1>1. /\ Typed(h) /\ HeapsSound(hs, ch) /\ Tiled(h, t, hs, ch)
      /\ FootersSound(h, t, E, G) /\ FlagsSound(h, t, E, G)
  BY DEF MemorySound
<1>2. /\ t \in DOMAIN h /\ t \notin E /\ E \subseteq DOMAIN h
      /\ \A x \in DOMAIN h \ (E \cup {t}) : Behind(h, x) \in DOMAIN h /\ Behind(h, x) > x
      /\ \A x, y \in DOMAIN h \ (E \cup {t}) : Behind(h, x) = Behind(h, y) => x = y
      /\ \A x \in DOMAIN h \ (E \cup {t}) : x \notin G => h[Behind(h, x)].pinuse
      /\ \A x \in DOMAIN h : ~h[x].pinuse => Behind(h, x - h[x].prev) = x
      /\ \A x \in O : x \in DOMAIN h \ (E \cup {t}) /\ Behind(h, x) \in DOMAIN h \ E
      /\ \A x \in G :
           /\ x \in O /\ x \in DOMAIN h \ (E \cup {t})
           /\ Behind(h, x) \in DOMAIN h \ (E \cup {t}) /\ Behind(h, x) \notin G
           /\ Behind(h, Behind(h, x)) \in DOMAIN h
  BY Neighbours
<1>3. /\ a \in O /\ a \in DOMAIN h /\ a \notin E /\ a # t /\ a \notin G /\ b \notin G
      /\ b \in DOMAIN h /\ b \notin E /\ (b \in O \/ (b = t /\ h[a].pinuse)) /\ (b # t => b \in O)
      /\ u = IF b = t THEN a ELSE t
  BY <1>2
<1>30. b = t => h[a].pinuse
  BY <1>2, <1>3
<1>4. /\ DOMAIN k = DOMAIN h \ {b} /\ k[a].size = h[a].size + h[b].size
      /\ k[a].pinuse = h[a].pinuse /\ k[a].prev = h[a].prev /\ (b # t => k[a].nonMain)
      /\ \A x \in DOMAIN h \ {a, b} : k[x] = h[x]
      /\ IsJoin(h, k, a)
  BY DEF IsFused, IsJoin
<1>5. /\ a # b /\ a \in DOMAIN k
      /\ Behind(k, a) = Behind(h, b)
      /\ \A x \in DOMAIN k \ {a} : Behind(k, x) = Behind(h, x)
      /\ \A x \in DOMAIN h \ (E \cup {t, a}) : Behind(h, x) # b
      /\ a < b
  BY <1>1, <1>3, <1>4, JoinFacts
<1>51. a # b
  BY <1>1, <1>3, <1>5, TypedTags
<1>6. Tiled(k, u, hs, ch)
  BY <1>1, <1>3, <1>4, TilesJoin
<1>7. \A x \in DOMAIN h : x \in Nat /\ h[x].size \in Nat /\ h[x].prev \in Nat
  BY <1>1, TypedTags
<1>8. Behind(h, b) \notin E /\ (b # t => Behind(h, b) # b)
  <2>1. CASE b = t
    BY <2>1, <1>1, <1>2, NothingBehindTop
  <2>2. CASE b # t
    BY <2>2, <1>2, <1>3, <1>7
  <2> QED BY <2>1, <2>2
<1> HIDE DEF b, O, E
<1>9. OrdinaryOf(k, u, E) = O \ {IF b = t THEN a ELSE b}
  <2>1. ASSUME NEW x \in DOMAIN k \ (E \cup {u}), Behind(k, x) \notin E
        PROVE  x \in O /\ x # IF b = t THEN a ELSE b
    <3>1. CASE x = a
      BY <3>1, <2>1, <1>3, <1>51
    <3>2. CASE x # a
      BY <3>2, <2>1, <1>3, <1>4, <1>5, <1>51 DEF OrdinaryOf, O
    <3> QED BY <3>1, <3>2
  <2>2. ASSUME NEW x \in O \ {IF b = t THEN a ELSE b}
        PROVE  x \in DOMAIN k \ (E \cup {u}) /\ Behind(k, x) \notin E
    BY <2>2, <1>2, <1>3, <1>4, <1>5, <1>51, <1>8
  <2> QED BY <2>1, <2>2 DEF OrdinaryOf
<1>10. FootersSound(k, u, E, G)
  <2>1. k[u].pinuse
    BY <1>1, <1>2, <1>3, <1>4, <1>51 DEF FootersSound
  <2>2. \A x \in DOMAIN k \ E : k[x].pinuse => k[x].prev = 0
    BY <1>1, <1>2, <1>3, <1>4 DEF FootersSound
  <2>3. ASSUME NEW x \in DOMAIN k, ~k[x].pinuse
        PROVE  x - k[x].prev \in G /\ k[x - k[x].prev].size = k[x].prev
    <3>1. x \in DOMAIN h /\ h[x].pinuse = k[x].pinuse /\ h[x].prev = k[x].prev
      BY <2>3, <1>4
    <3>2. x - h[x].prev \in G /\ h[x - h[x].prev].size = h[x].prev
      BY <3>1, <2>3, <1>1 DEF FootersSound
    <3>3. x - h[x].prev # a /\ x - h[x].prev # b /\ x - h[x].prev \in DOMAIN h
      BY <3>2, <1>2, <1>3
    <3> QED BY <3>1, <3>2, <3>3, <1>4
  <2>4. ASSUME NEW e \in E
        PROVE  /\ k[e].pinuse /\ k[e].prev \in 1..MinSize
               /\ e - k[e].prev \in DOMAIN k /\ k[e - k[e].prev].size = k[e].prev
    <3>1. /\ h[e].pinuse /\ h[e].prev \in 1..MinSize
          /\ e - h[e].prev \in DOMAIN h /\ h[e - h[e].prev].size = h[e].prev
      BY <1>1 DEF FootersSound
    <3>2. k[e] = h[e] /\ e \in DOMAIN h
      BY <1>2, <1>3, <1>4
    <3>3. e - h[e].prev # a /\ e - h[e].prev # b
      <4>1. (e - h[e].prev) + h[e].prev = e
        BY <3>1, <3>2, <1>7
      <4>2. Behind(h, e - h[e].prev) = e
        BY <3>1, <4>1 DEF Behind
      <4> QED BY <4>2, <1>3, <1>8 DEF b
    <3> QED BY <3>1, <3>2, <3>3, <1>4
  <2> QED BY <2>1, <2>2, <2>3, <2>4 DEF FootersSound
<1>11. FlagsSound(k, u, E, G)
  <2>1. /\ G \subseteq O
        /\ \A x \in O : h[x].size >= MinSize /\ x \in DOMAIN h
        /\ \A x \in O \ G : h[x].nonMain
        /\ \A x \in G :
             /\ h[x].pinuse /\ ~h[x].nonMain
             /\ ~h[Behind(h, x)].pinuse /\ h[Behind(h, x)].prev = h[x].size
             /\ Behind(h, x) # t /\ h[Behind(h, Behind(h, x))].pinuse
    BY <1>1 DEF FlagsSound, OrdinaryOf, O
  <2>2. h[a].size + h[b].size >= MinSize
    BY <2>1, <1>3, <1>7, Constants
  <2>3. /\ G \subseteq OrdinaryOf(k, u, E)
        /\ \A x \in OrdinaryOf(k, u, E) : k[x].size >= MinSize
        /\ \A x \in OrdinaryOf(k, u, E) \ G : k[x].nonMain
    <3>1. G \subseteq OrdinaryOf(k, u, E)
      BY <2>1, <1>3, <1>9
    <3>2. ASSUME NEW x \in OrdinaryOf(k, u, E)
          PROVE  k[x].size >= MinSize /\ (x \notin G => k[x].nonMain)
      <4>0. x \in O /\ x # (IF b = t THEN a ELSE b)
        BY <1>9
      <4>1. CASE x = a
        BY <4>0, <4>1, <2>2, <1>4
      <4>2. CASE x # a
        <5>1. x # b
          BY <4>0, <1>2, <1>3
        <5>2. k[x] = h[x]
          BY <5>1, <4>0, <4>2, <2>1, <1>4
        <5> QED BY <5>2, <4>0, <2>1
      <4> QED BY <4>1, <4>2
    <3> QED BY <3>1, <3>2
  <2>4. ASSUME NEW x \in G
        PROVE  /\ k[x].pinuse /\ ~k[x].nonMain
               /\ ~k[Behind(k, x)].pinuse /\ k[Behind(k, x)].prev = k[x].size
               /\ Behind(k, x) # u /\ k[Behind(k, Behind(k, x))].pinuse
    <3> DEFINE y == Behind(h, x)
    <3>1. /\ x # a /\ x # b /\ x \in DOMAIN h /\ k[x] = h[x] /\ Behind(k, x) = y
          /\ y \in DOMAIN h /\ y # t /\ y \notin E /\ ~h[y].pinuse /\ y \notin G
      BY <2>1, <1>2, <1>3, <1>4, <1>5
    <3> HIDE DEF y
    <3>2. y # b
      BY <3>1, <1>2, <1>3 DEF b
    <3>3. k[y].pinuse = h[y].pinuse /\ k[y].prev = h[y].prev /\ y \in DOMAIN k
      BY <3>1, <3>2, <1>4
    <3>4. y # u
      BY <3>1, <1>3, <1>30
    <3>5. k[Behind(k, y)].pinuse
      <4>1. CASE y = a
        <5>1. b # t
          BY <4>1, <3>1, <1>30
        <5>2. Behind(k, y) = Behind(h, b) /\ h[Behind(h, b)].pinuse
          BY <4>1, <5>1, <1>2, <1>3, <1>5
        <5>3. Behind(h, b) \in DOMAIN h /\ Behind(h, b) # b
          BY <5>1, <1>2, <1>3, <1>8
        <5>4. k[Behind(h, b)].pinuse
          BY <5>2, <5>3, <1>4
        <5> QED BY <5>2, <5>4
      <4>2. CASE y # a
        <5>1. Behind(k, y) = Behind(h, y) /\ Behind(h, y) \in DOMAIN h /\ h[Behind(h, y)].pinuse
          BY <4>2, <3>1, <3>3, <2>1, <1>2, <1>5 DEF y
        <5>2. Behind(h, y) # b
          BY <4>2, <3>1, <1>5
        <5>3. k[Behind(h, y)].pinuse
          BY <5>1, <5>2, <1>4
        <5> QED BY <5>1, <5>3
      <4> QED BY <4>1, <4>2
    <3> QED BY <3>1, <3>3, <3>4, <3>5, <2>1 DEF y
  <2> QED BY <2>3, <2>4 DEF FlagsSound
<1> QED BY <1>1, <1>5, <1>6, <1>9, <1>10, <1>11 DEF MemorySound, b, O, E

\* k is h with the chunk a, in use, grown into the top chunk to n units.
IsTopMoved(h, k, t, a, n) ==
  /\ DOMAIN k = (DOMAIN h \ {t}) \cup {a + n}
  /\ k[a].size = n /\ k[a].pinuse = h[a].pinuse /\ k[a].prev = h[a].prev /\ k[a].nonMain
  /\ k[a + n].size = h[a].size + h[t].size - n /\ k[a + n].pinuse /\ k[a + n].prev = 0
  /\ \A x \in DOMAIN h \ {a, t} : k[x] = h[x]

\* A block grows into the top chunk, which starts further back.
LEMMA TopMovedSound ==
  ASSUME NEW h, NEW t, NEW hs, NEW ch, NEW G, MemorySound(h, t, hs, ch, G),
         NEW a \in OrdinaryOf(h, t, EndTags(hs, ch)), a \notin G, Behind(h, a) = t,
         NEW n \in Nat, n > h[a].size, h[a].size + h[t].size - n >= MinSize,
         NEW k, Typed(k), IsTopMoved(h, k, t, a, n)
  PROVE  /\ MemorySound(k, a + n, hs, ch, G)
         /\ OrdinaryOf(k, a + n, EndTags(hs, ch)) = OrdinaryOf(h, t, EndTags(hs, ch))
         /\ \A x \in OrdinaryOf(h, t, EndTags(hs, ch)) \ {a} : k[x] = h[x]
<1> DEFINE E == EndTags(hs, ch)
           O == OrdinaryOf(h, t, E)
           c == a + n
           m == [x \in DOMAIN h \ {t} |->
                   IF x = a THEN [size |-> h[a].size + h[t].size, pinuse |-> h[a].pinuse,
                                  nonMain |-> TRUE, prev |-> h[a].prev]
                   ELSE h[x]]
<1>1. /\ Typed(h) /\ HeapsSound(hs, ch) /\ Tiled(h, t, hs, ch)
      /\ FootersSound(h, t, E, G) /\ FlagsSound(h, t, E, G)
  BY DEF MemorySound
<1>2. /\ t \in DOMAIN h /\ t \notin E /\ E \subseteq DOMAIN h
      /\ \A x \in DOMAIN h \ (E \cup {t}) : Behind(h, x) \in DOMAIN h /\ Behind(h, x) > x
      /\ \A x, y \in DOMAIN h \ (E \cup {t}) : Behind(h, x) = Behind(h, y) => x = y
      /\ \A x \in DOMAIN h \ (E \cup {t}) : x \notin G => h[Behind(h, x)].pinuse
      /\ \A x \in DOMAIN h : ~h[x].pinuse => Behind(h, x - h[x].prev) = x /\ x # t
      /\ \A x \in O : x \in DOMAIN h \ (E \cup {t}) /\ Behind(h, x) \in DOMAIN h \ E
                      /\ h[x].size >= MinSize
      /\ \A x \in G :
           /\ x \in O /\ x \in DOMAIN h \ (E \cup {t})
           /\ Behind(h, x) \in DOMAIN h \ (E \cup {t}) /\ Behind(h, x) \notin G
           /\ Behind(h, Behind(h, x)) \in DOMAIN h
  BY Neighbours
<1>3. \A x \in DOMAIN h : /\ x \in Nat /\ h[x].size \in Nat /\ h[x].prev \in Nat
                          /\ h[x].pinuse \in BOOLEAN
  BY <1>1, TypedTags
<1>4. /\ a \in O /\ a \in DOMAIN h /\ a \notin E /\ a # t /\ a \notin G /\ Behind(h, a) = t
      /\ a < t /\ n \in Nat /\ n > h[a].size /\ h[a].size >= MinSize
      /\ h[a].size + h[t].size - n >= MinSize
      /\ MinSize \in Nat /\ MinSize > 0
  BY <1>2, <1>3, Constants
<1>5. /\ DOMAIN k = (DOMAIN h \ {t}) \cup {c}
      /\ k[a].size = n /\ k[a].pinuse = h[a].pinuse /\ k[a].prev = h[a].prev /\ k[a].nonMain
      /\ k[c].size = h[a].size + h[t].size - n /\ k[c].pinuse /\ k[c].prev = 0
      /\ \A x \in DOMAIN h \ {a, t} : k[x] = h[x]
  BY DEF IsTopMoved
<1>6. /\ DOMAIN m = DOMAIN h \ {t} /\ m[a].size = h[a].size + h[t].size
      /\ \A x \in DOMAIN h \ {a, t} : m[x] = h[x]
  BY <1>4
<1>7. Typed(m)
  <2>1. \A x \in DOMAIN h : h[x] \in Tag /\ x \in Nat
    BY <1>1, TypedTags
  <2>2. [size |-> h[a].size + h[t].size, pinuse |-> h[a].pinuse, nonMain |-> TRUE,
         prev |-> h[a].prev] \in Tag
    BY <1>2, <1>3, <1>4 DEF Tag
  <2> HIDE DEF E, O
  <2> QED BY <2>1, <2>2 DEF Typed
<1>8. IsJoin(h, m, a)
  BY <1>4, <1>6 DEF IsJoin
<1> HIDE DEF m
<1>9. Tiled(m, a, hs, ch)
  BY <1>1, <1>2, <1>4, <1>7, <1>8, TilesJoin
<1>10. /\ n < m[a].size /\ 0 < n /\ m[a].size - n >= MinSize /\ a \in DOMAIN m
       /\ c > a /\ c \in Nat
  BY <1>2, <1>3, <1>4, <1>6
<1>11. /\ Behind(m, a) = Behind(h, t)
       /\ \A x \in DOMAIN m \ {a} : Behind(m, x) = Behind(h, x)
  BY <1>1, <1>2, <1>4, <1>7, <1>8, JoinFacts
<1>12. Behind(h, t) \notin DOMAIN h /\ Behind(h, t) \in Nat
  BY <1>1, <1>2, NothingBehindTop, TypedTags
<1>13. c \notin DOMAIN h
  <2>1. \A y \in DOMAIN h : y <= t \/ y >= Behind(h, t)
    BY <1>1, <1>2 DEF Tiled
  <2>2. Behind(h, t) = t + h[t].size /\ t = a + h[a].size
    BY <1>4 DEF Behind
  <2>3. c > t /\ c < Behind(h, t) /\ c \in Nat
    BY <2>2, <1>2, <1>3, <1>4
  <2> HIDE DEF c
  <2> QED BY <2>1, <2>3, <1>2, <1>3, <1>12
<1>14. IsSplit(m, k, a, n)
  <2>1. DOMAIN k = DOMAIN m \cup {c}
    BY <1>5, <1>6
  <2>2. k[c].size = m[a].size - n
    BY <1>2, <1>3, <1>4, <1>5, <1>6
  <2>3. \A x \in DOMAIN m \ {a} : k[x].size = m[x].size
    BY <1>5, <1>6
  <2> QED BY <2>1, <2>2, <2>3, <1>5 DEF IsSplit
<1>15. Tiled(k, c, hs, ch)
  BY <1>1, <1>4, <1>7, <1>9, <1>10, <1>14, TilesSplit
<1>16. /\ Behind(k, a) = c /\ c \notin E
       /\ \A x \in DOMAIN h \ {a, t} : Behind(k, x) = Behind(h, x)
  BY <1>1, <1>4, <1>5, <1>6, <1>7, <1>9, <1>10, <1>11, <1>14, SplitFacts
<1> HIDE DEF c, E, O
<1>17. OrdinaryOf(k, c, E) = O
  <2>1. ASSUME NEW x \in DOMAIN k \ (E \cup {c}), Behind(k, x) \notin E PROVE x \in O
    <3>1. CASE x = a
      BY <3>1, <1>4
    <3>2. CASE x # a
      BY <3>2, <2>1, <1>5, <1>16 DEF O, OrdinaryOf
    <3> QED BY <3>1, <3>2
  <2>2. ASSUME NEW x \in O PROVE x \in DOMAIN k \ (E \cup {c}) /\ Behind(k, x) \notin E
    <3>1. CASE x = a
      BY <3>1, <1>4, <1>5, <1>10, <1>16
    <3>2. CASE x # a
      BY <3>2, <1>2, <1>5, <1>13, <1>16
    <3> QED BY <3>1, <3>2
  <2> QED BY <2>1, <2>2 DEF OrdinaryOf
<1>18. FootersSound(k, c, E, G)
  <2>1. k[c].pinuse
    BY <1>5
  <2>2. \A x \in DOMAIN k \ E : k[x].pinuse => k[x].prev = 0
    BY <1>1, <1>4, <1>5 DEF FootersSound
  <2>3. ASSUME NEW x \in DOMAIN k, ~k[x].pinuse
        PROVE  x - k[x].prev \in G /\ k[x - k[x].prev].size = k[x].prev
    <3>1. x \in DOMAIN h /\ x # t /\ h[x].pinuse = k[x].pinuse /\ h[x].prev = k[x].prev
      BY <2>3, <1>5
    <3>2. x - h[x].prev \in G /\ h[x - h[x].prev].size = h[x].prev
      BY <3>1, <2>3, <1>1 DEF FootersSound
    <3>3. x - h[x].prev # a /\ x - h[x].prev \in DOMAIN h \ {t}
      BY <3>2, <1>2, <1>4
    <3> QED BY <3>1, <3>2, <3>3, <1>5
  <2>4. ASSUME NEW e \in E
        PROVE  /\ k[e].pinuse /\ k[e].prev \in 1..MinSize
               /\ e - k[e].prev \in DOMAIN k /\ k[e - k[e].prev].size = k[e].prev
    <3>1. /\ h[e].pinuse /\ h[e].prev \in 1..MinSize
          /\ e - h[e].prev \in DOMAIN h /\ h[e - h[e].prev].size = h[e].prev
      BY <1>1 DEF FootersSound
    <3>2. k[e] = h[e] /\ e \in DOMAIN h
      BY <1>2, <1>4, <1>5
    <3>3. e - h[e].prev # a /\ e - h[e].prev # t
      <4>1. (e - h[e].prev) + h[e].prev = e
        BY <3>1, <3>2, <1>3
      <4>2. Behind(h, e - h[e].prev) = e
        BY <3>1, <4>1 DEF Behind
      <4> QED BY <4>2, <1>2, <1>4, <1>12
    <3> QED BY <3>1, <3>2, <3>3, <1>5
  <2> QED BY <2>1, <2>2, <2>3, <2>4 DEF FootersSound
<1>19. FlagsSound(k, c, E, G)
  <2>1. /\ G \subseteq O
        /\ \A x \in O : h[x].size >= MinSize /\ x \in DOMAIN h
        /\ \A x \in O \ G : h[x].nonMain
        /\ \A x \in G :
             /\ h[x].pinuse /\ ~h[x].nonMain
             /\ ~h[Behind(h, x)].pinuse /\ h[Behind(h, x)].prev = h[x].size
             /\ Behind(h, x) # t /\ h[Behind(h, Behind(h, x))].pinuse
    BY <1>1 DEF FlagsSound, OrdinaryOf, O
  <2>2. /\ \A x \in O : k[x].size >= MinSize
        /\ \A x \in O \ G : k[x].nonMain
    BY <2>1, <1>2, <1>3, <1>4, <1>5
  <2>3. ASSUME NEW x \in G
        PROVE  /\ k[x].pinuse /\ ~k[x].nonMain
               /\ ~k[Behind(k, x)].pinuse /\ k[Behind(k, x)].prev = k[x].size
               /\ Behind(k, x) # c /\ k[Behind(k, Behind(k, x))].pinuse
    <3> DEFINE y == Behind(h, x)
    <3>1. /\ x # a /\ x # t /\ x \in DOMAIN h /\ k[x] = h[x] /\ Behind(k, x) = y
          /\ y \in DOMAIN h /\ y # t /\ y \notin E /\ ~h[y].pinuse /\ y \notin G
      BY <2>1, <1>2, <1>4, <1>5, <1>16
    <3> HIDE DEF y
    <3>3. k[y].pinuse = h[y].pinuse /\ k[y].prev = h[y].prev
      BY <3>1, <1>5
    <3>4. y # c
      BY <3>1, <1>5, <1>13, <3>3
    <3>5. k[Behind(k, y)].pinuse
      <4>1. CASE y = a
        BY <4>1, <1>5, <1>16
      <4>2. CASE y # a
        <5>1. /\ Behind(k, y) = Behind(h, y) /\ Behind(h, y) \in DOMAIN h
              /\ h[Behind(h, y)].pinuse
          BY <4>2, <3>1, <2>1, <1>2, <1>16 DEF y
        <5>2. Behind(h, y) # t
          BY <4>2, <3>1, <1>2, <1>4
        <5> QED BY <5>1, <5>2, <1>5, <1>4
      <4> QED BY <4>1, <4>2
    <3> QED BY <3>1, <3>3, <3>4, <3>5, <2>1 DEF y
  <2> QED BY <2>1, <2>2, <2>3, <1>17 DEF FlagsSound
<1> QED BY <1>1, <1>2, <1>5, <1>15, <1>17, <1>18, <1>19 DEF MemorySound, c, E, O

-----------------------------------------------------------------------------
(* Heaps.                                                                  *)

\* Heaps lie in the order of their numbers.
LEMMA HeapOrder ==
  ASSUME NEW x \in Nat, NEW y \in Nat, HeapOf(x) < HeapOf(y)
  PROVE  x < y /\ Base(HeapOf(x)) + HeapMax <= Base(HeapOf(y))
<1> DEFINE u == HeapOf(x)
           v == HeapOf(y)
<1>1. /\ u \in Nat /\ v \in Nat /\ Base(v) <= y /\ x < Base(u) + HeapMax
      /\ Base(u) \in Nat /\ Base(v) \in Nat
  BY HeapRange, BaseIsNat
<1>2. u < v
  OBVIOUS
<1>3. HeapMax \in Nat
  BY Constants
<1> HIDE DEF u, v
<1>4. (u + 1) * HeapMax <= v * HeapMax
  BY <1>1, <1>2, <1>3
<1>5. (u + 1) * HeapMax = u * HeapMax + HeapMax
  BY <1>1, <1>3
<1>6. Base(u) + HeapMax <= Base(v)
  BY <1>4, <1>5 DEF Base
<1>7. x < y
  BY <1>1, <1>3, <1>6
<1> QED BY <1>6, <1>7 DEF u, v

\* k is h with a top chunk of n units, in a heap of as many units more or less.
IsTopResized(h, k, t, n) ==
  /\ DOMAIN k = DOMAIN h /\ \A x \in DOMAIN h \ {t} : k[x] = h[x]
  /\ k[t].size = n /\ k[t].pinuse /\ k[t].prev = h[t].prev

\* The current heap and its top chunk grow or shrink by pages.
LEMMA TopResizedSound ==
  ASSUME NEW h, NEW t, NEW hs, NEW ch, NEW G, MemorySound(h, t, hs, ch, G),
         NEW k, NEW n \in Nat, n >= MinSize, Typed(k), IsTopResized(h, k, t, n),
         NEW m \in 1..HeapMax, InPages(m), t + n = Base(HeapOf(t)) + m
  PROVE  /\ MemorySound(k, t, [hs EXCEPT ![HeapOf(t)] = m], ch, G)
         /\ EndTags([hs EXCEPT ![HeapOf(t)] = m], ch) = EndTags(hs, ch)
         /\ OrdinaryOf(k, t, EndTags(hs, ch)) = OrdinaryOf(h, t, EndTags(hs, ch))
         /\ HeapOf(t) = ch[Len(ch)]
<1> DEFINE E == EndTags(hs, ch)
           O == OrdinaryOf(h, t, E)
           L == HeapOf(t)
           hs2 == [hs EXCEPT ![L] = m]
<1>1. /\ Typed(h) /\ HeapsSound(hs, ch) /\ Tiled(h, t, hs, ch)
      /\ FootersSound(h, t, E, G) /\ FlagsSound(h, t, E, G)
  BY DEF MemorySound
<1>2. /\ t \in DOMAIN h /\ t \notin E /\ E \subseteq DOMAIN h
      /\ \A x \in DOMAIN h \ (E \cup {t}) : Behind(h, x) \in DOMAIN h /\ Behind(h, x) > x
      /\ \A x \in DOMAIN h : ~h[x].pinuse => x # t /\ Behind(h, x - h[x].prev) = x
      /\ \A x \in G :
           /\ x \in O /\ x \in DOMAIN h \ (E \cup {t})
           /\ Behind(h, x) \in DOMAIN h \ (E \cup {t})
           /\ Behind(h, Behind(h, x)) \in DOMAIN h
      /\ h[t].prev = 0
  BY Neighbours
<1>3. /\ DOMAIN k = DOMAIN h /\ \A x \in DOMAIN h \ {t} : k[x] = h[x]
      /\ k[t].size = n /\ k[t].pinuse /\ k[t].prev = 0
  BY <1>2 DEF IsTopResized
<1>4. /\ L = ch[Len(ch)] /\ L \in Range(ch) /\ Range(ch) \subseteq Heaps /\ L \in Heaps
      /\ hs \in [Heaps -> 0..HeapMax]
      /\ \A g \in Range(ch) : EndOf(g, hs) \in Nat /\ Base(g) \in Nat
      /\ Behind(h, t) = EndOf(L, hs)
  <2>1. L = ch[Len(ch)] /\ Behind(h, t) = EndOf(L, hs)
    BY <1>1 DEF Tiled
  <2>2. hs \in [Heaps -> 0..HeapMax]
    BY <1>1 DEF HeapsSound
  <2> QED BY <2>1, <2>2, <1>1, HeapFacts
<1>5. \A g \in Range(ch) \ {L} : EndOf(g, hs2) = EndOf(g, hs)
  BY <1>4 DEF EndOf
<1>6. EndOf(L, hs2) = t + n
  BY <1>4 DEF EndOf
<1>7. EndTags(hs2, ch) = E
  BY <1>4, <1>5 DEF EndTags
<1>8. \A x \in DOMAIN h : x \in Nat /\ h[x].size \in Nat /\ Behind(h, x) \in Nat
  BY <1>1, TypedTags
<1>9. Behind(k, t) = t + n /\ \A x \in DOMAIN h \ {t} : Behind(k, x) = Behind(h, x)
  BY <1>3 DEF Behind
<1>10. HeapsSound(hs2, ch)
  <2>1. hs2 \in [Heaps -> 0..HeapMax] /\ \A x \in Heaps : InPages(hs2[x])
    BY <1>1, <1>4, Constants DEF HeapsSound
  <2>2. \A x \in Range(ch) : hs2[x] > 0
    BY <1>1, <1>4 DEF HeapsSound
  <2>3. \A x \in Range(ch) \ {ch[Len(ch)]} : HeapOf(EndOf(x, hs2) - EndRoom) = x
    BY <1>1, <1>4, <1>5 DEF HeapsSound
  <2> QED BY <2>1, <2>2, <2>3, <1>1 DEF HeapsSound
<1>11. /\ \A g \in Range(ch) : FirstOf(g, ch) \in DOMAIN h /\ HeapOf(FirstOf(g, ch)) = g
       /\ \A x \in DOMAIN h :
            HeapOf(x) \in Range(ch) /\ FirstOf(HeapOf(x), ch) <= x /\ x < EndOf(HeapOf(x), hs)
       /\ \A e \in E : e \in DOMAIN h /\ h[e].size = 0
       /\ \A x \in DOMAIN h \ E : h[x].size > 0 /\ \A b \in DOMAIN h : b <= x \/ b >= Behind(h, x)
       /\ \A x \in DOMAIN h \ (E \cup {t}) :
            Behind(h, x) \in DOMAIN h /\ HeapOf(Behind(h, x)) = HeapOf(x)
  BY <1>1 DEF Tiled
<1> HIDE DEF E, L, hs2
<1>12. \A x \in DOMAIN h : HeapOf(x) = L => x <= t
  <2> SUFFICES ASSUME NEW x \in DOMAIN h, HeapOf(x) = L PROVE x <= t
    OBVIOUS
  <2>1. x < Behind(h, t) /\ (x <= t \/ x >= Behind(h, t))
    BY <1>2, <1>4, <1>11
  <2> QED BY <2>1, <1>2, <1>8
<1>13. \A x \in DOMAIN h : x <= t \/ x >= t + n
  <2> SUFFICES ASSUME NEW x \in DOMAIN h, ~(x <= t) PROVE x >= t + n
    OBVIOUS
  <2>1. HeapOf(x) # L /\ HeapOf(x) \in Range(ch) /\ x > t
    BY <1>2, <1>8, <1>11, <1>12
  <2> DEFINE g == HeapOf(x)
  <2>2. /\ Base(g) \in Nat /\ Base(L) \in Nat /\ g \in Nat /\ L \in Nat
        /\ Base(g) <= x /\ Base(L) <= t /\ t < Base(L) + HeapMax
    BY <2>1, <1>2, <1>4, <1>8, HeapRange DEF L
  <2> HIDE DEF g
  <2>3. g > L
    <3>1. SUFFICES ASSUME g < L PROVE FALSE
      BY <2>1, <2>2 DEF g
    <3>2. x < Base(g) + HeapMax
      BY <1>8, HeapRange DEF g
    <3>3. Base(g) + HeapMax <= Base(L)
      <4>1. (g + 1) * HeapMax <= L * HeapMax
        BY <3>1, <2>2, Constants
      <4>2. (g + 1) * HeapMax = g * HeapMax + HeapMax
        BY <2>2, Constants
      <4> QED BY <4>1, <4>2 DEF Base
    <3> QED BY <3>2, <3>3, <2>1, <2>2, <1>2, <1>8, Constants
  <2>4. Base(g) >= Base(L) + HeapMax
    <3>1. (L + 1) * HeapMax <= g * HeapMax
      BY <2>2, <2>3, Constants
    <3>2. (L + 1) * HeapMax = L * HeapMax + HeapMax
      BY <2>2, Constants
    <3> QED BY <3>1, <3>2 DEF Base
  <2>5. t + n <= Base(L) + HeapMax /\ m <= HeapMax /\ m \in Nat
    BY <2>2, Constants DEF L
  <2> QED BY <2>2, <2>4, <2>5, <1>2, <1>8, Constants
<1>14. Tiled(k, t, hs2, ch)
  <2>1. t \in DOMAIN k /\ t \notin E /\ k[t].size >= MinSize /\ Behind(k, t) = EndOf(L, hs2)
    BY <1>2, <1>3, <1>6, <1>9
  <2>2. \A x \in DOMAIN k : x < EndOf(HeapOf(x), hs2)
    <3> SUFFICES ASSUME NEW x \in DOMAIN h PROVE x < EndOf(HeapOf(x), hs2)
      BY <1>3
    <3>1. CASE HeapOf(x) = L
      BY <3>1, <1>2, <1>6, <1>8, <1>12, Constants
    <3>2. CASE HeapOf(x) # L
      BY <3>2, <1>5, <1>11
    <3> QED BY <3>1, <3>2
  <2>3. \A x \in DOMAIN k \ E : k[x].size > 0 /\ \A b \in DOMAIN k : b <= x \/ b >= Behind(k, x)
    <3> SUFFICES ASSUME NEW x \in DOMAIN h \ E
                 PROVE  k[x].size > 0 /\ \A b \in DOMAIN h : b <= x \/ b >= Behind(k, x)
      BY <1>3
    <3>1. CASE x = t
      BY <3>1, <1>3, <1>9, <1>13, Constants
    <3>2. CASE x # t
      BY <3>2, <1>3, <1>9, <1>11
    <3> QED BY <3>1, <3>2
  <2>4. \A e \in E : e \in DOMAIN k /\ k[e].size = 0
    BY <1>2, <1>3, <1>11
  <2>5. \A x \in DOMAIN k \ (E \cup {t}) :
          Behind(k, x) \in DOMAIN k /\ HeapOf(Behind(k, x)) = HeapOf(x)
    BY <1>3, <1>9, <1>11
  <2> QED BY <2>1, <2>2, <2>3, <2>4, <2>5, <1>3, <1>4, <1>7, <1>11 DEF Tiled, L
<1>15. OrdinaryOf(k, t, E) = O
  BY <1>3, <1>9 DEF OrdinaryOf, E
<1>16. FootersSound(k, t, E, G)
  <2>1. \A x \in DOMAIN k \ E : k[x].pinuse => k[x].prev = 0
    BY <1>1, <1>3 DEF FootersSound
  <2>2. ASSUME NEW x \in DOMAIN k, ~k[x].pinuse
        PROVE  x - k[x].prev \in G /\ k[x - k[x].prev].size = k[x].prev
    <3>1. x \in DOMAIN h /\ x # t /\ k[x] = h[x]
      BY <2>2, <1>3
    <3>2. x - h[x].prev \in G /\ h[x - h[x].prev].size = h[x].prev
      BY <3>1, <2>2, <1>1 DEF FootersSound
    <3> QED BY <3>1, <3>2, <1>2, <1>3
  <2>3. ASSUME NEW e \in E
        PROVE  /\ k[e].pinuse /\ k[e].prev \in 1..MinSize
               /\ e - k[e].prev \in DOMAIN k /\ k[e - k[e].prev].size = k[e].prev
    <3>1. /\ h[e].pinuse /\ h[e].prev \in 1..MinSize
          /\ e - h[e].prev \in DOMAIN h /\ h[e - h[e].prev].size = h[e].prev
      BY <1>1 DEF FootersSound
    <3>2. k[e] = h[e] /\ e \in Nat /\ e \in DOMAIN h
      BY <1>2, <1>3, <1>8
    <3>3. e - h[e].prev # t
      <4>1. SUFFICES ASSUME e - h[e].prev = t PROVE FALSE
        OBVIOUS
      <4>2. t + h[t].size = e
        BY <4>1, <3>1, <3>2
      <4>3. Behind(h, t) \notin DOMAIN h
        BY <1>1, NothingBehindTop
      <4> QED BY <4>2, <4>3, <3>2 DEF Behind
    <3> QED BY <3>1, <3>2, <3>3, <1>3
  <2> QED BY <2>1, <2>2, <2>3, <1>3 DEF FootersSound
<1>17. FlagsSound(k, t, E, G)
  <2>1. /\ G \subseteq O
        /\ \A x \in O : h[x].size >= MinSize /\ x \in DOMAIN h /\ x # t
        /\ \A x \in O \ G : h[x].nonMain
        /\ \A x \in G :
             /\ h[x].pinuse /\ ~h[x].nonMain
             /\ ~h[Behind(h, x)].pinuse /\ h[Behind(h, x)].prev = h[x].size
             /\ Behind(h, x) # t /\ h[Behind(h, Behind(h, x))].pinuse
    BY <1>1 DEF FlagsSound, OrdinaryOf
  <2>2. \A x \in O : k[x] = h[x]
    BY <2>1, <1>3
  <2>3. ASSUME NEW x \in G
        PROVE  /\ k[x].pinuse /\ ~k[x].nonMain
               /\ ~k[Behind(k, x)].pinuse /\ k[Behind(k, x)].prev = k[x].size
               /\ Behind(k, x) # t /\ k[Behind(k, Behind(k, x))].pinuse
    <3> DEFINE y == Behind(h, x)
    <3>1. /\ k[x] = h[x] /\ Behind(k, x) = y /\ y \in DOMAIN h /\ y # t /\ k[y] = h[y]
          /\ Behind(k, y) = Behind(h, y) /\ Behind(h, y) \in DOMAIN h
      BY <2>1, <2>2, <1>2, <1>3, <1>9
    <3>2. k[Behind(k, y)].pinuse
      BY <3>1, <2>1, <1>3
    <3> QED BY <3>1, <3>2, <2>1
  <2> HIDE DEF O
  <2> QED BY <2>1, <2>2, <2>3, <1>15 DEF FlagsSound
<1> QED BY <1>4, <1>7, <1>10, <1>14, <1>15, <1>16, <1>17 DEF MemorySound, E, L, hs2

\* k is h with a fencepost and an end tag e in place of the top chunk t, and a
\* new top chunk at nt.
IsRetired(h, k, t, e, nt, size) ==
  /\ DOMAIN k = DOMAIN h \cup {e, nt}
  /\ \A x \in DOMAIN h \ {t} : k[x] = h[x]
  /\ k[t].size = e - t /\ k[t].pinuse /\ k[t].prev = 0
  /\ k[e].size = 0 /\ k[e].pinuse /\ k[e].prev = e - t
  /\ k[nt].size = size /\ k[nt].pinuse /\ k[nt].prev = 0

\* A new heap is mapped and the rest of the old top chunk is fenced off.
LEMMA RetiredSound ==
  ASSUME NEW h, NEW t, NEW hs, NEW ch, NEW G, MemorySound(h, t, hs, ch, G),
         h[t].size < 2 * MinSize,
         NEW g \in Heaps, hs[g] = 0,
         NEW m \in 1..HeapMax, InPages(m), m - HeapInfo >= MinSize,
         NEW e, e = EndOf(ch[Len(ch)], hs) - EndRoom,
         NEW nt, nt = Base(g) + HeapInfo,
         NEW k, Typed(k), IsRetired(h, k, t, e, nt, m - HeapInfo)
  PROVE  /\ MemorySound(k, nt, [hs EXCEPT ![g] = m], Append(ch, g), G)
         /\ OrdinaryOf(k, nt, EndTags([hs EXCEPT ![g] = m], Append(ch, g)))
              = OrdinaryOf(h, t, EndTags(hs, ch))
         /\ nt \notin DOMAIN h /\ HeapOf(nt) = g
<1> DEFINE E == EndTags(hs, ch)
           O == OrdinaryOf(h, t, E)
           L == ch[Len(ch)]
           hs2 == [hs EXCEPT ![g] = m]
           ch2 == Append(ch, g)
           E2 == EndTags(hs2, ch2)
<1>1. /\ Typed(h) /\ HeapsSound(hs, ch) /\ Tiled(h, t, hs, ch)
      /\ FootersSound(h, t, E, G) /\ FlagsSound(h, t, E, G)
  BY DEF MemorySound
<1>2. /\ t \in DOMAIN h /\ t \notin E /\ E \subseteq DOMAIN h
      /\ \A x \in DOMAIN h \ (E \cup {t}) : Behind(h, x) \in DOMAIN h /\ Behind(h, x) > x
      /\ \A x \in DOMAIN h : ~h[x].pinuse => x # t /\ x \notin E /\ Behind(h, x - h[x].prev) = x
      /\ \A x \in O : x \in DOMAIN h \ (E \cup {t}) /\ Behind(h, x) \in DOMAIN h \ E
      /\ \A x \in G :
           /\ x \in O /\ x \in DOMAIN h \ (E \cup {t})
           /\ Behind(h, x) \in DOMAIN h \ (E \cup {t})
           /\ Behind(h, Behind(h, x)) \in DOMAIN h
  BY Neighbours
<1>3. /\ DOMAIN k = DOMAIN h \cup {e, nt}
      /\ \A x \in DOMAIN h \ {t} : k[x] = h[x]
      /\ k[t].size = e - t /\ k[t].pinuse /\ k[t].prev = 0
      /\ k[e].size = 0 /\ k[e].pinuse /\ k[e].prev = e - t
      /\ k[nt].size = m - HeapInfo /\ k[nt].pinuse /\ k[nt].prev = 0
  BY DEF IsRetired
<1>4. /\ L \in Range(ch) /\ Range(ch) \subseteq Heaps /\ ch[1] \in Range(ch)
      /\ hs \in [Heaps -> 0..HeapMax] /\ ch \in Seq(Heaps) /\ ch # <<>> /\ IsInjective(ch)
      /\ \A x \in Range(ch) : EndOf(x, hs) \in Nat /\ Base(x) \in Nat /\ x \in Nat /\ hs[x] > 0
                              /\ EndOf(x, hs) <= Base(x) + HeapMax
  BY <1>1, HeapFacts DEF HeapsSound
<1>5. /\ g \notin Range(ch) /\ g \in Nat /\ Base(g) \in Nat /\ g # L /\ g # ch[1]
      /\ HeapMax \in Nat /\ HeapInfo \in Nat /\ HeapInfo > 0 /\ MinSize \in Nat /\ MinSize > 1
      /\ EndRoom = MinSize - 1 /\ m \in Nat /\ m <= HeapMax /\ m > 0
  <2>1. g \notin Range(ch)
    BY <1>4
  <2>2. g \in Nat /\ Base(g) \in Nat
    BY BaseIsNat, Constants
  <2>3. /\ HeapMax \in Nat /\ HeapInfo \in Nat /\ HeapInfo > 0 /\ MinSize \in Nat /\ MinSize > 1
        /\ EndRoom = MinSize - 1
    BY Constants
  <2>4. g # L /\ g # ch[1]
    BY <2>1, <1>4
  <2> QED BY <2>1, <2>2, <2>3, <2>4
<1>6. /\ Len(ch2) = Len(ch) + 1 /\ Len(ch) \in Nat /\ Len(ch) >= 1
      /\ ch2 \in Seq(Heaps) /\ ch2 # <<>> /\ ch2[Len(ch2)] = g /\ ch2[1] = ch[1]
      /\ Range(ch2) = Range(ch) \cup {g} /\ IsInjective(ch2)
  <2>1. /\ ch2 \in Seq(Heaps) /\ ch2 # <<>> /\ Len(ch2) = Len(ch) + 1
        /\ \A i \in 1..Len(ch) : ch2[i] = ch[i]
        /\ ch2[Len(ch) + 1] = g
    <3>1. ch \in Seq(Heaps) /\ g \in Heaps
      BY <1>4
    <3> QED BY <3>1, AppendProperties
  <2>2. Len(ch) \in Nat /\ Len(ch) >= 1 /\ DOMAIN ch = 1..Len(ch)
    BY <1>4, LenProperties, EmptySeq
  <2>3. DOMAIN ch2 = 1..(Len(ch) + 1)
    BY <2>1, LenProperties
  <2> HIDE DEF ch2
  <2>4. Range(ch2) = Range(ch) \cup {g}
    BY <2>1, <2>2, <2>3 DEF Range
  <2>5. IsInjective(ch2)
    <3> SUFFICES ASSUME NEW i \in DOMAIN ch2, NEW j \in DOMAIN ch2, ch2[i] = ch2[j] PROVE i = j
      BY DEF IsInjective
    <3>1. \A x \in 1..Len(ch) : ch[x] # g
      BY <1>5, <2>2 DEF Range
    <3>2. CASE i \in 1..Len(ch) /\ j \in 1..Len(ch)
      BY <3>2, <2>1, <2>2, <1>4 DEF IsInjective
    <3>3. CASE ~(i \in 1..Len(ch) /\ j \in 1..Len(ch))
      BY <3>1, <3>3, <2>1, <2>2, <2>3
    <3> QED BY <3>2, <3>3
  <2> QED BY <2>1, <2>2, <2>4, <2>5
<1> HIDE DEF ch2, L
<1>7. /\ hs2 \in [Heaps -> 0..HeapMax] /\ hs2[g] = m /\ \A x \in Heaps \ {g} : hs2[x] = hs[x]
  BY <1>4, <1>5
<1> HIDE DEF hs2
<1>8. /\ \A x \in Range(ch) : EndOf(x, hs2) = EndOf(x, hs) /\ FirstOf(x, ch2) = FirstOf(x, ch)
      /\ EndOf(g, hs2) = Base(g) + m /\ FirstOf(g, ch2) = nt
  <2>1. \A x \in Range(ch) : hs2[x] = hs[x]
    BY <1>4, <1>5, <1>7
  <2>2. \A x \in Range(ch) : EndOf(x, hs2) = EndOf(x, hs) /\ FirstOf(x, ch2) = FirstOf(x, ch)
    BY <2>1, <1>6 DEF EndOf, FirstOf
  <2>3. FirstOf(g, ch2) = Base(g) + HeapInfo + 0
    BY <1>5, <1>6 DEF FirstOf
  <2> QED BY <2>2, <2>3, <1>5, <1>7 DEF EndOf
<1>9. E2 = E \cup {e}
  <2>1. Range(ch2) \ {ch2[Len(ch2)]} = Range(ch)
    BY <1>5, <1>6
  <2>2. E2 = {EndOf(x, hs) - EndRoom : x \in Range(ch)}
    BY <2>1, <1>8 DEF EndTags
  <2> QED BY <2>2, <1>4 DEF EndTags, L
<1>11. \A x \in DOMAIN h : x \in Nat /\ h[x].size \in Nat /\ Behind(h, x) \in Nat
  BY <1>1, TypedTags
<1>12. /\ HeapOf(t) = L /\ Behind(h, t) = EndOf(L, hs) /\ h[t].size >= MinSize
       /\ \A x \in Range(ch) : FirstOf(x, ch) \in DOMAIN h /\ HeapOf(FirstOf(x, ch)) = x
       /\ \A x \in DOMAIN h :
            HeapOf(x) \in Range(ch) /\ FirstOf(HeapOf(x), ch) <= x /\ x < EndOf(HeapOf(x), hs)
       /\ \A x \in E : x \in DOMAIN h /\ h[x].size = 0
       /\ \A x \in DOMAIN h \ E : h[x].size > 0 /\ \A b \in DOMAIN h : b <= x \/ b >= Behind(h, x)
       /\ \A x \in DOMAIN h \ (E \cup {t}) :
            Behind(h, x) \in DOMAIN h /\ HeapOf(Behind(h, x)) = HeapOf(x)
  BY <1>1 DEF Tiled, L
<1>13. /\ e \in Nat /\ t < e /\ e - t \in 1..MinSize /\ e < Behind(h, t)
       /\ e + EndRoom = Behind(h, t)
  <2>1. t + h[t].size = EndOf(L, hs) /\ t \in Nat /\ h[t].size \in Nat
    BY <1>2, <1>11, <1>12 DEF Behind
  <2>2. e = EndOf(L, hs) - EndRoom
    BY DEF L
  <2>3. h[t].size >= MinSize /\ h[t].size < 2 * MinSize
    BY <1>12
  <2>4. t + h[t].size = Behind(h, t)
    BY DEF Behind
  <2>5. e = t + h[t].size - (MinSize - 1)
    BY <2>1, <2>2, <1>5
  <2>6. /\ e \in Nat /\ t < e /\ e - t \in 1..MinSize /\ e < t + h[t].size
        /\ e + (MinSize - 1) = t + h[t].size
    <3> DEFINE z == h[t].size
    <3>1. /\ t \in Nat /\ z \in Nat /\ MinSize \in Nat /\ MinSize > 1 /\ z >= MinSize /\ z < 2 * MinSize
          /\ e = t + z - (MinSize - 1)
      BY <2>1, <2>3, <2>5, <1>5
    <3> HIDE DEF z
    <3>2. /\ e \in Nat /\ t < e /\ e - t \in 1..MinSize /\ e < t + z
          /\ e + (MinSize - 1) = t + z
      <4> HIDE DEF hs2, E2
      <4>1. \A x \in Int : x = t + z - (MinSize - 1) =>
              x \in Nat /\ t < x /\ x - t \in 1..MinSize /\ x < t + z /\ x + (MinSize - 1) = t + z
        BY <3>1, SMTT(30)
      <4> QED BY <3>1, <4>1
    <3> QED BY <3>2 DEF z
  <2> QED BY <2>4, <2>6, <1>5
<1>14. /\ HeapOf(e) = L /\ e < EndOf(L, hs) /\ FirstOf(L, ch) <= e /\ e \notin DOMAIN h
  <2>0. t <= e /\ e < Behind(h, t) /\ e \in Nat
    BY <1>2, <1>11, <1>13
  <2>1. HeapOf(e) = L /\ e < EndOf(L, hs) /\ FirstOf(L, ch) <= e
    BY <2>0, <1>1, <1>2, <1>12, InsideChunk DEF E
  <2>2. e \notin DOMAIN h
    BY <1>2, <1>12, <1>13, <1>11, SMTT(30)
  <2> QED BY <2>1, <2>2
<1>10. HeapsSound(hs2, ch2)
  <2>1. \A x \in Heaps : InPages(hs2[x])
    BY <1>1, <1>7 DEF HeapsSound
  <2>2. \A x \in Range(ch2) : hs2[x] > 0
    BY <1>4, <1>5, <1>6, <1>7
  <2>3. ASSUME NEW x \in Range(ch2) \ {ch2[Len(ch2)]} PROVE HeapOf(EndOf(x, hs2) - EndRoom) = x
    <3>1. x \in Range(ch) /\ EndOf(x, hs2) = EndOf(x, hs)
      BY <1>6, <1>8
    <3>2. CASE x = L
      BY <3>1, <3>2, <1>14 DEF L
    <3>3. CASE x # L
      BY <3>1, <3>3, <1>1 DEF HeapsSound, L
    <3> QED BY <3>2, <3>3
  <2> QED BY <2>1, <2>2, <2>3, <1>6, <1>7 DEF HeapsSound
<1>15. /\ nt \in Nat /\ HeapOf(nt) = g /\ nt \notin DOMAIN h /\ nt # e /\ nt # t
  <2>1. nt \in Nat /\ Base(g) <= nt /\ nt < Base(g) + HeapMax
    BY <1>5
  <2>2. HeapOf(nt) = g
    BY <2>1, <1>5, HeapIs
  <2> QED BY <2>1, <2>2, <1>2, <1>5, <1>12, <1>14
<1>16. /\ Behind(k, t) = e /\ Behind(k, nt) = EndOf(g, hs2)
       /\ \A x \in DOMAIN h \ {t} : Behind(k, x) = Behind(h, x)
  <2>1. t + (e - t) = e /\ nt + (m - HeapInfo) = Base(g) + m
    <3>1. t \in Nat /\ e \in Nat
      BY <1>2, <1>11, <1>13
    <3> QED BY <3>1, <1>5
  <2> QED BY <2>1, <1>3, <1>8 DEF Behind
<1> HIDE DEF E, E2
<1>17. \A x, y \in DOMAIN k : HeapOf(x) < HeapOf(y) => x < y
  BY TypedTags, HeapOrder
<1>18. \A x \in DOMAIN h : HeapOf(x) = L => x <= t
  <2> SUFFICES ASSUME NEW x \in DOMAIN h, HeapOf(x) = L PROVE x <= t
    OBVIOUS
  <2>1. x < Behind(h, t) /\ (x <= t \/ x >= Behind(h, t))
    BY <1>2, <1>12
  <2> QED BY <2>1, <1>2, <1>11
<1>19. Tiled(k, nt, hs2, ch2)
  <2>1. nt \in DOMAIN k /\ nt \notin E2 /\ k[nt].size >= MinSize /\ Behind(k, nt) = EndOf(g, hs2)
    BY <1>2, <1>3, <1>9, <1>15, <1>16
  <2>2. \A x \in Range(ch2) : FirstOf(x, ch2) \in DOMAIN k /\ HeapOf(FirstOf(x, ch2)) = x
    BY <1>3, <1>6, <1>8, <1>12, <1>15
  <2>3. \A x \in DOMAIN k :
          HeapOf(x) \in Range(ch2) /\ FirstOf(HeapOf(x), ch2) <= x /\ x < EndOf(HeapOf(x), hs2)
    <3>1. ASSUME NEW x \in DOMAIN h
          PROVE  HeapOf(x) \in Range(ch2) /\ FirstOf(HeapOf(x), ch2) <= x /\ x < EndOf(HeapOf(x), hs2)
      BY <1>6, <1>8, <1>12
    <3>2. HeapOf(e) \in Range(ch2) /\ FirstOf(HeapOf(e), ch2) <= e /\ e < EndOf(HeapOf(e), hs2)
      BY <1>4, <1>6, <1>8, <1>14
    <3>3. HeapOf(nt) \in Range(ch2) /\ FirstOf(HeapOf(nt), ch2) <= nt /\ nt < EndOf(HeapOf(nt), hs2)
      BY <1>5, <1>6, <1>8, <1>15
    <3> QED BY <3>1, <3>2, <3>3, <1>3
  <2>4. \A x \in E2 : x \in DOMAIN k /\ k[x].size = 0
    BY <1>2, <1>3, <1>9, <1>12
  <2>5. ASSUME NEW x \in DOMAIN k \ E2
        PROVE  k[x].size > 0 /\ \A b \in DOMAIN k : b <= x \/ b >= Behind(k, x)
    <3>1. CASE x = t
      <4>1. \A b \in DOMAIN h : b <= t \/ b >= e
        BY <1>2, <1>11, <1>12, <1>13
      <4>2. nt <= t \/ nt >= e
        <5>1. /\ L \in Nat /\ g \in Nat /\ HeapOf(t) = L /\ HeapOf(e) = L /\ HeapOf(nt) = g
          BY <1>4, <1>5, <1>12, <1>14, <1>15
        <5>2. CASE g < L
          BY <5>1, <5>2, <1>2, <1>3, <1>11, <1>15, <1>17
        <5>3. CASE g > L
          BY <5>1, <5>3, <1>3, <1>13, <1>15, <1>17
        <5> QED BY <5>1, <5>2, <5>3, <1>5
      <4> QED BY <3>1, <4>1, <4>2, <1>2, <1>3, <1>11, <1>13, <1>16
    <3>2. CASE x = nt
      <4>1. k[x].size > 0
        BY <3>2, <1>3, <1>5
      <4>2. ASSUME NEW b \in DOMAIN h \cup {e} PROVE b <= nt \/ b >= Behind(k, nt)
        <5>1. b \in Nat /\ HeapOf(b) \in Range(ch)
          BY <1>4, <1>11, <1>12, <1>13, <1>14
        <5>2. HeapOf(b) \in Nat /\ HeapOf(b) # g
          BY <5>1, <1>4, <1>5
        <5>3. CASE HeapOf(b) < g
          BY <5>1, <5>2, <5>3, <1>3, <1>15, <1>17
        <5>4. CASE HeapOf(b) > g
          <6> DEFINE v == HeapOf(b)
          <6>1. Base(v) <= b /\ v \in Nat /\ g \in Nat /\ g < v /\ Base(v) \in Nat
            BY <5>1, <5>2, <5>4, <1>5, HeapRange, BaseIsNat
          <6> HIDE DEF v
          <6>2. (g + 1) * HeapMax <= v * HeapMax
            BY <6>1, <1>5
          <6>3. (g + 1) * HeapMax = g * HeapMax + HeapMax
            BY <6>1, <1>5
          <6>4. Base(g) + HeapMax <= Base(v)
            BY <6>2, <6>3 DEF Base
          <6> QED BY <6>1, <6>4, <5>1, <1>5, <1>8, <1>16, SMTT(30)
        <5> QED BY <5>2, <5>3, <5>4, <1>5
      <4> QED BY <3>2, <4>1, <4>2, <1>3, <1>15
    <3>3. CASE x \in DOMAIN h \ {t}
      <4>1. /\ x \in DOMAIN h \ E /\ k[x].size = h[x].size /\ Behind(k, x) = Behind(h, x)
            /\ h[x].size > 0 /\ \A b \in DOMAIN h : b <= x \/ b >= Behind(h, x)
        BY <3>3, <2>5, <1>3, <1>9, <1>12, <1>16
      <4>2. HeapOf(x) \in Range(ch) /\ Behind(h, x) \in DOMAIN h /\ HeapOf(Behind(h, x)) = HeapOf(x)
        BY <3>3, <4>1, <1>12
      <4>3. e <= x \/ e >= Behind(h, x)
        <5>1. t <= x \/ t >= Behind(h, x)
          BY <4>1, <1>2
        <5>2. CASE t >= Behind(h, x)
          BY <5>2, <1>2, <1>11, <1>13, <3>3
        <5>3. CASE t <= x
          <6>1. x >= Behind(h, t)
            BY <5>3, <1>2, <1>11, <1>12, <3>3
          <6> QED BY <6>1, <1>2, <1>11, <1>13, <3>3
        <5> QED BY <5>1, <5>2, <5>3
      <4>4. nt <= x \/ nt >= Behind(h, x)
        <5>1. HeapOf(x) \in Nat /\ HeapOf(x) # g
          BY <4>2, <1>4, <1>5
        <5>2. CASE HeapOf(x) < g
          BY <5>1, <5>2, <4>2, <1>3, <1>11, <1>15, <1>17
        <5>3. CASE HeapOf(x) > g
          BY <5>1, <5>3, <1>3, <1>11, <1>15, <1>17, <3>3
        <5> QED BY <5>1, <5>2, <5>3, <1>5
      <4> QED BY <4>1, <4>3, <4>4, <1>3
    <3> QED BY <3>1, <3>2, <3>3, <2>5, <1>3, <1>9
  <2>6. ASSUME NEW x \in DOMAIN k \ (E2 \cup {nt})
        PROVE  Behind(k, x) \in DOMAIN k /\ HeapOf(Behind(k, x)) = HeapOf(x)
    <3>1. CASE x = t
      BY <3>1, <1>3, <1>12, <1>14, <1>16
    <3>2. CASE x # t
      BY <3>2, <1>3, <1>9, <1>12, <1>16
    <3> QED BY <3>1, <3>2
  <2> QED BY <2>1, <2>2, <2>3, <2>4, <2>5, <2>6, <1>6, <1>15 DEF Tiled, E2
<1>20. OrdinaryOf(k, nt, E2) = O
  <2>1. ASSUME NEW x \in DOMAIN k \ (E2 \cup {nt}), Behind(k, x) \notin E2
        PROVE  x \in DOMAIN h \ (E \cup {t}) /\ Behind(h, x) \notin E
    BY <2>1, <1>3, <1>9, <1>16
  <2>2. ASSUME NEW x \in DOMAIN h \ (E \cup {t}), Behind(h, x) \notin E
        PROVE  x \in DOMAIN k \ (E2 \cup {nt}) /\ Behind(k, x) \notin E2
    BY <2>2, <1>2, <1>3, <1>9, <1>14, <1>15, <1>16
  <2> QED BY <2>1, <2>2 DEF OrdinaryOf
<1>21. FootersSound(k, nt, E2, G)
  <2>1. \A x \in DOMAIN k \ E2 : k[x].pinuse => k[x].prev = 0
    BY <1>1, <1>3, <1>9 DEF FootersSound
  <2>2. ASSUME NEW x \in DOMAIN k, ~k[x].pinuse
        PROVE  x - k[x].prev \in G /\ k[x - k[x].prev].size = k[x].prev
    <3>1. x \in DOMAIN h /\ x # t /\ k[x] = h[x]
      BY <2>2, <1>3
    <3>2. x - h[x].prev \in G /\ h[x - h[x].prev].size = h[x].prev
      BY <3>1, <2>2, <1>1 DEF FootersSound
    <3> QED BY <3>1, <3>2, <1>2, <1>3
  <2>3. ASSUME NEW y \in E2
        PROVE  /\ k[y].pinuse /\ k[y].prev \in 1..MinSize
               /\ y - k[y].prev \in DOMAIN k /\ k[y - k[y].prev].size = k[y].prev
    <3>1. CASE y = e
      <4>1. e - (e - t) = t
        BY <1>2, <1>11, <1>13
      <4> QED BY <3>1, <4>1, <1>2, <1>3, <1>13
    <3>2. CASE y \in E
      <4>1. /\ h[y].pinuse /\ h[y].prev \in 1..MinSize
            /\ y - h[y].prev \in DOMAIN h /\ h[y - h[y].prev].size = h[y].prev
        BY <3>2, <1>1 DEF FootersSound
      <4>2. k[y] = h[y] /\ y \in Nat /\ y \in DOMAIN h
        BY <3>2, <1>2, <1>3, <1>11
      <4>3. y - h[y].prev # t
        <5>1. SUFFICES ASSUME y - h[y].prev = t PROVE FALSE
          OBVIOUS
        <5>2. t + h[t].size = y
          BY <4>1, <4>2, <5>1
        <5>3. Behind(h, t) \notin DOMAIN h
          BY <1>1, NothingBehindTop
        <5> QED BY <4>2, <5>2, <5>3 DEF Behind
      <4> QED BY <4>1, <4>2, <4>3, <1>3
    <3> QED BY <3>1, <3>2, <1>9
  <2> QED BY <2>1, <2>2, <2>3, <1>3 DEF FootersSound
<1>22. FlagsSound(k, nt, E2, G)
  <2>1. /\ G \subseteq O
        /\ \A x \in O : h[x].size >= MinSize /\ x \in DOMAIN h /\ x # t
        /\ \A x \in O \ G : h[x].nonMain
        /\ \A x \in G :
             /\ h[x].pinuse /\ ~h[x].nonMain
             /\ ~h[Behind(h, x)].pinuse /\ h[Behind(h, x)].prev = h[x].size
             /\ Behind(h, x) # t /\ h[Behind(h, Behind(h, x))].pinuse
    BY <1>1 DEF FlagsSound, OrdinaryOf
  <2>2. \A x \in O : k[x] = h[x]
    BY <2>1, <1>3
  <2>3. ASSUME NEW x \in G
        PROVE  /\ k[x].pinuse /\ ~k[x].nonMain
               /\ ~k[Behind(k, x)].pinuse /\ k[Behind(k, x)].prev = k[x].size
               /\ Behind(k, x) # nt /\ k[Behind(k, Behind(k, x))].pinuse
    <3> DEFINE y == Behind(h, x)
    <3>1. /\ k[x] = h[x] /\ Behind(k, x) = y /\ y \in DOMAIN h /\ y # t /\ k[y] = h[y]
          /\ Behind(k, y) = Behind(h, y) /\ Behind(h, y) \in DOMAIN h /\ y # nt
      BY <2>1, <2>2, <1>2, <1>3, <1>15, <1>16
    <3>2. k[Behind(k, y)].pinuse
      BY <3>1, <2>1, <1>3
    <3> QED BY <3>1, <3>2, <2>1
  <2> HIDE DEF O
  <2> QED BY <2>1, <2>2, <2>3, <1>20 DEF FlagsSound
<1> QED BY <1>10, <1>15, <1>19, <1>20, <1>21, <1>22 DEF MemorySound, E, E2, ch2, hs2

\* A sequence of heaps without its last one.
LEMMA FrontIs ==
  ASSUME NEW ch \in Seq(Heaps), IsInjective(ch), Len(ch) > 1
  PROVE  /\ Front(ch) \in Seq(Heaps) /\ Front(ch) # <<>>
         /\ Front(ch)[Len(Front(ch))] = ch[Len(ch) - 1] /\ Front(ch)[1] = ch[1]
         /\ Range(Front(ch)) = Range(ch) \ {ch[Len(ch)]} /\ IsInjective(Front(ch))
<1> DEFINE P == ch[Len(ch) - 1]
           L == ch[Len(ch)]
<1> DEFINE N == Len(ch)
<1>1. N \in Nat /\ DOMAIN ch = 1..N /\ \A i \in 1..N : ch[i] \in Heaps
  BY LenProperties, ElementOfSeq
<1>2. N > 1
  OBVIOUS
<1> HIDE DEF N
<1>3. /\ Front(ch) \in Seq(Heaps) /\ Len(Front(ch)) = N - 1 /\ \A i \in 1..(N - 1) : Front(ch)[i] = ch[i]
  <2>1. \A i \in 1..(N - 1) : ch[i] \in Heaps
    BY <1>1, <1>2
  <2>2. /\ SubSeq(ch, 1, N - 1) \in Seq(Heaps)
        /\ Len(SubSeq(ch, 1, N - 1)) = IF 1 <= N - 1 THEN N - 1 - 1 + 1 ELSE 0
        /\ \A i \in 1..(N - 1 - 1 + 1) : SubSeq(ch, 1, N - 1)[i] = ch[1 + i - 1]
    BY <1>1, <2>1, SubSeqProperties, N - 1 \in Int, 1 \in Int
  <2>3. Front(ch) = SubSeq(ch, 1, N - 1)
    BY DEF N, Front
  <2> QED BY <1>1, <1>2, <2>2, <2>3
<1>4. DOMAIN Front(ch) = 1..(N - 1)
  BY <1>3, LenProperties
<1>5. Front(ch) # <<>> /\ Front(ch)[Len(Front(ch))] = P /\ Front(ch)[1] = ch[1]
  <2>1. N - 1 \in 1..(N - 1) /\ 1 \in 1..(N - 1) /\ N - 1 # 0
    BY <1>1, <1>2
  <2>2. Len(<<>>) = 0
    BY EmptySeq
  <2>3. Front(ch) # <<>>
    BY <2>1, <2>2, <1>3
  <2>4. Front(ch)[Len(Front(ch))] = ch[N - 1] /\ Front(ch)[1] = ch[1]
    BY <2>1, <1>3
  <2> QED BY <2>3, <2>4 DEF N
<1>6. IsInjective(Front(ch))
  <2>1. \A i \in 1..(N - 1) : i \in 1..N
    BY <1>1
  <2> QED BY <2>1, <1>1, <1>3, <1>4 DEF IsInjective
<1>7. Range(Front(ch)) = Range(ch) \ {L}
  <2>1. L = ch[N] /\ N \in 1..N /\ \A i \in 1..N : i \in 1..(N - 1) \/ i = N
    <3>1. N \in 1..N /\ \A i \in 1..N : i \in 1..(N - 1) \/ i = N
      BY <1>1, <1>2
    <3> QED BY <3>1 DEF N, L
  <2>2. \A i \in 1..(N - 1) : i \in 1..N /\ i # N
    BY <1>1
  <2>3. \A i \in 1..(N - 1) : ch[i] # L
    BY <2>1, <2>2, <1>1 DEF IsInjective
  <2> QED BY <2>1, <2>2, <2>3, <1>1, <1>3, <1>4 DEF Range
<1> QED BY <1>3, <1>5, <1>6, <1>7

\* The fencepost f of the last heap but one, and the end tag e behind it.
IsFence(h, hs, ch, f, e) ==
  /\ Len(ch) > 1 /\ e = EndOf(ch[Len(ch) - 1], hs) - EndRoom /\ f = e - h[e].prev

\* k is h without the last heap; the fencepost f becomes the top chunk.
IsDropped(h, k, t, f, e) ==
  /\ DOMAIN k = DOMAIN h \ {e, t}
  /\ \A x \in DOMAIN h \ {e, f, t} : k[x] = h[x]
  /\ k[f].size = h[f].size + EndRoom /\ k[f].pinuse /\ k[f].prev = 0

\* Where the fencepost is, and what is in front of it.
LEMMA FenceFacts ==
  ASSUME NEW h, NEW t, NEW hs, NEW ch, NEW G, MemorySound(h, t, hs, ch, G),
         NEW e, NEW f, IsFence(h, hs, ch, f, e)
  PROVE  /\ e \in EndTags(hs, ch) /\ e \in DOMAIN h /\ h[e].size = 0 /\ h[e].pinuse
         /\ f \in DOMAIN h /\ f \notin EndTags(hs, ch) /\ f # t /\ Behind(h, f) = e
         /\ f \notin OrdinaryOf(h, t, EndTags(hs, ch)) /\ f \notin G
         /\ h[f].size = h[e].prev /\ h[f].size \in 1..MinSize
         /\ HeapOf(f) = ch[Len(ch) - 1] /\ HeapOf(e) = ch[Len(ch) - 1]
         /\ ch[Len(ch) - 1] \in Range(ch) \ {ch[Len(ch)]} /\ ch[Len(ch)] # ch[1]
         /\ f + h[f].size + EndRoom = EndOf(ch[Len(ch) - 1], hs)
         /\ \A x \in DOMAIN h \ (EndTags(hs, ch) \cup {t}) : Behind(h, x) = e => x = f
<1> DEFINE E == EndTags(hs, ch)
           P == ch[Len(ch) - 1]
<1>1. /\ Typed(h) /\ HeapsSound(hs, ch) /\ Tiled(h, t, hs, ch)
      /\ FootersSound(h, t, E, G) /\ FlagsSound(h, t, E, G)
  BY DEF MemorySound
<1>2. /\ Len(ch) > 1 /\ e = EndOf(P, hs) - EndRoom /\ f = e - h[e].prev
  BY DEF IsFence
<1>3. /\ ch \in Seq(Heaps) /\ IsInjective(ch)
      /\ \A g \in Range(ch) : EndOf(g, hs) \in Nat
  BY <1>1, HeapFacts DEF HeapsSound
<1>4. Len(ch) \in Nat /\ DOMAIN ch = 1..Len(ch)
  BY <1>3, LenProperties
<1>5. /\ P \in Range(ch) /\ P # ch[Len(ch)] /\ ch[Len(ch)] # ch[1]
  <2>0. Len(ch) > 1 /\ Len(ch) \in Nat
    BY <1>2, <1>4, SMTT(30)
  <2>1. {Len(ch), Len(ch) - 1, 1} \subseteq DOMAIN ch /\ Len(ch) # Len(ch) - 1 /\ Len(ch) # 1
    <3> DEFINE N == Len(ch)
    <3>1. N > 1 /\ N \in Nat /\ DOMAIN ch = 1..N
      BY <2>0, <1>4
    <3> HIDE DEF N
    <3>2. {N, N - 1, 1} \subseteq 1..N /\ N # N - 1 /\ N # 1
      BY <3>1
    <3> QED BY <3>1, <3>2 DEF N
  <2> QED BY <2>1, <1>3 DEF Range, IsInjective
<1>6. e \in E
  BY <1>2, <1>5 DEF EndTags
<1> HIDE DEF E, P
<1>7. /\ e \in DOMAIN h /\ h[e].size = 0 /\ t \in DOMAIN h /\ t \notin E
      /\ \A x \in DOMAIN h \ (E \cup {t}) :
           Behind(h, x) \in DOMAIN h /\ HeapOf(Behind(h, x)) = HeapOf(x)
      /\ \A x \in DOMAIN h \ E : h[x].size > 0 /\ \A b \in DOMAIN h : b <= x \/ b >= Behind(h, x)
      /\ \A x \in E : h[x].size = 0
  BY <1>1, <1>6 DEF Tiled, E
<1>8. /\ h[e].pinuse /\ h[e].prev \in 1..MinSize /\ f \in DOMAIN h /\ h[f].size = h[e].prev
  BY <1>1, <1>2, <1>6 DEF FootersSound
<1>9. \A x \in DOMAIN h : x \in Nat /\ h[x].size \in Nat /\ h[x].prev \in Nat
  BY <1>1, TypedTags
<1>10. MinSize \in Nat /\ EndRoom \in Nat /\ h[f].size > 0
  BY <1>8, <1>9, Constants
<1>11. Behind(h, f) = e /\ f \notin E
  <2>1. f + h[f].size = e
    BY <1>2, <1>7, <1>8, <1>9
  <2> QED BY <2>1, <1>7, <1>10 DEF Behind
<1>12. f # t
  BY <1>1, <1>7, <1>11, NothingBehindTop
<1>13. HeapOf(f) = HeapOf(e)
  BY <1>7, <1>8, <1>11, <1>12
<1>14. EndOf(P, hs) = e + EndRoom
  <2>1. EndOf(P, hs) \in Nat /\ e \in Nat /\ EndRoom \in Nat
    BY <1>3, <1>5, <1>7, <1>9, <1>10
  <2> QED BY <2>1, <1>2
<1>15. HeapOf(e) = P
  BY <1>1, <1>2, <1>5 DEF HeapsSound, P
<1>16. \A x \in DOMAIN h \ (E \cup {t}) : Behind(h, x) = e => x = f
  BY <1>7, <1>8, <1>11, <1>12, Neighbours DEF E
<1>17. f \notin OrdinaryOf(h, t, E) /\ f \notin G
  BY <1>1, <1>6, <1>11 DEF OrdinaryOf, FlagsSound
<1>18. f + h[f].size + EndRoom = EndOf(P, hs)
  BY <1>11, <1>14 DEF Behind
<1> QED BY <1>5, <1>6, <1>7, <1>8, <1>11, <1>12, <1>13, <1>15, <1>16, <1>17, <1>18 DEF P, E

\* The last heap holds nothing but the top chunk: it is given up, and the end
\* of the heap before it becomes top.
LEMMA DroppedSound ==
  ASSUME NEW h, NEW t, NEW hs, NEW ch, NEW G, MemorySound(h, t, hs, ch, G),
         NEW e, NEW f, IsFence(h, hs, ch, f, e), h[f].pinuse,
         t = Base(HeapOf(t)) + HeapInfo,
         NEW k, Typed(k), IsDropped(h, k, t, f, e),
         NEW ch2, ch2 = Front(ch)
  PROVE  /\ MemorySound(k, f, hs, ch2, G)
         /\ OrdinaryOf(k, f, EndTags(hs, ch2)) = OrdinaryOf(h, t, EndTags(hs, ch))
         /\ \A x \in DOMAIN h : HeapOf(x) = HeapOf(t) <=> x = t
         /\ \A x \in DOMAIN k \ {f} : Behind(k, x) = Behind(h, x)
<1> DEFINE E == EndTags(hs, ch)
           O == OrdinaryOf(h, t, E)
           L == ch[Len(ch)]
           P == ch[Len(ch) - 1]
           E2 == EndTags(hs, ch2)
<1>1. /\ Typed(h) /\ HeapsSound(hs, ch) /\ Tiled(h, t, hs, ch)
      /\ FootersSound(h, t, E, G) /\ FlagsSound(h, t, E, G)
  BY DEF MemorySound
<1>2. /\ t \in DOMAIN h /\ t \notin E /\ E \subseteq DOMAIN h
      /\ \A x \in DOMAIN h \ (E \cup {t}) : Behind(h, x) \in DOMAIN h /\ Behind(h, x) > x
      /\ \A x \in DOMAIN h : ~h[x].pinuse => x # t /\ x \notin E /\ Behind(h, x - h[x].prev) = x
      /\ \A x \in O : x \in DOMAIN h \ (E \cup {t}) /\ Behind(h, x) \in DOMAIN h \ E
      /\ \A x \in G :
           /\ x \in O /\ x \in DOMAIN h \ (E \cup {t})
           /\ Behind(h, x) \in DOMAIN h \ (E \cup {t})
           /\ Behind(h, Behind(h, x)) \in DOMAIN h
  BY Neighbours
<1>3. /\ DOMAIN k = DOMAIN h \ {e, t}
      /\ \A x \in DOMAIN h \ {e, f, t} : k[x] = h[x]
      /\ k[f].size = h[f].size + EndRoom /\ k[f].pinuse /\ k[f].prev = 0
  BY DEF IsDropped
<1>4. /\ e \in E /\ e \in DOMAIN h /\ h[e].size = 0
      /\ f \in DOMAIN h /\ f \notin E /\ f # t /\ Behind(h, f) = e /\ f \notin O /\ f \notin G
      /\ h[f].size \in 1..MinSize
      /\ HeapOf(f) = P /\ HeapOf(e) = P /\ P \in Range(ch) /\ P # L /\ L # ch[1]
      /\ f + h[f].size + EndRoom = EndOf(P, hs)
      /\ \A x \in DOMAIN h \ (E \cup {t}) : Behind(h, x) = e => x = f
  BY FenceFacts
<1>5. /\ ch \in Seq(Heaps) /\ IsInjective(ch) /\ hs \in [Heaps -> 0..HeapMax]
      /\ \A g \in Range(ch) : EndOf(g, hs) \in Nat /\ Base(g) \in Nat /\ hs[g] > 0
      /\ L \in Range(ch)
  BY <1>1, HeapFacts DEF HeapsSound
<1>6. /\ ch2 \in Seq(Heaps) /\ ch2 # <<>> /\ ch2[Len(ch2)] = P /\ ch2[1] = ch[1]
      /\ Range(ch2) = Range(ch) \ {L} /\ IsInjective(ch2)
  <2>1. Len(ch) > 1
    BY DEF IsFence
  <2> QED BY <2>1, <1>5, FrontIs
<1> HIDE DEF L, P
<1>7. \A g \in Range(ch2) : FirstOf(g, ch2) = FirstOf(g, ch)
  BY <1>6 DEF FirstOf
<1>8. E2 = E \ {e}
  <2>1. \A g \in Range(ch) \ {L} : HeapOf(EndOf(g, hs) - EndRoom) = g
    BY <1>1 DEF HeapsSound, L
  <2>2. E = {EndOf(g, hs) - EndRoom : g \in Range(ch) \ {L}}
    BY DEF EndTags, L
  <2>3. E2 = {EndOf(g, hs) - EndRoom : g \in (Range(ch) \ {L}) \ {P}}
    BY <1>6 DEF EndTags
  <2>4. e = EndOf(P, hs) - EndRoom
    BY DEF IsFence, P
  <2> HIDE DEF E, E2
  <2>5. ASSUME NEW x \in E2 PROVE x \in E /\ x # e
    BY <2>1, <2>2, <2>3, <2>4, <1>4
  <2>6. ASSUME NEW x \in E, x # e PROVE x \in E2
    <3>1. PICK g \in Range(ch) \ {L} : x = EndOf(g, hs) - EndRoom
      BY <2>2
    <3>2. g # P
      BY <3>1, <2>4, <2>6
    <3> QED BY <3>1, <3>2, <2>3
  <2> QED BY <2>5, <2>6
<1>9. HeapsSound(hs, ch2)
  <2>1. \A g \in Range(ch2) \ {ch2[Len(ch2)]} : HeapOf(EndOf(g, hs) - EndRoom) = g
    BY <1>1, <1>6 DEF HeapsSound, L
  <2>2. \A g \in Range(ch2) : hs[g] > 0
    BY <1>5, <1>6
  <2> QED BY <2>1, <2>2, <1>1, <1>6 DEF HeapsSound
<1>10. \A x \in DOMAIN h : x \in Nat /\ h[x].size \in Nat /\ Behind(h, x) \in Nat
  BY <1>1, TypedTags
<1>11. /\ HeapOf(t) = L /\ Behind(h, t) = EndOf(L, hs) /\ h[t].size >= MinSize
       /\ \A g \in Range(ch) : FirstOf(g, ch) \in DOMAIN h /\ HeapOf(FirstOf(g, ch)) = g
       /\ \A x \in DOMAIN h :
            HeapOf(x) \in Range(ch) /\ FirstOf(HeapOf(x), ch) <= x /\ x < EndOf(HeapOf(x), hs)
       /\ \A x \in E : x \in DOMAIN h /\ h[x].size = 0
       /\ \A x \in DOMAIN h \ E : h[x].size > 0 /\ \A b \in DOMAIN h : b <= x \/ b >= Behind(h, x)
       /\ \A x \in DOMAIN h \ (E \cup {t}) :
            Behind(h, x) \in DOMAIN h /\ HeapOf(Behind(h, x)) = HeapOf(x)
  BY <1>1 DEF Tiled, L
<1>12. \A x \in DOMAIN h : HeapOf(x) = L <=> x = t
  <2> SUFFICES ASSUME NEW x \in DOMAIN h, HeapOf(x) = L PROVE x = t
    BY <1>11
  <2>1. FirstOf(L, ch) = t
    <3>1. FirstOf(L, ch) = Base(L) + HeapInfo + 0
      BY <1>4 DEF FirstOf
    <3>2. Base(L) \in Nat /\ HeapInfo \in Nat
      BY <1>5, Constants
    <3> QED BY <3>1, <3>2, <1>11
  <2>2. t <= x /\ x < Behind(h, t) /\ (x <= t \/ x >= Behind(h, t))
    BY <2>1, <1>2, <1>11
  <2> QED BY <2>2, <1>2, <1>10
<1>13. MinSize \in Nat /\ EndRoom = MinSize - 1 /\ MinSize > 1
  BY Constants
<1>14. k[f].size >= MinSize /\ k[f].size \in Nat
  BY <1>3, <1>4, <1>10, <1>13
<1>15. /\ Behind(k, f) = EndOf(P, hs) /\ Behind(k, f) \in Nat
       /\ \A x \in DOMAIN h \ {e, f, t} : Behind(k, x) = Behind(h, x)
  <2>1. f + (h[f].size + EndRoom) = f + h[f].size + EndRoom
    BY <1>4, <1>10, <1>13
  <2> QED BY <2>1, <1>3, <1>4, <1>5 DEF Behind
<1> HIDE DEF E, E2
<1>16. \A x \in DOMAIN h \ {e} : x <= f \/ x >= EndOf(P, hs)
  <2>0. f \in Nat /\ EndOf(P, hs) \in Nat
    BY <1>4, <1>5, <1>10
  <2> SUFFICES ASSUME NEW x \in DOMAIN h \ {e}, x > f, x < EndOf(P, hs) PROVE FALSE
    BY <2>0, <1>10
  <2>1. x >= e
    BY <1>4, <1>10, <1>11
  <2>2. HeapOf(x) = P
    <3>1. P \in Nat /\ Base(P) \in Nat /\ EndOf(P, hs) <= Base(P) + HeapMax
      BY <1>1, <1>4, HeapFacts
    <3>2. Base(P) <= f /\ f \in Nat
      BY <1>4, <1>10, HeapRange
    <3>3. x \in Nat /\ EndOf(P, hs) \in Nat /\ HeapMax \in Nat
      BY <2>0, <1>10, Constants
    <3>4. Base(P) <= x /\ x < Base(P) + HeapMax
      BY <3>1, <3>2, <3>3
    <3> QED BY <3>1, <3>3, <3>4, HeapIs
  <2>3. CASE x \in E
    <3>1. x = e
      <4>1. PICK g \in Range(ch) \ {L} : x = EndOf(g, hs) - EndRoom
        BY <2>3 DEF EndTags, E, L
      <4>2. HeapOf(x) = g
        BY <4>1, <1>1 DEF HeapsSound, L
      <4> QED BY <4>1, <4>2, <2>2 DEF IsFence, P
    <3> QED BY <3>1
  <2>4. CASE x \notin E
    <3>1. x # t
      BY <2>2, <1>4, <1>11
    <3>2. x \notin O \/ h[x].size >= MinSize
      BY <1>1 DEF FlagsSound
    <3>3. HeapOf(Behind(h, x)) = P /\ Behind(h, x) \in DOMAIN h
      BY <2>2, <2>4, <3>1, <1>11
    <3>4. Behind(h, x) < EndOf(P, hs)
      BY <3>3, <1>11
    <3>5. e < x /\ x < Behind(h, x) /\ e \in Nat /\ x \in Nat
      BY <2>1, <2>4, <3>1, <1>2, <1>4, <1>10
    <3>6. Behind(h, x) \notin E
      <4>1. SUFFICES ASSUME Behind(h, x) \in E PROVE FALSE
        OBVIOUS
      <4>2. PICK g \in Range(ch) \ {L} : Behind(h, x) = EndOf(g, hs) - EndRoom
        BY <4>1 DEF EndTags, E, L
      <4>3. HeapOf(Behind(h, x)) = g
        BY <4>2, <1>1 DEF HeapsSound, L
      <4>4. Behind(h, x) = e
        BY <4>2, <4>3, <3>3 DEF IsFence, P
      <4> QED BY <4>4, <3>5
    <3>7. h[x].size >= MinSize
      BY <3>1, <3>2, <3>6, <2>4 DEF OrdinaryOf
    <3>8. x + h[x].size < EndOf(P, hs) /\ EndOf(P, hs) = e + EndRoom
      <4>1. EndOf(P, hs) = e + EndRoom
        <5>1. EndOf(P, hs) = f + h[f].size + EndRoom /\ f + h[f].size = e
          BY <1>4 DEF Behind
        <5> QED BY <5>1
      <4> QED BY <4>1, <3>4 DEF Behind
    <3> QED BY <3>5, <3>7, <3>8, <1>10, <1>13
  <2> QED BY <2>3, <2>4
<1>17. Tiled(k, f, hs, ch2)
  <2>1. /\ f \in DOMAIN k /\ f \notin E2 /\ k[f].size >= MinSize
        /\ HeapOf(f) = ch2[Len(ch2)] /\ Behind(k, f) = EndOf(ch2[Len(ch2)], hs)
    BY <1>3, <1>4, <1>6, <1>8, <1>14, <1>15
  <2>2. ASSUME NEW g \in Range(ch2) PROVE FirstOf(g, ch2) \in DOMAIN k /\ HeapOf(FirstOf(g, ch2)) = g
    <3>1. g \in Range(ch) /\ g # L /\ FirstOf(g, ch2) = FirstOf(g, ch)
      BY <1>6, <1>7
    <3>2. FirstOf(g, ch) \in DOMAIN h /\ HeapOf(FirstOf(g, ch)) = g
      BY <3>1, <1>11
    <3>3. FirstOf(g, ch) # t
      BY <3>1, <3>2, <1>11
    <3>4. FirstOf(g, ch) # e
      <4>1. SUFFICES ASSUME FirstOf(g, ch) = e PROVE FALSE
        OBVIOUS
      <4>2. g = P /\ FirstOf(P, ch) <= f
        BY <4>1, <3>2, <1>4, <1>11
      <4> QED BY <4>1, <4>2, <1>2, <1>4, <1>10
    <3> QED BY <3>1, <3>2, <3>3, <3>4, <1>3
  <2>3. ASSUME NEW x \in DOMAIN k
        PROVE  HeapOf(x) \in Range(ch2) /\ FirstOf(HeapOf(x), ch2) <= x /\ x < EndOf(HeapOf(x), hs)
    <3>1. x \in DOMAIN h /\ HeapOf(x) \in Range(ch2)
      BY <1>3, <1>6, <1>11, <1>12
    <3> QED BY <3>1, <1>7, <1>11
  <2>4. \A x \in E2 : x \in DOMAIN k /\ k[x].size = 0
    BY <1>2, <1>3, <1>4, <1>8, <1>11
  <2>5. ASSUME NEW x \in DOMAIN k \ E2
        PROVE  k[x].size > 0 /\ \A b \in DOMAIN k : b <= x \/ b >= Behind(k, x)
    <3>1. CASE x = f
      <4>1. \A b \in DOMAIN k : b <= f \/ b >= Behind(k, f)
        BY <1>3, <1>15, <1>16
      <4> QED BY <3>1, <4>1, <1>13, <1>14
    <3>2. CASE x # f
      BY <3>2, <2>5, <1>3, <1>8, <1>11, <1>15
    <3> QED BY <3>1, <3>2
  <2>6. ASSUME NEW x \in DOMAIN k \ (E2 \cup {f})
        PROVE  Behind(k, x) \in DOMAIN k /\ HeapOf(Behind(k, x)) = HeapOf(x)
    <3>1. x \in DOMAIN h \ (E \cup {t}) /\ x # f /\ Behind(k, x) = Behind(h, x)
      BY <1>3, <1>8, <1>15
    <3>2. Behind(h, x) \in DOMAIN h /\ HeapOf(Behind(h, x)) = HeapOf(x) /\ Behind(h, x) # e
      BY <3>1, <1>4, <1>11
    <3>3. Behind(h, x) # t
      BY <3>1, <3>2, <1>11, <1>12
    <3> QED BY <3>1, <3>2, <3>3, <1>3
  <2> QED BY <2>1, <2>2, <2>3, <2>4, <2>5, <2>6 DEF Tiled, E2
<1>18. OrdinaryOf(k, f, E2) = O
  <2>1. ASSUME NEW x \in DOMAIN k \ (E2 \cup {f}), Behind(k, x) \notin E2
        PROVE  x \in DOMAIN h \ (E \cup {t}) /\ Behind(h, x) \notin E
    <3>1. x \in DOMAIN h \ (E \cup {t}) /\ x # f /\ Behind(k, x) = Behind(h, x)
      BY <2>1, <1>3, <1>8, <1>15
    <3> QED BY <3>1, <2>1, <1>4, <1>8
  <2>2. ASSUME NEW x \in DOMAIN h \ (E \cup {t}), Behind(h, x) \notin E
        PROVE  x \in DOMAIN k \ (E2 \cup {f}) /\ Behind(k, x) \notin E2
    BY <2>2, <1>2, <1>3, <1>4, <1>8, <1>15
  <2> QED BY <2>1, <2>2 DEF OrdinaryOf
<1>19. \A x \in O : x \in DOMAIN k /\ x # f /\ k[x] = h[x] /\ Behind(k, x) = Behind(h, x)
  BY <1>2, <1>3, <1>4, <1>15
<1>20. FootersSound(k, f, E2, G)
  <2>1. \A x \in DOMAIN k \ E2 : k[x].pinuse => k[x].prev = 0
    BY <1>1, <1>3, <1>8 DEF FootersSound
  <2>2. ASSUME NEW x \in DOMAIN k, ~k[x].pinuse
        PROVE  x - k[x].prev \in G /\ k[x - k[x].prev].size = k[x].prev
    <3>1. x \in DOMAIN h /\ k[x] = h[x]
      BY <2>2, <1>3
    <3>2. x - h[x].prev \in G /\ h[x - h[x].prev].size = h[x].prev
      BY <3>1, <2>2, <1>1 DEF FootersSound
    <3> QED BY <3>1, <3>2, <1>2, <1>19
  <2>3. ASSUME NEW y \in E2
        PROVE  /\ k[y].pinuse /\ k[y].prev \in 1..MinSize
               /\ y - k[y].prev \in DOMAIN k /\ k[y - k[y].prev].size = k[y].prev
    <3>1. y \in E /\ y # e
      BY <1>8
    <3>2. /\ h[y].pinuse /\ h[y].prev \in 1..MinSize
          /\ y - h[y].prev \in DOMAIN h /\ h[y - h[y].prev].size = h[y].prev
      BY <3>1, <1>1 DEF FootersSound
    <3>3. k[y] = h[y] /\ y \in Nat /\ y \in DOMAIN h
      BY <3>1, <1>2, <1>3, <1>4, <1>10
    <3> DEFINE x == y - h[y].prev
    <3>4. Behind(h, x) = y
      <4>1. x + h[y].prev = y
        BY <3>2, <3>3
      <4> QED BY <4>1, <3>2 DEF Behind
    <3>5. x # t
      BY <3>3, <3>4, <1>1, NothingBehindTop
    <3>6. x # f
      BY <3>1, <3>4, <1>4
    <3>7. x # e
      <4>1. h[x].size # 0
        BY <3>2, <1>13
      <4> QED BY <4>1, <1>4
    <3> HIDE DEF x
    <3>8. x \in DOMAIN h \ {e, f, t}
      BY <3>2, <3>5, <3>6, <3>7 DEF x
    <3> QED BY <3>2, <3>3, <3>8, <1>3 DEF x
  <2> QED BY <2>1, <2>2, <2>3, <1>3 DEF FootersSound
<1>21. FlagsSound(k, f, E2, G)
  <2>1. /\ G \subseteq O
        /\ \A x \in O : h[x].size >= MinSize
        /\ \A x \in O \ G : h[x].nonMain
        /\ \A x \in G :
             /\ h[x].pinuse /\ ~h[x].nonMain
             /\ ~h[Behind(h, x)].pinuse /\ h[Behind(h, x)].prev = h[x].size
             /\ Behind(h, x) # t /\ h[Behind(h, Behind(h, x))].pinuse
    BY <1>1 DEF FlagsSound
  <2>2. ASSUME NEW x \in G
        PROVE  /\ k[x].pinuse /\ ~k[x].nonMain
               /\ ~k[Behind(k, x)].pinuse /\ k[Behind(k, x)].prev = k[x].size
               /\ Behind(k, x) # f /\ k[Behind(k, Behind(k, x))].pinuse
    <3> DEFINE y == Behind(h, x)
    <3>1. /\ k[x] = h[x] /\ Behind(k, x) = y /\ y \in DOMAIN h /\ y # t /\ ~h[y].pinuse /\ y \notin E
          /\ h[y].prev = h[x].size /\ Behind(h, y) \in DOMAIN h /\ h[Behind(h, y)].pinuse
      BY <2>1, <1>2, <1>19
    <3> HIDE DEF y
    <3>2. y # f /\ y # e
      BY <3>1, <1>4
    <3>3. k[y] = h[y] /\ Behind(k, y) = Behind(h, y)
      BY <3>1, <3>2, <1>3, <1>15
    <3>4. Behind(h, y) # e
      BY <3>1, <3>2, <1>4
    <3>5. Behind(h, y) # t
      BY <3>1, <1>11, <1>12
    <3>6. k[Behind(h, y)].pinuse
      BY <3>1, <3>4, <3>5, <1>3
    <3> QED BY <2>1, <3>1, <3>2, <3>3, <3>6
  <2> HIDE DEF O
  <2> QED BY <2>1, <2>2, <1>18, <1>19 DEF FlagsSound
<1>22. \A x \in DOMAIN k \ {f} : Behind(k, x) = Behind(h, x)
  BY <1>3, <1>15
<1> QED BY <1>9, <1>11, <1>12, <1>17, <1>18, <1>20, <1>21, <1>22 DEF MemorySound, E, E2

-----------------------------------------------------------------------------
(* Lists.                                                                  *)

\* A list without its element at i.
LEMMA RemoveAtIs ==
  ASSUME NEW S, NEW s \in Seq(S), NEW i \in 1..Len(s)
  PROVE  /\ RemoveAt(s, i) \in Seq(S) /\ Len(RemoveAt(s, i)) = Len(s) - 1
         /\ \A k \in 1..(Len(s) - 1) : RemoveAt(s, i)[k] = IF k < i THEN s[k] ELSE s[k + 1]
<1> DEFINE x == SubSeq(s, 1, i - 1)
           y == SubSeq(s, i + 1, Len(s))
<1>0. Len(s) \in Nat /\ \A k \in 1..Len(s) : s[k] \in S
  BY LenProperties, ElementOfSeq
<1>1. x \in Seq(S) /\ Len(x) = i - 1 /\ \A k \in 1..(i - 1) : x[k] = s[k]
  <2>1. \A k \in 1..(i - 1) : s[k] \in S
    BY <1>0
  <2>2. /\ SubSeq(s, 1, i - 1) \in Seq(S)
        /\ Len(SubSeq(s, 1, i - 1)) = IF 1 <= i - 1 THEN i - 1 - 1 + 1 ELSE 0
        /\ \A k \in 1..(i - 1 - 1 + 1) : SubSeq(s, 1, i - 1)[k] = s[1 + k - 1]
    BY <2>1, SubSeqProperties, i - 1 \in Int, 1 \in Int
  <2> QED BY <2>2, <1>0
<1>2. y \in Seq(S) /\ Len(y) = Len(s) - i /\ \A k \in 1..(Len(s) - i) : y[k] = s[k + i]
  <2>1. \A k \in (i + 1)..Len(s) : s[k] \in S
    BY <1>0
  <2>2. /\ SubSeq(s, i + 1, Len(s)) \in Seq(S)
        /\ Len(SubSeq(s, i + 1, Len(s))) = IF i + 1 <= Len(s) THEN Len(s) - (i + 1) + 1 ELSE 0
        /\ \A k \in 1..(Len(s) - (i + 1) + 1) : SubSeq(s, i + 1, Len(s))[k] = s[i + 1 + k - 1]
    BY <2>1, <1>0, SubSeqProperties, i + 1 \in Int, Len(s) \in Int
  <2> QED BY <2>2, <1>0
<1>3. RemoveAt(s, i) = x \o y
  BY DEF RemoveAt
<1> HIDE DEF x, y
<1>4. /\ x \o y \in Seq(S) /\ Len(x \o y) = Len(x) + Len(y)
      /\ \A k \in 1..(Len(x) + Len(y)) : (x \o y)[k] = IF k <= Len(x) THEN x[k] ELSE y[k - Len(x)]
  BY <1>1, <1>2, ConcatProperties
<1>5. Len(s) \in Nat /\ i \in Nat /\ i >= 1 /\ i <= Len(s)
  BY <1>0
<1> DEFINE z == x \o y
           n == Len(s)
<1> HIDE DEF z, n
<1>6. Len(z) = n - 1
  <2>1. Len(z) = (i - 1) + (n - i) /\ n \in Nat
    BY <1>1, <1>2, <1>4, <1>5 DEF z, n
  <2> QED BY ONLY <2>1, <1>5
<1>7. ASSUME NEW k \in 1..(n - 1) PROVE z[k] = IF k < i THEN s[k] ELSE s[k + 1]
  <2>1. n \in Nat /\ i <= n /\ k \in Nat /\ k >= 1 /\ k <= n - 1
    BY <1>5 DEF n
  <2>2. \A j \in 1..((i - 1) + (n - i)) : z[j] = IF j <= i - 1 THEN x[j] ELSE y[j - (i - 1)]
    BY <1>1, <1>2, <1>4 DEF z, n
  <2>3. k \in 1..((i - 1) + (n - i))
    BY ONLY <1>5, <2>1
  <2>4. z[k] = IF k <= i - 1 THEN x[k] ELSE y[k - (i - 1)]
    BY <2>2, <2>3
  <2>5. CASE k < i
    <3>1. k <= i - 1 /\ k \in 1..(i - 1)
      BY ONLY <1>5, <2>1, <2>5
    <3> QED BY <1>1, <2>4, <2>5, <3>1
  <2>6. CASE ~(k < i)
    <3>1. ~(k <= i - 1) /\ k - (i - 1) \in 1..(n - i) /\ (k - (i - 1)) + i = k + 1
      BY ONLY <1>5, <2>1, <2>6
    <3>2. y[k - (i - 1)] = s[k + 1]
      BY <1>2, <3>1 DEF n
    <3> QED BY <2>4, <2>6, <3>1, <3>2
  <2> QED BY <2>5, <2>6
<1> QED BY <1>3, <1>4, <1>6, <1>7 DEF z, n

\* A list with e put in at i.
LEMMA InsertAtIs ==
  ASSUME NEW s \in Seq(Nat), NEW e \in Nat, NEW i \in 1..Len(s)
  PROVE  /\ InsertAt(s, i, e) \in Seq(Nat) /\ Len(InsertAt(s, i, e)) = Len(s) + 1
         /\ \A k \in 1..(Len(s) + 1) :
              InsertAt(s, i, e)[k] = IF k < i THEN s[k] ELSE IF k = i THEN e ELSE s[k - 1]
<1> DEFINE x == SubSeq(s, 1, i - 1)
           y == SubSeq(s, i, Len(s))
           z == x \o <<e>>
<1>0. Len(s) \in Nat /\ \A k \in 1..Len(s) : s[k] \in Nat
  BY LenProperties, ElementOfSeq
<1>1. x \in Seq(Nat) /\ Len(x) = i - 1 /\ \A k \in 1..(i - 1) : x[k] = s[k]
  <2>1. \A k \in 1..(i - 1) : s[k] \in Nat
    BY <1>0
  <2>2. /\ SubSeq(s, 1, i - 1) \in Seq(Nat)
        /\ Len(SubSeq(s, 1, i - 1)) = IF 1 <= i - 1 THEN i - 1 - 1 + 1 ELSE 0
        /\ \A k \in 1..(i - 1 - 1 + 1) : SubSeq(s, 1, i - 1)[k] = s[1 + k - 1]
    BY <2>1, SubSeqProperties, i - 1 \in Int, 1 \in Int
  <2> QED BY <2>2, <1>0
<1>2. y \in Seq(Nat) /\ Len(y) = Len(s) - i + 1 /\ \A k \in 1..(Len(s) - i + 1) : y[k] = s[k + i - 1]
  <2>1. \A k \in i..Len(s) : s[k] \in Nat
    BY <1>0
  <2>2. /\ SubSeq(s, i, Len(s)) \in Seq(Nat)
        /\ Len(SubSeq(s, i, Len(s))) = IF i <= Len(s) THEN Len(s) - i + 1 ELSE 0
        /\ \A k \in 1..(Len(s) - i + 1) : SubSeq(s, i, Len(s))[k] = s[i + k - 1]
    BY <2>1, <1>0, SubSeqProperties, i \in Int, Len(s) \in Int
  <2> QED BY <2>2, <1>0
<1>3. InsertAt(s, i, e) = z \o y
  BY DEF InsertAt
<1>4. z \in Seq(Nat) /\ Len(z) = i /\ \A k \in 1..i : z[k] = IF k < i THEN s[k] ELSE e
  <2> HIDE DEF x
  <2>1. <<e>> \in Seq(Nat) /\ Len(<<e>>) = 1 /\ <<e>>[1] = e
    OBVIOUS
  <2>2. /\ x \o <<e>> \in Seq(Nat) /\ Len(x \o <<e>>) = Len(x) + Len(<<e>>)
        /\ \A k \in 1..(Len(x) + Len(<<e>>)) :
             (x \o <<e>>)[k] = IF k <= Len(x) THEN x[k] ELSE <<e>>[k - Len(x)]
    BY <1>1, <2>1, ConcatProperties
  <2>3. Len(x) = i - 1 /\ Len(<<e>>) = 1 /\ (i - 1) + 1 = i /\ i - (i - 1) = 1
    BY <1>1, <2>1
  <2>4. \A k \in 1..i : k # i => k <= i - 1 /\ k \in 1..(i - 1) /\ k < i
    OBVIOUS
  <2>5. ~(i <= i - 1) /\ i \in 1..i /\ ~(i < i)
    OBVIOUS
  <2>6. \A k \in 1..i : k # i => z[k] = s[k]
    BY <2>2, <2>3, <2>4, <1>1
  <2>7. z[i] = e
    BY <2>1, <2>2, <2>3, <2>5
  <2> HIDE DEF z
  <2>8. \A k \in 1..i : z[k] = IF k < i THEN s[k] ELSE e
    BY <2>4, <2>5, <2>6, <2>7
  <2>9. z \in Seq(Nat) /\ Len(z) = i
    BY <2>2, <2>3 DEF z
  <2> QED BY <2>8, <2>9
<1> HIDE DEF x, y, z
<1>5. /\ z \o y \in Seq(Nat) /\ Len(z \o y) = Len(z) + Len(y)
      /\ \A k \in 1..(Len(z) + Len(y)) : (z \o y)[k] = IF k <= Len(z) THEN z[k] ELSE y[k - Len(z)]
  BY <1>2, <1>4, ConcatProperties
<1>6. Len(z) = i /\ Len(z) + Len(y) = Len(s) + 1
  BY <1>0, <1>2, <1>4
<1>7. ASSUME NEW k \in 1..(Len(s) + 1)
      PROVE  (z \o y)[k] = IF k < i THEN s[k] ELSE IF k = i THEN e ELSE s[k - 1]
  <2>1. (z \o y)[k] = IF k <= i THEN z[k] ELSE y[k - i]
    BY <1>5, <1>6
  <2>2. CASE k <= i
    <3>1. k \in 1..i /\ (k < i \/ k = i)
      BY <2>2
    <3> QED BY <2>1, <2>2, <3>1, <1>4
  <2>3. CASE ~(k <= i)
    <3>1. k - i \in 1..(Len(s) - i + 1) /\ (k - i) + i - 1 = k - 1 /\ ~(k < i) /\ k # i
      BY <2>3, <1>0
    <3>2. y[k - i] = s[k - 1]
      BY <3>1, <1>2
    <3> QED BY <2>1, <2>3, <3>1, <3>2
  <2> QED BY <2>2, <2>3
<1> QED BY <1>3, <1>5, <1>6, <1>7

\* A list without a.
LEMMA WithoutIs ==
  ASSUME NEW s \in Seq(Nat), IsInjective(s), NEW a
  PROVE  /\ Without(s, a) \in Seq(Nat) /\ IsInjective(Without(s, a))
         /\ Range(Without(s, a)) = Range(s) \ {a}
         /\ \A z : Falling(s, z) => Falling(Without(s, a), z)
         /\ a \notin Range(s) => Without(s, a) = s
<1>1. CASE a \notin Range(s)
  BY <1>1 DEF Without
<1>2. CASE a \in Range(s)
  <2> DEFINE N == Len(s)
             c == CHOOSE k \in DOMAIN s : s[k] = a
             w == RemoveAt(s, c)
  <2>1. N \in Nat /\ DOMAIN s = 1..N /\ \A k \in 1..N : s[k] \in Nat
    BY LenProperties, ElementOfSeq
  <2>2. c \in 1..N /\ s[c] = a
    BY <1>2, <2>1 DEF Range
  <2>3. Without(s, a) = w
    BY <1>2 DEF Without
  <2> HIDE DEF c
  <2>4. /\ w \in Seq(Nat) /\ Len(w) = N - 1
        /\ \A k \in 1..(N - 1) : w[k] = IF k < c THEN s[k] ELSE s[k + 1]
    BY <2>2, RemoveAtIs
  <2>5. DOMAIN w = 1..(N - 1)
    BY <2>4, LenProperties
  <2> HIDE DEF w, N
  <2> DEFINE f(k) == IF k < c THEN k ELSE k + 1
  <2>6. /\ \A k \in 1..(N - 1) : f(k) \in 1..N /\ f(k) # c /\ w[k] = s[f(k)]
        /\ \A j, k \in 1..(N - 1) : (j < k => f(j) < f(k)) /\ (f(j) = f(k) => j = k)
        /\ \A m \in 1..N : m # c => \E k \in 1..(N - 1) : f(k) = m
    <3>1. /\ \A k \in 1..(N - 1) : f(k) \in 1..N /\ f(k) # c /\ w[k] = s[f(k)]
          /\ \A j, k \in 1..(N - 1) : (j < k => f(j) < f(k)) /\ (f(j) = f(k) => j = k)
      BY <2>1, <2>2, <2>4
    <3>2. ASSUME NEW m \in 1..N, m # c PROVE \E k \in 1..(N - 1) : f(k) = m
      <4> DEFINE k == IF m < c THEN m ELSE m - 1
      <4>1. k \in 1..(N - 1) /\ f(k) = m
        BY <2>1, <2>2, <3>2
      <4> QED BY <4>1
    <3> QED BY <3>1, <3>2
  <2> HIDE DEF f
  <2>7. IsInjective(w)
    BY <2>1, <2>5, <2>6 DEF IsInjective
  <2>8. Range(w) = Range(s) \ {a}
    <3>1. ASSUME NEW x \in Range(w) PROVE x \in Range(s) /\ x # a
      <4>1. PICK k \in 1..(N - 1) : x = w[k]
        BY <2>5 DEF Range
      <4>2. f(k) \in 1..N /\ f(k) # c /\ x = s[f(k)]
        BY <4>1, <2>6
      <4> QED BY <4>2, <2>1, <2>2 DEF Range, IsInjective
    <3>2. ASSUME NEW x \in Range(s), x # a PROVE x \in Range(w)
      <4>1. PICK m \in 1..N : x = s[m]
        BY <2>1 DEF Range
      <4>2. m # c
        BY <4>1, <3>2, <2>2
      <4>3. PICK k \in 1..(N - 1) : f(k) = m
        BY <4>2, <2>6
      <4> QED BY <4>1, <4>3, <2>5, <2>6 DEF Range
    <3> QED BY <3>1, <3>2
  <2>9. ASSUME NEW z, Falling(s, z) PROVE Falling(w, z)
    <3> SUFFICES ASSUME NEW j \in 1..(N - 1), NEW k \in 1..(N - 1), j < k
                 PROVE  z[w[j]].size >= z[w[k]].size
      BY <2>5 DEF Falling
    <3>1. f(j) \in 1..N /\ f(k) \in 1..N /\ f(j) < f(k) /\ w[j] = s[f(j)] /\ w[k] = s[f(k)]
      BY <2>6
    <3>2. z[s[f(j)]].size >= z[s[f(k)]].size
      BY <3>1, <2>1, <2>9 DEF Falling
    <3> QED BY <3>1, <3>2
  <2> QED BY <2>3, <2>4, <2>7, <2>8, <2>9, <1>2
<1> QED BY <1>1, <1>2

\* What a list put in front of, or behind, a list holds.
LEMMA InFrontIs ==
  ASSUME NEW s \in Seq(Nat), IsInjective(s), NEW v \in Nat, v \notin Range(s)
  PROVE  /\ <<v>> \o s \in Seq(Nat) /\ IsInjective(<<v>> \o s)
         /\ Range(<<v>> \o s) = Range(s) \cup {v} /\ <<v>> \o s # <<>>
         /\ \A z : Falling(s, z) /\ (\A a \in Range(s) : z[v].size >= z[a].size) => Falling(<<v>> \o s, z)
<1> DEFINE w == <<v>> \o s
           N == Len(s)
<1>1. N \in Nat /\ DOMAIN s = 1..N
  BY LenProperties
<1>2. <<v>> \in Seq(Nat) /\ Len(<<v>>) = 1 /\ <<v>>[1] = v
  OBVIOUS
<1>3. /\ w \in Seq(Nat) /\ Len(w) = 1 + N
      /\ \A k \in 1..(1 + N) : w[k] = IF k <= 1 THEN <<v>>[k] ELSE s[k - 1]
  BY <1>2, ConcatProperties
<1>4. DOMAIN w = 1..(1 + N)
  BY <1>3, LenProperties
<1>5. w[1] = v /\ \A k \in 2..(1 + N) : w[k] = s[k - 1] /\ k - 1 \in 1..N
  BY <1>1, <1>2, <1>3
<1> HIDE DEF w, N
<1>6. \A k \in 1..(1 + N) : k = 1 \/ k \in 2..(1 + N)
  BY <1>1
<1>7. \A m \in 1..N : m + 1 \in 2..(1 + N) /\ (m + 1) - 1 = m /\ m + 1 \in 1..(1 + N)
  BY <1>1
<1>8. Range(w) = Range(s) \cup {v}
  <2>1. ASSUME NEW x \in Range(w) PROVE x \in Range(s) \/ x = v
    <3>1. PICK k \in 1..(1 + N) : x = w[k]
      BY <1>4 DEF Range
    <3> QED BY <3>1, <1>1, <1>5, <1>6 DEF Range
  <2>2. ASSUME NEW x \in Range(s) PROVE x \in Range(w)
    <3>1. PICK m \in 1..N : x = s[m]
      BY <1>1 DEF Range
    <3>2. x = w[m + 1] /\ m + 1 \in 1..(1 + N)
      BY <3>1, <1>5, <1>7
    <3> QED BY <3>2, <1>4 DEF Range
  <2>3. v \in Range(w)
    BY <1>1, <1>4, <1>5 DEF Range
  <2> QED BY <2>1, <2>2, <2>3
<1>9. IsInjective(w)
  <2> SUFFICES ASSUME NEW j \in 1..(1 + N), NEW k \in 1..(1 + N), w[j] = w[k] PROVE j = k
    BY <1>4 DEF IsInjective
  <2>1. \A m \in 1..N : s[m] # v
    BY <1>1 DEF Range
  <2>2. CASE j \in 2..(1 + N) /\ k \in 2..(1 + N)
    <3>1. s[j - 1] = s[k - 1] /\ j - 1 \in 1..N /\ k - 1 \in 1..N
      BY <2>2, <1>5
    <3>2. j - 1 = k - 1
      BY <3>1, <1>1 DEF IsInjective
    <3> QED BY <3>2
  <2>3. CASE j = 1 \/ k = 1
    BY <2>1, <2>3, <1>5, <1>6
  <2> QED BY <2>2, <2>3, <1>6
<1>10. ASSUME NEW z, Falling(s, z), \A a \in Range(s) : z[v].size >= z[a].size PROVE Falling(w, z)
  <2> SUFFICES ASSUME NEW j \in 1..(1 + N), NEW k \in 1..(1 + N), j < k PROVE z[w[j]].size >= z[w[k]].size
    BY <1>4 DEF Falling
  <2>1. k \in 2..(1 + N)
    OBVIOUS
  <2>2. CASE j = 1
    BY <2>1, <2>2, <1>1, <1>5, <1>10 DEF Range
  <2>3. CASE j \in 2..(1 + N)
    <3>1. j - 1 \in 1..N /\ k - 1 \in 1..N /\ j - 1 < k - 1
      BY <2>1, <2>3, <1>5
    <3>2. z[s[j - 1]].size >= z[s[k - 1]].size
      BY <3>1, <1>1, <1>10 DEF Falling
    <3> QED BY <3>2, <2>1, <2>3, <1>5
  <2> QED BY <2>2, <2>3, <1>6
<1>11. w # <<>>
  <2>1. Len(<<>>) = 0 /\ 1 + N # 0
    BY <1>1, EmptySeq
  <2> QED BY <2>1, <1>3
<1> QED BY <1>3, <1>8, <1>9, <1>10, <1>11 DEF w

\* A list with an element put at its end.
LEMMA AtEndIs ==
  ASSUME NEW s \in Seq(Nat), IsInjective(s), NEW v \in Nat, v \notin Range(s)
  PROVE  /\ Append(s, v) \in Seq(Nat) /\ IsInjective(Append(s, v))
         /\ Range(Append(s, v)) = Range(s) \cup {v}
         /\ \A z : Falling(s, z) /\ (\A a \in Range(s) : z[a].size >= z[v].size) => Falling(Append(s, v), z)
<1> DEFINE w == Append(s, v)
           N == Len(s)
<1>1. N \in Nat /\ DOMAIN s = 1..N
  BY LenProperties
<1>2. w \in Seq(Nat) /\ Len(w) = N + 1 /\ (\A k \in 1..N : w[k] = s[k]) /\ w[N + 1] = v
  BY AppendProperties
<1>3. DOMAIN w = 1..(N + 1)
  BY <1>2, LenProperties
<1> HIDE DEF w, N
<1>4. /\ \A k \in 1..(N + 1) : k = N + 1 \/ k \in 1..N
      /\ \A k \in 1..N : k \in 1..(N + 1)
      /\ N + 1 \in 1..(N + 1)
  BY <1>1
<1>5. Range(w) = Range(s) \cup {v}
  BY <1>1, <1>2, <1>3, <1>4 DEF Range
<1>6. IsInjective(w)
  <2> SUFFICES ASSUME NEW j \in 1..(N + 1), NEW k \in 1..(N + 1), w[j] = w[k] PROVE j = k
    BY <1>3 DEF IsInjective
  <2>1. \A m \in 1..N : s[m] # v
    BY <1>1 DEF Range
  <2>2. CASE j \in 1..N /\ k \in 1..N
    BY <2>2, <1>1, <1>2 DEF IsInjective
  <2>3. CASE j = N + 1 \/ k = N + 1
    BY <2>1, <2>3, <1>2, <1>4
  <2> QED BY <2>2, <2>3, <1>4
<1>7. ASSUME NEW z, Falling(s, z), \A a \in Range(s) : z[a].size >= z[v].size PROVE Falling(w, z)
  <2> SUFFICES ASSUME NEW j \in 1..(N + 1), NEW k \in 1..(N + 1), j < k PROVE z[w[j]].size >= z[w[k]].size
    BY <1>3 DEF Falling
  <2>1. j \in 1..N
    BY <1>1
  <2>2. CASE k = N + 1
    BY <2>1, <2>2, <1>1, <1>2, <1>7 DEF Range
  <2>3. CASE k \in 1..N
    <3>1. z[s[j]].size >= z[s[k]].size
      BY <2>1, <2>3, <1>1, <1>7 DEF Falling
    <3> QED BY <3>1, <2>1, <2>3, <1>2
  <2> QED BY <2>2, <2>3, <1>4
<1> QED BY <1>2, <1>5, <1>6, <1>7 DEF w

\* A list with an element put at i.
LEMMA PutInIs ==
  ASSUME NEW s \in Seq(Nat), IsInjective(s), NEW v \in Nat, v \notin Range(s), NEW i \in DOMAIN s
  PROVE  /\ InsertAt(s, i, v) \in Seq(Nat) /\ IsInjective(InsertAt(s, i, v))
         /\ Range(InsertAt(s, i, v)) = Range(s) \cup {v}
         /\ \A z : /\ Falling(s, z)
                   /\ \A j \in DOMAIN s : IF j < i THEN z[s[j]].size >= z[v].size ELSE z[v].size >= z[s[j]].size
                   => Falling(InsertAt(s, i, v), z)
<1> DEFINE w == InsertAt(s, i, v)
           N == Len(s)
<1>1. N \in Nat /\ DOMAIN s = 1..N /\ i \in 1..N
  BY LenProperties
<1>2. /\ w \in Seq(Nat) /\ Len(w) = N + 1
      /\ \A k \in 1..(N + 1) : w[k] = IF k < i THEN s[k] ELSE IF k = i THEN v ELSE s[k - 1]
  <2>1. i \in 1..Len(s)
    BY <1>1
  <2>2. /\ InsertAt(s, i, v) \in Seq(Nat) /\ Len(InsertAt(s, i, v)) = Len(s) + 1
        /\ \A k \in 1..(Len(s) + 1) :
             InsertAt(s, i, v)[k] = IF k < i THEN s[k] ELSE IF k = i THEN v ELSE s[k - 1]
    <3> HIDE DEF w, N
    <3> QED BY <2>1, InsertAtIs, ZenonT(40)
  <2> QED BY <2>2
<1>3. DOMAIN w = 1..(N + 1)
  BY <1>2, LenProperties
<1> HIDE DEF w, N
<1> DEFINE f(k) == IF k < i THEN k ELSE k - 1
<1>4. /\ \A k \in 1..(N + 1) : k # i => f(k) \in 1..N /\ w[k] = s[f(k)]
      /\ \A j, k \in 1..(N + 1) : j # i /\ k # i =>
           (j < k => f(j) < f(k)) /\ (f(j) = f(k) => j = k)
      /\ i \in 1..(N + 1) /\ w[i] = v
      /\ \A m \in 1..N : \E k \in 1..(N + 1) : k # i /\ f(k) = m
  <2>1. /\ \A k \in 1..(N + 1) : k # i => f(k) \in 1..N /\ w[k] = s[f(k)]
        /\ \A j, k \in 1..(N + 1) : j # i /\ k # i =>
             (j < k => f(j) < f(k)) /\ (f(j) = f(k) => j = k)
        /\ i \in 1..(N + 1) /\ w[i] = v
    BY <1>1, <1>2, SMTT(30)
  <2>2. ASSUME NEW m \in 1..N PROVE \E k \in 1..(N + 1) : k # i /\ f(k) = m
    <3> DEFINE k == IF m < i THEN m ELSE m + 1
    <3>1. k \in 1..(N + 1) /\ k # i /\ f(k) = m
      BY <1>1
    <3> QED BY <3>1
  <2> QED BY <2>1, <2>2
<1>5. \A j, k \in 1..(N + 1) : j < k /\ j = i => ~(f(k) < i)
  BY <1>1
<1>6. \A j, k \in 1..(N + 1) : j < k /\ k = i => f(j) < i
  BY <1>1
<1> HIDE DEF f
<1>7. Range(w) = Range(s) \cup {v}
  <2>1. ASSUME NEW x \in Range(w) PROVE x \in Range(s) \/ x = v
    BY <1>1, <1>3, <1>4, SMTT(30) DEF Range
  <2>2. ASSUME NEW x \in Range(s) PROVE x \in Range(w)
    <3>1. PICK m \in 1..N : x = s[m]
      BY <1>1 DEF Range
    <3>2. PICK k \in 1..(N + 1) : k # i /\ f(k) = m
      BY <1>4
    <3> QED BY <3>1, <3>2, <1>3, <1>4 DEF Range
  <2>3. v \in Range(w)
    BY <1>3, <1>4 DEF Range
  <2> QED BY <2>1, <2>2, <2>3
<1>8. IsInjective(w)
  <2> SUFFICES ASSUME NEW j \in 1..(N + 1), NEW k \in 1..(N + 1), w[j] = w[k] PROVE j = k
    BY <1>3 DEF IsInjective
  <2>1. \A m \in 1..N : s[m] # v
    BY <1>1 DEF Range
  <2>2. CASE j # i /\ k # i
    BY <2>2, <1>1, <1>4 DEF IsInjective
  <2>3. CASE j = i \/ k = i
    BY <2>1, <2>3, <1>4
  <2> QED BY <2>2, <2>3
<1>9. ASSUME NEW z, Falling(s, z),
             \A j \in DOMAIN s : IF j < i THEN z[s[j]].size >= z[v].size ELSE z[v].size >= z[s[j]].size
      PROVE  Falling(w, z)
  <2> SUFFICES ASSUME NEW j \in 1..(N + 1), NEW k \in 1..(N + 1), j < k PROVE z[w[j]].size >= z[w[k]].size
    BY <1>3 DEF Falling
  <2>1. CASE j = i
    <3>1. k # i
      BY <2>1
    <3>2. f(k) \in 1..N /\ w[k] = s[f(k)] /\ ~(f(k) < i)
      BY <2>1, <3>1, <1>4, <1>5
    <3> QED BY <2>1, <3>2, <1>1, <1>4, <1>9
  <2>2. CASE k = i
    <3>1. j # i
      BY <2>2
    <3>2. f(j) \in 1..N /\ w[j] = s[f(j)] /\ f(j) < i
      BY <2>2, <3>1, <1>4, <1>6
    <3> QED BY <2>2, <3>2, <1>1, <1>4, <1>9
  <2>3. CASE j # i /\ k # i
    <3>1. z[s[f(j)]].size >= z[s[f(k)]].size
      BY <2>3, <1>1, <1>4, <1>9 DEF Falling
    <3> QED BY <3>1, <2>3, <1>4
  <2> QED BY <2>1, <2>2, <2>3
<1> QED BY <1>2, <1>7, <1>8, <1>9 DEF w

\* A list without its first element.
LEMMA TailIs ==
  ASSUME NEW s \in Seq(Nat), IsInjective(s), s # <<>>
  PROVE  /\ Tail(s) \in Seq(Nat) /\ IsInjective(Tail(s))
         /\ Head(s) \in Range(s) /\ Range(Tail(s)) = Range(s) \ {Head(s)}
<1> DEFINE N == Len(s)
           w == Tail(s)
<1>1. N \in Nat /\ N >= 1 /\ DOMAIN s = 1..N
  BY LenProperties, EmptySeq
<1>2. w \in Seq(Nat) /\ Len(w) = N - 1 /\ \A k \in 1..Len(w) : w[k] = s[k + 1]
  BY HeadTailProperties
<1>3. DOMAIN w = 1..(N - 1) /\ Head(s) = s[1]
  BY <1>2, LenProperties
<1> HIDE DEF w, N
<1>4. /\ \A k \in 1..(N - 1) : k + 1 \in 1..N /\ k + 1 # 1 /\ w[k] = s[k + 1]
      /\ \A k \in 1..N : k = 1 \/ (k - 1 \in 1..(N - 1) /\ (k - 1) + 1 = k)
      /\ 1 \in 1..N
      /\ \A j, k \in 1..(N - 1) : j + 1 = k + 1 => j = k
  BY <1>1, <1>2
<1>40. \A j, k \in 1..N : s[j] = s[k] => j = k
  BY <1>1 DEF IsInjective
<1>5. IsInjective(w)
  <2> SUFFICES ASSUME NEW j \in 1..(N - 1), NEW k \in 1..(N - 1), w[j] = w[k] PROVE j = k
    BY <1>3 DEF IsInjective
  <2>1. s[j + 1] = s[k + 1] /\ j + 1 \in 1..N /\ k + 1 \in 1..N
    BY <1>4
  <2>2. j + 1 = k + 1
    BY <2>1, <1>40
  <2> QED BY <2>2, <1>4
<1>6. Range(w) = Range(s) \ {s[1]}
  <2>1. ASSUME NEW x \in Range(w) PROVE x \in Range(s) /\ x # s[1]
    <3>1. PICK k \in 1..(N - 1) : x = w[k]
      BY <1>3 DEF Range
    <3>2. x = s[k + 1] /\ k + 1 \in 1..N /\ k + 1 # 1
      BY <3>1, <1>4
    <3>3. x # s[1]
      BY <3>2, <1>4, <1>40
    <3> QED BY <3>2, <3>3, <1>1 DEF Range
  <2>2. ASSUME NEW x \in Range(s), x # s[1] PROVE x \in Range(w)
    <3>1. PICK k \in 1..N : x = s[k]
      BY <1>1 DEF Range
    <3> DEFINE m == k - 1
    <3>2. m \in 1..(N - 1) /\ w[m] = s[k]
      <4>1. m \in 1..(N - 1) /\ m + 1 = k
        BY <3>1, <2>2, <1>4
      <4> HIDE DEF m
      <4> QED BY <4>1, <1>4
    <3> QED BY <3>1, <3>2, <1>3 DEF Range
  <2> QED BY <2>1, <2>2
<1>7. s[1] \in Range(s)
  BY <1>1, <1>4 DEF Range
<1> QED BY <1>2, <1>3, <1>5, <1>6, <1>7 DEF w

\* The last element of a list is one of the smallest when sizes fall.
LEMMA LastIs ==
  ASSUME NEW s \in Seq(Nat), s # <<>>
  PROVE  /\ Last(s) \in Range(s) /\ Len(s) \in DOMAIN s /\ Last(s) = s[Len(s)]
         /\ \A z : (\A a \in Range(s) : z[a].size \in Nat) /\ Falling(s, z) =>
              \A a \in Range(s) : z[a].size >= z[Last(s)].size
<1>1. Len(s) \in Nat /\ Len(s) >= 1 /\ DOMAIN s = 1..Len(s)
  BY LenProperties, EmptySeq
<1>2. Len(s) \in DOMAIN s /\ Last(s) = s[Len(s)]
  BY <1>1 DEF Last
<1>3. ASSUME NEW z, \A a \in Range(s) : z[a].size \in Nat, Falling(s, z), NEW a \in Range(s)
      PROVE  z[a].size >= z[Last(s)].size
  <2>1. PICK k \in 1..Len(s) : a = s[k]
    BY <1>1 DEF Range
  <2>2. CASE k = Len(s)
    BY <2>1, <2>2, <1>2, <1>3
  <2>3. CASE k # Len(s)
    <3> DEFINE N == Len(s)
    <3>0. N \in Nat /\ k \in 1..N /\ k # N
      BY <2>1, <2>3, <1>1
    <3> HIDE DEF N
    <3>00. k < N
      BY <3>0
    <3>1. k < Len(s) /\ k \in DOMAIN s
      BY <3>00, <2>1, <1>1 DEF N
    <3>2. z[s[k]].size >= z[s[Len(s)]].size
      BY <3>1, <1>2, <1>3 DEF Falling
    <3> QED BY <3>2, <2>1, <1>2, SMTT(30)
  <2> QED BY <2>2, <2>3
<1> QED BY <1>2, <1>3 DEF Range

\* The first index with a property.
LEMMA LeastIndex ==
  ASSUME NEW T, T \subseteq Nat, T # {}
  PROVE  \E i \in T : \A j \in T : i <= j
<1>1. PICK n \in T : TRUE
  OBVIOUS
<1> QED BY <1>1, LeastNatural

\* A nonempty set of indices has a greatest element.
LEMMA GreatestIndex ==
  ASSUME NEW N \in Nat, NEW T, T \subseteq 1..N, T # {}
  PROVE  \E i \in T : \A j \in T : j <= i
<1> DEFINE B == {N - k : k \in T}
<1>0. \A k \in T : k \in 1..N /\ k \in Nat /\ N - k \in Nat
  <2> SUFFICES ASSUME NEW k \in T PROVE k \in 1..N /\ k \in Nat /\ N - k \in Nat
    OBVIOUS
  <2>1. k \in 1..N
    OBVIOUS
  <2> QED BY <2>1
<1>1. B \subseteq Nat /\ B # {}
  BY <1>0
<1>2. PICK m \in B : \A k \in B : m <= k
  <2> HIDE DEF B
  <2> QED BY <1>1, LeastIndex
<1>3. PICK x \in T : m = N - x
  BY <1>2
<1>4. \A y \in T : x >= y
  <2> SUFFICES ASSUME NEW y \in T PROVE x >= y
    OBVIOUS
  <2>1. N - x <= N - y /\ x \in Nat /\ y \in Nat
    BY <1>0, <1>2, <1>3
  <2> QED BY <2>1
<1> QED BY <1>3, <1>4

-----------------------------------------------------------------------------
(* Bins.                                                                   *)

\* Larger chunks do not belong in lower bins.
LEMMA LargeBinOrder ==
  ASSUME NEW m \in Nat, NEW n \in Nat, MinLarge <= m, m <= n
  PROVE  LargeBin(m) \in Nat /\ MinLarge <= LargeBin(m) /\ LargeBin(m) <= LargeBin(n)
<1>1. MinLarge \in Nat /\ BinWidth \in Nat /\ BinWidth > 0
  BY Constants
<1> DEFINE x == m - MinLarge
           y == n - MinLarge
           q == x \div BinWidth
           r == y \div BinWidth
<1>2. x \in Nat /\ y \in Nat /\ x <= y
  BY <1>1
<1> HIDE DEF x, y
<1>3. q \in Nat /\ r \in Nat /\ q * BinWidth <= x /\ y < (r + 1) * BinWidth
  BY <1>1, <1>2
<1> HIDE DEF q, r
<1>4. q <= r
  <2> SUFFICES ASSUME r < q PROVE FALSE
    BY <1>3
  <2>1. r + 1 <= q
    BY <1>3
  <2>2. (r + 1) * BinWidth <= q * BinWidth
    BY <2>1, <1>1, <1>3
  <2>3. (r + 1) * BinWidth \in Nat /\ q * BinWidth \in Nat
    BY <1>1, <1>3
  <2> QED BY <2>2, <2>3, <1>2, <1>3
<1>5. LargeBin(m) = MinLarge + q /\ LargeBin(n) = MinLarge + r
  BY DEF LargeBin, q, r, x, y
<1> QED BY <1>1, <1>3, <1>4, <1>5

\* A larger size never has a lower bin.
LEMMA BinOrder ==
  ASSUME NEW m \in Nat, NEW n \in Nat, m <= n
  PROVE  BinOf(m) \in Nat /\ BinOf(m) <= BinOf(n)
<1>1. MinLarge \in Nat /\ HeapMax \in Nat /\ MinLarge <= HeapMax
  BY Constants, HeapAssumption DEF HeapAssumption
<1>2. \A x \in Nat : ~(x < MinLarge) /\ x <= HeapMax =>
        LargeBin(x) \in Nat /\ MinLarge <= LargeBin(x) /\ LargeBin(x) <= LargeBin(HeapMax)
  BY <1>1, LargeBinOrder
<1>3. ~(m < MinLarge) => LargeBin(m) <= LargeBin(n)
  BY <1>1, LargeBinOrder
<1>4. LargeBin(HeapMax) \in Nat /\ MinLarge <= LargeBin(HeapMax)
  BY <1>1, LargeBinOrder
<1>5. \A x \in Nat : BinOf(x) = IF x < MinLarge THEN x ELSE IF x <= HeapMax THEN LargeBin(x) ELSE LargeBin(HeapMax)
  BY DEF BinOf, Small, LastBin
<1> QED BY <1>1, <1>2, <1>3, <1>4, <1>5

\* The bin of a chunk's size is one of the sorted ones.
LEMMA BinRange ==
  ASSUME NEW n \in Nat, n >= MinSize
  PROVE  BinOf(n) \in BinIds \ {Unsorted} /\ BinOf(n) \in Nat
<1>1. MinLarge \in Nat /\ HeapMax \in Nat /\ MinLarge <= HeapMax /\ MinSize \in Nat /\ MinSize > 1 /\ MinSize <= MinLarge
  BY Constants, HeapAssumption DEF HeapAssumption
<1>2. MinSize <= n
  BY <1>1
<1>3. BinOf(n) \in Nat /\ BinOf(MinSize) <= BinOf(n)
  BY <1>1, <1>2, BinOrder
<1>4. LargeBin(HeapMax) \in Nat /\ MinLarge <= LargeBin(HeapMax) /\ MinLarge <= LargeBin(MinLarge)
  BY <1>1, LargeBinOrder
<1>5. \A x \in Nat : BinOf(x) = IF x < MinLarge THEN x ELSE IF x <= HeapMax THEN LargeBin(x) ELSE LargeBin(HeapMax)
  BY DEF BinOf, Small, LastBin
<1>6. MinSize <= BinOf(n)
  BY <1>1, <1>3, <1>4, <1>5, LargeBinOrder
<1>7. ~(n < MinLarge) /\ n <= HeapMax => LargeBin(n) <= LargeBin(HeapMax)
  BY <1>1, LargeBinOrder
<1>8. BinOf(n) <= LargeBin(HeapMax)
  BY <1>1, <1>4, <1>5, <1>7
<1>9. BinOf(n) \in MinSize..LargeBin(HeapMax) /\ BinOf(n) # 1
  BY <1>1, <1>3, <1>4, <1>6, <1>8
<1> QED BY <1>3, <1>9 DEF BinIds, LastBin, Unsorted

\* A size of the lower bin is smaller.
LEMMA LowerBin ==
  ASSUME NEW m \in Nat, NEW n \in Nat, BinOf(m) < BinOf(n)
  PROVE  m < n
BY BinOrder

\* The bin of a small size holds that size only.
LEMMA SmallBin ==
  ASSUME NEW m \in Nat, NEW n \in Nat, BinOf(m) = BinOf(n), Small(n)
  PROVE  m = n
<1>1. MinLarge \in Nat /\ HeapMax \in Nat /\ MinLarge <= HeapMax
  BY Constants, HeapAssumption DEF HeapAssumption
<1>2. LargeBin(HeapMax) \in Nat /\ MinLarge <= LargeBin(HeapMax)
  BY <1>1, LargeBinOrder
<1>3. \A x \in Nat : BinOf(x) = IF x < MinLarge THEN x ELSE IF x <= HeapMax THEN LargeBin(x) ELSE LargeBin(HeapMax)
  BY DEF BinOf, Small, LastBin
<1>4. ~(m < MinLarge) => LargeBin(m) \in Nat /\ MinLarge <= LargeBin(m)
  BY <1>1, LargeBinOrder
<1> QED BY <1>1, <1>2, <1>3, <1>4 DEF Small

-----------------------------------------------------------------------------
(* All the lists of the arena.                                             *)

\* What ListsSound says of each bin.
LEMMA ListFacts ==
  ASSUME NEW bs, NEW mk, NEW h, ListsSound(bs, mk, h)
  PROVE  /\ Unsorted \in BinIds /\ DOMAIN bs = BinIds /\ InBins(bs) \subseteq Nat
         /\ \A i \in BinIds :
              /\ bs[i] \in Seq(Nat) /\ IsInjective(bs[i]) /\ Range(bs[i]) \subseteq InBins(bs)
              /\ Range(bs[i]) = {} <=> bs[i] = <<>>
         /\ \A a \in InBins(bs) : \E i \in BinIds : a \in Range(bs[i])
<1>1. bs \in [BinIds -> Seq(Nat)] /\ \A i \in BinIds : IsInjective(bs[i])
  BY DEF ListsSound
<1>2. Unsorted \in BinIds
  BY DEF BinIds
<1>3. ASSUME NEW i \in BinIds PROVE Range(bs[i]) \subseteq Nat /\ (Range(bs[i]) = {} <=> bs[i] = <<>>)
  <2>0. bs[i] \in Seq(Nat)
    BY <1>1
  <2> DEFINE s == bs[i]
  <2>00. s \in Seq(Nat)
    BY <2>0
  <2> HIDE DEF s
  <2>1. Len(s) \in Nat /\ DOMAIN s = 1..Len(s) /\ \A k \in 1..Len(s) : s[k] \in Nat
    BY <2>00, LenProperties, ElementOfSeq
  <2>2. Len(s) = 0 <=> s = <<>>
    BY <2>00, EmptySeq
  <2>3. Len(s) # 0 => 1 \in 1..Len(s)
    BY <2>1
  <2>4. Len(s) = 0 => 1..Len(s) = {}
    OBVIOUS
  <2>5. Range(s) \subseteq Nat /\ (Range(s) = {} <=> s = <<>>)
    BY <2>1, <2>2, <2>3, <2>4 DEF Range
  <2> QED BY <2>5 DEF s
<1> QED BY <1>1, <1>2, <1>3, Z3 DEF InBins

\* Chunks of S have the same size in both memories.
SameSizes(h, k, S) == \A a \in S : k[a].size = h[a].size

\* The lists without v, and with v in front of the unsorted chunks.
Unlinked(bs, v) == [i \in BinIds |-> Without(bs[i], v)]
IsUnlinked(w, bs, mk, k, v) ==
  /\ ListsSound(w, mk, k) /\ InBins(w) = InBins(bs) \ {v}
  /\ \A i \in BinIds : Range(w[i]) = Range(bs[i]) \ {v} /\ (bs[i] = <<>> => w[i] = <<>>)
OnFront(bs, v) == [bs EXCEPT ![Unsorted] = <<v>> \o @]
IsOnFront(w, bs, mk, h, v) ==
  /\ ListsSound(w, mk, h) /\ InBins(w) = InBins(bs) \cup {v}
  /\ \A i \in BinIds \ {Unsorted} : w[i] = bs[i]
PutAt(bs, b, x) == [bs EXCEPT ![b] = x]
IsPutAt(w, bs, mk, h, v, b) ==
  /\ ListsSound(w, mk \cup {b}, h) /\ InBins(w) = InBins(bs) \cup {v}
  /\ \A i \in BinIds \ {b} : w[i] = bs[i]

\* The list of chunk v is changed, and the sizes of the others are not.
LEMMA UnlinkedSound ==
  ASSUME NEW bs, NEW mk, NEW h, NEW k, NEW v \in Nat, ListsSound(bs, mk, h),
         SameSizes(h, k, InBins(bs) \ {v})
  PROVE  IsUnlinked(Unlinked(bs, v), bs, mk, k, v)
<1> DEFINE B == InBins(bs)
           w == Unlinked(bs, v)
<1>0. w = [i \in BinIds |-> Without(bs[i], v)] /\ \A a \in InBins(bs) \ {v} : k[a].size = h[a].size
  BY DEF Unlinked, SameSizes
<1> HIDE DEF w
<1>1. \A i \in BinIds : bs[i] \in Seq(Nat) /\ IsInjective(bs[i]) /\ Range(bs[i]) \subseteq B /\ (Range(bs[i]) = {} <=> bs[i] = <<>>)
  BY ListFacts
<1>2. ASSUME NEW i \in BinIds
      PROVE  /\ w[i] \in Seq(Nat) /\ IsInjective(w[i]) /\ Range(w[i]) = Range(bs[i]) \ {v}
             /\ \A z : Falling(bs[i], z) => Falling(w[i], z)
             /\ v \notin Range(bs[i]) => w[i] = bs[i]
  <2>1. w[i] = Without(bs[i], v)
    BY <1>0
  <2>2. bs[i] \in Seq(Nat) /\ IsInjective(bs[i])
    BY <1>1
  <2> QED BY <2>1, <2>2, WithoutIs
<1>3. \A i \in BinIds : bs[i] = <<>> => w[i] = <<>>
  BY <1>1, <1>2
<1>4. w \in [BinIds -> Seq(Nat)]
  BY <1>0, <1>2
<1> HIDE DEF B
<1>5. ASSUME NEW i \in BinIds, Falling(w[i], h) PROVE Falling(w[i], k)
  <2>1. \A j \in DOMAIN w[i] : w[i][j] \in Range(w[i])
    BY DEF Range
  <2>2. \A a \in Range(w[i]) : k[a].size = h[a].size
    BY <1>0, <1>1, <1>2 DEF B
  <2> QED BY <1>5, <2>1, <2>2 DEF Falling
<1>6. ASSUME NEW i \in BinIds \ {Unsorted}
      PROVE  /\ w[i] # <<>> => i \in mk
             /\ \A a \in Range(w[i]) : BinOf(k[a].size) = i
             /\ Falling(w[i], k)
  <2>1. /\ bs[i] # <<>> => i \in mk
        /\ \A a \in Range(bs[i]) : BinOf(h[a].size) = i
        /\ Falling(bs[i], h)
    BY DEF ListsSound
  <2>2. \A a \in Range(w[i]) : k[a].size = h[a].size /\ a \in Range(bs[i])
    BY <1>0, <1>1, <1>2 DEF B
  <2> QED BY <2>1, <2>2, <1>2, <1>3, <1>5
<1>7. \A i, j \in BinIds : i # j => Range(w[i]) \cap Range(w[j]) = {}
  BY <1>2 DEF ListsSound
<1>8. ListsSound(w, mk, k)
  BY <1>2, <1>4, <1>6, <1>7 DEF ListsSound
<1>9. InBins(w) = InBins(bs) \ {v}
  <2>1. \A i \in BinIds : Range(w[i]) = Range(bs[i]) \ {v}
    BY <1>2
  <2>2. \A i \in BinIds : Range(w[i]) \subseteq InBins(bs) \ {v}
    BY <2>1 DEF InBins
  <2>3. InBins(w) \subseteq InBins(bs) \ {v}
    BY <2>2 DEF InBins
  <2>4. ASSUME NEW a \in InBins(bs), a # v PROVE a \in InBins(w)
    BY <2>1, <2>4 DEF InBins
  <2> QED BY <2>3, <2>4
<1> QED BY <1>2, <1>3, <1>8, <1>9 DEF IsUnlinked, w

\* A chunk that is in no bin becomes the first of the unsorted ones.
LEMMA OnFrontSound ==
  ASSUME NEW bs, NEW mk, NEW h, NEW v \in Nat, ListsSound(bs, mk, h), v \notin InBins(bs)
  PROVE  IsOnFront(OnFront(bs, v), bs, mk, h, v)
<1> DEFINE w == OnFront(bs, v)
<1>0. w = [bs EXCEPT ![Unsorted] = <<v>> \o @]
  BY DEF OnFront
<1> HIDE DEF w
<1>1. /\ Unsorted \in BinIds /\ DOMAIN bs = BinIds
      /\ \A i \in BinIds : bs[i] \in Seq(Nat) /\ IsInjective(bs[i]) /\ Range(bs[i]) \subseteq InBins(bs)
  BY ListFacts
<1>2. w[Unsorted] = <<v>> \o bs[Unsorted] /\ \A i \in BinIds \ {Unsorted} : w[i] = bs[i]
  BY <1>0, <1>1
<1>3. DOMAIN w = BinIds /\ w = [i \in BinIds |-> w[i]]
  BY <1>0, <1>1
<1>4. /\ w[Unsorted] \in Seq(Nat) /\ IsInjective(w[Unsorted])
      /\ Range(w[Unsorted]) = Range(bs[Unsorted]) \cup {v}
  <2>1. bs[Unsorted] \in Seq(Nat) /\ IsInjective(bs[Unsorted]) /\ v \notin Range(bs[Unsorted])
    BY <1>1
  <2> QED BY <2>1, <1>2, InFrontIs
<1>5. w \in [BinIds -> Seq(Nat)]
  BY <1>1, <1>2, <1>3, <1>4
<1>6. \A i, j \in BinIds : i # j => Range(w[i]) \cap Range(w[j]) = {}
  <2>1. \A i \in BinIds \ {Unsorted} : v \notin Range(w[i]) /\ Range(w[i]) \cap Range(bs[Unsorted]) = {}
    BY <1>1, <1>2 DEF ListsSound
  <2>2. \A i, j \in BinIds \ {Unsorted} : i # j => Range(w[i]) \cap Range(w[j]) = {}
    BY <1>2 DEF ListsSound
  <2> SUFFICES ASSUME NEW i \in BinIds, NEW j \in BinIds, i # j PROVE Range(w[i]) \cap Range(w[j]) = {}
    OBVIOUS
  <2>6. \A z \in BinIds \ {Unsorted} : Range(w[z]) \cap Range(w[Unsorted]) = {}
    <3> DEFINE R(z) == Range(w[z])
               Q == Range(bs[Unsorted])
    <3>1. R(Unsorted) = Q \cup {v} /\ \A z \in BinIds \ {Unsorted} : v \notin R(z) /\ R(z) \cap Q = {}
      BY <2>1, <1>4
    <3> HIDE DEF R, Q
    <3>2. \A z \in BinIds \ {Unsorted} : R(z) \cap R(Unsorted) = {}
      BY <3>1
    <3> QED BY <3>2 DEF R
  <2>3. CASE i = Unsorted
    BY <2>6, <2>3
  <2>4. CASE j = Unsorted
    BY <2>6, <2>4
  <2>5. CASE i # Unsorted /\ j # Unsorted
    BY <2>2, <2>5
  <2> QED BY <2>3, <2>4, <2>5
<1>7. \A i \in BinIds : IsInjective(w[i])
  BY <1>1, <1>2, <1>4
<1>8. ListsSound(w, mk, h)
  <2>1. mk \subseteq BinIds
    BY DEF ListsSound
  <2>2. ASSUME NEW i \in BinIds \ {Unsorted}
        PROVE  /\ w[i] # <<>> => i \in mk
               /\ \A a \in Range(w[i]) : BinOf(h[a].size) = i
               /\ Falling(w[i], h)
    BY <1>2 DEF ListsSound
  <2> QED BY <2>1, <2>2, <1>5, <1>6, <1>7 DEF ListsSound
<1>9. InBins(w) = InBins(bs) \cup {v}
  <2>1. \A i \in BinIds : Range(w[i]) = Range(bs[i]) \cup (IF i = Unsorted THEN {v} ELSE {})
    BY <1>2, <1>4
  <2> QED BY <2>1, <1>1 DEF InBins
<1> QED BY <1>2, <1>8, <1>9 DEF IsOnFront, w

\* The place of chunk v in a bin.
LEMMA PlacedIs ==
  ASSUME NEW s \in Seq(Nat), IsInjective(s), NEW v \in Nat, v \notin Range(s), Falling(s, head),
         \A a \in Range(s) : Size(a) \in Nat, Size(v) \in Nat,
         Small(Size(v)) => \A a \in Range(s) : Size(a) = Size(v)
  PROVE  /\ Placed(v, s) \in Seq(Nat) /\ IsInjective(Placed(v, s))
         /\ Range(Placed(v, s)) = Range(s) \cup {v} /\ Falling(Placed(v, s), head)
<1>0. \A a : Size(a) = head[a].size
  BY DEF Size
<1>1. CASE Small(Size(v)) \/ s = <<>>
  <2>1. s = <<>> => Range(s) = {}
    <3>1. s = <<>> => DOMAIN s = {}
      OBVIOUS
    <3> QED BY <3>1 DEF Range
  <2>2. \A a \in Range(s) : Size(v) >= Size(a)
    BY <2>1, <1>1
  <2>3. \A a \in Range(s) : head[v].size >= head[a].size
    BY <2>2, <1>0
  <2>4. Placed(v, s) = <<v>> \o s
    BY <1>1 DEF Placed
  <2> QED BY <2>3, <2>4, InFrontIs
<1>2. CASE ~Small(Size(v)) /\ s # <<>> /\ Size(v) <= Size(Last(s))
  <2>1. Last(s) \in Range(s) /\ \A a \in Range(s) : head[a].size >= head[Last(s)].size
    BY <1>0, <1>2, LastIs
  <2>2. ASSUME NEW a \in Range(s) PROVE head[a].size >= head[v].size
    <3>1. /\ Size(a) \in Nat /\ Size(Last(s)) \in Nat /\ Size(v) \in Nat
          /\ Size(v) <= Size(Last(s)) /\ Size(a) >= Size(Last(s))
      BY <2>1, <1>0, <1>2
    <3>2. Size(a) >= Size(v)
      BY ONLY <3>1
    <3> QED BY <3>2, <1>0
  <2>3. Placed(v, s) = Append(s, v)
    BY <1>2 DEF Placed
  <2> QED BY <2>2, <2>3, AtEndIs
<1>3. CASE ~Small(Size(v)) /\ s # <<>> /\ ~(Size(v) <= Size(Last(s)))
  <2> DEFINE P(i) == Size(s[i]) <= Size(v) /\ \A j \in 1..(i - 1) : Size(s[j]) > Size(v)
             T == {i \in DOMAIN s : Size(s[i]) <= Size(v)}
             i == CHOOSE i \in DOMAIN s : P(i)
  <2>1. Len(s) \in Nat /\ DOMAIN s = 1..Len(s) /\ \A j \in DOMAIN s : s[j] \in Range(s) /\ Size(s[j]) \in Nat
    BY LenProperties DEF Range
  <2>2. Len(s) \in DOMAIN s /\ Last(s) = s[Len(s)] /\ Last(s) \in Range(s)
    BY <1>3, LastIs
  <2>3. T \subseteq Nat /\ T # {}
    <3>1. Size(s[Len(s)]) <= Size(v)
      BY <2>1, <2>2, <1>3
    <3> QED BY <3>1, <2>1, <2>2
  <2>4. PICK m \in T : \A j \in T : m <= j
    <3> HIDE DEF T
    <3> QED BY <2>3, LeastIndex
  <2>5. P(m)
    <3>1. ASSUME NEW j \in 1..(m - 1) PROVE Size(s[j]) > Size(v)
      <4>1. j \in DOMAIN s /\ ~(m <= j)
        BY <2>1, <2>4
      <4>2. j \notin T
        BY <4>1, <2>4
      <4> QED BY <4>1, <4>2, <2>1
    <3> QED BY <3>1, <2>4
  <2>6. i \in DOMAIN s /\ P(i)
    <3>1. m \in DOMAIN s
      BY <2>4
    <3> HIDE DEF P
    <3> QED BY <2>5, <3>1
  <2>7. Placed(v, s) = InsertAt(s, i, v)
    BY <1>3 DEF Placed
  <2> HIDE DEF i, T
  <2>8. ASSUME NEW j \in DOMAIN s
        PROVE  IF j < i THEN head[s[j]].size >= head[v].size ELSE head[v].size >= head[s[j]].size
    <3>1. CASE j < i
      <4>1. j \in 1..(i - 1)
        BY <3>1, <2>1, <2>6
      <4>2. Size(s[j]) > Size(v) /\ Size(s[j]) \in Nat
        BY <4>1, <2>6, <2>1
      <4> QED BY <4>2, <3>1, <1>0
    <3>2. CASE j = i
      BY <3>2, <2>1, <2>6, <1>0
    <3>3. CASE ~(j < i) /\ j # i
      <4>1. i < j
        BY <3>3, <2>1, <2>6
      <4>2. head[s[i]].size >= head[s[j]].size
        BY <4>1, <2>6 DEF Falling
      <4>3. Size(s[i]) <= Size(v) /\ Size(s[i]) \in Nat /\ Size(s[j]) \in Nat
        BY <2>1, <2>6
      <4> QED BY <4>2, <4>3, <3>3, <1>0
    <3> QED BY <3>1, <3>2, <3>3
  <2>9. i \in DOMAIN s
    BY <2>6
  <2> HIDE DEF P
  <2>10. /\ InsertAt(s, i, v) \in Seq(Nat) /\ IsInjective(InsertAt(s, i, v))
         /\ Range(InsertAt(s, i, v)) = Range(s) \cup {v}
         /\ Falling(InsertAt(s, i, v), head)
    BY <2>8, <2>9, PutInIs
  <2> QED BY <2>7, <2>10
<1> QED BY <1>1, <1>2, <1>3

\* A chunk that is in no bin is put in the one for its size.
LEMMA PutAtSound ==
  ASSUME NEW bs, NEW mk, NEW h, NEW v \in Nat, ListsSound(bs, mk, h), v \notin InBins(bs),
         NEW b \in BinIds \ {Unsorted}, BinOf(h[v].size) = b,
         NEW x \in Seq(Nat), IsInjective(x), Range(x) = Range(bs[b]) \cup {v}, Falling(x, h)
  PROVE  IsPutAt(PutAt(bs, b, x), bs, mk, h, v, b)
<1> DEFINE w == PutAt(bs, b, x)
<1>0. w = [bs EXCEPT ![b] = x]
  BY DEF PutAt
<1> HIDE DEF w
<1>1. /\ Unsorted \in BinIds /\ DOMAIN bs = BinIds
      /\ \A i \in BinIds : bs[i] \in Seq(Nat) /\ IsInjective(bs[i]) /\ Range(bs[i]) \subseteq InBins(bs)
  BY ListFacts
<1>2. w[b] = x /\ \A i \in BinIds \ {b} : w[i] = bs[i]
  BY <1>0, <1>1
<1>3. DOMAIN w = BinIds /\ w = [i \in BinIds |-> w[i]]
  BY <1>0, <1>1
<1>5. w \in [BinIds -> Seq(Nat)]
  BY <1>1, <1>2, <1>3
<1>6. \A i, j \in BinIds : i # j => Range(w[i]) \cap Range(w[j]) = {}
  <2> DEFINE R(z) == Range(w[z])
             Q(z) == Range(bs[z])
  <2>1. /\ R(b) = Q(b) \cup {v}
        /\ \A z \in BinIds \ {b} : R(z) = Q(z) /\ v \notin Q(z)
        /\ \A i, j \in BinIds : i # j => Q(i) \cap Q(j) = {}
    BY <1>1, <1>2 DEF ListsSound
  <2> HIDE DEF R, Q
  <2>2. \A z \in BinIds \ {b} : R(z) \cap R(b) = {}
    BY <2>1
  <2>3. \A i, j \in BinIds : i # j => R(i) \cap R(j) = {}
    BY <2>1, <2>2
  <2> QED BY <2>3 DEF R
<1>7. \A i \in BinIds : IsInjective(w[i])
  BY <1>1, <1>2
<1>8. ListsSound(w, mk \cup {b}, h)
  <2>1. mk \cup {b} \subseteq BinIds
    BY DEF ListsSound
  <2>2. ASSUME NEW i \in BinIds \ {Unsorted}
        PROVE  /\ w[i] # <<>> => i \in mk \cup {b}
               /\ \A a \in Range(w[i]) : BinOf(h[a].size) = i
               /\ Falling(w[i], h)
    <3>1. /\ bs[i] # <<>> => i \in mk
          /\ \A a \in Range(bs[i]) : BinOf(h[a].size) = i
          /\ Falling(bs[i], h)
      BY DEF ListsSound
    <3>2. CASE i # b
      BY <3>1, <3>2, <1>2
    <3>3. CASE i = b
      BY <3>1, <3>3, <1>2
    <3> QED BY <3>2, <3>3
  <2> QED BY <2>1, <2>2, <1>5, <1>6, <1>7 DEF ListsSound
<1>9. InBins(w) = InBins(bs) \cup {v}
  <2>1. \A i \in BinIds : Range(w[i]) = Range(bs[i]) \cup (IF i = b THEN {v} ELSE {})
    BY <1>2
  <2> QED BY <2>1, <1>1 DEF InBins
<1> QED BY <1>2, <1>8, <1>9 DEF IsPutAt, w

\* The sizes of the chunks in bins stay.
LEMMA ListsSame ==
  ASSUME NEW bs, NEW mk, NEW h, ListsSound(bs, mk, h),
         NEW k, \A a \in InBins(bs) : k[a].size = h[a].size
  PROVE  ListsSound(bs, mk, k)
<1>1. \A i \in BinIds : Range(bs[i]) \subseteq InBins(bs)
  BY ListFacts
<1>2. ASSUME NEW i \in BinIds \ {Unsorted}
      PROVE  /\ bs[i] # <<>> => i \in mk
             /\ \A a \in Range(bs[i]) : BinOf(k[a].size) = i
             /\ Falling(bs[i], k)
  <2>1. /\ bs[i] # <<>> => i \in mk
        /\ \A a \in Range(bs[i]) : BinOf(h[a].size) = i
        /\ Falling(bs[i], h)
    BY DEF ListsSound
  <2>2. \A j \in DOMAIN bs[i] : bs[i][j] \in Range(bs[i])
    BY DEF Range
  <2>3. \A a \in Range(bs[i]) : k[a].size = h[a].size
    BY <1>1
  <2>4. Falling(bs[i], k)
    BY <2>1, <2>2, <2>3 DEF Falling
  <2> QED BY <2>1, <2>3, <2>4
<1> QED BY <1>2 DEF ListsSound

-----------------------------------------------------------------------------
(* What the operations on headers write.                                   *)

IsHead(h, k, a, n, pin, nm) ==
  /\ DOMAIN k = DOMAIN h \cup {a}
  /\ k[a].size = n /\ k[a].pinuse = pin /\ k[a].nonMain = nm
  /\ k[a].prev = (IF a \in DOMAIN h THEN h[a].prev ELSE 0)
  /\ \A x \in DOMAIN h \ {a} : k[x] = h[x]

\* set_head on any address.
LEMMA SetHeadIs ==
  ASSUME NEW h, NEW a, NEW n, NEW pin, NEW nm
  PROVE  /\ IsHead(h, SetHead(h, a, n, pin, nm), a, n, pin, nm)
         /\ Typed(h) /\ a \in Nat /\ n \in Nat /\ pin \in BOOLEAN /\ nm \in BOOLEAN
            => Typed(SetHead(h, a, n, pin, nm))
<1> DEFINE k == SetHead(h, a, n, pin, nm)
<1>1. DOMAIN k = DOMAIN h \cup {a}
  BY DEF SetHead
<1>2. k[a] = [size |-> n, pinuse |-> pin, nonMain |-> nm, prev |-> IF a \in DOMAIN h THEN h[a].prev ELSE 0]
  BY DEF SetHead
<1>3. \A x \in DOMAIN h \ {a} : k[x] = h[x]
  BY DEF SetHead
<1>4. k[a].size = n /\ k[a].pinuse = pin /\ k[a].nonMain = nm
  BY <1>2
<1>5. k[a].prev = IF a \in DOMAIN h THEN h[a].prev ELSE 0
  BY <1>2
<1>6. ASSUME Typed(h), a \in Nat, n \in Nat, pin \in BOOLEAN, nm \in BOOLEAN PROVE Typed(k)
  <2>1. \A x \in DOMAIN h : x \in Nat /\ h[x] \in Tag /\ h[x].prev \in Nat
    BY <1>6, TypedTags
  <2>2. k[a] \in Tag
    BY <1>2, <1>6, <2>1 DEF Tag
  <2>3. \A x \in DOMAIN k : x \in Nat /\ k[x] \in Tag
    BY <1>1, <1>3, <1>6, <2>1, <2>2
  <2>4. k = [x \in DOMAIN k |-> k[x]]
    BY DEF SetHead
  <2> QED BY <2>3, <2>4 DEF Typed
<1> QED BY <1>1, <1>3, <1>4, <1>5, <1>6 DEF IsHead

Changed(h, a, r) == [h EXCEPT ![a] = r]

\* A function of headers of which one is changed.
LEMMA TagChanged ==
  ASSUME NEW h, Typed(h), NEW a \in DOMAIN h, NEW r \in Tag, NEW k, k = Changed(h, a, r)
  PROVE  /\ Typed(k) /\ DOMAIN k = DOMAIN h /\ k[a] = r
         /\ \A x \in DOMAIN h \ {a} : k[x] = h[x]
<1>1. \A x \in DOMAIN h : x \in Nat /\ h[x] \in Tag
  BY TypedTags
<1>2. DOMAIN k = DOMAIN h /\ k[a] = r /\ \A x \in DOMAIN h \ {a} : k[x] = h[x]
  BY DEF Changed
<1>3. k \in [DOMAIN k -> Tag]
  BY <1>1, <1>2 DEF Changed
<1> QED BY <1>1, <1>2, <1>3 DEF Typed

\* k is h but for the header at a.
IsTagged(h, k, a, size, pin, nm, prev) ==
  /\ DOMAIN k = DOMAIN h
  /\ k[a].size = size /\ k[a].pinuse = pin /\ k[a].nonMain = nm /\ k[a].prev = prev
  /\ \A x \in DOMAIN h \ {a} : k[x] = h[x]

\* set_head_size, with NON_MAIN_ARENA.
LEMMA SetHeadSizeIs ==
  ASSUME NEW h, Typed(h), NEW a \in DOMAIN h, NEW n \in Nat
  PROVE  Typed(SetHeadSize(h, a, n)) /\ IsTagged(h, SetHeadSize(h, a, n), a, n, h[a].pinuse, TRUE, h[a].prev)
<1> DEFINE k == SetHeadSize(h, a, n)
           b == a
<1>1. b \in DOMAIN h /\ h[b] \in Tag
  BY TypedTags
<1> DEFINE r == [[h[b] EXCEPT !.size = n] EXCEPT !.nonMain = TRUE]
<1>2. r \in Tag /\ r.size = n /\ r.pinuse = h[b].pinuse /\ r.nonMain = TRUE /\ r.prev = h[b].prev
  BY <1>1 DEF Tag
<1>3. k = Changed(h, b, r)
  BY DEF Changed, SetHeadSize
<1> HIDE DEF r, b, k
<1>4. /\ Typed(k) /\ DOMAIN k = DOMAIN h /\ k[b] = r
      /\ \A x \in DOMAIN h \ {b} : k[x] = h[x]
  BY <1>1, <1>2, <1>3, TagChanged
<1>5. Typed(k) /\ IsTagged(h, k, b, n, h[b].pinuse, TRUE, h[b].prev)
  BY <1>2, <1>4 DEF IsTagged
<1> QED BY <1>5 DEF b, k

\* set_foot, behind a chunk.
LEMMA SetFootIs ==
  ASSUME NEW h, Typed(h), NEW a, NEW n \in Nat, a + n \in DOMAIN h
  PROVE  Typed(SetFoot(h, a, n)) /\ IsTagged(h, SetFoot(h, a, n), a + n, h[a + n].size, h[a + n].pinuse, h[a + n].nonMain, n)
<1> DEFINE k == SetFoot(h, a, n)
           b == a + n
<1>1. b \in DOMAIN h /\ h[b] \in Tag
  BY TypedTags
<1> DEFINE r == [h[b] EXCEPT !.prev = n]
<1>2. r \in Tag /\ r.size = h[b].size /\ r.pinuse = h[b].pinuse /\ r.nonMain = h[b].nonMain /\ r.prev = n
  BY <1>1 DEF Tag
<1>3. k = Changed(h, b, r)
  BY DEF Changed, SetFoot
<1> HIDE DEF r, b, k
<1>4. /\ Typed(k) /\ DOMAIN k = DOMAIN h /\ k[b] = r
      /\ \A x \in DOMAIN h \ {b} : k[x] = h[x]
  BY <1>1, <1>2, <1>3, TagChanged
<1>5. Typed(k) /\ IsTagged(h, k, b, h[b].size, h[b].pinuse, h[b].nonMain, n)
  BY <1>2, <1>4 DEF IsTagged
<1> QED BY <1>5 DEF b, k

\* clear_inuse_bit_at_offset.
LEMMA ClearInuseIs ==
  ASSUME NEW h, Typed(h), NEW a \in DOMAIN h
  PROVE  Typed(ClearInuse(h, a)) /\ IsTagged(h, ClearInuse(h, a), a, h[a].size, FALSE, h[a].nonMain, h[a].prev)
<1> DEFINE k == ClearInuse(h, a)
           b == a
<1>1. b \in DOMAIN h /\ h[b] \in Tag
  BY TypedTags
<1> DEFINE r == [h[b] EXCEPT !.pinuse = FALSE]
<1>2. r \in Tag /\ r.size = h[b].size /\ r.pinuse = FALSE /\ r.nonMain = h[b].nonMain /\ r.prev = h[b].prev
  BY <1>1 DEF Tag
<1>3. k = Changed(h, b, r)
  BY DEF Changed, ClearInuse
<1> HIDE DEF r, b, k
<1>4. /\ Typed(k) /\ DOMAIN k = DOMAIN h /\ k[b] = r
      /\ \A x \in DOMAIN h \ {b} : k[x] = h[x]
  BY <1>1, <1>2, <1>3, TagChanged
<1>5. Typed(k) /\ IsTagged(h, k, b, h[b].size, FALSE, h[b].nonMain, h[b].prev)
  BY <1>2, <1>4 DEF IsTagged
<1> QED BY <1>5 DEF b, k

\* set_inuse_bit_at_offset.
LEMMA SetInuseIs ==
  ASSUME NEW h, Typed(h), NEW a \in DOMAIN h
  PROVE  Typed(SetInuse(h, a)) /\ IsTagged(h, SetInuse(h, a), a, h[a].size, TRUE, h[a].nonMain, 0)
<1> DEFINE k == SetInuse(h, a)
           b == a
<1>1. b \in DOMAIN h /\ h[b] \in Tag
  BY TypedTags
<1> DEFINE r == [[h[b] EXCEPT !.pinuse = TRUE] EXCEPT !.prev = 0]
<1>2. r \in Tag /\ r.size = h[b].size /\ r.pinuse = TRUE /\ r.nonMain = h[b].nonMain /\ r.prev = 0
  BY <1>1 DEF Tag
<1>3. k = Changed(h, b, r)
  BY DEF Changed, SetInuse
<1> HIDE DEF r, b, k
<1>4. /\ Typed(k) /\ DOMAIN k = DOMAIN h /\ k[b] = r
      /\ \A x \in DOMAIN h \ {b} : k[x] = h[x]
  BY <1>1, <1>2, <1>3, TagChanged
<1>5. Typed(k) /\ IsTagged(h, k, b, h[b].size, TRUE, h[b].nonMain, 0)
  BY <1>2, <1>4 DEF IsTagged
<1> QED BY <1>5 DEF b, k

IsForgotten(h, k, S) == DOMAIN k = DOMAIN h \ S /\ \A x \in DOMAIN h \ S : k[x] = h[x]

\* Headers that are gone.
LEMMA ForgetIs ==
  ASSUME NEW h, Typed(h), NEW S
  PROVE  Typed(Forget(h, S)) /\ IsForgotten(h, Forget(h, S), S)
<1> DEFINE k == Forget(h, S)
<1>1. DOMAIN k = DOMAIN h \ S /\ \A x \in DOMAIN h \ S : k[x] = h[x]
  BY DEF Forget
<1>2. \A x \in DOMAIN h : x \in Nat /\ h[x] \in Tag
  BY TypedTags
<1>3. k = [x \in DOMAIN h \ S |-> h[x]]
  BY DEF Forget
<1>4. k \in [DOMAIN k -> Tag]
  BY <1>1, <1>2, <1>3
<1> QED BY <1>1, <1>2, <1>4 DEF Typed, IsForgotten

-----------------------------------------------------------------------------
(* The engine's changes of memory.                                         *)

Ord == OrdinaryOf(head, top, EndTags(heapSize, chain))
Mem == MemorySound(head, top, heapSize, chain, Binned)
OldEnds == EndTags(heapSize, chain)

\* Handing out a whole chunk changes it as TakenSound asks.
LEMMA HandOutIs ==
  ASSUME Mem, NEW v \in Binned, NEW k, k = HandOut(v)
  PROVE  Typed(k) /\ IsTaken(head, k, v)
<1> DEFINE b == Behind(head, v)
           k1 == SetInuse(head, b)
           r == [k1[v] EXCEPT !.nonMain = TRUE]
<1>1. Typed(head)
  BY DEF Mem, MemorySound
<1>2. /\ v \in DOMAIN head /\ b \in DOMAIN head /\ b # v
  BY Neighbours DEF Mem, OrdinaryOf
<1>3. NextChunk(v) = b
  BY DEF NextChunk, Behind
<1> HIDE DEF b
<1>4. /\ Typed(k1) /\ DOMAIN k1 = DOMAIN head
      /\ k1[b].size = head[b].size /\ k1[b].pinuse
      /\ k1[b].nonMain = head[b].nonMain /\ k1[b].prev = 0
      /\ \A x \in DOMAIN head \ {b} : k1[x] = head[x]
  <2>1. Typed(k1) /\ IsTagged(head, k1, b, head[b].size, TRUE, head[b].nonMain, 0)
    BY <1>1, <1>2, SetInuseIs
  <2> QED BY <2>1 DEF IsTagged
<1>5. k = Changed(k1, v, r)
  BY <1>3 DEF HandOut, Changed
<1> HIDE DEF k1
<1>6. k1[v] \in Tag
  BY <1>2, <1>4, TypedTags
<1>7. r \in Tag /\ r.size = k1[v].size /\ r.pinuse = k1[v].pinuse /\ r.prev = k1[v].prev /\ r.nonMain
  BY <1>6 DEF Tag
<1> HIDE DEF r
<1>8. /\ Typed(k) /\ DOMAIN k = DOMAIN k1 /\ k[v] = r
      /\ \A x \in DOMAIN k1 \ {v} : k[x] = k1[x]
  BY <1>2, <1>4, <1>5, <1>7, TagChanged
<1>9. k1[v] = head[v] /\ k[b] = k1[b]
  BY <1>2, <1>4, <1>8
<1>10. DOMAIN k = DOMAIN head /\ \A x \in DOMAIN head : k[x].size = head[x].size
  <2> SUFFICES ASSUME NEW x \in DOMAIN head PROVE k[x].size = head[x].size
    BY <1>4, <1>8
  <2>1. CASE x = v
    BY <2>1, <1>7, <1>8, <1>9
  <2>2. CASE x = b
    BY <2>2, <1>4, <1>9
  <2>3. CASE x \notin {v, b}
    BY <2>3, <1>4, <1>8
  <2> QED BY <2>1, <2>2, <2>3
<1> QED BY <1>4, <1>7, <1>8, <1>9, <1>10 DEF IsTaken, b

\* All of a free chunk is given out.
LEMMA HandOutSound ==
  ASSUME Mem, NEW v \in Binned, NEW k, k = HandOut(v)
  PROVE  /\ MemorySound(k, top, heapSize, chain, Binned \ {v})
         /\ OrdinaryOf(k, top, OldEnds) = Ord
         /\ \A x \in DOMAIN head : k[x].size = head[x].size
         /\ DOMAIN k = DOMAIN head
<1>1. Typed(k) /\ IsTaken(head, k, v)
  BY HandOutIs
<1>2. /\ MemorySound(k, top, heapSize, chain, Binned \ {v})
      /\ OrdinaryOf(k, top, EndTags(heapSize, chain)) = OrdinaryOf(head, top, EndTags(heapSize, chain))
  BY <1>1, TakenSound DEF Mem
<1> QED BY <1>1, <1>2 DEF IsTaken, Ord, OldEnds

\* The first n units of the free chunk v are given out, and what is behind
\* them is a free chunk.
LEMMA SplitFreeSound ==
  ASSUME Mem, NEW v \in Binned, NEW n \in Nat, n >= MinSize, Size(v) - n >= MinSize,
         NEW k, k = SplitFree(v, n)
  PROVE  /\ MemorySound(k, top, heapSize, chain, (Binned \ {v}) \cup {v + n})
         /\ OrdinaryOf(k, top, OldEnds) = Ord \cup {v + n}
         /\ v + n \notin DOMAIN head /\ v + n \in Nat
         /\ k[v].size = n /\ k[v + n].size = Size(v) - n
         /\ \A x \in DOMAIN head \ {v} : k[x].size = head[x].size
<1> DEFINE b == Behind(head, v)
           w == v + n
           rest == Size(v) - n
           k1 == HandOut(v)
           k2 == SetHead(SetHead(k1, v, n, TRUE, TRUE), w, rest, TRUE, TRUE)
           k3 == SetHead(SetHead(head, v, n, TRUE, TRUE), w, rest, TRUE, FALSE)
           E == EndTags(heapSize, chain)
<1>1. Typed(head) /\ Tiled(head, top, heapSize, chain) /\ HeapsSound(heapSize, chain)
  BY DEF Mem, MemorySound
<1>2. /\ v \in DOMAIN head /\ v \notin E /\ v # top /\ b \in DOMAIN head \ E /\ b # v
      /\ head[v].pinuse /\ head[v].prev = 0 /\ ~head[b].pinuse /\ v \in Nat
      /\ b = v + head[v].size /\ Size(v) = head[v].size /\ head[v].size \in Nat
      /\ b # top /\ head[Behind(head, b)].pinuse /\ Behind(head, b) \in DOMAIN head
  <2>1. v \in Ord /\ b \in DOMAIN head \ (E \cup {top}) /\ Behind(head, b) \in DOMAIN head /\ v \in OrdinaryOf(head, top, E)
    BY Neighbours DEF Mem, Ord
  <2>2. v \in DOMAIN head \ (E \cup {top})
    BY <2>1 DEF OrdinaryOf
  <2>3. head[v].pinuse /\ ~head[b].pinuse /\ b # top /\ head[Behind(head, b)].pinuse
    BY DEF Mem, MemorySound, FlagsSound
  <2>4. head[v].prev = 0
    BY <2>2, <2>3 DEF Mem, MemorySound, FootersSound
  <2>5. b > v
    BY <2>2, Neighbours DEF Mem
  <2>6. v \in Nat /\ head[v].size \in Nat
    BY <2>2, <1>1, TypedTags
  <2>7. b # v
    BY <2>5, <2>6 DEF Behind
  <2> QED BY <2>1, <2>2, <2>3, <2>4, <2>6, <2>7 DEF Behind, Size
<1>3. MinSize \in Nat /\ MinSize > 1
  BY Constants
<1>4. rest \in Nat /\ rest > 0 /\ 0 < n /\ n < head[v].size /\ w \in Nat /\ rest = head[v].size - n /\ w # v
      /\ w + rest = b /\ v < w /\ w < b
  BY <1>2, <1>3
<1> HIDE DEF rest, w, b
<1>5. w \notin DOMAIN head
  <2>1. \A x \in DOMAIN head : x <= v \/ x >= Behind(head, v)
    BY <1>1, <1>2 DEF Tiled
  <2> QED BY <2>1, <1>1, <1>2, <1>4, TypedTags DEF b
<1>6. /\ Typed(k1) /\ IsTaken(head, k1, v)
  BY HandOutIs
<1>7. /\ DOMAIN k1 = DOMAIN head /\ \A x \in DOMAIN head : k1[x].size = head[x].size
      /\ k1[b].pinuse /\ k1[b].prev = 0 /\ k1[b].nonMain = head[b].nonMain
      /\ k1[v].pinuse = head[v].pinuse /\ k1[v].prev = head[v].prev /\ k1[v].nonMain
      /\ \A x \in DOMAIN head \ {v, b} : k1[x] = head[x]
  BY <1>6 DEF IsTaken, b
<1>8. /\ MemorySound(k1, top, heapSize, chain, Binned \ {v})
      /\ OrdinaryOf(k1, top, E) = OrdinaryOf(head, top, E)
      /\ \A x \in DOMAIN head : Behind(k1, x) = Behind(head, x)
  BY <1>6, TakenSound DEF Mem
<1> HIDE DEF k1
<1>9. /\ DOMAIN k2 = DOMAIN head \cup {w}
      /\ k2[v].size = n /\ k2[v].pinuse /\ k2[v].nonMain /\ k2[v].prev = 0
      /\ k2[w].size = rest /\ k2[w].pinuse /\ k2[w].nonMain /\ k2[w].prev = 0
      /\ \A x \in DOMAIN head \ {v} : k2[x] = k1[x]
      /\ Typed(k2)
  <2> DEFINE m == SetHead(k1, v, n, TRUE, TRUE)
  <2>1. /\ DOMAIN m = DOMAIN head
        /\ m[v].size = n /\ m[v].pinuse /\ m[v].nonMain /\ m[v].prev = 0
        /\ \A x \in DOMAIN head \ {v} : m[x] = k1[x]
        /\ Typed(m)
    <3>1. IsHead(k1, m, v, n, TRUE, TRUE)
      BY SetHeadIs
    <3>2. Typed(m)
      BY <1>1, <1>2, <1>6, SetHeadIs
    <3> HIDE DEF m
    <3> QED BY <3>1, <3>2, <1>2, <1>6, <1>7 DEF IsHead
  <2> HIDE DEF m
  <2>2. /\ DOMAIN k2 = DOMAIN head \cup {w}
        /\ k2[w].size = rest /\ k2[w].pinuse /\ k2[w].nonMain /\ k2[w].prev = 0
        /\ \A x \in DOMAIN head : k2[x] = m[x]
        /\ Typed(k2)
    <3>1. IsHead(m, k2, w, rest, TRUE, TRUE)
      BY SetHeadIs DEF m
    <3>2. Typed(k2)
      BY <2>1, <1>4, SetHeadIs DEF m
    <3> HIDE DEF k2
    <3> QED BY <3>1, <3>2, <2>1, <1>5 DEF IsHead
  <2> HIDE DEF k2
  <2> QED BY <2>1, <2>2, <1>2
<1>10. /\ DOMAIN k3 = DOMAIN head \cup {w}
       /\ k3[v].size = n /\ k3[v].pinuse /\ k3[v].nonMain /\ k3[v].prev = 0
       /\ k3[w].size = rest /\ k3[w].pinuse /\ ~k3[w].nonMain /\ k3[w].prev = 0
       /\ \A x \in DOMAIN head \ {v} : k3[x] = head[x]
       /\ Typed(k3)
  <2> DEFINE m == SetHead(head, v, n, TRUE, TRUE)
  <2>1. /\ DOMAIN m = DOMAIN head
        /\ m[v].size = n /\ m[v].pinuse /\ m[v].nonMain /\ m[v].prev = 0
        /\ \A x \in DOMAIN head \ {v} : m[x] = head[x]
        /\ Typed(m)
    <3>1. IsHead(head, m, v, n, TRUE, TRUE)
      BY SetHeadIs
    <3>2. Typed(m)
      BY <1>1, <1>2, <1>6, SetHeadIs
    <3> HIDE DEF m
    <3> QED BY <3>1, <3>2, <1>2, <1>6, <1>7 DEF IsHead
  <2> HIDE DEF m
  <2>2. /\ DOMAIN k3 = DOMAIN head \cup {w}
        /\ k3[w].size = rest /\ k3[w].pinuse /\ ~k3[w].nonMain /\ k3[w].prev = 0
        /\ \A x \in DOMAIN head : k3[x] = m[x]
        /\ Typed(k3)
    <3>1. IsHead(m, k3, w, rest, TRUE, FALSE)
      BY SetHeadIs DEF m
    <3>2. Typed(k3)
      BY <2>1, <1>4, SetHeadIs DEF m
    <3> HIDE DEF k3
    <3> QED BY <3>1, <3>2, <2>1, <1>5 DEF IsHead
  <2> HIDE DEF k3
  <2> QED BY <2>1, <2>2, <1>2
<1>11. k = SetFoot(k3, w, rest)
  BY DEF SplitFree, rest, w
<1> HIDE DEF k2, k3
<1>12. /\ Typed(k) /\ DOMAIN k = DOMAIN k3
       /\ k[b].size = k3[b].size /\ k[b].pinuse = k3[b].pinuse /\ k[b].nonMain = k3[b].nonMain
       /\ k[b].prev = rest
       /\ \A x \in DOMAIN k3 \ {b} : k[x] = k3[x]
  <2>1. w + rest \in DOMAIN k3
    BY <1>2, <1>4, <1>10
  <2>2. w + rest = b
    BY <1>4
  <2>3. Typed(k) /\ IsTagged(k3, k, w + rest, k3[w + rest].size, k3[w + rest].pinuse, k3[w + rest].nonMain, rest)
    BY <2>1, <1>4, <1>10, <1>11, SetFootIs
  <2> QED BY <2>2, <2>3 DEF IsTagged
<1>13. IsCut(k1, k2, top, v, n)
  <2>1. IsSplit(k1, k2, v, n)
    BY <1>2, <1>4, <1>7, <1>9 DEF IsSplit, w
  <2> QED BY <2>1, <1>2, <1>7, <1>9 DEF IsCut, w
<1>14. /\ MemorySound(k2, top, heapSize, chain, Binned \ {v})
       /\ OrdinaryOf(k2, top, E) = OrdinaryOf(head, top, E) \cup {w}
  <2>1. v \in OrdinaryOf(k1, top, E) /\ v \notin Binned \ {v} /\ k1[v].size - n >= MinSize
    <3>1. v \in OrdinaryOf(head, top, E)
      BY Neighbours DEF Mem
    <3> QED BY <3>1, <1>8, <1>7, <1>2 DEF rest
  <2>2. /\ MemorySound(k2, top, heapSize, chain, Binned \ {v})
        /\ OrdinaryOf(k2, top, E) = OrdinaryOf(k1, top, E) \cup {IF v = top THEN top ELSE v + n}
    BY <2>1, <1>2, <1>8, <1>9, <1>13, CutSound
  <2> QED BY <2>2, <1>2, <1>8 DEF w
<1>15. Behind(k2, w) = b /\ Behind(k2, b) = Behind(head, b)
  BY <1>2, <1>4, <1>7, <1>9 DEF Behind
<1>16. IsFreed(k2, k, w)
  <2>1. b # w /\ b \in DOMAIN head
    BY <1>2, <1>5
  <2>2. k[w] = k3[w] /\ k[v] = k3[v] /\ k3[b] = head[b] /\ k2[b] = k1[b]
    BY <2>1, <1>2, <1>9, <1>10, <1>12
  <2>3. \A x \in DOMAIN k2 : k[x].size = k2[x].size
    BY <2>1, <2>2, <1>2, <1>7, <1>9, <1>10, <1>12
  <2>4. \A x \in DOMAIN k2 \ {w, b, v} : k[x] = k2[x]
    BY <1>7, <1>9, <1>10, <1>12
  <2>40. k[v] \in Tag /\ k2[v] \in Tag
    BY <1>2, <1>9, <1>10, <1>12, TypedTags
  <2>5. k[v] = k2[v]
    <3>1. /\ k[v].size = k2[v].size /\ k[v].pinuse = k2[v].pinuse /\ k[v].nonMain = k2[v].nonMain
          /\ k[v].prev = k2[v].prev
      BY <2>2, <1>9, <1>10
    <3>2. /\ k[v].pinuse \in BOOLEAN /\ k2[v].pinuse \in BOOLEAN
          /\ k[v].nonMain \in BOOLEAN /\ k2[v].nonMain \in BOOLEAN
      BY <2>40 DEF Tag
    <3> QED BY <3>1, <3>2, <2>40 DEF Tag
  <2> QED BY <2>1, <2>2, <2>3, <2>4, <2>5, <1>2, <1>7, <1>9, <1>10, <1>12, <1>15 DEF IsFreed
<1>17. w \in OrdinaryOf(k2, top, E) /\ w \notin Binned \ {v}
  <2>1. Binned \subseteq DOMAIN head
    BY Neighbours DEF Mem, OrdinaryOf
  <2> QED BY <2>1, <1>5, <1>14
<1>18. Behind(k2, w) # top /\ k2[Behind(k2, Behind(k2, w))].pinuse
  <2>1. Behind(head, b) # v /\ Behind(head, b) # b
    <3>1. Behind(head, b) > b
      BY <1>2, Neighbours DEF Mem
    <3> QED BY <3>1, <1>1, <1>2, <1>4, TypedTags DEF b, Behind
  <2> QED BY <2>1, <1>2, <1>7, <1>9, <1>15
<1>19. /\ MemorySound(k, top, heapSize, chain, (Binned \ {v}) \cup {w})
       /\ OrdinaryOf(k, top, E) = OrdinaryOf(k2, top, E)
  BY <1>9, <1>12, <1>14, <1>16, <1>17, <1>18, FreedSound
<1>20. k[v].size = n /\ k[w].size = Size(v) - n /\ \A x \in DOMAIN head \ {v} : k[x].size = head[x].size
  <2>1. b # w /\ b # v
    BY <1>2, <1>5
  <2> QED BY <2>1, <1>2, <1>4, <1>10, <1>12
<1> QED BY <1>4, <1>5, <1>14, <1>19, <1>20 DEF w, Ord, OldEnds

\* Two headers with the same contents.
LEMMA SameTag ==
  ASSUME NEW x \in Tag, NEW y \in Tag,
         x.size = y.size, x.pinuse <=> y.pinuse, x.nonMain <=> y.nonMain, x.prev = y.prev
  PROVE  x = y
<1>1. x.pinuse \in BOOLEAN /\ y.pinuse \in BOOLEAN /\ x.nonMain \in BOOLEAN /\ y.nonMain \in BOOLEAN
  BY DEF Tag
<1>2. x.pinuse = y.pinuse /\ x.nonMain = y.nonMain
  BY <1>1
<1> QED BY <1>2 DEF Tag

\* Behind a chunk in use.
LEMMA BehindUsed ==
  ASSUME NEW h, NEW t, NEW hs, NEW ch, NEW G, MemorySound(h, t, hs, ch, G),
         NEW a \in OrdinaryOf(h, t, EndTags(hs, ch)), a \notin G
  PROVE  /\ a \in DOMAIN h /\ a \in Nat /\ a # t /\ h[a].size \in Nat /\ h[a].size >= MinSize
         /\ Behind(h, a) \in DOMAIN h /\ Behind(h, a) # a /\ Behind(h, a) = a + h[a].size
         /\ h[Behind(h, a)].pinuse /\ h[Behind(h, a)].prev = 0
         /\ \A n \in Nat : 0 < n /\ n < h[a].size => a + n \notin DOMAIN h /\ a + n \in Nat
<1> DEFINE E == EndTags(hs, ch)
           b == Behind(h, a)
<1>1. /\ a \in DOMAIN h \ (E \cup {t}) /\ h[a].size >= MinSize /\ b \in DOMAIN h \ E
      /\ h[b].pinuse /\ b > a
  BY Neighbours
<1>2. Typed(h) /\ Tiled(h, t, hs, ch)
  BY DEF MemorySound
<1>3. h[b].prev = 0
  BY <1>1 DEF MemorySound, FootersSound
<1>4. a \in Nat /\ h[a].size \in Nat /\ b \in Nat /\ \A x \in DOMAIN h : x \in Nat
  BY <1>1, <1>2, TypedTags
<1>5. \A x \in DOMAIN h : x <= a \/ x >= b
  BY <1>1, <1>2 DEF Tiled
<1>6. b = a + h[a].size
  BY DEF Behind
<1> HIDE DEF b, E
<1>7. \A n \in Nat : 0 < n /\ n < h[a].size => a + n \notin DOMAIN h /\ a + n \in Nat
  BY <1>4, <1>5, <1>6
<1> QED BY <1>1, <1>3, <1>4, <1>6, <1>7 DEF b

\* The first n of size units from a on stay in use, the others become a
\* chunk of their own, which is in use as well.
SplitHead(h, a, n, size) ==
  SetInuse(SetHead(SetHeadSize(h, a, n), a + n, size - n, TRUE, TRUE), a + size)
IsSplitHead(h, k, a, w, b, n, size) ==
  /\ DOMAIN k = DOMAIN h \cup {w}
  /\ k[a].size = n /\ k[a].pinuse = h[a].pinuse /\ k[a].nonMain /\ k[a].prev = h[a].prev
  /\ k[w].size = size - n /\ k[w].pinuse /\ k[w].nonMain /\ k[w].prev = 0
  /\ k[b].size = h[b].size /\ k[b].pinuse /\ k[b].nonMain = h[b].nonMain /\ k[b].prev = 0
  /\ \A x \in DOMAIN h \ {a, b} : k[x] = h[x]

\* The headers of a block that is split.
LEMMA SplitOldIs ==
  ASSUME NEW h, Typed(h), NEW a \in DOMAIN h, NEW n \in Nat, NEW size \in Nat, 0 < n, n < size,
         a + n \notin DOMAIN h, a + size \in DOMAIN h
  PROVE  /\ Typed(SplitHead(h, a, n, size))
         /\ IsSplitHead(h, SplitHead(h, a, n, size), a, a + n, a + size, n, size)
<1> DEFINE k1 == SetHeadSize(h, a, n)
           w == a + n
           b == a + size
           k2 == SetHead(k1, w, size - n, TRUE, TRUE)
           k == SplitHead(h, a, n, size)
<1>1. /\ Typed(k1) /\ DOMAIN k1 = DOMAIN h
      /\ k1[a].size = n /\ k1[a].pinuse = h[a].pinuse /\ k1[a].nonMain /\ k1[a].prev = h[a].prev
      /\ \A x \in DOMAIN h \ {a} : k1[x] = h[x]
  <2>1. Typed(k1) /\ IsTagged(h, k1, a, n, h[a].pinuse, TRUE, h[a].prev)
    BY SetHeadSizeIs
  <2> QED BY <2>1 DEF IsTagged
<1>2. a \in Nat /\ w \in Nat /\ size - n \in Nat /\ w # a /\ b # a /\ w # b /\ b \in DOMAIN h /\ w \notin DOMAIN h
  BY TypedTags
<1>3. IsHead(k1, k2, w, size - n, TRUE, TRUE)
  BY SetHeadIs
<1>4. Typed(k2)
  BY <1>1, <1>2, SetHeadIs
<1>5. k = SetInuse(k2, b)
  BY DEF SplitHead
<1> HIDE DEF k1, k2, w, b, k
<1>6. /\ DOMAIN k2 = DOMAIN h \cup {w}
      /\ k2[w].size = size - n /\ k2[w].pinuse /\ k2[w].nonMain /\ k2[w].prev = 0
      /\ \A x \in DOMAIN h : k2[x] = k1[x]
  BY <1>1, <1>2, <1>3 DEF IsHead
<1>7. /\ Typed(k) /\ DOMAIN k = DOMAIN k2
      /\ k[b].size = k2[b].size /\ k[b].pinuse
      /\ k[b].nonMain = k2[b].nonMain /\ k[b].prev = 0
      /\ \A x \in DOMAIN k2 \ {b} : k[x] = k2[x]
  <2>1. b \in DOMAIN k2
    BY <1>2, <1>6
  <2>2. Typed(k) /\ IsTagged(k2, k, b, k2[b].size, TRUE, k2[b].nonMain, 0)
    BY <2>1, <1>4, <1>5, SetInuseIs
  <2> QED BY <2>2 DEF IsTagged
<1>8. k[a] = k1[a] /\ k[w] = k2[w] /\ k2[b] = h[b] /\ \A x \in DOMAIN h \ {a, b} : k[x] = h[x]
  BY <1>1, <1>2, <1>6, <1>7
<1>9. IsSplitHead(h, k, a, w, b, n, size)
  BY <1>1, <1>6, <1>7, <1>8 DEF IsSplitHead
<1> QED BY <1>7, <1>9 DEF k, w, b

\* The block at a gives back what it does not need.
LEMMA SplitUsedSound ==
  ASSUME Mem, NEW a \in Ord, a \notin Binned,
         NEW n \in Nat, n >= MinSize, Size(a) - n >= MinSize,
         NEW k, k = SplitHead(head, a, n, Size(a))
  PROVE  Typed(k) /\ IsCut(head, k, top, a, n)
<1> DEFINE b == Behind(head, a)
           w == a + n
<1>1. Typed(head)
  BY DEF Mem, MemorySound
<1>2. MinSize \in Nat /\ MinSize > 1
  BY Constants
<1>3. /\ a \in DOMAIN head /\ a \in Nat /\ a # top /\ head[a].size \in Nat
      /\ b \in DOMAIN head /\ b # a /\ b = a + head[a].size
      /\ head[b].pinuse /\ head[b].prev = 0
      /\ \A m \in Nat : 0 < m /\ m < head[a].size => a + m \notin DOMAIN head
  BY BehindUsed DEF Mem, Ord
<1>4. Size(a) = head[a].size /\ 0 < n /\ n < Size(a) /\ Size(a) \in Nat
  BY <1>2, <1>3 DEF Size
<1>5. w \notin DOMAIN head /\ b = a + Size(a)
  BY <1>3, <1>4
<1>6. Typed(k) /\ IsSplitHead(head, k, a, w, b, n, Size(a))
  BY <1>1, <1>3, <1>4, <1>5, SplitOldIs
<1> HIDE DEF b, w
<1>7. k[b] = head[b]
  <2>1. k[b] \in Tag /\ head[b] \in Tag
    BY <1>1, <1>3, <1>6, TypedTags DEF IsSplitHead
  <2>2. /\ k[b].size = head[b].size /\ k[b].pinuse
        /\ k[b].nonMain = head[b].nonMain /\ k[b].prev = 0
    BY <1>6 DEF IsSplitHead
  <2> QED BY <2>1, <2>2, <1>3, SameTag
<1>8. \A x \in DOMAIN head \ {a} : k[x] = head[x]
  BY <1>6, <1>7 DEF IsSplitHead
<1>9. IsSplit(head, k, a, n)
  BY <1>4, <1>6, <1>8 DEF IsSplit, IsSplitHead, w
<1> QED BY <1>6, <1>8, <1>9 DEF IsCut, IsSplitHead, w

\* Chunk a, which is in use, takes the next one in, which is in use as well.
FusedHead(h, a, nx, total) == SetHeadSize(Forget(h, {nx}), a, total)

\* A block takes in the used chunk behind it.
LEMMA FusedHeadIs ==
  ASSUME NEW h, NEW t, NEW hs, NEW ch, NEW G, MemorySound(h, t, hs, ch, G),
         NEW a \in OrdinaryOf(h, t, EndTags(hs, ch)), a \notin G,
         NEW nx, nx = Behind(h, a), nx \in OrdinaryOf(h, t, EndTags(hs, ch)), nx \notin G,
         NEW total, total = h[a].size + h[nx].size,
         NEW k, k = FusedHead(h, a, nx, total)
  PROVE  /\ Typed(k) /\ IsFused(h, k, t, a)
         /\ MemorySound(k, t, hs, ch, G)
         /\ OrdinaryOf(k, t, EndTags(hs, ch)) = OrdinaryOf(h, t, EndTags(hs, ch)) \ {nx}
         /\ Behind(k, a) = Behind(h, nx) /\ total \in Nat /\ Behind(h, nx) = a + total
         /\ Behind(h, nx) \in DOMAIN h /\ Behind(h, nx) \notin {a, nx}
         /\ h[Behind(h, nx)].pinuse /\ h[Behind(h, nx)].prev = 0
<1>1. /\ a \in DOMAIN h /\ a \in Nat /\ a # t /\ h[a].size \in Nat
      /\ nx \in DOMAIN h /\ nx # a /\ nx = a + h[a].size /\ nx # t
  <2>1. nx # t
    BY DEF OrdinaryOf
  <2> QED BY <2>1, BehindUsed
<1>2. /\ h[nx].size \in Nat /\ Behind(h, nx) \in DOMAIN h /\ Behind(h, nx) = nx + h[nx].size
      /\ h[Behind(h, nx)].pinuse /\ h[Behind(h, nx)].prev = 0 /\ Behind(h, nx) # nx
      /\ nx \in Nat /\ h[nx].size >= MinSize
  BY BehindUsed
<1>3. Typed(h)
  BY DEF MemorySound
<1> DEFINE f == Forget(h, {nx})
<1>4. Typed(f) /\ DOMAIN f = DOMAIN h \ {nx} /\ \A x \in DOMAIN h \ {nx} : f[x] = h[x]
  <2>1. Typed(f) /\ IsForgotten(h, f, {nx})
    BY <1>3, ForgetIs
  <2> QED BY <2>1 DEF IsForgotten
<1>5. k = SetHeadSize(f, a, total)
  BY DEF FusedHead
<1>6. total \in Nat /\ Behind(h, nx) = a + total
  BY <1>1, <1>2
<1> HIDE DEF f
<1>7. a \in DOMAIN f
  BY <1>1, <1>4
<1>8. Typed(k) /\ IsTagged(f, k, a, total, f[a].pinuse, TRUE, f[a].prev)
  <2>1. Typed(SetHeadSize(f, a, total))
        /\ IsTagged(f, SetHeadSize(f, a, total), a, total, f[a].pinuse, TRUE, f[a].prev)
    BY <1>4, <1>6, <1>7, SetHeadSizeIs
  <2> QED BY <2>1, <1>5
<1>9. /\ DOMAIN k = DOMAIN h \ {nx} /\ k[a].size = total /\ k[a].pinuse = h[a].pinuse
      /\ k[a].prev = h[a].prev /\ k[a].nonMain /\ \A x \in DOMAIN h \ {a, nx} : k[x] = h[x]
  BY <1>1, <1>4, <1>8 DEF IsTagged
<1>10. IsFused(h, k, t, a)
  <2>1. IsJoin(h, k, a)
    BY <1>9 DEF IsJoin
  <2> QED BY <2>1, <1>9 DEF IsFused
<1>11. /\ MemorySound(k, t, hs, ch, G)
       /\ OrdinaryOf(k, t, EndTags(hs, ch))
            = OrdinaryOf(h, t, EndTags(hs, ch)) \ {IF Behind(h, a) = t THEN a ELSE Behind(h, a)}
       /\ Behind(k, a) = Behind(h, Behind(h, a))
  <2>1. Behind(h, a) # t /\ Behind(h, a) \in OrdinaryOf(h, t, EndTags(hs, ch)) /\ Behind(h, a) \notin G
    BY <1>1
  <2>2. t = IF Behind(h, a) = t THEN a ELSE t
    BY <2>1
  <2>3. ASSUME NEW u, u = t
        PROVE /\ MemorySound(k, u, hs, ch, G)
              /\ OrdinaryOf(k, u, EndTags(hs, ch))
                   = OrdinaryOf(h, t, EndTags(hs, ch)) \ {IF Behind(h, a) = t THEN a ELSE Behind(h, a)}
              /\ Behind(k, a) = Behind(h, Behind(h, a))
    <3>1. u = IF Behind(h, a) = t THEN a ELSE t
      BY <2>1, <2>3
    <3> QED BY <2>1, <3>1, <1>8, <1>10, FusedSound
  <2> QED BY <2>3
<1>12. Behind(h, nx) # a
  BY <1>1, <1>2
<1> QED BY <1>1, <1>2, <1>6, <1>8, <1>10, <1>11, <1>12

\* What is not needed of the two is split off.
IsGrownIn(h, k, a, nx, n, total) ==
  /\ total = h[a].size + h[nx].size /\ n \in Nat /\ n >= MinSize /\ total - n >= MinSize
  /\ DOMAIN k = (DOMAIN h \ {nx}) \cup {a + n}
  /\ k[a].size = n /\ k[a].pinuse = h[a].pinuse /\ k[a].nonMain /\ k[a].prev = h[a].prev
  /\ k[a + n].size = total - n /\ k[a + n].pinuse /\ k[a + n].nonMain /\ k[a + n].prev = 0
  /\ \A x \in DOMAIN h \ {a, nx, a + n} : k[x] = h[x]

\* A block takes in the used chunk behind it and is split again.
LEMMA FusedSplitIs ==
  ASSUME NEW h, NEW t, NEW hs, NEW ch, NEW G, MemorySound(h, t, hs, ch, G),
         NEW a \in OrdinaryOf(h, t, EndTags(hs, ch)), a \notin G,
         NEW nx, nx = Behind(h, a), nx \in OrdinaryOf(h, t, EndTags(hs, ch)), nx \notin G,
         NEW n, NEW total, NEW k, Typed(k), IsGrownIn(h, k, a, nx, n, total)
  PROVE  /\ MemorySound(k, t, hs, ch, G)
         /\ OrdinaryOf(k, t, EndTags(hs, ch)) = (OrdinaryOf(h, t, EndTags(hs, ch)) \ {nx}) \cup {a + n}
         /\ a + n \notin DOMAIN h \ {nx}
<1> DEFINE m == FusedHead(h, a, nx, total)
           O == OrdinaryOf(h, t, EndTags(hs, ch))
<1>0. /\ total = h[a].size + h[nx].size /\ n \in Nat /\ n >= MinSize /\ total - n >= MinSize
      /\ DOMAIN k = (DOMAIN h \ {nx}) \cup {a + n}
      /\ k[a].size = n /\ k[a].pinuse = h[a].pinuse /\ k[a].nonMain /\ k[a].prev = h[a].prev
      /\ k[a + n].size = total - n /\ k[a + n].pinuse /\ k[a + n].nonMain /\ k[a + n].prev = 0
      /\ \A x \in DOMAIN h \ {a, nx, a + n} : k[x] = h[x]
  BY DEF IsGrownIn
<1>1. /\ Typed(m) /\ IsFused(h, m, t, a)
      /\ MemorySound(m, t, hs, ch, G)
      /\ OrdinaryOf(m, t, EndTags(hs, ch)) = O \ {nx}
      /\ total \in Nat
  BY <1>0, FusedHeadIs
<1>2. a \in DOMAIN h /\ a # t /\ nx # a /\ nx # t
  BY BehindUsed DEF OrdinaryOf
<1> HIDE DEF m
<1>3. /\ DOMAIN m = DOMAIN h \ {nx} /\ m[a].size = total /\ m[a].pinuse = h[a].pinuse
      /\ m[a].prev = h[a].prev /\ m[a].nonMain /\ \A x \in DOMAIN h \ {a, nx} : m[x] = h[x]
  BY <1>0, <1>1, <1>2 DEF IsFused, IsJoin
<1>4. a \in OrdinaryOf(m, t, EndTags(hs, ch))
  BY <1>1, <1>2
<1>40. MinSize \in Nat /\ MinSize > 1
  BY Constants
<1>41. 0 < n /\ n < m[a].size
  BY <1>0, <1>1, <1>3, <1>40
<1>5. a + n \notin DOMAIN m
  BY <1>0, <1>1, <1>4, <1>41, BehindUsed
<1>6. IsCut(m, k, t, a, n)
  <2>1. \A x \in DOMAIN m \ {a} : k[x] = m[x]
    BY <1>0, <1>3, <1>5
  <2>2. IsSplit(m, k, a, n)
    BY <2>1, <1>0, <1>3 DEF IsSplit
  <2> QED BY <2>1, <2>2, <1>0, <1>2, <1>3 DEF IsCut
<1>7. m[a].size - n >= MinSize
  BY <1>0, <1>3
<1>8. /\ MemorySound(k, t, hs, ch, G)
      /\ OrdinaryOf(k, t, EndTags(hs, ch))
           = OrdinaryOf(m, t, EndTags(hs, ch)) \cup {IF a = t THEN t ELSE a + n}
  BY <1>1, <1>2, <1>4, <1>6, <1>7, <1>0, CutSound
<1> QED BY <1>1, <1>2, <1>3, <1>5, <1>8

\* A chunk in use takes in the free chunk behind it.
IsGrown(h, k, a, nx, b) ==
  /\ DOMAIN k = DOMAIN h \ {nx}
  /\ k[a].size = h[a].size + h[nx].size
  /\ k[a].pinuse = h[a].pinuse /\ k[a].nonMain /\ k[a].prev = h[a].prev
  /\ k[b].size = h[b].size /\ k[b].pinuse /\ k[b].nonMain = h[b].nonMain /\ k[b].prev = 0
  /\ \A x \in DOMAIN h \ {a, nx, b} : k[x] = h[x]

\* A block takes in a chunk that leaves its bin.
LEMMA TakenFusedSound ==
  ASSUME NEW h, NEW t, NEW hs, NEW ch, NEW G, MemorySound(h, t, hs, ch, G),
         NEW a \in OrdinaryOf(h, t, EndTags(hs, ch)), a \notin G,
         NEW nx \in G, nx = Behind(h, a), NEW b, b = Behind(h, nx),
         NEW k1, Typed(k1), IsTaken(h, k1, nx),
         NEW k, Typed(k), IsGrown(h, k, a, nx, b)
  PROVE  /\ MemorySound(k, t, hs, ch, G \ {nx})
         /\ OrdinaryOf(k, t, EndTags(hs, ch)) = OrdinaryOf(h, t, EndTags(hs, ch)) \ {nx}
<1> DEFINE E == EndTags(hs, ch)
           O == OrdinaryOf(h, t, E)
<1>2. /\ MemorySound(k1, t, hs, ch, G \ {nx})
      /\ OrdinaryOf(k1, t, E) = O
      /\ \A x \in DOMAIN h : Behind(k1, x) = Behind(h, x)
  BY TakenSound
<1>3. a \in DOMAIN h /\ a # t /\ nx # a
  BY BehindUsed
<1>4. nx \in O /\ nx # t /\ nx \in DOMAIN h /\ b \in DOMAIN h /\ b # a /\ b # nx
  <2>1. Typed(h) /\ nx > a /\ b > nx /\ nx \in O /\ nx \in DOMAIN h \ {t} /\ b \in DOMAIN h
    BY Neighbours DEF OrdinaryOf, MemorySound
  <2> QED BY <2>1, <1>3, TypedTags
<1>7. /\ DOMAIN k1 = DOMAIN h /\ \A x \in DOMAIN h : k1[x].size = h[x].size
      /\ k1[b].pinuse /\ k1[b].prev = 0 /\ k1[b].nonMain = h[b].nonMain
      /\ k1[nx].nonMain
      /\ \A x \in DOMAIN h \ {nx, b} : k1[x] = h[x]
  BY DEF IsTaken
<1>70. /\ DOMAIN k = DOMAIN h \ {nx}
       /\ k[a].size = h[a].size + h[nx].size
       /\ k[a].pinuse = h[a].pinuse /\ k[a].nonMain /\ k[a].prev = h[a].prev
       /\ k[b].size = h[b].size /\ k[b].pinuse /\ k[b].nonMain = h[b].nonMain /\ k[b].prev = 0
       /\ \A x \in DOMAIN h \ {a, nx, b} : k[x] = h[x]
  BY DEF IsGrown
<1>8. k[b] = k1[b]
  <2>1. k[b] \in Tag /\ k1[b] \in Tag
    BY <1>4, <1>7, <1>70, TypedTags
  <2> QED BY <2>1, <1>4, <1>7, <1>70, SameTag
<1>9. Behind(k1, a) = nx /\ k1[a] = h[a] /\ k1[nx].size = h[nx].size
  BY <1>2, <1>3, <1>4, <1>7
<1>10. \A x \in DOMAIN k1 \ {a, nx} : k[x] = k1[x]
  BY <1>7, <1>70, <1>8
<1>11. IsFused(k1, k, t, a)
  <2>1. IsJoin(k1, k, a)
    BY <1>7, <1>70, <1>9, <1>10 DEF IsJoin
  <2> QED BY <2>1, <1>70, <1>9, <1>10 DEF IsFused
<1>12. nx \in OrdinaryOf(k1, t, E) /\ nx \notin G \ {nx} /\ a \in OrdinaryOf(k1, t, E) /\ a \notin G \ {nx}
  BY <1>2, <1>4
<1>13. t = IF Behind(k1, a) = t THEN a ELSE t
  BY <1>4, <1>9
<1>14. /\ MemorySound(k, t, hs, ch, G \ {nx})
       /\ OrdinaryOf(k, t, E) = OrdinaryOf(k1, t, E) \ {IF Behind(k1, a) = t THEN a ELSE Behind(k1, a)}
  <2>1. Behind(k1, a) \in OrdinaryOf(k1, t, E) /\ Behind(k1, a) \notin G \ {nx}
    BY <1>9, <1>12
  <2> HIDE DEF E, O
  <2> QED BY <2>1, <1>2, <1>11, <1>12, <1>13, FusedSound DEF E
<1> QED BY <1>2, <1>4, <1>9, <1>14

\* It takes the free chunk in, and what is not needed is split off.
IsGrownSplit(h, k, a, nx, b, n, total) ==
  /\ total \in Nat /\ total = h[a].size + h[nx].size
  /\ n \in Nat /\ n >= MinSize /\ total - n >= MinSize
  /\ DOMAIN k = (DOMAIN h \ {nx}) \cup {a + n} /\ a + n \notin DOMAIN h \ {nx}
  /\ k[a].size = n /\ k[a].pinuse = h[a].pinuse /\ k[a].nonMain /\ k[a].prev = h[a].prev
  /\ k[a + n].size = total - n /\ k[a + n].pinuse /\ k[a + n].nonMain /\ k[a + n].prev = 0
  /\ k[b].size = h[b].size /\ k[b].pinuse /\ k[b].nonMain = h[b].nonMain /\ k[b].prev = 0
  /\ \A x \in DOMAIN h \ {a, nx, b} : k[x] = h[x]

\* A block takes in a chunk that leaves its bin, and is split again.
LEMMA TakenSplitSound ==
  ASSUME NEW h, NEW t, NEW hs, NEW ch, NEW G, MemorySound(h, t, hs, ch, G),
         NEW a \in OrdinaryOf(h, t, EndTags(hs, ch)), a \notin G,
         NEW nx \in G, nx = Behind(h, a), NEW b, b = Behind(h, nx),
         NEW k1, Typed(k1), IsTaken(h, k1, nx),
         NEW n, NEW total, NEW k, Typed(k), IsGrownSplit(h, k, a, nx, b, n, total)
  PROVE  /\ MemorySound(k, t, hs, ch, G \ {nx})
         /\ OrdinaryOf(k, t, EndTags(hs, ch)) = (OrdinaryOf(h, t, EndTags(hs, ch)) \ {nx}) \cup {a + n}
<1> DEFINE E == EndTags(hs, ch)
           O == OrdinaryOf(h, t, E)
           w == a + n
<1>2. /\ MemorySound(k1, t, hs, ch, G \ {nx})
      /\ OrdinaryOf(k1, t, E) = O
      /\ \A x \in DOMAIN h : Behind(k1, x) = Behind(h, x)
  BY TakenSound
<1>3. a \in DOMAIN h /\ a # t /\ nx # a
  BY BehindUsed
<1>4. nx \in O /\ nx # t /\ nx \in DOMAIN h /\ b \in DOMAIN h /\ b # a /\ b # nx
  <2>1. Typed(h) /\ nx > a /\ b > nx /\ nx \in O /\ nx \in DOMAIN h \ {t} /\ b \in DOMAIN h
    BY Neighbours DEF OrdinaryOf, MemorySound
  <2> QED BY <2>1, <1>3, TypedTags
<1>7. /\ DOMAIN k1 = DOMAIN h /\ \A x \in DOMAIN h : k1[x].size = h[x].size
      /\ k1[b].pinuse /\ k1[b].prev = 0 /\ k1[b].nonMain = h[b].nonMain
      /\ k1[nx].nonMain
      /\ \A x \in DOMAIN h \ {nx, b} : k1[x] = h[x]
  BY DEF IsTaken
<1>70. /\ total \in Nat /\ total = h[a].size + h[nx].size
       /\ n \in Nat /\ n >= MinSize /\ total - n >= MinSize
       /\ DOMAIN k = (DOMAIN h \ {nx}) \cup {w} /\ w \notin DOMAIN h \ {nx}
       /\ k[a].size = n /\ k[a].pinuse = h[a].pinuse /\ k[a].nonMain /\ k[a].prev = h[a].prev
       /\ k[w].size = total - n /\ k[w].pinuse /\ k[w].nonMain /\ k[w].prev = 0
       /\ k[b].size = h[b].size /\ k[b].pinuse /\ k[b].nonMain = h[b].nonMain /\ k[b].prev = 0
       /\ \A x \in DOMAIN h \ {a, nx, b} : k[x] = h[x]
  BY DEF IsGrownSplit
<1>71. w # b /\ w # a
  BY <1>3, <1>4, <1>70
<1>8. k[b] = k1[b]
  <2>1. k[b] \in Tag /\ k1[b] \in Tag
    BY <1>4, <1>7, <1>70, TypedTags
  <2> QED BY <2>1, <1>4, <1>7, <1>70, SameTag
<1>9. Behind(k1, a) = nx /\ k1[a] = h[a] /\ k1[nx].size = h[nx].size
  BY <1>2, <1>3, <1>4, <1>7
<1>10. \A x \in DOMAIN k1 \ {a, nx, w} : k[x] = k1[x]
  BY <1>7, <1>70, <1>8
<1>12. nx \in OrdinaryOf(k1, t, E) /\ nx \notin G \ {nx} /\ a \in OrdinaryOf(k1, t, E) /\ a \notin G \ {nx}
  BY <1>2, <1>4
<1>13. /\ total = k1[a].size + k1[nx].size /\ DOMAIN k = (DOMAIN k1 \ {nx}) \cup {w}
       /\ k[a].pinuse = k1[a].pinuse /\ k[a].prev = k1[a].prev
  BY <1>7, <1>70, <1>9
<1>14. /\ MemorySound(k, t, hs, ch, G \ {nx})
       /\ OrdinaryOf(k, t, E) = (OrdinaryOf(k1, t, E) \ {nx}) \cup {w}
  <2>1. IsGrownIn(k1, k, a, nx, n, total)
    BY <1>10, <1>13, <1>70 DEF IsGrownIn
  <2> HIDE DEF E, w
  <2>2. MemorySound(k1, t, hs, ch, G \ {nx}) /\ nx = Behind(k1, a)
    BY <1>2, <1>9
  <2> QED BY <2>1, <2>2, <1>12, FusedSplitIs DEF E, w
<1> QED BY <1>2, <1>14

\* The block at a grows into the free chunk behind it.
IntoNextWhole(a, nx, total) == SetInuse(SetHeadSize(Forget(head, {nx}), a, total), a + total)
IsIntoNext(k, a, nx, total) ==
  /\ MemorySound(k, top, heapSize, chain, Binned \ {nx})
  /\ OrdinaryOf(k, top, OldEnds) = Ord \ {nx}
  /\ DOMAIN k = DOMAIN head \ {nx} /\ k[a].size = total
  /\ \A x \in DOMAIN head \ {a, nx} : k[x].size = head[x].size

\* realloc into the free chunk behind, all of which it keeps.
LEMMA IntoNextSound ==
  ASSUME Mem, NEW a \in Ord, a \notin Binned, NEW nx, nx = NextChunk(a), nx \in Binned,
         NEW total, total = Size(a) + Size(nx)
  PROVE  IsIntoNext(IntoNextWhole(a, nx, total), a, nx, total)
<1> DEFINE k == IntoNextWhole(a, nx, total)
<1>0. k = SetInuse(SetHeadSize(Forget(head, {nx}), a, total), a + total)
  BY DEF IntoNextWhole
<1> HIDE DEF k
<1> DEFINE k1 == HandOut(nx)
           b == Behind(head, nx)
           E == EndTags(heapSize, chain)
           f == Forget(head, {nx})
           m == SetHeadSize(f, a, total)
<1>1. Typed(k1) /\ IsTaken(head, k1, nx) /\ Typed(head)
  BY HandOutIs DEF Mem, MemorySound
<1>2. /\ MemorySound(k1, top, heapSize, chain, Binned \ {nx})
      /\ OrdinaryOf(k1, top, E) = OrdinaryOf(head, top, E)
      /\ \A x \in DOMAIN head : Behind(k1, x) = Behind(head, x)
  BY <1>1, TakenSound DEF Mem
<1>3. /\ a \in DOMAIN head /\ a \in Nat /\ a # top /\ head[a].size \in Nat
      /\ nx = Behind(head, a) /\ nx \in DOMAIN head /\ nx # a /\ nx = a + head[a].size
  <2>1. nx = Behind(head, a)
    BY DEF NextChunk, Behind
  <2> QED BY <2>1, BehindUsed DEF Mem, Ord
<1>4. /\ nx \in OrdinaryOf(head, top, E) /\ nx # top
      /\ b \in DOMAIN head /\ b \notin E /\ b # top /\ ~head[b].pinuse /\ head[b].prev = head[nx].size
  BY Neighbours DEF Mem, MemorySound, FlagsSound, OrdinaryOf
<1>5. head[nx].size \in Nat /\ b = nx + head[nx].size /\ nx \in Nat /\ b > nx
  <2>1. b > nx
    BY <1>4, Neighbours DEF Mem, OrdinaryOf
  <2> QED BY <2>1, <1>1, <1>3, TypedTags DEF Behind
<1>6. total \in Nat /\ a + total = b /\ b # a /\ b # nx /\ total = head[a].size + head[nx].size
  BY <1>3, <1>5 DEF Size
<1> HIDE DEF b, k1
<1>7. /\ DOMAIN k1 = DOMAIN head /\ \A x \in DOMAIN head : k1[x].size = head[x].size
      /\ k1[b].pinuse /\ k1[b].prev = 0 /\ k1[b].nonMain = head[b].nonMain
      /\ k1[nx].nonMain
      /\ \A x \in DOMAIN head \ {nx, b} : k1[x] = head[x]
  BY <1>1 DEF IsTaken, b
<1>8. Typed(f) /\ DOMAIN f = DOMAIN head \ {nx} /\ \A x \in DOMAIN head \ {nx} : f[x] = head[x]
  <2>1. Typed(f) /\ IsForgotten(head, f, {nx})
    BY <1>1, ForgetIs
  <2> QED BY <2>1 DEF IsForgotten
<1> HIDE DEF f
<1>9. Typed(m) /\ IsTagged(f, m, a, total, f[a].pinuse, TRUE, f[a].prev)
  BY <1>3, <1>6, <1>8, SetHeadSizeIs
<1>10. k = SetInuse(m, b)
  BY <1>0, <1>6 DEF f
<1> HIDE DEF m
<1>11. /\ DOMAIN m = DOMAIN head \ {nx} /\ m[a].size = total /\ m[a].pinuse = head[a].pinuse /\ m[a].nonMain
       /\ m[a].prev = head[a].prev /\ \A x \in DOMAIN head \ {a, nx} : m[x] = head[x]
  BY <1>3, <1>8, <1>9 DEF IsTagged
<1>12. Typed(k) /\ IsTagged(m, k, b, m[b].size, TRUE, m[b].nonMain, 0)
  <2>1. b \in DOMAIN m
    BY <1>4, <1>6, <1>11
  <2>2. Typed(SetInuse(m, b)) /\ IsTagged(m, SetInuse(m, b), b, m[b].size, TRUE, m[b].nonMain, 0)
    BY <2>1, <1>9, SetInuseIs
  <2> QED BY <2>2, <1>10
<1>13. /\ DOMAIN k = DOMAIN head \ {nx} /\ k[a].size = total /\ k[a].pinuse = head[a].pinuse /\ k[a].nonMain
       /\ k[a].prev = head[a].prev
       /\ k[b].size = head[b].size /\ k[b].pinuse /\ k[b].nonMain = head[b].nonMain /\ k[b].prev = 0
       /\ \A x \in DOMAIN head \ {a, nx, b} : k[x] = head[x]
  <2>1. b \in DOMAIN m /\ m[b] = head[b] /\ a \in DOMAIN m
    BY <1>3, <1>4, <1>6, <1>11
  <2>2. k[a] = m[a]
    BY <2>1, <1>6, <1>12 DEF IsTagged
  <2>3. k[b].size = head[b].size /\ k[b].pinuse /\ k[b].nonMain = head[b].nonMain /\ k[b].prev = 0
    BY <2>1, <1>12 DEF IsTagged
  <2>4. \A x \in DOMAIN head \ {a, nx, b} : k[x] = head[x]
    BY <1>11, <1>12 DEF IsTagged
  <2> QED BY <2>2, <2>3, <2>4, <1>11, <1>12 DEF IsTagged
<1>16. /\ MemorySound(k, top, heapSize, chain, Binned \ {nx})
       /\ OrdinaryOf(k, top, E) = OrdinaryOf(head, top, E) \ {nx}
  <2>1. MemorySound(head, top, heapSize, chain, Binned) /\ a \in OrdinaryOf(head, top, E)
    BY DEF Mem, Ord
  <2>2. IsGrown(head, k, a, nx, b)
    BY <1>6, <1>13 DEF IsGrown
  <2>3. b = Behind(head, nx)
    BY DEF b
  <2>4. a \in OrdinaryOf(head, top, EndTags(heapSize, chain)) /\ a \notin Binned
    BY <2>1
  <2>5. nx \in Binned /\ nx = Behind(head, a)
    BY <1>3
  <2>6. Typed(k1) /\ IsTaken(head, k1, nx) /\ Typed(k)
    BY <1>1, <1>3, <1>12
  <2> QED BY ONLY <2>1, <2>2, <2>3, <2>4, <2>5, <2>6, TakenFusedSound
<1>17. \A x \in DOMAIN head \ {a, nx} : k[x].size = head[x].size
  BY <1>13
<1> QED BY <1>13, <1>16, <1>17 DEF Ord, OldEnds, IsIntoNext, k

IsIntoNextSplit(k, a, nx, n, total) ==
  /\ MemorySound(k, top, heapSize, chain, Binned \ {nx})
  /\ OrdinaryOf(k, top, OldEnds) = (Ord \ {nx}) \cup {a + n}
  /\ a + n \notin DOMAIN head \ {nx} /\ a + n \in Nat
  /\ DOMAIN k = (DOMAIN head \ {nx}) \cup {a + n}
  /\ k[a].size = n /\ k[a + n].size = total - n
  /\ \A x \in DOMAIN head \ {a, nx} : k[x].size = head[x].size

\* realloc into the free chunk behind, with a rest to be freed.
LEMMA IntoNextSplitSound ==
  ASSUME Mem, NEW a \in Ord, a \notin Binned, NEW nx, nx = NextChunk(a), nx \in Binned,
         NEW total, total = Size(a) + Size(nx),
         NEW n \in Nat, n >= MinSize, total - n >= MinSize, n >= Size(a)
  PROVE  IsIntoNextSplit(SplitHead(Forget(head, {nx}), a, n, total), a, nx, n, total)
<1> DEFINE k == SplitHead(Forget(head, {nx}), a, n, total)
<1>0. k = SplitHead(Forget(head, {nx}), a, n, total)
  OBVIOUS
<1> HIDE DEF k
<1> DEFINE k1 == HandOut(nx)
           b == Behind(head, nx)
           E == EndTags(heapSize, chain)
           f == Forget(head, {nx})
           w == a + n
<1>1. Typed(k1) /\ IsTaken(head, k1, nx) /\ Typed(head)
  BY HandOutIs DEF Mem, MemorySound
<1>2. /\ MemorySound(k1, top, heapSize, chain, Binned \ {nx})
      /\ OrdinaryOf(k1, top, E) = OrdinaryOf(head, top, E)
      /\ \A x \in DOMAIN head : Behind(k1, x) = Behind(head, x)
  BY <1>1, TakenSound DEF Mem
<1>3. /\ a \in DOMAIN head /\ a \in Nat /\ a # top /\ head[a].size \in Nat
      /\ nx = Behind(head, a) /\ nx \in DOMAIN head /\ nx # a /\ nx = a + head[a].size
  <2>1. nx = Behind(head, a)
    BY DEF NextChunk, Behind
  <2> QED BY <2>1, BehindUsed DEF Mem, Ord
<1>4. /\ nx \in OrdinaryOf(head, top, E) /\ nx # top
      /\ b \in DOMAIN head /\ b \notin E /\ b # top /\ ~head[b].pinuse /\ head[b].prev = head[nx].size
  BY Neighbours DEF Mem, MemorySound, FlagsSound, OrdinaryOf
<1>5. head[nx].size \in Nat /\ b = nx + head[nx].size /\ nx \in Nat /\ b > nx /\ nx \notin E
  <2>1. b > nx
    BY <1>4, Neighbours DEF Mem, OrdinaryOf
  <2> QED BY <2>1, <1>1, <1>3, <1>4, TypedTags DEF Behind, OrdinaryOf
<1>6. /\ total \in Nat /\ a + total = b /\ b # a /\ b # nx /\ total = head[a].size + head[nx].size
      /\ MinSize \in Nat /\ MinSize > 1 /\ 0 < n /\ n < total
  BY <1>3, <1>5, Constants DEF Size
<1>60. w \in Nat /\ w >= nx /\ w < b /\ w # a /\ w # b
  BY <1>3, <1>5, <1>6 DEF Size
<1>61. w \notin DOMAIN head \ {nx}
  <2>1. \A x \in DOMAIN head : x <= nx \/ x >= b
    BY <1>3, <1>5 DEF Mem, MemorySound, Tiled, b
  <2> QED BY <2>1, <1>1, <1>5, <1>60, TypedTags
<1> HIDE DEF b, k1
<1>7. /\ DOMAIN k1 = DOMAIN head /\ \A x \in DOMAIN head : k1[x].size = head[x].size
      /\ k1[b].pinuse /\ k1[b].prev = 0 /\ k1[b].nonMain = head[b].nonMain
      /\ k1[nx].nonMain
      /\ \A x \in DOMAIN head \ {nx, b} : k1[x] = head[x]
  BY <1>1 DEF IsTaken, b
<1>8. Typed(f) /\ DOMAIN f = DOMAIN head \ {nx} /\ \A x \in DOMAIN head \ {nx} : f[x] = head[x]
  <2>1. Typed(f) /\ IsForgotten(head, f, {nx})
    BY <1>1, ForgetIs
  <2> QED BY <2>1 DEF IsForgotten
<1>9. k = SplitHead(f, a, n, total)
  BY <1>0
<1> HIDE DEF f
<1>10. Typed(k) /\ IsSplitHead(f, k, a, w, b, n, total)
  <2>1. a \in DOMAIN f /\ w \notin DOMAIN f /\ b \in DOMAIN f
    BY <1>3, <1>4, <1>6, <1>8, <1>61
  <2>2. Typed(SplitHead(f, a, n, total)) /\ IsSplitHead(f, SplitHead(f, a, n, total), a, a + n, a + total, n, total)
    BY <2>1, <1>6, <1>8, SplitOldIs
  <2> QED BY <2>2, <1>6, <1>9
<1>11. /\ DOMAIN k = (DOMAIN head \ {nx}) \cup {w}
       /\ k[a].size = n /\ k[a].pinuse = head[a].pinuse /\ k[a].nonMain /\ k[a].prev = head[a].prev
       /\ k[w].size = total - n /\ k[w].pinuse /\ k[w].nonMain /\ k[w].prev = 0
       /\ k[b].size = head[b].size /\ k[b].pinuse /\ k[b].nonMain = head[b].nonMain /\ k[b].prev = 0
       /\ \A x \in DOMAIN head \ {a, b, nx} : k[x] = head[x]
  <2>1. f[a] = head[a] /\ f[b] = head[b]
    BY <1>3, <1>4, <1>6, <1>8
  <2>2. /\ DOMAIN k = DOMAIN f \cup {w}
        /\ k[a].size = n /\ k[a].pinuse = f[a].pinuse /\ k[a].nonMain /\ k[a].prev = f[a].prev
        /\ k[w].size = total - n /\ k[w].pinuse /\ k[w].nonMain /\ k[w].prev = 0
        /\ k[b].size = f[b].size /\ k[b].pinuse /\ k[b].nonMain = f[b].nonMain /\ k[b].prev = 0
        /\ \A x \in DOMAIN f \ {a, b} : k[x] = f[x]
    BY <1>10 DEF IsSplitHead
  <2>3. DOMAIN k = (DOMAIN head \ {nx}) \cup {w}
    BY <2>2, <1>8
  <2>4. \A x \in DOMAIN head \ {a, b, nx} : k[x] = head[x]
    BY <2>2, <1>8
  <2> QED BY <2>1, <2>2, <2>3, <2>4
<1>17. /\ MemorySound(k, top, heapSize, chain, Binned \ {nx})
       /\ OrdinaryOf(k, top, E) = (OrdinaryOf(head, top, E) \ {nx}) \cup {w}
  <2>1. MemorySound(head, top, heapSize, chain, Binned) /\ a \in OrdinaryOf(head, top, E)
    BY DEF Mem, Ord
  <2>2. IsGrownSplit(head, k, a, nx, b, n, total)
    BY <1>6, <1>11, <1>61 DEF IsGrownSplit
  <2>3. b = Behind(head, nx)
    BY DEF b
  <2>4. a \in OrdinaryOf(head, top, EndTags(heapSize, chain)) /\ a \notin Binned
    BY <2>1
  <2>5. nx \in Binned /\ nx = Behind(head, a)
    BY <1>3
  <2>6. Typed(k1) /\ IsTaken(head, k1, nx) /\ Typed(k)
    BY <1>1, <1>3, <1>10
  <2> QED BY ONLY <2>1, <2>2, <2>3, <2>4, <2>5, <2>6, TakenSplitSound
<1>18. \A x \in DOMAIN head \ {a, nx} : k[x].size = head[x].size
  BY <1>11
<1> QED BY <1>11, <1>17, <1>18, <1>60, <1>61 DEF Ord, OldEnds, w, IsIntoNextSplit, k

-----------------------------------------------------------------------------
(* The cuts the engine makes.                                              *)

\* What a chunk in use, or the top chunk, may be cut into.
LEMMA CutPlace ==
  ASSUME Mem, NEW a \in Ord \cup {top}, a \notin Binned,
         NEW n \in Nat, n >= MinSize, Size(a) - n >= MinSize
  PROVE  /\ Typed(head) /\ a \in DOMAIN head /\ a \in Nat /\ Size(a) = head[a].size
         /\ head[a].size \in Nat /\ 0 < n /\ n < head[a].size
         /\ a + n \in Nat /\ a + n \notin DOMAIN head /\ a + n # a
<1>1. Typed(head) /\ Tiled(head, top, heapSize, chain)
  BY DEF Mem, MemorySound
<1>2. MinSize \in Nat /\ MinSize > 1
  BY Constants
<1>3. a \in DOMAIN head /\ a \notin EndTags(heapSize, chain)
  BY <1>1 DEF Ord, OrdinaryOf, Tiled
<1>4. a \in Nat /\ head[a].size \in Nat
  BY <1>1, <1>3, TypedTags
<1>5. 0 < n /\ n < head[a].size /\ a + n \in Nat /\ a + n # a
  BY <1>2, <1>4 DEF Size
<1>6. \A x \in DOMAIN head : x <= a \/ x >= a + head[a].size
  BY <1>1, <1>3 DEF Tiled, Behind
<1>7. a + n \notin DOMAIN head
  BY <1>4, <1>5, <1>6
<1> QED BY <1>1, <1>3, <1>4, <1>5, <1>7 DEF Size

\* What follows from a cut.
IsCutOff(k, a, n) ==
  /\ MemorySound(k, IF a = top THEN a + n ELSE top, heapSize, chain, Binned)
  /\ OrdinaryOf(k, IF a = top THEN a + n ELSE top, OldEnds) = Ord \cup {IF a = top THEN top ELSE a + n}
  /\ a + n \notin DOMAIN head /\ a + n \in Nat
  /\ DOMAIN k = DOMAIN head \cup {a + n}
  /\ k[a].size = n /\ k[a + n].size = Size(a) - n
  /\ \A x \in DOMAIN head \ {a} : k[x] = head[x]

\* A cut leaves the memory sound.
LEMMA CutOffSound ==
  ASSUME Mem, NEW a \in Ord \cup {top}, a \notin Binned,
         NEW n \in Nat, n >= MinSize, Size(a) - n >= MinSize,
         NEW k, Typed(k), IsCut(head, k, top, a, n)
  PROVE  IsCutOff(k, a, n)
<1> DEFINE u == IF a = top THEN a + n ELSE top
<1>1. /\ a + n \in Nat /\ a + n \notin DOMAIN head /\ Size(a) = head[a].size
  BY CutPlace
<1>2. /\ MemorySound(k, u, heapSize, chain, Binned)
      /\ OrdinaryOf(k, u, EndTags(heapSize, chain))
           = OrdinaryOf(head, top, EndTags(heapSize, chain)) \cup {IF a = top THEN top ELSE a + n}
  <2>1. MemorySound(head, top, heapSize, chain, Binned) /\ a \in OrdinaryOf(head, top, EndTags(heapSize, chain)) \cup {top}
    BY DEF Mem, Ord
  <2>2. head[a].size - n >= MinSize /\ n >= MinSize /\ n \in Nat /\ a \notin Binned
    BY <1>1
  <2>3. Typed(k) /\ IsCut(head, k, top, a, n)
    OBVIOUS
  <2> QED BY ONLY <2>1, <2>2, <2>3, CutSound
<1>3. /\ DOMAIN k = DOMAIN head \cup {a + n} /\ k[a].size = n /\ k[a + n].size = Size(a) - n
      /\ \A x \in DOMAIN head \ {a} : k[x] = head[x]
  BY <1>1 DEF IsCut, IsSplit
<1> QED BY <1>1, <1>2, <1>3 DEF IsCutOff, OldEnds, Ord

\* The first n units of the top chunk are given out.
TopSplit(n) == SetHead(SetHead(head, top, n, TRUE, TRUE), top + n, Size(top) - n, TRUE, FALSE)

\* malloc from the top chunk.
LEMMA TopSplitSound ==
  ASSUME Mem, NEW n \in Nat, n >= MinSize, Size(top) - n >= MinSize
  PROVE  IsCutOff(TopSplit(n), top, n)
<1> DEFINE m == SetHead(head, top, n, TRUE, TRUE)
           w == top + n
           k == TopSplit(n)
<1>1. top \notin Binned /\ head[top].pinuse
  <2>1. Binned \subseteq Ord /\ head[top].pinuse
    BY DEF Mem, MemorySound, FootersSound, FlagsSound, Ord
  <2> QED BY <2>1 DEF Ord, OrdinaryOf
<1>2. /\ Typed(head) /\ top \in DOMAIN head /\ top \in Nat /\ Size(top) = head[top].size
      /\ head[top].size \in Nat /\ 0 < n /\ n < head[top].size
      /\ w \in Nat /\ w \notin DOMAIN head /\ w # top
  BY <1>1, CutPlace
<1>3. Typed(m) /\ IsHead(head, m, top, n, TRUE, TRUE)
  BY <1>2, SetHeadIs
<1>4. Size(top) - n \in Nat
  BY <1>2
<1>5. k = SetHead(m, w, Size(top) - n, TRUE, FALSE)
  BY DEF TopSplit
<1> HIDE DEF m, w, k
<1>6. Typed(k) /\ IsHead(m, k, w, Size(top) - n, TRUE, FALSE)
  BY <1>2, <1>3, <1>4, <1>5, SetHeadIs
<1>7. /\ DOMAIN m = DOMAIN head /\ m[top].size = n /\ m[top].pinuse /\ m[top].nonMain
      /\ m[top].prev = head[top].prev /\ \A x \in DOMAIN head \ {top} : m[x] = head[x]
  BY <1>2, <1>3 DEF IsHead
<1>8. /\ DOMAIN k = DOMAIN head \cup {w} /\ k[w].size = head[top].size - n /\ k[w].pinuse /\ k[w].prev = 0
      /\ k[top] = m[top] /\ \A x \in DOMAIN head \ {top} : k[x] = head[x]
  BY <1>2, <1>6, <1>7 DEF IsHead
<1>9. IsCut(head, k, top, top, n)
  <2>1. IsSplit(head, k, top, n)
    BY <1>7, <1>8 DEF IsSplit, w
  <2>2. k[top].pinuse = head[top].pinuse
    BY <1>1, <1>2, <1>3, <1>7, <1>8, TypedTags
  <2> QED BY <2>1, <2>2, <1>7, <1>8 DEF IsCut, w
<1> QED BY <1>1, <1>6, <1>9, CutOffSound DEF k

\* The end of a block is split off.
LEMMA SplitOffSound ==
  ASSUME Mem, NEW a \in Ord, a \notin Binned,
         NEW n \in Nat, n >= MinSize, Size(a) - n >= MinSize
  PROVE  IsCutOff(SplitHead(head, a, n, Size(a)), a, n)
<1>1. Typed(SplitHead(head, a, n, Size(a))) /\ IsCut(head, SplitHead(head, a, n, Size(a)), top, a, n)
  BY SplitUsedSound
<1> QED BY <1>1, CutOffSound

\* What is in front of an aligned block is split off.
FrontSplit(a, n) ==
  SetHeadSize(SetInuse(SetHead(head, a + n, Size(a) - n, TRUE, TRUE), a + n + (Size(a) - n)), a, n)

\* A block is split: realloc in place, or memalign in front of the aligned spot.
LEMMA FrontSplitSound ==
  ASSUME Mem, NEW a \in Ord, a \notin Binned,
         NEW n \in Nat, n >= MinSize, Size(a) - n >= MinSize
  PROVE  IsCutOff(FrontSplit(a, n), a, n)
<1> DEFINE w == a + n
           b == Behind(head, a)
           m == SetHead(head, w, Size(a) - n, TRUE, TRUE)
           f == SetInuse(m, b)
           k == FrontSplit(a, n)
<1>1. /\ Typed(head) /\ a \in DOMAIN head /\ a \in Nat /\ Size(a) = head[a].size
      /\ head[a].size \in Nat /\ 0 < n /\ n < head[a].size
      /\ w \in Nat /\ w \notin DOMAIN head /\ w # a
  BY CutPlace
<1>2. /\ a # top /\ b \in DOMAIN head /\ b # a /\ b = a + head[a].size /\ head[b].pinuse /\ head[b].prev = 0
  BY BehindUsed DEF Mem, Ord
<1>3. Size(a) - n \in Nat /\ w + (Size(a) - n) = b /\ b # w
  BY <1>1, <1>2
<1>4. k = SetHeadSize(f, a, n)
  BY <1>3 DEF FrontSplit
<1>5. Typed(m) /\ IsHead(head, m, w, Size(a) - n, TRUE, TRUE)
  BY <1>1, <1>3, SetHeadIs
<1> HIDE DEF w, b, m, k
<1>6. /\ DOMAIN m = DOMAIN head \cup {w} /\ m[w].size = head[a].size - n /\ m[w].pinuse /\ m[w].nonMain
      /\ m[w].prev = 0 /\ \A x \in DOMAIN head : m[x] = head[x]
  BY <1>1, <1>5 DEF IsHead
<1>7. Typed(f) /\ IsTagged(m, f, b, m[b].size, TRUE, m[b].nonMain, 0)
  BY <1>2, <1>5, <1>6, SetInuseIs
<1> HIDE DEF f
<1>8. f[b] = m[b] /\ \A x \in DOMAIN m : f[x] = m[x]
  <2>1. DOMAIN f = DOMAIN m /\ b \in DOMAIN m /\ m[b].pinuse /\ m[b].prev = 0 /\ \A x \in DOMAIN m \ {b} : f[x] = m[x]
    BY <1>2, <1>6, <1>7 DEF IsTagged
  <2>2. f[b] \in Tag /\ m[b] \in Tag
    BY <2>1, <1>5, <1>7, TypedTags
  <2>3. /\ f[b].size = m[b].size /\ f[b].pinuse /\ f[b].nonMain = m[b].nonMain /\ f[b].prev = 0
    BY <1>7 DEF IsTagged
  <2>4. f[b] = m[b]
    BY <2>1, <2>2, <2>3, SameTag
  <2> QED BY <2>1, <2>4
<1>9. DOMAIN f = DOMAIN head \cup {w} /\ f[w] = m[w] /\ \A x \in DOMAIN head : f[x] = head[x]
  BY <1>6, <1>7, <1>8 DEF IsTagged
<1>10. Typed(k) /\ IsTagged(f, k, a, n, f[a].pinuse, TRUE, f[a].prev)
  BY <1>1, <1>4, <1>7, <1>9, SetHeadSizeIs
<1>11. /\ DOMAIN k = DOMAIN head \cup {w} /\ k[a].size = n /\ k[a].pinuse = head[a].pinuse
       /\ k[a].nonMain /\ k[a].prev = head[a].prev /\ k[w] = m[w]
       /\ \A x \in DOMAIN head \ {a} : k[x] = head[x]
  BY <1>1, <1>9, <1>10 DEF IsTagged
<1>12. IsCut(head, k, top, a, n)
  <2>1. IsSplit(head, k, a, n)
    BY <1>6, <1>11 DEF IsSplit, w
  <2> QED BY <2>1, <1>6, <1>11 DEF IsCut, w
<1> QED BY <1>10, <1>12, CutOffSound DEF k

\* What an aligned block does not need is split off.
TailSplit(a, n) == SetHeadSize(SetHead(head, a + n, Size(a) - n, TRUE, TRUE), a, n)

\* memalign gives back the end of its chunk.
LEMMA TailSplitSound ==
  ASSUME Mem, NEW a \in Ord, a \notin Binned,
         NEW n \in Nat, n >= MinSize, Size(a) - n >= MinSize
  PROVE  IsCutOff(TailSplit(a, n), a, n)
<1> DEFINE w == a + n
           m == SetHead(head, w, Size(a) - n, TRUE, TRUE)
           k == TailSplit(a, n)
<1>1. /\ Typed(head) /\ a \in DOMAIN head /\ a \in Nat /\ Size(a) = head[a].size
      /\ head[a].size \in Nat /\ 0 < n /\ n < head[a].size
      /\ w \in Nat /\ w \notin DOMAIN head /\ w # a
  BY CutPlace
<1>2. Size(a) - n \in Nat
  BY <1>1
<1>3. k = SetHeadSize(m, a, n)
  BY DEF TailSplit
<1>4. Typed(m) /\ IsHead(head, m, w, Size(a) - n, TRUE, TRUE)
  BY <1>1, <1>2, SetHeadIs
<1> HIDE DEF w, m, k
<1>5. /\ DOMAIN m = DOMAIN head \cup {w} /\ m[w].size = head[a].size - n /\ m[w].pinuse /\ m[w].nonMain
      /\ m[w].prev = 0 /\ \A x \in DOMAIN head : m[x] = head[x]
  BY <1>1, <1>4 DEF IsHead
<1>6. Typed(k) /\ IsTagged(m, k, a, n, m[a].pinuse, TRUE, m[a].prev)
  BY <1>1, <1>3, <1>4, <1>5, SetHeadSizeIs
<1>7. /\ DOMAIN k = DOMAIN head \cup {w} /\ k[a].size = n /\ k[a].pinuse = head[a].pinuse
      /\ k[a].nonMain /\ k[a].prev = head[a].prev /\ k[w] = m[w]
      /\ \A x \in DOMAIN head \ {a} : k[x] = head[x]
  BY <1>1, <1>5, <1>6 DEF IsTagged
<1>8. IsCut(head, k, top, a, n)
  <2>1. IsSplit(head, k, a, n)
    BY <1>5, <1>7 DEF IsSplit, w
  <2> QED BY <2>1, <1>5, <1>7 DEF IsCut, w
<1> QED BY <1>6, <1>8, CutOffSound DEF k

\* A block that keeps all of its chunk.
LEMMA KeptSame ==
  ASSUME Mem, NEW a \in Ord, a \notin Binned
  PROVE  SetInuse(SetHeadSize(head, a, Size(a)), a + Size(a)) = head
<1> DEFINE b == Behind(head, a)
           m == SetHeadSize(head, a, Size(a))
           k == SetInuse(m, b)
<1>1. /\ Typed(head) /\ a \in DOMAIN head /\ Size(a) = head[a].size /\ head[a].size \in Nat
      /\ b \in DOMAIN head /\ b # a /\ b = a + head[a].size /\ head[b].pinuse /\ head[b].prev = 0
      /\ head[a].nonMain
  <2>1. Typed(head) /\ head[a].nonMain
    BY DEF Mem, MemorySound, FlagsSound, Ord
  <2> QED BY <2>1, BehindUsed DEF Mem, Ord, Size
<1>2. Typed(m) /\ IsTagged(head, m, a, Size(a), head[a].pinuse, TRUE, head[a].prev)
  BY <1>1, SetHeadSizeIs
<1> HIDE DEF m, b
<1>3. m[a] = head[a]
  <2>1. m[a] \in Tag /\ head[a] \in Tag
    BY <1>1, <1>2, TypedTags DEF IsTagged
  <2>2. m[a].size = head[a].size /\ m[a].pinuse = head[a].pinuse /\ m[a].nonMain /\ m[a].prev = head[a].prev
    BY <1>1, <1>2 DEF IsTagged
  <2> QED BY <2>1, <2>2, <1>1, SameTag
<1>4. DOMAIN m = DOMAIN head /\ \A x \in DOMAIN head : m[x] = head[x]
  BY <1>2, <1>3 DEF IsTagged
<1>5. Typed(k) /\ IsTagged(m, k, b, m[b].size, TRUE, m[b].nonMain, 0)
  BY <1>1, <1>2, <1>4, SetInuseIs
<1> HIDE DEF k
<1>6. k[b] = head[b]
  <2>1. k[b] \in Tag /\ head[b] \in Tag
    BY <1>1, <1>4, <1>5, TypedTags DEF IsTagged
  <2>2. k[b].size = head[b].size /\ k[b].pinuse /\ k[b].nonMain = head[b].nonMain /\ k[b].prev = 0
    BY <1>1, <1>4, <1>5 DEF IsTagged
  <2> QED BY <2>1, <2>2, <1>1, SameTag
<1>7. DOMAIN k = DOMAIN head /\ \A x \in DOMAIN head : k[x] = head[x]
  BY <1>4, <1>5, <1>6 DEF IsTagged
<1>8. k = head
  <2>1. k = [x \in DOMAIN k |-> k[x]] /\ head = [x \in DOMAIN head |-> head[x]]
    BY <1>1, <1>5 DEF Typed
  <2> QED BY <2>1, <1>7
<1> QED BY <1>1, <1>8 DEF k, m

-----------------------------------------------------------------------------
(* What realloc makes of two chunks.                                       *)

\* The block at a grows to n units into the top chunk.
IntoTopHead(a, n) ==
  SetHead(SetHeadSize(Forget(head, {top}), a, n), a + n, Size(a) + Size(top) - n, TRUE, FALSE)
IsIntoTop(k, a, n) ==
  /\ MemorySound(k, a + n, heapSize, chain, Binned)
  /\ OrdinaryOf(k, a + n, OldEnds) = Ord
  /\ a + n \in Nat /\ DOMAIN k = (DOMAIN head \ {top}) \cup {a + n}
  /\ k[a].size = n /\ \A x \in DOMAIN head \ {a, top} : k[x] = head[x]

\* realloc into the top chunk.
LEMMA IntoTopSound ==
  ASSUME Mem, NEW a \in Ord, a \notin Binned, NextChunk(a) = top,
         NEW n \in Nat, n > Size(a), Size(a) + Size(top) - n >= MinSize
  PROVE  IsIntoTop(IntoTopHead(a, n), a, n)
<1> DEFINE f == Forget(head, {top})
           m == SetHeadSize(f, a, n)
           w == a + n
           k == IntoTopHead(a, n)
<1>1. /\ Typed(head) /\ a \in DOMAIN head /\ a \in Nat /\ a # top /\ Size(a) = head[a].size
      /\ head[a].size \in Nat /\ Behind(head, a) = top /\ top = a + head[a].size
  <2>1. Typed(head) /\ Behind(head, a) = top
    BY DEF Mem, MemorySound, NextChunk, Behind
  <2> QED BY <2>1, BehindUsed DEF Mem, Ord, Size
<1>2. /\ top \in DOMAIN head /\ Size(top) = head[top].size /\ head[top].size \in Nat
      /\ \A x \in DOMAIN head : x <= top \/ x >= top + head[top].size
  <2>1. top \in DOMAIN head /\ top \notin EndTags(heapSize, chain)
    BY Neighbours DEF Mem
  <2>2. \A x \in DOMAIN head : x <= top \/ x >= Behind(head, top)
    BY <2>1 DEF Mem, MemorySound, Tiled
  <2> QED BY <1>1, <2>1, <2>2, TypedTags DEF Size, Behind
<1>3. MinSize \in Nat /\ MinSize > 1
  BY Constants
<1>4. w \in Nat /\ w > top /\ w < top + head[top].size /\ w \notin DOMAIN head /\ w # a
      /\ Size(a) + Size(top) - n \in Nat
  <2>1. w \in Nat /\ w > top /\ w < top + head[top].size /\ w # a /\ Size(a) + Size(top) - n \in Nat
    BY <1>1, <1>2, <1>3
  <2> QED BY <2>1, <1>1, <1>2
<1>5. Typed(f) /\ DOMAIN f = DOMAIN head \ {top} /\ \A x \in DOMAIN head \ {top} : f[x] = head[x]
  <2>1. Typed(f) /\ IsForgotten(head, f, {top})
    BY <1>1, ForgetIs
  <2> QED BY <2>1 DEF IsForgotten
<1>6. k = SetHead(m, w, Size(a) + Size(top) - n, TRUE, FALSE)
  BY DEF IntoTopHead
<1> HIDE DEF f, w, k
<1>7. a \in DOMAIN f /\ f[a] = head[a]
  BY <1>1, <1>5
<1>8. Typed(m) /\ IsTagged(f, m, a, n, f[a].pinuse, TRUE, f[a].prev)
  BY <1>5, <1>7, SetHeadSizeIs
<1> HIDE DEF m
<1>9. /\ DOMAIN m = DOMAIN head \ {top} /\ m[a].size = n /\ m[a].pinuse = head[a].pinuse
      /\ m[a].nonMain /\ m[a].prev = head[a].prev /\ \A x \in DOMAIN head \ {a, top} : m[x] = head[x]
  BY <1>5, <1>7, <1>8 DEF IsTagged
<1>10. Typed(k) /\ IsHead(m, k, w, Size(a) + Size(top) - n, TRUE, FALSE)
  BY <1>4, <1>6, <1>8, SetHeadIs
<1>11. /\ DOMAIN k = (DOMAIN head \ {top}) \cup {w}
       /\ k[w].size = head[a].size + head[top].size - n /\ k[w].pinuse /\ k[w].prev = 0
       /\ k[a] = m[a] /\ \A x \in DOMAIN head \ {a, top} : k[x] = head[x]
  BY <1>1, <1>2, <1>4, <1>9, <1>10 DEF IsHead
<1>12. IsTopMoved(head, k, top, a, n)
  BY <1>9, <1>11 DEF IsTopMoved, w
<1>13. /\ MemorySound(k, a + n, heapSize, chain, Binned)
       /\ OrdinaryOf(k, a + n, EndTags(heapSize, chain)) = OrdinaryOf(head, top, EndTags(heapSize, chain))
  <2>1. MemorySound(head, top, heapSize, chain, Binned) /\ a \in OrdinaryOf(head, top, EndTags(heapSize, chain))
    BY DEF Mem, Ord
  <2>2. n > head[a].size /\ head[a].size + head[top].size - n >= MinSize /\ n \in Nat
    BY <1>1, <1>2
  <2>3. Behind(head, a) = top /\ a \notin Binned
    BY <1>1
  <2> QED BY ONLY <2>1, <2>2, <2>3, <1>10, <1>12, TopMovedSound
<1>14. w \in Nat /\ k[a].size = n
  BY <1>4, <1>9, <1>11
<1> QED BY <1>11, <1>13, <1>14 DEF IsIntoTop, Ord, OldEnds, w, k

\* The chunk malloc found is the next one: the two are joined, the rest split off.
IsJoined(k, a, nx, n, total) ==
  /\ MemorySound(k, top, heapSize, chain, Binned)
  /\ OrdinaryOf(k, top, OldEnds) = (Ord \ {nx}) \cup {a + n}
  /\ a + n \notin DOMAIN head \ {nx} /\ a + n \in Nat
  /\ DOMAIN k = (DOMAIN head \ {nx}) \cup {a + n}
  /\ k[a].size = n /\ k[a + n].size = total - n
  /\ \A x \in DOMAIN head \ {a, nx} : k[x].size = head[x].size

\* realloc into the chunk that malloc found right behind the block.
LEMMA JoinedSound ==
  ASSUME Mem, NEW a \in Ord, a \notin Binned, NEW nx \in Ord, nx \notin Binned, nx = NextChunk(a),
         NEW n \in Nat, n >= MinSize, n > Size(a), Size(nx) >= n
  PROVE  IsJoined(SplitHead(Forget(head, {nx}), a, n, Size(a) + Size(nx)), a, nx, n, Size(a) + Size(nx))
<1> DEFINE b == Behind(head, nx)
           f == Forget(head, {nx})
           w == a + n
           total == Size(a) + Size(nx)
           k == SplitHead(f, a, n, total)
<1>1. /\ Typed(head) /\ a \in DOMAIN head /\ a \in Nat /\ a # top /\ Size(a) = head[a].size
      /\ head[a].size \in Nat /\ Behind(head, a) = nx /\ nx = a + head[a].size /\ nx # a
      /\ head[a].size >= MinSize
  <2>1. Typed(head) /\ Behind(head, a) = nx
    BY DEF Mem, MemorySound, NextChunk, Behind
  <2> QED BY <2>1, BehindUsed DEF Mem, Ord, Size
<1>2. /\ nx \in DOMAIN head /\ nx \in Nat /\ nx # top /\ Size(nx) = head[nx].size
      /\ head[nx].size \in Nat /\ b \in DOMAIN head /\ b # nx /\ b = nx + head[nx].size
      /\ head[b].pinuse /\ head[b].prev = 0
      /\ \A i \in Nat : 0 < i /\ i < head[nx].size => nx + i \notin DOMAIN head
  BY BehindUsed DEF Mem, Ord, Size
<1>3. MinSize \in Nat /\ MinSize > 1
  BY Constants
<1>4. /\ total \in Nat /\ 0 < n /\ n < total /\ a + total = b /\ w \in Nat /\ w # a
      /\ total - n >= MinSize /\ b # a /\ w # nx
  BY <1>1, <1>2, <1>3
<1>5. w \notin DOMAIN head /\ w # b
  <2>1. (n - head[a].size) \in Nat /\ 0 < n - head[a].size /\ n - head[a].size < head[nx].size
        /\ w = nx + (n - head[a].size)
    BY <1>1, <1>2, <1>3
  <2>2. w \notin DOMAIN head
    BY <2>1, <1>2
  <2> QED BY <2>2, <1>2
<1>6. Typed(f) /\ DOMAIN f = DOMAIN head \ {nx} /\ \A x \in DOMAIN head \ {nx} : f[x] = head[x]
  <2>1. Typed(f) /\ IsForgotten(head, f, {nx})
    BY <1>1, ForgetIs
  <2> QED BY <2>1 DEF IsForgotten
<1>7. total = head[a].size + head[nx].size
  BY <1>1, <1>2
<1> HIDE DEF f, b, total
<1>8. Typed(k) /\ IsSplitHead(f, k, a, w, b, n, total)
  <2>1. a \in DOMAIN f /\ w \notin DOMAIN f /\ b \in DOMAIN f
    BY <1>1, <1>2, <1>4, <1>5, <1>6
  <2>2. Typed(SplitHead(f, a, n, total)) /\ IsSplitHead(f, SplitHead(f, a, n, total), a, a + n, a + total, n, total)
    BY <2>1, <1>4, <1>6, SplitOldIs
  <2> QED BY <2>2, <1>4
<1> HIDE DEF w, k
<1>9. f[a] = head[a] /\ f[b] = head[b] /\ a \in DOMAIN f /\ b \in DOMAIN f
  BY <1>1, <1>2, <1>4, <1>6
<1>10. /\ DOMAIN k = (DOMAIN head \ {nx}) \cup {w}
       /\ k[a].size = n /\ k[a].pinuse = head[a].pinuse /\ k[a].nonMain /\ k[a].prev = head[a].prev
       /\ k[w].size = total - n /\ k[w].pinuse /\ k[w].nonMain /\ k[w].prev = 0
       /\ k[b].size = head[b].size /\ k[b].pinuse /\ k[b].nonMain = head[b].nonMain /\ k[b].prev = 0
       /\ \A x \in DOMAIN f \ {a, b} : k[x] = f[x]
  <2>1. /\ DOMAIN k = DOMAIN f \cup {w}
        /\ k[a].size = n /\ k[a].pinuse = f[a].pinuse /\ k[a].nonMain /\ k[a].prev = f[a].prev
        /\ k[w].size = total - n /\ k[w].pinuse /\ k[w].nonMain /\ k[w].prev = 0
        /\ k[b].size = f[b].size /\ k[b].pinuse /\ k[b].nonMain = f[b].nonMain /\ k[b].prev = 0
        /\ \A x \in DOMAIN f \ {a, b} : k[x] = f[x]
    BY <1>8 DEF IsSplitHead
  <2> QED BY <2>1, <1>6, <1>9
<1>11. k[b] = head[b]
  <2>1. b \in DOMAIN k
    BY <1>6, <1>9, <1>10
  <2>2. k[b] \in Tag /\ head[b] \in Tag
    BY <2>1, <1>1, <1>2, <1>8, TypedTags
  <2> QED BY <2>2, <1>2, <1>10, SameTag
<1>12. \A x \in DOMAIN head \ {a, nx} : k[x] = head[x]
  BY <1>6, <1>10, <1>11
<1>13. IsGrownIn(head, k, a, nx, n, total)
  BY <1>4, <1>7, <1>10, <1>12 DEF IsGrownIn, w
<1>14. /\ MemorySound(k, top, heapSize, chain, Binned)
       /\ OrdinaryOf(k, top, EndTags(heapSize, chain)) = (OrdinaryOf(head, top, EndTags(heapSize, chain)) \ {nx}) \cup {a + n}
  <2>1. MemorySound(head, top, heapSize, chain, Binned) /\ a \in OrdinaryOf(head, top, EndTags(heapSize, chain))
        /\ nx \in OrdinaryOf(head, top, EndTags(heapSize, chain))
    BY DEF Mem, Ord
  <2>2. nx = Behind(head, a) /\ a \notin Binned /\ nx \notin Binned
    BY <1>1
  <2> QED BY ONLY <2>1, <2>2, <1>8, <1>13, FusedSplitIs
<1> QED BY <1>4, <1>5, <1>10, <1>12, <1>14 DEF IsJoined, Ord, OldEnds, w, k, f, total

-----------------------------------------------------------------------------
(* _int_free.                                                              *)

\* There is a memory in which the free chunk v has been taken.
LEMMA TakenExists ==
  ASSUME NEW h, NEW t, NEW hs, NEW ch, NEW G, MemorySound(h, t, hs, ch, G), NEW v \in G
  PROVE  \E k : Typed(k) /\ IsTaken(h, k, v)
<1> DEFINE b == Behind(h, v)
           r1 == [size |-> h[v].size, pinuse |-> h[v].pinuse, nonMain |-> TRUE, prev |-> h[v].prev]
           r2 == [size |-> h[b].size, pinuse |-> TRUE, nonMain |-> h[b].nonMain, prev |-> 0]
           m == Changed(h, v, r1)
           k == Changed(m, b, r2)
<1>1. Typed(h)
  BY DEF MemorySound
<1>2. v \in DOMAIN h /\ b \in DOMAIN h /\ b # v
  <2>1. v \in DOMAIN h /\ b \in DOMAIN h /\ b > v
    BY Neighbours DEF OrdinaryOf
  <2> QED BY <2>1, <1>1, TypedTags
<1> HIDE DEF b
<1>3. r1 \in Tag /\ r2 \in Tag
  BY <1>1, <1>2, TypedTags DEF Tag
<1>4. /\ r1.size = h[v].size /\ r1.pinuse = h[v].pinuse /\ r1.nonMain /\ r1.prev = h[v].prev
      /\ r2.size = h[b].size /\ r2.pinuse /\ r2.nonMain = h[b].nonMain /\ r2.prev = 0
  OBVIOUS
<1> HIDE DEF r1, r2
<1>5. Typed(m) /\ DOMAIN m = DOMAIN h /\ m[v] = r1 /\ \A x \in DOMAIN h \ {v} : m[x] = h[x]
  BY <1>1, <1>2, <1>3, TagChanged
<1> HIDE DEF m
<1>6. Typed(k) /\ DOMAIN k = DOMAIN h /\ k[b] = r2 /\ \A x \in DOMAIN h \ {b} : k[x] = m[x]
  BY <1>2, <1>3, <1>5, TagChanged
<1> HIDE DEF k
<1>7. IsTaken(h, k, v)
  BY <1>2, <1>4, <1>5, <1>6 DEF IsTaken, b
<1> QED BY <1>6, <1>7

\* There is a memory in which the chunk behind a has been made part of it.
LEMMA FusedExists ==
  ASSUME NEW h, Typed(h), NEW a \in DOMAIN h, Behind(h, a) \in DOMAIN h, Behind(h, a) # a
  PROVE  \E k : Typed(k) /\ IsJoin(h, k, a) /\ k[a].pinuse = h[a].pinuse /\ k[a].prev = h[a].prev
                /\ k[a].nonMain /\ \A x \in DOMAIN h \ {a, Behind(h, a)} : k[x] = h[x]
<1> DEFINE b == Behind(h, a)
           f == Forget(h, {b})
           r == [size |-> h[a].size + h[b].size, pinuse |-> h[a].pinuse, nonMain |-> TRUE, prev |-> h[a].prev]
           k == Changed(f, a, r)
<1>1. Typed(f) /\ DOMAIN f = DOMAIN h \ {b} /\ \A x \in DOMAIN h \ {b} : f[x] = h[x]
  <2>1. Typed(f) /\ IsForgotten(h, f, {b})
    BY ForgetIs
  <2> QED BY <2>1 DEF IsForgotten
<1>2. r \in Tag /\ r.size = h[a].size + h[b].size /\ r.pinuse = h[a].pinuse /\ r.nonMain /\ r.prev = h[a].prev
  BY TypedTags DEF Tag
<1> HIDE DEF f, r, b
<1>3. a \in DOMAIN f
  BY <1>1 DEF b
<1>4. Typed(k) /\ DOMAIN k = DOMAIN f /\ k[a] = r /\ \A x \in DOMAIN f \ {a} : k[x] = f[x]
  <2>1. Typed(f) /\ r \in Tag
    BY <1>1, <1>2
  <2> QED BY ONLY <2>1, <1>3, TagChanged DEF k
<1> HIDE DEF k
<1>5. /\ DOMAIN k = DOMAIN h \ {b} /\ k[a].size = h[a].size + h[b].size
      /\ k[a].pinuse = h[a].pinuse /\ k[a].prev = h[a].prev /\ k[a].nonMain
      /\ \A x \in DOMAIN h \ {a, b} : k[x] = h[x]
  BY <1>1, <1>2, <1>4
<1>6. IsJoin(h, k, a)
  BY <1>5 DEF IsJoin, b
<1> QED BY <1>4, <1>5, <1>6 DEF b

\* Chunk a, merged with the free chunk in front of it if there is one.
IsBackward(h, k, t, hs, ch, G, a, s) ==
  /\ MemorySound(k, t, hs, ch, G \ {s})
  /\ OrdinaryOf(k, t, EndTags(hs, ch)) = OrdinaryOf(h, t, EndTags(hs, ch)) \ ({a} \ {s})
  /\ s \in OrdinaryOf(k, t, EndTags(hs, ch)) /\ s \in G \cup {a}
  /\ DOMAIN k = DOMAIN h \ ({a} \ {s})
  /\ s <= a /\ k[s].size = h[a].size + (a - s) /\ Behind(k, s) = Behind(h, a)
  /\ k[s].pinuse /\ k[s].prev = 0 /\ h[s].prev = 0
  /\ \A x \in DOMAIN k \ {s} : k[x] = h[x]

\* _int_free merges backward: the chunk in front leaves its bin.
LEMMA BackwardSound ==
  ASSUME NEW h, NEW t, NEW hs, NEW ch, NEW G, MemorySound(h, t, hs, ch, G),
         NEW a \in OrdinaryOf(h, t, EndTags(hs, ch)), a \notin G,
         NEW s, s = IF h[a].pinuse THEN a ELSE a - h[a].prev
  PROVE  \E k : Typed(k) /\ IsBackward(h, k, t, hs, ch, G, a, s)
<1> DEFINE E == EndTags(hs, ch)
<1>1. /\ Typed(h) /\ a \in DOMAIN h /\ a \in Nat /\ a # t /\ a \notin E /\ h[a].size \in Nat
      /\ Behind(h, a) = a + h[a].size
  <2>1. a \in DOMAIN h \ (E \cup {t})
    BY DEF OrdinaryOf
  <2> QED BY <2>1, BehindUsed DEF MemorySound
<1>2. CASE h[a].pinuse
  <2>1. s = a /\ h[a].prev = 0 /\ G \ {s} = G
    BY <1>1, <1>2 DEF MemorySound, FootersSound
  <2>2. IsBackward(h, h, t, hs, ch, G, a, s)
    <3>1. {a} \ {a} = {} /\ G \ {a} = G /\ a - a = 0 /\ h[a].size + 0 = h[a].size /\ a <= a
      BY <1>1
    <3>2. /\ DOMAIN h \ {} = DOMAIN h /\ OrdinaryOf(h, t, E) \ {} = OrdinaryOf(h, t, E)
      OBVIOUS
    <3>3. IsBackward(h, h, t, hs, ch, G, a, a)
      BY <3>1, <3>2, <1>2, <2>1 DEF IsBackward
    <3> QED BY <3>3, <2>1
  <2> QED BY <1>1, <2>2
<1>3. CASE ~h[a].pinuse
  <2>1. s = a - h[a].prev /\ s \in G /\ h[s].size = h[a].prev /\ Behind(h, s) = a
    <3>1. s \in G /\ h[s].size = h[a].prev
      BY <1>1, <1>3 DEF MemorySound, FootersSound
    <3> QED BY <1>1, <1>3, <3>1, Neighbours
  <2>2. s \in OrdinaryOf(h, t, E) /\ s \in DOMAIN h /\ s \in Nat /\ s # t /\ s < a /\ h[s].pinuse /\ h[s].prev = 0
        /\ h[s].size \in Nat /\ a = s + h[s].size /\ s \notin E
    <3>1. s \in OrdinaryOf(h, t, E) /\ s \in DOMAIN h \ (E \cup {t}) /\ a > s
      BY <2>1, Neighbours DEF OrdinaryOf
    <3>2. h[s].pinuse
      BY <2>1 DEF MemorySound, FlagsSound
    <3>3. h[s].prev = 0
      BY <3>1, <3>2 DEF MemorySound, FootersSound
    <3> QED BY <3>1, <3>2, <3>3, <1>1, <2>1, TypedTags DEF Behind
  <2>3. PICK k1 : Typed(k1) /\ IsTaken(h, k1, s)
    BY <2>1, TakenExists
  <2>4. /\ DOMAIN k1 = DOMAIN h /\ \A x \in DOMAIN h : k1[x].size = h[x].size
        /\ k1[s].pinuse = h[s].pinuse /\ k1[s].prev = h[s].prev
        /\ \A x \in DOMAIN h \ {s, a} : k1[x] = h[x]
    BY <2>1, <2>3 DEF IsTaken
  <2>5. /\ MemorySound(k1, t, hs, ch, G \ {s})
        /\ OrdinaryOf(k1, t, E) = OrdinaryOf(h, t, E)
        /\ \A x \in DOMAIN h : Behind(k1, x) = Behind(h, x)
    <3>1. MemorySound(h, t, hs, ch, G) /\ s \in G
      BY <2>1
    <3> HIDE DEF E
    <3> QED BY ONLY <3>1, <2>3, TakenSound DEF E
  <2>6. Behind(k1, s) = a /\ Behind(k1, a) = Behind(h, a) /\ s # a
    BY <2>1, <2>2, <2>5, <1>1
  <2>7. PICK k : /\ Typed(k) /\ IsJoin(k1, k, s) /\ k[s].pinuse = k1[s].pinuse /\ k[s].prev = k1[s].prev
                 /\ k[s].nonMain /\ \A x \in DOMAIN k1 \ {s, Behind(k1, s)} : k[x] = k1[x]
    <3>1. s \in DOMAIN k1 /\ Behind(k1, s) \in DOMAIN k1 /\ Behind(k1, s) # s
      BY <2>2, <2>4, <2>6, <1>1
    <3> QED BY ONLY <3>1, <2>3, FusedExists, SMTT(30)
  <2>8. IsFused(k1, k, t, s)
    BY <2>7 DEF IsFused
  <2>9. /\ MemorySound(k, t, hs, ch, G \ {s})
        /\ OrdinaryOf(k, t, E) = OrdinaryOf(k1, t, E) \ {a}
        /\ Behind(k, s) = Behind(k1, a)
    <3>1. s \in OrdinaryOf(k1, t, E) /\ s \notin G \ {s} /\ a \in OrdinaryOf(k1, t, E) /\ a \notin G \ {s} /\ a # t
      BY <2>2, <2>5, <1>1
    <3>2. t = IF Behind(k1, s) = t THEN s ELSE t
      BY <2>6, <1>1
    <3> HIDE DEF E
    <3>3. /\ MemorySound(k, t, hs, ch, G \ {s})
          /\ OrdinaryOf(k, t, E) = OrdinaryOf(k1, t, E) \ {IF Behind(k1, s) = t THEN s ELSE Behind(k1, s)}
          /\ Behind(k, s) = Behind(k1, Behind(k1, s))
      BY ONLY <3>1, <3>2, <2>5, <2>6, <2>7, <2>8, FusedSound DEF E
    <3> QED BY <3>1, <3>3, <2>6, SMTT(30)
  <2>10. /\ DOMAIN k = DOMAIN h \ {a} /\ k[s].size = h[s].size + h[a].size
         /\ k[s].pinuse /\ k[s].prev = 0 /\ \A x \in DOMAIN h \ {s, a} : k[x] = h[x]
    <3>1. /\ DOMAIN k = DOMAIN k1 \ {a} /\ k[s].size = k1[s].size + k1[a].size
          /\ \A x \in DOMAIN k1 \ {s, a} : k[x] = k1[x]
      BY <2>6, <2>7 DEF IsJoin
    <3>2. DOMAIN k = DOMAIN h \ {a}
      BY <3>1, <2>4, SMTT(30)
    <3>3. k[s].size = h[s].size + h[a].size /\ k[s].pinuse /\ k[s].prev = 0
      BY <3>1, <2>2, <2>4, <2>7, <1>1
    <3>4. \A x \in DOMAIN h \ {s, a} : k[x] = h[x]
      BY <3>1, <2>4
    <3> QED BY <3>2, <3>3, <3>4
  <2>11. {a} \ {s} = {a} /\ h[s].size = a - s
    <3>1. h[s].size = a - s
      BY ONLY <2>2, <1>1
    <3>2. {a} \ {s} = {a}
      BY <2>6, SMTT(30)
    <3> QED BY <3>1, <3>2
  <2>12. IsBackward(h, k, t, hs, ch, G, a, s)
    <3>1. OrdinaryOf(k, t, E) = OrdinaryOf(h, t, E) \ {a}
      BY <2>5, <2>9, SMTT(30)
    <3>2. s \in OrdinaryOf(k, t, E)
      BY <3>1, <2>2, <2>6
    <3>3. s <= a /\ k[s].size = h[a].size + (a - s) /\ Behind(k, s) = Behind(h, a)
      <4>1. Behind(k, s) = Behind(h, a)
        BY <2>6, <2>9
      <4>2. s <= a
        BY ONLY <2>2, <1>1
      <4>3. k[s].size = (a - s) + h[a].size
        BY <2>10, <2>11
      <4>4. a - s \in Nat /\ h[a].size \in Nat
        BY ONLY <2>2, <1>1
      <4> QED BY ONLY <4>1, <4>2, <4>3, <4>4
    <3>4. \A x \in DOMAIN k \ {s} : k[x] = h[x]
      BY <2>10
    <3> HIDE DEF E
    <3> QED BY <3>1, <3>2, <3>3, <3>4, <2>1, <2>2, <2>9, <2>10, <2>11 DEF IsBackward, E
  <2> QED BY <2>7, <2>12
<1> QED BY <1>2, <1>3

\* A chunk in use, merged with the free chunk behind it.
LEMMA ForwardSound ==
  ASSUME NEW h, NEW t, NEW hs, NEW ch, NEW G, MemorySound(h, t, hs, ch, G),
         NEW s \in OrdinaryOf(h, t, EndTags(hs, ch)), s \notin G,
         NEW nx \in G, nx = Behind(h, s), NEW b, b = Behind(h, nx)
  PROVE  /\ b \in DOMAIN h /\ b # t /\ b # s /\ b # nx /\ ~h[b].pinuse /\ h[b].prev = h[nx].size
         /\ \E k : /\ Typed(k) /\ IsGrown(h, k, s, nx, b)
                   /\ MemorySound(k, t, hs, ch, G \ {nx})
                   /\ OrdinaryOf(k, t, EndTags(hs, ch)) = OrdinaryOf(h, t, EndTags(hs, ch)) \ {nx}
                   /\ Behind(k, s) = b /\ Behind(k, b) = Behind(h, b) /\ k[Behind(k, b)].pinuse
<1> DEFINE E == EndTags(hs, ch)
<1>1. /\ Typed(h) /\ s \in DOMAIN h /\ s \in Nat /\ s # t /\ h[s].size \in Nat /\ nx = s + h[s].size
      /\ nx \in DOMAIN h /\ nx # s
  BY BehindUsed DEF MemorySound
<1>2. /\ nx \in OrdinaryOf(h, t, E) /\ nx # t /\ nx \notin E
      /\ b \in DOMAIN h /\ b # t /\ b \notin E /\ ~h[b].pinuse /\ h[b].prev = h[nx].size
      /\ h[Behind(h, b)].pinuse /\ Behind(h, b) \in DOMAIN h
  <2>1. /\ nx \in OrdinaryOf(h, t, E) /\ b \in DOMAIN h \ (E \cup {t}) /\ Behind(h, b) \in DOMAIN h
        /\ nx \in DOMAIN h \ (E \cup {t})
    BY Neighbours DEF OrdinaryOf
  <2>2. ~h[b].pinuse /\ h[b].prev = h[nx].size /\ h[Behind(h, b)].pinuse
    BY DEF MemorySound, FlagsSound
  <2> QED BY <2>1, <2>2
<1>3. b > nx /\ nx > s /\ b # s /\ b # nx /\ Behind(h, b) > b /\ b \in Nat /\ nx \in Nat /\ Behind(h, b) \in Nat
      /\ b = nx + h[nx].size /\ h[nx].size \in Nat
  <2>1. b > nx /\ nx > s /\ Behind(h, b) > b
    BY <1>1, <1>2, Neighbours
  <2> QED BY <2>1, <1>1, <1>2, TypedTags DEF Behind
<1>4. PICK k1 : Typed(k1) /\ IsTaken(h, k1, nx)
  BY TakenExists
<1>5. /\ DOMAIN k1 = DOMAIN h /\ \A x \in DOMAIN h : k1[x].size = h[x].size
      /\ k1[b].pinuse /\ k1[b].prev = 0 /\ k1[b].nonMain = h[b].nonMain
      /\ \A x \in DOMAIN h \ {nx, b} : k1[x] = h[x]
  BY <1>4 DEF IsTaken
<1>6. Behind(k1, s) = nx
  BY <1>1, <1>5 DEF Behind
<1>7. PICK k : /\ Typed(k) /\ IsJoin(k1, k, s) /\ k[s].pinuse = k1[s].pinuse /\ k[s].prev = k1[s].prev
               /\ k[s].nonMain /\ \A x \in DOMAIN k1 \ {s, Behind(k1, s)} : k[x] = k1[x]
  BY <1>1, <1>4, <1>5, <1>6, FusedExists
<1>8. /\ DOMAIN k = DOMAIN h \ {nx} /\ k[s].size = h[s].size + h[nx].size
      /\ k[s].pinuse = h[s].pinuse /\ k[s].prev = h[s].prev
      /\ k[b] = k1[b] /\ \A x \in DOMAIN h \ {s, nx, b} : k[x] = h[x]
  BY <1>1, <1>2, <1>3, <1>5, <1>6, <1>7 DEF IsJoin
<1>9. IsGrown(h, k, s, nx, b)
  BY <1>1, <1>2, <1>5, <1>7, <1>8 DEF IsGrown
<1>10. /\ MemorySound(k, t, hs, ch, G \ {nx})
       /\ OrdinaryOf(k, t, E) = OrdinaryOf(h, t, E) \ {nx}
  <2>1. s \in OrdinaryOf(h, t, E) /\ s \notin G /\ nx \in G /\ nx = Behind(h, s) /\ b = Behind(h, nx)
        /\ MemorySound(h, t, hs, ch, G)
    OBVIOUS
  <2> QED BY ONLY <2>1, <1>4, <1>7, <1>9, TakenFusedSound DEF E
<1>11. Behind(k, s) = b /\ Behind(k, b) = Behind(h, b)
  BY <1>1, <1>2, <1>3, <1>5, <1>8 DEF Behind
<1>12. k[Behind(k, b)].pinuse
  BY <1>2, <1>3, <1>8, <1>11
<1> QED BY <1>2, <1>3, <1>7, <1>9, <1>10, <1>11, <1>12

\* Chunk a and those around it that are free become one.
Gone(a)  == ({a} \cup IF Joins(a) THEN {NextChunk(a)} ELSE {}) \ {Start(a)}
Whole(a) == SetHead(Forget(head, Gone(a)), Start(a), Merged(a), TRUE, FALSE)
Released(a) ==
  IF AtTop(a) THEN Whole(a)
  ELSE SetFoot(IF Joins(a) THEN Whole(a) ELSE ClearInuse(Whole(a), NextChunk(a)), Start(a), Merged(a))

IsWhole(w, s, n, S) ==
  /\ Typed(w) /\ DOMAIN w = DOMAIN head \ S
  /\ w[s].size = n /\ w[s].pinuse /\ ~w[s].nonMain /\ w[s].prev = head[s].prev
  /\ \A x \in DOMAIN head \ (S \cup {s}) : w[x] = head[x]

\* The header of a merged chunk, and the headers that are gone.
LEMMA WholeIs ==
  ASSUME Typed(head), NEW s \in DOMAIN head, NEW S, s \notin S, NEW n \in Nat
  PROVE  IsWhole(SetHead(Forget(head, S), s, n, TRUE, FALSE), s, n, S)
<1> DEFINE f == Forget(head, S)
           w == SetHead(f, s, n, TRUE, FALSE)
<1>1. Typed(f) /\ DOMAIN f = DOMAIN head \ S /\ \A x \in DOMAIN head \ S : f[x] = head[x]
  <2>1. Typed(f) /\ IsForgotten(head, f, S)
    BY ForgetIs
  <2> QED BY <2>1 DEF IsForgotten
<1>2. s \in Nat
  BY TypedTags
<1> HIDE DEF f
<1>3. Typed(w) /\ IsHead(f, w, s, n, TRUE, FALSE)
  BY <1>1, <1>2, SetHeadIs
<1> HIDE DEF w
<1>4. /\ DOMAIN w = DOMAIN head \ S /\ w[s].size = n /\ w[s].pinuse /\ ~w[s].nonMain
      /\ w[s].prev = head[s].prev /\ \A x \in DOMAIN head \ (S \cup {s}) : w[x] = head[x]
  BY <1>1, <1>3 DEF IsHead
<1> QED BY <1>3, <1>4 DEF IsWhole, w, f

\* What is around chunk a.
LEMMA Around ==
  ASSUME Mem, NEW a \in Ord, a \notin Binned
  PROVE  /\ Typed(head) /\ a \in DOMAIN head /\ a \in Nat /\ a # top /\ head[a].size \in Nat
         /\ head[a].size > 0
         /\ NextChunk(a) = Behind(head, a) /\ NextChunk(a) \in DOMAIN head
         /\ NextChunk(a) = a + head[a].size /\ NextChunk(a) \in Nat
         /\ NextChunk(a) \notin OldEnds
         /\ head[NextChunk(a)].size \in Nat
         /\ ~AtTop(a) =>
              /\ Behind(head, NextChunk(a)) \in DOMAIN head /\ Behind(head, NextChunk(a)) > NextChunk(a)
              /\ (Joins(a) <=> NextChunk(a) \in Binned)
              /\ ~Joins(a) => head[Behind(head, NextChunk(a))].pinuse
<1> DEFINE nx == NextChunk(a)
           E == EndTags(heapSize, chain)
<1>1. nx = Behind(head, a)
  BY DEF NextChunk, Behind
<1>2. /\ Typed(head) /\ a \in DOMAIN head /\ a \in Nat /\ a # top /\ head[a].size \in Nat
      /\ nx \in DOMAIN head /\ nx = a + head[a].size /\ head[a].size >= MinSize
  <2>1. Typed(head)
    BY DEF Mem, MemorySound
  <2> QED BY <2>1, <1>1, BehindUsed DEF Mem, Ord
<1>3. nx \notin E /\ nx \in Nat /\ head[nx].size \in Nat /\ head[a].size > 0
  <2>1. nx \notin E
    BY <1>1 DEF Ord, OrdinaryOf
  <2>2. MinSize \in Nat /\ MinSize > 1
    BY Constants
  <2> QED BY <2>1, <2>2, <1>2, TypedTags
<1> HIDE DEF nx
<1>4. ASSUME ~AtTop(a)
      PROVE  /\ Behind(head, nx) \in DOMAIN head /\ Behind(head, nx) > nx
             /\ (Joins(a) <=> nx \in Binned)
             /\ ~Joins(a) => head[Behind(head, nx)].pinuse
  <2>1. nx # top /\ nx \in DOMAIN head \ (E \cup {top})
    BY <1>2, <1>3, <1>4 DEF AtTop, nx
  <2>2. Behind(head, nx) \in DOMAIN head /\ Behind(head, nx) > nx
    BY <2>1, Neighbours DEF Mem
  <2>3. Inuse(nx) <=> head[Behind(head, nx)].pinuse
    BY DEF Inuse, NextChunk, Behind
  <2>4. Joins(a) <=> ~head[Behind(head, nx)].pinuse
    BY <2>3, <1>4 DEF Joins, nx
  <2>5. nx \in Binned => ~head[Behind(head, nx)].pinuse
    BY DEF Mem, MemorySound, FlagsSound
  <2>6. nx \notin Binned => head[Behind(head, nx)].pinuse
    BY <2>1, Neighbours DEF Mem
  <2> QED BY <2>2, <2>4, <2>5, <2>6
<1> QED BY <1>1, <1>2, <1>3, <1>4 DEF nx, OldEnds

IsReleased(k, a) ==
  LET s  == Start(a)
      nx == NextChunk(a)
      u  == IF AtTop(a) THEN s ELSE top
  IN /\ MemorySound(k, u, heapSize, chain, IF AtTop(a) THEN Binned \ {s} ELSE (Binned \ {nx}) \cup {s})
     /\ OrdinaryOf(k, u, OldEnds)
          = IF AtTop(a) THEN Ord \ {a, s} ELSE (IF Joins(a) THEN Ord \ {a, nx} ELSE Ord \ {a}) \cup {s}
     /\ s \in Binned \cup {a} /\ s \in Nat /\ nx # s /\ nx # a
     /\ ~AtTop(a) => (Joins(a) <=> nx \in Binned)
     /\ \A x \in DOMAIN k \ {s} : x \in DOMAIN head /\ k[x].size = head[x].size

\* The chunk ends up in the top chunk.
LEMMA ReleasedTop ==
  ASSUME Mem, NEW a \in Ord, a \notin Binned, AtTop(a)
  PROVE  IsReleased(Released(a), a)
<1> DEFINE s == Start(a)
           E == EndTags(heapSize, chain)
           O == OrdinaryOf(head, top, E)
           w == Whole(a)
<1>1. /\ Typed(head) /\ a \in DOMAIN head /\ a \in Nat /\ a # top /\ head[a].size \in Nat
      /\ NextChunk(a) = top /\ Behind(head, a) = top /\ top = a + head[a].size /\ top \in DOMAIN head
      /\ top \in Nat /\ head[top].size \in Nat /\ head[a].size > 0
  BY Around DEF AtTop
<1>2. PICK h2 : Typed(h2) /\ IsBackward(head, h2, top, heapSize, chain, Binned, a, s)
  BY BackwardSound DEF Mem, Ord, Start
<1>3. /\ MemorySound(h2, top, heapSize, chain, Binned \ {s})
      /\ OrdinaryOf(h2, top, E) = O \ ({a} \ {s})
      /\ s \in OrdinaryOf(h2, top, E) /\ s \in Binned \cup {a}
      /\ DOMAIN h2 = DOMAIN head \ ({a} \ {s})
      /\ s <= a /\ h2[s].size = head[a].size + (a - s) /\ Behind(h2, s) = top
      /\ h2[s].pinuse /\ h2[s].prev = 0 /\ head[s].prev = 0
      /\ \A x \in DOMAIN h2 \ {s} : h2[x] = head[x]
  BY <1>1, <1>2 DEF IsBackward
<1>4. s \in DOMAIN head /\ s # top /\ s \in Nat /\ s \in O
  <2>1. s \in O /\ s \in DOMAIN head /\ s # top
    BY <1>3 DEF OrdinaryOf
  <2> QED BY <2>1, <1>1, TypedTags
<1> HIDE DEF s
<1>5. Gone(a) = {a, top} \ {s} /\ Merged(a) = (top - s) + head[top].size /\ (top - s) + head[top].size \in Nat
  <2>1. Joins(a)
    BY DEF Joins
  <2>2. Gone(a) = {a, top} \ {s} /\ Merged(a) = (top - s) + head[top].size
    BY <2>1, <1>1 DEF Gone, Merged, Size, s
  <2> QED BY <2>2, <1>1, <1>3, <1>4
<1>6. IsWhole(w, s, Merged(a), Gone(a))
  BY <1>1, <1>4, <1>5, WholeIs DEF Whole, s
<1> HIDE DEF w
<1>7. /\ Typed(w) /\ DOMAIN w = DOMAIN head \ ({a, top} \ {s})
      /\ w[s].size = (top - s) + head[top].size /\ w[s].pinuse /\ w[s].prev = 0
      /\ \A x \in DOMAIN head \ {a, top, s} : w[x] = head[x]
  BY <1>3, <1>5, <1>6 DEF IsWhole
<1>8. IsFused(h2, w, top, s)
  <2>1. DOMAIN w = DOMAIN h2 \ {top}
    BY <1>3, <1>4, <1>7
  <2>2. top \in DOMAIN h2 \ {s} /\ h2[top] = head[top]
    BY <1>1, <1>3, <1>4
  <2>3. w[s].size = h2[s].size + h2[top].size
    <3>1. top - s = head[a].size + (a - s)
      BY ONLY <1>1, <1>4
    <3> QED BY ONLY <3>1, <2>2, <1>3, <1>7
  <2>4. \A x \in DOMAIN h2 \ {s, top} : w[x] = h2[x]
    BY <1>3, <1>7
  <2>5. IsJoin(h2, w, s)
    BY <2>1, <2>3, <2>4, <1>3 DEF IsJoin
  <2> QED BY <2>4, <2>5, <1>3, <1>7 DEF IsFused
<1>9. /\ MemorySound(w, s, heapSize, chain, Binned \ {s})
      /\ OrdinaryOf(w, s, E) = OrdinaryOf(h2, top, E) \ {s}
  <2>1. s \notin Binned \ {s} /\ Behind(h2, s) \notin Binned \ {s} /\ Behind(h2, s) = top /\ h2[s].pinuse
    <3>1. top \notin Binned
      BY Neighbours DEF Mem, OrdinaryOf
    <3> QED BY <3>1, <1>3
  <2>2. s = IF Behind(h2, s) = top THEN s ELSE top
    BY <2>1
  <2>3. MemorySound(h2, top, heapSize, chain, Binned \ {s}) /\ s \in OrdinaryOf(h2, top, E) /\ Typed(w)
    BY <1>3, <1>7
  <2>4. /\ MemorySound(w, s, heapSize, chain, Binned \ {s})
        /\ OrdinaryOf(w, s, E) = OrdinaryOf(h2, top, E) \ {IF Behind(h2, s) = top THEN s ELSE Behind(h2, s)}
    BY ONLY <2>1, <2>2, <2>3, <1>8, FusedSound DEF E
  <2> QED BY <2>1, <2>4
<1>10. OrdinaryOf(w, s, E) = O \ {a, s}
  BY <1>3, <1>9
<1>11. \A x \in DOMAIN w \ {s} : x \in DOMAIN head /\ w[x].size = head[x].size
  BY <1>7
<1>12. top # s /\ top # a /\ s \in Binned \cup {a}
  BY <1>1, <1>3, <1>4
<1>13. Released(a) = w
  BY DEF Released, w
<1> HIDE DEF E, O
<1> QED BY <1>1, <1>4, <1>9, <1>10, <1>11, <1>12, <1>13 DEF IsReleased, Ord, OldEnds, O, E, s

\* The chunk behind is in use.
LEMMA ReleasedAlone ==
  ASSUME Mem, NEW a \in Ord, a \notin Binned, ~AtTop(a), ~Joins(a)
  PROVE  IsReleased(Released(a), a)
<1> DEFINE s == Start(a)
           nx == NextChunk(a)
           E == EndTags(heapSize, chain)
           O == OrdinaryOf(head, top, E)
           w == Whole(a)
           m == ClearInuse(w, nx)
           k == Released(a)
<1>1. /\ Typed(head) /\ a \in DOMAIN head /\ a \in Nat /\ a # top /\ head[a].size \in Nat
      /\ Behind(head, a) = nx /\ nx = a + head[a].size /\ nx \in DOMAIN head
      /\ nx \in Nat /\ head[nx].size \in Nat /\ head[a].size > 0 /\ nx # top
      /\ nx \notin Binned /\ head[Behind(head, nx)].pinuse
      /\ Behind(head, nx) \in DOMAIN head /\ Behind(head, nx) > nx
  BY Around DEF AtTop
<1>2. PICK h2 : Typed(h2) /\ IsBackward(head, h2, top, heapSize, chain, Binned, a, s)
  BY BackwardSound DEF Mem, Ord, Start
<1>20. nx # a
  BY <1>1
<1> HIDE DEF nx
<1>3. /\ MemorySound(h2, top, heapSize, chain, Binned \ {s})
      /\ OrdinaryOf(h2, top, E) = O \ ({a} \ {s})
      /\ s \in OrdinaryOf(h2, top, E) /\ s \in Binned \cup {a}
      /\ DOMAIN h2 = DOMAIN head \ ({a} \ {s})
      /\ s <= a /\ h2[s].size = head[a].size + (a - s) /\ Behind(h2, s) = nx
      /\ h2[s].pinuse /\ h2[s].prev = 0 /\ head[s].prev = 0
      /\ \A x \in DOMAIN h2 \ {s} : h2[x] = head[x]
  BY <1>1, <1>2 DEF IsBackward
<1>4. s \in DOMAIN head /\ s # top /\ s \in Nat /\ s \in O
  <2>1. s \in O /\ s \in DOMAIN head /\ s # top
    BY <1>3 DEF OrdinaryOf
  <2> QED BY <2>1, <1>1, TypedTags
<1> HIDE DEF s
<1>5. /\ Gone(a) = {a} \ {s} /\ Merged(a) = nx - s /\ nx - s \in Nat /\ s + (nx - s) = nx
      /\ h2[s].size = nx - s /\ nx # s
  <2>1. Gone(a) = {a} \ {s} /\ Merged(a) = (nx - s) + 0
    BY DEF Gone, Merged, s, nx
  <2>2. nx - s \in Nat /\ s + (nx - s) = nx /\ h2[s].size = nx - s /\ nx # s /\ (nx - s) + 0 = nx - s
    BY ONLY <1>1, <1>3, <1>4
  <2> QED BY <2>1, <2>2
<1>6. IsWhole(w, s, nx - s, {a} \ {s})
  <2>1. IsWhole(w, s, Merged(a), Gone(a))
    BY <1>1, <1>4, <1>5, WholeIs DEF Whole, s
  <2> QED BY <2>1, <1>5
<1>7. k = SetFoot(m, s, nx - s)
  BY <1>5 DEF Released, s, nx
<1> HIDE DEF w, m, k
<1>8. /\ Typed(w) /\ DOMAIN w = DOMAIN head \ ({a} \ {s})
      /\ w[s].size = nx - s /\ w[s].pinuse /\ w[s].prev = 0 /\ ~w[s].nonMain
      /\ w[nx] = head[nx] /\ nx \in DOMAIN w
      /\ \A x \in DOMAIN head \ {a, s} : w[x] = head[x]
  BY <1>1, <1>20, <1>3, <1>5, <1>6 DEF IsWhole
<1>9. Typed(m) /\ IsTagged(w, m, nx, w[nx].size, FALSE, w[nx].nonMain, w[nx].prev)
  BY <1>8, ClearInuseIs DEF m
<1>10. Typed(k) /\ IsTagged(m, k, nx, m[nx].size, m[nx].pinuse, m[nx].nonMain, nx - s)
  <2>1. s + (nx - s) \in DOMAIN m
    BY <1>5, <1>8, <1>9 DEF IsTagged
  <2>2. Typed(SetFoot(m, s, nx - s)) /\ IsTagged(m, SetFoot(m, s, nx - s), s + (nx - s),
          m[s + (nx - s)].size, m[s + (nx - s)].pinuse, m[s + (nx - s)].nonMain, nx - s)
    BY <2>1, <1>5, <1>9, SetFootIs
  <2> QED BY <2>2, <1>5, <1>7
<1>11. /\ DOMAIN k = DOMAIN w
       /\ k[nx].size = head[nx].size /\ ~k[nx].pinuse /\ k[nx].nonMain = head[nx].nonMain /\ k[nx].prev = nx - s
       /\ \A x \in DOMAIN w \ {nx} : k[x] = w[x]
  BY <1>8, <1>9, <1>10 DEF IsTagged
<1>12. IsFreed(h2, k, s)
  <2>1. DOMAIN k = DOMAIN h2 /\ s \in DOMAIN h2 /\ nx \in DOMAIN h2
    BY <1>3, <1>4, <1>8, <1>11
  <2>2. k[s] = w[s] /\ h2[nx] = head[nx]
    BY <2>1, <1>3, <1>5, <1>8, <1>11
  <2>3. \A x \in DOMAIN h2 \ {s, nx} : k[x] = h2[x]
    BY <2>1, <1>3, <1>8, <1>11
  <2>4. \A x \in DOMAIN h2 : k[x].size = h2[x].size
    BY <2>2, <2>3, <1>5, <1>8, <1>11
  <2>5. ~k[nx].pinuse /\ k[nx].prev = h2[s].size /\ k[nx].nonMain = h2[nx].nonMain
    BY <2>2, <1>5, <1>11
  <2>6. k[s].pinuse = h2[s].pinuse /\ k[s].prev = h2[s].prev /\ ~k[s].nonMain
    <3>1. k[s].pinuse \in BOOLEAN /\ h2[s].pinuse \in BOOLEAN
      BY <2>1, <1>2, <1>10, TypedTags
    <3> QED BY <3>1, <2>2, <1>3, <1>8
  <2> QED BY ONLY <2>1, <2>3, <2>4, <2>5, <2>6, <1>3 DEF IsFreed
<1>13. /\ MemorySound(k, top, heapSize, chain, (Binned \ {s}) \cup {s})
       /\ OrdinaryOf(k, top, E) = OrdinaryOf(h2, top, E)
  <2>1. Behind(h2, nx) = Behind(head, nx) /\ h2[Behind(head, nx)] = head[Behind(head, nx)]
    <3>1. nx \in DOMAIN h2 \ {s} /\ Behind(head, nx) \in DOMAIN h2 \ {s}
      <4>1. Behind(head, nx) # s /\ Behind(head, nx) # a
        <5>1. Behind(head, nx) \in Nat
          BY <1>1, TypedTags
        <5>2. nx > a
          BY ONLY <1>1
        <5> QED BY ONLY <5>1, <5>2, <1>1, <1>3, <1>4
      <4> QED BY <4>1, <1>1, <1>20, <1>3, <1>5
    <3> QED BY <3>1, <1>3 DEF Behind
  <2>2. s \notin Binned \ {s} /\ Behind(h2, s) # top /\ h2[Behind(h2, Behind(h2, s))].pinuse
    BY <2>1, <1>1, <1>3
  <2>3. MemorySound(h2, top, heapSize, chain, Binned \ {s}) /\ s \in OrdinaryOf(h2, top, E) /\ h2[s].pinuse
    BY <1>3
  <2> QED BY ONLY <2>2, <2>3, <1>10, <1>12, FreedSound DEF E
<1>14. OrdinaryOf(k, top, E) = (O \ {a}) \cup {s}
  BY <1>3, <1>4, <1>13
<1>15. (Binned \ {s}) \cup {s} = (Binned \ {nx}) \cup {s}
  BY <1>1
<1>16. \A x \in DOMAIN k \ {s} : x \in DOMAIN head /\ k[x].size = head[x].size
  BY <1>8, <1>11
<1> HIDE DEF E, O
<1> QED BY <1>1, <1>20, <1>3, <1>4, <1>5, <1>13, <1>14, <1>15, <1>16 DEF IsReleased, Ord, OldEnds, O, E, s, nx, k

\* The chunk behind is free.
LEMMA ReleasedForward ==
  ASSUME Mem, NEW a \in Ord, a \notin Binned, ~AtTop(a), Joins(a)
  PROVE  IsReleased(Released(a), a)
<1> DEFINE s == Start(a)
           nx == NextChunk(a)
           b == Behind(head, nx)
           E == EndTags(heapSize, chain)
           O == OrdinaryOf(head, top, E)
           w == Whole(a)
           k == Released(a)
           M == b - s
<1>1. /\ Typed(head) /\ a \in DOMAIN head /\ a \in Nat /\ a # top /\ head[a].size \in Nat
      /\ Behind(head, a) = nx /\ nx = a + head[a].size /\ nx \in DOMAIN head
      /\ nx \in Nat /\ head[nx].size \in Nat /\ head[a].size > 0 /\ nx # top
      /\ nx \in Binned /\ b \in DOMAIN head /\ b > nx
  BY Around DEF AtTop
<1>2. PICK h2 : Typed(h2) /\ IsBackward(head, h2, top, heapSize, chain, Binned, a, s)
  BY BackwardSound DEF Mem, Ord, Start
<1>20. nx # a /\ b = nx + head[nx].size
  BY <1>1 DEF Behind
<1> HIDE DEF nx, b
<1>3. /\ MemorySound(h2, top, heapSize, chain, Binned \ {s})
      /\ OrdinaryOf(h2, top, E) = O \ ({a} \ {s})
      /\ s \in OrdinaryOf(h2, top, E) /\ s \in Binned \cup {a}
      /\ DOMAIN h2 = DOMAIN head \ ({a} \ {s})
      /\ s <= a /\ h2[s].size = head[a].size + (a - s) /\ Behind(h2, s) = nx
      /\ h2[s].pinuse /\ h2[s].prev = 0 /\ head[s].prev = 0
      /\ \A x \in DOMAIN h2 \ {s} : h2[x] = head[x]
  BY <1>1, <1>2 DEF IsBackward
<1>4. s \in DOMAIN head /\ s # top /\ s \in Nat /\ s \in O
  <2>1. s \in O /\ s \in DOMAIN head /\ s # top
    BY <1>3 DEF OrdinaryOf
  <2> QED BY <2>1, <1>1, TypedTags
<1> HIDE DEF s
<1>5. /\ M \in Nat /\ s + M = b /\ (nx - s) + head[nx].size = M /\ nx # s /\ b # s /\ b # a /\ b # nx
      /\ h2[s].size = nx - s
  BY ONLY <1>1, <1>20, <1>3, <1>4
<1> HIDE DEF M
<1>6. IsWhole(w, s, M, {a, nx} \ {s})
  <2>1. Gone(a) = {a, nx} \ {s} /\ Merged(a) = M
    BY <1>5 DEF Gone, Merged, Size, s, nx
  <2> QED BY <2>1, <1>1, <1>4, <1>5, WholeIs DEF Whole, s
<1>7. k = SetFoot(w, s, M)
  <2>1. Merged(a) = M
    BY <1>5 DEF Merged, Size, s, nx
  <2> QED BY <2>1 DEF Released, s, nx
<1> HIDE DEF w, k
<1>8. /\ Typed(w) /\ DOMAIN w = DOMAIN head \ ({a, nx} \ {s})
      /\ w[s].size = M /\ w[s].pinuse /\ w[s].prev = 0 /\ ~w[s].nonMain
      /\ w[b] = head[b] /\ b \in DOMAIN w
      /\ \A x \in DOMAIN head \ {a, nx, s} : w[x] = head[x]
  BY <1>1, <1>20, <1>3, <1>5, <1>6 DEF IsWhole
<1>9. Typed(k) /\ IsTagged(w, k, b, w[b].size, w[b].pinuse, w[b].nonMain, M)
  <2>1. s + M \in DOMAIN w
    BY <1>5, <1>8
  <2>2. Typed(SetFoot(w, s, M)) /\ IsTagged(w, SetFoot(w, s, M), s + M,
          w[s + M].size, w[s + M].pinuse, w[s + M].nonMain, M)
    BY <2>1, <1>5, <1>8, SetFootIs
  <2> QED BY <2>2, <1>5, <1>7
<1>10. /\ nx \in Binned \ {s} /\ nx \in DOMAIN h2 \ {s} /\ h2[nx] = head[nx] /\ Behind(h2, nx) = b
       /\ b \in DOMAIN h2 \ {s} /\ h2[b] = head[b]
  <2>1. nx \in DOMAIN h2 \ {s} /\ b \in DOMAIN h2 \ {s} /\ nx \in Binned \ {s}
    BY <1>1, <1>20, <1>3, <1>5
  <2>2. h2[nx] = head[nx] /\ h2[b] = head[b]
    BY <2>1, <1>3
  <2>3. Behind(h2, nx) = b
    BY <2>2 DEF Behind, b
  <2> QED BY <2>1, <2>2, <2>3
<1>11. /\ b # top /\ ~h2[b].pinuse /\ h2[b].prev = h2[nx].size
       /\ \E h3 : /\ Typed(h3) /\ IsGrown(h2, h3, s, nx, b)
                  /\ MemorySound(h3, top, heapSize, chain, (Binned \ {s}) \ {nx})
                  /\ OrdinaryOf(h3, top, E) = OrdinaryOf(h2, top, E) \ {nx}
                  /\ Behind(h3, s) = b /\ Behind(h3, b) = Behind(h2, b) /\ h3[Behind(h3, b)].pinuse
  <2>1. MemorySound(h2, top, heapSize, chain, Binned \ {s}) /\ s \in OrdinaryOf(h2, top, E) /\ s \notin Binned \ {s}
    BY <1>3
  <2>2. nx \in Binned \ {s} /\ nx = Behind(h2, s) /\ b = Behind(h2, nx)
    BY <1>3, <1>10
  <2> QED BY ONLY <2>1, <2>2, ForwardSound DEF E
<1>12. PICK h3 : /\ Typed(h3) /\ IsGrown(h2, h3, s, nx, b)
                 /\ MemorySound(h3, top, heapSize, chain, (Binned \ {s}) \ {nx})
                 /\ OrdinaryOf(h3, top, E) = OrdinaryOf(h2, top, E) \ {nx}
                 /\ Behind(h3, s) = b /\ h3[Behind(h3, b)].pinuse
  BY <1>11
<1>13. /\ DOMAIN h3 = DOMAIN h2 \ {nx} /\ h3[s].size = h2[s].size + h2[nx].size
       /\ h3[s].pinuse = h2[s].pinuse /\ h3[s].prev = h2[s].prev
       /\ h3[b].size = h2[b].size /\ h3[b].nonMain = h2[b].nonMain
       /\ \A x \in DOMAIN h2 \ {s, nx, b} : h3[x] = h2[x]
  BY <1>12 DEF IsGrown
<1>14. IsFreed(h3, k, s)
  <2>1. DOMAIN k = DOMAIN h3 /\ s \in DOMAIN h3 /\ b \in DOMAIN h3
    <3>1. DOMAIN k = DOMAIN w
      BY <1>9 DEF IsTagged
    <3>2. DOMAIN h3 = DOMAIN head \ ({a, nx} \ {s})
      BY <1>3, <1>4, <1>5, <1>13
    <3> QED BY <3>1, <3>2, <1>1, <1>4, <1>5, <1>8
  <2>2. k[s] = w[s] /\ k[s].size = h3[s].size
    <3>1. k[s] = w[s]
      BY <2>1, <1>5, <1>9 DEF IsTagged
    <3>2. h3[s].size = (nx - s) + head[nx].size
      BY ONLY <1>5, <1>10, <1>13
    <3> QED BY <3>1, <3>2, <1>5, <1>8
  <2>3. \A x \in DOMAIN h3 \ {s, b} : k[x] = h3[x]
    <3>1. \A x \in DOMAIN w \ {b} : k[x] = w[x]
      BY <1>9 DEF IsTagged
    <3>2. TAKE x \in DOMAIN h3 \ {s, b}
    <3>3. x \in DOMAIN h2 \ {s, nx, b} /\ x \in DOMAIN head \ {a, nx, s}
      BY <1>3, <1>13
    <3>4. x \in DOMAIN w \ {b}
      BY <3>3, <1>8
    <3> QED BY <3>1, <3>3, <3>4, <1>3, <1>8, <1>13
  <2>4. ~k[b].pinuse /\ k[b].prev = h3[s].size /\ k[b].nonMain = h3[b].nonMain /\ k[b].size = h3[b].size
    <3>1. k[b].size = w[b].size /\ k[b].pinuse = w[b].pinuse /\ k[b].nonMain = w[b].nonMain /\ k[b].prev = M
      BY <1>9 DEF IsTagged
    <3> QED BY <3>1, <2>2, <1>8, <1>10, <1>11, <1>13
  <2>5. \A x \in DOMAIN h3 : k[x].size = h3[x].size
    BY <2>2, <2>3, <2>4
  <2>6. k[s].pinuse = h3[s].pinuse /\ k[s].prev = h3[s].prev /\ ~k[s].nonMain
    <3>1. k[s].pinuse \in BOOLEAN /\ h3[s].pinuse \in BOOLEAN
      BY <2>1, <1>9, <1>12, TypedTags
    <3> QED BY <3>1, <2>2, <1>3, <1>8, <1>13
  <2> QED BY ONLY <2>1, <2>3, <2>4, <2>5, <2>6, <1>12 DEF IsFreed
<1>15. /\ MemorySound(k, top, heapSize, chain, ((Binned \ {s}) \ {nx}) \cup {s})
       /\ OrdinaryOf(k, top, E) = OrdinaryOf(h3, top, E)
  <2>1. s \in OrdinaryOf(h3, top, E) /\ s \notin (Binned \ {s}) \ {nx}
    BY <1>3, <1>5, <1>12
  <2>2. Behind(h3, s) # top /\ h3[Behind(h3, Behind(h3, s))].pinuse /\ h3[s].pinuse
    BY <1>3, <1>11, <1>12, <1>13
  <2>3. MemorySound(h3, top, heapSize, chain, (Binned \ {s}) \ {nx})
    BY <1>12
  <2> QED BY ONLY <2>1, <2>2, <2>3, <1>9, <1>14, FreedSound DEF E
<1>16. OrdinaryOf(k, top, E) = (O \ {a, nx}) \cup {s}
  BY <1>3, <1>4, <1>5, <1>12, <1>15
<1>17. ((Binned \ {s}) \ {nx}) \cup {s} = (Binned \ {nx}) \cup {s}
  BY <1>5
<1>18. \A x \in DOMAIN k \ {s} : x \in DOMAIN head /\ k[x].size = head[x].size
  <2>1. \A x \in DOMAIN k : k[x].size = w[x].size /\ x \in DOMAIN w
    BY <1>9 DEF IsTagged
  <2> QED BY <2>1, <1>8
<1> HIDE DEF E, O
<1> QED BY <1>1, <1>20, <1>3, <1>4, <1>5, <1>15, <1>16, <1>17, <1>18 DEF IsReleased, Ord, OldEnds, O, E, s, nx, k

\* What _int_free leaves.
LEMMA ReleasedSound ==
  ASSUME Mem, NEW a \in Ord, a \notin Binned
  PROVE  IsReleased(Released(a), a)
BY ReleasedTop, ReleasedAlone, ReleasedForward

-----------------------------------------------------------------------------
(* sYSMALLOc and heap_trim.                                                *)

\* The current heap grows or shrinks to m units, of which the top chunk has n.
IsResized(k, n, m) ==
  /\ MemorySound(k, top, [heapSize EXCEPT ![HeapOf(top)] = m], chain, Binned)
  /\ EndTags([heapSize EXCEPT ![HeapOf(top)] = m], chain) = OldEnds
  /\ OrdinaryOf(k, top, OldEnds) = Ord
  /\ HeapOf(top) = Current /\ k[top].size = n /\ \A x \in DOMAIN head \ {top} : k[x] = head[x]

\* grow_heap and heap_trim on the memory of the arena.
LEMMA ResizedSound ==
  ASSUME Mem, NEW n \in Nat, n >= MinSize,
         NEW m \in 1..HeapMax, InPages(m), top + n = Base(HeapOf(top)) + m
  PROVE  IsResized(SetHead(head, top, n, TRUE, FALSE), n, m)
<1> DEFINE k == SetHead(head, top, n, TRUE, FALSE)
<1>1. Typed(head) /\ top \in DOMAIN head /\ top \in Nat
  <2>1. Typed(head) /\ top \in DOMAIN head
    BY Neighbours DEF Mem, MemorySound
  <2> QED BY <2>1, TypedTags
<1>2. Typed(k) /\ IsHead(head, k, top, n, TRUE, FALSE)
  BY <1>1, SetHeadIs
<1> HIDE DEF k
<1>3. IsTopResized(head, k, top, n)
  BY <1>1, <1>2 DEF IsHead, IsTopResized
<1>4. /\ MemorySound(k, top, [heapSize EXCEPT ![HeapOf(top)] = m], chain, Binned)
      /\ EndTags([heapSize EXCEPT ![HeapOf(top)] = m], chain) = EndTags(heapSize, chain)
      /\ OrdinaryOf(k, top, EndTags(heapSize, chain)) = OrdinaryOf(head, top, EndTags(heapSize, chain))
      /\ HeapOf(top) = chain[Len(chain)]
  <2>1. MemorySound(head, top, heapSize, chain, Binned)
    BY DEF Mem
  <2> QED BY <2>1, <1>2, <1>3, TopResizedSound
<1>5. k[top].size = n /\ \A x \in DOMAIN head \ {top} : k[x] = head[x]
  BY <1>3 DEF IsTopResized
<1> QED BY <1>4, <1>5 DEF IsResized, Ord, OldEnds, Current, k

\* A new heap: the rest of the old top chunk, up to the fenceposts, stays in
\* use for _int_free, or becomes a fencepost itself when it is small.
Fresh(g, size)     == SetHead(head, Base(g) + HeapInfo, size - HeapInfo, TRUE, FALSE)
NewEnds(g, size)   == SetHead(Fresh(g, size), top + (Size(top) - MinSize) + 1, 0, TRUE, FALSE)
RetireLarge(g, size) ==
  LET rest == Size(top) - MinSize IN
  SetHead(SetFoot(SetHead(NewEnds(g, size), top + rest, 1, TRUE, FALSE), top + rest, 1),
          top, rest, TRUE, TRUE)
RetireSmall(g, size) ==
  LET rest == Size(top) - MinSize IN
  SetFoot(SetHead(NewEnds(g, size), top, rest + 1, TRUE, FALSE), top, rest + 1)

\* The header at the end of the old heap, and that of the new top chunk.
IsNewEnds(k, m, e, nt) ==
  /\ Typed(head) /\ top \in DOMAIN head /\ top \in Nat /\ Size(top) = head[top].size
  /\ head[top].size \in Nat /\ head[top].size >= MinSize /\ head[top].pinuse /\ head[top].prev = 0
  /\ MinSize \in Nat /\ MinSize > 1
  /\ e \in Nat /\ top < e /\ e = top + head[top].size - EndRoom /\ e < top + head[top].size
  /\ e \notin DOMAIN head /\ nt \notin DOMAIN head /\ nt # e /\ nt # top
  /\ e = EndOf(chain[Len(chain)], heapSize) - EndRoom
  /\ Typed(k) /\ DOMAIN k = DOMAIN head \cup {e, nt}
  /\ k[e].size = 0 /\ k[e].pinuse /\ k[e].prev = 0
  /\ k[nt].size = m - HeapInfo /\ k[nt].pinuse /\ k[nt].prev = 0
  /\ \A x \in DOMAIN head : k[x] = head[x]

\* The top chunk of a new heap and the last header of the old one.
LEMMA NewEndsIs ==
  ASSUME Mem, NEW g \in Heaps, heapSize[g] = 0, NEW m \in 1..HeapMax, m - HeapInfo >= MinSize
  PROVE  IsNewEnds(NewEnds(g, m), m, top + (Size(top) - MinSize) + 1, Base(g) + HeapInfo)
<1> DEFINE e == top + (Size(top) - MinSize) + 1
           nt == Base(g) + HeapInfo
           k == NewEnds(g, m)
<1>0. e = top + (Size(top) - MinSize) + 1 /\ nt = Base(g) + HeapInfo
  OBVIOUS
<1> HIDE DEF e, nt, k
<1>1. /\ MinSize \in Nat /\ MinSize > 1 /\ HeapInfo \in Nat /\ HeapInfo > 0 /\ HeapMax \in Nat
      /\ EndRoom = MinSize - 1 /\ g \in Nat /\ g >= 1
  BY Constants
<1>2. /\ Typed(head) /\ HeapsSound(heapSize, chain) /\ Tiled(head, top, heapSize, chain)
      /\ FootersSound(head, top, EndTags(heapSize, chain), Binned)
  BY DEF Mem, MemorySound
<1>3. /\ top \in DOMAIN head /\ top \notin EndTags(heapSize, chain) /\ head[top].pinuse /\ head[top].prev = 0
      /\ head[top].size >= MinSize /\ Behind(head, top) = EndOf(chain[Len(chain)], heapSize)
      /\ HeapOf(top) = chain[Len(chain)]
      /\ \A x \in DOMAIN head : x <= top \/ x >= Behind(head, top)
  BY <1>2, Neighbours DEF Mem, Tiled, FootersSound
<1>4. top \in Nat /\ head[top].size \in Nat /\ Size(top) = head[top].size /\ Behind(head, top) = top + head[top].size
  BY <1>2, <1>3, TypedTags DEF Size, Behind
<1>5. /\ e \in Nat /\ top < e /\ e = top + head[top].size - EndRoom /\ e < top + head[top].size
      /\ e = EndOf(chain[Len(chain)], heapSize) - EndRoom
  <2>1. e = top + (head[top].size - MinSize) + 1
    BY <1>0, <1>4
  <2>2. e \in Nat /\ top < e /\ e = top + head[top].size - EndRoom /\ e < top + head[top].size
    <3>1. head[top].size >= MinSize
      BY <1>3
    <3> QED BY ONLY <2>1, <3>1, <1>1, <1>4
  <2>3. EndOf(chain[Len(chain)], heapSize) = top + head[top].size
    BY <1>3, <1>4
  <2>4. e = EndOf(chain[Len(chain)], heapSize) - EndRoom
    BY ONLY <2>2, <2>3, <1>1, <1>4
  <2> QED BY <2>2, <2>4
<1>6. e \notin DOMAIN head
  BY <1>3, <1>4, <1>5
<1>7. nt \in Nat /\ HeapOf(nt) = g
  <2>1. Base(g) \in Nat
    BY <1>1, BaseIsNat
  <2>2. nt \in Nat /\ Base(g) <= nt /\ nt < Base(g) + HeapMax
    <3>1. m \in Nat /\ m <= HeapMax /\ m - HeapInfo >= MinSize
      BY <1>1
    <3> QED BY ONLY <3>1, <2>1, <1>0, <1>1
  <2> QED BY <2>2, <1>1, HeapIs
<1>8. nt \notin DOMAIN head /\ g # HeapOf(top)
  <2>1. g \notin Range(chain)
    BY <1>2 DEF HeapsSound
  <2>2. chain[Len(chain)] \in Range(chain)
    BY <1>2, HeapFacts
  <2> QED BY <2>1, <2>2, <1>2, <1>3, <1>7 DEF Tiled
<1>9. nt # e /\ nt # top
  <2>1. HeapOf(e) = HeapOf(top)
    BY <1>2, <1>3, <1>4, <1>5, InsideChunk
  <2> QED BY <2>1, <1>7, <1>8
<1> DEFINE f == Fresh(g, m)
<1>10. m - HeapInfo \in Nat
  BY <1>1
<1>11. Typed(f) /\ IsHead(head, f, nt, m - HeapInfo, TRUE, FALSE)
  BY <1>0, <1>2, <1>7, <1>10, SetHeadIs DEF Fresh
<1>12. k = SetHead(f, e, 0, TRUE, FALSE)
  BY <1>0 DEF NewEnds, k
<1> HIDE DEF f
<1>13. Typed(k) /\ IsHead(f, k, e, 0, TRUE, FALSE)
  <2>1. /\ IsHead(f, SetHead(f, e, 0, TRUE, FALSE), e, 0, TRUE, FALSE)
        /\ Typed(SetHead(f, e, 0, TRUE, FALSE))
    <3>1. 0 \in Nat /\ TRUE \in BOOLEAN /\ FALSE \in BOOLEAN /\ e \in Nat /\ Typed(f)
      BY <1>5, <1>11
    <3> QED BY ONLY <3>1, SetHeadIs
  <2> QED BY <2>1, <1>12
<1>14. /\ DOMAIN f = DOMAIN head \cup {nt} /\ f[nt].size = m - HeapInfo /\ f[nt].pinuse /\ f[nt].prev = 0
       /\ \A x \in DOMAIN head : f[x] = head[x]
  BY <1>8, <1>11 DEF IsHead
<1>15. /\ DOMAIN k = DOMAIN f \cup {e} /\ k[e].size = 0 /\ k[e].pinuse /\ k[e].prev = 0
       /\ \A x \in DOMAIN f : k[x] = f[x]
  BY <1>6, <1>9, <1>13, <1>14 DEF IsHead
<1>16. /\ DOMAIN k = DOMAIN head \cup {e, nt}
       /\ k[nt].size = m - HeapInfo /\ k[nt].pinuse /\ k[nt].prev = 0
       /\ \A x \in DOMAIN head : k[x] = head[x]
  BY <1>14, <1>15
<1> QED BY <1>1, <1>2, <1>3, <1>4, <1>5, <1>6, <1>8, <1>9, <1>13, <1>15, <1>16 DEF IsNewEnds, k, e, nt

IsNewHeap(k, g, m, S) ==
  /\ MemorySound(k, Base(g) + HeapInfo, [heapSize EXCEPT ![g] = m], Append(chain, g), Binned)
  /\ OrdinaryOf(k, Base(g) + HeapInfo, EndTags([heapSize EXCEPT ![g] = m], Append(chain, g))) = Ord \cup S
  /\ k[Base(g) + HeapInfo].size = m - HeapInfo
  /\ \A x \in DOMAIN head \ {top} : k[x] = head[x]

\* The rest is too small for a chunk.
LEMMA RetireSmallSound ==
  ASSUME Mem, NEW g \in Heaps, heapSize[g] = 0, NEW m \in 1..HeapMax, InPages(m), m - HeapInfo >= MinSize,
         Size(top) - MinSize < MinSize
  PROVE  IsNewHeap(RetireSmall(g, m), g, m, {})
<1> DEFINE e == top + (Size(top) - MinSize) + 1
           nt == Base(g) + HeapInfo
           f == NewEnds(g, m)
           r == Size(top) - MinSize + 1
           q == SetHead(f, top, r, TRUE, FALSE)
           k == RetireSmall(g, m)
<1>1. /\ Typed(head) /\ top \in DOMAIN head /\ top \in Nat /\ Size(top) = head[top].size
      /\ head[top].size \in Nat /\ head[top].size >= MinSize /\ head[top].pinuse /\ head[top].prev = 0
      /\ MinSize \in Nat /\ MinSize > 1
      /\ e \in Nat /\ top < e /\ e = top + head[top].size - EndRoom /\ e < top + head[top].size
      /\ e \notin DOMAIN head /\ nt \notin DOMAIN head /\ nt # e /\ nt # top
      /\ e = EndOf(chain[Len(chain)], heapSize) - EndRoom
      /\ Typed(f) /\ DOMAIN f = DOMAIN head \cup {e, nt}
      /\ f[e].size = 0 /\ f[e].pinuse /\ f[e].prev = 0
      /\ f[nt].size = m - HeapInfo /\ f[nt].pinuse /\ f[nt].prev = 0
      /\ \A x \in DOMAIN head : f[x] = head[x]
  <2>1. IsNewEnds(f, m, e, nt)
    BY NewEndsIs
  <2> HIDE DEF f, e, nt
  <2> QED BY <2>1 DEF IsNewEnds
<1>2. r \in Nat /\ top + r = e /\ e - top = r /\ e # top
  <2>1. top \in Nat /\ Size(top) \in Nat /\ Size(top) >= MinSize /\ MinSize \in Nat
    BY <1>1
  <2> QED BY ONLY <2>1
<1>3. Typed(q) /\ IsHead(f, q, top, r, TRUE, FALSE)
  BY <1>1, <1>2, SetHeadIs
<1>4. k = SetFoot(q, top, r)
  BY DEF RetireSmall
<1> HIDE DEF e, nt, f, r, q, k
<1>5. /\ DOMAIN q = DOMAIN head \cup {e, nt} /\ q[top].size = r /\ q[top].pinuse /\ q[top].prev = 0
      /\ q[e] = f[e] /\ q[nt] = f[nt] /\ \A x \in DOMAIN head \ {top} : q[x] = head[x]
  BY <1>1, <1>2, <1>3 DEF IsHead
<1>6. Typed(k) /\ IsTagged(q, k, e, q[e].size, q[e].pinuse, q[e].nonMain, r)
  <2>1. top + r \in DOMAIN q
    BY <1>2, <1>5
  <2>2. Typed(SetFoot(q, top, r)) /\ IsTagged(q, SetFoot(q, top, r), top + r,
          q[top + r].size, q[top + r].pinuse, q[top + r].nonMain, r)
    BY <2>1, <1>2, <1>3, SetFootIs
  <2> QED BY <2>2, <1>2, <1>4
<1>7. IsRetired(head, k, top, e, nt, m - HeapInfo)
  <2>1. /\ DOMAIN k = DOMAIN q /\ k[e].size = q[e].size /\ k[e].pinuse = q[e].pinuse /\ k[e].prev = r
        /\ \A x \in DOMAIN q \ {e} : k[x] = q[x]
    BY <1>6 DEF IsTagged
  <2>2. k[top] = q[top] /\ k[nt] = q[nt] /\ \A x \in DOMAIN head \ {top} : k[x] = head[x]
    BY <2>1, <1>1, <1>2, <1>5
  <2> QED BY <2>1, <2>2, <1>1, <1>2, <1>5 DEF IsRetired
<1>8. /\ MemorySound(k, nt, [heapSize EXCEPT ![g] = m], Append(chain, g), Binned)
      /\ OrdinaryOf(k, nt, EndTags([heapSize EXCEPT ![g] = m], Append(chain, g)))
           = OrdinaryOf(head, top, EndTags(heapSize, chain))
  <2>1. MemorySound(head, top, heapSize, chain, Binned) /\ head[top].size < 2 * MinSize
    <3>1. head[top].size < 2 * MinSize
      BY <1>1
    <3> QED BY <3>1 DEF Mem
  <2>2. nt = Base(g) + HeapInfo /\ e = EndOf(chain[Len(chain)], heapSize) - EndRoom
    BY <1>1 DEF nt
  <2>3. g \in Heaps /\ heapSize[g] = 0 /\ m \in 1..HeapMax /\ InPages(m) /\ m - HeapInfo >= MinSize
    OBVIOUS
  <2> QED BY ONLY <2>1, <2>2, <2>3, <1>6, <1>7, RetiredSound
<1>9. k[nt].size = m - HeapInfo /\ \A x \in DOMAIN head \ {top} : k[x] = head[x]
  BY <1>7 DEF IsRetired
<1> QED BY <1>8, <1>9 DEF IsNewHeap, Ord, nt, k

\* The rest is a chunk of its own.
LEMMA RetireLargeSound ==
  ASSUME Mem, NEW g \in Heaps, heapSize[g] = 0, NEW m \in 1..HeapMax, InPages(m), m - HeapInfo >= MinSize,
         Size(top) - MinSize >= MinSize
  PROVE  /\ IsNewHeap(RetireLarge(g, m), g, m, {top})
         /\ RetireLarge(g, m)[top].size = Size(top) - MinSize /\ RetireLarge(g, m)[top].pinuse
         /\ Behind(RetireLarge(g, m), top) + 1 = EndOf(chain[Len(chain)], heapSize) - EndRoom
         /\ RetireLarge(g, m)[EndOf(chain[Len(chain)], heapSize) - EndRoom].prev = 1
<1> DEFINE rest == Size(top) - MinSize
           e == top + rest + 1
           nt == Base(g) + HeapInfo
           w == top + rest
           f == NewEnds(g, m)
           q1 == SetHead(f, w, 1, TRUE, FALSE)
           q2 == SetFoot(q1, w, 1)
           k == RetireLarge(g, m)
           c == TopSplit(rest)
<1>1. /\ Typed(head) /\ top \in DOMAIN head /\ top \in Nat /\ Size(top) = head[top].size
      /\ head[top].size \in Nat /\ head[top].size >= MinSize /\ head[top].pinuse /\ head[top].prev = 0
      /\ MinSize \in Nat /\ MinSize > 1
      /\ e \in Nat /\ top < e /\ e = top + head[top].size - EndRoom /\ e < top + head[top].size
      /\ e \notin DOMAIN head /\ nt \notin DOMAIN head /\ nt # e /\ nt # top
      /\ e = EndOf(chain[Len(chain)], heapSize) - EndRoom
      /\ Typed(f) /\ DOMAIN f = DOMAIN head \cup {e, nt}
      /\ f[e].size = 0 /\ f[e].pinuse /\ f[e].prev = 0
      /\ f[nt].size = m - HeapInfo /\ f[nt].pinuse /\ f[nt].prev = 0
      /\ \A x \in DOMAIN head : f[x] = head[x]
  <2>1. IsNewEnds(f, m, e, nt)
    BY NewEndsIs
  <2> HIDE DEF f, e, nt
  <2> QED BY <2>1 DEF IsNewEnds
<1>2. rest \in Nat /\ rest >= MinSize /\ w \in Nat /\ w + 1 = e /\ e - w = 1 /\ w # top /\ w # e
      /\ Size(top) - rest = MinSize
  <2>1. e = top + rest + 1 /\ w = top + rest /\ rest = Size(top) - MinSize
    OBVIOUS
  <2>2. Size(top) - MinSize >= MinSize
    OBVIOUS
  <2>3. top \in Nat /\ Size(top) \in Nat /\ MinSize \in Nat /\ MinSize > 1
    BY <1>1
  <2> HIDE DEF e, w, rest
  <2>4. rest \in Nat /\ rest >= MinSize
    BY ONLY <2>1, <2>2, <2>3
  <2>5. w \in Nat /\ e \in Nat /\ w + 1 = e
    BY ONLY <2>1, <2>4, <2>3
  <2>6. Size(top) - rest = MinSize
    BY ONLY <2>1, <2>3
  <2>7. w # top
    BY ONLY <2>1, <2>4, <2>3
  <2> QED BY ONLY <2>4, <2>5, <2>6, <2>7
<1>3. IsCutOff(c, top, rest) /\ Typed(c)
  <2>1. IsCutOff(c, top, rest)
    <3>1. rest \in Nat /\ rest >= MinSize /\ Size(top) - rest >= MinSize
      BY <1>1, <1>2
    <3> HIDE DEF rest
    <3> QED BY <3>1, TopSplitSound
  <2> HIDE DEF c
  <2> QED BY <2>1 DEF IsCutOff, MemorySound
<1>4. /\ MemorySound(c, w, heapSize, chain, Binned) /\ OrdinaryOf(c, w, EndTags(heapSize, chain)) = Ord \cup {top}
      /\ w \notin DOMAIN head /\ DOMAIN c = DOMAIN head \cup {w}
      /\ c[top].size = rest /\ c[w].size = MinSize /\ \A x \in DOMAIN head \ {top} : c[x] = head[x]
  BY <1>2, <1>3 DEF IsCutOff, OldEnds
<1>5. c[top].pinuse /\ c[top].prev = 0 /\ c[top].nonMain
  <2> DEFINE m1 == SetHead(head, top, rest, TRUE, TRUE)
  <2>1. IsHead(head, m1, top, rest, TRUE, TRUE)
    BY SetHeadIs
  <2>2. IsHead(m1, c, w, Size(top) - rest, TRUE, FALSE)
    BY SetHeadIs DEF TopSplit
  <2> HIDE DEF m1, c, w, rest
  <2> QED BY <2>1, <2>2, <1>1, <1>2 DEF IsHead
<1>6. k = SetHead(q2, top, rest, TRUE, TRUE)
  BY DEF RetireLarge
<1> HIDE DEF e, nt, f, c, rest, w, q1, q2, k
<1>7. Typed(q1) /\ IsHead(f, q1, w, 1, TRUE, FALSE)
  <2>1. 1 \in Nat
    OBVIOUS
  <2> QED BY <2>1, <1>1, <1>2, SetHeadIs DEF q1
<1>70. w # nt
  <2>1. Typed(c) /\ Tiled(c, w, heapSize, chain) /\ HeapsSound(heapSize, chain)
    BY <1>4 DEF MemorySound
  <2>2. HeapOf(w) \in Range(chain)
    BY <2>1 DEF Tiled
  <2>3. g \notin Range(chain)
    BY <2>1 DEF HeapsSound
  <2>4. HeapOf(nt) = g
    <3>1. /\ HeapInfo \in Nat /\ HeapInfo > 0 /\ HeapMax \in Nat /\ g \in Nat /\ g >= 1
      BY Constants
    <3>2. Base(g) \in Nat
      BY <3>1, BaseIsNat
    <3>3. nt \in Nat /\ Base(g) <= nt /\ nt < Base(g) + HeapMax
      <4>1. m \in Nat /\ m <= HeapMax /\ m - HeapInfo >= MinSize /\ MinSize \in Nat /\ MinSize > 1
        BY <3>1, <1>1
      <4>2. nt = Base(g) + HeapInfo
        BY DEF nt
      <4> QED BY ONLY <4>1, <4>2, <3>1, <3>2
    <3> QED BY <3>1, <3>3, HeapIs
  <2> QED BY <2>2, <2>3, <2>4
<1>8. /\ DOMAIN q1 = DOMAIN head \cup {e, nt, w} /\ q1[w].size = 1 /\ q1[w].pinuse /\ q1[w].prev = 0
      /\ q1[e] = f[e] /\ q1[nt] = f[nt] /\ \A x \in DOMAIN head : q1[x] = head[x]
  <2>1. w \notin DOMAIN f
    BY <1>1, <1>2, <1>4, <1>70
  <2> QED BY <2>1, <1>1, <1>4, <1>7 DEF IsHead
<1>9. Typed(q2) /\ IsTagged(q1, q2, e, q1[e].size, q1[e].pinuse, q1[e].nonMain, 1)
  <2>1. w + 1 \in DOMAIN q1 /\ 1 \in Nat
    BY <1>2, <1>8
  <2>2. Typed(SetFoot(q1, w, 1)) /\ IsTagged(q1, SetFoot(q1, w, 1), w + 1,
          q1[w + 1].size, q1[w + 1].pinuse, q1[w + 1].nonMain, 1)
    BY <2>1, <1>7, SetFootIs
  <2> QED BY <2>2, <1>2 DEF q2
<1>10. /\ DOMAIN q2 = DOMAIN head \cup {e, nt, w} /\ q2[w] = q1[w] /\ q2[nt] = q1[nt]
       /\ q2[e].size = 0 /\ q2[e].pinuse /\ q2[e].prev = 1 /\ \A x \in DOMAIN head : q2[x] = head[x]
  BY <1>1, <1>2, <1>8, <1>9 DEF IsTagged
<1>11. Typed(k) /\ IsHead(q2, k, top, rest, TRUE, TRUE)
  <2>1. Typed(SetHead(q2, top, rest, TRUE, TRUE)) /\ IsHead(q2, SetHead(q2, top, rest, TRUE, TRUE), top, rest, TRUE, TRUE)
    BY <1>1, <1>2, <1>9, SetHeadIs
  <2> QED BY <2>1, <1>6
<1>12. /\ DOMAIN k = DOMAIN head \cup {e, nt, w} /\ k[w] = q1[w] /\ k[nt] = f[nt] /\ k[e] = q2[e]
       /\ k[top].size = rest /\ k[top].pinuse /\ k[top].nonMain /\ k[top].prev = 0
       /\ \A x \in DOMAIN head \ {top} : k[x] = head[x]
  BY <1>1, <1>2, <1>8, <1>10, <1>11 DEF IsHead
<1>13. k[top] = c[top]
  <2>1. k[top] \in Tag /\ c[top] \in Tag
    BY <1>1, <1>3, <1>4, <1>11, <1>12, TypedTags
  <2> QED BY <2>1, <1>4, <1>5, <1>12, SameTag
<1>14. IsRetired(c, k, w, e, nt, m - HeapInfo)
  <2>1. DOMAIN k = DOMAIN c \cup {e, nt} /\ \A x \in DOMAIN c \ {w} : k[x] = c[x]
    BY <1>4, <1>12, <1>13
  <2>2. k[w].size = e - w /\ k[e].prev = e - w
    BY <1>2, <1>8, <1>10, <1>12
  <2> QED BY <2>1, <2>2, <1>1, <1>8, <1>10, <1>12 DEF IsRetired
<1>15. /\ MemorySound(k, nt, [heapSize EXCEPT ![g] = m], Append(chain, g), Binned)
       /\ OrdinaryOf(k, nt, EndTags([heapSize EXCEPT ![g] = m], Append(chain, g)))
            = OrdinaryOf(c, w, EndTags(heapSize, chain))
  <2>1. c[w].size < 2 * MinSize
    BY <1>1, <1>4
  <2>2. nt = Base(g) + HeapInfo /\ e = EndOf(chain[Len(chain)], heapSize) - EndRoom
    BY <1>1 DEF nt
  <2>3. g \in Heaps /\ heapSize[g] = 0 /\ m \in 1..HeapMax /\ InPages(m) /\ m - HeapInfo >= MinSize
    OBVIOUS
  <2>4. MemorySound(c, w, heapSize, chain, Binned) /\ Typed(k)
    BY <1>4, <1>11
  <2> QED BY ONLY <2>1, <2>2, <2>3, <2>4, <1>14, RetiredSound
<1>16. k[nt].size = m - HeapInfo /\ Behind(k, top) + 1 = e /\ k[e].prev = 1
  <2>1. top + rest = w
    BY DEF w
  <2> QED BY <2>1, <1>1, <1>2, <1>10, <1>12 DEF Behind
<1> QED BY <1>1, <1>4, <1>12, <1>15, <1>16 DEF IsNewHeap, nt, k, rest

\* A heap that holds nothing but the top chunk, and the fencepost before it.
LEMMA EmptyHeap ==
  ASSUME Mem, HeapEmpty
  PROVE  /\ IsFence(head, heapSize, chain, Fence, Sentinel)
         /\ \A x \in DOMAIN head : HeapOf(x) = HeapOf(top) => x = top
<1>1. /\ HeapInfo \in Nat /\ HeapInfo > 0 /\ ArenaState \in Nat /\ ArenaState > 0
  BY Constants
<1>2. Typed(head) /\ HeapsSound(heapSize, chain) /\ Tiled(head, top, heapSize, chain)
  BY DEF Mem, MemorySound
<1>3. /\ top \in DOMAIN head /\ top \notin EndTags(heapSize, chain)
      /\ HeapOf(top) = chain[Len(chain)] /\ Behind(head, top) = EndOf(chain[Len(chain)], heapSize)
      /\ \A x \in DOMAIN head :
           HeapOf(x) \in Range(chain) /\ FirstOf(HeapOf(x), chain) <= x /\ x < EndOf(HeapOf(x), heapSize)
      /\ \A x \in DOMAIN head : x <= top \/ x >= Behind(head, top)
  BY <1>2 DEF Tiled
<1>4. top \in Nat /\ Base(HeapOf(top)) \in Nat /\ HeapOf(top) \in Nat /\ Behind(head, top) \in Nat
  <2>1. top \in Nat /\ Behind(head, top) \in Nat
    BY <1>2, <1>3, TypedTags
  <2> QED BY <2>1, HeapRange, BaseIsNat
<1>5. HeapOf(top) # chain[1]
  <2>1. FirstOf(HeapOf(top), chain) <= top
    BY <1>3
  <2>2. ASSUME HeapOf(top) = chain[1] PROVE FALSE
    <3>1. FirstOf(HeapOf(top), chain) = Base(HeapOf(top)) + HeapInfo + ArenaState
      BY <2>2 DEF FirstOf
    <3> QED BY <3>1, <2>1, <1>1, <1>4 DEF HeapEmpty
  <2> QED BY <2>2
<1>6. FirstOf(HeapOf(top), chain) = top
  BY <1>1, <1>4, <1>5 DEF FirstOf, HeapEmpty
<1>7. ASSUME NEW x \in DOMAIN head, HeapOf(x) = HeapOf(top)
      PROVE  x = top
  <2>1. x \in Nat
    BY <1>2, TypedTags
  <2>2. top <= x /\ x < Behind(head, top)
    BY <1>3, <1>6, <1>7
  <2>3. x <= top \/ x >= Behind(head, top)
    BY <1>3
  <2> QED BY ONLY <2>1, <2>2, <2>3, <1>4
<1>8. Len(chain) > 1
  <2>1. Len(chain) \in Nat /\ Len(chain) # 0
    <3>1. chain \in Seq(Heaps) /\ chain # <<>>
      BY <1>2 DEF HeapsSound
    <3> QED BY <3>1, LenProperties, EmptySeq
  <2>2. Len(chain) # 1
    BY <1>3, <1>5
  <2> QED BY ONLY <2>1, <2>2
<1>9. Sentinel = EndOf(chain[Len(chain) - 1], heapSize) - EndRoom /\ Fence = Sentinel - head[Sentinel].prev
  BY DEF Sentinel, Fence, HeapEnd, EndOf, Previous
<1>10. IsFence(head, heapSize, chain, Fence, Sentinel)
  BY ONLY <1>8, <1>9 DEF IsFence
<1> QED BY <1>7, <1>10

\* The end of the heap before becomes the top chunk.
DropHead(s) ==
  SetHead(Forget(head, {Fence, Sentinel} \cup {a \in DOMAIN head : HeapOf(a) = HeapOf(top)}),
          s, Ending, TRUE, FALSE)
IsDropDone(k, s) ==
  /\ MemorySound(k, s, heapSize, Front(chain), Binned \ {s})
  /\ OrdinaryOf(k, s, EndTags(heapSize, Front(chain))) = Ord \ {s}
  /\ s \in Nat /\ (s # Fence => s \in Binned) /\ k[s].size = Ending
  /\ \A x \in DOMAIN k \ {s} : x \in DOMAIN head /\ k[x] = head[x]

\* What the lemmas say of the fencepost, and which headers go.
LEMMA FenceHere ==
  ASSUME Mem, HeapEmpty
  PROVE  /\ Typed(head) /\ {Fence, Sentinel} \cup {a \in DOMAIN head : HeapOf(a) = HeapOf(top)} = {Fence, Sentinel, top}
         /\ Sentinel \in DOMAIN head /\ top \in DOMAIN head
         /\ Fence \in DOMAIN head /\ Fence \in Nat /\ Fence # top /\ Fence # Sentinel /\ Sentinel # top
         /\ Fence \notin EndTags(heapSize, chain) /\ Sentinel \in EndTags(heapSize, chain)
         /\ Fence \notin Binned /\ Fence \notin Ord
         /\ head[Fence].size \in Nat /\ EndRoom \in Nat /\ head[Fence].prev \in Nat
         /\ Behind(head, Fence) = Sentinel
<1>1. Typed(head)
  BY DEF Mem, MemorySound
<1>2. IsFence(head, heapSize, chain, Fence, Sentinel) /\ \A x \in DOMAIN head : HeapOf(x) = HeapOf(top) => x = top
  BY EmptyHeap
<1>3. /\ Sentinel \in EndTags(heapSize, chain) /\ Sentinel \in DOMAIN head
      /\ Fence \in DOMAIN head /\ Fence \notin EndTags(heapSize, chain) /\ Fence # top /\ Behind(head, Fence) = Sentinel
      /\ Fence \notin OrdinaryOf(head, top, EndTags(heapSize, chain)) /\ Fence \notin Binned
  <2>1. MemorySound(head, top, heapSize, chain, Binned)
    BY DEF Mem
  <2> QED BY <2>1, <1>2, FenceFacts
<1>4. top \in DOMAIN head /\ top \notin EndTags(heapSize, chain)
  BY Neighbours DEF Mem
<1>5. {a \in DOMAIN head : HeapOf(a) = HeapOf(top)} = {top}
  BY <1>2, <1>4
<1>6. EndRoom \in Nat
  BY Constants
<1> QED BY <1>1, <1>3, <1>4, <1>5, <1>6, TypedTags DEF Ord

\* The chunk in front of the fencepost is in use.
LEMMA DropAlone ==
  ASSUME Mem, HeapEmpty, head[Fence].pinuse
  PROVE  IsDropDone(DropHead(Fence), Fence)
<1> DEFINE f == Fence
           e == Sentinel
           S == {f, e, top}
           m == Forget(head, S)
           k == DropHead(f)
<1>1. /\ Typed(head) /\ {f, e} \cup {a \in DOMAIN head : HeapOf(a) = HeapOf(top)} = S
      /\ e \in DOMAIN head /\ top \in DOMAIN head
      /\ f \in DOMAIN head /\ f \in Nat /\ f # top /\ f # e /\ e # top
      /\ f \notin Binned /\ f \notin Ord /\ head[f].size \in Nat /\ EndRoom \in Nat
  BY FenceHere
<1>2. Ending = head[f].size + EndRoom /\ Ending \in Nat
  BY <1>1 DEF Ending, Size
<1>3. Typed(m) /\ DOMAIN m = DOMAIN head \ S /\ \A x \in DOMAIN head \ S : m[x] = head[x]
  <2>1. Typed(m) /\ IsForgotten(head, m, S)
    BY <1>1, ForgetIs
  <2> QED BY <2>1 DEF IsForgotten
<1>4. k = SetHead(m, f, Ending, TRUE, FALSE)
  BY <1>1 DEF DropHead
<1> HIDE DEF m, k, f, e
<1>5. Typed(k) /\ IsHead(m, k, f, Ending, TRUE, FALSE)
  BY <1>1, <1>2, <1>3, <1>4, SetHeadIs
<1>6. IsDropped(head, k, top, f, e)
  BY <1>1, <1>2, <1>3, <1>5 DEF IsHead, IsDropped
<1>7. /\ MemorySound(k, f, heapSize, Front(chain), Binned)
      /\ OrdinaryOf(k, f, EndTags(heapSize, Front(chain))) = OrdinaryOf(head, top, EndTags(heapSize, chain))
  <2>1. MemorySound(head, top, heapSize, chain, Binned) /\ IsFence(head, heapSize, chain, f, e)
        /\ head[f].pinuse /\ top = Base(HeapOf(top)) + HeapInfo
    BY EmptyHeap DEF Mem, HeapEmpty, f, e
  <2>2. Front(chain) = Front(chain)
    OBVIOUS
  <2> QED BY ONLY <2>1, <2>2, <1>5, <1>6, DroppedSound
<1>8. Binned \ {f} = Binned /\ Ord \ {f} = Ord
  BY <1>1
<1>9. k[f].size = Ending /\ \A x \in DOMAIN k \ {f} : x \in DOMAIN head /\ k[x] = head[x]
  BY <1>2, <1>3, <1>5 DEF IsHead
<1> QED BY <1>1, <1>7, <1>8, <1>9 DEF IsDropDone, Ord, f, k

\* It is free, and becomes part of the top chunk.
LEMMA DropMerged ==
  ASSUME Mem, HeapEmpty, ~head[Fence].pinuse
  PROVE  IsDropDone(DropHead(Start(Fence)), Start(Fence))
<1> DEFINE f == Fence
           e == Sentinel
           s == Start(Fence)
           S == {f, e, top}
           m == Forget(head, S)
           k == DropHead(s)
           E == EndTags(heapSize, chain)
           E2 == EndTags(heapSize, Front(chain))
           G == Binned \ {s}
<1>1. /\ Typed(head) /\ {f, e} \cup {a \in DOMAIN head : HeapOf(a) = HeapOf(top)} = S
      /\ e \in DOMAIN head /\ top \in DOMAIN head
      /\ f \in DOMAIN head /\ f \in Nat /\ f # top /\ f # e /\ e # top
      /\ f \notin Binned /\ f \notin Ord /\ head[f].size \in Nat /\ EndRoom \in Nat /\ head[f].prev \in Nat
      /\ f \notin E /\ e \in E
  BY FenceHere
<1>2. s = f - head[f].prev /\ s \in Binned /\ head[s].size = head[f].prev /\ Behind(head, s) = f
  <2>1. s = f - head[f].prev
    BY DEF Start
  <2>2. s \in Binned /\ head[s].size = head[f].prev
    BY <2>1, <1>1 DEF Mem, MemorySound, FootersSound
  <2> QED BY <2>1, <2>2, <1>1, Neighbours DEF Mem
<1>3. /\ s \in Ord /\ s \in DOMAIN head /\ s \in Nat /\ s # top /\ s # e /\ s # f
      /\ head[s].pinuse /\ head[s].prev = 0
  <2>1. s \in OrdinaryOf(head, top, E) /\ s \in DOMAIN head \ (E \cup {top}) /\ f > s
    BY <1>2, Neighbours DEF Mem, OrdinaryOf
  <2>2. head[s].pinuse
    BY <1>2 DEF Mem, MemorySound, FlagsSound
  <2>3. head[s].prev = 0
    BY <2>1, <2>2 DEF Mem, MemorySound, FootersSound
  <2>4. s \in Nat /\ s # f
    BY <2>1, <1>1, TypedTags
  <2> QED BY <2>1, <2>2, <2>3, <2>4, <1>1 DEF Ord
<1>4. Ending = head[s].size + (head[f].size + EndRoom) /\ Ending \in Nat /\ head[f].size + EndRoom \in Nat
  <2>1. Ending = head[f].size + EndRoom + head[f].prev
    BY DEF Ending, Size
  <2> QED BY <2>1, <1>1, <1>2
<1>5. Typed(m) /\ DOMAIN m = DOMAIN head \ S /\ \A x \in DOMAIN head \ S : m[x] = head[x]
  <2>1. Typed(m) /\ IsForgotten(head, m, S)
    BY <1>1, ForgetIs
  <2> QED BY <2>1 DEF IsForgotten
<1>6. k = SetHead(m, s, Ending, TRUE, FALSE)
  BY <1>1 DEF DropHead
<1>60. IsFence(head, heapSize, chain, f, e) /\ top = Base(HeapOf(top)) + HeapInfo
  BY EmptyHeap DEF HeapEmpty
<1>61. MemorySound(head, top, heapSize, chain, Binned)
  BY DEF Mem
<1> HIDE DEF m, k, f, e, s
<1>7. Typed(k) /\ IsHead(m, k, s, Ending, TRUE, FALSE)
  BY <1>3, <1>4, <1>5, <1>6, SetHeadIs
<1>8. /\ DOMAIN k = DOMAIN head \ S /\ k[s].size = Ending /\ k[s].pinuse /\ k[s].prev = 0
      /\ \A x \in DOMAIN head \ (S \cup {s}) : k[x] = head[x]
  BY <1>3, <1>5, <1>7 DEF IsHead
<1>9. PICK h1 : Typed(h1) /\ IsTaken(head, h1, s)
  BY <1>2, <1>61, TakenExists
<1>10. /\ MemorySound(h1, top, heapSize, chain, G)
       /\ OrdinaryOf(h1, top, E) = OrdinaryOf(head, top, E)
       /\ \A x \in DOMAIN head : Behind(h1, x) = Behind(head, x)
  <2>1. MemorySound(head, top, heapSize, chain, Binned) /\ s \in Binned /\ Typed(h1) /\ IsTaken(head, h1, s)
    BY <1>2, <1>9, <1>61
  <2> QED BY ONLY <2>1, TakenSound DEF G, E
<1>11. /\ DOMAIN h1 = DOMAIN head /\ \A x \in DOMAIN head : h1[x].size = head[x].size
       /\ h1[f].pinuse /\ h1[f].prev = 0 /\ h1[s].pinuse = head[s].pinuse /\ h1[s].prev = head[s].prev
       /\ \A x \in DOMAIN head \ {s, f} : h1[x] = head[x]
  BY <1>2, <1>9 DEF IsTaken
<1> DEFINE h2 == SetHead(Forget(h1, {e, top}), f, head[f].size + EndRoom, TRUE, FALSE)
<1>12. Typed(h2) /\ IsDropped(h1, h2, top, f, e) /\ DOMAIN h2 = DOMAIN head \ {e, top}
       /\ h2[f].size = head[f].size + EndRoom /\ \A x \in DOMAIN head \ {e, f, top} : h2[x] = h1[x]
  <2> DEFINE q == Forget(h1, {e, top})
  <2>1. Typed(q) /\ IsForgotten(h1, q, {e, top})
    BY <1>9, ForgetIs
  <2> HIDE DEF q
  <2>2. Typed(SetHead(q, f, head[f].size + EndRoom, TRUE, FALSE))
        /\ IsHead(q, SetHead(q, f, head[f].size + EndRoom, TRUE, FALSE), f, head[f].size + EndRoom, TRUE, FALSE)
    BY <2>1, <1>1, <1>4, SetHeadIs
  <2>3. h2 = SetHead(q, f, head[f].size + EndRoom, TRUE, FALSE)
    BY DEF q
  <2> HIDE DEF h2
  <2>4. Typed(h2) /\ IsHead(q, h2, f, head[f].size + EndRoom, TRUE, FALSE)
    BY <2>2, <2>3
  <2>5. /\ DOMAIN q = DOMAIN head \ {e, top} /\ f \in DOMAIN q /\ q[f] = h1[f]
        /\ \A x \in DOMAIN head \ {e, top} : q[x] = h1[x]
    BY <2>1, <1>1, <1>11 DEF IsForgotten
  <2>6. /\ DOMAIN h2 = DOMAIN head \ {e, top} /\ h2[f].size = head[f].size + EndRoom /\ h2[f].pinuse /\ h2[f].prev = 0
        /\ \A x \in DOMAIN head \ {e, f, top} : h2[x] = h1[x]
    BY <2>4, <2>5, <1>11 DEF IsHead
  <2> QED BY <2>4, <2>6, <1>1, <1>11 DEF IsDropped
<1> HIDE DEF h2
<1>13. /\ MemorySound(h2, f, heapSize, Front(chain), G)
       /\ OrdinaryOf(h2, f, E2) = OrdinaryOf(h1, top, E)
       /\ \A x \in DOMAIN h2 \ {f} : Behind(h2, x) = Behind(h1, x)
  <2>1. IsFence(h1, heapSize, chain, f, e)
    <3>1. h1[e] = head[e]
      BY <1>1, <1>3, <1>11
    <3> QED BY <3>1, <1>60 DEF IsFence
  <2>2. h1[f].pinuse /\ top = Base(HeapOf(top)) + HeapInfo /\ Typed(h2) /\ IsDropped(h1, h2, top, f, e)
        /\ MemorySound(h1, top, heapSize, chain, G)
    BY <1>10, <1>11, <1>12, <1>60
  <2>3. Front(chain) = Front(chain)
    OBVIOUS
  <2> QED BY ONLY <2>1, <2>2, <2>3, DroppedSound DEF E, E2
<1>14. Behind(h2, s) = f /\ s \in DOMAIN h2 /\ h2[s].pinuse /\ h2[s].prev = 0 /\ h2[s].size = head[s].size
  BY <1>1, <1>2, <1>3, <1>10, <1>11, <1>12, <1>13
<1>15. IsFused(h2, k, f, s)
  <2>1. DOMAIN k = DOMAIN h2 \ {f}
    BY <1>8, <1>12
  <2>2. k[s].size = h2[s].size + h2[f].size
    BY <1>4, <1>8, <1>12, <1>14
  <2>3. \A x \in DOMAIN h2 \ {s, f} : k[x] = h2[x]
    BY <1>8, <1>11, <1>12
  <2>4. IsJoin(h2, k, s)
    BY <2>1, <2>2, <2>3, <1>14 DEF IsJoin
  <2>5. k[s].pinuse = h2[s].pinuse
    <3>1. k[s].pinuse \in BOOLEAN /\ h2[s].pinuse \in BOOLEAN
      BY <2>1, <1>3, <1>7, <1>12, <1>14, TypedTags
    <3> QED BY <3>1, <1>8, <1>14
  <2> QED BY <2>3, <2>4, <2>5, <1>8, <1>14 DEF IsFused
<1>16. /\ MemorySound(k, s, heapSize, Front(chain), G)
       /\ OrdinaryOf(k, s, E2) = OrdinaryOf(h2, f, E2) \ {s}
  <2>1. s \in OrdinaryOf(h2, f, E2) /\ s \notin G /\ Behind(h2, s) \notin G
    BY <1>1, <1>3, <1>10, <1>13, <1>14 DEF Ord
  <2>2. Behind(h2, s) = f /\ h2[s].pinuse /\ s = (IF Behind(h2, s) = f THEN s ELSE f)
    BY <1>14
  <2>3. MemorySound(h2, f, heapSize, Front(chain), G)
    BY <1>13
  <2> HIDE DEF G
  <2>4. /\ MemorySound(k, s, heapSize, Front(chain), G)
        /\ OrdinaryOf(k, s, E2) = OrdinaryOf(h2, f, E2) \ {IF Behind(h2, s) = f THEN s ELSE Behind(h2, s)}
    BY ONLY <2>1, <2>2, <2>3, <1>7, <1>15, FusedSound DEF E2
  <2> QED BY <2>2, <2>4
<1>17. OrdinaryOf(k, s, E2) = Ord \ {s}
  BY <1>10, <1>13, <1>16 DEF Ord
<1>18. \A x \in DOMAIN k \ {s} : x \in DOMAIN head /\ k[x] = head[x]
  BY <1>8
<1> QED BY <1>2, <1>3, <1>8, <1>16, <1>17, <1>18 DEF IsDropDone, k, s

\* What heap_trim leaves when it drops a heap.
LEMMA DropSound ==
  ASSUME Mem, HeapEmpty
  PROVE  IsDropDone(DropHead(Start(Fence)), Start(Fence))
<1>1. CASE head[Fence].pinuse
  <2>1. Start(Fence) = Fence
    BY <1>1 DEF Start
  <2> QED BY <2>1, <1>1, DropAlone
<1>2. CASE ~head[Fence].pinuse
  BY <1>2, DropMerged
<1> QED BY <1>1, <1>2
=============================================================================
