----------------------------- MODULE StudyProofs -----------------------------
(***************************************************************************)
(* Proofs about three of the studies.  First the pool tables, for any      *)
(* callers, sizes and processes; then the tracing client, for any threads, *)
(* instructions and sizes of the buffers.  Last the two allocators: whoever *)
(* asks whose a block is gets the right answer, the counters of mappings   *)
(* add up, cold callers are routed and a miss is put down to the allocator *)
(* its object is from, for every address space, table of callers and       *)
(* sequence of calls.                                                      *)
(***************************************************************************)
EXTENDS Studies, Iteration, SequenceTheorems

-----------------------------------------------------------------------------
(* Sequences and numbers.                                                  *)

\* A nonempty set of indices has a greatest element.
LEMMA GreatestIndex ==
  ASSUME NEW N \in Nat, NEW T, T \subseteq 1..N, T # {}
  PROVE  Max(T) \in T /\ \A j \in T : j <= Max(T)
<1> DEFINE B == {N - k : k \in T}
<1>0. \A k \in T : k \in 1..N /\ k \in Nat /\ N - k \in Nat
  <2> SUFFICES ASSUME NEW k \in T PROVE k \in 1..N /\ k \in Nat /\ N - k \in Nat
    OBVIOUS
  <2>1. k \in 1..N
    OBVIOUS
  <2> QED BY <2>1
<1>1. B \subseteq Nat /\ B # {}
  BY <1>0
<1>2. PICK m \in B : \A k \in B : m <= k
  <2> HIDE DEF B
  <2> QED BY <1>1, LeastNatural
<1>3. PICK x \in T : m = N - x
  BY <1>2
<1>4. \A y \in T : x >= y
  <2> SUFFICES ASSUME NEW y \in T PROVE x >= y
    OBVIOUS
  <2>1. N - x <= N - y /\ x \in Nat /\ y \in Nat
    BY <1>0, <1>2, <1>3
  <2> QED BY <2>1
<1>5. Max(T) \in T /\ \A y \in T : Max(T) >= y
  BY <1>3, <1>4, Zenon DEF Max
<1> QED BY <1>0, <1>5

\* Rounding up does not make less.
LEMMA AlignedIsEnough ==
  ASSUME NEW n \in Nat
  PROVE  Aligned(n) \in Nat /\ n <= Aligned(n)
<1> DEFINE a == Alignment
           q == (n + a - 1) \div a
<1>1. a \in Nat /\ a > 0
  BY PoolTableAssumption DEF PoolTableAssumption
<1>2. q \in Nat /\ n + a - 1 = a * q + ((n + a - 1) % a) /\ (n + a - 1) % a \in 0..(a - 1)
  BY <1>1
<1> HIDE DEF a, q
<1>3. a * q \in Nat /\ q * a = a * q
  BY <1>1, <1>2
<1>4. n <= a * q
  BY <1>1, <1>2, <1>3
<1> QED BY <1>3, <1>4 DEF Aligned, a, q

-----------------------------------------------------------------------------
(* The invariant of the pool tables, of a table T, of the place nx where the *)
(* system maps next, of the blocks G that were given out and of lines ls.    *)

Pool == [free : Nat, end : Nat, caller : ReturnAddrs]

\* The free parts of the pools lie apart from each other and from the blocks,
\* and all of them before nx; no caller has two.
Apart(x, y) == x.at + x.size <= y.at - HeadSize \/ y.at + y.size <= x.at - HeadSize
PoolsApart(T, nx, G) ==
  /\ T \in Seq(Pool) /\ nx \in Nat /\ G \subseteq Blocks
  /\ \A i \in DOMAIN T : T[i].free <= T[i].end /\ T[i].end <= nx
  /\ \A i, j \in DOMAIN T : i # j =>
       /\ T[i].caller # T[j].caller
       /\ T[i].end <= T[j].free \/ T[j].end <= T[i].free
  /\ \A b \in G :
       /\ b.at + b.size <= nx
       /\ \A i \in DOMAIN T : b.at + b.size <= T[i].free \/ T[i].end <= b.at - HeadSize
  /\ \A x, y \in G : x # y => Apart(x, y)

\* The region that was logged with line l is of caller c and has from..to.
Covers(l, c, from, to) ==
  l \in Line /\ l.kind = "myi" /\ l.caller = c /\ l.begin <= from /\ to <= l.end
IsLogged(ls, c, from, to) == \E k \in DOMAIN ls : Covers(ls[k], c, from, to)

\* So is each pool, and each block with its header, whose caller has a pool.
PoolsLogged(T, G, ls) ==
  /\ \A i \in DOMAIN T : IsLogged(ls, T[i].caller, T[i].free, T[i].end)
  /\ \A b \in G : ~b.big =>
       /\ \E i \in DOMAIN T : T[i].caller = b.caller
       /\ IsLogged(ls, b.caller, b.at - HeadSize, b.at + b.size)

PoolTableInv ==
  /\ PoolTableTypeOK
  /\ \A p \in Started : /\ PoolsApart(procs[p].table, procs[p].next, procs[p].given)
                        /\ PoolsLogged(procs[p].table, procs[p].given, lines)

-----------------------------------------------------------------------------
(* The table.                                                              *)

\* What pool_search finds.
LEMMA SearchFinds ==
  ASSUME NEW T \in Seq(Pool), NEW c
  PROVE  /\ Search(T, c) \in DOMAIN T \cup {0}
         /\ Search(T, c) # 0 => T[Search(T, c)].caller = c
         /\ Search(T, c) = 0 <=> \A i \in DOMAIN T : T[i].caller # c
<1> DEFINE I == {i \in 1..Len(T) : T[i].caller = c}
<1>1. Search(T, c) = IF I # {} THEN Max(I) ELSE 0
  BY DEF Search, SelectLastInSeq
<1>2. Len(T) \in Nat /\ DOMAIN T = 1..Len(T) /\ I \subseteq 1..Len(T)
  BY LenProperties
<1>3. I # {} => Max(I) \in I
  <2> HIDE DEF I
  <2> QED BY <1>2, GreatestIndex
<1>4. 0 \notin DOMAIN T
  BY <1>2
<1>5. I # {} => Max(I) \in DOMAIN T /\ T[Max(I)].caller = c
  BY <1>2, <1>3
<1>6. I = {} <=> \A i \in DOMAIN T : T[i].caller # c
  BY <1>2
<1> QED BY <1>1, <1>4, <1>5, <1>6

\* A table with e put in at i.
LEMMA InsertAtIs ==
  ASSUME NEW s \in Seq(Pool), NEW e \in Pool, NEW i \in 1..(Len(s) + 1)
  PROVE  /\ InsertAt(s, i, e) \in Seq(Pool) /\ Len(InsertAt(s, i, e)) = Len(s) + 1
         /\ \A k \in 1..(Len(s) + 1) :
              InsertAt(s, i, e)[k] = IF k < i THEN s[k] ELSE IF k = i THEN e ELSE s[k - 1]
<1> DEFINE x == SubSeq(s, 1, i - 1)
           y == SubSeq(s, i, Len(s))
           z == x \o <<e>>
<1>0. Len(s) \in Nat /\ i \in Int /\ \A k \in 1..Len(s) : s[k] \in Pool
  BY LenProperties, ElementOfSeq
<1>1. x \in Seq(Pool) /\ Len(x) = i - 1 /\ \A k \in 1..(i - 1) : x[k] = s[k]
  <2>1. \A k \in 1..(i - 1) : s[k] \in Pool
    BY <1>0
  <2>2. /\ SubSeq(s, 1, i - 1) \in Seq(Pool)
        /\ Len(SubSeq(s, 1, i - 1)) = IF 1 <= i - 1 THEN i - 1 - 1 + 1 ELSE 0
        /\ \A k \in 1..(i - 1 - 1 + 1) : SubSeq(s, 1, i - 1)[k] = s[1 + k - 1]
    BY <2>1, SubSeqProperties, i - 1 \in Int, 1 \in Int
  <2> QED BY <2>2, <1>0
<1>2. y \in Seq(Pool) /\ Len(y) = Len(s) - i + 1 /\ \A k \in 1..(Len(s) - i + 1) : y[k] = s[k + i - 1]
  <2>1. \A k \in i..Len(s) : s[k] \in Pool
    BY <1>0
  <2>2. /\ SubSeq(s, i, Len(s)) \in Seq(Pool)
        /\ Len(SubSeq(s, i, Len(s))) = IF i <= Len(s) THEN Len(s) - i + 1 ELSE 0
        /\ \A k \in 1..(Len(s) - i + 1) : SubSeq(s, i, Len(s))[k] = s[i + k - 1]
    BY <2>1, <1>0, SubSeqProperties, i \in Int, Len(s) \in Int
  <2> QED BY <2>2, <1>0
<1>3. InsertAt(s, i, e) = z \o y
  BY DEF InsertAt
<1>4. z \in Seq(Pool) /\ Len(z) = i /\ \A k \in 1..i : z[k] = IF k < i THEN s[k] ELSE e
  <2> HIDE DEF x
  <2>1. <<e>> \in Seq(Pool) /\ Len(<<e>>) = 1 /\ <<e>>[1] = e
    OBVIOUS
  <2>2. /\ x \o <<e>> \in Seq(Pool) /\ Len(x \o <<e>>) = Len(x) + Len(<<e>>)
        /\ \A k \in 1..(Len(x) + Len(<<e>>)) :
             (x \o <<e>>)[k] = IF k <= Len(x) THEN x[k] ELSE <<e>>[k - Len(x)]
    BY <1>1, <2>1, ConcatProperties
  <2>3. Len(x) = i - 1 /\ Len(<<e>>) = 1 /\ (i - 1) + 1 = i /\ i - (i - 1) = 1
    BY <1>1, <2>1
  <2>4. \A k \in 1..i : k # i => k <= i - 1 /\ k \in 1..(i - 1) /\ k < i
    OBVIOUS
  <2>5. ~(i <= i - 1) /\ i \in 1..i /\ ~(i < i)
    OBVIOUS
  <2>6. \A k \in 1..i : k # i => z[k] = s[k]
    BY <2>2, <2>3, <2>4, <1>1
  <2>7. z[i] = e
    BY <2>1, <2>2, <2>3, <2>5
  <2> HIDE DEF z
  <2>8. \A k \in 1..i : z[k] = IF k < i THEN s[k] ELSE e
    BY <2>4, <2>5, <2>6, <2>7
  <2>9. z \in Seq(Pool) /\ Len(z) = i
    BY <2>2, <2>3 DEF z
  <2> QED BY <2>8, <2>9
<1> HIDE DEF x, y, z
<1>5. /\ z \o y \in Seq(Pool) /\ Len(z \o y) = Len(z) + Len(y)
      /\ \A k \in 1..(Len(z) + Len(y)) : (z \o y)[k] = IF k <= Len(z) THEN z[k] ELSE y[k - Len(z)]
  BY <1>2, <1>4, ConcatProperties
<1>6. Len(z) = i /\ Len(z) + Len(y) = Len(s) + 1
  BY <1>0, <1>2, <1>4
<1>7. ASSUME NEW k \in 1..(Len(s) + 1), k > i
      PROVE  (z \o y)[k] = s[k - 1]
  <2>1. k - i \in 1..(Len(s) - i + 1) /\ ~(k <= i) /\ (k - i) + i - 1 = k - 1
    BY <1>0, <1>7
  <2> QED BY <1>2, <1>5, <1>6, <2>1
<1>8. ASSUME NEW k \in 1..(Len(s) + 1), k <= i
      PROVE  (z \o y)[k] = IF k < i THEN s[k] ELSE e
  <2>1. k \in 1..i
    BY <1>8
  <2> QED BY <1>4, <1>5, <1>6, <1>8, <2>1
<1>9. \A k \in 1..(Len(s) + 1) : (k <= i \/ k > i) /\ (k < i => k <= i) /\ (k > i => ~(k < i) /\ k # i)
                                /\ (k <= i => k < i \/ k = i)
  BY <1>0
<1>10. ASSUME NEW k \in 1..(Len(s) + 1)
       PROVE (z \o y)[k] = IF k < i THEN s[k] ELSE IF k = i THEN e ELSE s[k - 1]
  BY <1>7, <1>8, <1>9
<1> QED BY <1>3, <1>5, <1>6, <1>10

\* pool_insert puts the new pool somewhere between the others.
LEMMA InsertIs ==
  ASSUME NEW T \in Seq(Pool), NEW pool \in Pool
  PROVE  \E i \in 1..(Len(T) + 1) : Insert(T, pool) = InsertAt(T, i, pool)
<1> DEFINE S == {i \in DOMAIN T : pool.caller > T[i].caller}
<1>1. Len(T) \in Nat /\ DOMAIN T = 1..Len(T) /\ S \subseteq 1..Len(T)
  BY LenProperties
<1>2. Insert(T, pool) = InsertAt(T, IF S = {} THEN 1 ELSE Max(S), pool)
  BY DEF Insert
<1>3. S # {} => Max(S) \in 1..Len(T)
  <2> HIDE DEF S
  <2> QED BY <1>1, GreatestIndex
<1> HIDE DEF S
<1>4. (IF S = {} THEN 1 ELSE Max(S)) \in 1..(Len(T) + 1)
  BY <1>1, <1>3
<1> QED BY <1>2, <1>4

\* What was logged stays logged.
LEMMA LoggedForGood ==
  ASSUME NEW ls \in Seq(Line), NEW e \in Line, NEW c, NEW from, NEW to,
         IsLogged(ls, c, from, to)
  PROVE  IsLogged(Append(ls, e), c, from, to)
<1>1. PICK k \in DOMAIN ls : Covers(ls[k], c, from, to)
  BY DEF IsLogged
<1>2. k \in DOMAIN Append(ls, e) /\ Append(ls, e)[k] = ls[k]
  OBVIOUS
<1> QED BY <1>1, <1>2, Zenon DEF IsLogged

\* What is logged now is logged.
LEMMA LoggedNow ==
  ASSUME NEW ls \in Seq(Line), NEW e \in Line, NEW c, NEW from, NEW to, Covers(e, c, from, to)
  PROVE  IsLogged(Append(ls, e), c, from, to)
<1>1. Len(ls) + 1 \in DOMAIN Append(ls, e) /\ Append(ls, e)[Len(ls) + 1] = e
  OBVIOUS
<1> QED BY <1>1, Zenon DEF IsLogged

\* So is every part of it.
LEMMA LoggedInside ==
  ASSUME NEW ls, NEW c, NEW from \in Nat, NEW to \in Nat, NEW from2 \in Nat, NEW to2 \in Nat,
         IsLogged(ls, c, from, to), from <= from2, to2 <= to
  PROVE  IsLogged(ls, c, from2, to2)
<1>1. PICK k \in DOMAIN ls : Covers(ls[k], c, from, to)
  BY DEF IsLogged
<1>2. ls[k].begin \in Nat /\ ls[k].end \in Nat
  BY <1>1 DEF Covers, Line
<1>3. Covers(ls[k], c, from2, to2)
  BY <1>1, <1>2 DEF Covers
<1> QED BY <1>3 DEF IsLogged

\* A new region is put into the table for a caller that has none.
LEMMA NewPool ==
  ASSUME NEW T, NEW nx, NEW G, NEW ls, NEW nx2, NEW q \in Pool, NEW e,
         PoolsApart(T, nx, G), PoolsLogged(T, G, ls),
         \A i \in DOMAIN T : T[i].caller # q.caller,
         nx2 \in Nat, nx <= q.free, q.free <= q.end, q.end <= nx2,
         Covers(e, q.caller, q.free, q.end)
  PROVE  /\ PoolsApart(Insert(T, q), nx2, G)
         /\ ls \in Seq(Line) => PoolsLogged(Insert(T, q), G, Append(ls, e))
<1> DEFINE U == Insert(T, q)
<1>1. T \in Seq(Pool) /\ nx \in Nat /\ Len(T) \in Nat /\ DOMAIN T = 1..Len(T)
  BY LenProperties DEF PoolsApart
<1>2. PICK m \in 1..(Len(T) + 1) : U = InsertAt(T, m, q)
  BY <1>1, InsertIs
<1>3. /\ U \in Seq(Pool) /\ Len(U) = Len(T) + 1
      /\ \A k \in 1..(Len(T) + 1) : U[k] = IF k < m THEN T[k] ELSE IF k = m THEN q ELSE T[k - 1]
  <2>1. /\ InsertAt(T, m, q) \in Seq(Pool) /\ Len(InsertAt(T, m, q)) = Len(T) + 1
        /\ \A k \in 1..(Len(T) + 1) :
             InsertAt(T, m, q)[k] = IF k < m THEN T[k] ELSE IF k = m THEN q ELSE T[k - 1]
    <3> HIDE DEF U
    <3> QED BY <1>1, InsertAtIs, SMTT(30)
  <2> HIDE DEF U
  <2> QED BY ONLY <1>2, <2>1
<1> HIDE DEF U
<1> DEFINE old(k) == IF k < m THEN k ELSE k - 1
<1>4. DOMAIN U = 1..(Len(T) + 1)
  BY <1>1, <1>3, LenProperties
<1>5. ASSUME NEW k \in DOMAIN U, k # m PROVE old(k) \in DOMAIN T /\ U[k] = T[old(k)]
  BY <1>1, <1>3, <1>4, <1>5
<1>6. m \in DOMAIN U /\ U[m] = q
  BY <1>1, <1>3, <1>4
<1>7. ASSUME NEW k \in DOMAIN U, NEW l \in DOMAIN U, k # m, l # m, k # l PROVE old(k) # old(l)
  BY <1>1, <1>4, <1>7
<1>8. ASSUME NEW i \in DOMAIN T PROVE \E k \in DOMAIN U : U[k] = T[i]
  <2>1. CASE i < m
    BY <1>1, <1>3, <1>4, <2>1
  <2>2. CASE i >= m
    <3>1. i + 1 \in DOMAIN U /\ ~(i + 1 < m) /\ i + 1 # m /\ (i + 1) - 1 = i
      BY <1>1, <1>4, <2>2
    <3>2. U[i + 1] = T[i]
      BY <1>3, <1>4, <3>1
    <3> QED BY <3>1, <3>2
  <2> QED BY <1>1, <2>1, <2>2
<1> HIDE DEF old
<1>9. ASSUME NEW i \in DOMAIN T
      PROVE  /\ T[i].free \in Nat /\ T[i].end \in Nat /\ T[i].free <= T[i].end /\ T[i].end <= nx
             /\ T[i].caller # q.caller
  <2>1. T[i] \in Pool
    BY <1>1, ElementOfSeq
  <2>2. T[i].free \in Nat /\ T[i].end \in Nat
    BY <2>1 DEF Pool
  <2> QED BY <2>2 DEF PoolsApart
<1>10. q.free \in Nat /\ q.end \in Nat
  BY DEF Pool
<1>11. ASSUME NEW k \in DOMAIN U PROVE U[k].free <= U[k].end /\ U[k].end <= nx2
  <2>1. CASE k = m
    BY <1>6, <2>1
  <2>2. CASE k # m
    BY <1>1, <1>5, <1>9, <1>10, <2>2
  <2> QED BY <2>1, <2>2
<1>12. ASSUME NEW k \in DOMAIN U, NEW l \in DOMAIN U, k # l
       PROVE  U[k].caller # U[l].caller /\ (U[k].end <= U[l].free \/ U[l].end <= U[k].free)
  <2>1. CASE k = m
    BY <1>1, <1>5, <1>6, <1>9, <1>10, <1>12, <2>1
  <2>2. CASE l = m
    BY <1>1, <1>5, <1>6, <1>9, <1>10, <1>12, <2>2
  <2>3. CASE k # m /\ l # m
    <3>1. old(k) \in DOMAIN T /\ old(l) \in DOMAIN T /\ old(k) # old(l)
      BY <1>5, <1>7, <1>12, <2>3
    <3>2. U[k] = T[old(k)] /\ U[l] = T[old(l)]
      BY <1>5, <2>3
    <3> QED BY <3>1, <3>2 DEF PoolsApart
  <2> QED BY <2>1, <2>2, <2>3
<1>13. ASSUME NEW b \in G
       PROVE  /\ b.at + b.size <= nx2
              /\ \A k \in DOMAIN U : b.at + b.size <= U[k].free \/ U[k].end <= b.at - HeadSize
  <2>1. b.at \in Nat /\ b.size \in Nat /\ b.at + b.size <= nx
    BY DEF PoolsApart, Blocks
  <2>2. b.at + b.size <= q.free
    BY <1>1, <1>10, <2>1
  <2>3. ASSUME NEW k \in DOMAIN U PROVE b.at + b.size <= U[k].free \/ U[k].end <= b.at - HeadSize
    <3>1. CASE k = m
      BY <1>6, <2>2, <3>1
    <3>2. CASE k # m
      <4>1. old(k) \in DOMAIN T /\ U[k] = T[old(k)]
        BY <1>5, <3>2
      <4> QED BY <4>1 DEF PoolsApart
    <3> QED BY <3>1, <3>2
  <2> QED BY <1>1, <1>10, <2>1, <2>2, <2>3
<1>14. PoolsApart(U, nx2, G)
  BY <1>3, <1>11, <1>12, <1>13 DEF PoolsApart
<1>15. ASSUME ls \in Seq(Line) PROVE PoolsLogged(U, G, Append(ls, e))
  <2> DEFINE l2 == Append(ls, e)
  <2>1. e \in Line
    BY DEF Covers
  <2>2. /\ DOMAIN l2 = 1..(Len(ls) + 1) /\ DOMAIN ls = 1..Len(ls) /\ Len(ls) \in Nat
        /\ l2[Len(ls) + 1] = e /\ \A k \in DOMAIN ls : l2[k] = ls[k]
    BY <1>15, <2>1
  <2> HIDE DEF l2
  <2>3. ASSUME NEW c, NEW from, NEW to, IsLogged(ls, c, from, to) PROVE IsLogged(l2, c, from, to)
    <3>1. PICK k \in DOMAIN ls : Covers(ls[k], c, from, to)
      BY <2>3 DEF IsLogged
    <3>2. k \in DOMAIN l2 /\ l2[k] = ls[k]
      BY <2>2
    <3> QED BY <3>1, <3>2 DEF IsLogged
  <2>4. IsLogged(l2, q.caller, q.free, q.end)
    <3>1. Len(ls) + 1 \in DOMAIN l2
      BY <2>2
    <3> QED BY <2>2, <3>1 DEF IsLogged
  <2>5. ASSUME NEW k \in DOMAIN U PROVE IsLogged(l2, U[k].caller, U[k].free, U[k].end)
    <3>1. CASE k = m
      BY <1>6, <2>4, <3>1
    <3>2. CASE k # m
      BY <1>5, <2>3, <3>2 DEF PoolsLogged
    <3> QED BY <3>1, <3>2
  <2>6. ASSUME NEW b \in G, ~b.big
        PROVE  /\ \E k \in DOMAIN U : U[k].caller = b.caller
               /\ IsLogged(l2, b.caller, b.at - HeadSize, b.at + b.size)
    <3>1. PICK i \in DOMAIN T : T[i].caller = b.caller
      BY <2>6 DEF PoolsLogged
    <3>2. IsLogged(ls, b.caller, b.at - HeadSize, b.at + b.size)
      BY <2>6 DEF PoolsLogged
    <3> QED BY <1>8, <2>3, <3>1, <3>2
  <2> QED BY <2>5, <2>6 DEF PoolsLogged, l2
<1> QED BY <1>14, <1>15 DEF U
\* A pool that is full continues in a new region.
LEMMA Expanded ==
  ASSUME NEW T, NEW nx, NEW G, NEW ls, NEW nx2, NEW q \in Pool, NEW e, NEW m \in DOMAIN T,
         PoolsApart(T, nx, G), PoolsLogged(T, G, ls),
         q.caller = T[m].caller,
         nx2 \in Nat, nx <= q.free, q.free <= q.end, q.end <= nx2,
         Covers(e, q.caller, q.free, q.end)
  PROVE  /\ PoolsApart([T EXCEPT ![m] = q], nx2, G)
         /\ ls \in Seq(Line) => PoolsLogged([T EXCEPT ![m] = q], G, Append(ls, e))
<1> DEFINE U == [T EXCEPT ![m] = q]
<1>1. T \in Seq(Pool) /\ nx \in Nat
  BY DEF PoolsApart
<1>2. U \in Seq(Pool)
  BY <1>1
<1>3. /\ DOMAIN U = DOMAIN T /\ U[m] = q
      /\ \A k \in DOMAIN T : k # m => U[k] = T[k]
  BY <1>1
<1> HIDE DEF U
<1>4. ASSUME NEW i \in DOMAIN T
      PROVE  /\ T[i].free \in Nat /\ T[i].end \in Nat /\ T[i].free <= T[i].end /\ T[i].end <= nx
  <2>1. T[i] \in Pool
    BY <1>1, ElementOfSeq
  <2>2. T[i].free \in Nat /\ T[i].end \in Nat
    BY <2>1 DEF Pool
  <2> QED BY <2>2 DEF PoolsApart
<1>5. q.free \in Nat /\ q.end \in Nat
  BY DEF Pool
<1>6. ASSUME NEW k \in DOMAIN U PROVE U[k].free <= U[k].end /\ U[k].end <= nx2
  <2>1. CASE k = m
    BY <1>3, <2>1
  <2>2. CASE k # m
    BY <1>1, <1>3, <1>4, <1>5, <2>2
  <2> QED BY <2>1, <2>2
<1>7. ASSUME NEW k \in DOMAIN U, NEW l \in DOMAIN U, k # l
      PROVE  U[k].caller # U[l].caller /\ (U[k].end <= U[l].free \/ U[l].end <= U[k].free)
  <2>0. /\ T[k].caller # T[l].caller
        /\ T[k].end <= T[l].free \/ T[l].end <= T[k].free
    BY <1>3, <1>7 DEF PoolsApart
  <2>1. CASE k = m
    <3>1. U[k] = q /\ U[l] = T[l]
      BY <1>3, <1>7, <2>1
    <3>2. T[l].end <= q.free
      BY <1>1, <1>3, <1>4, <1>5
    <3> QED BY <2>0, <2>1, <3>1, <3>2
  <2>2. CASE l = m
    <3>1. U[l] = q /\ U[k] = T[k]
      BY <1>3, <1>7, <2>2
    <3>2. T[k].end <= q.free
      BY <1>1, <1>3, <1>4, <1>5
    <3> QED BY <2>0, <2>2, <3>1, <3>2
  <2>3. CASE k # m /\ l # m
    BY <1>3, <2>0, <2>3
  <2> QED BY <2>1, <2>2, <2>3
<1>8. ASSUME NEW b \in G
      PROVE  /\ b.at + b.size <= nx2
             /\ \A k \in DOMAIN U : b.at + b.size <= U[k].free \/ U[k].end <= b.at - HeadSize
  <2>1. b.at \in Nat /\ b.size \in Nat /\ b.at + b.size <= nx
    BY DEF PoolsApart, Blocks
  <2>2. b.at + b.size <= q.free
    BY <1>1, <1>5, <2>1
  <2>3. ASSUME NEW k \in DOMAIN U PROVE b.at + b.size <= U[k].free \/ U[k].end <= b.at - HeadSize
    <3>1. CASE k = m
      BY <1>3, <2>2, <3>1
    <3>2. CASE k # m
      <4>1. k \in DOMAIN T /\ U[k] = T[k]
        BY <1>3, <3>2
      <4> QED BY <4>1 DEF PoolsApart
    <3> QED BY <3>1, <3>2
  <2> QED BY <1>1, <1>5, <2>1, <2>2, <2>3
<1>9. PoolsApart(U, nx2, G)
  BY <1>2, <1>6, <1>7, <1>8 DEF PoolsApart
<1>10. ASSUME ls \in Seq(Line) PROVE PoolsLogged(U, G, Append(ls, e))
  <2>1. e \in Line
    BY DEF Covers
  <2>2. \A c, from, to : IsLogged(ls, c, from, to) => IsLogged(Append(ls, e), c, from, to)
    BY <1>10, <2>1, LoggedForGood
  <2>3. IsLogged(Append(ls, e), q.caller, q.free, q.end)
    BY <1>10, <2>1, LoggedNow
  <2> DEFINE l2 == Append(ls, e)
  <2> HIDE DEF l2
  <2>4. ASSUME NEW k \in DOMAIN U PROVE IsLogged(l2, U[k].caller, U[k].free, U[k].end)
    <3>1. CASE k = m
      BY <1>3, <2>3, <3>1 DEF l2
    <3>2. CASE k # m
      BY <1>3, <2>2, <3>2 DEF PoolsLogged, l2
    <3> QED BY <3>1, <3>2
  <2>5. ASSUME NEW b \in G, ~b.big
        PROVE  /\ \E k \in DOMAIN U : U[k].caller = b.caller
               /\ IsLogged(l2, b.caller, b.at - HeadSize, b.at + b.size)
    <3>1. PICK i \in DOMAIN T : T[i].caller = b.caller
      BY <2>5 DEF PoolsLogged
    <3>2. IsLogged(ls, b.caller, b.at - HeadSize, b.at + b.size)
      BY <2>5 DEF PoolsLogged
    <3>3. i \in DOMAIN U /\ U[i].caller = b.caller
      BY <1>3, <3>1
    <3> QED BY <2>2, <3>2, <3>3 DEF l2
  <2> QED BY <2>4, <2>5 DEF PoolsLogged, l2
<1> QED BY <1>9, <1>10 DEF U

\* A block is cut from the front of what is left of a pool.
LEMMA CutFromPool ==
  ASSUME NEW T, NEW nx, NEW G, NEW ls, NEW m \in DOMAIN T, NEW n \in Nat, NEW b \in Blocks,
         PoolsApart(T, nx, G), PoolsLogged(T, G, ls),
         T[m].free + n + HeadSize <= T[m].end,
         b.at = T[m].free + HeadSize, b.size <= n, b.caller = T[m].caller
  PROVE  LET U == [T EXCEPT ![m] = [T[m] EXCEPT !.free = @ + n + HeadSize]]
         IN  PoolsApart(U, nx, G \cup {b}) /\ PoolsLogged(U, G \cup {b}, ls)
<1> DEFINE r == [T[m] EXCEPT !.free = @ + n + HeadSize]
           U == [T EXCEPT ![m] = r]
<1>0. HeadSize \in Nat /\ HeadSize > 0
  BY PoolTableAssumption DEF PoolTableAssumption
<1>1. T \in Seq(Pool) /\ nx \in Nat /\ T[m] \in Pool
  BY ElementOfSeq DEF PoolsApart
<1>2. /\ r \in Pool /\ r.free = T[m].free + n + HeadSize /\ r.end = T[m].end
      /\ r.caller = T[m].caller /\ T[m].free \in Nat /\ T[m].end \in Nat
  <2>1. /\ T[m].free \in Nat /\ T[m].end \in Nat /\ T[m].caller \in ReturnAddrs
        /\ T[m] = [free |-> T[m].free, end |-> T[m].end, caller |-> T[m].caller]
    BY <1>1 DEF Pool
  <2>2. T[m].free + n + HeadSize \in Nat
    BY <1>0, <2>1
  <2>3. r = [free |-> T[m].free + n + HeadSize, end |-> T[m].end, caller |-> T[m].caller]
    BY <2>1
  <2> HIDE DEF r
  <2> QED BY <2>1, <2>2, <2>3 DEF Pool
<1> HIDE DEF r
<1>3. U \in Seq(Pool)
  BY <1>1, <1>2
<1>4. /\ DOMAIN U = DOMAIN T /\ U[m] = r
      /\ \A k \in DOMAIN T : k # m => U[k] = T[k]
  BY <1>1
<1> HIDE DEF U
<1>5. ASSUME NEW i \in DOMAIN T
      PROVE  /\ T[i].free \in Nat /\ T[i].end \in Nat /\ T[i].free <= T[i].end /\ T[i].end <= nx
  <2>1. T[i] \in Pool
    BY <1>1, ElementOfSeq
  <2>2. T[i].free \in Nat /\ T[i].end \in Nat
    BY <2>1 DEF Pool
  <2> QED BY <2>2 DEF PoolsApart
<1>6. ASSUME NEW k \in DOMAIN T
      PROVE  /\ U[k].caller = T[k].caller /\ U[k].end = T[k].end /\ U[k].free \in Nat
             /\ T[k].free <= U[k].free /\ U[k].free <= T[k].end
  <2>1. CASE k = m
    BY <1>0, <1>2, <1>4, <2>1
  <2>2. CASE k # m
    BY <1>4, <1>5, <2>2
  <2> QED BY <2>1, <2>2
<1>7. ASSUME NEW k \in DOMAIN U, NEW l \in DOMAIN U, k # l
      PROVE  U[k].caller # U[l].caller /\ (U[k].end <= U[l].free \/ U[l].end <= U[k].free)
  <2>0. /\ k \in DOMAIN T /\ l \in DOMAIN T /\ T[k].caller # T[l].caller
        /\ T[k].end <= T[l].free \/ T[l].end <= T[k].free
    BY <1>4, <1>7 DEF PoolsApart
  <2>1. /\ U[k].caller = T[k].caller /\ U[k].end = T[k].end /\ T[k].free <= U[k].free
        /\ U[l].caller = T[l].caller /\ U[l].end = T[l].end /\ T[l].free <= U[l].free
        /\ U[k].free \in Nat /\ U[l].free \in Nat
    BY <1>6, <2>0
  <2>2. T[k].free \in Nat /\ T[k].end \in Nat /\ T[l].free \in Nat /\ T[l].end \in Nat
    BY <1>5, <2>0
  <2> QED BY ONLY <2>0, <2>1, <2>2
<1>8. b.at \in Nat /\ b.size \in Nat
  BY DEF Blocks
<1>9. b.at + b.size <= r.free /\ b.at - HeadSize = T[m].free /\ b.at + b.size <= nx
  <2>1. T[m].end <= nx
    BY <1>5
  <2>2. /\ b.at = T[m].free + HeadSize /\ b.size <= n
        /\ T[m].free + n + HeadSize <= T[m].end
    OBVIOUS
  <2>3. /\ T[m].free \in Nat /\ T[m].end \in Nat /\ r.free = T[m].free + n + HeadSize
        /\ HeadSize \in Nat /\ nx \in Nat /\ b.size \in Nat /\ n \in Nat
    BY <1>0, <1>1, <1>2, <1>8
  <2>4. b.at + b.size <= r.free
    BY ONLY <2>2, <2>3
  <2>5. b.at - HeadSize = T[m].free
    BY ONLY <2>2, <2>3
  <2>6. b.at + b.size <= nx
    BY ONLY <2>1, <2>2, <2>3
  <2> QED BY <2>4, <2>5, <2>6
<1>10. ASSUME NEW x \in G PROVE x.at \in Nat /\ x.size \in Nat /\ x.at + x.size <= nx
  BY DEF PoolsApart, Blocks
<1>11. ASSUME NEW x \in G, NEW k \in DOMAIN U
       PROVE  x.at + x.size <= U[k].free \/ U[k].end <= x.at - HeadSize
  <2>1. k \in DOMAIN T /\ (x.at + x.size <= T[k].free \/ T[k].end <= x.at - HeadSize)
    BY <1>4 DEF PoolsApart
  <2>2. U[k].end = T[k].end /\ T[k].free <= U[k].free /\ U[k].free \in Nat /\ T[k].free \in Nat
    BY <1>5, <1>6, <2>1
  <2> QED BY <1>10, <2>1, <2>2
<1>12. ASSUME NEW k \in DOMAIN U
       PROVE  b.at + b.size <= U[k].free \/ U[k].end <= b.at - HeadSize
  <2>1. CASE k = m
    BY <1>4, <1>9, <2>1
  <2>2. CASE k # m
    <3>1. k \in DOMAIN T /\ U[k] = T[k] /\ (T[k].end <= T[m].free \/ T[m].end <= T[k].free)
      BY <1>4, <2>2 DEF PoolsApart
    <3>2. T[k].free \in Nat /\ T[k].end \in Nat
      BY <1>5, <3>1
    <3>3. b.at + b.size <= T[m].end
      BY <1>0, <1>2, <1>8, <1>9
    <3> QED BY <1>2, <1>8, <1>9, <3>1, <3>2, <3>3
  <2> QED BY <2>1, <2>2
<1>13. ASSUME NEW x \in G PROVE Apart(x, b) /\ Apart(b, x)
  <2>1. x.at + x.size <= T[m].free \/ T[m].end <= x.at - HeadSize
    BY DEF PoolsApart
  <2>2. b.at + b.size <= T[m].end
    BY <1>0, <1>2, <1>8, <1>9
  <2>3. x.at + x.size <= b.at - HeadSize \/ b.at + b.size <= x.at - HeadSize
    BY <1>0, <1>2, <1>8, <1>9, <1>10, <2>1, <2>2
  <2> QED BY <2>3 DEF Apart
<1>14. PoolsApart(U, nx, G \cup {b})
  <2>1. G \cup {b} \subseteq Blocks
    BY DEF PoolsApart
  <2>2. \A k \in DOMAIN U : U[k].free <= U[k].end /\ U[k].end <= nx
    BY <1>4, <1>5, <1>6
  <2>3. \A x \in G \cup {b} : x.at + x.size <= nx
    BY <1>9, <1>10
  <2>4. \A x, y \in G \cup {b} : x # y => Apart(x, y)
    BY <1>13 DEF PoolsApart
  <2> QED BY <1>1, <1>3, <1>7, <1>11, <1>12, <2>1, <2>2, <2>3, <2>4 DEF PoolsApart
<1>15. PoolsLogged(U, G \cup {b}, ls)
  <2>1. ASSUME NEW k \in DOMAIN U PROVE IsLogged(ls, U[k].caller, U[k].free, U[k].end)
    <3>1. k \in DOMAIN T /\ IsLogged(ls, T[k].caller, T[k].free, T[k].end)
      BY <1>4 DEF PoolsLogged
    <3>2. /\ U[k].caller = T[k].caller /\ U[k].end = T[k].end /\ T[k].free <= U[k].free
          /\ T[k].free \in Nat /\ U[k].free \in Nat /\ T[k].end \in Nat
      BY <1>5, <1>6, <3>1
    <3> QED BY <3>1, <3>2, LoggedInside
  <2>2. IsLogged(ls, b.caller, b.at - HeadSize, b.at + b.size)
    <3>1. IsLogged(ls, T[m].caller, T[m].free, T[m].end)
      BY DEF PoolsLogged
    <3>2. b.at + b.size <= T[m].end /\ b.at - HeadSize \in Nat /\ b.at + b.size \in Nat
      BY <1>0, <1>2, <1>8, <1>9
    <3>3. b.at - HeadSize = T[m].free /\ T[m].free <= b.at - HeadSize
      BY <1>2, <1>9
    <3> QED BY <1>2, <3>1, <3>2, <3>3, LoggedInside
  <2>3. m \in DOMAIN U /\ U[m].caller = b.caller
    BY <1>6, <1>4
  <2>4. ASSUME NEW x \in G, ~x.big
        PROVE  /\ \E k \in DOMAIN U : U[k].caller = x.caller
               /\ IsLogged(ls, x.caller, x.at - HeadSize, x.at + x.size)
    <3>1. PICK i \in DOMAIN T : T[i].caller = x.caller
      BY <2>4 DEF PoolsLogged
    <3>2. i \in DOMAIN U /\ U[i].caller = x.caller
      BY <1>4, <1>6, <3>1
    <3> QED BY <2>4, <3>2 DEF PoolsLogged
  <2> QED BY <2>1, <2>2, <2>3, <2>4 DEF PoolsLogged
<1> QED BY <1>14, <1>15 DEF U, r

\* A block with a mapping of its own takes nothing from the pools.
LEMMA Mapped ==
  ASSUME NEW T, NEW nx, NEW G, NEW ls, NEW n \in Nat, NEW b \in Blocks,
         PoolsApart(T, nx, G), PoolsLogged(T, G, ls),
         b.at = nx + HeadSize, b.size <= n, b.big
  PROVE  /\ PoolsApart(T, nx + n + HeadSize + Alignment, G \cup {b})
         /\ PoolsLogged(T, G \cup {b}, ls)
<1> DEFINE nx2 == nx + n + HeadSize + Alignment
<1>0. HeadSize \in Nat /\ HeadSize > 0 /\ Alignment \in Nat
  BY PoolTableAssumption DEF PoolTableAssumption
<1>1. T \in Seq(Pool) /\ nx \in Nat /\ b.at \in Nat /\ b.size \in Nat
  BY DEF PoolsApart, Blocks
<1>2. nx2 \in Nat /\ nx <= nx2 /\ b.at + b.size <= nx2 /\ b.at - HeadSize = nx
  BY <1>0, <1>1
<1> HIDE DEF nx2
<1>3. ASSUME NEW i \in DOMAIN T
      PROVE  /\ T[i].free \in Nat /\ T[i].end \in Nat /\ T[i].free <= T[i].end /\ T[i].end <= nx
  <2>1. T[i] \in Pool
    BY <1>1, ElementOfSeq
  <2>2. T[i].free \in Nat /\ T[i].end \in Nat
    BY <2>1 DEF Pool
  <2> QED BY <2>2 DEF PoolsApart
<1>4. ASSUME NEW x \in G PROVE x.at \in Nat /\ x.size \in Nat /\ x.at + x.size <= nx
  BY DEF PoolsApart, Blocks
<1>5. ASSUME NEW x \in G PROVE Apart(x, b) /\ Apart(b, x)
  BY <1>2, <1>4 DEF Apart
<1>6. PoolsApart(T, nx2, G \cup {b})
  <2>1. G \cup {b} \subseteq Blocks
    BY DEF PoolsApart
  <2>2. \A k \in DOMAIN T : T[k].free <= T[k].end /\ T[k].end <= nx2
    BY <1>1, <1>2, <1>3
  <2>3. \A x \in G \cup {b} : x.at + x.size <= nx2
    BY <1>1, <1>2, <1>4
  <2>4. \A x, y \in G \cup {b} : x # y => Apart(x, y)
    BY <1>5 DEF PoolsApart
  <2>5. \A k \in DOMAIN T : T[k].end <= b.at - HeadSize
    BY <1>2, <1>3
  <2>6. /\ \A i, j \in DOMAIN T : i # j =>
             /\ T[i].caller # T[j].caller
             /\ T[i].end <= T[j].free \/ T[j].end <= T[i].free
        /\ \A x \in G, i \in DOMAIN T : x.at + x.size <= T[i].free \/ T[i].end <= x.at - HeadSize
    BY DEF PoolsApart
  <2> QED BY <1>1, <1>2, <2>1, <2>2, <2>3, <2>4, <2>5, <2>6 DEF PoolsApart
<1>7. PoolsLogged(T, G \cup {b}, ls)
  BY DEF PoolsLogged
<1> QED BY <1>6, <1>7 DEF nx2

\* Further lines take nothing from the log.
LEMMA LoggedMore ==
  ASSUME NEW T, NEW G, NEW ls \in Seq(Line), NEW more \in Seq(Line), PoolsLogged(T, G, ls)
  PROVE  PoolsLogged(T, G, ls \o more)
<1> DEFINE l2 == ls \o more
<1>1. \A k \in DOMAIN ls : k \in DOMAIN l2 /\ l2[k] = ls[k]
  OBVIOUS
<1> HIDE DEF l2
<1>2. ASSUME NEW c, NEW from, NEW to, IsLogged(ls, c, from, to) PROVE IsLogged(l2, c, from, to)
  <2>1. PICK k \in DOMAIN ls : Covers(ls[k], c, from, to)
    BY <1>2 DEF IsLogged
  <2> QED BY <1>1, <2>1 DEF IsLogged
<1>3. \A i \in DOMAIN T : IsLogged(l2, T[i].caller, T[i].free, T[i].end)
  BY <1>2 DEF PoolsLogged
<1>4. ASSUME NEW b \in G, ~b.big
      PROVE  /\ \E i \in DOMAIN T : T[i].caller = b.caller
             /\ IsLogged(l2, b.caller, b.at - HeadSize, b.at + b.size)
  BY <1>2, <1>4 DEF PoolsLogged
<1> QED BY <1>3, <1>4 DEF PoolsLogged, l2

-----------------------------------------------------------------------------
(* pool_alloc.                                                             *)

\* A new region for caller c, and its line.
LEMMA RegionIs ==
  ASSUME NEW p \in Pids, NEW nx \in Nat, NEW c \in ReturnAddrs
  PROVE  LET q == NewRegion(nx, c) IN
         /\ q \in Pool /\ q.free = nx /\ q.end = nx + PoolSize /\ q.caller = c
         /\ PoolLine(p, q) \in Line /\ Covers(PoolLine(p, q), c, q.free, q.end)
<1> DEFINE q == NewRegion(nx, c)
<1>1. PoolSize \in Nat
  BY PoolTableAssumption DEF PoolTableAssumption
<1>2. q \in Pool /\ q.free = nx /\ q.end = nx + PoolSize /\ q.caller = c /\ q.end \in Nat
  BY <1>1 DEF NewRegion, Pool
<1> HIDE DEF q
<1>3. PoolLine(p, q) \in [kind : {"myi"}, pid : Pids, begin : Nat, end : Nat, caller : ReturnAddrs]
  BY <1>2 DEF PoolLine
<1>4. PoolLine(p, q) \in Line
  BY <1>3 DEF Line
<1>5. Covers(PoolLine(p, q), c, q.free, q.end)
  <2>1. /\ PoolLine(p, q).kind = "myi" /\ PoolLine(p, q).caller = c
        /\ PoolLine(p, q).begin = q.free /\ PoolLine(p, q).end = q.end
    BY <1>2 DEF PoolLine
  <2>2. q.free <= q.free /\ q.end <= q.end
    BY <1>2
  <2> QED BY <1>4, <2>1, <2>2 DEF Covers
<1> QED BY <1>2, <1>4, <1>5 DEF q

\* The line of one new region.
LEMMA OneLine ==
  ASSUME NEW p, NEW x
  PROVE  [i \in DOMAIN <<x>> |-> PoolLine(p, <<x>>[i])] = <<PoolLine(p, x)>>
<1> DEFINE F == [i \in DOMAIN <<x>> |-> PoolLine(p, <<x>>[i])]
<1>1. DOMAIN <<x>> = 1..1 /\ <<x>>[1] = x
  OBVIOUS
<1>2. F = [i \in 1..1 |-> PoolLine(p, <<x>>[i])]
  BY <1>1
<1>3. \A i \in 1..1 : i = 1
  OBVIOUS
<1>4. F = [i \in 1..1 |-> PoolLine(p, x)]
  BY <1>1, <1>2, <1>3
<1>5. \A y : <<y>> = [i \in 1..1 |-> y]
  OBVIOUS
<1> QED BY <1>4, <1>5

\* One region after another.
LEMMA TwoOfOne ==
  ASSUME NEW x, NEW y
  PROVE  <<x>> \o <<y>> = <<x, y>>
<1>1. <<x>> \in Seq({x, y}) /\ <<y>> \in Seq({x, y}) /\ <<x, y>> \in Seq({x, y})
  OBVIOUS
<1>2. /\ <<x>> \o <<y>> \in Seq({x, y}) /\ Len(<<x>> \o <<y>>) = Len(<<x>>) + Len(<<y>>)
      /\ \A k \in 1..(Len(<<x>>) + Len(<<y>>)) :
           (<<x>> \o <<y>>)[k] = IF k <= Len(<<x>>) THEN <<x>>[k] ELSE <<y>>[k - Len(<<x>>)]
  BY <1>1, ConcatProperties
<1>3. Len(<<x>>) = 1 /\ Len(<<y>>) = 1 /\ Len(<<x, y>>) = 2
      /\ <<x>>[1] = x /\ <<y>>[1] = y /\ <<x, y>>[1] = x /\ <<x, y>>[2] = y
  OBVIOUS
<1>4. Len(<<x>> \o <<y>>) = 2 /\ (<<x>> \o <<y>>)[1] = x /\ (<<x>> \o <<y>>)[2] = y
  BY <1>2, <1>3
<1>5. \A k \in 1..2 : k = 1 \/ k = 2
  OBVIOUS
<1>6. \A s, t : s \in Seq({x, y}) /\ t \in Seq({x, y}) /\ Len(s) = Len(t)
               /\ (\A k \in 1..Len(s) : s[k] = t[k]) => s = t
  BY SeqEqual
<1> QED BY <1>1, <1>2, <1>3, <1>4, <1>5, <1>6, ZenonT(40)

\* The lines of two.
LEMMA TwoLines ==
  ASSUME NEW p, NEW x, NEW y
  PROVE  [i \in DOMAIN <<x, y>> |-> PoolLine(p, <<x, y>>[i])] = <<PoolLine(p, x), PoolLine(p, y)>>
<1>1. DOMAIN <<x, y>> = 1..2 /\ <<x, y>>[1] = x /\ <<x, y>>[2] = y
  OBVIOUS
<1>2. \A i \in 1..2 : i = 1 \/ i = 2
  OBVIOUS
<1>3. \A u, v : <<u, v>> = [i \in 1..2 |-> IF i = 1 THEN u ELSE v]
  OBVIOUS
<1> QED BY <1>1, <1>2, <1>3

\* A small request is cut from the pool of its caller, which is made or gets a
\* new region if need be.
LEMMA SmallAllocSound ==
  ASSUME NEW p \in Pids, NEW s \in Process, NEW c \in ReturnAddrs, NEW n \in Nat,
         NEW size \in Nat, size <= n, ~IsBig(n), NEW ls \in Seq(Line),
         PoolsApart(s.table, s.next, s.given), PoolsLogged(s.table, s.given, ls)
  PROVE  LET got == SmallAlloc(p, s, c, n)
             b   == [by |-> p, at |-> got.addr, size |-> size, caller |-> c, big |-> FALSE]
         IN  /\ b \in Blocks /\ got.lines \in Seq(Line) /\ got.limit \in Nat
             /\ \E T, nx : got.proc = [s EXCEPT !.next = nx, !.table = T]
                           /\ PoolsApart(T, nx, s.given \cup {b})
                           /\ PoolsLogged(T, s.given \cup {b}, ls \o got.lines)
<1> DEFINE T  == s.table
           G  == s.given
           nx == s.next
           A  == Alignment
           found == Search(T, c)
           fresh == NewRegion(nx, c)
           T1  == IF found = 0 THEN Insert(T, fresh) ELSE T
           nx1 == IF found = 0 THEN nx + PoolSize + A ELSE nx
           ls1 == IF found = 0 THEN Append(ls, PoolLine(p, fresh)) ELSE ls
           at  == Search(T1, c)
           more == NewRegion(IF found = 0 THEN fresh.end + A ELSE nx, c)
           grow == Full(T1[at], n)
           pool == IF grow THEN more ELSE T1[at]
           T2  == IF grow THEN [T1 EXCEPT ![at] = more] ELSE T1
           nx2 == IF grow THEN nx1 + PoolSize + A ELSE nx1
           ls2 == IF grow THEN Append(ls1, PoolLine(p, more)) ELSE ls1
           grown == (IF found = 0 THEN <<fresh>> ELSE <<>>) \o (IF grow THEN <<more>> ELSE <<>>)
           U   == [T2 EXCEPT ![at] = [T2[at] EXCEPT !.free = @ + n + HeadSize]]
           got == SmallAlloc(p, s, c, n)
           b   == [by |-> p, at |-> got.addr, size |-> size, caller |-> c, big |-> FALSE]
           logged == [i \in DOMAIN grown |-> PoolLine(p, grown[i])]
<1>0. HeadSize \in Nat /\ HeadSize > 0 /\ A \in Nat /\ A > 0 /\ PoolSize \in Nat
  BY PoolTableAssumption DEF PoolTableAssumption
<1>1. T \in Seq(Pool) /\ nx \in Nat
  BY DEF PoolsApart
<1>2. /\ got.proc = [s EXCEPT !.next = nx + Len(grown) * (PoolSize + A),
                              !.table = [T1 EXCEPT ![at] = [pool EXCEPT !.free = @ + n + HeadSize]]]
      /\ got.addr = pool.free + HeadSize /\ got.lines = logged /\ got.limit = pool.end + A
  BY DEF SmallAlloc
<1> HIDE DEF got
<1>3. /\ fresh \in Pool /\ fresh.free = nx /\ fresh.end = nx + PoolSize /\ fresh.caller = c
      /\ PoolLine(p, fresh) \in Line /\ Covers(PoolLine(p, fresh), c, fresh.free, fresh.end)
  BY <1>1, RegionIs
<1>4. nx1 \in Nat /\ more = NewRegion(nx1, c)
  BY <1>0, <1>1, <1>3
<1>5. /\ more \in Pool /\ more.free = nx1 /\ more.end = nx1 + PoolSize /\ more.caller = c
      /\ PoolLine(p, more) \in Line /\ Covers(PoolLine(p, more), c, more.free, more.end)
  BY <1>4, RegionIs
<1> HIDE DEF fresh, more
<1>6. PoolsApart(T1, nx1, G) /\ PoolsLogged(T1, G, ls1) /\ ls1 \in Seq(Line)
  <2>1. CASE found = 0
    <3>1. \A i \in DOMAIN T : T[i].caller # fresh.caller
      BY <1>1, <1>3, <2>1, SearchFinds
    <3>2. /\ nx1 \in Nat /\ nx <= fresh.free /\ fresh.free <= fresh.end /\ fresh.end <= nx1
      BY <1>0, <1>1, <1>3, <2>1
    <3>3. T1 = Insert(T, fresh) /\ ls1 = Append(ls, PoolLine(p, fresh))
      BY <2>1
    <3>4. Covers(PoolLine(p, fresh), fresh.caller, fresh.free, fresh.end)
      BY <1>3
    <3>5. PoolsApart(T, nx, G) /\ PoolsLogged(T, G, ls)
      OBVIOUS
    <3> HIDE DEF T, G, nx, T1, nx1, ls1, found
    <3>6. PoolsApart(Insert(T, fresh), nx1, G) /\ PoolsLogged(Insert(T, fresh), G, Append(ls, PoolLine(p, fresh)))
      BY ONLY <1>3, <3>1, <3>2, <3>4, <3>5, NewPool, ls \in Seq(Line)
    <3>7. Append(ls, PoolLine(p, fresh)) \in Seq(Line)
      BY <1>3
    <3> QED BY <3>3, <3>6, <3>7
  <2>2. CASE found # 0
    BY <2>2
  <2> QED BY <2>1, <2>2
<1>7. at \in DOMAIN T1 /\ T1[at].caller = c
  <2>1. T1 \in Seq(Pool)
    BY <1>6 DEF PoolsApart
  <2>2. \E i \in DOMAIN T1 : T1[i].caller = c
    <3>1. CASE found = 0
      <4>1. PICK k \in 1..(Len(T) + 1) : Insert(T, fresh) = InsertAt(T, k, fresh)
        BY <1>1, <1>3, InsertIs
      <4>2. k \in DOMAIN InsertAt(T, k, fresh) /\ InsertAt(T, k, fresh)[k] = fresh
        <5>1. /\ InsertAt(T, k, fresh) \in Seq(Pool) /\ Len(InsertAt(T, k, fresh)) = Len(T) + 1
              /\ \A m \in 1..(Len(T) + 1) : InsertAt(T, k, fresh)[m] =
                   IF m < k THEN T[m] ELSE IF m = k THEN fresh ELSE T[m - 1]
          <6> HIDE DEF T
          <6> QED BY <1>1, <1>3, InsertAtIs
        <5>2. k \in Nat /\ ~(k < k) /\ Len(T) \in Nat
          BY <1>1, LenProperties
        <5>3. DOMAIN InsertAt(T, k, fresh) = 1..(Len(T) + 1)
          BY <5>1, LenProperties
        <5> QED BY <5>1, <5>2, <5>3
      <4> QED BY <1>3, <3>1, <4>1, <4>2
    <3>2. CASE found # 0
      BY <1>1, <3>2, SearchFinds
    <3> QED BY <3>1, <3>2
  <2> HIDE DEF T1
  <2> QED BY <2>1, <2>2, SearchFinds
<1> HIDE DEF found, at
<1>8. /\ PoolsApart(T2, nx2, G) /\ PoolsLogged(T2, G, ls2) /\ ls2 \in Seq(Line) /\ nx2 \in Nat
  <2>1. CASE grow
    <3>1. more.caller = T1[at].caller /\ Covers(PoolLine(p, more), more.caller, more.free, more.end)
      BY <1>5, <1>7
    <3>2. T2 = [T1 EXCEPT ![at] = more] /\ ls2 = Append(ls1, PoolLine(p, more)) /\ nx2 = nx1 + PoolSize + A
      BY <2>1
    <3>3. nx2 \in Nat /\ nx1 <= more.free /\ more.free <= more.end /\ more.end <= nx2
      BY <1>0, <1>4, <1>5, <3>2
    <3> HIDE DEF T1, T2, G, nx1, nx2, ls1, ls2, grow
    <3>4. PoolsApart([T1 EXCEPT ![at] = more], nx2, G)
          /\ PoolsLogged([T1 EXCEPT ![at] = more], G, Append(ls1, PoolLine(p, more)))
      BY ONLY <1>5, <1>6, <1>7, <3>1, <3>3, Expanded
    <3>5. Append(ls1, PoolLine(p, more)) \in Seq(Line)
      BY <1>5, <1>6
    <3> QED BY <3>2, <3>3, <3>4, <3>5
  <2>2. CASE ~grow
    BY <1>4, <1>6, <2>2
  <2> QED BY <2>1, <2>2
<1>9. /\ at \in DOMAIN T2 /\ T2[at] = pool /\ pool.caller = c
      /\ U = [T1 EXCEPT ![at] = [pool EXCEPT !.free = @ + n + HeadSize]]
  <2>1. T1 \in Seq(Pool)
    BY <1>6 DEF PoolsApart
  <2> HIDE DEF T1
  <2>2. CASE grow
    <3>1. at \in DOMAIN T2 /\ T2[at] = more /\ pool = more
      BY <1>7, <2>1, <2>2
    <3>2. U = [T1 EXCEPT ![at] = [more EXCEPT !.free = @ + n + HeadSize]]
      BY <1>7, <2>1, <2>2, <3>1
    <3> QED BY <1>5, <3>1, <3>2
  <2>3. CASE ~grow
    <3>1. T2 = T1 /\ pool = T1[at]
      BY <2>3
    <3> QED BY <1>7, <3>1
  <2> QED BY <2>2, <2>3
<1>10. pool \in Pool /\ pool.free \in Nat /\ pool.end \in Nat /\ pool.free + n + HeadSize <= pool.end
  <2>1. CASE grow
    <3>1. n + HeadSize + A <= PoolSize
      BY <1>0 DEF IsBig
    <3>2. pool = more
      BY <2>1
    <3> HIDE DEF pool, nx1, A
    <3>3. more.free \in Nat /\ more.end \in Nat /\ more.free + n + HeadSize <= more.end
      BY ONLY <1>0, <1>4, <1>5, <3>1, n \in Nat
    <3> QED BY <1>5, <3>2, <3>3
  <2>2. CASE ~grow
    <3>1. pool = T1[at] /\ T1[at] \in Pool
      BY <1>6, <1>7, <2>2, ElementOfSeq DEF PoolsApart
    <3>2. T1[at].free \in Nat /\ T1[at].end \in Nat
      BY <3>1 DEF Pool
    <3>3. ~(T1[at].free + n + HeadSize + A >= T1[at].end)
      BY <2>2 DEF Full
    <3> HIDE DEF pool, T1, A
    <3>4. T1[at].free + n + HeadSize <= T1[at].end
      BY ONLY <1>0, <3>2, <3>3, n \in Nat
    <3> QED BY <3>1, <3>2, <3>4
  <2> QED BY <2>1, <2>2
<1>11. b \in Blocks /\ b.at = pool.free + HeadSize /\ b.size = size /\ b.caller = c /\ ~b.big
  <2>1. got.addr \in Nat
    <3> HIDE DEF pool, logged, T1, A, nx, grown
    <3> QED BY ONLY <1>0, <1>2, <1>10
  <2>2. b = [by |-> p, at |-> got.addr, size |-> size, caller |-> c, big |-> FALSE]
    OBVIOUS
  <2> HIDE DEF b, pool, logged, T1, nx, grown
  <2>3. b \in Blocks
    BY ONLY <2>1, <2>2, p \in Pids, c \in ReturnAddrs, size \in Nat DEF Blocks
  <2> QED BY <1>2, <2>2, <2>3
<1> HIDE DEF T1, T2, pool, b
<1>12. PoolsApart(U, nx2, G \cup {b}) /\ PoolsLogged(U, G \cup {b}, ls2)
  <2>1. T2[at].free + n + HeadSize <= T2[at].end /\ b.at = T2[at].free + HeadSize
        /\ b.size <= n /\ b.caller = T2[at].caller
    BY <1>9, <1>10, <1>11
  <2> HIDE DEF G, nx2, ls2
  <2> QED BY ONLY <1>8, <1>9, <1>11, <2>1, CutFromPool, n \in Nat
<1> HIDE DEF U
<1>13. grown \in Seq(Pool) /\ logged \in Seq(Line) /\ ls2 = ls \o logged
       /\ nx2 = nx + Len(grown) * (PoolSize + A)
  <2> HIDE DEF nx, grow
  <2>1. CASE found = 0 /\ grow
    <3>1. grown = <<fresh, more>>
      <4>1. grown = <<fresh>> \o <<more>>
        BY <2>1
      <4>2. <<fresh>> \o <<more>> = <<fresh, more>>
        BY TwoOfOne
      <4> QED BY <4>1, <4>2
    <3>2. logged = <<PoolLine(p, fresh), PoolLine(p, more)>>
      <4> HIDE DEF grown
      <4>1. logged = [i \in DOMAIN <<fresh, more>> |-> PoolLine(p, <<fresh, more>>[i])]
        BY <3>1
      <4> HIDE DEF logged
      <4> QED BY <4>1, TwoLines
    <3>3. ls2 = Append(Append(ls, PoolLine(p, fresh)), PoolLine(p, more))
      BY <2>1
    <3>4. Len(grown) = 2 /\ nx2 = nx + PoolSize + A + PoolSize + A
      BY <2>1, <3>1
    <3>5. ls2 = ls \o logged
      BY <1>3, <1>5, <3>2, <3>3
    <3>6. nx2 = nx + Len(grown) * (PoolSize + A)
      BY <1>0, <1>1, <3>4
    <3> QED BY <1>3, <1>5, <3>1, <3>2, <3>5, <3>6
  <2>2. CASE found = 0 /\ ~grow
    <3>1. grown = <<fresh>>
      BY <2>2
    <3>2. logged = <<PoolLine(p, fresh)>>
      BY <3>1, OneLine
    <3>3. ls2 = Append(ls, PoolLine(p, fresh))
      BY <2>2
    <3>4. Len(grown) = 1 /\ nx2 = nx + PoolSize + A
      BY <2>2, <3>1
    <3>5. ls2 = ls \o logged
      BY <1>3, <3>2, <3>3, SMTT(20)
    <3>6. nx2 = nx + Len(grown) * (PoolSize + A)
      BY <1>0, <1>1, <3>4
    <3>7. <<fresh>> \in Seq(Pool) /\ <<PoolLine(p, fresh)>> \in Seq(Line)
      BY <1>3
    <3> HIDE DEF grown, logged, nx2, ls2
    <3> QED BY <3>1, <3>2, <3>5, <3>6, <3>7
  <2>3. CASE found # 0 /\ grow
    <3>1. grown = <<more>>
      BY <2>3
    <3>2. logged = <<PoolLine(p, more)>>
      BY <3>1, OneLine
    <3>3. ls2 = Append(ls, PoolLine(p, more))
      BY <2>3
    <3>4. Len(grown) = 1 /\ nx2 = nx + PoolSize + A
      BY <2>3, <3>1
    <3>5. ls2 = ls \o logged
      BY <1>5, <3>2, <3>3
    <3>6. nx2 = nx + Len(grown) * (PoolSize + A)
      BY <1>0, <1>1, <3>4
    <3>7. <<more>> \in Seq(Pool) /\ <<PoolLine(p, more)>> \in Seq(Line)
      BY <1>5
    <3> HIDE DEF grown, logged, nx2, ls2
    <3> QED BY <3>1, <3>2, <3>5, <3>6, <3>7
  <2>4. CASE found # 0 /\ ~grow
    <3>1. grown = <<>>
      BY <2>4
    <3>2. logged = <<>>
      BY <3>1
    <3>3. ls2 = ls
      BY <2>4
    <3>4. Len(grown) = 0 /\ nx2 = nx
      BY <2>4, <3>1
    <3>5. ls2 = ls \o logged
      BY <3>2, <3>3
    <3>6. nx2 = nx + Len(grown) * (PoolSize + A)
      BY <1>0, <1>1, <3>4
    <3> QED BY <3>1, <3>2, <3>5, <3>6
  <2> QED BY <2>1, <2>2, <2>3, <2>4
<1>14. got.limit \in Nat
  BY <1>0, <1>2, <1>10
<1>15. got.lines = logged /\ got.proc = [s EXCEPT !.next = nx2, !.table = U]
  BY <1>2, <1>9, <1>13
<1>16. PoolsLogged(U, G \cup {b}, ls \o got.lines)
  <2> HIDE DEF logged, ls2
  <2> QED BY <1>12, <1>13, <1>15
<1>17. got.lines \in Seq(Line)
  <2> HIDE DEF logged, ls2, grown
  <2> QED BY <1>13, <1>15
<1> HIDE DEF logged, ls2, grown, nx2
<1> QED BY <1>11, <1>12, <1>14, <1>15, <1>16, <1>17 DEF got, b

\* A request that no pool can have is mapped.
LEMMA BigAllocSound ==
  ASSUME NEW p \in Pids, NEW s \in Process, NEW c \in ReturnAddrs, NEW n \in Nat,
         NEW size \in Nat, size <= n, NEW ls \in Seq(Line),
         PoolsApart(s.table, s.next, s.given), PoolsLogged(s.table, s.given, ls)
  PROVE  LET got == BigAlloc(s, n)
             b   == [by |-> p, at |-> got.addr, size |-> size, caller |-> c, big |-> TRUE]
         IN  /\ b \in Blocks /\ got.lines \in Seq(Line) /\ got.limit \in Nat
             /\ \E T, nx : got.proc = [s EXCEPT !.next = nx, !.table = T]
                           /\ PoolsApart(T, nx, s.given \cup {b})
                           /\ PoolsLogged(T, s.given \cup {b}, ls \o got.lines)
<1> DEFINE got == BigAlloc(s, n)
           b   == [by |-> p, at |-> got.addr, size |-> size, caller |-> c, big |-> TRUE]
           nx2 == s.next + n + HeadSize + Alignment
<1>0. HeadSize \in Nat /\ HeadSize > 0 /\ Alignment \in Nat
  BY PoolTableAssumption DEF PoolTableAssumption
<1>1. s.next \in Nat
  BY DEF PoolsApart
<1>2. /\ got.proc = [s EXCEPT !.next = s.next + n + HeadSize + Alignment]
      /\ got.addr = s.next + HeadSize /\ got.lines = <<>>
      /\ got.limit = s.next + n + HeadSize + Alignment
  BY DEF BigAlloc
<1> HIDE DEF got
<1>3. got.addr \in Nat /\ got.limit \in Nat
  BY <1>0, <1>1, <1>2
<1>4. b \in Blocks /\ b.at = s.next + HeadSize /\ b.size = size /\ b.big
  BY <1>2, <1>3 DEF Blocks
<1> HIDE DEF b
<1>5. /\ PoolsApart(s.table, nx2, s.given \cup {b}) /\ PoolsLogged(s.table, s.given \cup {b}, ls)
  BY <1>4, Mapped
<1> HIDE DEF nx2
<1>6. got.proc = [s EXCEPT !.next = nx2, !.table = s.table]
  BY <1>2 DEF Process, nx2
<1>7. ls \o got.lines = ls /\ got.lines \in Seq(Line)
  BY <1>2
<1>8. PoolsLogged(s.table, s.given \cup {b}, ls \o got.lines)
  BY <1>5, <1>7
<1> QED BY <1>3, <1>4, <1>5, <1>6, <1>7, <1>8 DEF got, b

\* Either way.
LEMMA PoolAllocSound ==
  ASSUME PoolTableInv, NEW p \in Started, NEW c \in ReturnAddrs, NEW n \in Nat
  PROVE  LET got == PoolAlloc(p, c, Aligned(n))
             b   == [by |-> p, at |-> got.addr, size |-> n, caller |-> c, big |-> got.big]
         IN  /\ b \in Blocks /\ got.lines \in Seq(Line) /\ got.limit \in Nat
             /\ \E T, nx : got.proc = [procs[p] EXCEPT !.next = nx, !.table = T]
                           /\ PoolsApart(T, nx, procs[p].given \cup {b})
                           /\ PoolsLogged(T, procs[p].given \cup {b}, lines \o got.lines)
<1>1. Aligned(n) \in Nat /\ n <= Aligned(n)
  BY AlignedIsEnough
<1>2. /\ p \in Pids /\ procs[p] \in Process /\ lines \in Seq(Line)
      /\ PoolsApart(procs[p].table, procs[p].next, procs[p].given)
      /\ PoolsLogged(procs[p].table, procs[p].given, lines)
  BY DEF PoolTableInv, PoolTableTypeOK
<1> DEFINE m == Aligned(n)
           s == procs[p]
<1>3. m \in Nat /\ n <= m
  BY <1>1
<1>4. CASE IsBig(m)
  <2>1. PoolAlloc(p, c, m) = BigAlloc(s, m) /\ BigAlloc(s, m).big = TRUE
    BY <1>4 DEF PoolAlloc, BigAlloc
  <2> HIDE DEF m
  <2>2. LET got == BigAlloc(s, m)
            b   == [by |-> p, at |-> got.addr, size |-> n, caller |-> c, big |-> TRUE]
        IN  /\ b \in Blocks /\ got.lines \in Seq(Line) /\ got.limit \in Nat
            /\ \E T, nx : got.proc = [s EXCEPT !.next = nx, !.table = T]
                          /\ PoolsApart(T, nx, s.given \cup {b})
                          /\ PoolsLogged(T, s.given \cup {b}, lines \o got.lines)
    BY <1>2, <1>3, BigAllocSound
  <2> QED BY <2>1, <2>2 DEF m
<1>5. CASE ~IsBig(m)
  <2>1. PoolAlloc(p, c, m) = SmallAlloc(p, s, c, m) /\ SmallAlloc(p, s, c, m).big = FALSE
    BY <1>5 DEF PoolAlloc, SmallAlloc
  <2> HIDE DEF m
  <2>2. LET got == SmallAlloc(p, s, c, m)
            b   == [by |-> p, at |-> got.addr, size |-> n, caller |-> c, big |-> FALSE]
        IN  /\ b \in Blocks /\ got.lines \in Seq(Line) /\ got.limit \in Nat
            /\ \E T, nx : got.proc = [s EXCEPT !.next = nx, !.table = T]
                          /\ PoolsApart(T, nx, s.given \cup {b})
                          /\ PoolsLogged(T, s.given \cup {b}, lines \o got.lines)
    BY <1>2, <1>3, <1>5, SmallAllocSound
  <2> QED BY <2>1, <2>2, ZenonT(40) DEF m
<1> QED BY <1>4, <1>5

-----------------------------------------------------------------------------
(* The pool tables: the steps.                                             *)

\* A step of one process that takes nothing from the log.
LEMMA OfOneProcess ==
  ASSUME PoolTableInv, NEW p \in Started, NEW P \in Process,
         procs' = [procs EXCEPT ![p] = P], lines' \in Seq(Line), poolcalls' \in Nat,
         \A T, G : PoolsLogged(T, G, lines) => PoolsLogged(T, G, lines'),
         PoolsApart(P.table, P.next, P.given), PoolsLogged(P.table, P.given, lines')
  PROVE  PoolTableInv'
<1>1. /\ Started' = Started
      /\ \A q \in Started : procs'[q] = IF q = p THEN P ELSE procs[q]
  BY DEF Started
<1>2. PoolTableTypeOK'
  <2>1. Started \subseteq Pids /\ \A q \in Started : procs[q] \in Process
    BY DEF PoolTableInv, PoolTableTypeOK
  <2> QED BY <1>1, <2>1 DEF PoolTableTypeOK
<1>3. ASSUME NEW q \in Started
      PROVE  /\ PoolsApart(procs'[q].table, procs'[q].next, procs'[q].given)
             /\ PoolsLogged(procs'[q].table, procs'[q].given, lines')
  <2>1. CASE q = p
    BY <1>1, <2>1
  <2>2. CASE q # p
    <3>1. procs'[q] = procs[q]
      BY <1>1, <2>2
    <3>2. /\ PoolsApart(procs[q].table, procs[q].next, procs[q].given)
          /\ PoolsLogged(procs[q].table, procs[q].given, lines)
      BY DEF PoolTableInv
    <3> QED BY <3>1, <3>2
  <2> QED BY <2>1, <2>2
<1> QED BY <1>1, <1>2, <1>3 DEF PoolTableInv

\* What an allocation logs after its regions.
LEMMA AllocLineIs ==
  ASSUME NEW p \in Pids, NEW n \in Nat, NEW got, got.addr \in Nat, NEW c \in ReturnAddrs
  PROVE  AllocLine(p, n, got, c) \in Seq(Line)
<1> DEFINE e == [kind |-> "mya", pid |-> p, size |-> n, addr |-> got.addr, caller |-> c]
<1>1. e \in Line
  BY DEF Line
<1> HIDE DEF e
<1>2. <<>> \in Seq(Line) /\ <<e>> \in Seq(Line)
  BY <1>1
<1>3. AllocLine(p, n, got, c) = IF got.big THEN <<>> ELSE <<e>>
  BY DEF AllocLine, e
<1> QED BY <1>2, <1>3

\* malloc, and the second part of realloc.
LEMMA AllocateKeeps ==
  ASSUME PoolTableInv, NEW p \in Started, NEW c \in ReturnAddrs, NEW n \in Nat,
         NEW copied, Allocate(p, c, n, copied), poolcalls' \in Nat
  PROVE  PoolTableInv'
<1> DEFINE got  == PoolAlloc(p, c, Aligned(n))
           s    == procs[p]
           b    == [by |-> p, at |-> got.addr, size |-> n, caller |-> c, big |-> got.big]
           mine == AllocLine(p, n, got, c)
           over == got.addr + copied > got.limit
           P    == [got.proc EXCEPT !.given = @ \cup {b}, !.held = @ \cup {b},
                                    !.waiting = NoCall, !.overrun = over]
<1>1. p \in Pids /\ s \in Process /\ lines \in Seq(Line)
  BY DEF PoolTableInv, PoolTableTypeOK
<1>2. procs' = [procs EXCEPT ![p] = P] /\ lines' = lines \o got.lines \o mine
  BY DEF Allocate
<1>3. /\ b \in Blocks /\ got.lines \in Seq(Line)
      /\ \E T, nx : got.proc = [s EXCEPT !.next = nx, !.table = T]
                    /\ PoolsApart(T, nx, s.given \cup {b})
                    /\ PoolsLogged(T, s.given \cup {b}, lines \o got.lines)
  BY PoolAllocSound
<1>4. over \in BOOLEAN
  OBVIOUS
<1> HIDE DEF got, over
<1>5. got.addr \in Nat
  <2>1. b.at = got.addr
    OBVIOUS
  <2> HIDE DEF b
  <2> QED BY <1>3, <2>1 DEF Blocks
<1>6. mine \in Seq(Line)
  BY <1>1, <1>5, AllocLineIs
<1> HIDE DEF b, mine
<1>7. PICK T, nx : /\ got.proc = [s EXCEPT !.next = nx, !.table = T]
                   /\ PoolsApart(T, nx, s.given \cup {b})
                   /\ PoolsLogged(T, s.given \cup {b}, lines \o got.lines)
  BY <1>3
<1>8. T \in Seq(Pool) /\ nx \in Nat
  BY <1>7 DEF PoolsApart
<1>9. s = [table |-> s.table, next |-> s.next, given |-> s.given, held |-> s.held,
           waiting |-> s.waiting, overrun |-> s.overrun]
      /\ s.given \in SUBSET Blocks /\ s.held \in SUBSET Blocks
  BY <1>1 DEF Process
<1> HIDE DEF s
<1>10. got.proc = [table |-> T, next |-> nx, given |-> s.given, held |-> s.held,
                   waiting |-> s.waiting, overrun |-> s.overrun]
  BY ONLY <1>7, <1>9
<1>11. P = [table |-> T, next |-> nx, given |-> s.given \cup {b}, held |-> s.held \cup {b},
            waiting |-> NoCall, overrun |-> over]
  <2> DEFINE r == got.proc
  <2>1. r = [table |-> T, next |-> nx, given |-> s.given, held |-> s.held,
             waiting |-> s.waiting, overrun |-> s.overrun]
    BY <1>10
  <2>2. P = [r EXCEPT !.given = @ \cup {b}, !.held = @ \cup {b}, !.waiting = NoCall, !.overrun = over]
    OBVIOUS
  <2> HIDE DEF r, P
  <2>3. P = [r EXCEPT !.given = r.given \cup {b}, !.held = r.held \cup {b}, !.waiting = NoCall,
                      !.overrun = over]
    BY ONLY <2>2
  <2>4. r.given = s.given /\ r.held = s.held
    BY ONLY <2>1
  <2> DEFINE g == s.given \cup {b}
             h == s.held \cup {b}
  <2>5. P = [r EXCEPT !.given = g, !.held = h, !.waiting = NoCall, !.overrun = over]
    BY ONLY <2>3, <2>4
  <2> HIDE DEF g, h
  <2>6. P = [table |-> T, next |-> nx, given |-> g, held |-> h, waiting |-> NoCall, overrun |-> over]
    BY ONLY <2>1, <2>5
  <2> QED BY <2>6 DEF g, h
<1> HIDE DEF P
<1>12. P \in Process
  BY <1>3, <1>4, <1>8, <1>9, <1>11 DEF Process, Pool
<1>13. P.table = T /\ P.next = nx /\ P.given = s.given \cup {b}
  BY <1>11
<1>14. lines \o got.lines \in Seq(Line) /\ lines' \in Seq(Line)
  BY <1>1, <1>2, <1>3, <1>6
<1>15. ASSUME NEW U, NEW G, PoolsLogged(U, G, lines \o got.lines) PROVE PoolsLogged(U, G, lines')
  BY <1>2, <1>6, <1>14, <1>15, LoggedMore
<1>16. ASSUME NEW U, NEW G, PoolsLogged(U, G, lines) PROVE PoolsLogged(U, G, lines')
  BY <1>1, <1>3, <1>15, <1>16, LoggedMore
<1>17. PoolsApart(P.table, P.next, P.given) /\ PoolsLogged(P.table, P.given, lines')
  BY <1>7, <1>13, <1>15
<1> QED BY <1>2, <1>12, <1>14, <1>16, <1>17, OfOneProcess

\* A free is one more line.
LEMMA FreeLogged ==
  ASSUME PoolTableInv, NEW p \in Pids, NEW b \in Blocks, lines' = Append(lines, FreeLine(p, b))
  PROVE  /\ lines' \in Seq(Line)
         /\ \A T, G : PoolsLogged(T, G, lines) => PoolsLogged(T, G, lines')
<1> DEFINE e == FreeLine(p, b)
<1>1. e \in Line
  BY DEF FreeLine, Line, Blocks
<1>2. lines \in Seq(Line)
  BY DEF PoolTableInv, PoolTableTypeOK
<1> HIDE DEF e
<1>3. lines' = lines \o <<e>> /\ <<e>> \in Seq(Line)
  BY <1>1, <1>2 DEF e
<1>4. lines' \in Seq(Line)
  BY <1>2, <1>3
<1>5. \A T, G : PoolsLogged(T, G, lines) => PoolsLogged(T, G, lines')
  BY <1>2, <1>3, LoggedMore
<1> QED BY <1>4, <1>5

\* malloc and calloc.
LEMMA MallocKeeps ==
  ASSUME PoolTableInv, NEW p \in Started, NEW c \in ReturnAddrs, NEW n \in Requests,
         PoolMallocCall(p, c, n)
  PROVE  PoolTableInv'
<1>1. n \in Nat /\ poolcalls' \in Nat
  BY PoolTableAssumption DEF PoolTableAssumption, PoolMallocCall, PoolCall, PoolTableInv, PoolTableTypeOK
<1>2. Allocate(p, c, n, 0)
  BY DEF PoolMallocCall
<1> QED BY <1>1, <1>2, AllocateKeeps

\* free, which changes neither pools nor blocks.
LEMMA FreeKeeps ==
  ASSUME PoolTableInv, NEW p \in Started, NEW b \in procs[p].held, PoolFree(p, b)
  PROVE  PoolTableInv'
<1> DEFINE s == procs[p]
           P == [s EXCEPT !.held = @ \ {b}]
<1>1. p \in Pids /\ s \in Process /\ b \in Blocks /\ poolcalls' \in Nat
  <2>1. p \in Pids /\ s \in Process /\ poolcalls \in Nat
    BY DEF PoolTableInv, PoolTableTypeOK
  <2>2. s.held \in SUBSET Blocks
    BY <2>1 DEF Process
  <2>3. poolcalls' = poolcalls + 1
    BY DEF PoolFree, PoolCall
  <2> QED BY <2>1, <2>2, <2>3
<1>2. procs' = [procs EXCEPT ![p] = P] /\ lines' = Append(lines, FreeLine(p, b))
  BY DEF PoolFree
<1>3. PoolsApart(s.table, s.next, s.given) /\ PoolsLogged(s.table, s.given, lines)
  BY DEF PoolTableInv
<1> HIDE DEF s
<1>4. P \in Process /\ P.table = s.table /\ P.next = s.next /\ P.given = s.given
  BY <1>1 DEF Process
<1> HIDE DEF P
<1>5. /\ lines' \in Seq(Line)
      /\ \A T, G : PoolsLogged(T, G, lines) => PoolsLogged(T, G, lines')
  BY <1>1, <1>2, FreeLogged
<1>6. PoolsApart(P.table, P.next, P.given) /\ PoolsLogged(P.table, P.given, lines')
  BY <1>3, <1>4, <1>5
<1> QED BY <1>1, <1>2, <1>4, <1>5, <1>6, OfOneProcess

\* The first part of realloc, which keeps the call.
LEMMA ReallocBeginKeeps ==
  ASSUME PoolTableInv, NEW p \in Started, NEW c \in ReturnAddrs, NEW n \in Requests,
         NEW b \in procs[p].held, ReallocBegin(p, c, b, n)
  PROVE  PoolTableInv'
<1> DEFINE s == procs[p]
           w == [caller |-> c, size |-> n, from |-> b]
           P == [s EXCEPT !.held = @ \ {b}, !.waiting = w]
<1>1. /\ p \in Pids /\ s \in Process /\ b \in Blocks /\ poolcalls' \in Nat /\ n \in Nat \ {0}
  <2>1. p \in Pids /\ s \in Process /\ poolcalls \in Nat
    BY DEF PoolTableInv, PoolTableTypeOK
  <2>2. s.held \in SUBSET Blocks
    BY <2>1 DEF Process
  <2>3. poolcalls' = poolcalls + 1
    BY DEF ReallocBegin, PoolCall
  <2>4. n \in Nat \ {0}
    BY PoolTableAssumption DEF PoolTableAssumption
  <2> QED BY <2>1, <2>2, <2>3, <2>4
<1>2. procs' = [procs EXCEPT ![p] = P] /\ lines' = Append(lines, FreeLine(p, b))
  BY DEF ReallocBegin
<1>3. PoolsApart(s.table, s.next, s.given) /\ PoolsLogged(s.table, s.given, lines)
  BY DEF PoolTableInv
<1>4. w \in [caller : ReturnAddrs, size : Nat \ {0}, from : Blocks]
  BY <1>1
<1> HIDE DEF s, w
<1>5. P \in Process /\ P.table = s.table /\ P.next = s.next /\ P.given = s.given
  BY <1>1, <1>4 DEF Process
<1> HIDE DEF P
<1>6. /\ lines' \in Seq(Line)
      /\ \A T, G : PoolsLogged(T, G, lines) => PoolsLogged(T, G, lines')
  BY <1>1, <1>2, FreeLogged
<1>7. PoolsApart(P.table, P.next, P.given) /\ PoolsLogged(P.table, P.given, lines')
  BY <1>3, <1>5, <1>6
<1> QED BY <1>1, <1>2, <1>5, <1>6, <1>7, OfOneProcess

\* The second part.
LEMMA ReallocEndKeeps ==
  ASSUME PoolTableInv, NEW p \in Started, ReallocEnd(p)
  PROVE  PoolTableInv'
<1> DEFINE w == procs[p].waiting
<1>1. procs[p] \in Process /\ poolcalls \in Nat
  BY DEF PoolTableInv, PoolTableTypeOK
<1>2. w # NoCall /\ Allocate(p, w.caller, w.size, Copied(w.from)) /\ poolcalls' = poolcalls
  BY DEF ReallocEnd
<1>3. w \in [caller : ReturnAddrs, size : Nat \ {0}, from : Blocks]
  BY <1>1, <1>2 DEF Process
<1> HIDE DEF w
<1>4. w.caller \in ReturnAddrs /\ w.size \in Nat
  BY <1>3
<1> QED BY <1>1, <1>2, <1>4, AllocateKeeps

\* fork, whose child has the pools and the blocks of its parent.
LEMMA ForkKeeps ==
  ASSUME PoolTableInv, NEW p \in Started, NEW q \in Pids, Fork(p, q)
  PROVE  PoolTableInv'
<1>1. /\ procs' = [r \in Started \cup {q} |-> procs[IF r = q THEN p ELSE r]]
      /\ lines' = lines /\ poolcalls' = poolcalls
  BY DEF Fork
<1>2. /\ DOMAIN procs' = DOMAIN procs \cup {q}
      /\ \A r \in DOMAIN procs' : procs'[r] = IF r = q THEN procs[p] ELSE procs[r]
  BY <1>1 DEF Started
<1>3. \A r \in Started' : \E o \in Started : procs'[r] = procs[o]
  BY <1>2 DEF Started
<1>4. PoolTableTypeOK'
  BY <1>1, <1>2, <1>3 DEF PoolTableInv, PoolTableTypeOK, Started
<1>5. ASSUME NEW r \in Started'
      PROVE  /\ PoolsApart(procs'[r].table, procs'[r].next, procs'[r].given)
             /\ PoolsLogged(procs'[r].table, procs'[r].given, lines')
  <2>1. PICK o \in Started : procs'[r] = procs[o]
    BY <1>3
  <2>2. /\ PoolsApart(procs[o].table, procs[o].next, procs[o].given)
        /\ PoolsLogged(procs[o].table, procs[o].given, lines)
    BY DEF PoolTableInv
  <2> QED BY <1>1, <2>1, <2>2
<1> QED BY <1>4, <1>5 DEF PoolTableInv

-----------------------------------------------------------------------------
(* The pool tables: the theorems.                                          *)

\* At the start there is one process, with no pools.
LEMMA PoolTableInvAtStart == PoolTableInit => PoolTableInv
<1> SUFFICES ASSUME PoolTableInit PROVE PoolTableInv
  OBVIOUS
<1> DEFINE s == [table |-> <<>>, next |-> Alignment, given |-> {}, held |-> {},
                 waiting |-> NoCall, overrun |-> FALSE]
<1>1. Started = {Root} /\ procs[Root] = s /\ lines = <<>> /\ poolcalls = 0
  BY DEF PoolTableInit, Started
<1>2. Alignment \in Nat /\ Root \in Pids
  BY PoolTableAssumption DEF PoolTableAssumption
<1>3. s \in Process /\ s.table = <<>> /\ s.next = Alignment /\ s.given = {}
  BY <1>2 DEF Process
<1> HIDE DEF s
<1>4. PoolTableTypeOK
  BY <1>1, <1>2, <1>3 DEF PoolTableTypeOK
<1>5. <<>> \in Seq(Pool) /\ DOMAIN <<>> = {}
  OBVIOUS
<1>6. PoolsApart(<<>>, Alignment, {}) /\ PoolsLogged(<<>>, {}, lines)
  BY <1>2, <1>5 DEF PoolsApart, PoolsLogged
<1> QED BY <1>1, <1>3, <1>4, <1>6 DEF PoolTableInv

\* Every step keeps the pools apart and logged.
LEMMA PoolTableInvStep == PoolTableInv /\ [PoolTableNext]_poolvars => PoolTableInv'
<1> SUFFICES ASSUME PoolTableInv, [PoolTableNext]_poolvars PROVE PoolTableInv'
  OBVIOUS
<1>1. CASE UNCHANGED poolvars
  BY <1>1 DEF poolvars, PoolTableInv, PoolTableTypeOK, Started
<1>2. ASSUME NEW p \in Started, NEW c \in ReturnAddrs, NEW n \in Requests, PoolMallocCall(p, c, n)
      PROVE  PoolTableInv'
  BY <1>2, MallocKeeps
<1>3. ASSUME NEW p \in Started, NEW c \in ReturnAddrs, NEW n \in Requests,
             NEW b \in procs[p].held, ReallocBegin(p, c, b, n)
      PROVE  PoolTableInv'
  BY <1>3, ReallocBeginKeeps
<1>4. ASSUME NEW p \in Started, NEW b \in procs[p].held, PoolFree(p, b) PROVE PoolTableInv'
  BY <1>4, FreeKeeps
<1>5. ASSUME NEW p \in Started, ReallocEnd(p) PROVE PoolTableInv'
  BY <1>5, ReallocEndKeeps
<1>6. ASSUME NEW p \in Started, NEW q \in Pids, Fork(p, q) PROVE PoolTableInv'
  BY <1>6, ForkKeeps
<1> QED BY <1>1, <1>2, <1>3, <1>4, <1>5, <1>6 DEF PoolTableNext

\* In every reachable state the pools and the blocks of each process lie
\* apart, and each pool, and each block that was cut from one, is in a region
\* that was logged for its caller (pool_insert, pool_alloc, pool_expand).
THEOREM PoolsStayApart == PoolTableSpec => []PoolTableInv
<1>1. PoolTableInit => PoolTableInv
  BY PoolTableInvAtStart
<1>2. PoolTableInv /\ [PoolTableNext]_poolvars => PoolTableInv'
  BY PoolTableInvStep
<1> QED BY <1>1, <1>2, PTL DEF PoolTableSpec

\* That invariant is more than what data_record needs.
LEMMA ApartIsOnePool == PoolTableInv => OnePoolPerCaller
<1> SUFFICES ASSUME PoolTableInv, NEW p \in Started
    PROVE  /\ \A i, j \in DOMAIN procs[p].table :
                i # j => procs[p].table[i].caller # procs[p].table[j].caller
           /\ \A b \in procs[p].given : ~b.big =>
                /\ Search(procs[p].table, b.caller) # 0
                /\ \E i \in DOMAIN lines :
                     /\ lines[i].kind = "myi" /\ lines[i].caller = b.caller
                     /\ lines[i].begin <= b.at - HeadSize
                     /\ b.at + b.size <= lines[i].end
           /\ \A x, y \in procs[p].given :
                x # y => \/ x.at + x.size <= y.at - HeadSize
                         \/ y.at + y.size <= x.at - HeadSize
  BY DEF OnePoolPerCaller
<1> DEFINE T == procs[p].table
           G == procs[p].given
<1>1. PoolsApart(T, procs[p].next, G) /\ PoolsLogged(T, G, lines)
  BY DEF PoolTableInv
<1>2. T \in Seq(Pool)
  BY <1>1 DEF PoolsApart
<1> HIDE DEF T, G
<1>3. \A i, j \in DOMAIN T : i # j => T[i].caller # T[j].caller
  BY <1>1 DEF PoolsApart
<1>4. \A x, y \in G : x # y => x.at + x.size <= y.at - HeadSize \/ y.at + y.size <= x.at - HeadSize
  BY <1>1 DEF PoolsApart, Apart
<1>5. ASSUME NEW b \in G, ~b.big
      PROVE  /\ Search(T, b.caller) # 0
             /\ \E i \in DOMAIN lines :
                  /\ lines[i].kind = "myi" /\ lines[i].caller = b.caller
                  /\ lines[i].begin <= b.at - HeadSize
                  /\ b.at + b.size <= lines[i].end
  <2>1. PICK i \in DOMAIN T : T[i].caller = b.caller
    BY <1>1, <1>5 DEF PoolsLogged
  <2>2. Search(T, b.caller) # 0
    BY <1>2, <2>1, SearchFinds
  <2>3. PICK k \in DOMAIN lines : Covers(lines[k], b.caller, b.at - HeadSize, b.at + b.size)
    BY <1>1, <1>5 DEF PoolsLogged, IsLogged
  <2> QED BY <2>2, <2>3 DEF Covers
<1> QED BY <1>3, <1>4, <1>5 DEF T, G

\* No pool is lost or doubled, a block that is logged lies in a region that
\* only its caller has, and no two blocks of a process share a byte
\* (pool_insert, pool_alloc, pool_expand).
THEOREM CallersHaveOnePool == PoolTableSpec => []OnePoolPerCaller
<1>1. PoolTableInv => OnePoolPerCaller
  BY ApartIsOnePool
<1> QED BY <1>1, PoolsStayApart, PTL

-----------------------------------------------------------------------------
(* The tracing client: its invariant.                                      *)

\* What the notes s of process pid are when they are printed.
Printed(pid, s) ==
  [k \in DOMAIN s |-> [pid |-> pid, addr |-> s[k].addr, size |-> s[k].size, rw |-> s[k].rw]]

\* What a thread wrote, has in its stream and in its buffer is what is due.
Owed(d, due) ==
  /\ d \in PerThread
  /\ d.out \o d.stream \o Printed(d.pid, d.buf) = due
  /\ Len(d.buf) < MaxRefs /\ Len(d.stream) <= StreamRecords
  /\ d.state = "exited" => d.buf = <<>> /\ d.stream = <<>>

Made == [refs : Seq(Ref), notes : Seq(Ref), records : Seq(Record)]

TraceInv ==
  /\ fifo \in Seq(Record) /\ DOMAIN data \subseteq Threads /\ DOMAIN made = DOMAIN data
  /\ \A t \in DOMAIN data : made[t] \in Made /\ Owed(data[t], Due(t))

-----------------------------------------------------------------------------
(* Printing.                                                               *)

\* The printed notes are records, as many as the notes.
LEMMA PrintedIs ==
  ASSUME NEW pid \in Threads, NEW s \in Seq(Ref)
  PROVE  /\ Printed(pid, s) \in Seq(Record) /\ Len(Printed(pid, s)) = Len(s)
         /\ \A k \in 1..Len(s) : Printed(pid, s)[k] =
              [pid |-> pid, addr |-> s[k].addr, size |-> s[k].size, rw |-> s[k].rw]
<1> DEFINE rec(k) == [pid |-> pid, addr |-> s[k].addr, size |-> s[k].size, rw |-> s[k].rw]
<1>1. Len(s) \in Nat /\ DOMAIN s = 1..Len(s)
  BY LenProperties
<1>2. ASSUME NEW k \in 1..Len(s) PROVE rec(k) \in Record
  <2>1. s[k] \in Ref
    BY ElementOfSeq
  <2> QED BY <2>1 DEF Ref, Record
<1>3. Printed(pid, s) = [k \in 1..Len(s) |-> rec(k)]
  BY <1>1 DEF Printed
<1> HIDE DEF rec
<1>4. [k \in 1..Len(s) |-> rec(k)] \in [1..Len(s) -> Record]
  BY <1>2
<1>5. Printed(pid, s) \in Seq(Record)
  BY <1>1, <1>3, <1>4, SeqDef
<1>6. Len(Printed(pid, s)) = Len(s)
  BY <1>1, <1>3, <1>5
<1> QED BY <1>3, <1>5, <1>6 DEF rec

\* One note more is one record more.
LEMMA PrintedMore ==
  ASSUME NEW pid \in Threads, NEW s \in Seq(Ref), NEW u \in Seq(Ref)
  PROVE  Printed(pid, s \o u) = Printed(pid, s) \o Printed(pid, u)
<1> DEFINE x == Printed(pid, s \o u)
           y == Printed(pid, s) \o Printed(pid, u)
<1>1. /\ s \o u \in Seq(Ref) /\ Len(s \o u) = Len(s) + Len(u) /\ Len(s) \in Nat /\ Len(u) \in Nat
      /\ \A k \in 1..(Len(s) + Len(u)) : (s \o u)[k] = IF k <= Len(s) THEN s[k] ELSE u[k - Len(s)]
  BY ConcatProperties, LenProperties
<1>2. /\ x \in Seq(Record) /\ Len(x) = Len(s) + Len(u)
      /\ \A k \in 1..(Len(s) + Len(u)) : x[k] =
           [pid |-> pid, addr |-> (s \o u)[k].addr, size |-> (s \o u)[k].size, rw |-> (s \o u)[k].rw]
  BY <1>1, PrintedIs
<1>3. /\ Printed(pid, s) \in Seq(Record) /\ Len(Printed(pid, s)) = Len(s)
      /\ Printed(pid, u) \in Seq(Record) /\ Len(Printed(pid, u)) = Len(u)
      /\ \A k \in 1..Len(s) : Printed(pid, s)[k] =
           [pid |-> pid, addr |-> s[k].addr, size |-> s[k].size, rw |-> s[k].rw]
      /\ \A k \in 1..Len(u) : Printed(pid, u)[k] =
           [pid |-> pid, addr |-> u[k].addr, size |-> u[k].size, rw |-> u[k].rw]
  BY PrintedIs
<1> DEFINE a == Printed(pid, s)
           b == Printed(pid, u)
<1>4. /\ y \in Seq(Record) /\ Len(y) = Len(s) + Len(u)
      /\ \A k \in 1..(Len(s) + Len(u)) : y[k] = IF k <= Len(s) THEN a[k] ELSE b[k - Len(s)]
  <2>0. a \in Seq(Record) /\ b \in Seq(Record) /\ Len(a) = Len(s) /\ Len(b) = Len(u)
    BY <1>3
  <2> HIDE DEF a, b
  <2>1. /\ a \o b \in Seq(Record) /\ Len(a \o b) = Len(a) + Len(b)
        /\ \A k \in 1..(Len(a) + Len(b)) : (a \o b)[k] = IF k <= Len(a) THEN a[k] ELSE b[k - Len(a)]
    BY <2>0, ConcatProperties
  <2>2. y = a \o b
    BY DEF a, b
  <2> HIDE DEF y
  <2> QED BY <2>0, <2>1, <2>2
<1> HIDE DEF x, y, a, b
<1>5. ASSUME NEW k \in 1..(Len(s) + Len(u)) PROVE x[k] = y[k]
  <2>1. CASE k <= Len(s)
    <3>1. k \in 1..Len(s)
      BY <1>1, <2>1
    <3> QED BY <1>1, <1>2, <1>3, <1>4, <2>1, <3>1 DEF a
  <2>2. CASE ~(k <= Len(s))
    <3>1. k - Len(s) \in 1..Len(u)
      BY <1>1, <2>2
    <3> QED BY <1>1, <1>2, <1>3, <1>4, <2>2, <3>1 DEF b
  <2> QED BY <2>1, <2>2
<1> QED BY <1>2, <1>4, <1>5, SeqEqual DEF x, y

\* Records may be joined in any order.
LEMMA RecordsJoin ==
  ASSUME NEW a \in Seq(Record), NEW b \in Seq(Record), NEW c \in Seq(Record)
  PROVE  (a \o b) \o c = a \o (b \o c) /\ a \o b \in Seq(Record)
BY ConcatAssociative, ConcatProperties, SMTT(30)

\* One sequence of records after another.
LEMMA RecordsAre ==
  ASSUME NEW a \in Seq(Record), NEW b \in Seq(Record)
  PROVE  /\ a \o b \in Seq(Record) /\ Len(a \o b) = Len(a) + Len(b)
         /\ \A i \in 1..(Len(a) + Len(b)) :
              (a \o b)[i] = IF i <= Len(a) THEN a[i] ELSE b[i - Len(a)]
BY ConcatProperties, SMTT(30)

\* Cutting a sequence in two loses nothing.
LEMMA CutInTwo ==
  ASSUME NEW S, NEW s \in Seq(S), NEW n \in 0..Len(s)
  PROVE  /\ SubSeq(s, 1, n) \in Seq(S) /\ SubSeq(s, n + 1, Len(s)) \in Seq(S)
         /\ Len(SubSeq(s, n + 1, Len(s))) = Len(s) - n
         /\ SubSeq(s, 1, n) \o SubSeq(s, n + 1, Len(s)) = s
<1>1. Len(s) \in Nat /\ n \in Int /\ \A i \in 1..Len(s) : s[i] \in S
  BY LenProperties, ElementOfSeq
<1>2. SubSeq(s, 1, n) \in Seq(S)
  <2>1. \A i \in 1..n : s[i] \in S
    BY <1>1
  <2> QED BY <1>1, <2>1, SubSeqProperties
<1>3. SubSeq(s, n + 1, Len(s)) \in Seq(S) /\ Len(SubSeq(s, n + 1, Len(s))) = Len(s) - n
  <2>1. (\A i \in (n + 1)..Len(s) : s[i] \in S) /\ n + 1 \in Int /\ Len(s) \in Int
    BY <1>1
  <2>2. /\ SubSeq(s, n + 1, Len(s)) \in Seq(S)
        /\ Len(SubSeq(s, n + 1, Len(s))) = IF n + 1 <= Len(s) THEN Len(s) - (n + 1) + 1 ELSE 0
    BY <2>1, SubSeqProperties
  <2> QED BY <1>1, <2>2
<1>4. SubSeq(s, 1, n) \o SubSeq(s, n + 1, Len(s)) = SubSeq(s, 1, Len(s))
  <2>1. 1 \in 1..(Len(s) + 1) /\ n \in (1 - 1)..Len(s) /\ Len(s) \in n..Len(s)
    BY <1>1
  <2> QED BY <2>1, ConcatAdjacentSubSeq
<1>5. SubSeq(s, 1, Len(s)) = s
  BY SubSeqFull
<1> QED BY <1>2, <1>3, <1>4, <1>5

\* What is flushed is a part of the records, and what is left fits the buffer
\* of a FILE.
LEMMA FlushedLeaves ==
  ASSUME NEW n \in Nat
  PROVE  Flushed(n) \in 0..n /\ n - Flushed(n) <= StreamRecords
<1> DEFINE r == StreamRecords
           k == n - 1
           q == k \div r
<1>1. r \in Nat /\ r > 0
  BY MemTraceAssumption DEF MemTraceAssumption
<1>2. CASE n = 0
  BY <1>1, <1>2 DEF Flushed
<1>3. CASE n # 0
  <2>1. k \in Nat /\ n = k + 1
    BY <1>3
  <2> HIDE DEF k
  <2>2. q \in Nat /\ k = r * q + (k % r) /\ k % r \in 0..(r - 1)
    BY <1>1, <2>1
  <2>3. Flushed(n) = q * r
    BY <1>3 DEF Flushed, k
  <2> HIDE DEF r, q
  <2>4. r * q \in Nat /\ q * r = r * q
    BY <1>1, <2>2
  <2>5. r * q \in 0..n /\ n - r * q <= r
    BY <1>1, <2>1, <2>2, <2>4
  <2> QED BY <2>3, <2>4, <2>5 DEF r
<1> QED BY <1>2, <1>3

-----------------------------------------------------------------------------
(* memtrace and the code in front of a reference.                          *)

\* A dump prints the notes and writes the full buffers of the stream.
LEMMA DumpIs ==
  ASSUME NEW d \in PerThread, d.pid \in Threads
  PROVE  /\ Dump(d) \in PerThread /\ Dump(d).pid = d.pid /\ Dump(d).state = d.state
         /\ Dump(d).buf = <<>> /\ Len(Dump(d).stream) <= StreamRecords
         /\ Dump(d).out \o Dump(d).stream = d.out \o d.stream \o Printed(d.pid, d.buf)
         /\ \E more \in Seq(Record) : Dump(d).out = d.out \o more
<1> DEFINE records == d.stream \o Printed(d.pid, d.buf)
           whole   == Flushed(Len(records))
           left    == SubSeq(records, whole + 1, Len(records))
           gone    == SubSeq(records, 1, whole)
<1>1. /\ d.buf \in Seq(Ref) /\ d.stream \in Seq(Record) /\ d.out \in Seq(Record)
      /\ d.num_refs \in Nat /\ d.state \in {"runs", "exited", "killed"}
  BY DEF PerThread
<1>2. /\ d = [pid |-> d.pid, buf |-> d.buf, stream |-> d.stream, num_refs |-> d.num_refs,
              out |-> d.out, state |-> d.state]
  BY DEF PerThread
<1>3. Printed(d.pid, d.buf) \in Seq(Record)
  BY <1>1, PrintedIs
<1>4. records \in Seq(Record) /\ Len(records) \in Nat
  BY <1>1, <1>3, ConcatProperties, LenProperties
<1>5. Dump(d) = [d EXCEPT !.out = d.out \o gone, !.stream = left,
                          !.num_refs = d.num_refs + Len(d.buf), !.buf = <<>>]
  BY <1>2 DEF Dump, Printed
<1> HIDE DEF records
<1>6. whole \in 0..Len(records) /\ Len(records) - whole <= StreamRecords
  BY <1>4, FlushedLeaves
<1> HIDE DEF whole
<1>7. /\ gone \in Seq(Record) /\ left \in Seq(Record) /\ Len(left) = Len(records) - whole
      /\ gone \o left = records
  BY <1>4, <1>6, CutInTwo
<1> HIDE DEF gone, left
<1>8. d.out \o gone \in Seq(Record) /\ Len(d.buf) \in Nat /\ d.num_refs + Len(d.buf) \in Nat
  BY <1>1, <1>7, ConcatProperties, LenProperties
<1> DEFINE o == d.out \o gone
           m == d.num_refs + Len(d.buf)
<1>9. Dump(d) = [pid |-> d.pid, buf |-> <<>>, stream |-> left, num_refs |-> m,
                 out |-> o, state |-> d.state]
  <2>1. Dump(d) = [d EXCEPT !.out = o, !.stream = left, !.num_refs = m, !.buf = <<>>]
    BY <1>5
  <2> HIDE DEF o, m
  <2> QED BY <1>2, <2>1
<1>10. Dump(d) \in PerThread
  <2>1. o \in Seq(Record) /\ m \in Nat /\ <<>> \in Seq(Ref)
    BY <1>8
  <2> HIDE DEF o, m
  <2> QED BY <1>1, <1>7, <1>9, <2>1 DEF PerThread
<1>11. /\ Dump(d).pid = d.pid /\ Dump(d).state = d.state /\ Dump(d).buf = <<>>
       /\ Dump(d).stream = left /\ Dump(d).out = d.out \o gone
  BY <1>9
<1>12. d.out \o gone \o left = d.out \o d.stream \o Printed(d.pid, d.buf)
  <2>1. (d.out \o gone) \o left = d.out \o (gone \o left)
    BY <1>1, <1>7, RecordsJoin
  <2>2. (d.out \o d.stream) \o Printed(d.pid, d.buf) = d.out \o (d.stream \o Printed(d.pid, d.buf))
    BY <1>1, <1>3, RecordsJoin
  <2> QED BY <1>7, <2>1, <2>2 DEF records
<1>13. Len(left) <= StreamRecords
  BY <1>6, <1>7
<1> QED BY <1>7, <1>10, <1>11, <1>12, <1>13

\* A reference is noted, and is due from then on.
LEMMA NoteKeeps ==
  ASSUME NEW d, NEW due, Owed(d, due), d.state # "exited", d.pid \in Threads, NEW ref \in Ref
  PROVE  /\ Owed(Note(d, ref), due \o Printed(d.pid, <<ref>>))
         /\ Note(d, ref).pid = d.pid /\ Note(d, ref).state = d.state
         /\ \E more \in Seq(Record) : Note(d, ref).out = d.out \o more
<1> DEFINE e == [d EXCEPT !.buf = Append(@, ref)]
           one == Printed(d.pid, <<ref>>)
<1>1. /\ d.buf \in Seq(Ref) /\ d.stream \in Seq(Record) /\ d.out \in Seq(Record)
      /\ d \in PerThread /\ Len(d.buf) \in Nat /\ Len(d.buf) < MaxRefs
      /\ Len(d.stream) <= StreamRecords /\ d.out \o d.stream \o Printed(d.pid, d.buf) = due
  BY LenProperties DEF PerThread, Owed
<1>2. /\ MaxRefs \in Nat /\ MaxRefs > 0
  BY MemTraceAssumption DEF MemTraceAssumption
<1>3. <<ref>> \in Seq(Ref) /\ Append(d.buf, ref) = d.buf \o <<ref>>
      /\ Append(d.buf, ref) \in Seq(Ref) /\ Len(Append(d.buf, ref)) = Len(d.buf) + 1
  BY <1>1, AppendProperties, AppendIsConcat
<1>4. /\ e \in PerThread /\ e.pid = d.pid /\ e.state = d.state /\ e.out = d.out
      /\ e.stream = d.stream /\ e.buf = Append(d.buf, ref)
  BY <1>1, <1>3 DEF PerThread
<1>5. Note(d, ref) = IF Len(e.buf) >= MaxRefs THEN Dump(e) ELSE e
  BY DEF Note
<1> HIDE DEF e
<1>6. one \in Seq(Record) /\ Printed(d.pid, d.buf) \in Seq(Record)
      /\ Printed(e.pid, e.buf) = Printed(d.pid, d.buf) \o one
  <2>1. one \in Seq(Record) /\ Printed(d.pid, d.buf) \in Seq(Record)
    BY <1>1, <1>3, PrintedIs
  <2>2. Printed(d.pid, d.buf \o <<ref>>) = Printed(d.pid, d.buf) \o Printed(d.pid, <<ref>>)
    BY <1>1, <1>3, PrintedMore
  <2>3. Printed(e.pid, e.buf) = Printed(d.pid, d.buf \o <<ref>>)
    BY <1>3, <1>4
  <2> QED BY <2>1, <2>2, <2>3
<1> HIDE DEF one
<1>7. e.out \o e.stream \o Printed(e.pid, e.buf) = due \o one
  <2> DEFINE x == d.out \o d.stream
  <2>1. x \in Seq(Record)
    BY <1>1, ConcatProperties
  <2>2. e.out \o e.stream \o Printed(e.pid, e.buf) = x \o (Printed(d.pid, d.buf) \o one)
    BY <1>4, <1>6
  <2>3. due = x \o Printed(d.pid, d.buf)
    BY <1>1
  <2> HIDE DEF x
  <2>4. x \o (Printed(d.pid, d.buf) \o one) = (x \o Printed(d.pid, d.buf)) \o one
    BY <1>6, <2>1, ConcatAssociative, SMTT(30)
  <2> QED BY <2>2, <2>3, <2>4
<1>8. CASE Len(e.buf) >= MaxRefs
  <2>1. Note(d, ref) = Dump(e)
    BY <1>5, <1>8
  <2>2. /\ Dump(e) \in PerThread /\ Dump(e).pid = e.pid /\ Dump(e).state = e.state
        /\ Dump(e).buf = <<>> /\ Len(Dump(e).stream) <= StreamRecords
        /\ Dump(e).out \o Dump(e).stream = e.out \o e.stream \o Printed(e.pid, e.buf)
        /\ \E more \in Seq(Record) : Dump(e).out = e.out \o more
    BY <1>4, DumpIs
  <2> DEFINE f == Dump(e)
  <2>3. f \in PerThread /\ f.buf = <<>> /\ f.out \o f.stream = due \o one
    BY <1>7, <2>2
  <2>4. f.out \o f.stream \o Printed(f.pid, f.buf) = due \o one
    <3>1. Printed(f.pid, f.buf) = <<>>
      BY <2>3 DEF Printed
    <3>2. f.out \o f.stream \in Seq(Record)
      BY <2>3, ConcatProperties DEF PerThread
    <3> HIDE DEF f
    <3>3. f.out \o f.stream \o <<>> = f.out \o f.stream
      BY <3>2, ConcatEmptySeq
    <3> QED BY <2>3, <3>1, <3>3
  <2>5. Len(f.buf) < MaxRefs /\ Len(f.stream) <= StreamRecords /\ f.state # "exited"
    BY <1>2, <1>4, <2>2
  <2> HIDE DEF f
  <2>6. Owed(f, due \o one)
    BY <2>3, <2>4, <2>5 DEF Owed
  <2> QED BY <1>4, <2>1, <2>2, <2>6 DEF f, one
<1>9. CASE ~(Len(e.buf) >= MaxRefs)
  <2>1. Note(d, ref) = e
    BY <1>5, <1>9
  <2>2. Len(e.buf) < MaxRefs
    BY <1>1, <1>2, <1>3, <1>4, <1>9
  <2>3. Owed(e, due \o one)
    BY <1>1, <1>4, <1>7, <2>2 DEF Owed
  <2>4. d.out = d.out \o <<>> /\ <<>> \in Seq(Record)
    BY <1>1, ConcatEmptySeq
  <2> QED BY <1>4, <2>1, <2>3, <2>4 DEF one
<1> QED BY <1>8, <1>9

-----------------------------------------------------------------------------
(* The references of an instruction.                                       *)

\* The reads and the writes are references.
LEMMA InstrumentedIs ==
  ASSUME NEW i \in Instructions
  PROVE  Instrumented(i) \in Seq(Ref)
<1> DEFINE reads  == [k \in DOMAIN i.reads |-> [addr |-> i.reads[k].addr, size |-> i.reads[k].size,
                                                rw |-> "r"]]
           writes == [k \in DOMAIN i.writes |-> [addr |-> i.writes[k].addr,
                                                 size |-> i.writes[k].size, rw |-> "w"]]
<1>1. i.reads \in Seq(ToSet(i.reads)) /\ i.writes \in Seq(ToSet(i.writes))
  BY MemTraceAssumption DEF MemTraceAssumption
<1>2. ToSet(i.reads) \subseteq References /\ ToSet(i.writes) \subseteq References
  BY DEF References
<1>3. /\ i.reads \in Seq(References) /\ i.writes \in Seq(References)
  BY <1>1, <1>2, SeqMonotonic
<1>4. reads \in Seq(Ref)
  <2> DEFINE s == i.reads
             f(k) == [addr |-> s[k].addr, size |-> s[k].size, rw |-> "r"]
  <2>1. Len(s) \in Nat /\ DOMAIN s = 1..Len(s)
    BY <1>3, LenProperties
  <2>2. \A k \in 1..Len(s) : s[k] \in References
    BY <1>3, ElementOfSeq
  <2>3. \A k \in 1..Len(s) : f(k) \in Ref
    BY <2>2 DEF Ref
  <2>4. reads = [k \in 1..Len(s) |-> f(k)]
    BY <2>1
  <2> HIDE DEF f, s, reads
  <2>5. [k \in 1..Len(s) |-> f(k)] \in [1..Len(s) -> Ref]
    BY <2>3
  <2> QED BY <2>1, <2>4, <2>5, SeqDef
<1>5. writes \in Seq(Ref)
  <2> DEFINE s == i.writes
             f(k) == [addr |-> s[k].addr, size |-> s[k].size, rw |-> "w"]
  <2>1. Len(s) \in Nat /\ DOMAIN s = 1..Len(s)
    BY <1>3, LenProperties
  <2>2. \A k \in 1..Len(s) : s[k] \in References
    BY <1>3, ElementOfSeq
  <2>3. \A k \in 1..Len(s) : f(k) \in Ref
    BY <2>2 DEF Ref
  <2>4. writes = [k \in 1..Len(s) |-> f(k)]
    BY <2>1
  <2> HIDE DEF f, s, writes
  <2>5. [k \in 1..Len(s) |-> f(k)] \in [1..Len(s) -> Ref]
    BY <2>3
  <2> QED BY <2>1, <2>4, <2>5, SeqDef
<1> HIDE DEF reads, writes
<1>6. reads \o writes \in Seq(Ref)
  BY <1>4, <1>5, ConcatProperties
<1> QED BY <1>6 DEF Instrumented, reads, writes

\* The function it is what FoldLeft computes the buffer after the references s with.
IsNoting(it, d, s) ==
  it = [t \in SUBSET DOMAIN s |->
          IF t = {} THEN d ELSE LET x == Max(t) IN Note(it[t \ {x}], s[x])]

\* A nonempty set of indices has a greatest element.
LEMMA GreatestNote ==
  ASSUME NEW N \in Nat, NEW T, T \subseteq 1..N, T # {}
  PROVE  Max(T) \in T /\ \A j \in T : Max(T) >= j
<1> DEFINE B == {N - k : k \in T}
<1>0. \A k \in T : k \in 1..N /\ k \in Nat /\ N - k \in Nat
  <2> SUFFICES ASSUME NEW k \in T PROVE k \in 1..N /\ k \in Nat /\ N - k \in Nat
    OBVIOUS
  <2>1. k \in 1..N
    OBVIOUS
  <2> QED BY <2>1
<1>1. B \subseteq Nat /\ B # {}
  BY <1>0
<1>2. PICK m \in B : \A k \in B : m <= k
  <2> HIDE DEF B
  <2> QED BY <1>1, LeastNatural
<1>3. PICK x \in T : m = N - x
  BY <1>2
<1>4. \A y \in T : x >= y
  <2> SUFFICES ASSUME NEW y \in T PROVE x >= y
    OBVIOUS
  <2>1. N - x <= N - y /\ x \in Nat /\ y \in Nat
    BY <1>0, <1>2, <1>3
  <2> QED BY <2>1
<1> QED BY <1>3, <1>4, Zenon DEF Max

\* FoldLeft has such a function to choose.
LEMMA NotingExists ==
  ASSUME NEW s \in Seq(Ref), NEW d
  PROVE  \E it : IsNoting(it, d, s)
<1> DEFINE D == DOMAIN s
           Step(g, t) == IF t = {} THEN d ELSE Note(g[t \ {Max(t)}], s[Max(t)])
           S == {n \in Nat : \E g : g = [t \in Sized(D, n) |-> Step(g, t)]}
<1>1. D = 1..Len(s) /\ Len(s) \in Nat /\ IsFiniteSet(D)
  BY FS_Interval
<1>2. 0 \in S
  <2> DEFINE g == [t \in {{}} |-> d]
  <2>1. g = [t \in {{}} |-> Step(g, t)]
    OBVIOUS
  <2> HIDE DEF g, Step
  <2> QED BY <1>1, <2>1, SmallSets
<1>3. ASSUME NEW n \in Nat, n \in S PROVE n + 1 \in S
  <2>1. PICK g : g = [t \in Sized(D, n) |-> Step(g, t)]
    BY <1>3
  <2> DEFINE h == [t \in Sized(D, n + 1) |-> Step(g, t)]
  <2>2. ASSUME NEW t \in Sized(D, n) PROVE h[t] = g[t]
    <3>1. t \in Sized(D, n + 1)
      BY <1>1, SmallSets
    <3>2. g[t] = Step(g, t)
      BY <2>1
    <3> QED BY <3>1, <3>2
  <2>3. ASSUME NEW t \in Sized(D, n + 1) PROVE Step(g, t) = Step(h, t)
    <3>1. CASE t # {}
      <4>1. Max(t) \in t
        BY <1>1, <3>1, GreatestNote DEF Sized
      <4>2. t \ {Max(t)} \in Sized(D, n)
        BY <1>1, <4>1, SmallerSet
      <4> QED BY <2>2, <4>2
    <3> QED BY <3>1
  <2>4. h = [t \in Sized(D, n + 1) |-> Step(h, t)]
    <3> HIDE DEF Step
    <3> QED BY <2>3
  <2> HIDE DEF h, Step
  <2> QED BY <2>4
<1>4. Cardinality(D) \in S
  <2> HIDE DEF S
  <2> QED BY <1>1, <1>2, <1>3, SetInduction, SmallSets
<1>5. PICK g : g = [t \in SUBSET D |-> Step(g, t)]
  <2>1. PICK g : g = [t \in Sized(D, Cardinality(D)) |-> Step(g, t)]
    BY <1>4
  <2>2. g = [t \in SUBSET D |-> Step(g, t)]
    <3> HIDE DEF Step
    <3> QED BY <1>1, <2>1, SmallSets
  <2> QED BY <2>2
<1> QED BY <1>5 DEF IsNoting

\* The thread d after the first n references of s, when due was due before.
Noted(e, d, due, s, n) ==
  /\ Owed(e, due \o Printed(d.pid, SubSeq(s, 1, n))) /\ e.pid = d.pid /\ e.state = d.state
  /\ \E more \in Seq(Record) : e.out = d.out \o more

\* One reference more.
LEMMA NotedMore ==
  ASSUME NEW d \in PerThread, NEW due \in Seq(Record), d.state # "exited",
         NEW s \in Seq(Ref), NEW n \in Nat, n + 1 <= Len(s),
         NEW e, Noted(e, d, due, s, n)
  PROVE  Noted(Note(e, s[n + 1]), d, due, s, n + 1)
<1> DEFINE before == SubSeq(s, 1, n)
           p      == due \o Printed(d.pid, before)
           one    == <<s[n + 1]>>
           f      == Note(e, s[n + 1])
<1>1. Len(s) \in Nat /\ n + 1 \in 1..Len(s) /\ s[n + 1] \in Ref /\ d.pid \in Threads
      /\ d.out \in Seq(Record)
  <2>1. Len(s) \in Nat
    BY LenProperties
  <2>2. n + 1 \in 1..Len(s)
    BY <2>1
  <2>3. s[n + 1] \in Ref
    BY <2>2, ElementOfSeq
  <2> QED BY <2>1, <2>2, <2>3 DEF PerThread
<1>2. before \in Seq(Ref) /\ one \in Seq(Ref) /\ SubSeq(s, 1, n + 1) = before \o one
  <2>1. n \in 0..Len(s)
    BY <1>1
  <2>2. before \in Seq(Ref)
    BY <2>1, CutInTwo
  <2>3. SubSeq(s, 1, n + 1) = Append(SubSeq(s, 1, (n + 1) - 1), s[n + 1])
    <3>1. 1 \in 1..Len(s) /\ n + 1 \in 1..Len(s)
      BY <1>1
    <3> QED BY <3>1, SubSeqRecursiveSecond
  <2>4. (n + 1) - 1 = n
    OBVIOUS
  <2>5. Append(before, s[n + 1]) = before \o one
    BY <1>1, <2>2, AppendIsConcat
  <2>6. one \in Seq(Ref)
    BY <1>1
  <2> QED BY <2>2, <2>3, <2>4, <2>5, <2>6
<1>3. /\ Owed(e, p) /\ e.pid = d.pid /\ e.state = d.state
      /\ \E more \in Seq(Record) : e.out = d.out \o more
  BY DEF Noted
<1>4. /\ Owed(f, p \o Printed(d.pid, one)) /\ f.pid = d.pid /\ f.state = d.state
      /\ \E more \in Seq(Record) : f.out = e.out \o more
  <2> HIDE DEF p
  <2> QED BY <1>1, <1>3, NoteKeeps
<1>5. p \o Printed(d.pid, one) = due \o Printed(d.pid, SubSeq(s, 1, n + 1))
  <2> HIDE DEF before, one
  <2>1. Printed(d.pid, before) \in Seq(Record) /\ Printed(d.pid, one) \in Seq(Record)
    BY <1>1, <1>2, PrintedIs
  <2>2. Printed(d.pid, before \o one) = Printed(d.pid, before) \o Printed(d.pid, one)
    BY <1>1, <1>2, PrintedMore
  <2> DEFINE a == Printed(d.pid, before)
             b == Printed(d.pid, one)
  <2>3. /\ a \in Seq(Record) /\ b \in Seq(Record) /\ p = due \o a
        /\ p \o Printed(d.pid, one) = (due \o a) \o b
        /\ due \o Printed(d.pid, SubSeq(s, 1, n + 1)) = due \o (a \o b)
    BY <1>2, <2>1, <2>2
  <2> HIDE DEF a, b, p
  <2>4. (due \o a) \o b = due \o (a \o b)
    BY <2>3, RecordsJoin
  <2> QED BY <2>3, <2>4
<1>6. \E more \in Seq(Record) : f.out = d.out \o more
  <2>1. PICK a \in Seq(Record) : e.out = d.out \o a
    BY <1>3
  <2>2. PICK b \in Seq(Record) : f.out = e.out \o b
    BY <1>4
  <2> HIDE DEF f
  <2>3. (d.out \o a) \o b = d.out \o (a \o b) /\ a \o b \in Seq(Record)
    <3> DEFINE o == d.out
    <3>1. o \in Seq(Record)
      BY <1>1
    <3> HIDE DEF o
    <3>2. (o \o a) \o b = o \o (a \o b)
      BY <3>1, RecordsJoin
    <3>3. a \o b \in Seq(Record)
      BY RecordsJoin
    <3> QED BY <3>2, <3>3 DEF o
  <2>4. f.out = (d.out \o a) \o b
    BY <2>1, <2>2
  <2> QED BY <2>3, <2>4
<1> HIDE DEF p, f, one, before
<1> QED BY <1>4, <1>5, <1>6 DEF Noted, f

\* All the references of an instruction: every one is due from then on, in
\* their order.
LEMMA AllNoted ==
  ASSUME NEW d \in PerThread, NEW due \in Seq(Record), Owed(d, due), d.state # "exited",
         NEW s \in Seq(Ref)
  PROVE  Noted(FoldLeft(Note, d, s), d, due, s, Len(s))
<1>1. FoldLeft(Note, d, s) = (CHOOSE it : IsNoting(it, d, s))[DOMAIN s]
  BY DEF FoldLeft, MapThenFoldSet, IsNoting
<1>2. PICK it : IsNoting(it, d, s) /\ FoldLeft(Note, d, s) = it[DOMAIN s]
  BY <1>1, NotingExists
<1>3. Len(s) \in Nat /\ DOMAIN s = 1..Len(s)
  BY LenProperties
<1> DEFINE S == {n \in Nat : n <= Len(s) => Noted(it[1..n], d, due, s, n)}
<1>4. 0 \in S
  <2>1. 1..0 = {} /\ {} \in SUBSET DOMAIN s
    OBVIOUS
  <2>2. it[1..0] = d
    BY <1>2, <2>1 DEF IsNoting
  <2>3. SubSeq(s, 1, 0) = <<>>
    BY SubSeqEmpty
  <2>4. Printed(d.pid, SubSeq(s, 1, 0)) = <<>>
    BY <2>3 DEF Printed
  <2>5. due \o Printed(d.pid, SubSeq(s, 1, 0)) = due
    BY <2>4, ConcatEmptySeq
  <2>6. d.out \in Seq(Record) /\ <<>> \in Seq(Record)
    BY DEF PerThread
  <2>7. d.out = d.out \o <<>>
    BY <2>6, ConcatEmptySeq
  <2>8. Noted(d, d, due, s, 0)
    BY <2>5, <2>6, <2>7 DEF Noted
  <2> QED BY <2>2, <2>8
<1>5. ASSUME NEW n \in Nat, n \in S PROVE n + 1 \in S
  <2> SUFFICES ASSUME n + 1 <= Len(s) PROVE Noted(it[1..(n + 1)], d, due, s, n + 1)
    OBVIOUS
  <2>1. /\ n + 1 \in DOMAIN s /\ 1..(n + 1) \subseteq 1..Len(s)
        /\ 1..(n + 1) # {} /\ (1..(n + 1)) \ {n + 1} = 1..n
    <3>1. n + 1 \in DOMAIN s /\ n + 1 \in 1..(n + 1)
      BY <1>3
    <3>2. 1..(n + 1) \subseteq 1..Len(s)
      BY <1>3
    <3>3. (1..(n + 1)) \ {n + 1} = 1..n
      OBVIOUS
    <3> QED BY <3>1, <3>2, <3>3
  <2>2. Max(1..(n + 1)) = n + 1
    <3> DEFINE m == Max(1..(n + 1))
    <3>1. n + 1 \in Nat /\ 1..(n + 1) \subseteq 1..(n + 1) /\ 1..(n + 1) # {}
      BY <2>1
    <3>2. m \in 1..(n + 1) /\ \A y \in 1..(n + 1) : m >= y
      BY <3>1, GreatestNote
    <3>3. n + 1 \in 1..(n + 1)
      OBVIOUS
    <3> HIDE DEF m
    <3>4. m = n + 1
      BY <3>2, <3>3
    <3> QED BY <3>4 DEF m
  <2>3. it[1..(n + 1)] = Note(it[1..n], s[n + 1])
    BY <1>2, <1>3, <2>1, <2>2 DEF IsNoting
  <2>4. Noted(it[1..n], d, due, s, n)
    <3>1. n <= Len(s)
      BY <1>3
    <3> QED BY <1>5, <3>1
  <2>5. Noted(Note(it[1..n], s[n + 1]), d, due, s, n + 1)
    BY <2>4, NotedMore
  <2> QED BY <2>3, <2>5
<1>6. Len(s) \in S
  <2> HIDE DEF S
  <2> QED BY <1>3, <1>4, <1>5, SetInduction
<1> QED BY <1>2, <1>3, <1>6

-----------------------------------------------------------------------------
(* The tracing client: its steps, and the theorem.                         *)

\* What is due from a process with the history m.
DueOf(pid, m) == m.records \o Printed(pid, m.notes \o m.refs)

\* What is due from a thread is not about another.
LEMMA DueIs ==
  \A t : Due(t) = DueOf(data[t].pid, made[t])
BY DEF Due, DueOf, Printed

\* Nor is it after a step.
LEMMA DueIsPrimed ==
  \A t : Due(t)' = DueOf(data'[t].pid, made'[t])
BY DEF Due, DueOf, Printed

\* What is due are records.
LEMMA DueIsRecords ==
  ASSUME NEW pid \in Threads, NEW m \in Made
  PROVE  DueOf(pid, m) \in Seq(Record)
<1>1. m.records \in Seq(Record) /\ m.notes \in Seq(Ref) /\ m.refs \in Seq(Ref)
  BY DEF Made
<1> DEFINE own == m.notes \o m.refs
<1>2. own \in Seq(Ref)
  BY <1>1, ConcatProperties
<1> HIDE DEF own
<1>3. Printed(pid, own) \in Seq(Record)
  BY <1>2, PrintedIs
<1>4. m.records \o Printed(pid, own) \in Seq(Record)
  BY <1>1, <1>3, ConcatProperties
<1> QED BY <1>4 DEF DueOf, own

\* A thread that keeps its data and its history still owes what it owed.
LEMMA OthersKeep ==
  ASSUME TraceInv, fifo' \in Seq(Record),
         DOMAIN data' \subseteq Threads, DOMAIN made' = DOMAIN data',
         \A t \in DOMAIN data' :
           \/ t \in DOMAIN data /\ data'[t] = data[t] /\ made'[t] = made[t]
           \/ made'[t] \in Made /\ Owed(data'[t], DueOf(data'[t].pid, made'[t]))
  PROVE  TraceInv'
<1>1. ASSUME NEW t \in DOMAIN data' PROVE made'[t] \in Made /\ Owed(data'[t], Due(t)')
  <2>1. CASE made'[t] \in Made /\ Owed(data'[t], DueOf(data'[t].pid, made'[t]))
    BY <2>1, DueIsPrimed
  <2>2. CASE t \in DOMAIN data /\ data'[t] = data[t] /\ made'[t] = made[t]
    <3>1. Due(t) = Due(t)'
      BY <2>2, DueIs, DueIsPrimed
    <3>2. made[t] \in Made /\ Owed(data[t], Due(t))
      BY <2>2 DEF TraceInv
    <3> QED BY <2>2, <3>1, <3>2
  <2> QED BY <2>1, <2>2
<1>2. \A t \in DOMAIN data' : Owed(data[t], Due(t))' <=> Owed(data'[t], Due(t)')
  BY DEF Owed, Printed
<1> QED BY <1>1, <1>2 DEF TraceInv

\* A thread writes what it has more to write.
LEMMA SetIs ==
  ASSUME TraceInv, NEW t \in DOMAIN data, NEW d \in PerThread, Set(t, d)
  PROVE  /\ fifo' \in Seq(Record) /\ DOMAIN data' = DOMAIN data /\ data'[t] = d
         /\ \A u \in DOMAIN data \ {t} : data'[u] = data[u]
<1>1. data[t] \in PerThread /\ fifo \in Seq(Record)
  BY DEF TraceInv, Owed
<1> DEFINE o == data[t].out
           p == d.out
           w == SubSeq(p, Len(o) + 1, Len(p))
<1>2. o \in Seq(Record) /\ p \in Seq(Record)
  BY <1>1 DEF PerThread
<1>3. fifo' = fifo \o w
  BY DEF Set
<1> HIDE DEF o, p
<1>4. Len(o) \in Nat /\ Len(p) \in Nat /\ \A i \in 1..Len(p) : p[i] \in Record
  BY <1>2, LenProperties, ElementOfSeq
<1>5. w \in Seq(Record)
  <2>1. \A i \in (Len(o) + 1)..Len(p) : p[i] \in Record
    BY <1>4
  <2>2. Len(o) + 1 \in Int /\ Len(p) \in Int /\ Len(o) + 1 >= 1
    BY <1>4
  <2> QED BY <1>2, <2>1, <2>2, SubSeqProperties
<1> HIDE DEF w
<1>6. fifo' \in Seq(Record)
  BY <1>1, <1>3, <1>5, ConcatProperties
<1>7. DOMAIN data' = DOMAIN data /\ data'[t] = d /\ \A u \in DOMAIN data \ {t} : data'[u] = data[u]
  <2>1. data' = [data EXCEPT ![t] = d]
    BY DEF Set
  <2> QED BY <2>1
<1> QED BY <1>6, <1>7

\* What a thread that runs owes.
LEMMA Runner ==
  ASSUME TraceInv, NEW t, Runs(t)
  PROVE  /\ t \in DOMAIN data /\ t \in Threads /\ data[t] \in PerThread /\ made[t] \in Made
         /\ data[t].pid \in Threads /\ data[t].state = "runs"
         /\ Owed(data[t], DueOf(data[t].pid, made[t]))
         /\ DueOf(data[t].pid, made[t]) \in Seq(Record)
<1>1. /\ t \in DOMAIN data /\ t \in Threads /\ data[t].state = "runs" /\ made[t] \in Made
      /\ Owed(data[t], Due(t)) /\ data[t] \in PerThread
  BY DEF TraceInv, Runs, Owed
<1>2. data[t].pid \in Threads
  BY <1>1 DEF PerThread
<1>3. DueOf(data[t].pid, made[t]) \in Seq(Record)
  BY <1>1, <1>2, DueIsRecords
<1> QED BY <1>1, <1>2, <1>3, DueIs

\* The references of the instruction are due, and noted.
LEMMA ExecuteKeeps ==
  ASSUME TraceInv, NEW t, NEW i \in Instructions, Execute(t, i)
  PROVE  TraceInv'
<1> DEFINE c   == data[t]
           s   == Instrumented(i)
           d   == FoldLeft(Note, c, s)
           m   == made[t]
           n   == [m EXCEPT !.refs = m.refs \o s]
           due == DueOf(c.pid, m)
<1>1. Runs(t) /\ Set(t, d) /\ made' = [made EXCEPT ![t].refs = @ \o s]
  BY DEF Execute
<1>2. /\ t \in DOMAIN data /\ c \in PerThread /\ m \in Made /\ c.pid \in Threads
      /\ c.state = "runs" /\ Owed(c, due) /\ due \in Seq(Record)
  BY <1>1, Runner
<1>3. s \in Seq(Ref)
  BY InstrumentedIs
<1>4. DOMAIN made = DOMAIN data /\ DOMAIN data \subseteq Threads
  BY DEF TraceInv
<1>5. DOMAIN made' = DOMAIN data /\ made'[t] = n /\ \A u \in DOMAIN data \ {t} : made'[u] = made[u]
  BY <1>1, <1>2, <1>4
<1>6. /\ m.refs \in Seq(Ref) /\ m.notes \in Seq(Ref) /\ m.records \in Seq(Record)
      /\ m = [refs |-> m.refs, notes |-> m.notes, records |-> m.records]
  BY <1>2 DEF Made
<1> HIDE DEF c, s, m
<1>7. m.refs \o s \in Seq(Ref)
  BY <1>3, <1>6, ConcatProperties
<1>8. /\ n = [refs |-> m.refs \o s, notes |-> m.notes, records |-> m.records]
      /\ n \in Made
  <2> DEFINE q == m.refs \o s
  <2>1. n = [m EXCEPT !.refs = q] /\ q \in Seq(Ref)
    BY <1>7
  <2> HIDE DEF q, n
  <2>2. n = [refs |-> q, notes |-> m.notes, records |-> m.records]
    BY <1>6, <2>1
  <2>3. n \in Made
    BY <1>6, <2>1, <2>2 DEF Made
  <2> QED BY <2>2, <2>3 DEF q
<1> HIDE DEF n
<1>9. Noted(d, c, due, s, Len(s))
  <2> HIDE DEF due
  <2> QED BY <1>2, <1>3, AllNoted
<1>10. SubSeq(s, 1, Len(s)) = s
  BY <1>3, SubSeqFull
<1>11. /\ Owed(d, due \o Printed(c.pid, s)) /\ d.pid = c.pid
  BY <1>9, <1>10 DEF Noted
<1>12. due \o Printed(c.pid, s) = DueOf(c.pid, n)
  <2> DEFINE own == m.notes \o m.refs
             a   == Printed(c.pid, own)
             b   == Printed(c.pid, s)
             r   == m.records
  <2>1. own \in Seq(Ref) /\ own \o s = m.notes \o (m.refs \o s)
    BY <1>3, <1>6, ConcatProperties, ConcatAssociative
  <2>2. DueOf(c.pid, n) = r \o Printed(c.pid, own \o s)
    BY <1>8, <2>1 DEF DueOf
  <2>3. due = r \o a
    BY DEF DueOf
  <2>4. Printed(c.pid, own \o s) = a \o b /\ a \in Seq(Record) /\ b \in Seq(Record)
    <3> HIDE DEF own
    <3> QED BY <1>2, <1>3, <2>1, PrintedMore, PrintedIs
  <2>5. r \in Seq(Record)
    BY <1>6
  <2> HIDE DEF own, a, r, due
  <2>6. due \o b = DueOf(c.pid, n)
    <3> HIDE DEF b
    <3>1. (r \o a) \o b = r \o (a \o b)
      BY <2>4, <2>5, RecordsJoin
    <3> QED BY <2>2, <2>3, <2>4, <3>1
  <2> QED BY <2>6
<1>13. d \in PerThread
  BY <1>11 DEF Owed
<1> HIDE DEF d, due
<1>14. /\ fifo' \in Seq(Record) /\ DOMAIN data' = DOMAIN data /\ data'[t] = d
       /\ \A u \in DOMAIN data \ {t} : data'[u] = data[u]
  BY <1>1, <1>2, <1>13, SetIs
<1>15. Owed(data'[t], DueOf(data'[t].pid, made'[t])) /\ made'[t] \in Made
  BY <1>5, <1>8, <1>11, <1>12, <1>14
<1>16. \A u \in DOMAIN data' :
         \/ u \in DOMAIN data /\ data'[u] = data[u] /\ made'[u] = made[u]
         \/ made'[u] \in Made /\ Owed(data'[u], DueOf(data'[u].pid, made'[u]))
  BY <1>5, <1>14, <1>15
<1> QED BY <1>4, <1>5, <1>14, <1>16, OthersKeep

\* The end of a thread writes all it holds.
LEMMA ThreadExitKeeps ==
  ASSUME TraceInv, NEW t, ThreadExit(t)
  PROVE  TraceInv'
<1> DEFINE c   == data[t]
           d   == Dump(c)
           o   == d.out \o d.stream
           e   == [d EXCEPT !.out = d.out \o d.stream, !.stream = <<>>, !.state = "exited"]
           due == DueOf(c.pid, made[t])
<1>1. Runs(t) /\ Set(t, e) /\ made' = made
  BY DEF ThreadExit
<1>2. /\ t \in DOMAIN data /\ c \in PerThread /\ made[t] \in Made /\ c.pid \in Threads
      /\ c.state = "runs" /\ Owed(c, due) /\ due \in Seq(Record)
  BY <1>1, Runner
<1>3. DOMAIN made = DOMAIN data /\ DOMAIN data \subseteq Threads
  BY DEF TraceInv
<1> HIDE DEF c
<1>4. /\ d \in PerThread /\ d.pid = c.pid /\ d.buf = <<>>
      /\ d.out \o d.stream = c.out \o c.stream \o Printed(c.pid, c.buf)
  BY <1>2, DumpIs
<1> HIDE DEF d
<1>5. /\ d.out \in Seq(Record) /\ d.stream \in Seq(Record) /\ d.num_refs \in Nat /\ d.pid \in Threads
      /\ d = [pid |-> d.pid, buf |-> d.buf, stream |-> d.stream, num_refs |-> d.num_refs,
              out |-> d.out, state |-> d.state]
  BY <1>4 DEF PerThread
<1>6. o \in Seq(Record) /\ o = due
  BY <1>2, <1>4, <1>5, ConcatProperties DEF Owed
<1>7. e = [d EXCEPT !.out = o, !.stream = <<>>, !.state = "exited"]
  OBVIOUS
<1> HIDE DEF o, e
<1>8. e = [pid |-> d.pid, buf |-> d.buf, stream |-> <<>>, num_refs |-> d.num_refs,
           out |-> o, state |-> "exited"]
  BY <1>5, <1>7
<1>9. e \in PerThread
  <2>1. <<>> \in Seq(Record) /\ <<>> \in Seq(Ref)
    OBVIOUS
  <2> QED BY <1>4, <1>5, <1>6, <1>8, <2>1 DEF PerThread
<1>10. Owed(e, due) /\ e.pid = c.pid
  <2>1. /\ e.pid = c.pid /\ e.buf = <<>> /\ e.stream = <<>> /\ e.out = due
    BY <1>4, <1>6, <1>8
  <2>2. Printed(e.pid, e.buf) = <<>>
    BY <2>1 DEF Printed
  <2>3. due \o <<>> \o <<>> = due
    <3> HIDE DEF due
    <3>1. due \o <<>> = due
      BY <1>2, ConcatEmptySeq
    <3> QED BY <3>1
  <2>4. Len(<<>>) = 0 /\ 0 < MaxRefs /\ 0 <= StreamRecords
    BY MemTraceAssumption DEF MemTraceAssumption
  <2> HIDE DEF due
  <2> QED BY <1>9, <2>1, <2>2, <2>3, <2>4 DEF Owed
<1> HIDE DEF due
<1>11. /\ fifo' \in Seq(Record) /\ DOMAIN data' = DOMAIN data /\ data'[t] = e
       /\ \A u \in DOMAIN data \ {t} : data'[u] = data[u]
  BY <1>1, <1>2, <1>9, SetIs
<1>12. Owed(data'[t], DueOf(data'[t].pid, made'[t])) /\ made'[t] \in Made
  BY <1>1, <1>2, <1>10, <1>11 DEF due
<1>13. \A u \in DOMAIN data' :
         \/ u \in DOMAIN data /\ data'[u] = data[u] /\ made'[u] = made[u]
         \/ made'[u] \in Made /\ Owed(data'[u], DueOf(data'[u].pid, made'[u]))
  BY <1>1, <1>11, <1>12
<1> QED BY <1>1, <1>3, <1>11, <1>13, OthersKeep

\* A thread that enters with what it owes changes nothing of the others.
LEMMA EntersKeeps ==
  ASSUME TraceInv, NEW u \in Threads, NEW d, NEW m \in Made,
         ThreadEnters(u, d, m), u \notin DOMAIN data, fifo' = fifo, Owed(d, DueOf(d.pid, m))
  PROVE  TraceInv'
<1>1. /\ DOMAIN data' = DOMAIN data \cup {u} /\ DOMAIN made' = DOMAIN data \cup {u}
      /\ data'[u] = d /\ made'[u] = m
      /\ \A v \in DOMAIN data : data'[v] = data[v] /\ made'[v] = made[v]
  BY DEF ThreadEnters
<1>2. fifo' \in Seq(Record) /\ DOMAIN data' \subseteq Threads
  BY <1>1 DEF TraceInv
<1>3. \A v \in DOMAIN data' :
        \/ v \in DOMAIN data /\ data'[v] = data[v] /\ made'[v] = made[v]
        \/ made'[v] \in Made /\ Owed(data'[v], DueOf(data'[v].pid, made'[v]))
  BY <1>1
<1> QED BY <1>1, <1>2, <1>3, OthersKeep

\* A new thread owes nothing.
LEMMA NothingOwed ==
  ASSUME NEW pid \in Threads
  PROVE  /\ NoHistory \in Made /\ NewThread(pid).pid = pid
         /\ Owed(NewThread(pid), DueOf(pid, NoHistory))
<1> DEFINE d == NewThread(pid)
<1>1. /\ d.pid = pid /\ d.buf = <<>> /\ d.stream = <<>> /\ d.out = <<>>
      /\ d.state = "runs" /\ d \in PerThread
  BY DEF NewThread, PerThread
<1>2. NoHistory \in Made
  BY DEF NoHistory, Made
<1>3. DueOf(pid, NoHistory) = <<>>
  <2>1. <<>> \o <<>> = <<>>
    OBVIOUS
  <2>2. Printed(pid, <<>>) = <<>>
    BY DEF Printed
  <2> QED BY <2>1, <2>2 DEF DueOf, NoHistory
<1>4. d.out \o d.stream \o Printed(d.pid, d.buf) = <<>>
  <2>1. Printed(pid, <<>>) = <<>>
    BY DEF Printed
  <2>2. <<>> \o <<>> \o <<>> = <<>>
    OBVIOUS
  <2> QED BY <1>1, <2>1, <2>2
<1>5. Len(<<>>) = 0 /\ 0 < MaxRefs /\ 0 <= StreamRecords
  BY MemTraceAssumption DEF MemTraceAssumption
<1> HIDE DEF d
<1>6. Owed(d, <<>>)
  BY <1>1, <1>4, <1>5 DEF Owed
<1> QED BY <1>1, <1>2, <1>3, <1>6 DEF d

\* The child of a fork owes what it was left with, under its own process id.
LEMMA ForkOwes ==
  ASSUME TraceInv, NEW t, NEW u \in Threads, ForkProcess(t, u)
  PROVE  TraceInv'
<1> DEFINE c == data[t]
           d == [c EXCEPT !.pid = u, !.out = <<>>]
           m == [refs |-> <<>>, notes |-> c.buf, records |-> c.stream]
<1>1. Runs(t) /\ u \notin DOMAIN data /\ ThreadEnters(u, d, m) /\ fifo' = fifo
  BY DEF ForkProcess
<1>2. c \in PerThread /\ c.state = "runs" /\ Len(c.buf) < MaxRefs /\ Len(c.stream) <= StreamRecords
  BY <1>1, Runner DEF Owed
<1> HIDE DEF c
<1>3. /\ c.buf \in Seq(Ref) /\ c.stream \in Seq(Record) /\ c.num_refs \in Nat
      /\ c = [pid |-> c.pid, buf |-> c.buf, stream |-> c.stream, num_refs |-> c.num_refs,
              out |-> c.out, state |-> c.state]
  BY <1>2 DEF PerThread
<1>4. d = [pid |-> u, buf |-> c.buf, stream |-> c.stream, num_refs |-> c.num_refs,
           out |-> <<>>, state |-> "runs"]
  <2> DEFINE none == <<>>
  <2>1. d = [c EXCEPT !.pid = u, !.out = none] /\ c.state = "runs"
    BY <1>2
  <2> HIDE DEF d, none
  <2>2. d = [pid |-> u, buf |-> c.buf, stream |-> c.stream, num_refs |-> c.num_refs,
             out |-> none, state |-> "runs"]
    BY <1>3, <2>1
  <2> QED BY <2>2 DEF none
<1> HIDE DEF d
<1>5. d \in PerThread /\ m \in Made
  <2>1. <<>> \in Seq(Record) /\ <<>> \in Seq(Ref)
    OBVIOUS
  <2> QED BY <1>3, <1>4, <2>1 DEF PerThread, Made
<1>6. DueOf(u, m) = c.stream \o Printed(u, c.buf)
  <2>1. c.buf \o <<>> = c.buf
    BY <1>3, ConcatEmptySeq
  <2> QED BY <2>1 DEF DueOf
<1>7. d.out \o d.stream \o Printed(d.pid, d.buf) = c.stream \o Printed(u, c.buf)
  <2>1. <<>> \o c.stream = c.stream
    BY <1>3, ConcatEmptySeq
  <2> QED BY <1>4, <2>1
<1>8. d.pid = u /\ d.state # "exited" /\ d.buf = c.buf /\ d.stream = c.stream
  BY <1>4
<1>9. Owed(d, DueOf(d.pid, m))
  <2> HIDE DEF m
  <2> QED BY <1>2, <1>5, <1>6, <1>7, <1>8 DEF Owed
<1> HIDE DEF m
<1> QED BY <1>1, <1>5, <1>9, EntersKeeps

\* A thread that is killed writes nothing more and owes what it owed.
LEMMA KilledKeeps ==
  ASSUME TraceInv, NEW pid \in Threads, Killed(pid)
  PROVE  TraceInv'
<1>1. /\ DOMAIN data' = DOMAIN data /\ fifo' = fifo /\ made' = made
      /\ \A t \in DOMAIN data : data'[t] = IF Runs(t) /\ data[t].pid = pid
                                           THEN [data[t] EXCEPT !.state = "killed"] ELSE data[t]
  BY DEF Killed
<1>2. fifo \in Seq(Record) /\ DOMAIN data \subseteq Threads /\ DOMAIN made = DOMAIN data
  BY DEF TraceInv
<1>3. ASSUME NEW t \in DOMAIN data
      PROVE  \/ data'[t] = data[t]
             \/ made[t] \in Made /\ Owed(data'[t], DueOf(data'[t].pid, made[t]))
  <2>1. CASE ~(Runs(t) /\ data[t].pid = pid)
    BY <1>1, <2>1
  <2>2. CASE Runs(t) /\ data[t].pid = pid
    <3> DEFINE c == data[t]
               d == data'[t]
               due == DueOf(c.pid, made[t])
    <3>1. d = [c EXCEPT !.state = "killed"]
      BY <1>1, <2>2
    <3>2. made[t] \in Made /\ c \in PerThread /\ Owed(c, due)
      BY <2>2, Runner
    <3> HIDE DEF c, d, due
    <3>3. /\ d \in PerThread /\ d.state = "killed" /\ d.pid = c.pid /\ d.buf = c.buf
          /\ d.stream = c.stream /\ d.out = c.out
      BY <3>1, <3>2 DEF PerThread
    <3>4. Owed(d, due)
      BY <3>2, <3>3 DEF Owed
    <3>5. due = DueOf(d.pid, made[t])
      BY <3>3 DEF due
    <3> QED BY <3>2, <3>4, <3>5 DEF d
  <2> QED BY <2>1, <2>2
<1>4. \A t \in DOMAIN data' :
        \/ t \in DOMAIN data /\ data'[t] = data[t] /\ made'[t] = made[t]
        \/ made'[t] \in Made /\ Owed(data'[t], DueOf(data'[t].pid, made'[t]))
  BY <1>1, <1>3
<1> QED BY <1>1, <1>2, <1>4, OthersKeep

\* The thread that is started owes nothing.
LEMMA TraceInvInit ==
  MemTraceInit => TraceInv
<1> SUFFICES ASSUME MemTraceInit PROVE TraceInv
  OBVIOUS
<1>1. FirstThread \in Threads
  BY MemTraceAssumption DEF MemTraceAssumption
<1>2. /\ DOMAIN data = {FirstThread} /\ DOMAIN made = {FirstThread} /\ fifo = <<>>
      /\ data[FirstThread] = NewThread(FirstThread) /\ made[FirstThread] = NoHistory
  BY DEF MemTraceInit
<1>3. /\ made[FirstThread] \in Made
      /\ Owed(data[FirstThread], DueOf(data[FirstThread].pid, made[FirstThread]))
  BY <1>1, <1>2, NothingOwed
<1>4. fifo \in Seq(Record)
  BY <1>2
<1> QED BY <1>1, <1>2, <1>3, <1>4, DueIs DEF TraceInv

\* Every step keeps what is owed.
LEMMA TraceInvNext ==
  TraceInv /\ [MemTraceNext]_tracevars => TraceInv'
<1> SUFFICES ASSUME TraceInv, [MemTraceNext]_tracevars PROVE TraceInv'
  OBVIOUS
<1>1. ASSUME NEW t \in DOMAIN data, NEW i \in Instructions, Execute(t, i) PROVE TraceInv'
  BY <1>1, ExecuteKeeps
<1>2. ASSUME NEW t \in DOMAIN data, ThreadExit(t) PROVE TraceInv'
  BY <1>2, ThreadExitKeeps
<1>3. ASSUME NEW t \in DOMAIN data, NEW u \in Threads, ThreadStart(t, u) PROVE TraceInv'
  <2> DEFINE d == NewThread(data[t].pid)
  <2>1. Runs(t) /\ u \notin DOMAIN data /\ ThreadEnters(u, d, NoHistory) /\ fifo' = fifo
    BY <1>3 DEF ThreadStart
  <2>2. data[t].pid \in Threads
    BY <2>1, Runner
  <2>3. NoHistory \in Made /\ Owed(d, DueOf(d.pid, NoHistory))
    BY <2>2, NothingOwed
  <2> HIDE DEF d
  <2> QED BY <2>1, <2>3, EntersKeeps
<1>4. ASSUME NEW t \in DOMAIN data, NEW u \in Threads, ForkProcess(t, u) PROVE TraceInv'
  BY <1>4, ForkOwes
<1>5. ASSUME NEW pid \in Threads, Killed(pid) PROVE TraceInv'
  BY <1>5, KilledKeeps
<1>6. CASE UNCHANGED tracevars
  <2>1. data' = data /\ made' = made /\ fifo' = fifo
    BY <1>6 DEF tracevars
  <2>2. fifo \in Seq(Record) /\ DOMAIN data \subseteq Threads /\ DOMAIN made = DOMAIN data
    BY DEF TraceInv
  <2> QED BY <2>1, <2>2, OthersKeep
<1> QED BY <1>1, <1>2, <1>3, <1>4, <1>5, <1>6 DEF MemTraceNext

\* What a thread owes says what it has written.
LEMMA OwedIsTraced ==
  TraceInv => ReferencesTraced
<1> SUFFICES ASSUME TraceInv, NEW t \in DOMAIN data
             PROVE  LET d == data[t]
                        due == Due(t)
                    IN /\ IsPrefix(d.out, due)
                       /\ Len(d.out) + Len(d.stream) + Len(d.buf) = Len(due)
                       /\ Len(d.buf) < MaxRefs /\ Len(d.stream) <= StreamRecords
                       /\ d.state = "exited" => d.out = due
  BY DEF ReferencesTraced
<1> DEFINE d == data[t]
           due == Due(t)
           a == d.out
           b == d.stream
           p == Printed(d.pid, d.buf)
<1>1. Owed(d, due) /\ d \in PerThread /\ a \o b \o p = due
  BY DEF TraceInv, Owed
<1>2. /\ a \in Seq(Record) /\ b \in Seq(Record) /\ d.buf \in Seq(Ref) /\ d.pid \in Threads
  BY <1>1 DEF PerThread
<1>3. p \in Seq(Record) /\ Len(p) = Len(d.buf)
  BY <1>2, PrintedIs
<1>4. /\ Len(d.buf) < MaxRefs /\ Len(d.stream) <= StreamRecords
      /\ d.state = "exited" => d.buf = <<>> /\ d.stream = <<>>
  BY <1>1 DEF Owed
<1> HIDE DEF d, due
<1>5. ASSUME d.state = "exited" PROVE a = due
  <2>1. b = <<>> /\ p = <<>>
    BY <1>4, <1>5 DEF Printed
  <2> HIDE DEF a, b, p
  <2>2. a \o <<>> = a
    BY <1>2, ConcatEmptySeq
  <2> QED BY <1>1, <2>1, <2>2
<1>6. IsPrefix(a, due) /\ Len(a) + Len(b) + Len(p) = Len(due)
  <2> HIDE DEF a, b, p
  <2>1. a \o (b \o p) = due /\ b \o p \in Seq(Record) /\ Len(b \o p) = Len(b) + Len(p)
    <3>1. a \in Seq(Record) /\ b \in Seq(Record) /\ p \in Seq(Record) /\ (a \o b) \o p = due
      BY <1>1, <1>2, <1>3
    <3>2. (a \o b) \o p = a \o (b \o p)
      BY ONLY <3>1, RecordsJoin
    <3>3. b \o p \in Seq(Record) /\ Len(b \o p) = Len(b) + Len(p)
      BY ONLY <3>1, RecordsAre
    <3> QED BY <3>1, <3>2, <3>3
  <2>2. Len(a) \in Nat /\ Len(b) \in Nat /\ Len(p) \in Nat
    BY <1>2, <1>3, LenProperties
  <2>3. due \in Seq(Record) /\ Len(due) = Len(a) + (Len(b) + Len(p))
        /\ \A i \in 1..Len(a) : due[i] = a[i]
    <3> DEFINE q == b \o p
    <3>1. q \in Seq(Record) /\ Len(q) = Len(b) + Len(p) /\ due = a \o q
      BY <2>1
    <3> HIDE DEF q
    <3>2. /\ a \o q \in Seq(Record) /\ Len(a \o q) = Len(a) + Len(q)
          /\ \A i \in 1..(Len(a) + Len(q)) : (a \o q)[i] = IF i <= Len(a) THEN a[i] ELSE q[i - Len(a)]
      BY <1>2, <2>1, <3>1, RecordsAre DEF q
    <3> QED BY <2>2, <3>1, <3>2
  <2>4. Len(a) <= Len(due)
    BY <2>2, <2>3
  <2>5. SubSeq(a, 1, Len(a)) = SubSeq(due, 1, Len(a))
    <3>1. Len(a) \in 0..Len(due) /\ \A i \in 1..Len(a) : due[i] \in Record
      BY <1>2, <2>2, <2>3, ElementOfSeq
    <3>2. SubSeq(a, 1, Len(a)) = a
      BY <1>2, SubSeqFull
    <3> DEFINE w == SubSeq(due, 1, Len(a))
    <3>3. /\ w \in Seq(Record) /\ Len(w) = IF 1 <= Len(a) THEN Len(a) - 1 + 1 ELSE 0
          /\ \A i \in 1..(Len(a) - 1 + 1) : w[i] = due[1 + i - 1]
      BY <2>2, <2>3, <3>1, SubSeqProperties
    <3> HIDE DEF w
    <3>4. Len(w) = Len(a) /\ \A i \in 1..Len(a) : w[i] = a[i]
      BY <2>2, <2>3, <3>3
    <3>5. w = a
      BY <1>2, <3>3, <3>4, SeqEqual
    <3> QED BY <3>2, <3>5 DEF w
  <2> QED BY <2>2, <2>3, <2>4, <2>5 DEF IsPrefix
<1>7. Len(d.out) + Len(d.stream) + Len(d.buf) = Len(due)
  <2> HIDE DEF p
  <2> QED BY <1>3, <1>6
<1> HIDE DEF p
<1> QED BY <1>4, <1>5, <1>6, <1>7 DEF d, due

\* Every reference is written, once and in its order, under the process that
\* made it or was left its note by a fork, except what a thread still holds
\* when it is killed.
THEOREM ReferencesAreTraced ==
  MemTraceSpec => []ReferencesTraced
<1>1. MemTraceInit => TraceInv
  BY TraceInvInit
<1>2. TraceInv /\ [MemTraceNext]_tracevars => TraceInv'
  BY TraceInvNext
<1>3. TraceInv => ReferencesTraced
  BY OwedIsTraced
<1> QED BY <1>1, <1>2, <1>3, PTL DEF MemTraceSpec

-----------------------------------------------------------------------------
(* Two allocators in one address space.                                    *)

\* A memory with all its fields.
Fields   == {"area", "tenants", "held", "size", "mapped", "maps", "bytes"}
Shape(m) == DOMAIN m = Fields

\* Blocks are where their area says: those of an allocator in its heaps, and
\* a mapping alone in its own.
Placed(m) ==
  /\ \A x \in Allocators : \A b \in m.held[x] : m.area[AreaOf(b)] = x
  /\ \A b \in DOMAIN m.mapped : m.area[AreaOf(b)] = "mapping" /\ b = First(AreaOf(b))

Kept(m) == m.held["cold"] \cup m.held["other"] \cup DOMAIN m.mapped
Given(m) == Kept(m) \cup m.held["glibc"]

\* own is what the program holds.
Sound(m, own) ==
  /\ Shape(m)
  /\ m.area \in [Areas -> Tenants \cup {"free"}]
  /\ m.held \in [Allocators -> SUBSET Addresses]
  /\ DOMAIN m.mapped \subseteq Addresses
  /\ Placed(m)
  /\ DOMAIN m.size = Taken(m)
  /\ Kept(m) \subseteq own /\ own \subseteq Given(m)

-----------------------------------------------------------------------------
(* Addresses.                                                              *)

LEMMA FirstInArea ==
  ASSUME NEW a \in Areas
  PROVE  First(a) \in Addresses /\ AreaOf(First(a)) = a
<1>1. PICK o \in Places : o = Min(Places)
  BY TwoMallocsAssumption DEF TwoMallocsAssumption, Min
<1>2. /\ Areas \subseteq Nat /\ AreaSize \in Nat
      /\ Places \subseteq 1..(AreaSize - 1)
  BY TwoMallocsAssumption DEF TwoMallocsAssumption
<1>3. a \in Nat /\ AreaSize \in Nat \ {0} /\ o \in 0..(AreaSize - 1)
  BY <1>2
<1>4. (a * AreaSize + o) \div AreaSize = a
  BY <1>3
<1> QED BY <1>1, <1>4 DEF First, Addresses, AreaOf

LEMMA AreaOfAddress ==
  ASSUME NEW b \in Addresses
  PROVE  AreaOf(b) \in Areas
<1>1. PICK a \in Areas, o \in Places : b = a * AreaSize + o
  BY DEF Addresses
<1>2. /\ Areas \subseteq Nat /\ AreaSize \in Nat
      /\ Places \subseteq 1..(AreaSize - 1)
  BY TwoMallocsAssumption DEF TwoMallocsAssumption
<1>3. a \in Nat /\ AreaSize \in Nat \ {0} /\ o \in 0..(AreaSize - 1)
  BY <1>2
<1>4. (a * AreaSize + o) \div AreaSize = a
  BY <1>3
<1> QED BY <1>1, <1>4 DEF AreaOf

-----------------------------------------------------------------------------
(* What serving a block does.                                              *)

LEMMA OccupiedFields ==
  ASSUME NEW m, Shape(m), NEW a, NEW who
  PROVE  LET r == Occupied(m, a, who) IN
         /\ Shape(r) /\ r.area = [m.area EXCEPT ![a] = who]
         /\ r.held = m.held /\ r.size = m.size /\ r.mapped = m.mapped
BY DEF Shape, Fields, Occupied

LEMMA MappingAddedSound ==
  ASSUME NEW m, NEW own, Sound(m, own), NEW a \in Areas, m.area[a] = "free",
         NEW k, NEW r, Shape(r), r.area = [m.area EXCEPT ![a] = "mapping"],
         r.held = m.held, r.size = m.size, r.mapped = With(m.mapped, First(a), k)
  PROVE  Sound(r, own \cup {First(a)}) /\ First(a) \notin own
<1>1. First(a) \in Addresses /\ AreaOf(First(a)) = a
  BY FirstInArea
<1>2. DOMAIN r.mapped = DOMAIN m.mapped \cup {First(a)}
  BY DEF With
<1>3. First(a) \notin own
  <2>1. First(a) \notin DOMAIN m.mapped
    BY <1>1 DEF Sound, Placed
  <2>2. \A x \in Allocators : First(a) \notin m.held[x]
    BY <1>1 DEF Sound, Placed, Allocators, Versions
  <2> QED BY <2>1, <2>2 DEF Sound, Given, Kept, Allocators, Versions
<1>4. Placed(r)
  BY <1>1, <1>2, AreaOfAddress DEF Sound, Placed, Allocators, Versions
<1> QED
  BY <1>1, <1>2, <1>3, <1>4 DEF Sound, Taken, Given, Kept, Tenants

LEMMA MapBlockSound ==
  ASSUME NEW m, NEW own, Sound(m, own), NEW v \in Versions, NEW n,
         NEW o \in MapBlock(m, v, n)
  PROVE  /\ Sound(o.mem, own \cup {o.addr}) /\ o.addr \notin own
         /\ o.mem.held = m.held /\ DOMAIN m.mapped \subseteq DOMAIN o.mem.mapped
<1>1. PICK a \in FreeAreas(m) :
        o = [mem |-> [Occupied(m, a, "mapping") EXCEPT
               !.mapped = With(@, First(a), MappingSize(n)),
               !.maps[v] = @ + 1, !.bytes[v] = @ + MappingSize(n)],
             addr |-> First(a)]
  BY DEF MapBlock
<1>2. a \in Areas /\ m.area[a] = "free"
  BY <1>1 DEF FreeAreas, Lowest
<1>3. Shape(m)
  BY DEF Sound
<1>4. /\ Shape(o.mem) /\ o.mem.area = [m.area EXCEPT ![a] = "mapping"]
      /\ o.mem.held = m.held /\ o.mem.size = m.size
      /\ o.mem.mapped = With(m.mapped, First(a), MappingSize(n))
  <2> DEFINE r == Occupied(m, a, "mapping")
  <2>1. /\ Shape(r) /\ r.area = [m.area EXCEPT ![a] = "mapping"]
        /\ r.held = m.held /\ r.size = m.size /\ r.mapped = m.mapped
    BY <1>3, OccupiedFields
  <2>2. o.mem = [r EXCEPT !.mapped = With(@, First(a), MappingSize(n)),
                          !.maps[v] = @ + 1, !.bytes[v] = @ + MappingSize(n)]
    BY <1>1
  <2> HIDE DEF r
  <2> QED BY <2>1, <2>2 DEF Shape, Fields
<1>5. Sound(o.mem, own \cup {First(a)}) /\ First(a) \notin own
  BY <1>2, <1>4, MappingAddedSound
<1>6. DOMAIN m.mapped \subseteq DOMAIN o.mem.mapped
  BY <1>4 DEF With
<1>7. o.addr = First(a)
  BY <1>1
<1> QED BY <1>4, <1>5, <1>6, <1>7

LEMMA HeapBlockSound ==
  ASSUME NEW m, NEW own, Sound(m, own), NEW v \in Allocators, NEW n,
         NEW o \in HeapBlock(m, v, n)
  PROVE  /\ Sound(o.mem, own \cup {o.addr}) /\ o.addr \notin own
         /\ \A x \in Allocators : m.held[x] \subseteq o.mem.held[x]
         /\ DOMAIN m.mapped \subseteq DOMAIN o.mem.mapped
<1>1. PICK a \in FreeAreas(m) \cup {x \in Areas : m.area[x] = v}, b \in Addresses :
        b \in Vacant(m, a) /\
        o = [mem |-> [Occupied(m, AreaOf(b), v) EXCEPT
                        !.held[v] = @ \cup {b}, !.size = With(@, b, n)],
             addr |-> b]
  BY DEF HeapBlock, Vacant, Lowest
<1>2. a \in Areas /\ m.area[a] \in {"free", v}
  BY <1>1 DEF FreeAreas, Lowest
<1>3. b \in Addresses /\ AreaOf(b) = a /\ b \notin Taken(m)
  BY <1>1 DEF Vacant, Lowest
<1>4. Shape(m)
  BY DEF Sound
<1>5. o.addr = b
  BY <1>1
<1>6. /\ Shape(o.mem) /\ o.mem.area = [m.area EXCEPT ![a] = v]
      /\ o.mem.held = [m.held EXCEPT ![v] = @ \cup {b}]
      /\ o.mem.size = With(m.size, b, n) /\ o.mem.mapped = m.mapped
  <2> DEFINE r == Occupied(m, a, v)
  <2>1. /\ Shape(r) /\ r.area = [m.area EXCEPT ![a] = v]
        /\ r.held = m.held /\ r.size = m.size /\ r.mapped = m.mapped
    BY <1>4, OccupiedFields
  <2>2. o.mem = [r EXCEPT !.held[v] = @ \cup {b}, !.size = With(@, b, n)]
    BY <1>1, <1>3
  <2> HIDE DEF r
  <2> QED BY <2>1, <2>2 DEF Shape, Fields
<1>7. DOMAIN o.mem.size = DOMAIN m.size \cup {b}
  BY <1>6 DEF With
<1>8. m.held \in [Allocators -> SUBSET Addresses]
  BY DEF Sound
<1>9. b \notin own /\ b \notin DOMAIN m.mapped
  <2>1. b \notin DOMAIN m.mapped
    BY <1>2, <1>3 DEF Sound, Placed, Allocators, Versions
  <2> QED BY <1>3, <2>1 DEF Sound, Given, Kept, Taken, Allocators, Versions
<1>10. Placed(o.mem)
  <2>1. ASSUME NEW x \in Allocators, NEW c \in o.mem.held[x]
        PROVE  o.mem.area[AreaOf(c)] = x
    <3>1. CASE x = v /\ c = b
      BY <1>2, <1>3, <1>6, <3>1 DEF Sound
    <3>2. CASE c \in m.held[x]
      BY <1>2, <1>6, <1>8, <3>2, AreaOfAddress DEF Sound, Placed, Allocators, Versions
    <3> QED BY <1>6, <1>8, <2>1, <3>1, <3>2
  <2>2. ASSUME NEW c \in DOMAIN o.mem.mapped
        PROVE  o.mem.area[AreaOf(c)] = "mapping" /\ c = First(AreaOf(c))
    <3>1. c \in DOMAIN m.mapped /\ AreaOf(c) \in Areas
      BY <1>6, AreaOfAddress DEF Sound
    <3> QED BY <1>2, <1>6, <3>1 DEF Sound, Placed, Allocators, Versions
  <2> QED BY <2>1, <2>2 DEF Placed
<1>11. Taken(o.mem) = Taken(m) \cup {b}
  BY <1>6, <1>8 DEF Taken
<1>12. /\ o.mem.area \in [Areas -> Tenants \cup {"free"}]
       /\ o.mem.held \in [Allocators -> SUBSET Addresses]
  <2>1. m.area \in [Areas -> Tenants \cup {"free"}] /\ v \in Tenants
    BY DEF Sound, Tenants
  <2>2. o.mem.area \in [Areas -> Tenants \cup {"free"}]
    BY <1>6, <2>1
  <2>3. m.held[v] \cup {b} \in SUBSET Addresses
    BY <1>3, <1>8
  <2>4. o.mem.held \in [Allocators -> SUBSET Addresses]
    BY <1>6, <1>8, <2>3
  <2> QED BY <2>2, <2>4
<1>13. /\ Kept(o.mem) \subseteq own \cup {b} /\ own \cup {b} \subseteq Given(o.mem)
  BY <1>6, <1>8 DEF Sound, Kept, Given, Allocators, Versions
<1> QED
  BY <1>5, <1>6, <1>7, <1>8, <1>9, <1>10, <1>11, <1>12, <1>13 DEF Sound

LEMMA ServeSound ==
  ASSUME NEW m, NEW own, Sound(m, own), NEW v \in Versions, NEW n,
         NEW o \in Serve(m, v, n)
  PROVE  /\ Sound(o.mem, own \cup {o.addr}) /\ o.addr \notin own
         /\ \A x \in Allocators : m.held[x] \subseteq o.mem.held[x]
         /\ DOMAIN m.mapped \subseteq DOMAIN o.mem.mapped
<1>1. CASE o \in MapBlock(m, v, n)
  <2>1. /\ Sound(o.mem, own \cup {o.addr}) /\ o.addr \notin own
        /\ o.mem.held = m.held /\ DOMAIN m.mapped \subseteq DOMAIN o.mem.mapped
    BY <1>1, MapBlockSound
  <2> QED BY <2>1
<1>2. CASE o \in HeapBlock(m, v, n)
  <2>1. v \in Allocators
    BY DEF Allocators
  <2>2. Sound(o.mem, own \cup {o.addr}) /\ o.addr \notin own
    BY <1>2, <2>1, HeapBlockSound
  <2>3. DOMAIN m.mapped \subseteq DOMAIN o.mem.mapped
    BY <1>2, <2>1, HeapBlockSound
  <2>4. ASSUME NEW x \in Allocators PROVE m.held[x] \subseteq o.mem.held[x]
    BY <1>2, <2>1, HeapBlockSound
  <2> QED BY <2>2, <2>3, <2>4
<1> QED BY <1>1, <1>2 DEF Serve

-----------------------------------------------------------------------------
(* What releasing a block does.                                            *)

LEMMA ForgottenSound ==
  ASSUME NEW m, NEW own, Sound(m, own), NEW v \in Allocators, NEW b \in m.held[v]
  PROVE  /\ Sound([m EXCEPT !.held[v] = @ \ {b}, !.size = Without(@, b)], own \ {b})
         /\ b \in Addresses /\ m.area[AreaOf(b)] = v
<1> DEFINE r == [m EXCEPT !.held[v] = @ \ {b}, !.size = Without(@, b)]
<1>1. /\ Shape(r) /\ r.area = m.area /\ r.held = [m.held EXCEPT ![v] = @ \ {b}]
      /\ r.size = Without(m.size, b) /\ r.mapped = m.mapped
  BY DEF Sound, Shape, Fields
<1>2. DOMAIN r.size = DOMAIN m.size \ {b}
  BY <1>1 DEF Without
<1> HIDE DEF r
<1>3. m.held \in [Allocators -> SUBSET Addresses]
  BY DEF Sound
<1>4. b \in Addresses /\ m.area[AreaOf(b)] = v
  BY <1>3 DEF Sound, Placed
<1>5. b \notin DOMAIN m.mapped /\ \A x \in Allocators \ {v} : b \notin m.held[x]
  BY <1>4 DEF Sound, Placed, Allocators, Versions
<1>6. Placed(r)
  BY <1>1, <1>3 DEF Sound, Placed
<1>7. Taken(r) = Taken(m) \ {b}
  BY <1>1, <1>3, <1>5 DEF Taken
<1>8. r.held \in [Allocators -> SUBSET Addresses]
  BY <1>1, <1>3
<1>9. Kept(r) \subseteq own \ {b} /\ own \ {b} \subseteq Given(r)
  BY <1>1, <1>3, <1>5 DEF Sound, Kept, Given, Allocators, Versions
<1>10. Sound(r, own \ {b})
  BY <1>1, <1>2, <1>6, <1>7, <1>8, <1>9 DEF Sound
<1> QED BY <1>4, <1>10 DEF r

LEMMA ReleasedSound ==
  ASSUME NEW m, NEW own, Sound(m, own), NEW v \in Versions, NEW b \in m.held[v],
         NEW r \in Released(m, v, b)
  PROVE  Sound(r, own \ {b})
<1> DEFINE f == [m EXCEPT !.held[v] = @ \ {b}, !.size = Without(@, b)]
<1>1. /\ Sound(f, own \ {b}) /\ b \in Addresses
  BY ForgottenSound DEF Allocators
<1>2. f.area[AreaOf(b)] = v
  <2>1. m.area[AreaOf(b)] = v
    BY ForgottenSound DEF Allocators
  <2>2. f.area = m.area
    BY DEF Sound, Shape, Fields
  <2> QED BY <2>1, <2>2
<1>3. \/ r = f
      \/ /\ r = [f EXCEPT !.area[AreaOf(b)] = "free"]
         /\ \A x \in f.held[v] : AreaOf(x) # AreaOf(b)
  BY DEF Released
<1> HIDE DEF f
<1>4. CASE /\ r = [f EXCEPT !.area[AreaOf(b)] = "free"]
           /\ \A x \in f.held[v] : AreaOf(x) # AreaOf(b)
  <2>1. /\ Shape(r) /\ r.area = [f.area EXCEPT ![AreaOf(b)] = "free"]
        /\ r.held = f.held /\ r.size = f.size /\ r.mapped = f.mapped
    BY <1>1, <1>4 DEF Sound, Shape, Fields
  <2>2. f.held \in [Allocators -> SUBSET Addresses]
    BY <1>1 DEF Sound
  <2>3. ASSUME NEW x \in Allocators, NEW c \in r.held[x]
        PROVE  r.area[AreaOf(c)] = x
    <3>1. c \in f.held[x] /\ AreaOf(c) \in Areas /\ f.area[AreaOf(c)] = x
      BY <1>1, <2>1, <2>2, AreaOfAddress DEF Sound, Placed
    <3>2. AreaOf(c) # AreaOf(b)
      BY <1>2, <1>4, <3>1
    <3> QED BY <1>1, <2>1, <3>1, <3>2 DEF Sound
  <2>4. ASSUME NEW c \in DOMAIN r.mapped
        PROVE  r.area[AreaOf(c)] = "mapping" /\ c = First(AreaOf(c))
    <3>1. /\ c \in DOMAIN f.mapped /\ AreaOf(c) \in Areas
          /\ f.area[AreaOf(c)] = "mapping" /\ c = First(AreaOf(c))
      BY <1>1, <2>1, AreaOfAddress DEF Sound, Placed
    <3>2. AreaOf(c) # AreaOf(b)
      BY <1>2, <3>1 DEF Versions
    <3> QED BY <1>1, <2>1, <3>1, <3>2 DEF Sound
  <2>5. Placed(r)
    BY <2>3, <2>4 DEF Placed
  <2> QED BY <1>1, <2>1, <2>5, AreaOfAddress DEF Sound, Kept, Given, Taken
<1> QED BY <1>1, <1>3, <1>4

LEMMA UnmapSound ==
  ASSUME NEW m, NEW own, Sound(m, own), NEW v \in Versions,
         NEW b \in DOMAIN m.mapped
  PROVE  Sound(Unmap(m, v, b), own \ {b})
<1> DEFINE r == Unmap(m, v, b)
<1>1. /\ Shape(r) /\ r.area = [m.area EXCEPT ![AreaOf(b)] = "free"]
      /\ r.held = m.held /\ r.size = m.size /\ r.mapped = Without(m.mapped, b)
  BY DEF Sound, Shape, Fields, Unmap
<1>2. DOMAIN r.mapped = DOMAIN m.mapped \ {b}
  BY <1>1 DEF Without
<1> HIDE DEF r
<1>3. /\ m.held \in [Allocators -> SUBSET Addresses]
      /\ AreaOf(b) \in Areas /\ m.area[AreaOf(b)] = "mapping" /\ b = First(AreaOf(b))
  BY AreaOfAddress DEF Sound, Placed
<1>4. ASSUME NEW x \in Allocators, NEW c \in m.held[x]
      PROVE  r.area[AreaOf(c)] = x /\ c # b
  <2>1. AreaOf(c) \in Areas /\ m.area[AreaOf(c)] = x
    BY <1>3, AreaOfAddress DEF Sound, Placed
  <2> QED BY <1>1, <1>3, <2>1 DEF Sound, Allocators, Versions
<1>5. ASSUME NEW c \in DOMAIN r.mapped
      PROVE  r.area[AreaOf(c)] = "mapping" /\ c = First(AreaOf(c))
  <2>1. /\ AreaOf(c) \in Areas /\ m.area[AreaOf(c)] = "mapping"
        /\ c = First(AreaOf(c)) /\ c # b
    BY <1>2, AreaOfAddress DEF Sound, Placed
  <2>2. AreaOf(c) # AreaOf(b)
    BY <1>3, <2>1
  <2> QED BY <1>1, <2>1, <2>2 DEF Sound
<1>6. Placed(r)
  BY <1>1, <1>4, <1>5 DEF Placed
<1>7. Kept(r) \subseteq own \ {b} /\ own \ {b} \subseteq Given(r)
  BY <1>1, <1>2, <1>4 DEF Sound, Kept, Given, Allocators, Versions
<1>8. Sound(r, own \ {b})
  BY <1>1, <1>2, <1>3, <1>6, <1>7 DEF Sound, Taken
<1> QED BY <1>8 DEF r

-----------------------------------------------------------------------------
(* What realloc does.                                                      *)

LEMMA RemappedSound ==
  ASSUME NEW m, NEW own, Sound(m, own), NEW v \in Versions,
         NEW b \in DOMAIN m.mapped, NEW n, NEW o \in Remapped(m, v, b, n)
  PROVE  Sound(o.mem, (own \ {b}) \cup {o.addr})
<1> DEFINE u == Unmap(m, v, b)
           f == [m EXCEPT !.area[AreaOf(b)] = "free"]
<1>1. PICK a \in FreeAreas(m) \cup {AreaOf(b)} :
        o = [mem |-> [Occupied(f, a, "mapping") EXCEPT
               !.mapped = With(Without(@, b), First(a), MappingSize(n)),
               !.bytes[v] = @ + MappingSize(n) - m.mapped[b]],
             addr |-> First(a)]
  BY DEF Remapped
<1>2. /\ Sound(u, own \ {b}) /\ Shape(u) /\ Shape(f)
      /\ u.area = f.area /\ u.held = f.held /\ u.size = f.size
      /\ u.mapped = Without(f.mapped, b)
      /\ f.area = [m.area EXCEPT ![AreaOf(b)] = "free"]
  <2>1. Sound(u, own \ {b})
    BY UnmapSound
  <2> QED BY <2>1 DEF Sound, Shape, Fields, Unmap
<1> HIDE DEF u, f
<1>3. a \in Areas /\ u.area[a] = "free"
  <2>1. AreaOf(b) \in Areas
    BY AreaOfAddress DEF Sound
  <2>2. a \in Areas /\ (a = AreaOf(b) \/ m.area[a] = "free")
    BY <1>1, <2>1 DEF FreeAreas, Lowest
  <2> QED BY <1>2, <2>1, <2>2 DEF Sound
<1>4. First(a) \in Addresses /\ AreaOf(First(a)) = a
  BY <1>3, FirstInArea
<1>5. o.addr = First(a)
  BY <1>1
<1>6. /\ Shape(o.mem) /\ o.mem.area = [u.area EXCEPT ![a] = "mapping"]
      /\ o.mem.held = u.held /\ o.mem.size = u.size
      /\ o.mem.mapped = With(u.mapped, First(a), MappingSize(n))
  <2> DEFINE r == Occupied(f, a, "mapping")
  <2> Shape(f)
    BY <1>2
  <2>1. /\ Shape(r) /\ r.area = [f.area EXCEPT ![a] = "mapping"]
        /\ r.held = f.held /\ r.size = f.size /\ r.mapped = f.mapped
    BY OccupiedFields
  <2>2. o.mem = [r EXCEPT !.mapped = With(Without(@, b), First(a), MappingSize(n)),
                          !.bytes[v] = @ + MappingSize(n) - m.mapped[b]]
    BY <1>1
  <2> HIDE DEF r
  <2>3. /\ Shape(o.mem) /\ o.mem.area = r.area /\ o.mem.held = r.held
        /\ o.mem.size = r.size
        /\ o.mem.mapped = With(Without(r.mapped, b), First(a), MappingSize(n))
    BY <2>1, <2>2 DEF Shape, Fields
  <2> QED BY <1>2, <2>1, <2>3
<1>7. Sound(o.mem, (own \ {b}) \cup {First(a)})
  BY <1>2, <1>3, <1>6, MappingAddedSound
<1> QED BY <1>5, <1>7

LEMMA RemadeSound ==
  ASSUME NEW m, NEW own, Sound(m, own), NEW v \in Versions,
         NEW b \in DOMAIN m.mapped, b \in own, NEW n, NEW o \in Remade(m, v, b, n)
  PROVE  Sound(o.mem, (own \ {b}) \cup {o.addr})
<1>1. CASE o = [mem |-> m, addr |-> b]
  <2>1. o.mem = m /\ (own \ {b}) \cup {o.addr} = own
    BY <1>1
  <2> QED BY <2>1
<1>2. ASSUME NEW s \in Serve(m, v, n), o = [mem |-> Unmap(s.mem, v, b), addr |-> s.addr]
      PROVE  Sound(o.mem, (own \ {b}) \cup {o.addr})
  <2>1. /\ Sound(s.mem, own \cup {s.addr}) /\ s.addr \notin own
        /\ b \in DOMAIN s.mem.mapped
    BY ServeSound
  <2>2. Sound(Unmap(s.mem, v, b), (own \cup {s.addr}) \ {b})
    BY <2>1, UnmapSound
  <2>3. (own \cup {s.addr}) \ {b} = (own \ {b}) \cup {s.addr}
    BY <2>1
  <2> QED BY <1>2, <2>2, <2>3
<1> QED BY <1>1, <1>2 DEF Remade

LEMMA ResizedSound ==
  ASSUME NEW m, NEW own, Sound(m, own), NEW v \in Versions,
         NEW b \in m.held[v], b \in own, NEW n, NEW o \in Resized(m, v, b, n)
  PROVE  Sound(o.mem, (own \ {b}) \cup {o.addr})
<1>1. CASE o = [mem |-> [m EXCEPT !.size[b] = n], addr |-> b]
  <2>1. (own \ {b}) \cup {o.addr} = own
    BY <1>1
  <2>2. /\ Shape(o.mem) /\ o.mem.area = m.area /\ o.mem.held = m.held
        /\ o.mem.mapped = m.mapped /\ DOMAIN o.mem.size = DOMAIN m.size
    BY <1>1 DEF Sound, Shape, Fields
  <2>3. Sound(o.mem, own)
    BY <2>2 DEF Sound, Placed, Kept, Given, Taken
  <2> QED BY <2>1, <2>3
<1>2. ASSUME NEW s \in Serve(m, v, n), NEW r \in Released(s.mem, v, b),
             o = [mem |-> r, addr |-> s.addr]
      PROVE  Sound(o.mem, (own \ {b}) \cup {o.addr})
  <2>1. /\ Sound(s.mem, own \cup {s.addr}) /\ s.addr \notin own
        /\ b \in s.mem.held[v]
    BY ServeSound DEF Allocators
  <2>2. Sound(r, (own \cup {s.addr}) \ {b})
    BY <2>1, ReleasedSound
  <2>3. (own \cup {s.addr}) \ {b} = (own \ {b}) \cup {s.addr}
    BY <2>1
  <2> QED BY <1>2, <2>2, <2>3
<1> QED BY <1>1, <1>2 DEF Resized

\* realloc copies a block of the C library and leaves it there.
LEMMA CopiedAwaySound ==
  ASSUME NEW m, NEW own, Sound(m, own), NEW b \in m.held["glibc"], NEW n,
         NEW o \in Serve(m, "other", n)
  PROVE  Sound(o.mem, (own \ {b}) \cup {o.addr})
<1>1. "other" \in Versions /\ "glibc" \in Allocators
  BY DEF Versions, Allocators
<1>2. Sound(o.mem, own \cup {o.addr})
  BY <1>1, ServeSound
<1>3. b \in o.mem.held["glibc"]
  BY <1>1, ServeSound
<1>4. b \notin Kept(o.mem)
  BY <1>2, <1>3 DEF Sound, Placed, Kept, Allocators, Versions
<1>5. /\ Kept(o.mem) \subseteq (own \ {b}) \cup {o.addr}
      /\ (own \ {b}) \cup {o.addr} \subseteq Given(o.mem)
  BY <1>2, <1>4 DEF Sound
<1> QED BY <1>2, <1>5 DEF Sound

LEMMA OwnerKnown ==
  ASSUME NEW m, NEW own, Sound(m, own), NEW b \in own, b \notin DOMAIN m.mapped
  PROVE  \/ IsMyHeap(m, "cold", b) /\ b \in m.held["cold"]
         \/ /\ ~ IsMyHeap(m, "cold", b)
            /\ IsMyHeap(m, "other", b) /\ b \in m.held["other"]
         \/ /\ ~ IsMyHeap(m, "cold", b) /\ ~ IsMyHeap(m, "other", b)
            /\ b \in m.held["glibc"] /\ b \notin Kept(m)
<1>1. PICK x \in Allocators : b \in m.held[x]
  BY DEF Sound, Given, Kept, Allocators, Versions
<1>2. m.area[AreaOf(b)] = x /\ \A y \in Allocators \ {x} : b \notin m.held[y]
  BY <1>1 DEF Sound, Placed
<1> QED BY <1>1, <1>2 DEF IsMyHeap, Kept, Allocators, Versions

\* free takes a block from the allocator it belongs to.
LEMMA FreedMemorySound ==
  ASSUME NEW m, NEW own, Sound(m, own), NEW b \in own, NEW r \in FreedMemory(m, b)
  PROVE  Sound(r, own \ {b})
<1>1. CASE b \in DOMAIN m.mapped
  BY <1>1, UnmapSound DEF FreedMemory, Versions
<1>2. CASE b \notin DOMAIN m.mapped /\ IsMyHeap(m, "cold", b) /\ b \in m.held["cold"]
  BY <1>2, ReleasedSound DEF FreedMemory, Versions
<1>3. CASE /\ b \notin DOMAIN m.mapped /\ ~ IsMyHeap(m, "cold", b)
           /\ IsMyHeap(m, "other", b) /\ b \in m.held["other"]
  BY <1>3, ReleasedSound DEF FreedMemory, Versions
<1>4. CASE /\ b \notin DOMAIN m.mapped
           /\ ~ IsMyHeap(m, "cold", b) /\ ~ IsMyHeap(m, "other", b)
           /\ b \in m.held["glibc"]
  <2>1. "glibc" \in Allocators
    BY DEF Allocators
  <2>2. r = [m EXCEPT !.held["glibc"] = @ \ {b}, !.size = Without(@, b)]
    BY <1>4 DEF FreedMemory
  <2> QED BY <1>4, <2>1, <2>2, ForgottenSound
<1> QED BY <1>1, <1>2, <1>3, <1>4, OwnerKnown

LEMMA ReallocSound ==
  ASSUME NEW m, NEW own, Sound(m, own), NEW b \in own, NEW n,
         NEW o \in ReallocOutcomes(m, b, n)
  PROVE  Sound(o.mem, (own \ {b}) \cup {o.addr})
<1>1. CASE b \in DOMAIN m.mapped
  <2>1. o \in Remapped(m, "cold", b, n) \/ o \in Remade(m, "cold", b, n)
    BY <1>1 DEF ReallocOutcomes
  <2> QED BY <1>1, <2>1, RemappedSound, RemadeSound DEF Versions
<1>2. CASE b \notin DOMAIN m.mapped /\ IsMyHeap(m, "cold", b) /\ b \in m.held["cold"]
  BY <1>2, ResizedSound DEF ReallocOutcomes, Versions
<1>3. CASE /\ b \notin DOMAIN m.mapped /\ ~ IsMyHeap(m, "cold", b)
           /\ IsMyHeap(m, "other", b) /\ b \in m.held["other"]
  BY <1>3, ResizedSound DEF ReallocOutcomes, Versions
<1>4. CASE /\ b \notin DOMAIN m.mapped
           /\ ~ IsMyHeap(m, "cold", b) /\ ~ IsMyHeap(m, "other", b)
           /\ b \in m.held["glibc"]
  <2>1. o \in Serve(m, "other", n)
    BY <1>4 DEF ReallocOutcomes
  <2> QED BY <1>4, <2>1, CopiedAwaySound
<1> QED BY <1>1, <1>2, <1>3, <1>4, OwnerKnown

-----------------------------------------------------------------------------
(* The invariant.                                                          *)

LEMMA SoundInit == TwoMallocsInit => Sound(mem, owned)
BY DEF TwoMallocsInit, Sound, Shape, Fields, Placed, Kept, Given, Taken, Tenants,
       Allocators, Versions

LEMMA SoundNext ==
  Sound(mem, owned) /\ [TwoMallocsNext]_vars => Sound(mem, owned)'
<1> SUFFICES ASSUME Sound(mem, owned), [TwoMallocsNext]_vars
             PROVE  Sound(mem', owned')
  BY DEF Sound, Shape, Placed, Kept, Given, Taken
<1>1. ASSUME NEW p \in Callers, NEW n \in Sizes, Malloc(p, n)
      PROVE  Sound(mem', owned')
  <2>1. PICK o \in Serve(mem, Version(p), n) : mem' = o.mem /\ owned' = owned \cup {o.addr}
    BY <1>1 DEF Malloc, Become
  <2>2. Version(p) \in Versions
    BY DEF Version, Versions
  <2> QED BY <2>1, <2>2, ServeSound
<1>2. ASSUME NEW n \in Sizes, Memalign(n)
      PROVE  Sound(mem', owned')
  <2>1. CASE \E a \in FreeAreas(mem) :
               /\ mem' = [Occupied(mem, a, "mapping") EXCEPT
                            !.mapped = With(@, First(a), MappingSize(n))]
               /\ owned' = owned \cup {First(a)}
    <3>1. PICK a \in FreeAreas(mem) :
            /\ mem' = [Occupied(mem, a, "mapping") EXCEPT
                         !.mapped = With(@, First(a), MappingSize(n))]
            /\ owned' = owned \cup {First(a)}
      BY <2>1
    <3>2. a \in Areas /\ mem.area[a] = "free" /\ Shape(mem)
      BY <3>1 DEF FreeAreas, Lowest, Sound
    <3> DEFINE r == Occupied(mem, a, "mapping")
    <3>3. /\ Shape(r) /\ r.area = [mem.area EXCEPT ![a] = "mapping"]
          /\ r.held = mem.held /\ r.size = mem.size /\ r.mapped = mem.mapped
      BY <3>2, OccupiedFields
    <3>4. mem' = [r EXCEPT !.mapped = With(@, First(a), MappingSize(n))]
      BY <3>1
    <3> HIDE DEF r
    <3>5. /\ Shape(mem') /\ mem'.area = [mem.area EXCEPT ![a] = "mapping"]
          /\ mem'.held = mem.held /\ mem'.size = mem.size
          /\ mem'.mapped = With(mem.mapped, First(a), MappingSize(n))
      BY <3>3, <3>4 DEF Shape, Fields
    <3> QED BY <3>1, <3>2, <3>5, MappingAddedSound
  <2>2. CASE \E o \in HeapBlock(mem, "glibc", n) :
               mem' = o.mem /\ owned' = owned \cup {o.addr}
    <3>1. "glibc" \in Allocators
      BY DEF Allocators
    <3>2. PICK o \in HeapBlock(mem, "glibc", n) :
            mem' = o.mem /\ owned' = owned \cup {o.addr}
      BY <2>2
    <3>3. Sound(o.mem, owned \cup {o.addr})
      BY <3>1, HeapBlockSound
    <3> QED BY <3>2, <3>3
  <2> QED BY <1>2, <2>1, <2>2 DEF Memalign, Become
<1>3. ASSUME NEW b \in owned, Free(b)
      PROVE  Sound(mem', owned')
  BY <1>3, FreedMemorySound DEF Free, Become
<1>4. ASSUME NEW b \in owned, ReallocZero(b)
      PROVE  Sound(mem', owned')
  <2>1. CASE b \in mem.held["glibc"]
    <3>1. PICK o \in Serve(mem, "other", 1) :
            mem' = o.mem /\ owned' = (owned \ {b}) \cup {o.addr}
      BY <1>4, <2>1 DEF ReallocZero, Become
    <3> QED BY <2>1, <3>1, CopiedAwaySound
  <2>2. CASE b \notin mem.held["glibc"]
    BY <1>4, <2>2, FreedMemorySound DEF ReallocZero, Become
  <2> QED BY <2>1, <2>2
<1>5. ASSUME NEW b \in owned, ReallocFails(b)
      PROVE  Sound(mem', owned')
  BY <1>5 DEF ReallocFails
<1>6. ASSUME NEW b \in owned, NEW n \in Sizes, Realloc(b, n)
      PROVE  Sound(mem', owned')
  <2>1. PICK o \in ReallocOutcomes(mem, b, n) :
          mem' = o.mem /\ owned' = (owned \ {b}) \cup {o.addr}
    BY <1>6 DEF Realloc, Become
  <2> QED BY <2>1, ReallocSound
<1>7. ASSUME NEW b \in owned, Miss(b)
      PROVE  Sound(mem', owned')
  BY <1>7 DEF Miss
<1>8. CASE UNCHANGED vars
  BY <1>8 DEF vars, program
<1> QED BY <1>1, <1>2, <1>3, <1>4, <1>5, <1>6, <1>7, <1>8 DEF TwoMallocsNext

LEMMA SoundIsHeldByOwner == Sound(mem, owned) => HeldByOwner
<1> SUFFICES ASSUME Sound(mem, owned) PROVE HeldByOwner
  OBVIOUS
<1>1. \A x, y \in Allocators : x # y => mem.held[x] \cap mem.held[y] = {}
  BY DEF Sound, Placed
<1>2. Taken(mem) \cap DOMAIN mem.mapped = {}
  BY DEF Sound, Placed, Taken, Allocators, Versions
<1>3. owned \subseteq Taken(mem) \cup DOMAIN mem.mapped
  BY DEF Sound, Given, Kept, Taken, Allocators, Versions
<1> QED BY <1>1, <1>2, <1>3 DEF HeldByOwner, Sound, Placed, Kept

\* Every block the program holds is known to the one allocator it came from,
\* whichever caller asked, wherever the areas lie, and however often free and
\* realloc hand it on: the key in the heap never sends one copy the other's
\* block (HeldByOwner; malloc, free and realloc in mymalloc_with_cold.c).
THEOREM HeldByOwnerHolds == TwoMallocsSpec => []HeldByOwner
<1>1. TwoMallocsInit => Sound(mem, owned)
  BY SoundInit
<1>2. Sound(mem, owned) /\ [TwoMallocsNext]_vars => Sound(mem, owned)'
  BY SoundNext
<1>3. Sound(mem, owned) => HeldByOwner
  BY SoundIsHeldByOwner
<1> QED BY <1>1, <1>2, <1>3, PTL DEF TwoMallocsSpec

-----------------------------------------------------------------------------
(* The counters of the mappings.                                           *)

SumsUp(m, f) ==
  /\ IsFiniteSet(DOMAIN m.mapped) /\ m.mapped \in [DOMAIN m.mapped -> Nat]
  /\ m.maps \in [Versions -> Int] /\ m.bytes \in [Versions -> Int]
  /\ f[1] \in Nat /\ f[2] \in Nat
  /\ m.maps["cold"] + m.maps["other"] = Cardinality(DOMAIN m.mapped) - f[1]
  /\ m.bytes["cold"] + m.bytes["other"] = Total(m.mapped) - f[2]

LEMMA MappingBytes ==
  ASSUME NEW n \in Nat
  PROVE  MappingSize(n) \in Nat
<1>1. PageBytes \in Nat \ {0}
  BY TwoMallocsAssumption DEF TwoMallocsAssumption
<1>2. (n + PageBytes) \div PageBytes \in Nat
  BY <1>1
<1> DEFINE q == (n + PageBytes) \div PageBytes
<1>3. \A x, y \in Nat : x * y \in Nat
  OBVIOUS
<1>4. q * PageBytes \in Nat
  <2> HIDE DEF q
  <2> QED BY <1>1, <1>2, <1>3 DEF q
<1> QED BY <1>4 DEF MappingSize

LEMMA SumWith ==
  ASSUME NEW f, IsFiniteSet(DOMAIN f), f \in [DOMAIN f -> Nat],
         NEW b, b \notin DOMAIN f, NEW k \in Nat,
         NEW g, g = With(f, b, k)
  PROVE  /\ IsFiniteSet(DOMAIN g) /\ g \in [DOMAIN g -> Nat]
         /\ Cardinality(DOMAIN g) = Cardinality(DOMAIN f) + 1
         /\ Total(g) = Total(f) + k
         /\ Cardinality(DOMAIN f) \in Nat /\ Total(f) \in Int
<1>1. /\ DOMAIN g = DOMAIN f \cup {b} /\ g[b] = k
      /\ \A x \in DOMAIN f : g[x] = f[x] /\ x # b
      /\ g \in [DOMAIN g -> Nat]
  BY DEF With
<1>2. /\ IsFiniteSet(DOMAIN g) /\ Cardinality(DOMAIN g) = Cardinality(DOMAIN f) + 1
      /\ Cardinality(DOMAIN f) \in Nat
  BY <1>1, FS_AddElement, FS_CardinalityType
<1>3. /\ b \in DOMAIN g /\ IsRest(f, g, b)
      /\ f \in [DOMAIN f -> Int] /\ g \in [DOMAIN g -> Int]
  BY <1>1 DEF IsRest
<1>4. /\ Total(g) = g[b] + Total(f)
      /\ Total(g) \in Int /\ Total(f) \in Int
  BY <1>2, <1>3, SumSplit
<1> QED BY <1>1, <1>2, <1>4

LEMMA SumWithout ==
  ASSUME NEW f, IsFiniteSet(DOMAIN f), f \in [DOMAIN f -> Nat], NEW b \in DOMAIN f,
         NEW g, g = Without(f, b)
  PROVE  /\ IsFiniteSet(DOMAIN g) /\ g \in [DOMAIN g -> Nat]
         /\ Cardinality(DOMAIN g) = Cardinality(DOMAIN f) - 1
         /\ Total(g) = Total(f) - f[b]
         /\ Cardinality(DOMAIN f) \in Nat /\ Total(f) \in Int
<1>1. /\ DOMAIN g = DOMAIN f \ {b} /\ \A x \in DOMAIN g : g[x] = f[x]
      /\ g \in [DOMAIN g -> Nat] /\ f[b] \in Nat
  BY DEF Without
<1>2. /\ IsFiniteSet(DOMAIN g) /\ Cardinality(DOMAIN g) = Cardinality(DOMAIN f) - 1
      /\ Cardinality(DOMAIN f) \in Nat
  BY <1>1, FS_RemoveElement, FS_CardinalityType
<1>3. f \in [DOMAIN f -> Int] /\ g \in [DOMAIN g -> Int] /\ IsRest(g, f, b)
  BY <1>1 DEF IsRest
<1>4. /\ Total(f) = f[b] + Total(g)
      /\ Total(f) \in Int /\ Total(g) \in Int
  BY <1>1, <1>3, SumSplit
<1> QED BY <1>1, <1>2, <1>4

LEMMA OccupiedCounters ==
  ASSUME NEW m, Shape(m), NEW a, NEW who
  PROVE  LET r == Occupied(m, a, who) IN
         Shape(r) /\ r.mapped = m.mapped /\ r.maps = m.maps /\ r.bytes = m.bytes
BY DEF Shape, Fields, Occupied

Raised(f, v, k) == [f EXCEPT ![v] = @ + k]

\* What a copy counts when it maps a block.
LEMMA MappingCounted ==
  ASSUME NEW m, NEW f, SumsUp(m, f), NEW b, b \notin DOMAIN m.mapped, NEW k \in Nat,
         NEW v \in Versions, NEW r, r.mapped = With(m.mapped, b, k),
         r.maps = Raised(m.maps, v, 1), r.bytes = Raised(m.bytes, v, k)
  PROVE  SumsUp(r, f)
<1>1. /\ IsFiniteSet(DOMAIN r.mapped) /\ r.mapped \in [DOMAIN r.mapped -> Nat]
      /\ Cardinality(DOMAIN r.mapped) = Cardinality(DOMAIN m.mapped) + 1
      /\ Total(r.mapped) = Total(m.mapped) + k
      /\ Cardinality(DOMAIN m.mapped) \in Nat /\ Total(m.mapped) \in Int
  BY SumWith DEF SumsUp
<1> DEFINE c == Cardinality(DOMAIN m.mapped)
           s == Total(m.mapped)
           d == Cardinality(DOMAIN r.mapped)
           t == Total(r.mapped)
<1>2. /\ m.maps \in [Versions -> Int] /\ m.bytes \in [Versions -> Int]
      /\ f[1] \in Nat /\ f[2] \in Nat
      /\ m.maps["cold"] + m.maps["other"] = c - f[1]
      /\ m.bytes["cold"] + m.bytes["other"] = s - f[2]
  BY DEF SumsUp
<1>3. d = c + 1 /\ t = s + k /\ c \in Nat /\ s \in Int
  BY <1>1
<1> HIDE DEF c, s, d, t
<1>4. /\ r.maps \in [Versions -> Int] /\ r.bytes \in [Versions -> Int]
      /\ r.maps["cold"] + r.maps["other"] = d - f[1]
      /\ r.bytes["cold"] + r.bytes["other"] = t - f[2]
  BY <1>2, <1>3 DEF Versions, Raised
<1> QED BY <1>1, <1>2, <1>4 DEF SumsUp, d, t

\* The C library counts its mappings elsewhere.
LEMMA ForeignCounted ==
  ASSUME NEW m, NEW f, SumsUp(m, f), NEW b, b \notin DOMAIN m.mapped, NEW k \in Nat,
         NEW r, r.mapped = With(m.mapped, b, k), r.maps = m.maps, r.bytes = m.bytes
  PROVE  SumsUp(r, <<f[1] + 1, f[2] + k>>)
<1>1. /\ IsFiniteSet(DOMAIN r.mapped) /\ r.mapped \in [DOMAIN r.mapped -> Nat]
      /\ Cardinality(DOMAIN r.mapped) = Cardinality(DOMAIN m.mapped) + 1
      /\ Total(r.mapped) = Total(m.mapped) + k
      /\ Cardinality(DOMAIN m.mapped) \in Nat /\ Total(m.mapped) \in Int
  BY SumWith DEF SumsUp
<1> DEFINE c == Cardinality(DOMAIN m.mapped)
           s == Total(m.mapped)
           d == Cardinality(DOMAIN r.mapped)
           t == Total(r.mapped)
<1>2. /\ m.maps \in [Versions -> Int] /\ m.bytes \in [Versions -> Int]
      /\ f[1] \in Nat /\ f[2] \in Nat
      /\ m.maps["cold"] + m.maps["other"] = c - f[1]
      /\ m.bytes["cold"] + m.bytes["other"] = s - f[2]
  BY DEF SumsUp
<1>3. d = c + 1 /\ t = s + k /\ c \in Nat /\ s \in Int
  BY <1>1
<1> HIDE DEF c, s, d, t
<1> DEFINE g == <<f[1] + 1, f[2] + k>>
<1>4. g[1] = f[1] + 1 /\ g[2] = f[2] + k
  OBVIOUS
<1> HIDE DEF g
<1>5. /\ g[1] \in Nat /\ g[2] \in Nat
      /\ d - g[1] = c - f[1] /\ t - g[2] = s - f[2]
  <2>1. f[1] \in Nat /\ f[2] \in Nat
    BY <1>2
  <2>2. g[1] \in Nat /\ g[2] \in Nat
    BY <1>4, <2>1
  <2>3. d - g[1] = c - f[1]
    BY <1>3, <1>4, <2>1
  <2>4. t - g[2] = s - f[2]
    BY <1>3, <1>4, <2>1
  <2> QED BY <2>2, <2>3, <2>4
<1>6. /\ r.maps["cold"] + r.maps["other"] = d - g[1]
      /\ r.bytes["cold"] + r.bytes["other"] = t - g[2]
  BY <1>2, <1>5
<1>7. r.maps \in [Versions -> Int] /\ r.bytes \in [Versions -> Int]
  BY <1>2
<1>8. SumsUp(r, g)
  BY <1>1, <1>5, <1>6, <1>7 DEF SumsUp, d, t
<1> QED BY <1>8 DEF g

LEMMA SameCounted ==
  ASSUME NEW m, NEW f, SumsUp(m, f), NEW r,
         r.mapped = m.mapped, r.maps = m.maps, r.bytes = m.bytes
  PROVE  SumsUp(r, f)
BY DEF SumsUp

LEMMA UnmapCounted ==
  ASSUME NEW m, NEW f, Shape(m), SumsUp(m, f), NEW v \in Versions,
         NEW b \in DOMAIN m.mapped
  PROVE  SumsUp(Unmap(m, v, b), f)
<1> DEFINE r == Unmap(m, v, b)
<1>1. /\ r.mapped = Without(m.mapped, b)
      /\ r.maps = [m.maps EXCEPT ![v] = @ - 1]
      /\ r.bytes = [m.bytes EXCEPT ![v] = @ - m.mapped[b]]
  BY DEF Shape, Fields, Unmap
<1> HIDE DEF r
<1>2. /\ IsFiniteSet(DOMAIN r.mapped) /\ r.mapped \in [DOMAIN r.mapped -> Nat]
      /\ Cardinality(DOMAIN r.mapped) = Cardinality(DOMAIN m.mapped) - 1
      /\ Total(r.mapped) = Total(m.mapped) - m.mapped[b]
      /\ Cardinality(DOMAIN m.mapped) \in Nat /\ Total(m.mapped) \in Int
  BY <1>1, SumWithout DEF SumsUp
<1> DEFINE c == Cardinality(DOMAIN m.mapped)
           s == Total(m.mapped)
           d == Cardinality(DOMAIN r.mapped)
           t == Total(r.mapped)
           k == m.mapped[b]
<1>3. /\ m.maps \in [Versions -> Int] /\ m.bytes \in [Versions -> Int]
      /\ f[1] \in Nat /\ f[2] \in Nat /\ k \in Nat
      /\ m.maps["cold"] + m.maps["other"] = c - f[1]
      /\ m.bytes["cold"] + m.bytes["other"] = s - f[2]
  BY DEF SumsUp
<1>4. d = c - 1 /\ t = s - k /\ c \in Nat /\ s \in Int
  BY <1>2
<1>5. r.bytes = [m.bytes EXCEPT ![v] = @ - k]
  BY <1>1
<1> HIDE DEF c, s, d, t, k
<1>6. /\ r.maps \in [Versions -> Int] /\ r.bytes \in [Versions -> Int]
      /\ r.maps["cold"] + r.maps["other"] = d - f[1]
      /\ r.bytes["cold"] + r.bytes["other"] = t - f[2]
  <2> DEFINE x == m.maps["cold"]
             y == m.maps["other"]
             z == m.bytes["cold"]
             w == m.bytes["other"]
  <2>1. x \in Int /\ y \in Int /\ z \in Int /\ w \in Int
    BY <1>3 DEF Versions
  <2>2. \/ r.maps["cold"] = x - 1 /\ r.maps["other"] = y
           /\ r.bytes["cold"] = z - k /\ r.bytes["other"] = w
        \/ r.maps["cold"] = x /\ r.maps["other"] = y - 1
           /\ r.bytes["cold"] = z /\ r.bytes["other"] = w - k
    BY <1>1, <1>3, <1>5 DEF Versions
  <2>3. r.maps \in [Versions -> Int] /\ r.bytes \in [Versions -> Int]
    BY <1>1, <1>3, <1>5
  <2>4. x + y = c - f[1] /\ z + w = s - f[2] /\ f[1] \in Nat /\ f[2] \in Nat /\ k \in Nat
    BY <1>3
  <2> DEFINE g == f[1]
             h == f[2]
  <2>5. x + y = c - g /\ z + w = s - h /\ g \in Nat /\ h \in Nat
    BY <2>4
  <2> HIDE DEF x, y, z, w, g, h
  <2>6. (x - 1) + y = d - g /\ x + (y - 1) = d - g
    BY ONLY <1>4, <2>1, <2>5
  <2>7. (z - k) + w = t - h /\ z + (w - k) = t - h
    BY ONLY <1>4, <2>1, <2>4, <2>5
  <2> QED BY <2>2, <2>3, <2>6, <2>7 DEF g, h
<1>7. SumsUp(r, f)
  BY <1>2, <1>3, <1>6 DEF SumsUp, d, t
<1> QED BY <1>7 DEF r

LEMMA FreeHasNoMapping ==
  ASSUME NEW m, NEW own, Sound(m, own), NEW a \in Areas, m.area[a] = "free"
  PROVE  First(a) \notin DOMAIN m.mapped
BY FirstInArea DEF Sound, Placed

LEMMA ServeCounted ==
  ASSUME NEW m, NEW own, Sound(m, own), NEW f, SumsUp(m, f), NEW v \in Versions,
         NEW n \in Nat, NEW o \in MapBlock(m, v, n)
  PROVE  SumsUp(o.mem, f)
<1>1. PICK a \in FreeAreas(m) :
        o = [mem |-> [Occupied(m, a, "mapping") EXCEPT
               !.mapped = With(@, First(a), MappingSize(n)),
               !.maps[v] = @ + 1, !.bytes[v] = @ + MappingSize(n)],
             addr |-> First(a)]
  BY DEF MapBlock
<1>2. a \in Areas /\ m.area[a] = "free" /\ Shape(m)
  BY <1>1 DEF FreeAreas, Lowest, Sound
<1>3. First(a) \notin DOMAIN m.mapped /\ MappingSize(n) \in Nat
  BY <1>2, FreeHasNoMapping, MappingBytes
<1>4. /\ o.mem.mapped = With(m.mapped, First(a), MappingSize(n))
      /\ o.mem.maps = Raised(m.maps, v, 1)
      /\ o.mem.bytes = Raised(m.bytes, v, MappingSize(n))
  <2> DEFINE r == Occupied(m, a, "mapping")
  <2>1. Shape(r) /\ r.mapped = m.mapped /\ r.maps = m.maps /\ r.bytes = m.bytes
    BY <1>2, OccupiedCounters
  <2>2. o.mem = [r EXCEPT !.mapped = With(@, First(a), MappingSize(n)),
                          !.maps[v] = @ + 1, !.bytes[v] = @ + MappingSize(n)]
    BY <1>1
  <2> HIDE DEF r
  <2> QED BY <2>1, <2>2 DEF Shape, Fields, Raised
<1> QED BY <1>3, <1>4, MappingCounted

LEMMA HeapBlockCounted ==
  ASSUME NEW m, Shape(m), NEW f, SumsUp(m, f), NEW v \in Allocators, NEW n,
         NEW o \in HeapBlock(m, v, n)
  PROVE  SumsUp(o.mem, f)
<1>1. PICK b : o = [mem |-> [Occupied(m, AreaOf(b), v) EXCEPT
                               !.held[v] = @ \cup {b}, !.size = With(@, b, n)],
                    addr |-> b]
  BY DEF HeapBlock
<1> DEFINE r == Occupied(m, AreaOf(b), v)
<1>2. Shape(r) /\ r.mapped = m.mapped /\ r.maps = m.maps /\ r.bytes = m.bytes
  BY OccupiedCounters
<1>3. o.mem = [r EXCEPT !.held[v] = @ \cup {b}, !.size = With(@, b, n)]
  BY <1>1
<1> HIDE DEF r
<1>4. o.mem.mapped = m.mapped /\ o.mem.maps = m.maps /\ o.mem.bytes = m.bytes
  BY <1>2, <1>3 DEF Shape, Fields
<1> QED BY <1>4, SameCounted

LEMMA ReleasedCounted ==
  ASSUME NEW m, Shape(m), NEW f, SumsUp(m, f), NEW v, NEW b,
         NEW r \in Released(m, v, b)
  PROVE  SumsUp(r, f)
<1>1. r.mapped = m.mapped /\ r.maps = m.maps /\ r.bytes = m.bytes
  BY DEF Released, Shape, Fields
<1> QED BY <1>1, SameCounted

LEMMA RemappedCounted ==
  ASSUME NEW m, NEW own, Sound(m, own), NEW f, SumsUp(m, f), NEW v \in Versions,
         NEW b \in DOMAIN m.mapped, NEW n \in Nat, NEW o \in Remapped(m, v, b, n)
  PROVE  SumsUp(o.mem, f)
<1> DEFINE u == Unmap(m, v, b)
           w == [m EXCEPT !.area[AreaOf(b)] = "free"]
           k == m.mapped[b]
<1>1. PICK a \in FreeAreas(m) \cup {AreaOf(b)} :
        o = [mem |-> [Occupied(w, a, "mapping") EXCEPT
               !.mapped = With(Without(@, b), First(a), MappingSize(n)),
               !.bytes[v] = @ + MappingSize(n) - k],
             addr |-> First(a)]
  BY DEF Remapped
<1>2. Shape(m) /\ m.area \in [Areas -> Tenants \cup {"free"}] /\ AreaOf(b) \in Areas
  BY AreaOfAddress DEF Sound
<1>3. Sound(u, own \ {b}) /\ SumsUp(u, f)
  BY <1>2, UnmapSound, UnmapCounted
<1>4. a \in Areas /\ u.area[a] = "free"
  <2>1. a \in Areas /\ (a = AreaOf(b) \/ m.area[a] = "free")
    BY <1>1, <1>2 DEF FreeAreas, Lowest
  <2>2. u.area = [m.area EXCEPT ![AreaOf(b)] = "free"]
    BY <1>2 DEF Unmap, Shape, Fields
  <2> QED BY <1>2, <2>1, <2>2
<1>5. First(a) \notin DOMAIN u.mapped /\ MappingSize(n) \in Nat
  BY <1>3, <1>4, FreeHasNoMapping, MappingBytes
<1>6. /\ u.mapped = Without(m.mapped, b) /\ u.maps = [m.maps EXCEPT ![v] = @ - 1]
      /\ u.bytes = [m.bytes EXCEPT ![v] = @ - k]
      /\ Shape(w) /\ w.mapped = m.mapped /\ w.maps = m.maps /\ w.bytes = m.bytes
  BY <1>2 DEF Unmap, Shape, Fields
<1>7. k \in Nat /\ m.maps \in [Versions -> Int] /\ m.bytes \in [Versions -> Int]
  BY DEF SumsUp
<1> HIDE DEF u, w, k
<1>8. /\ o.mem.mapped = With(u.mapped, First(a), MappingSize(n))
      /\ o.mem.maps = m.maps
      /\ o.mem.bytes = [m.bytes EXCEPT ![v] = @ + MappingSize(n) - k]
  <2> DEFINE r == Occupied(w, a, "mapping")
  <2>1. Shape(r) /\ r.mapped = m.mapped /\ r.maps = m.maps /\ r.bytes = m.bytes
    BY <1>6, OccupiedCounters
  <2>2. o.mem = [r EXCEPT !.mapped = With(Without(@, b), First(a), MappingSize(n)),
                          !.bytes[v] = @ + MappingSize(n) - k]
    BY <1>1
  <2> HIDE DEF r
  <2> QED BY <1>6, <2>1, <2>2 DEF Shape, Fields
<1>9. /\ o.mem.maps = Raised(u.maps, v, 1)
      /\ o.mem.bytes = Raised(u.bytes, v, MappingSize(n))
  <2>1. o.mem.maps = Raised(u.maps, v, 1)
    BY <1>6, <1>7, <1>8 DEF Raised
  <2>2. o.mem.bytes = Raised(u.bytes, v, MappingSize(n))
    <3> DEFINE s == MappingSize(n)
    <3>1. s \in Nat /\ o.mem.bytes = [m.bytes EXCEPT ![v] = @ + s - k]
      BY <1>5, <1>8
    <3> HIDE DEF s
    <3>2. o.mem.bytes = Raised(u.bytes, v, s)
      BY <1>6, <1>7, <3>1 DEF Raised
    <3> QED BY <3>2 DEF s
  <2> QED BY <2>1, <2>2
<1> QED BY <1>3, <1>5, <1>8, <1>9, MappingCounted

LEMMA AnyServed ==
  ASSUME NEW m, NEW own, Sound(m, own), NEW f, SumsUp(m, f), NEW v \in Versions,
         NEW n \in Nat, NEW o \in Serve(m, v, n)
  PROVE  SumsUp(o.mem, f) /\ Shape(o.mem) /\ DOMAIN m.mapped \subseteq DOMAIN o.mem.mapped
<1>1. Shape(o.mem) /\ DOMAIN m.mapped \subseteq DOMAIN o.mem.mapped
  BY ServeSound DEF Sound
<1>2. v \in Allocators /\ Shape(m)
  BY DEF Allocators, Sound
<1> QED BY <1>1, <1>2, ServeCounted, HeapBlockCounted DEF Serve

LEMMA FreedCounted ==
  ASSUME NEW m, NEW own, Sound(m, own), NEW f, SumsUp(m, f), NEW b,
         NEW r \in FreedMemory(m, b)
  PROVE  SumsUp(r, f)
<1>1. Shape(m)
  BY DEF Sound
<1>2. CASE b \in DOMAIN m.mapped
  BY <1>1, <1>2, UnmapCounted DEF FreedMemory, Versions
<1>3. CASE \E v \in Versions : r \in Released(m, v, b)
  BY <1>1, <1>3, ReleasedCounted
<1>4. CASE r = [m EXCEPT !.held["glibc"] = @ \ {b}, !.size = Without(@, b)]
  <2>1. r.mapped = m.mapped /\ r.maps = m.maps /\ r.bytes = m.bytes
    BY <1>1, <1>4 DEF Shape, Fields
  <2> QED BY <2>1, SameCounted
<1> QED BY <1>2, <1>3, <1>4 DEF FreedMemory, Versions

LEMMA ReallocCounted ==
  ASSUME NEW m, NEW own, Sound(m, own), NEW f, SumsUp(m, f), NEW b, NEW n \in Nat,
         NEW o \in ReallocOutcomes(m, b, n)
  PROVE  SumsUp(o.mem, f)
<1>1. Shape(m)
  BY DEF Sound
<1>2. CASE b \in DOMAIN m.mapped /\ o \in Remapped(m, "cold", b, n)
  BY <1>2, RemappedCounted DEF Versions
<1>3. CASE b \in DOMAIN m.mapped /\ o \in Remade(m, "cold", b, n)
  <2>1. CASE o = [mem |-> m, addr |-> b]
    BY <2>1
  <2>2. ASSUME NEW s \in Serve(m, "cold", n),
               o = [mem |-> Unmap(s.mem, "cold", b), addr |-> s.addr]
        PROVE  SumsUp(o.mem, f)
    <3>1. "cold" \in Versions
      BY DEF Versions
    <3>2. SumsUp(s.mem, f) /\ Shape(s.mem) /\ b \in DOMAIN s.mem.mapped
      BY <1>3, <3>1, AnyServed
    <3>3. SumsUp(Unmap(s.mem, "cold", b), f)
      BY <3>1, <3>2, UnmapCounted
    <3> QED BY <2>2, <3>3
  <2> QED BY <1>3, <2>1, <2>2 DEF Remade
<1>4. ASSUME NEW v \in Versions, o \in Resized(m, v, b, n)
      PROVE  SumsUp(o.mem, f)
  <2>1. CASE o = [mem |-> [m EXCEPT !.size[b] = n], addr |-> b]
    <3>1. /\ o.mem.mapped = m.mapped /\ o.mem.maps = m.maps
          /\ o.mem.bytes = m.bytes
      BY <1>1, <2>1 DEF Shape, Fields
    <3> QED BY <3>1, SameCounted
  <2>2. ASSUME NEW s \in Serve(m, v, n), NEW r \in Released(s.mem, v, b),
               o = [mem |-> r, addr |-> s.addr]
        PROVE  SumsUp(o.mem, f)
    <3>1. SumsUp(s.mem, f) /\ Shape(s.mem)
      BY AnyServed
    <3>2. SumsUp(r, f)
      BY <3>1, ReleasedCounted
    <3> QED BY <2>2, <3>2
  <2> QED BY <1>4, <2>1, <2>2 DEF Resized
<1>5. CASE o \in Serve(m, "other", n)
  BY <1>5, AnyServed DEF Versions
<1> QED BY <1>2, <1>3, <1>4, <1>5 DEF ReallocOutcomes, Versions

LEMMA CountedInit == TwoMallocsInit => SumsUp(mem, foreign)
<1> SUFFICES ASSUME TwoMallocsInit PROVE SumsUp(mem, foreign)
  OBVIOUS
<1>1. /\ mem.mapped = <<>> /\ foreign[1] = 0 /\ foreign[2] = 0
      /\ mem.maps = [v \in Versions |-> 0] /\ mem.bytes = [v \in Versions |-> 0]
  BY DEF TwoMallocsInit
<1>2. DOMAIN mem.mapped = {} /\ mem.mapped \in [DOMAIN mem.mapped -> Nat]
  BY <1>1
<1>3. IsFiniteSet(DOMAIN mem.mapped) /\ Cardinality(DOMAIN mem.mapped) = 0
      /\ Total(mem.mapped) = 0
  BY <1>2, FS_EmptySet, SumOfNothing
<1> QED BY <1>1, <1>2, <1>3 DEF SumsUp, Versions

LEMMA CountedNext ==
  Sound(mem, owned) /\ SumsUp(mem, foreign) /\ [TwoMallocsNext]_vars
    => SumsUp(mem, foreign)'
<1> SUFFICES ASSUME Sound(mem, owned), SumsUp(mem, foreign), [TwoMallocsNext]_vars
             PROVE  SumsUp(mem', foreign')
  BY DEF SumsUp
<1>1. Sizes \subseteq Nat /\ 1 \in Nat /\ Shape(mem)
  BY TwoMallocsAssumption DEF TwoMallocsAssumption, Sound
<1>2. ASSUME NEW p \in Callers, NEW n \in Sizes, Malloc(p, n)
      PROVE  SumsUp(mem', foreign')
  <2>1. PICK o \in Serve(mem, Version(p), n) : mem' = o.mem /\ foreign' = foreign
    BY <1>2 DEF Malloc, Become
  <2>2. Version(p) \in Versions
    BY DEF Version, Versions
  <2>3. SumsUp(o.mem, foreign)
    BY <1>1, <2>1, <2>2, AnyServed
  <2> QED BY <2>1, <2>3
<1>3. ASSUME NEW n \in Sizes, Memalign(n)
      PROVE  SumsUp(mem', foreign')
  <2>1. CASE \E a \in FreeAreas(mem) :
               /\ mem' = [Occupied(mem, a, "mapping") EXCEPT
                            !.mapped = With(@, First(a), MappingSize(n))]
               /\ foreign' = <<foreign[1] + 1, foreign[2] + MappingSize(n)>>
    <3>1. PICK a \in FreeAreas(mem) :
            /\ mem' = [Occupied(mem, a, "mapping") EXCEPT
                         !.mapped = With(@, First(a), MappingSize(n))]
            /\ foreign' = <<foreign[1] + 1, foreign[2] + MappingSize(n)>>
      BY <2>1
    <3>2. a \in Areas /\ mem.area[a] = "free"
      BY <3>1 DEF FreeAreas, Lowest
    <3>3. First(a) \notin DOMAIN mem.mapped /\ MappingSize(n) \in Nat
      BY <1>1, <3>2, FreeHasNoMapping, MappingBytes
    <3> DEFINE r == Occupied(mem, a, "mapping")
    <3>4. Shape(r) /\ r.mapped = mem.mapped /\ r.maps = mem.maps /\ r.bytes = mem.bytes
      BY <1>1, OccupiedCounters
    <3>5. mem' = [r EXCEPT !.mapped = With(@, First(a), MappingSize(n))]
      BY <3>1
    <3> HIDE DEF r
    <3>6. /\ mem'.mapped = With(mem.mapped, First(a), MappingSize(n))
          /\ mem'.maps = mem.maps /\ mem'.bytes = mem.bytes
      BY <3>4, <3>5 DEF Shape, Fields
    <3>7. SumsUp(mem', <<foreign[1] + 1, foreign[2] + MappingSize(n)>>)
      BY <3>3, <3>6, ForeignCounted
    <3> QED BY <3>1, <3>7
  <2>2. CASE \E o \in HeapBlock(mem, "glibc", n) : mem' = o.mem /\ foreign' = foreign
    <3>1. PICK o \in HeapBlock(mem, "glibc", n) : mem' = o.mem /\ foreign' = foreign
      BY <2>2
    <3>2. SumsUp(o.mem, foreign)
      BY <1>1, HeapBlockCounted DEF Allocators
    <3> QED BY <3>1, <3>2
  <2> QED BY <1>3, <2>1, <2>2 DEF Memalign, Become
<1>4. ASSUME NEW b \in owned, Free(b)
      PROVE  SumsUp(mem', foreign')
  BY <1>4, FreedCounted DEF Free, Become
<1>5. ASSUME NEW b \in owned, ReallocZero(b)
      PROVE  SumsUp(mem', foreign')
  <2>1. foreign' = foreign
    BY <1>5 DEF ReallocZero
  <2>2. CASE \E o \in Serve(mem, "other", 1) : mem' = o.mem
    BY <1>1, <2>1, <2>2, AnyServed DEF Versions
  <2>3. CASE \E m \in FreedMemory(mem, b) : mem' = m
    BY <2>1, <2>3, FreedCounted
  <2> QED BY <1>5, <2>2, <2>3 DEF ReallocZero, Become
<1>6. ASSUME NEW b \in owned, ReallocFails(b)
      PROVE  SumsUp(mem', foreign')
  BY <1>6 DEF ReallocFails
<1>7. ASSUME NEW b \in owned, NEW n \in Sizes, Realloc(b, n)
      PROVE  SumsUp(mem', foreign')
  <2>1. PICK o \in ReallocOutcomes(mem, b, n) : mem' = o.mem /\ foreign' = foreign
    BY <1>7 DEF Realloc, Become
  <2>2. SumsUp(o.mem, foreign)
    BY <1>1, <2>1, ReallocCounted
  <2> QED BY <2>1, <2>2
<1>8. ASSUME NEW b \in owned, Miss(b)
      PROVE  SumsUp(mem', foreign')
  BY <1>8 DEF Miss
<1>9. CASE UNCHANGED vars
  BY <1>9 DEF vars, program
<1> QED BY <1>2, <1>3, <1>4, <1>5, <1>6, <1>7, <1>8, <1>9 DEF TwoMallocsNext

\* Although `_my_' takes back every mapped block, those of `_my2_' and of the
\* C library as well, the counters of the copies always add up to what is
\* mapped, less what the C library mapped (CountersAddUp; n_mmaps and
\* mmapped_mem in munmap_chunk, mremap_chunk and sYSMALLOc).
THEOREM CountersAlwaysAddUp == TwoMallocsSpec => []CountersAddUp
<1>1. TwoMallocsInit => Sound(mem, owned) /\ SumsUp(mem, foreign)
  BY SoundInit, CountedInit
<1>2. Sound(mem, owned) /\ SumsUp(mem, foreign) /\ [TwoMallocsNext]_vars
        => Sound(mem, owned)' /\ SumsUp(mem, foreign)'
  BY SoundNext, CountedNext
<1>3. SumsUp(mem, foreign) => CountersAddUp
  BY Zenon DEF SumsUp, CountersAddUp, Total
<1> QED BY <1>1, <1>2, <1>3, PTL DEF TwoMallocsSpec

-----------------------------------------------------------------------------
(* The flags of the callers.                                               *)

\* it is what FoldLeft computes the flags of the rows s with.
IsMarking(it, s) ==
  it = [t \in SUBSET DOMAIN s |->
          IF t = {} THEN NoFlags
          ELSE LET x == Max(t) IN Mark(it[t \ {x}], s[x])]

LEMMA Greatest ==
  ASSUME NEW N \in Nat, NEW t, t \subseteq 1..N, t # {}
  PROVE  Max(t) \in t /\ \A y \in t : Max(t) >= y
<1> DEFINE B == {N - k : k \in t}
<1>0. \A k \in t : k \in 1..N /\ k \in Nat /\ N - k \in Nat
  <2> SUFFICES ASSUME NEW k \in t PROVE k \in 1..N /\ k \in Nat /\ N - k \in Nat
    OBVIOUS
  <2>1. k \in 1..N
    OBVIOUS
  <2> QED BY <2>1
<1>1. B \subseteq Nat /\ B # {}
  BY <1>0
<1>2. PICK m \in B : \A k \in B : m <= k
  <2> HIDE DEF B
  <2> QED BY <1>1, LeastNatural
<1>3. PICK x \in t : m = N - x
  BY <1>2
<1>4. \A y \in t : x >= y
  <2> SUFFICES ASSUME NEW y \in t PROVE x >= y
    OBVIOUS
  <2>1. N - x <= N - y /\ x \in Nat /\ y \in Nat
    BY <1>0, <1>2, <1>3
  <2> QED BY <2>1
<1> QED BY <1>3, <1>4 DEF Max

LEMMA MarkingExists ==
  ASSUME NEW s \in Seq(Row)
  PROVE  \E it : IsMarking(it, s)
<1> DEFINE D == DOMAIN s
           Step(g, t) == IF t = {} THEN NoFlags ELSE Mark(g[t \ {Max(t)}], s[Max(t)])
           S == {n \in Nat : \E g : g = [t \in Sized(D, n) |-> Step(g, t)]}
<1>1. D = 1..Len(s) /\ Len(s) \in Nat /\ IsFiniteSet(D)
  BY FS_Interval
<1>2. 0 \in S
  <2> DEFINE g == [t \in {{}} |-> NoFlags]
  <2>1. g = [t \in {{}} |-> Step(g, t)]
    OBVIOUS
  <2> HIDE DEF g, Step
  <2> QED BY <1>1, <2>1, SmallSets
<1>3. ASSUME NEW n \in Nat, n \in S PROVE n + 1 \in S
  <2>1. PICK g : g = [t \in Sized(D, n) |-> Step(g, t)]
    BY <1>3
  <2> DEFINE h == [t \in Sized(D, n + 1) |-> Step(g, t)]
  <2>2. ASSUME NEW t \in Sized(D, n) PROVE h[t] = g[t]
    <3>1. t \in Sized(D, n + 1)
      BY <1>1, SmallSets
    <3>2. g[t] = Step(g, t)
      BY <2>1
    <3> QED BY <3>1, <3>2
  <2>3. ASSUME NEW t \in Sized(D, n + 1) PROVE Step(g, t) = Step(h, t)
    <3>1. CASE t # {}
      <4>1. Max(t) \in t
        BY <1>1, <3>1, Greatest DEF Sized
      <4>2. t \ {Max(t)} \in Sized(D, n)
        BY <1>1, <4>1, SmallerSet
      <4> QED BY <2>2, <4>2
    <3> QED BY <3>1
  <2>4. h = [t \in Sized(D, n + 1) |-> Step(h, t)]
    <3> HIDE DEF Step
    <3> QED BY <2>3
  <2> HIDE DEF h, Step
  <2> QED BY <2>4
<1>4. Cardinality(D) \in S
  <2> HIDE DEF S
  <2> QED BY <1>1, <1>2, <1>3, SetInduction, SmallSets
<1>5. PICK g : g = [t \in Sized(D, Cardinality(D)) |-> Step(g, t)]
  BY <1>4
<1>6. g = [t \in SUBSET D |-> Step(g, t)]
  <2> HIDE DEF Step
  <2> QED BY <1>1, <1>5, SmallSets
<1> QED BY <1>6 DEF IsMarking

\* The first n rows have been read: every known caller is in the table, and
\* there are flags for cold callers only.
Marked(f, s, n) ==
  LET cold  == {i \in 1..n : s[i].temperature = "cold"}
      known == {i \in cold : s[i].two_malloc # NaN}
  IN /\ DOMAIN f = {"page", "table"}
     /\ \A i \in known : s[i].two_malloc % OffsetTable \in f.table
     /\ \A x \in f.table : \E i \in known : x = s[i].two_malloc % OffsetTable
     /\ \A x \in f.page : \E i \in cold \ known : x = s[i].profiled % OffsetPage

LEMMA MarkMarks ==
  ASSUME NEW s \in Seq(Row), NEW n \in Nat, n + 1 \in DOMAIN s,
         NEW f, Marked(f, s, n)
  PROVE  Marked(Mark(f, s[n + 1]), s, n + 1)
<1> DEFINE r == s[n + 1]
           g == Mark(f, r)
<1>1. \A i \in 1..(n + 1) : i \in 1..n \/ i = n + 1
  OBVIOUS
<1>2. 1..n \subseteq 1..(n + 1) /\ n + 1 \in 1..(n + 1) /\ n + 1 \notin 1..n
  OBVIOUS
<1>3. CASE r.temperature # "cold"
  <2>1. g = f
    BY <1>3 DEF Mark
  <2> QED BY <1>1, <1>2, <1>3, <2>1 DEF Marked
<1>4. CASE r.temperature = "cold" /\ r.two_malloc = NaN
  <2>1. /\ DOMAIN g = {"page", "table"} /\ g.table = f.table
        /\ g.page = f.page \cup {r.profiled % OffsetPage}
    BY <1>4 DEF Mark, Marked
  <2> HIDE DEF g
  <2>2. Marked(g, s, n + 1)
    BY <1>1, <1>2, <1>4, <2>1 DEF Marked
  <2> QED BY <2>2 DEF g
<1>5. CASE r.temperature = "cold" /\ r.two_malloc # NaN
  <2>1. /\ DOMAIN g = {"page", "table"} /\ g.page \subseteq f.page
        /\ g.table = f.table \cup {r.two_malloc % OffsetTable}
    BY <1>5 DEF Mark
  <2> HIDE DEF g
  <2>2. Marked(g, s, n + 1)
    BY <1>1, <1>2, <1>5, <2>1 DEF Marked
  <2> QED BY <2>2 DEF g
<1> QED BY <1>3, <1>4, <1>5

LEMMA FlagsAreMarked ==
  ASSUME rows \in Seq(Row)
  PROVE  Marked(ColdAddrs, rows, Len(rows))
<1> DEFINE s == rows
<1>1. ColdAddrs = (CHOOSE it : IsMarking(it, rows))[DOMAIN rows]
  BY DEF ColdAddrs, FoldLeft, MapThenFoldSet, IsMarking
<1>2. PICK it : IsMarking(it, rows) /\ ColdAddrs = it[DOMAIN rows]
  BY <1>1, MarkingExists
<1>3. Len(rows) \in Nat /\ DOMAIN rows = 1..Len(rows)
  OBVIOUS
<1> DEFINE S == {n \in Nat : n <= Len(rows) => Marked(it[1..n], rows, n)}
<1>4. 0 \in S
  <2>1. 1..0 = {} /\ {} \in SUBSET DOMAIN rows
    OBVIOUS
  <2>2. it[1..0] = NoFlags
    BY <1>2, <2>1 DEF IsMarking
  <2> QED BY <2>1, <2>2 DEF Marked, NoFlags
<1>5. ASSUME NEW n \in Nat, n \in S PROVE n + 1 \in S
  <2> SUFFICES ASSUME n + 1 <= Len(rows) PROVE Marked(it[1..(n + 1)], rows, n + 1)
    OBVIOUS
  <2>1. /\ n + 1 \in DOMAIN rows /\ 1..(n + 1) \subseteq 1..Len(rows)
        /\ 1..(n + 1) # {} /\ (1..(n + 1)) \ {n + 1} = 1..n
    <3>1. n + 1 \in DOMAIN rows /\ n + 1 \in 1..(n + 1)
      BY <1>3
    <3>2. 1..(n + 1) \subseteq 1..Len(rows)
      BY <1>3
    <3>3. (1..(n + 1)) \ {n + 1} = 1..n
      OBVIOUS
    <3> QED BY <3>1, <3>2, <3>3
  <2>2. Max(1..(n + 1)) = n + 1
    <3> DEFINE m == Max(1..(n + 1))
    <3>1. n + 1 \in Nat /\ 1..(n + 1) \subseteq 1..(n + 1) /\ 1..(n + 1) # {}
      BY <2>1
    <3>2. m \in 1..(n + 1) /\ \A y \in 1..(n + 1) : m >= y
      BY <3>1, Greatest
    <3>3. n + 1 \in 1..(n + 1)
      OBVIOUS
    <3> HIDE DEF m
    <3>4. m = n + 1
      BY <3>2, <3>3
    <3> QED BY <3>4 DEF m
  <2>3. it[1..(n + 1)] = Mark(it[1..n], rows[n + 1])
    BY <1>2, <1>3, <2>1, <2>2 DEF IsMarking
  <2>4. Marked(it[1..n], rows, n)
    BY <1>5
  <2> QED BY <2>1, <2>3, <2>4, MarkMarks
<1>6. Len(rows) \in S
  <2> HIDE DEF S
  <2> QED BY <1>3, <1>4, <1>5, SetInduction
<1> QED BY <1>2, <1>3, <1>6

LEMMA SameOffset ==
  ASSUME NEW p \in Nat, NEW q \in Nat, NEW k \in Nat \ {0}, p % k = q % k
  PROVE  (p - q) % k = 0
<1> DEFINE a == p \div k
           b == q \div k
           d == a - b
<1>1. a \in Int /\ b \in Int
  OBVIOUS
<1>2. p - q = k * d
  <2>1. p = k * a + (p % k) /\ q = k * b + (q % k)
    OBVIOUS
  <2> QED BY <1>1, <2>1
<1>3. d \in Int
  BY <1>1
<1> HIDE DEF d
<1>4. (k * d) % k = 0
  BY <1>3
<1> QED BY <1>2, <1>4

\* Every cold caller whose address under two allocators is known is served by
\* `_my_', in whatever order the rows come, and nobody is without sharing the
\* offset of a cold caller (ColdCallersRouted; main of produce_cold_addrs.py
\* and is_cold of mymalloc_with_cold.c).
THEOREM ColdCallersAreRouted == TwoMallocsSpec => []ColdCallersRouted
<1>1. TwoMallocsInit => rows \in Seq(Row)
  BY TwoMallocsAssumption DEF TwoMallocsAssumption, TwoMallocsInit
<1>2. rows \in Seq(Row) /\ [TwoMallocsNext]_vars => (rows \in Seq(Row))'
  BY DEF TwoMallocsNext, vars, Malloc, Memalign, Free, Realloc, ReallocZero,
         ReallocFails, Miss, Keep
<1>3. rows \in Seq(Row) => ColdCallersRouted
  <2> SUFFICES ASSUME rows \in Seq(Row) PROVE ColdCallersRouted
    OBVIOUS
  <2> DEFINE cold  == {i \in DOMAIN rows : rows[i].temperature = "cold"}
             known == {i \in cold : rows[i].two_malloc # NaN}
  <2>1. Marked(ColdAddrs, rows, Len(rows)) /\ DOMAIN rows = 1..Len(rows)
    BY FlagsAreMarked
  <2>2. /\ \A i \in known : rows[i].two_malloc % OffsetTable \in ColdAddrs.table
        /\ \A x \in ColdAddrs.table :
              \E i \in known : x = rows[i].two_malloc % OffsetTable
        /\ \A x \in ColdAddrs.page :
              \E i \in cold \ known : x = rows[i].profiled % OffsetPage
    BY <2>1 DEF Marked
  <2>3. /\ Callers \subseteq Nat
        /\ OffsetPage \in Nat \ {0} /\ OffsetTable \in Nat \ {0}
    BY TwoMallocsAssumption DEF TwoMallocsAssumption
  <2>4. \A i \in DOMAIN rows : rows[i] \in Row
    OBVIOUS
  <2>5. \A i \in known : IsCold(rows[i].two_malloc)
    BY <2>2 DEF IsCold
  <2>6. ASSUME NEW p \in Callers, IsCold(p)
        PROVE  \/ \E i \in known : (p - rows[i].two_malloc) % OffsetTable = 0
               \/ \E i \in cold \ known : (p - rows[i].profiled) % OffsetPage = 0
    <3>1. CASE p % OffsetPage \in ColdAddrs.page
      <4>1. PICK i \in cold \ known : p % OffsetPage = rows[i].profiled % OffsetPage
        BY <2>2, <3>1
      <4>2. rows[i].profiled \in Nat
        BY <2>4, <4>1 DEF Row
      <4>3. (p - rows[i].profiled) % OffsetPage = 0
        BY <2>3, <4>1, <4>2, SameOffset
      <4> QED BY <4>1, <4>3
    <3>2. CASE p % OffsetTable \in ColdAddrs.table
      <4>1. PICK i \in known : p % OffsetTable = rows[i].two_malloc % OffsetTable
        BY <2>2, <3>2
      <4>2. rows[i].two_malloc \in Nat
        BY <2>4, <4>1 DEF Row
      <4>3. (p - rows[i].two_malloc) % OffsetTable = 0
        BY <2>3, <4>1, <4>2, SameOffset
      <4> QED BY <4>1, <4>3
    <3> QED BY <2>6, <3>1, <3>2 DEF IsCold
  <2> QED BY <2>5, <2>6 DEF ColdCallersRouted
<1> QED BY <1>1, <1>2, <1>3, PTL DEF TwoMallocsSpec

-----------------------------------------------------------------------------
(* What an area ever was.                                                  *)

\* An area is one of those it ever was.
Housed(m) ==
  /\ m.area \in [Areas -> Tenants \cup {"free"}] /\ m.tenants \in [Areas -> SUBSET Tenants]
  /\ \A a \in Areas : m.area[a] # "free" => m.area[a] \in m.tenants[a]

\* From m to r at most one area became a heap, and an area is a heap from
\* the call on that made it one.
Moves(m, r) ==
  /\ Housed(r)
  /\ \E a \in Areas : \A x \in Areas \ {a} : r.area[x] \in Versions => r.area[x] = m.area[x]
  /\ \A a \in Areas : /\ m.tenants[a] \subseteq r.tenants[a]
                      /\ \A w \in Versions : w \in r.tenants[a] =>
                           w \in m.tenants[a] \/ r.area[a] = w

\* Nothing moves where all areas stay as they are.
LEMMA StaysMoves ==
  ASSUME NEW m, Housed(m), NEW r, r.area = m.area, r.tenants = m.tenants, Areas # {}
  PROVE  Moves(m, r)
BY DEF Moves, Housed

\* An area is taken.
LEMMA TakesMoves ==
  ASSUME NEW m, Housed(m), NEW a \in Areas, NEW who \in Tenants, NEW r,
         r.area = [m.area EXCEPT ![a] = who],
         r.tenants = [m.tenants EXCEPT ![a] = @ \cup {who}]
  PROVE  Moves(m, r)
<1>1. /\ m.area \in [Areas -> Tenants \cup {"free"}] /\ m.tenants \in [Areas -> SUBSET Tenants]
      /\ \A x \in Areas : m.area[x] # "free" => m.area[x] \in m.tenants[x]
  BY DEF Housed
<1>2. /\ r.area[a] = who /\ r.tenants[a] = m.tenants[a] \cup {who}
      /\ \A x \in Areas \ {a} : r.area[x] = m.area[x] /\ r.tenants[x] = m.tenants[x]
  BY <1>1
<1>3. r.area \in [Areas -> Tenants \cup {"free"}] /\ r.tenants \in [Areas -> SUBSET Tenants]
  <2>1. r.area \in [Areas -> Tenants \cup {"free"}]
    BY <1>1
  <2>2. m.tenants[a] \cup {who} \in SUBSET Tenants
    BY <1>1
  <2>3. r.tenants \in [Areas -> SUBSET Tenants]
    BY <1>1, <2>2
  <2> QED BY <2>1, <2>3
<1>4. Housed(r)
  BY <1>1, <1>2, <1>3 DEF Housed
<1> QED BY <1>2, <1>4 DEF Moves

\* An area is given up after it, which was no heap or was one before.
LEMMA LeavesMoves ==
  ASSUME NEW m, NEW s, Moves(m, s), NEW c \in Areas,
         s.area[c] \in Versions => s.area[c] \in m.tenants[c],
         NEW r, r.area = [s.area EXCEPT ![c] = "free"], r.tenants = s.tenants
  PROVE  Moves(m, r)
<1>1. s.area \in [Areas -> Tenants \cup {"free"}]
  BY DEF Moves, Housed
<1>2. r.area[c] = "free" /\ \A x \in Areas \ {c} : r.area[x] = s.area[x]
  BY <1>1
<1>3. r.area \in [Areas -> Tenants \cup {"free"}]
  BY <1>1
<1>4. Housed(r)
  BY <1>2, <1>3 DEF Moves, Housed
<1>5. "free" \notin Versions
  BY DEF Versions
<1>6. \E a \in Areas : \A x \in Areas \ {a} : r.area[x] \in Versions => r.area[x] = m.area[x]
  <2>1. PICK a \in Areas : \A x \in Areas \ {a} : s.area[x] \in Versions => s.area[x] = m.area[x]
    BY DEF Moves
  <2> QED BY <1>2, <1>5, <2>1
<1>7. ASSUME NEW a \in Areas
      PROVE  /\ m.tenants[a] \subseteq r.tenants[a]
             /\ \A w \in Versions : w \in r.tenants[a] => w \in m.tenants[a] \/ r.area[a] = w
  BY <1>2 DEF Moves
<1> QED BY <1>4, <1>6, <1>7 DEF Moves



\* Serving a block takes an area at most.
LEMMA HeapBlockMoves ==
  ASSUME NEW m, Shape(m), Housed(m), NEW v \in Allocators, NEW n,
         NEW o \in HeapBlock(m, v, n)
  PROVE  Moves(m, o.mem)
<1>1. PICK b \in Addresses :
        o = [mem |-> [Occupied(m, AreaOf(b), v) EXCEPT
                        !.held[v] = @ \cup {b}, !.size = With(@, b, n)],
             addr |-> b]
  BY DEF HeapBlock, Vacant, Lowest
<1> DEFINE r == Occupied(m, AreaOf(b), v)
<1>2. /\ Shape(r) /\ r.area = [m.area EXCEPT ![AreaOf(b)] = v]
      /\ r.tenants = [m.tenants EXCEPT ![AreaOf(b)] = @ \cup {v}]
  BY DEF Shape, Fields, Occupied
<1>3. o.mem = [r EXCEPT !.held[v] = @ \cup {b}, !.size = With(@, b, n)]
  BY <1>1
<1> HIDE DEF r
<1>4. o.mem.area = r.area /\ o.mem.tenants = r.tenants
  BY <1>2, <1>3 DEF Shape, Fields
<1>5. AreaOf(b) \in Areas /\ v \in Tenants
  BY AreaOfAddress DEF Tenants
<1> QED BY <1>2, <1>4, <1>5, TakesMoves

\* So does a mapping.
LEMMA MapBlockMoves ==
  ASSUME NEW m, Shape(m), Housed(m), NEW v \in Versions, NEW n,
         NEW o \in MapBlock(m, v, n)
  PROVE  Moves(m, o.mem)
<1>1. PICK a \in FreeAreas(m) :
        o = [mem |-> [Occupied(m, a, "mapping") EXCEPT
               !.mapped = With(@, First(a), MappingSize(n)),
               !.maps[v] = @ + 1, !.bytes[v] = @ + MappingSize(n)],
             addr |-> First(a)]
  BY DEF MapBlock
<1> DEFINE r == Occupied(m, a, "mapping")
<1>2. /\ Shape(r) /\ r.area = [m.area EXCEPT ![a] = "mapping"]
      /\ r.tenants = [m.tenants EXCEPT ![a] = @ \cup {"mapping"}]
  BY DEF Shape, Fields, Occupied
<1>3. o.mem = [r EXCEPT !.mapped = With(@, First(a), MappingSize(n)),
                        !.maps[v] = @ + 1, !.bytes[v] = @ + MappingSize(n)]
  BY <1>1
<1> HIDE DEF r
<1>4. o.mem.area = r.area /\ o.mem.tenants = r.tenants
  BY <1>2, <1>3 DEF Shape, Fields
<1>5. a \in Areas /\ "mapping" \in Tenants
  BY DEF FreeAreas, Lowest, Tenants
<1> QED BY <1>2, <1>4, <1>5, TakesMoves

\* And either.
LEMMA ServeMoves ==
  ASSUME NEW m, Shape(m), Housed(m), NEW v \in Versions, NEW n, NEW o \in Serve(m, v, n)
  PROVE  Moves(m, o.mem)
BY HeapBlockMoves, MapBlockMoves DEF Serve, Allocators

\* A block that is released, after serving another or not, may give up its
\* area.
LEMMA ReleasedMoves ==
  ASSUME NEW m, NEW s, Moves(m, s), Shape(s), NEW v \in Versions, NEW b \in Addresses,
         m.area[AreaOf(b)] = v, s.area[AreaOf(b)] = v, Housed(m), NEW r \in Released(s, v, b)
  PROVE  Moves(m, r)
<1> DEFINE f == [s EXCEPT !.held[v] = @ \ {b}, !.size = Without(@, b)]
<1>1. Shape(f) /\ f.area = s.area /\ f.tenants = s.tenants
  BY DEF Shape, Fields
<1>2. r = f \/ r = [f EXCEPT !.area[AreaOf(b)] = "free"]
  BY DEF Released
<1> HIDE DEF f
<1>3. CASE r = f
  BY <1>1, <1>3 DEF Moves, Housed
<1>4. CASE r = [f EXCEPT !.area[AreaOf(b)] = "free"]
  <2>1. r.area = [s.area EXCEPT ![AreaOf(b)] = "free"] /\ r.tenants = s.tenants
    BY <1>1, <1>4 DEF Shape, Fields
  <2>2. AreaOf(b) \in Areas /\ v \in m.tenants[AreaOf(b)]
    BY AreaOfAddress DEF Housed, Versions
  <2>3. s.area[AreaOf(b)] \in Versions => s.area[AreaOf(b)] \in m.tenants[AreaOf(b)]
    BY <2>2
  <2> QED BY <2>1, <2>2, <2>3, LeavesMoves
<1> QED BY <1>2, <1>3, <1>4

\* free, and realloc to nothing.
LEMMA FreedMoves ==
  ASSUME NEW m, NEW own, Sound(m, own), Housed(m), NEW b \in own, NEW r \in FreedMemory(m, b)
  PROVE  Moves(m, r)
<1>1. Shape(m) /\ DOMAIN m.mapped \subseteq Addresses /\ m.held \in [Allocators -> SUBSET Addresses]
  BY DEF Sound
<1>2. b \in Addresses
  BY <1>1 DEF Sound, Given, Kept, Allocators, Versions
<1>3. AreaOf(b) \in Areas
  BY <1>2, AreaOfAddress
<1>4. Moves(m, m)
  BY <1>3, StaysMoves
<1>5. CASE b \in DOMAIN m.mapped
  <2>1. r = Unmap(m, "cold", b)
    BY <1>5 DEF FreedMemory
  <2>2. r.area = [m.area EXCEPT ![AreaOf(b)] = "free"] /\ r.tenants = m.tenants
    BY <1>1, <2>1 DEF Shape, Fields, Unmap
  <2>3. m.area[AreaOf(b)] = "mapping" /\ "mapping" \notin Versions
    BY <1>5 DEF Sound, Placed, Versions
  <2> QED BY <1>3, <1>4, <2>2, <2>3, LeavesMoves
<1>6. CASE b \notin DOMAIN m.mapped
  <2>1. ASSUME NEW v \in Versions, IsMyHeap(m, v, b), r \in Released(m, v, b)
        PROVE  Moves(m, r)
    BY <1>1, <1>2, <1>4, <2>1, ReleasedMoves DEF IsMyHeap
  <2>2. CASE r = [m EXCEPT !.held["glibc"] = @ \ {b}, !.size = Without(@, b)]
    <3>1. r.area = m.area /\ r.tenants = m.tenants
      BY <1>1, <2>2 DEF Shape, Fields
    <3> QED BY <1>3, <3>1, StaysMoves
  <2> QED BY <1>6, <2>1, <2>2 DEF FreedMemory, Versions
<1> QED BY <1>5, <1>6

\* realloc.
LEMMA ReallocMoves ==
  ASSUME NEW m, NEW own, Sound(m, own), Housed(m), NEW b \in own, NEW n,
         NEW o \in ReallocOutcomes(m, b, n)
  PROVE  Moves(m, o.mem)
<1>1. Shape(m) /\ DOMAIN m.mapped \subseteq Addresses /\ m.held \in [Allocators -> SUBSET Addresses]
  BY DEF Sound
<1>2. b \in Addresses
  BY <1>1 DEF Sound, Given, Kept, Allocators, Versions
<1>3. AreaOf(b) \in Areas /\ "cold" \in Versions /\ "other" \in Versions /\ "mapping" \notin Versions
  BY <1>2, AreaOfAddress DEF Versions
<1>4. Moves(m, m)
  BY <1>3, StaysMoves
<1> DEFINE c == AreaOf(b)
<1>5. CASE b \in DOMAIN m.mapped /\ o \in Remapped(m, "cold", b, n)
  <2> DEFINE f == [m EXCEPT !.area[AreaOf(b)] = "free"]
  <2>1. PICK a \in FreeAreas(m) \cup {AreaOf(b)} :
          o = [mem |-> [Occupied(f, a, "mapping") EXCEPT
                 !.mapped = With(Without(@, b), First(a), MappingSize(n)),
                 !.bytes["cold"] = @ + MappingSize(n) - m.mapped[b]],
               addr |-> First(a)]
    BY <1>5 DEF Remapped
  <2>2. /\ Shape(f) /\ f.area = [m.area EXCEPT ![c] = "free"] /\ f.tenants = m.tenants
    BY <1>1 DEF Shape, Fields
  <2>3. a \in Areas
    BY <1>3 DEF FreeAreas, Lowest
  <2> HIDE DEF f
  <2> DEFINE r == Occupied(f, a, "mapping")
  <2>4. /\ Shape(r) /\ r.area = [f.area EXCEPT ![a] = "mapping"]
        /\ r.tenants = [f.tenants EXCEPT ![a] = @ \cup {"mapping"}]
    BY <2>2 DEF Shape, Fields, Occupied
  <2>5. o.mem = [r EXCEPT !.mapped = With(Without(@, b), First(a), MappingSize(n)),
                          !.bytes["cold"] = @ + MappingSize(n) - m.mapped[b]]
    BY <2>1
  <2> HIDE DEF r
  <2>6. o.mem.area = r.area /\ o.mem.tenants = r.tenants
    BY <2>4, <2>5 DEF Shape, Fields
  <2>7. m.area[c] = "mapping"
    BY <1>5 DEF Sound, Placed
  <2>8. Housed(f)
    <3>1. Moves(m, f)
      BY <1>3, <1>4, <2>2, <2>7, LeavesMoves
    <3> QED BY <3>1 DEF Moves
  <2> HIDE DEF c
  <2>9. Moves(f, o.mem)
    BY <2>3, <2>4, <2>6, <2>8, TakesMoves DEF Tenants
  <2>10. \A x \in Areas : f.area[x] \in Versions => f.area[x] = m.area[x]
    BY <2>2 DEF Housed, Versions
  <2>11. f.tenants = m.tenants
    BY <2>2
  <2>12. /\ Housed(o.mem)
         /\ \A x \in Areas \ {a} : o.mem.area[x] = f.area[x]
         /\ \A x \in Areas : /\ m.tenants[x] \subseteq o.mem.tenants[x]
                             /\ \A w \in Versions : w \in o.mem.tenants[x] =>
                                  w \in m.tenants[x] \/ o.mem.area[x] = w
    <3>1. \A x \in Areas \ {a} : o.mem.area[x] = f.area[x]
      BY <2>3, <2>4, <2>6, <2>8 DEF Housed
    <3> QED BY <2>9, <2>11, <3>1 DEF Moves
  <2>13. \A x \in Areas \ {a} : o.mem.area[x] \in Versions => o.mem.area[x] = m.area[x]
    BY <2>10, <2>12
  <2> QED BY <2>3, <2>12, <2>13 DEF Moves
<1>6. CASE b \in DOMAIN m.mapped /\ o \in Remade(m, "cold", b, n)
  <2>1. CASE o = [mem |-> m, addr |-> b]
    BY <1>4, <2>1
  <2>2. ASSUME NEW s \in Serve(m, "cold", n), o = [mem |-> Unmap(s.mem, "cold", b), addr |-> s.addr]
        PROVE  Moves(m, o.mem)
    <3>1. Moves(m, s.mem)
      BY <1>1, <1>3, ServeMoves
    <3>2. Sound(s.mem, own \cup {s.addr}) /\ b \in DOMAIN s.mem.mapped
      BY <1>3, <1>6, ServeSound
    <3>3. s.mem.area[c] = "mapping" /\ Shape(s.mem)
      BY <3>2 DEF Sound, Placed
    <3> DEFINE q == s.mem
    <3>4. o.mem = Unmap(q, "cold", b)
      BY <2>2
    <3>5. Shape(q) /\ Moves(m, q) /\ q.area[c] = "mapping"
      BY <3>1, <3>3
    <3> HIDE DEF q
    <3>6. o.mem.area = [q.area EXCEPT ![c] = "free"] /\ o.mem.tenants = q.tenants
      BY <3>4, <3>5 DEF Shape, Fields, Unmap
    <3> QED BY <1>3, <3>5, <3>6, LeavesMoves
  <2> QED BY <1>6, <2>1, <2>2 DEF Remade
<1>7. ASSUME NEW v \in Versions, IsMyHeap(m, v, b), b \notin DOMAIN m.mapped, o \in Resized(m, v, b, n)
      PROVE  Moves(m, o.mem)
  <2>1. CASE o = [mem |-> [m EXCEPT !.size[b] = n], addr |-> b]
    <3>1. o.mem.area = m.area /\ o.mem.tenants = m.tenants
      BY <1>1, <2>1 DEF Shape, Fields
    <3> QED BY <1>3, <3>1, StaysMoves
  <2>2. ASSUME NEW s \in Serve(m, v, n), NEW r \in Released(s.mem, v, b),
               o = [mem |-> r, addr |-> s.addr]
        PROVE  Moves(m, o.mem)
    <3>1. Moves(m, s.mem)
      BY <1>1, <1>7, ServeMoves
    <3>2. b \in m.held[v]
      BY <1>7, OwnerKnown DEF IsMyHeap, Versions
    <3>3. /\ Sound(s.mem, own \cup {s.addr}) /\ b \in s.mem.held[v]
      BY <1>7, <3>2, ServeSound DEF Allocators
    <3>4. s.mem.area[AreaOf(b)] = v /\ Shape(s.mem) /\ m.area[AreaOf(b)] = v
      BY <1>7, <3>3 DEF Sound, Placed, IsMyHeap, Allocators
    <3>5. Moves(m, r)
      BY <1>2, <1>7, <3>1, <3>4, ReleasedMoves
    <3> QED BY <2>2, <3>5
  <2> QED BY <1>7, <2>1, <2>2 DEF Resized
<1>8. CASE o \in Serve(m, "other", n)
  BY <1>1, <1>3, <1>8, ServeMoves
<1> QED BY <1>3, <1>5, <1>6, <1>7, <1>8 DEF ReallocOutcomes

\* A step of the program leaves the memory and the log, or moves the memory
\* and logs the heap it made.
LEMMA StepsMove ==
  ASSUME Sound(mem, owned), Housed(mem), [TwoMallocsNext]_vars
  PROVE  \/ mem' = mem /\ log' = log
         \/ Moves(mem, mem') /\ log' = Logged(mem') /\ misses' = misses
<1>1. ASSUME NEW p \in Callers, NEW n \in Sizes, Malloc(p, n)
      PROVE  Moves(mem, mem') /\ log' = Logged(mem') /\ misses' = misses
  <2>1. PICK o \in Serve(mem, Version(p), n) : Become(o.mem)
    BY <1>1 DEF Malloc
  <2>2. Version(p) \in Versions /\ Shape(mem)
    BY DEF Version, Versions, Sound
  <2>3. Moves(mem, o.mem)
    BY <2>1, <2>2, ServeMoves
  <2>4. misses' = misses
    BY <1>1 DEF Malloc, Keep
  <2> QED BY <2>1, <2>3, <2>4 DEF Become
<1>2. ASSUME NEW n \in Sizes, Memalign(n)
      PROVE  Moves(mem, mem') /\ log' = Logged(mem') /\ misses' = misses
  <2>0. Shape(mem) /\ misses' = misses
    BY <1>2 DEF Sound, Memalign, Keep
  <2>1. CASE \E a \in FreeAreas(mem) :
               Become([Occupied(mem, a, "mapping") EXCEPT
                            !.mapped = With(@, First(a), MappingSize(n))])
    <3>1. PICK a \in FreeAreas(mem) :
            Become([Occupied(mem, a, "mapping") EXCEPT
                         !.mapped = With(@, First(a), MappingSize(n))])
      BY <2>1
    <3>2. a \in Areas /\ "mapping" \in Tenants
      BY <3>1 DEF FreeAreas, Lowest, Tenants
    <3> DEFINE r == Occupied(mem, a, "mapping")
               q == [r EXCEPT !.mapped = With(@, First(a), MappingSize(n))]
    <3>3. /\ Shape(r) /\ r.area = [mem.area EXCEPT ![a] = "mapping"]
          /\ r.tenants = [mem.tenants EXCEPT ![a] = @ \cup {"mapping"}]
      BY <2>0 DEF Shape, Fields, Occupied
    <3>4. Become(q)
      BY <3>1
    <3> HIDE DEF r
    <3>5. q.area = r.area /\ q.tenants = r.tenants
      BY <3>3 DEF Shape, Fields
    <3> HIDE DEF q
    <3>6. Moves(mem, q)
      BY <3>2, <3>3, <3>5, TakesMoves
    <3> QED BY <2>0, <3>4, <3>6 DEF Become
  <2>2. CASE \E o \in HeapBlock(mem, "glibc", n) : Become(o.mem)
    <3>1. PICK o \in HeapBlock(mem, "glibc", n) : Become(o.mem)
      BY <2>2
    <3>2. Moves(mem, o.mem)
      BY <2>0, HeapBlockMoves DEF Allocators
    <3> QED BY <2>0, <3>1, <3>2 DEF Become
  <2> QED BY <1>2, <2>1, <2>2 DEF Memalign
<1>3. ASSUME NEW b \in owned, NEW m \in FreedMemory(mem, b), Become(m), Keep
      PROVE  Moves(mem, mem') /\ log' = Logged(mem') /\ misses' = misses
  BY <1>3, FreedMoves DEF Become, Keep
<1>4. ASSUME NEW b \in owned, ReallocZero(b)
      PROVE  Moves(mem, mem') /\ log' = Logged(mem') /\ misses' = misses
  <2>1. CASE b \in mem.held["glibc"]
    <3>1. PICK o \in Serve(mem, "other", 1) : Become(o.mem)
      BY <1>4, <2>1 DEF ReallocZero
    <3>2. Moves(mem, o.mem)
      BY ServeMoves DEF Sound, Versions
    <3>3. misses' = misses
      BY <1>4 DEF ReallocZero, Keep
    <3> QED BY <3>1, <3>2, <3>3 DEF Become
  <2>2. CASE b \notin mem.held["glibc"]
    <3>1. Keep /\ \E m \in FreedMemory(mem, b) : Become(m)
      BY <1>4, <2>2 DEF ReallocZero
    <3> QED BY <1>3, <3>1
  <2> QED BY <2>1, <2>2
<1>5. ASSUME NEW b \in owned, NEW n \in Sizes, Realloc(b, n)
      PROVE  Moves(mem, mem') /\ log' = Logged(mem') /\ misses' = misses
  <2>1. PICK o \in ReallocOutcomes(mem, b, n) : Become(o.mem)
    BY <1>5 DEF Realloc
  <2>2. Moves(mem, o.mem)
    BY ReallocMoves
  <2>3. misses' = misses
    BY <1>5 DEF Realloc, Keep
  <2> QED BY <2>1, <2>2, <2>3 DEF Become
<1>6. ASSUME NEW b \in owned, Free(b)
      PROVE  Moves(mem, mem') /\ log' = Logged(mem') /\ misses' = misses
  <2>1. Keep /\ \E m \in FreedMemory(mem, b) : Become(m)
    BY <1>6 DEF Free
  <2> QED BY <1>3, <2>1
<1>7. ASSUME NEW b \in owned, ReallocFails(b) \/ Miss(b)
      PROVE  mem' = mem /\ log' = log
  BY <1>7 DEF ReallocFails, Miss
<1>8. CASE UNCHANGED vars
  BY <1>8 DEF vars
<1> QED BY <1>1, <1>2, <1>4, <1>5, <1>6, <1>7, <1>8 DEF TwoMallocsNext

-----------------------------------------------------------------------------
(* The log of the heaps.                                                   *)

\* The line of mynewheap.csv for an area that becomes a heap.
HeapLine(a, w) == [pid |-> 1, addr |-> a * AreaSize, size |-> AreaSize, key |-> Key[w]]
HeapLines == {HeapLine(a, w) : a \in Areas, w \in Versions}

\* The log l has a line for each heap an area ever was, and no other.
LogsHeaps(l, m) ==
  /\ l \in Seq(HeapLines)
  /\ \A i \in DOMAIN l : \E a \in Areas, w \in Versions : w \in m.tenants[a] /\ l[i] = HeapLine(a, w)
  /\ \A a \in Areas, w \in Versions : w \in m.tenants[a] => \E i \in DOMAIN l : l[i] = HeapLine(a, w)

\* A set of one element or none, as a sequence.
LEMMA OneInSequence ==
  ASSUME NEW S, NEW a, S \subseteq {a}
  PROVE  /\ Cardinality(S) \in Nat /\ SetToSeq(S) \in [1..Cardinality(S) -> S]
         /\ \A x \in S : \E i \in 1..Cardinality(S) : SetToSeq(S)[i] = x
<1>1. CASE S = {}
  <2>1. Cardinality(S) = 0 /\ 1..0 = {}
    BY <1>1, FS_EmptySet
  <2> DEFINE f == [i \in 1..Cardinality(S) |-> a]
  <2>2. f \in [1..Cardinality(S) -> S] /\ IsInjective(f)
    BY <1>1, <2>1 DEF IsInjective
  <2> HIDE DEF f
  <2>3. SetToSeq(S) \in [1..Cardinality(S) -> S]
    BY <2>2 DEF SetToSeq
  <2> QED BY <1>1, <2>1, <2>3
<1>2. CASE S = {a}
  <2>1. Cardinality(S) = 1 /\ 1 \in 1..1
    <3>1. Cardinality({a}) = 1
      BY FS_Singleton
    <3> QED BY <1>2, <3>1
  <2> DEFINE f == [i \in 1..Cardinality(S) |-> a]
  <2>2. f \in [1..Cardinality(S) -> S] /\ IsInjective(f)
    BY <1>2, <2>1 DEF IsInjective
  <2> HIDE DEF f
  <2>3. SetToSeq(S) \in [1..Cardinality(S) -> S]
    BY <2>2 DEF SetToSeq
  <2>4. SetToSeq(S)[1] = a
    BY <1>2, <2>1, <2>3
  <2> QED BY <1>2, <2>1, <2>3, <2>4
<1> QED BY <1>1, <1>2

\* The call that makes an area a heap writes its line.
LEMMA LogKeeps ==
  ASSUME Housed(mem), NEW m, Moves(mem, m), LogsHeaps(log, mem)
  PROVE  LogsHeaps(Logged(m), m)
<1> DEFINE new == {a \in Areas : m.area[a] \in Versions /\ m.area[a] # mem.area[a]}
           seq == [i \in 1..Cardinality(new) |-> HeapLine(SetToSeq(new)[i], m.area[SetToSeq(new)[i]])]
<1>1. PICK c \in Areas : \A x \in Areas \ {c} : m.area[x] \in Versions => m.area[x] = mem.area[x]
  BY DEF Moves
<1>2. new \subseteq {c}
  BY <1>1
<1>3. Logged(m) = log \o seq
  BY DEF Logged, HeapLine
<1>4. \A a \in new : a \in Areas /\ m.area[a] \in Versions /\ m.area[a] \in m.tenants[a]
  BY DEF Moves, Housed, Versions
<1>5. ASSUME NEW a \in Areas, NEW w \in Versions, w \in m.tenants[a]
      PROVE  w \in mem.tenants[a] \/ (a \in new /\ w = m.area[a])
  <2>1. CASE w \in mem.tenants[a]
    BY <2>1
  <2>2. CASE w \notin mem.tenants[a]
    <3>1. m.area[a] = w
      BY <1>5, <2>2 DEF Moves
    <3>2. mem.area[a] # w
      BY <2>2 DEF Housed, Versions
    <3> QED BY <3>1, <3>2
  <2> QED BY <2>1, <2>2
<1> HIDE DEF new
<1> DEFINE N == Cardinality(new)
           s == SetToSeq(new)
<1>6. N \in Nat /\ s \in [1..N -> new] /\ \A x \in new : \E i \in 1..N : s[i] = x
  BY <1>2, OneInSequence
<1>7. seq = [i \in 1..N |-> HeapLine(s[i], m.area[s[i]])]
  OBVIOUS
<1> HIDE DEF N, s, seq
<1>8. \A i \in 1..N : s[i] \in new
  BY <1>6
<1>9. seq \in Seq(HeapLines) /\ Len(seq) = N /\ DOMAIN seq = 1..N
  <2>1. \A i \in 1..N : HeapLine(s[i], m.area[s[i]]) \in HeapLines
    BY <1>4, <1>8 DEF HeapLines
  <2>2. seq \in [1..N -> HeapLines]
    BY <1>7, <2>1
  <2> QED BY <1>6, <2>2, SeqDef
<1>10. log \in Seq(HeapLines) /\ Len(log) \in Nat /\ DOMAIN log = 1..Len(log)
  BY LenProperties DEF LogsHeaps
<1> DEFINE l == log \o seq
<1>11. /\ l \in Seq(HeapLines) /\ DOMAIN l = 1..(Len(log) + N)
       /\ \A i \in 1..(Len(log) + N) : l[i] = IF i <= Len(log) THEN log[i] ELSE seq[i - Len(log)]
  <2>1. /\ l \in Seq(HeapLines) /\ Len(l) = Len(log) + Len(seq)
        /\ \A i \in 1..(Len(log) + Len(seq)) : l[i] = IF i <= Len(log) THEN log[i] ELSE seq[i - Len(log)]
    BY <1>9, <1>10, ConcatProperties
  <2> HIDE DEF l
  <2>2. DOMAIN l = 1..Len(l)
    BY <2>1, LenProperties
  <2> QED BY <1>9, <2>1, <2>2
<1> HIDE DEF l
<1>12. ASSUME NEW i \in DOMAIN l
       PROVE  \E a \in Areas, w \in Versions : w \in m.tenants[a] /\ l[i] = HeapLine(a, w)
  <2>1. CASE i <= Len(log)
    <3>1. i \in DOMAIN log /\ l[i] = log[i]
      BY <1>6, <1>10, <1>11, <2>1
    <3>2. PICK a \in Areas, w \in Versions : w \in mem.tenants[a] /\ log[i] = HeapLine(a, w)
      BY <3>1 DEF LogsHeaps
    <3>3. w \in m.tenants[a]
      BY <3>2 DEF Moves
    <3> QED BY <3>1, <3>2, <3>3
  <2>2. CASE ~(i <= Len(log))
    <3>1. i - Len(log) \in 1..N /\ l[i] = seq[i - Len(log)]
      BY <1>6, <1>10, <1>11, <2>2
    <3> DEFINE k == i - Len(log)
    <3>2. s[k] \in new /\ seq[k] = HeapLine(s[k], m.area[s[k]])
      BY <1>7, <1>8, <3>1
    <3> QED BY <1>4, <3>1, <3>2
  <2> QED BY <2>1, <2>2
<1>13. ASSUME NEW a \in Areas, NEW w \in Versions, w \in m.tenants[a]
       PROVE  \E i \in DOMAIN l : l[i] = HeapLine(a, w)
  <2>1. CASE w \in mem.tenants[a]
    <3>1. PICK i \in DOMAIN log : log[i] = HeapLine(a, w)
      BY <2>1 DEF LogsHeaps
    <3>2. i \in 1..(Len(log) + N) /\ i <= Len(log)
      BY <1>6, <1>10
    <3> QED BY <1>11, <3>1, <3>2
  <2>2. CASE a \in new /\ w = m.area[a]
    <3>1. PICK i \in 1..N : s[i] = a
      BY <1>6, <2>2
    <3>2. seq[i] = HeapLine(a, w)
      BY <1>7, <2>2, <3>1
    <3> DEFINE k == Len(log) + i
    <3>3. k \in 1..(Len(log) + N) /\ ~(k <= Len(log)) /\ k - Len(log) = i
      BY <1>6, <1>10
    <3>4. k \in DOMAIN l /\ l[k] = HeapLine(a, w)
      BY <1>11, <3>2, <3>3
    <3> QED BY <3>4
  <2> QED BY <1>5, <1>13, <2>1, <2>2
<1>14. LogsHeaps(l, m)
  BY <1>11, <1>12, <1>13 DEF LogsHeaps
<1> QED BY <1>3, <1>14 DEF l

-----------------------------------------------------------------------------
(* The temperatures of the misses.                                         *)

\* The misses are at addresses of blocks.
MissesAtBlocks == misses \in Seq([pid : {1}, addr : Addresses, whose : Tenants \cup {"free"}])

\* An address is in the range of a line of an area if it is in the area.
LEMMA InAreaOf ==
  ASSUME NEW b \in Addresses, NEW a \in Areas
  PROVE  (b >= a * AreaSize /\ b < a * AreaSize + AreaSize) <=> AreaOf(b) = a
<1>1. PICK c \in Areas, o \in Places : b = c * AreaSize + o
  BY DEF Addresses
<1>2. /\ a \in Nat /\ c \in Nat /\ AreaSize \in Nat /\ AreaSize > 0
      /\ o \in 1..(AreaSize - 1)
  BY TwoMallocsAssumption DEF TwoMallocsAssumption
<1> DEFINE S == AreaSize
           x == a * S
           y == c * S
<1>3. AreaOf(b) = c
  <2>1. c \in Nat /\ S \in Nat \ {0} /\ o \in 0..(S - 1)
    BY <1>2
  <2> HIDE DEF S
  <2>2. (c * S + o) \div S = c
    BY ONLY <2>1
  <2> QED BY <1>1, <2>2 DEF AreaOf, S
<1>4. x \in Nat /\ y \in Nat /\ S \in Nat /\ S > 0
  BY <1>2
<1>5. /\ a < c => x + S <= y
      /\ c < a => y + S <= x
  <2>1. ASSUME NEW p \in Nat, NEW q \in Nat, p < q
        PROVE  p * S + S <= q * S
    <3> HIDE DEF S
    <3> DEFINE d == q - p - 1
    <3>1. d \in Nat /\ q = p + 1 + d
      BY <2>1
    <3> HIDE DEF d
    <3>2. q * S = p * S + S + d * S
      BY ONLY <3>1, <1>4, <2>1
    <3>3. d * S \in Nat /\ p * S \in Nat
      BY ONLY <3>1, <1>4, <2>1
    <3> QED BY ONLY <1>4, <3>2, <3>3
  <2> QED BY <1>2, <2>1
<1>6. b >= x /\ b < x + S <=> a = c
  <2>1. b = y + o /\ o \in 1..(S - 1) /\ a = c => x = y
    BY <1>1, <1>2
  <2>2. b = y + o /\ o \in 1..(S - 1)
    BY <1>1, <1>2
  <2>3. a = c => x = y
    OBVIOUS
  <2> HIDE DEF x, y, S
  <2> QED BY ONLY <1>2, <1>4, <1>5, <2>2, <2>3
<1> QED BY <1>3, <1>6

\* A miss is in a heap with a key if its area ever was one of that allocator.
LEMMA InHeapIs ==
  ASSUME NEW l, NEW m, LogsHeaps(l, m), NEW miss, miss.pid = 1, miss.addr \in Addresses,
         NEW w \in Versions
  PROVE  InHeap(miss, l, Key[w]) <=> w \in m.tenants[AreaOf(miss.addr)]
<1> DEFINE b == miss.addr
           c == AreaOf(b)
<1>1. c \in Areas
  BY AreaOfAddress
<1>2. \A u, v \in Versions : Key[u] = Key[v] => u = v
  BY DEF Key, Versions
<1>3. ASSUME InHeap(miss, l, Key[w]) PROVE w \in m.tenants[c]
  <2>1. PICK i \in DOMAIN l : /\ l[i].key = Key[w] /\ b >= l[i].addr
                              /\ b < l[i].addr + l[i].size
    BY <1>3 DEF InHeap
  <2>2. PICK a \in Areas, u \in Versions : u \in m.tenants[a] /\ l[i] = HeapLine(a, u)
    BY DEF LogsHeaps
  <2>3. /\ l[i].key = Key[u] /\ l[i].addr = a * AreaSize /\ l[i].size = AreaSize
    BY <2>2 DEF HeapLine
  <2>4. u = w
    BY <1>2, <2>1, <2>3
  <2>5. c = a
    BY <2>1, <2>3, InAreaOf
  <2> QED BY <2>2, <2>4, <2>5
<1>4. ASSUME w \in m.tenants[c] PROVE InHeap(miss, l, Key[w])
  <2>1. PICK i \in DOMAIN l : l[i] = HeapLine(c, w)
    BY <1>1, <1>4 DEF LogsHeaps
  <2>2. /\ l[i].key = Key[w] /\ l[i].addr = c * AreaSize /\ l[i].size = AreaSize /\ l[i].pid = 1
    BY <2>1 DEF HeapLine
  <2> HIDE DEF c
  <2>3. b >= c * AreaSize /\ b < c * AreaSize + AreaSize
    BY <1>1, InAreaOf DEF c
  <2> QED BY <2>2, <2>3 DEF InHeap
<1> QED BY <1>3, <1>4

\* What the classification relies on.
HeapsLogged ==
  /\ Sound(mem, owned) /\ Housed(mem) /\ LogsHeaps(log, mem) /\ MissesAtBlocks

\* At the start there is no heap and no line.
LEMMA HeapsLoggedInit ==
  TwoMallocsInit => HeapsLogged
<1> SUFFICES ASSUME TwoMallocsInit PROVE HeapsLogged
  OBVIOUS
<1>1. Sound(mem, owned)
  BY SoundInit
<1>2. /\ mem.area = [a \in Areas |-> "free"] /\ mem.tenants = [a \in Areas |-> {}]
      /\ log = <<>> /\ misses = <<>>
  BY DEF TwoMallocsInit
<1>3. Housed(mem) /\ LogsHeaps(log, mem) /\ MissesAtBlocks
  BY <1>2 DEF Housed, LogsHeaps, MissesAtBlocks
<1> QED BY <1>1, <1>3 DEF HeapsLogged

\* Every call that makes a heap logs it, and no other step makes one.
LEMMA HeapsLoggedNext ==
  HeapsLogged /\ [TwoMallocsNext]_vars => HeapsLogged'
<1> SUFFICES ASSUME HeapsLogged, [TwoMallocsNext]_vars PROVE HeapsLogged'
  OBVIOUS
<1>1. Sound(mem, owned) /\ Housed(mem) /\ LogsHeaps(log, mem) /\ MissesAtBlocks
  BY DEF HeapsLogged
<1>2. Sound(mem, owned)'
  BY <1>1, SoundNext
<1>3. \/ mem' = mem /\ log' = log
      \/ Moves(mem, mem') /\ log' = Logged(mem') /\ misses' = misses
  BY <1>1, StepsMove
<1>4. Housed(mem') /\ LogsHeaps(log', mem')
  <2>1. CASE mem' = mem /\ log' = log
    BY <1>1, <2>1
  <2>2. CASE Moves(mem, mem') /\ log' = Logged(mem')
    <3>1. LogsHeaps(Logged(mem'), mem')
      BY <1>1, <2>2, LogKeeps
    <3> QED BY <2>2, <3>1 DEF Moves
  <2> QED BY <1>3, <2>1, <2>2
<1>5. MissesAtBlocks'
  <2>1. misses' = misses \/ \E b \in owned : Miss(b)
    BY DEF TwoMallocsNext, vars, program, Malloc, Memalign, Free, ReallocZero, ReallocFails,
           Realloc, Keep
  <2>2. CASE misses' = misses
    BY <1>1, <2>2 DEF MissesAtBlocks
  <2>3. ASSUME NEW b \in owned, Miss(b) PROVE MissesAtBlocks'
    <3>1. misses' = Append(misses, [pid |-> 1, addr |-> b, whose |-> Tenant(b)])
      BY <2>3 DEF Miss
    <3>2. b \in Addresses
      BY <1>1 DEF Sound, Given, Kept, Allocators, Versions
    <3>3. Tenant(b) \in Tenants \cup {"free"}
      BY <1>1, <3>2, AreaOfAddress DEF Tenant, Housed, Tenants
    <3> DEFINE M == [pid : {1}, addr : Addresses, whose : Tenants \cup {"free"}]
               r == [pid |-> 1, addr |-> b, whose |-> Tenant(b)]
    <3>4. r \in M
      BY <3>2, <3>3
    <3>5. misses \in Seq(M) /\ misses' = Append(misses, r)
      BY <1>1, <3>1 DEF MissesAtBlocks
    <3> HIDE DEF M, r
    <3>6. misses' \in Seq(M)
      BY <3>4, <3>5, AppendProperties
    <3> QED BY <3>6 DEF MissesAtBlocks, M
  <2> QED BY <2>1, <2>2, <2>3
<1>6. Housed(mem)' /\ LogsHeaps(log, mem)'
  BY <1>4 DEF Housed, LogsHeaps
<1> QED BY <1>2, <1>5, <1>6 DEF HeapsLogged

\* With the log of all heaps the address alone gives the allocator.
LEMMA LoggedIsTemperature ==
  HeapsLogged => TemperatureIsAllocator
<1> SUFFICES ASSUME HeapsLogged, NEW i \in DOMAIN misses,
                    mem.tenants[AreaOf(misses[i].addr)] = {misses[i].whose}
             PROVE  LET named == [cold |-> "COLD", other |-> "OTHER", mapping |-> "NOT_CONSIDER",
                                  glibc |-> "NOT_CONSIDER"]
                    IN Temperature(misses[i], log) = named[misses[i].whose]
  BY DEF TemperatureIsAllocator
<1> DEFINE miss == misses[i]
           T == mem.tenants[AreaOf(miss.addr)]
           M == [pid : {1}, addr : Addresses, whose : Tenants \cup {"free"}]
<1>1. miss.pid = 1 /\ miss.addr \in Addresses
  <2>1. misses \in Seq(M)
    BY DEF HeapsLogged, MissesAtBlocks
  <2>2. miss \in M
    <3> HIDE DEF M
    <3> QED BY <2>1, ElementOfSeq, LenProperties
  <2> QED BY <2>2
<1>2. LogsHeaps(log, mem) /\ Housed(mem)
  BY DEF HeapsLogged
<1>3. T = {miss.whose} /\ T \subseteq Tenants
  <2>1. AreaOf(miss.addr) \in Areas
    BY <1>1, AreaOfAddress
  <2> QED BY <1>2, <2>1 DEF Housed
<1> HIDE DEF miss
<1>4. InHeap(miss, log, ColdHeap) <=> "cold" \in T
  BY <1>1, <1>2, InHeapIs DEF Key, Versions, ColdHeap
<1>5. InHeap(miss, log, OtherHeap) <=> "other" \in T
  BY <1>1, <1>2, InHeapIs DEF Key, Versions, OtherHeap
<1>6. miss.whose \in {"cold", "other", "glibc", "mapping"}
  BY <1>3 DEF Tenants, Allocators, Versions
<1> HIDE DEF T
<1> QED BY <1>3, <1>4, <1>5, <1>6 DEF Temperature, miss

\* A study is at most a run of the program with the two allocators.
LEMMA StudyIsTwoMallocs ==
  StudiesSpec => TwoMallocsSpec
<1>1. StudiesInit => TwoMallocsInit
  BY DEF StudiesInit
<1>2. [StudiesNext]_studies => [TwoMallocsNext]_vars
  BY DEF StudiesNext, studies
<1> QED BY <1>1, <1>2, PTL DEF StudiesSpec, TwoMallocsSpec

\* A miss in an area that only ever was of one allocator gets that
\* allocator's temperature, for every address space, program and log: each
\* heap has its line, whichever call made it, and only heaps have one
\* (TemperatureIsAllocator; add_temperature_col).
THEOREM TemperaturesAreAllocators == StudiesSpec => []TemperatureIsAllocator
<1>1. TwoMallocsInit => HeapsLogged
  BY HeapsLoggedInit
<1>2. HeapsLogged /\ [TwoMallocsNext]_vars => HeapsLogged'
  BY HeapsLoggedNext
<1>3. HeapsLogged => TemperatureIsAllocator
  BY LoggedIsTemperature
<1>4. StudiesSpec => TwoMallocsSpec
  BY StudyIsTwoMallocs
<1> QED BY <1>1, <1>2, <1>3, <1>4, PTL DEF TwoMallocsSpec

==============================================================================
