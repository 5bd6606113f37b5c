------------------------------ MODULE Iteration ------------------------------
(***************************************************************************)
(* Lemmas on which proofs about walks, runs and sums rest: induction over  *)
(* the naturals, stated for a set instead of a predicate, the function     *)
(* that repeats a step, and the pigeonhole argument that a strictly        *)
(* decreasing walk is short.  The least element of a set of naturals comes *)
(* from the well-founded order of finite sets under strict inclusion.      *)
(***************************************************************************)
EXTENDS FiniteSetTheorems, Functions, TLAPS

LEMMA LeastNatural ==
  ASSUME NEW B \in SUBSET Nat, NEW n \in B
  PROVE  \E m \in B : \A k \in B : m <= k
<1> DEFINE UpTo(k) == 0..k
           T == {UpTo(k) : k \in {j \in B : j <= n}}
           R == StrictSubsetOrdering(0..n)
<1>1. IsWellFoundedOn(R, FiniteSubsetsOf(0..n))
  BY FS_StrictSubsetOrderingWellFounded
<1>2. T \subseteq FiniteSubsetsOf(0..n) /\ T # {}
  <2>1. \A k \in Nat : IsFiniteSet(0..k)
    BY FS_Interval
  <2>2. \A k \in B : k <= n => 0..k \in FiniteSubsetsOf(0..n)
    BY <2>1 DEF FiniteSubsetsOf
  <2> QED BY <2>2
<1>3. \E x \in T : \A y \in T : ~ (<<y, x>> \in R)
  <2> HIDE DEF R, T
  <2> QED BY <1>1, <1>2, WFMin
<1>4. PICK m \in B : m <= n /\ \A k \in B : k <= n => <<0..k, 0..m>> \notin R
  BY <1>3
<1>5. ASSUME NEW k \in B, k < m PROVE FALSE
  <2>1. 0..k \subseteq 0..m /\ m \in 0..m /\ m \notin 0..k
    BY <1>5
  <2>2. 0..k \subseteq 0..n /\ 0..m \subseteq 0..n
    BY <1>4, <1>5
  <2>3. 0..k # 0..m
    BY <2>1
  <2>4. <<0..k, 0..m>> \in (SUBSET (0..n)) \X (SUBSET (0..n))
    BY <2>2
  <2>5. <<0..k, 0..m>> \in R
    <3>1. /\ <<0..k, 0..m>>[1] \subseteq <<0..k, 0..m>>[2]
          /\ <<0..k, 0..m>>[1] # <<0..k, 0..m>>[2]
      BY <2>1, <2>3
    <3> QED BY <2>4, <3>1 DEF StrictSubsetOrdering
  <2>6. k <= n
    BY <1>4, <1>5
  <2> QED BY <1>4, <2>5, <2>6
<1> QED BY <1>5

(* A set with 0 in it and, with each natural, the next one, has them all.  *)
LEMMA SetInduction ==
  ASSUME NEW S, 0 \in S, \A n \in Nat : n \in S => n + 1 \in S
  PROVE  Nat \subseteq S
<1> SUFFICES ASSUME NEW n \in Nat \ S PROVE FALSE
  OBVIOUS
<1>1. PICK m \in Nat \ S : \A k \in Nat \ S : m <= k
  BY LeastNatural
<1>2. m # 0 /\ m - 1 \in Nat /\ m - 1 \in S
  BY <1>1
<1> QED BY <1>1, <1>2

(* w is the walk that starts at b and takes the step nx, N times.          *)
IsWalk(w, b, nx, N) == w[0] = b /\ \A n \in 1..N : w[n] = nx[w[n - 1]]

(* Starting at b and taking the step nx again and again defines a walk.    *)
LEMMA WalkExists ==
  ASSUME NEW T, NEW b \in T, NEW nx \in [T -> T], NEW N \in Nat
  PROVE  \E w \in [0..N -> T] : IsWalk(w, b, nx, N)
<1> DEFINE D(k, w) == w[0] = b /\ \A n \in 1..k : w[n] = nx[w[n - 1]]
           S == {k \in Nat : \E w \in [0..k -> T] : D(k, w)}
<1>1. 0 \in S
  <2>1. [n \in 0..0 |-> b] \in [0..0 -> T] /\ D(0, [n \in 0..0 |-> b])
    BY Z3
  <2> QED BY <2>1
<1>2. ASSUME NEW k \in Nat, k \in S PROVE k + 1 \in S
  <2>1. PICK w \in [0..k -> T] : D(k, w)
    BY <1>2
  <2> DEFINE v == [n \in 0..(k + 1) |-> IF n = k + 1 THEN nx[w[k]] ELSE w[n]]
  <2>2. v \in [0..(k + 1) -> T]
    BY <2>1
  <2>3. D(k + 1, v)
    BY <2>1
  <2> HIDE DEF v, D
  <2> QED BY <2>2, <2>3
<1>3. N \in S
  <2> HIDE DEF S
  <2> QED BY <1>1, <1>2, SetInduction
<1> QED BY <1>3 DEF IsWalk

(* The walk along pointers: it starts at b, and stops where one is nil.    *)
DefinesWalk(w, b, nx, nil, N) ==
  w = [n \in 0..N |-> IF n = 0 THEN b ELSE IF w[n - 1] = nil THEN nil ELSE nx[w[n - 1]]]

Follows(w, b, nx, nil, N) ==
  w[0] = b /\ \A n \in 1..N : w[n] = IF w[n - 1] = nil THEN nil ELSE nx[w[n - 1]]

LEMMA WalkDefined ==
  ASSUME NEW A, NEW nil, NEW b \in A, NEW nx \in [A -> A \cup {nil}], NEW N \in Nat
  PROVE  \E w : DefinesWalk(w, b, nx, nil, N)
<1> PICK T, step : /\ T = A \cup {nil}
                   /\ step = [a \in T |-> IF a = nil THEN nil ELSE nx[a]]
  OBVIOUS
<1>1. b \in T /\ step \in [T -> T]
  OBVIOUS
<1>2. PICK v \in [0..N -> T] : v[0] = b /\ \A n \in 1..N : v[n] = step[v[n - 1]]
  <2>1. \E w \in [0..N -> T] : IsWalk(w, b, step, N)
    BY <1>1, WalkExists, ZenonT(40)
  <2> QED BY <2>1 DEF IsWalk
<1>3. \A n \in 1..N : v[n] = IF v[n - 1] = nil THEN nil ELSE nx[v[n - 1]]
  <2> TAKE n \in 1..N
  <2>1. n - 1 \in 0..N /\ v[n - 1] \in T
    BY <1>2
  <2> QED BY <1>2, <2>1
<1>4. \A n \in 0..N : v[n] = IF n = 0 THEN b
                              ELSE IF v[n - 1] = nil THEN nil
                              ELSE nx[v[n - 1]]
  BY <1>2, <1>3
<1>5. v = [n \in 0..N |-> v[n]]
  BY <1>2
<1> QED BY <1>4, <1>5 DEF DefinesWalk

(* A function defined that way is the walk its definition describes.       *)
LEMMA WalkFollows ==
  ASSUME NEW A, NEW nil, NEW b \in A, NEW nx \in [A -> A \cup {nil}], NEW N \in Nat,
         NEW walk, DefinesWalk(walk, b, nx, nil, N)
  PROVE  walk \in [0..N -> A \cup {nil}] /\ Follows(walk, b, nx, nil, N)
<1> DEFINE W(n) == IF n = 0 THEN b ELSE IF walk[n - 1] = nil THEN nil ELSE nx[walk[n - 1]]
<1>1. walk = [n \in 0..N |-> W(n)]
  BY DEF DefinesWalk
<1>2. DOMAIN walk = 0..N /\ \A n \in 0..N : walk[n] = W(n)
  <2> HIDE DEF W
  <2> QED BY <1>1
<1>3. walk[0] = b
  BY <1>2
<1>4. \A n \in 1..N : walk[n] = IF walk[n - 1] = nil THEN nil ELSE nx[walk[n - 1]]
  BY <1>2
<1> DEFINE S == {n \in Nat : n \in 0..N => walk[n] \in A \cup {nil}}
<1>5. 0 \in S
  BY <1>3
<1>6. ASSUME NEW n \in Nat, n \in S PROVE n + 1 \in S
  <2> SUFFICES ASSUME n + 1 \in 1..N PROVE walk[n + 1] \in A \cup {nil}
    OBVIOUS
  <2>1. (n + 1) - 1 = n /\ walk[n] \in A \cup {nil}
    BY <1>6
  <2> QED BY <1>4, <2>1
<1>7. \A n \in 0..N : walk[n] \in A \cup {nil}
  <2>1. Nat \subseteq S
    <3> HIDE DEF S
    <3> QED BY <1>5, <1>6, SetInduction
  <2> QED BY <2>1
<1>8. walk \in [0..N -> A \cup {nil}]
  <2> HIDE DEF W
  <2> QED BY <1>1, <1>2, <1>7
<1> QED BY <1>3, <1>4, <1>8 DEF Follows

(* A walk that goes down at every step never comes back to a place.        *)
LEMMA DescentIsInjective ==
  ASSUME NEW N \in Nat, NEW f \in [1..N -> Int],
         \A n \in 1..N : n + 1 \in 1..N => f[n + 1] < f[n]
  PROVE  \A m, n \in 1..N : m < n => f[n] < f[m]
<1> DEFINE S == {d \in Nat : \A m \in 1..N : m + d + 1 \in 1..N => f[m + d + 1] < f[m]}
<1>1. 0 \in S
  OBVIOUS
<1>2. ASSUME NEW d \in Nat, d \in S PROVE d + 1 \in S
  <2> SUFFICES ASSUME NEW m \in 1..N, m + d + 2 \in 1..N PROVE f[m + d + 2] < f[m]
    OBVIOUS
  <2>1. m + d + 1 \in 1..N /\ (m + d + 1) + 1 = m + d + 2
    OBVIOUS
  <2>2. f[m + d + 1] < f[m] /\ f[m + d + 2] < f[m + d + 1]
    BY <1>2, <2>1
  <2> QED BY <2>1, <2>2
<1>3. Nat \subseteq S
  <2> HIDE DEF S
  <2> QED BY <1>1, <1>2, SetInduction
<1> SUFFICES ASSUME NEW m \in 1..N, NEW n \in 1..N, m < n PROVE f[n] < f[m]
  OBVIOUS
<1> DEFINE d == n - m - 1
<1>4. d \in Nat /\ m + d + 1 = n
  OBVIOUS
<1> HIDE DEF d
<1> QED BY <1>3, <1>4

(* So a walk through a finite set T that goes down at every step has at    *)
(* most as many places as T has elements.                                  *)
LEMMA DescentIsShort ==
  ASSUME NEW T, IsFiniteSet(T), NEW N \in Nat, NEW w \in [1..N -> T],
         NEW r \in [T -> Int],
         \A n \in 1..N : n + 1 \in 1..N => r[w[n + 1]] < r[w[n]]
  PROVE  N <= Cardinality(T)
<1> DEFINE f == [n \in 1..N |-> r[w[n]]]
<1>1. \A m, n \in 1..N : m < n => f[n] < f[m]
  <2>1. f \in [1..N -> Int] /\ \A n \in 1..N : n + 1 \in 1..N => f[n + 1] < f[n]
    OBVIOUS
  <2> HIDE DEF f
  <2> QED BY <2>1, DescentIsInjective
<1>2. IsFiniteSet(1..N) /\ Cardinality(1..N) = N /\ Cardinality(T) \in Nat
  BY FS_Interval, FS_CardinalityType
<1>3. ASSUME Cardinality(T) < N PROVE FALSE
  <2>1. PICK m, n \in 1..N : m # n /\ w[m] = w[n]
    BY <1>2, <1>3, FS_PigeonHole
  <2> QED BY <1>1, <2>1
<1> QED BY <1>2, <1>3

(* it is what FoldFunction computes with to add up the values of f.        *)
IsSum(it, f) ==
  it = [s \in SUBSET DOMAIN f |->
          IF s = {} THEN 0
          ELSE LET x == CHOOSE y \in s : TRUE IN f[x] + it[s \ {x}]]

Sized(D, n) == {s \in SUBSET D : Cardinality(s) <= n}

LEMMA SmallerSet ==
  ASSUME NEW D, IsFiniteSet(D), NEW n \in Nat, NEW s \in Sized(D, n + 1), NEW x \in s
  PROVE  s \ {x} \in Sized(D, n)
<1>1. IsFiniteSet(s) /\ Cardinality(s) \in Nat /\ Cardinality(s) <= n + 1
  BY FS_Subset, FS_CardinalityType DEF Sized
<1>2. Cardinality(s \ {x}) = Cardinality(s) - 1
  BY <1>1, FS_RemoveElement
<1> QED BY <1>1, <1>2 DEF Sized

LEMMA SmallSets ==
  ASSUME NEW D, IsFiniteSet(D)
  PROVE  /\ Sized(D, 0) = {{}} /\ Sized(D, Cardinality(D)) = SUBSET D
         /\ \A n \in Nat : Sized(D, n) \subseteq Sized(D, n + 1)
         /\ Cardinality(D) \in Nat
<1>1. ASSUME NEW s, s \subseteq D
      PROVE  /\ IsFiniteSet(s) /\ Cardinality(s) \in Nat
             /\ Cardinality(s) <= Cardinality(D) /\ (Cardinality(s) = 0 => s = {})
  BY <1>1, FS_Subset, FS_CardinalityType, FS_EmptySet
<1>2. Cardinality(D) \in Nat /\ Cardinality({}) = 0
  BY FS_CardinalityType, FS_EmptySet
<1>3. ASSUME NEW s PROVE s \in Sized(D, 0) <=> s \in {{}}
  <2>1. CASE s \subseteq D
    <3>1. Cardinality(s) \in Nat /\ (Cardinality(s) = 0 => s = {})
      BY <1>1, <2>1
    <3> QED BY <1>2, <2>1, <3>1 DEF Sized
  <2> QED BY <2>1 DEF Sized
<1>4. ASSUME NEW s PROVE s \in Sized(D, Cardinality(D)) <=> s \in SUBSET D
  <2>1. CASE s \subseteq D
    <3>1. Cardinality(s) <= Cardinality(D)
      BY <1>1, <2>1
    <3> QED BY <2>1, <3>1 DEF Sized
  <2> QED BY <2>1 DEF Sized
<1>5. ASSUME NEW n \in Nat, NEW s \in Sized(D, n) PROVE s \in Sized(D, n + 1)
  <2>1. s \subseteq D /\ Cardinality(s) <= n
    BY DEF Sized
  <2>2. Cardinality(s) \in Nat
    BY <1>1, <2>1
  <2> QED BY <2>1, <2>2 DEF Sized
<1>6. Sized(D, 0) = {{}}
  BY <1>3
<1>7. Sized(D, Cardinality(D)) = SUBSET D
  BY <1>4
<1> QED BY <1>2, <1>5, <1>6, <1>7

LEMMA SumExists ==
  ASSUME NEW f, IsFiniteSet(DOMAIN f)
  PROVE  \E it : IsSum(it, f)
<1> DEFINE D == DOMAIN f
           First(s) == CHOOSE y \in s : TRUE
           Next(g, s) == IF s = {} THEN 0 ELSE f[First(s)] + g[s \ {First(s)}]
           S == {n \in Nat : \E g : g = [s \in Sized(D, n) |-> Next(g, s)]}
<1>1. 0 \in S
  <2> DEFINE g == [s \in {{}} |-> 0]
  <2>1. g = [s \in {{}} |-> Next(g, s)]
    OBVIOUS
  <2> HIDE DEF g, Next
  <2> QED BY <2>1, SmallSets
<1>2. ASSUME NEW n \in Nat, n \in S PROVE n + 1 \in S
  <2>1. PICK g : g = [s \in Sized(D, n) |-> Next(g, s)]
    BY <1>2
  <2> DEFINE h == [s \in Sized(D, n + 1) |-> Next(g, s)]
  <2>2. ASSUME NEW s \in Sized(D, n) PROVE h[s] = g[s]
    <3>1. s \in Sized(D, n + 1)
      BY SmallSets
    <3>2. g[s] = Next(g, s)
      BY <2>1
    <3> QED BY <3>1, <3>2
  <2>3. ASSUME NEW s \in Sized(D, n + 1) PROVE Next(g, s) = Next(h, s)
    <3>1. CASE s # {}
      <4>1. s \ {First(s)} \in Sized(D, n)
        BY <3>1, SmallerSet
      <4> QED BY <2>2, <4>1
    <3> QED BY <3>1
  <2>4. h = [s \in Sized(D, n + 1) |-> Next(h, s)]
    <3> HIDE DEF Next
    <3> QED BY <2>3
  <2> HIDE DEF h, Next
  <2> QED BY <2>4
<1>3. Cardinality(D) \in S
  <2> HIDE DEF S
  <2> QED BY <1>1, <1>2, SetInduction, SmallSets
<1>4. PICK g : g = [s \in Sized(D, Cardinality(D)) |-> Next(g, s)]
  BY <1>3
<1>5. g = [s \in SUBSET D |-> Next(g, s)]
  <2> HIDE DEF Next
  <2> QED BY <1>4, SmallSets
<1> QED BY <1>5 DEF IsSum

AddsUp(it, f) ==
  /\ it \in [SUBSET DOMAIN f -> Int]
  /\ \A s \in SUBSET DOMAIN f : \A x \in s : it[s] = f[x] + it[s \ {x}]

(* The order in which the values are added does not matter.                *)
LEMMA SumOfSets ==
  ASSUME NEW f, IsFiniteSet(DOMAIN f), f \in [DOMAIN f -> Int], NEW it, IsSum(it, f)
  PROVE  AddsUp(it, f)
<1> DEFINE D == DOMAIN f
           First(s) == CHOOSE y \in s : TRUE
           S == {n \in Nat : \A s \in Sized(D, n) :
                   it[s] \in Int /\ \A x \in s : it[s] = f[x] + it[s \ {x}]}
<1>1. \A s \in SUBSET D : s # {} => First(s) \in s /\ it[s] = f[First(s)] + it[s \ {First(s)}]
  BY DEF IsSum
<1>2. it[{}] = 0
  BY DEF IsSum
<1>3. 0 \in S
  <2>1. \A s \in Sized(D, 0) : s = {}
    BY SmallSets
  <2> QED BY <1>2, <2>1
<1>4. ASSUME NEW n \in Nat, n \in S PROVE n + 1 \in S
  <2>1. ASSUME NEW s \in Sized(D, n + 1), NEW x \in s
        PROVE  it[s] \in Int /\ it[s] = f[x] + it[s \ {x}]
    <3> DEFINE c == First(s)
    <3>1. c \in s /\ it[s] = f[c] + it[s \ {c}] /\ s \subseteq D
      BY <1>1, <2>1 DEF Sized
    <3>2. s \ {c} \in Sized(D, n) /\ s \ {x} \in Sized(D, n)
      BY <3>1, SmallerSet
    <3> HIDE DEF c
    <3>3. it[s \ {c}] \in Int /\ it[s \ {x}] \in Int /\ f[c] \in Int /\ f[x] \in Int
      BY <1>4, <3>1, <3>2
    <3>4. CASE x # c
      <4>1. it[s \ {c}] = f[x] + it[(s \ {c}) \ {x}]
        BY <1>4, <3>2, <3>4
      <4>2. it[s \ {x}] = f[c] + it[(s \ {x}) \ {c}]
        BY <1>4, <3>1, <3>2, <3>4
      <4>3. (s \ {c}) \ {x} = (s \ {x}) \ {c} /\ (s \ {c}) \ {x} \in Sized(D, n)
        <5>1. n = 0 => FALSE
          <6> SUFFICES ASSUME n = 0 PROVE FALSE
            OBVIOUS
          <6>1. s \ {c} = {}
            BY <3>2, SmallSets
          <6> QED BY <3>4, <6>1
        <5>2. n - 1 \in Nat /\ (n - 1) + 1 = n
          BY <5>1
        <5>3. (s \ {c}) \ {x} \in Sized(D, n - 1)
          BY <3>2, <3>4, <5>2, SmallerSet
        <5>4. Sized(D, n - 1) \subseteq Sized(D, n)
          BY <5>2, SmallSets
        <5> QED BY <5>3, <5>4
      <4>4. it[(s \ {c}) \ {x}] \in Int
        BY <1>4, <4>3
      <4>5. it[(s \ {x}) \ {c}] = it[(s \ {c}) \ {x}]
        BY <4>3
      <4> QED BY ONLY <3>1, <3>3, <4>1, <4>2, <4>4, <4>5
    <3> QED BY <3>1, <3>3, <3>4
  <2>2. ASSUME NEW s \in Sized(D, n + 1) PROVE it[s] \in Int
    <3>1. CASE s # {}
      <4> PICK x \in s : TRUE
        BY <3>1
      <4> QED BY <2>1
    <3> QED BY <1>2, <3>1
  <2> QED BY <2>1, <2>2
<1>5. Cardinality(D) \in S
  <2> HIDE DEF S
  <2> QED BY <1>3, <1>4, SetInduction, SmallSets
<1>6. ASSUME NEW s \in SUBSET D PROVE it[s] \in Int /\ \A x \in s : it[s] = f[x] + it[s \ {x}]
  BY <1>5, SmallSets
<1>7. it = [s \in SUBSET D |-> it[s]]
  BY DEF IsSum
<1> QED BY <1>6, <1>7 DEF AddsUp

LEMMA SumIsFold ==
  ASSUME NEW f, IsFiniteSet(DOMAIN f)
  PROVE  \E it : IsSum(it, f) /\ FoldFunction(+, 0, f) = it[DOMAIN f]
<1>1. FoldFunction(+, 0, f) = (CHOOSE it : IsSum(it, f))[DOMAIN f]
  BY DEF FoldFunction, FoldFunctionOnSet, MapThenFoldSet, IsSum
<1> QED BY <1>1, SumExists

Total(f) == FoldFunction(+, 0, f)

(* Adding up no values gives 0.                                            *)
LEMMA SumOfNothing ==
  ASSUME NEW f, DOMAIN f = {}
  PROVE  Total(f) = 0
<1>1. IsFiniteSet(DOMAIN f)
  BY FS_EmptySet
<1>2. PICK it : IsSum(it, f) /\ Total(f) = it[DOMAIN f]
  BY <1>1, SumIsFold DEF Total
<1>3. it[{}] = 0
  BY <1>2 DEF IsSum
<1> QED BY <1>2, <1>3

IsRest(g, f, b) == DOMAIN g = DOMAIN f \ {b} /\ \A x \in DOMAIN g : g[x] = f[x]

(* A sum is one value and the sum of the others, however both are computed. *)
LEMMA SumRest ==
  ASSUME NEW f, IsFiniteSet(DOMAIN f), f \in [DOMAIN f -> Int], NEW b \in DOMAIN f,
         NEW g, g \in [DOMAIN g -> Int], IsRest(g, f, b),
         NEW i, IsSum(i, f), NEW j, IsSum(j, g)
  PROVE  /\ i[DOMAIN f] = f[b] + j[DOMAIN g]
         /\ i[DOMAIN f] \in Int /\ j[DOMAIN g] \in Int
<1> DEFINE D == DOMAIN f \ {b}
           First(s) == CHOOSE y \in s : TRUE
<1>1. IsFiniteSet(D) /\ DOMAIN g = D /\ \A x \in D : g[x] = f[x]
  BY FS_Subset DEF IsRest
<1>2. IsSum(i, f)
  OBVIOUS
<1>3. IsSum(j, g)
  OBVIOUS
<1> DEFINE S == {n \in Nat : \A s \in Sized(D, n) : i[s] = j[s]}
<1>4. i[{}] = 0 /\ j[{}] = 0
  BY <1>2, <1>3 DEF IsSum
<1>5. 0 \in S
  BY <1>1, <1>4, SmallSets, ZenonT(40)
<1>6. ASSUME NEW n \in Nat, n \in S PROVE n + 1 \in S
  <2>1. ASSUME NEW s \in Sized(D, n + 1), s # {} PROVE i[s] = j[s]
    <3> DEFINE x == First(s)
    <3>1. s \subseteq D /\ s \subseteq DOMAIN f /\ x \in s
      BY <2>1 DEF Sized
    <3>2. i[s] = f[x] + i[s \ {x}] /\ j[s] = g[x] + j[s \ {x}]
      BY <1>1, <1>2, <1>3, <3>1 DEF IsSum
    <3>3. s \ {x} \in Sized(D, n)
      BY <1>1, <3>1, SmallerSet
    <3> QED BY <1>1, <1>6, <3>1, <3>2, <3>3
  <2>2. \A s \in Sized(D, n + 1) : i[s] = j[s]
    BY <1>4, <2>1
  <2>3. n + 1 \in Nat
    OBVIOUS
  <2> QED BY <2>2, <2>3
<1>7. Cardinality(D) \in S
  <2> HIDE DEF S
  <2> QED BY <1>1, <1>5, <1>6, SetInduction, SmallSets
<1>8. i[D] = j[D]
  <2>1. D \in Sized(D, Cardinality(D))
    BY <1>1, SmallSets
  <2> QED BY <1>7, <2>1
<1>9. i[DOMAIN f] = f[b] + i[D] /\ i[DOMAIN f] \in Int /\ i[D] \in Int
  <2>1. IsSum(i, f)
    BY <1>2
  <2>2. AddsUp(i, f)
    BY <2>1, SumOfSets
  <2>3. DOMAIN f \in SUBSET DOMAIN f /\ D \in SUBSET DOMAIN f
    OBVIOUS
  <2> QED BY <2>2, <2>3 DEF AddsUp
<1> QED BY <1>1, <1>8, <1>9

(* A sum is one value and the sum of the others.                           *)
LEMMA SumSplit ==
  ASSUME NEW f, IsFiniteSet(DOMAIN f), f \in [DOMAIN f -> Int], NEW b \in DOMAIN f,
         NEW g, g \in [DOMAIN g -> Int], IsRest(g, f, b)
  PROVE  /\ Total(f) = f[b] + Total(g)
         /\ Total(f) \in Int /\ Total(g) \in Int
<1>1. IsFiniteSet(DOMAIN g)
  BY FS_Subset DEF IsRest
<1>2. PICK i : IsSum(i, f) /\ Total(f) = i[DOMAIN f]
  BY SumIsFold DEF Total
<1>3. PICK j : IsSum(j, g) /\ Total(g) = j[DOMAIN g]
  BY <1>1, SumIsFold DEF Total
<1> QED BY <1>2, <1>3, SumRest

(* The same for the values of f on a set S, as SumFunctionOnSet adds them. *)
IsSumOn(it, f, S) ==
  it = [s \in SUBSET S |->
          IF s = {} THEN 0
          ELSE LET x == CHOOSE y \in s : TRUE IN f[x] + it[s \ {x}]]
On(f, S) == [x \in S |-> f[x]]

(* There is such a sum, and it is that of f restricted to S.               *)
LEMMA SumOnExists ==
  ASSUME NEW f, NEW S, IsFiniteSet(S)
  PROVE  \E it : IsSumOn(it, f, S) /\ IsSum(it, On(f, S)) /\ SumFunctionOnSet(f, S) = it[S]
<1>1. DOMAIN On(f, S) = S /\ \A x \in S : On(f, S)[x] = f[x]
  BY DEF On
<1>2. ASSUME NEW it PROVE IsSumOn(it, f, S) <=> IsSum(it, On(f, S))
  <2> DEFINE First(s) == CHOOSE y \in s : TRUE
  <2>1. ASSUME NEW s \in SUBSET S, s # {} PROVE On(f, S)[First(s)] = f[First(s)]
    <3>1. First(s) \in s
      BY <2>1
    <3> QED BY <3>1, <1>1
  <2>2. [s \in SUBSET S |-> IF s = {} THEN 0 ELSE f[First(s)] + it[s \ {First(s)}]]
        = [s \in SUBSET DOMAIN On(f, S) |-> IF s = {} THEN 0 ELSE On(f, S)[First(s)] + it[s \ {First(s)}]]
    <3> HIDE DEF First
    <3> QED BY <2>1, <1>1
  <2> QED BY <2>2 DEF IsSumOn, IsSum
<1>3. \E it : IsSumOn(it, f, S)
  BY <1>1, <1>2, SumExists
<1>4. SumFunctionOnSet(f, S) = (CHOOSE it : IsSumOn(it, f, S))[S]
  BY Zenon DEF SumFunctionOnSet, FoldFunctionOnSet, MapThenFoldSet, IsSumOn
<1>5. IsSumOn(CHOOSE it : IsSumOn(it, f, S), f, S)
  BY <1>3, Zenon
<1> QED BY <1>2, <1>4, <1>5

(* One value of S taken apart; g has the other values of f.                *)
LEMMA SumOnSplit ==
  ASSUME NEW f, NEW g, NEW S, IsFiniteSet(S), \A x \in S : f[x] \in Int, NEW b \in S,
         \A x \in S \ {b} : g[x] = f[x]
  PROVE  /\ SumFunctionOnSet(f, S) = f[b] + SumFunctionOnSet(g, S \ {b})
         /\ SumFunctionOnSet(f, S) \in Int /\ SumFunctionOnSet(g, S \ {b}) \in Int
<1> DEFINE u == On(f, S)
           w == On(g, S \ {b})
<1>1. /\ DOMAIN u = S /\ u \in [DOMAIN u -> Int] /\ u[b] = f[b]
      /\ DOMAIN w = S \ {b} /\ w \in [DOMAIN w -> Int] /\ IsRest(w, u, b)
  BY DEF On, IsRest
<1>2. IsFiniteSet(S \ {b})
  BY FS_Subset
<1> HIDE DEF u, w
<1>3. PICK i : IsSum(i, u) /\ SumFunctionOnSet(f, S) = i[S]
  BY SumOnExists DEF u
<1>4. PICK j : IsSum(j, w) /\ SumFunctionOnSet(g, S \ {b}) = j[S \ {b}]
  BY <1>2, SumOnExists DEF w
<1>5. IsFiniteSet(DOMAIN u) /\ b \in DOMAIN u
  BY <1>1
<1>6. i[DOMAIN u] = u[b] + j[DOMAIN w] /\ i[DOMAIN u] \in Int /\ j[DOMAIN w] \in Int
  BY <1>1, <1>3, <1>4, <1>5, SumRest
<1> QED BY <1>1, <1>3, <1>4, <1>6

(* One value of S taken out of its sum.                                    *)
LEMMA SumOnRest ==
  ASSUME NEW f, NEW S, IsFiniteSet(S), \A x \in S : f[x] \in Int, NEW b \in S
  PROVE  /\ SumFunctionOnSet(f, S) = f[b] + SumFunctionOnSet(f, S \ {b})
         /\ SumFunctionOnSet(f, S) \in Int /\ SumFunctionOnSet(f, S \ {b}) \in Int
  BY SumOnSplit

(* One value changed.                                                      *)
LEMMA SumOnChanged ==
  ASSUME NEW f, NEW g, NEW S, IsFiniteSet(S), \A x \in S : f[x] \in Int, NEW b \in S,
         g[b] \in Int, \A x \in S \ {b} : g[x] = f[x]
  PROVE  SumFunctionOnSet(g, S) = SumFunctionOnSet(f, S) + (g[b] - f[b])
<1>1. /\ SumFunctionOnSet(f, S) = f[b] + SumFunctionOnSet(f, S \ {b})
      /\ SumFunctionOnSet(f, S) \in Int /\ SumFunctionOnSet(f, S \ {b}) \in Int
  BY SumOnSplit
<1>2. \A x \in S : g[x] \in Int
  BY DEF Int
<1>3. \A x \in S \ {b} : f[x] = g[x]
  OBVIOUS
<1>4. SumFunctionOnSet(g, S) = g[b] + SumFunctionOnSet(f, S \ {b})
  BY <1>2, <1>3, SumOnSplit
<1>5. f[b] \in Int /\ g[b] \in Int
  OBVIOUS
<1> QED BY ONLY <1>1, <1>4, <1>5

(* A sum of naturals is a natural.                                         *)
LEMMA SumOnNat ==
  ASSUME NEW f, NEW S, IsFiniteSet(S), \A x \in S : f[x] \in Nat
  PROVE  SumFunctionOnSet(f, S) \in Nat
<1>1. PICK it : IsSumOn(it, f, S) /\ SumFunctionOnSet(f, S) = it[S]
  BY SumOnExists
<1> DEFINE First(s) == CHOOSE y \in s : TRUE
           B == {n \in Nat : \A s \in Sized(S, n) : it[s] \in Nat}
<1>2. it[{}] = 0
  BY <1>1 DEF IsSumOn
<1>3. \A s \in SUBSET S : s # {} => First(s) \in s /\ it[s] = f[First(s)] + it[s \ {First(s)}]
  BY <1>1 DEF IsSumOn
<1>4. 0 \in B
  BY <1>2, SmallSets
<1>5. ASSUME NEW n \in Nat, n \in B PROVE n + 1 \in B
  <2>1. ASSUME NEW s \in Sized(S, n + 1), s # {} PROVE it[s] \in Nat
    <3> DEFINE x == First(s)
    <3>1. s \subseteq S /\ x \in s /\ it[s] = f[x] + it[s \ {x}]
      BY <1>3, <2>1 DEF Sized
    <3> HIDE DEF x
    <3>2. s \ {x} \in Sized(S, n)
      BY <3>1, SmallerSet
    <3>3. it[s \ {x}] \in Nat /\ f[x] \in Nat
      BY <1>5, <3>1, <3>2
    <3> QED BY ONLY <3>1, <3>3
  <2>2. \A s \in Sized(S, n + 1) : it[s] \in Nat
    <3> SUFFICES ASSUME NEW s \in Sized(S, n + 1) PROVE it[s] \in Nat
      OBVIOUS
    <3>1. CASE s = {}
      BY <1>2, <3>1
    <3>2. CASE s # {}
      BY <2>1, <3>2
    <3> QED BY <3>1, <3>2
  <2>3. n + 1 \in Nat
    OBVIOUS
  <2> QED BY <2>2, <2>3
<1>6. Cardinality(S) \in B
  <2> HIDE DEF B
  <2> QED BY <1>4, <1>5, SetInduction, SmallSets
<1>7. S \in Sized(S, Cardinality(S))
  BY SmallSets
<1> QED BY <1>1, <1>6, <1>7
=============================================================================
