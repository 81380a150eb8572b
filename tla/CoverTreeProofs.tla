---------------------------- MODULE CoverTreeProofs ----------------------------
(***************************************************************************)
(* Proofs about the builder and the queries of a cover tree, for every     *)
(* cloud, every settings, every choice of centers, and every interleaving  *)
(* of the pool with the building thread.                                   *)
(*   The build: the type invariant, no point is lost or duplicated while   *)
(* it is handed down, and total_nodes is exact, so that build returns only *)
(* when it has all the nodes.                                              *)
(*   The tree it makes: it hangs together, has the covering and the        *)
(* separating property of cover trees, counts its points exactly, and      *)
(* finds every point again where the build has put it.                     *)
(*   The queries: knn is exact, for every such tree, every query that the  *)
(* triangle inequality allows, every k, and however the heaps break ties.  *)
(***************************************************************************)
EXTENDS CoverTreeQuery, DataLemmas, SequenceTheorems

-----------------------------------------------------------------------------
(* Powers and scales.                                                      *)

(* The recursion of the powers of the base. *)
LEMMA PowiDef ==
  /\ Powi \in [Nat -> Nat]
  /\ Powi[0] = 1
  /\ \A n \in Nat : Powi[n + 1] = Base * Powi[n]
<1> DEFINE g == [nx \in Nat \X Nat |-> Base * nx[2]]
           Eq(f) == f = [s \in Nat |-> IF s = 0 THEN 1 ELSE Base * f[s - 1]]
<1>1. g \in [Nat \X Nat -> Nat] /\ \A n, x \in Nat : g[<<n, x>>] = Base * x
  BY BaseAssumption
<1> HIDE DEF g
<1>2. PICK f \in [Nat -> Nat] : f[0] = 1 /\ \A n \in Nat : f[n + 1] = g[<<n, f[n]>>]
  <2> DEFINE X == Nat
             x0 == 1
  <2>1. x0 \in X
    OBVIOUS
  <2>3. \A n \in Nat, x \in X : g[<<n, x>>] \in X
    BY <1>1
  <2> HIDE DEF X, x0
  <2>2. \E f : Recursion(f, X, x0, g)
    BY <2>1, <2>3, RecursionExists
  <2> QED
    BY <2>2 DEF X, x0, Recursion
<1>3. \A n \in Nat : f[n + 1] = Base * f[n]
  BY <1>1, <1>2
<1>4. \A s \in Nat : f[s] = IF s = 0 THEN 1 ELSE Base * f[s - 1]
  <2> TAKE s \in Nat
  <2>1. CASE s = 0
    BY <2>1, <1>2
  <2>2. CASE s # 0
    <3>1. s - 1 \in Nat /\ (s - 1) + 1 = s
      BY <2>2
    <3> QED
      BY <3>1, <2>2, <1>3
  <2> QED
    BY <2>1, <2>2
<1>5. Eq(f)
  BY <1>2, <1>4
<1>6. Eq(Powi)
  BY <1>5 DEF Powi
<1>7. \A h : Eq(h) => h[0] = 1 /\ \A n \in Nat : h[n + 1] = Base * h[n]
  OBVIOUS
<1> DEFINE P == {n \in Nat : Powi[n] \in Nat}
<1>8. P = Nat
  <2>1. P \in SUBSET Nat
    OBVIOUS
  <2>2. 0 \in P
    BY <1>6, <1>7
  <2>3. ASSUME NEW n \in P PROVE n + 1 \in P
    <3>1. n \in Nat /\ Powi[n] \in Nat /\ Powi[n + 1] = Base * Powi[n]
      BY <2>3, <1>6, <1>7
    <3>2. Base * Powi[n] \in Nat
      BY <3>1, BaseAssumption
    <3> QED
      BY <3>1, <3>2
  <2> HIDE DEF P
  <2> QED
    BY <2>1, <2>2, <2>3, AllNaturals
<1>9. Powi \in [Nat -> Nat]
  BY <1>6, <1>8
<1> HIDE DEF Eq
<1> QED
  BY <1>6, <1>7, <1>9

(* A power of the base is above its exponent. *)
LEMMA PowiGrows == \A n \in Nat : Powi[n] > n
<1> DEFINE P == {n \in Nat : Powi[n] > n}
<1>1. P \in SUBSET Nat
  OBVIOUS
<1>2. 0 \in P
  BY PowiDef
<1>3. ASSUME NEW n \in P PROVE n + 1 \in P
  <2>1. n \in Nat /\ Powi[n] \in Nat /\ Powi[n] > n /\ Powi[n + 1] = Base * Powi[n]
    BY <1>3, PowiDef
  <2>2. \A x \in Nat : Base * x >= x + x
    BY BaseAssumption
  <2>3. Powi[n + 1] >= Powi[n] + Powi[n]
    BY <2>1, <2>2
  <2>4. Powi[n + 1] \in Nat
    BY <2>1, PowiDef
  <2> QED
    BY <2>1, <2>3, <2>4
<1>4. P = Nat
  <2> HIDE DEF P
  <2> QED
    BY <1>1, <1>2, <1>3, AllNaturals
<1> QED
  BY <1>4

(* The logarithm of a radius is a scale. *)
LEMMA CeilLogType ==
  ASSUME NEW r \in Nat \cup {NoRadius}
  PROVE  CeilLog(r) \in Int
<1>1. CASE r = NoRadius
  BY <1>1 DEF CeilLog, NoRadius
<1>2. CASE r # NoRadius /\ r = 0
  BY <1>2 DEF CeilLog, NoRadius, BelowAnyScale
<1>3. CASE r \in Nat /\ r > 0
  <2> DEFINE T == {s \in 0..r : Powi[s] >= r}
  <2>1. T \in SUBSET Nat
    BY <1>3
  <2>2. r \in T
    BY <1>3, PowiGrows, PowiDef
  <2>3. CeilLog(r) = Min(T)
    BY <1>3 DEF CeilLog, NoRadius
  <2> HIDE DEF T
  <2>4. Min(T) \in T
    BY <2>1, <2>2, MinOfNaturals
  <2> DEFINE m == Min(T)
  <2>5. m \in Nat
    BY <2>1, <2>4
  <2>6. CeilLog(r) = m
    BY <2>3
  <2> HIDE DEF m
  <2> QED
    BY <2>5, <2>6
<1> QED
  BY <1>1, <1>2, <1>3 DEF NoRadius

LEMMA BetweenType ==
  ASSUME NEW ps \in Settings, NEW p \in Point, NEW q \in Point
  PROVE  Between(ps, p, q) \in Nat
BY SettingsAssumption DEF Between, Parameters

(* The radius of a node. *)
LEMMA MaxDistanceType ==
  ASSUME NEW ps \in Settings, NEW b, b.center \in Point, b.covered \in SUBSET Point
  PROVE  MaxDistance(ps, b) \in Nat \cup {NoRadius}
<1> DEFINE D == {Between(ps, b.center, p) : p \in b.covered}
           f == [p \in b.covered |-> Between(ps, b.center, p)]
<1>1. CASE b.covered = {}
  BY <1>1 DEF MaxDistance
<1>2. CASE b.covered # {}
  <2>1. D \in SUBSET Nat
    BY BetweenType
  <2>2. D # {}
    BY <1>2
  <2>3. IsFiniteSet(D)
    <3>1. IsFiniteSet(b.covered)
      BY PointAssumption, FS_Subset
    <3>2. D = {f[p] : p \in b.covered} /\ DOMAIN f = b.covered
      OBVIOUS
    <3> HIDE DEF f, D
    <3> QED
      BY <3>1, <3>2, FiniteImage
  <2>4. MaxDistance(ps, b) = Max(D)
    BY <1>2 DEF MaxDistance
  <2> HIDE DEF D
  <2>5. Max(D) \in D
    BY <2>1, <2>2, <2>3, MaxOfIntegers
  <2> QED
    BY <2>1, <2>4, <2>5
<1> QED
  BY <1>1, <1>2

(* A node is divided at a lower scale, at most one below the finest. *)
LEMMA NextScaleFits ==
  ASSUME NEW ps \in Settings, NEW b \in Builder, ~IsFine(ps, b)
  PROVE  /\ NextScale(ps, b) \in Int
         /\ ps.minRes - 1 <= NextScale(ps, b)
         /\ NextScale(ps, b) < b.scale
<1>1. CeilLog(MaxDistance(ps, b)) \in Int
  BY MaxDistanceType, CeilLogType DEF Builder
<1>2. b.scale \in Int /\ ps.minRes \in Int /\ b.scale >= ps.minRes
  BY SettingsAssumption DEF Builder, Parameters, IsFine
<1> QED
  BY <1>1, <1>2 DEF NextScale, SmallerOf, LargerOf

-----------------------------------------------------------------------------
(* The partition of a node.                                                *)

(* AllBut keeps, once each and in their order, the elements of a sequence  *)
(* that are not out.                                                       *)
Selected(s, out, n, r) ==
  /\ \A y : (\E k \in 1..Len(r) : r[k] = y) <=> (y \notin out /\ \E i \in 1..n : s[i] = y)
  /\ \A j, k \in 1..Len(r) : j # k => r[j] # r[k]
  /\ \A j, k \in 1..Len(r) : j < k => \E i, l \in 1..n : i < l /\ r[j] = s[i] /\ r[k] = s[l]

LEMMA AllButSelects ==
  ASSUME NEW S, NEW s \in Seq(S), NEW out,
         \A i, j \in 1..Len(s) : i # j => s[i] # s[j]
  PROVE  AllBut(s, out) \in Seq(S) /\ Selected(s, out, Len(s), AllBut(s, out))
<1> DEFINE Kept(f) == f = [i \in 0..Len(s) |->
                             IF i = 0 THEN <<>>
                             ELSE IF s[i] \in out THEN f[i - 1] ELSE Append(f[i - 1], s[i])]
           X == Seq(S)
           g == [nx \in Nat \X X |->
                   IF nx[1] >= Len(s) \/ s[nx[1] + 1] \in out THEN nx[2]
                   ELSE Append(nx[2], s[nx[1] + 1])]
           e == <<>>
<1>1. Len(s) \in Nat /\ \A i \in 1..Len(s) : s[i] \in S
  OBVIOUS
<1>2. \A n \in Nat, x \in X :
        g[<<n, x>>] = IF n >= Len(s) \/ s[n + 1] \in out THEN x ELSE Append(x, s[n + 1])
  OBVIOUS
<1>3. \A n \in Nat, x \in X : g[<<n, x>>] \in X
  <2> TAKE n \in Nat, x \in X
  <2>1. n >= Len(s) \/ s[n + 1] \in S
    BY <1>1
  <2>2. s[n + 1] \in S => Append(x, s[n + 1]) \in X
    OBVIOUS
  <2> HIDE DEF g, X
  <2>3. g[<<n, x>>] = IF n >= Len(s) \/ s[n + 1] \in out THEN x ELSE Append(x, s[n + 1])
    BY <1>2
  <2> QED
    BY <2>1, <2>2, <2>3
<1>4. e \in X
  OBVIOUS
<1>5. PICK h : Recursion(h, X, e, g)
  <2> HIDE DEF X, e, g
  <2> QED
    BY <1>3, <1>4, RecursionExists
<1>6. h \in [Nat -> X] /\ h[0] = <<>> /\ \A n \in Nat : h[n + 1] = g[<<n, h[n]>>]
  BY <1>5 DEF Recursion
<1> DEFINE f0 == [i \in 0..Len(s) |-> h[i]]
<1>7. Kept(f0)
  <2>1. \A i \in 0..Len(s) : f0[i] = IF i = 0 THEN <<>> ELSE IF s[i] \in out THEN f0[i - 1] ELSE Append(f0[i - 1], s[i])
    <3> TAKE i \in 0..Len(s)
    <3>1. CASE i = 0
      BY <3>1, <1>6
    <3>2. CASE i # 0
      <4>1. i - 1 \in Nat /\ (i - 1) + 1 = i /\ i - 1 \in 0..Len(s) /\ ~(i - 1 >= Len(s)) /\ i \in 0..Len(s)
        BY <3>2, <1>1
      <4>2. h[i] = g[<<i - 1, h[i - 1]>>] /\ h[i - 1] \in X
        BY <4>1, <1>6
      <4>3. g[<<i - 1, h[i - 1]>>] = IF s[i] \in out THEN h[i - 1] ELSE Append(h[i - 1], s[i])
        <5> HIDE DEF g
        <5> QED
          BY <4>1, <4>2, <1>2
      <4>4. f0[i] = h[i] /\ f0[i - 1] = h[i - 1]
        BY <4>1
      <4> HIDE DEF g, f0
      <4> QED
        BY <3>2, <4>2, <4>3, <4>4
    <3> QED
      BY <3>1, <3>2
  <2> QED
    BY <2>1
<1> DEFINE f == CHOOSE f : Kept(f)
<1>8. Kept(f) /\ AllBut(s, out) = f[Len(s)]
  BY <1>7 DEF AllBut
<1> HIDE DEF f, g, X, f0
<1>9. f[0] = <<>> /\ \A n \in Nat : n < Len(s) =>
        f[n + 1] = IF s[n + 1] \in out THEN f[n] ELSE Append(f[n], s[n + 1])
  <2>1. \A i \in 0..Len(s) :
          f[i] = IF i = 0 THEN <<>> ELSE IF s[i] \in out THEN f[i - 1] ELSE Append(f[i - 1], s[i])
    BY <1>8
  <2>2. \A n \in Nat : n < Len(s) => n + 1 \in 0..Len(s) /\ n + 1 # 0 /\ (n + 1) - 1 = n
    BY <1>1
  <2>3. 0 \in 0..Len(s)
    BY <1>1
  <2>4. f[0] = <<>>
    BY <2>1, <2>3
  <2>5. ASSUME NEW n \in Nat, n < Len(s)
        PROVE  f[n + 1] = IF s[n + 1] \in out THEN f[n] ELSE Append(f[n], s[n + 1])
    <3>1. n + 1 \in 0..Len(s) /\ n + 1 # 0 /\ (n + 1) - 1 = n
      BY <2>2, <2>5
    <3> QED
      BY <2>1, <3>1
  <2> QED
    BY <2>4, <2>5
<1> HIDE DEF Kept
<1> DEFINE P == {n \in Nat : n <= Len(s) => f[n] \in Seq(S) /\ Selected(s, out, n, f[n])}
<1>10. 0 \in P
  <2>1. <<>> \in Seq(S) /\ Len(<<>>) = 0 /\ 1..0 = {}
    OBVIOUS
  <2>2. Selected(s, out, 0, <<>>)
    BY <2>1 DEF Selected
  <2> QED
    BY <1>9, <2>1, <2>2
<1>11. ASSUME NEW n \in P PROVE n + 1 \in P
  <2> SUFFICES ASSUME n + 1 <= Len(s)
               PROVE  f[n + 1] \in Seq(S) /\ Selected(s, out, n + 1, f[n + 1])
    OBVIOUS
  <2>1. n \in Nat /\ n < Len(s) /\ n + 1 \in 1..Len(s) /\ f[n] \in Seq(S) /\ Selected(s, out, n, f[n])
    BY <1>1, <1>11
  <2>2. 1..(n + 1) = (1..n) \cup {n + 1}
    BY <2>1
  <2>3. CASE s[n + 1] \in out
    <3> DEFINE r == f[n]
    <3>1. f[n + 1] = r /\ r \in Seq(S) /\ Selected(s, out, n, r)
      BY <1>9, <2>1, <2>3
    <3> HIDE DEF r
    <3>2. \A i \in 1..n : i \in 1..(n + 1)
      BY <2>2
    <3>3. \A y : (\E k \in 1..Len(r) : r[k] = y) <=> (y \notin out /\ \E i \in 1..(n + 1) : s[i] = y)
      <4>1. \A y : (\E k \in 1..Len(r) : r[k] = y) <=> (y \notin out /\ \E i \in 1..n : s[i] = y)
        BY <3>1 DEF Selected
      <4>2. \A y : (\E i \in 1..(n + 1) : s[i] = y) <=> ((\E i \in 1..n : s[i] = y) \/ y = s[n + 1])
        BY <2>2
      <4> QED
        BY <2>3, <4>1, <4>2
    <3>4. Selected(s, out, n + 1, r)
      BY <3>1, <3>2, <3>3 DEF Selected
    <3> QED
      BY <3>1, <3>4
  <2>4. CASE s[n + 1] \notin out
    <3> DEFINE r == f[n]
               y0 == s[n + 1]
               q == Append(r, y0)
    <3>1. f[n + 1] = q
      BY <1>9, <2>1, <2>4
    <3>2. y0 \in S /\ r \in Seq(S) /\ Selected(s, out, n, r)
      BY <1>1, <2>1
    <3>3. \A i \in 1..n : i \in 1..Len(s) /\ s[i] # y0
      BY <1>1, <2>1
    <3> HIDE DEF r, y0
    <3>4. /\ q \in Seq(S) /\ Len(q) = Len(r) + 1 /\ Len(r) \in Nat
          /\ \A k \in 1..Len(r) : q[k] = r[k]
          /\ q[Len(r) + 1] = y0
      BY <3>2
    <3>5. 1..Len(q) = (1..Len(r)) \cup {Len(r) + 1}
      BY <3>4
    <3>6. \A k \in 1..Len(r) : r[k] # y0
      BY <3>2, <3>3 DEF Selected
    <3> HIDE DEF q
    <3>7. \A j, k \in 1..Len(q) : j # k => q[j] # q[k]
      <4> SUFFICES ASSUME NEW j \in 1..Len(q), NEW k \in 1..Len(q), j # k PROVE q[j] # q[k]
        OBVIOUS
      <4>1. CASE j \in 1..Len(r) /\ k \in 1..Len(r)
        BY <3>2, <3>4, <4>1 DEF Selected
      <4>2. CASE j = Len(r) + 1 /\ k \in 1..Len(r)
        BY <3>4, <3>6, <4>2
      <4>3. CASE j \in 1..Len(r) /\ k = Len(r) + 1
        BY <3>4, <3>6, <4>3
      <4> QED
        BY <3>5, <4>1, <4>2, <4>3
    <3>8. \A y : (\E k \in 1..Len(q) : q[k] = y) <=> (y = y0 \/ \E k \in 1..Len(r) : r[k] = y)
      BY <3>4, <3>5
    <3>9. \A y : (\E i \in 1..(n + 1) : s[i] = y) <=> (y = y0 \/ \E i \in 1..n : s[i] = y)
      BY <2>2 DEF y0
    <3>10. y0 \notin out
      BY <2>4 DEF y0
    <3>11. \A j, k \in 1..Len(q) : j < k => \E i, l \in 1..(n + 1) : i < l /\ q[j] = s[i] /\ q[k] = s[l]
      <4> SUFFICES ASSUME NEW j \in 1..Len(q), NEW k \in 1..Len(q), j < k
                   PROVE  \E i, l \in 1..(n + 1) : i < l /\ q[j] = s[i] /\ q[k] = s[l]
        OBVIOUS
      <4>1. j \in 1..Len(r) /\ q[j] = r[j]
        BY <3>4, <3>5
      <4>2. PICK i \in 1..n : s[i] = r[j]
        BY <3>2, <4>1 DEF Selected
      <4>3. CASE k = Len(r) + 1
        <5>1. q[k] = s[n + 1] /\ i < n + 1 /\ n + 1 \in 1..(n + 1) /\ i \in 1..(n + 1)
          BY <2>1, <3>4, <4>3 DEF y0
        <5> QED
          BY <4>1, <4>2, <5>1
      <4>4. CASE k \in 1..Len(r)
        <5>1. PICK h1 \in 1..n, h2 \in 1..n : h1 < h2 /\ r[j] = s[h1] /\ r[k] = s[h2]
          BY <3>2, <4>1, <4>4 DEF Selected
        <5>2. h1 \in 1..(n + 1) /\ h2 \in 1..(n + 1)
          BY <2>2
        <5> QED
          BY <3>4, <4>1, <4>4, <5>1, <5>2
      <4> QED
        BY <3>5, <4>3, <4>4
    <3>12. Selected(s, out, n + 1, q)
      BY <3>2, <3>7, <3>8, <3>9, <3>10, <3>11 DEF Selected
    <3> QED
      BY <3>1, <3>4, <3>12
  <2> QED
    BY <2>3, <2>4
<1>12. P = Nat
  <2>1. P \in SUBSET Nat
    OBVIOUS
  <2> HIDE DEF P
  <2> QED
    BY <2>1, <1>10, <1>11, AllNaturals
<1> QED
  BY <1>1, <1>8, <1>12

LEMMA PickedCenters ==
  ASSUME NEW ps, NEW b \in Builder, NEW s, NEW centers \in PickCenters(ps, b, s)
  PROVE  \E n \in Nat : centers \in [1..n -> b.covered]
<1> DEFINE far == {p \in b.covered : ~Within(Between(ps, b.center, p), s)}
<1>1. IsFiniteSet(far)
  BY PointAssumption, FS_Subset DEF Builder
<1>2. Cardinality(far) \in Nat
  BY <1>1, FS_CardinalityType
<1>3. \E n \in 0..Cardinality(far) : centers \in [1..n -> far]
  BY DEF PickCenters
<1>4. far \subseteq b.covered
  OBVIOUS
<1> HIDE DEF far
<1> QED
  BY <1>2, <1>3, <1>4

(* The centers of the parts: the nested one, then those that were picked. *)
LEMMA CentersType ==
  ASSUME NEW b \in Builder, NEW centers, NEW n \in Nat, centers \in [1..n -> b.covered]
  PROVE  LET cs == <<b.center>> \o centers
         IN /\ cs \in Seq(Point) /\ Len(cs) = n + 1 /\ Len(centers) = n
            /\ cs[1] = b.center
            /\ \A j \in 2..(n + 1) : j - 1 \in 1..n /\ cs[j] = centers[j - 1] /\ cs[j] \in b.covered
<1> DEFINE cs == <<b.center>> \o centers
<1>1. b.center \in Point /\ b.covered \in SUBSET Point
  BY DEF Builder
<1>2. centers \in Seq(Point) /\ Len(centers) = n
  BY <1>1
<1>3. <<b.center>> \in Seq(Point) /\ Len(<<b.center>>) = 1 /\ <<b.center>>[1] = b.center
  BY <1>1
<1>4. /\ cs \in Seq(Point) /\ Len(cs) = 1 + n
      /\ \A i \in 1..(1 + n) : cs[i] = IF i <= 1 THEN <<b.center>>[i] ELSE centers[i - 1]
  <2> DEFINE one == <<b.center>>
  <2>1. one \in Seq(Point) /\ Len(one) = 1
    BY <1>3
  <2> HIDE DEF one
  <2>2. /\ one \o centers \in Seq(Point) /\ Len(one \o centers) = Len(one) + Len(centers)
        /\ \A i \in 1..(Len(one) + Len(centers)) :
             (one \o centers)[i] = IF i <= Len(one) THEN one[i] ELSE centers[i - Len(one)]
    BY <1>2, <2>1, ConcatProperties
  <2> QED
    BY <1>2, <2>1, <2>2 DEF one
<1>5. cs[1] = b.center
  BY <1>3, <1>4
<1>6. ASSUME NEW j \in 2..(n + 1)
      PROVE  j - 1 \in 1..n /\ cs[j] = centers[j - 1] /\ cs[j] \in b.covered
  <2>1. j - 1 \in 1..n /\ j \in 1..(1 + n) /\ ~(j <= 1)
    OBVIOUS
  <2> QED
    BY <1>4, <2>1
<1> QED
  BY <1>2, <1>4, <1>5, <1>6

(* Every point that a node covers has one owner among the centers, and a   *)
(* center owns itself: the parts with their centers partition the node.    *)
Owner(ps, cs, s, p) == IF ps.first THEN FirstOwner(ps, cs, s, p) ELSE AssignToNearest(ps, cs, p)

LEMMA OwnersExist ==
  ASSUME NEW ps \in Settings, NEW b \in Builder, b.center \notin b.covered, NEW s,
         NEW centers \in PickCenters(ps, b, s)
  PROVE  LET cs == <<b.center>> \o centers
         IN /\ \A p \in b.covered : Owner(ps, cs, s, p) \in 1..Len(cs)
            /\ \A j \in 2..Len(cs) : Owner(ps, cs, s, cs[j]) = j
<1> DEFINE far == {p \in b.covered : ~Within(Between(ps, b.center, p), s)}
           cs == <<b.center>> \o centers
<1>1. PICK n \in Nat : centers \in [1..n -> far]
  <2>1. IsFiniteSet(far)
    BY PointAssumption, FS_Subset DEF Builder
  <2>2. Cardinality(far) \in Nat
    BY <2>1, FS_CardinalityType
  <2>3. \E n \in 0..Cardinality(far) : centers \in [1..n -> far]
    BY DEF PickCenters
  <2> HIDE DEF far
  <2> QED
    BY <2>2, <2>3
<1>2. /\ \A j, k \in 1..n : j < k => ~Within(Between(ps, centers[j], centers[k]), s)
      /\ \A p \in far : \E j \in 1..n : Within(Between(ps, centers[j], p), s)
  BY <1>1 DEF PickCenters
<1>3. centers \in [1..n -> b.covered]
  BY <1>1
<1>4. /\ cs \in Seq(Point) /\ Len(cs) = n + 1 /\ DOMAIN cs = 1..(n + 1) /\ cs[1] = b.center
      /\ \A j \in 2..(n + 1) : j - 1 \in 1..n /\ cs[j] = centers[j - 1] /\ cs[j] \in b.covered
  BY <1>3, CentersType
<1> HIDE DEF cs
<1>5. \A j \in 1..(n + 1) : cs[j] \in Point
  BY <1>4
<1>6. \A j \in 2..(n + 1) : cs[j] \in far
  BY <1>1, <1>4
<1>7. \A j, k \in 1..(n + 1) : k < j => ~Within(Between(ps, cs[k], cs[j]), s)
  <2> SUFFICES ASSUME NEW j \in 1..(n + 1), NEW k \in 1..(n + 1), k < j
               PROVE  ~Within(Between(ps, cs[k], cs[j]), s)
    OBVIOUS
  <2>1. j \in 2..(n + 1)
    OBVIOUS
  <2>2. CASE k = 1
    BY <1>4, <1>6, <2>1, <2>2
  <2>3. CASE k \in 2..(n + 1)
    <3>1. j - 1 \in 1..n /\ k - 1 \in 1..n /\ k - 1 < j - 1
      BY <2>1, <2>3
    <3> QED
      BY <1>2, <1>4, <2>1, <2>3, <3>1
  <2> QED
    BY <2>2, <2>3
<1>8. \A p, q \in Point : Between(ps, p, q) = Between(ps, q, p) /\ Between(ps, p, p) = 0
  BY CloudAssumption
<1>9. \A p \in far : \E j \in 1..(n + 1) : Within(Between(ps, cs[j], p), s)
  <2> TAKE p \in far
  <2>1. PICK j \in 1..n : Within(Between(ps, centers[j], p), s)
    BY <1>2
  <2>2. j + 1 \in 2..(n + 1) /\ (j + 1) - 1 = j
    OBVIOUS
  <2>3. cs[j + 1] = centers[j]
    BY <1>4, <2>2
  <2> QED
    BY <2>1, <2>2, <2>3
<1>10. \A j \in 2..(n + 1) : Within(Between(ps, cs[j], cs[j]), s)
  <2> TAKE j \in 2..(n + 1)
  <2>1. PICK k \in 1..(n + 1) : Within(Between(ps, cs[k], cs[j]), s)
    BY <1>6, <1>9
  <2>2. ~(k < j) /\ ~(j < k)
    BY <1>5, <1>7, <1>8, <2>1
  <2> QED
    BY <2>1, <2>2
<1>11. CASE ps.first
  <2> DEFINE T(p) == {j \in DOMAIN cs : Within(Between(ps, cs[j], p), s)}
  <2>1. \A p \in b.covered : T(p) \in SUBSET Nat /\ T(p) # {} /\ T(p) \subseteq 1..(n + 1)
    BY <1>4, <1>9
  <2>2. \A p : Owner(ps, cs, s, p) = Min(T(p))
    BY <1>11 DEF Owner, FirstOwner
  <2>3. \A j \in 2..(n + 1) : j \in T(cs[j]) /\ \A k \in T(cs[j]) : j <= k
    BY <1>4, <1>7, <1>10
  <2> HIDE DEF T
  <2>4. \A p \in b.covered : Min(T(p)) \in T(p) /\ \A k \in T(p) : Min(T(p)) <= k
    BY <2>1, MinOfNaturals
  <2>5. \A j \in 2..(n + 1) : Min(T(cs[j])) = j
    <3> TAKE j \in 2..(n + 1)
    <3> DEFINE m == Min(T(cs[j]))
    <3>1. cs[j] \in b.covered
      BY <1>4
    <3>2. m \in T(cs[j]) /\ m <= j /\ j <= m /\ m \in 1..(n + 1)
      BY <2>1, <2>3, <2>4, <3>1
    <3> HIDE DEF m
    <3>3. m = j
      BY <3>2
    <3> QED
      BY <3>3 DEF m
  <2> QED
    BY <1>4, <2>1, <2>2, <2>4, <2>5 DEF cs
<1>12. CASE ~ps.first
  <2> DEFINE D(j, p) == Between(ps, cs[j], p)
             T(p) == {j \in 2..Len(cs) : \A k \in 2..Len(cs) : D(j, p) <= D(k, p)}
             nested(p) == \A j \in 2..Len(cs) : D(1, p) < D(j, p)
  <2>1. \A p : Owner(ps, cs, s, p) = IF nested(p) THEN 1 ELSE Min(T(p))
    BY <1>12 DEF Owner, AssignToNearest
  <2>2. \A j \in 1..(n + 1), p \in Point : D(j, p) \in Nat
    BY <1>5, BetweenType
  <2>3. \A p \in Point : ~nested(p) => T(p) \in SUBSET Nat /\ T(p) # {}
    <3> SUFFICES ASSUME NEW p \in Point, ~nested(p) PROVE T(p) # {}
      OBVIOUS
    <3> DEFINE V == {D(j, p) : j \in 2..Len(cs)}
    <3>1. V \in SUBSET Nat /\ V # {}
      <4>0. Len(cs) = n + 1
        BY <1>4
      <4>1. \A j \in 2..Len(cs) : j \in 1..(n + 1) /\ D(j, p) \in Nat
        <5> TAKE j \in 2..Len(cs)
        <5>1. j \in 1..(n + 1)
          BY <4>0
        <5> HIDE DEF D
        <5> QED
          BY <2>2, <5>1
      <4>2. PICK j \in 2..Len(cs) : TRUE
        OBVIOUS
      <4> HIDE DEF D
      <4>3. D(j, p) \in V
        OBVIOUS
      <4> QED
        BY <4>1, <4>3
    <3>2. PICK v \in V : \A w \in V : v <= w
      <4> HIDE DEF V
      <4> QED
        BY <3>1, LeastNatural
    <3>3. PICK i \in 2..Len(cs) : v = D(i, p)
      OBVIOUS
    <3>4. \A k \in 2..Len(cs) : D(k, p) \in V
      OBVIOUS
    <3>5. i \in T(p)
      BY <3>2, <3>3, <3>4
    <3> QED
      BY <3>5
  <2>4. \A j \in 2..(n + 1) : ~nested(cs[j]) /\ j \in T(cs[j]) /\ \A k \in T(cs[j]) : k = j
    <3> TAKE j \in 2..(n + 1)
    <3>1. D(j, cs[j]) = 0 /\ cs[j] \in Point /\ Len(cs) = n + 1
      BY <1>4, <1>5, <1>8
    <3>2. \A k \in 1..(n + 1) : D(k, cs[j]) \in Nat
      BY <2>2, <3>1
    <3>3. ~nested(cs[j])
      BY <3>1, <3>2
    <3>4. j \in T(cs[j])
      BY <3>1, <3>2
    <3>5. ASSUME NEW k \in T(cs[j]) PROVE k = j
      <4>1. k \in 2..(n + 1) /\ D(k, cs[j]) = 0
        BY <3>1, <3>2, <3>5
      <4>2. Within(D(k, cs[j]), s)
        BY <1>10, <3>1, <4>1
      <4>3. Within(Between(ps, cs[j], cs[k]), s)
        BY <1>5, <1>8, <4>1, <4>2
      <4> QED
        BY <1>7, <4>1, <4>2, <4>3
    <3> QED
      BY <3>3, <3>4, <3>5
  <2>5. \A p : T(p) \subseteq 1..(n + 1)
    BY <1>4
  <2> HIDE DEF T, nested
  <2>6. \A p \in Point : ~nested(p) => Min(T(p)) \in T(p)
    BY <2>3, MinOfNaturals
  <2>7. \A p \in b.covered : Owner(ps, cs, s, p) \in 1..Len(cs)
    BY <1>4, <2>1, <2>5, <2>6 DEF Builder
  <2>8. \A j \in 2..(n + 1) : Owner(ps, cs, s, cs[j]) = j
    BY <1>5, <2>1, <2>4, <2>6
  <2> QED
    BY <1>4, <2>7, <2>8 DEF cs
<1> QED
  BY <1>11, <1>12 DEF cs

(* The children that a node might have share out its points. *)
Shared(ps, b, cs, s) ==
  LET C(j) == PointsOf(ChildOf(ps, b, cs, s, j))
  IN /\ \A j \in 1..Len(cs) : /\ ChildOf(ps, b, cs, s, j) \in Builder
                              /\ cs[j] \notin Part(ps, b, cs, s, j)
                              /\ cs[j] \in C(j) /\ C(j) \subseteq PointsOf(b)
     /\ \A j, k \in 1..Len(cs) : j # k => C(j) \cap C(k) = {}
     /\ \A p \in PointsOf(b) : \E j \in 1..Len(cs) : p \in C(j)

LEMMA PartsPartition ==
  ASSUME NEW ps \in Settings, NEW b \in Builder, b.center \notin b.covered, NEW s \in Int,
         NEW centers \in PickCenters(ps, b, s)
  PROVE  Shared(ps, b, <<b.center>> \o centers, s)
<1> DEFINE cs == <<b.center>> \o centers
           C(j) == PointsOf(ChildOf(ps, b, cs, s, j))
<1>1. PICK n \in Nat : centers \in [1..n -> b.covered]
  BY PickedCenters
<1>2. /\ cs \in Seq(Point) /\ Len(cs) = n + 1 /\ cs[1] = b.center
      /\ \A j \in 2..(n + 1) : j - 1 \in 1..n /\ cs[j] = centers[j - 1] /\ cs[j] \in b.covered
  BY <1>1, CentersType
<1>3. /\ \A p \in b.covered : Owner(ps, cs, s, p) \in 1..Len(cs)
      /\ \A j \in 2..Len(cs) : Owner(ps, cs, s, cs[j]) = j
  BY OwnersExist
<1> HIDE DEF cs
<1>4. \A j : Part(ps, b, cs, s, j) = {p \in b.covered : p # cs[j] /\ Owner(ps, cs, s, p) = j}
  BY DEF Part, Owner
<1>5. \A j \in 1..(n + 1) : j = 1 \/ j \in 2..(n + 1)
  OBVIOUS
<1>6. \A j \in 1..(n + 1) : cs[j] \in PointsOf(b) /\ (j # 1 => cs[j] \in b.covered)
  BY <1>2, <1>5 DEF PointsOf
<1>7. \A j : C(j) = Part(ps, b, cs, s, j) \cup {cs[j]}
  BY DEF PointsOf, ChildOf
<1>8. ASSUME NEW j \in 1..(n + 1)
      PROVE  C(j) = {p \in PointsOf(b) : (p = b.center /\ j = 1)
                                            \/ (p \in b.covered /\ Owner(ps, cs, s, p) = j)}
  <2>1. CASE j = 1
    BY <1>2, <1>4, <1>7, <2>1 DEF PointsOf
  <2>2. CASE j \in 2..(n + 1)
    <3>1. cs[j] \in b.covered /\ Owner(ps, cs, s, cs[j]) = j /\ j # 1
      BY <1>2, <1>3, <2>2
    <3> QED
      BY <1>4, <1>7, <3>1 DEF PointsOf
  <2> QED
    BY <1>5, <2>1, <2>2
<1>9. \A j \in 1..(n + 1) : ChildOf(ps, b, cs, s, j) \in Builder
  BY <1>4, <1>6 DEF ChildOf, Builder, AddressOf, Address, PointsOf
<1>10. \A j, k \in 1..(n + 1) : j # k => C(j) \cap C(k) = {}
  <2> SUFFICES ASSUME NEW j \in 1..(n + 1), NEW k \in 1..(n + 1), NEW p \in C(j), p \in C(k)
               PROVE  j = k
    OBVIOUS
  <2> HIDE DEF C
  <2> QED
    BY <1>8
<1>11. ASSUME NEW p \in PointsOf(b) PROVE \E j \in 1..(n + 1) : p \in C(j)
  <2>1. CASE p = b.center
    BY <1>2, <1>7, <2>1
  <2>2. CASE p \in b.covered
    BY <1>2, <1>3, <1>8, <2>2
  <2> QED
    BY <2>1, <2>2 DEF PointsOf
<1>12. \A j \in 1..(n + 1) : cs[j] \in C(j) /\ C(j) \subseteq PointsOf(b) /\ cs[j] \notin Part(ps, b, cs, s, j)
  BY <1>4, <1>7, <1>8
<1>13. Shared(ps, b, cs, s)
  BY <1>2, <1>9, <1>10, <1>11, <1>12 DEF Shared
<1> QED
  BY <1>13 DEF cs

-----------------------------------------------------------------------------
(* Where the points are.                                                   *)

PointsOfKids(t) == UNION {PointsOf(t.kids[j]) : j \in DOMAIN t.kids}
PointsToSend(t) == IF t.sent THEN {} ELSE Finals(t.addr, t.node)
PointsOfTask(t) == PointsOfKids(t) \cup PointsToSend(t)

PointsOfAll(bs) == UNION {PointsOf(b) : b \in bs}
PointsOfTasks(ts) == UNION {PointsOfTask(t) : t \in ts}
FinalsOf(m) == IF m = SplitError THEN {} ELSE Finals(m.addr, m.node)
PointsSent(ch) == UNION {FinalsOf(ch[i]) : i \in DOMAIN ch}
PointsFinal == {p \in Point : final[p] # None}

GoodBuilder(b) == b \in Builder /\ b.center \notin b.covered /\ b.scale \in Layers

KidsApart(t) ==
  /\ \A j, k \in DOMAIN t.kids : j # k => PointsOf(t.kids[j]) \cap PointsOf(t.kids[k]) = {}
  /\ PointsOfKids(t) \cap PointsToSend(t) = {}

(* A task has points until it is done, and has counted its children before *)
(* it sends its node.                                                      *)
GoodTask(t) ==
  /\ t \in Task
  /\ t.addr[1] \in Layers
  /\ \A j \in DOMAIN t.kids : GoodBuilder(t.kids[j])
  /\ KidsApart(t)
  /\ PointsOfTask(t) # {}
  /\ t.uncounted <= Len(t.kids) + (IF t.overcounted THEN 1 ELSE 0)
  /\ t.overcounted => t.kids = <<>>
  /\ t.sent => t.uncounted = 0 /\ ~t.overcounted

(* What splitting b makes: a task that holds the points of b. *)
Divides(b, t) == GoodTask(t) /\ PointsOfTask(t) = PointsOf(b) /\ ~t.sent /\ Unfinished(t) = 1

LEMMA RootType ==
  ASSUME NEW ps \in Settings
  PROVE  /\ Root(ps) \in Builder /\ Root(ps).center \notin Root(ps).covered
         /\ PointsOf(Root(ps)) = Point
<1> DEFINE b == [parent |-> None, scale |-> 0, center |-> LastIndex, covered |-> Point \ {LastIndex}]
<1>1. b.center \in Point /\ b.covered \in SUBSET Point
  BY SettingsAssumption
<1>2. CeilLog(MaxDistance(ps, b)) \in Int
  <2> HIDE DEF b
  <2> QED
    BY <1>1, MaxDistanceType, CeilLogType
<1>3. Root(ps) = [parent |-> None, scale |-> CeilLog(MaxDistance(ps, b)), center |-> LastIndex,
                  covered |-> Point \ {LastIndex}]
  BY DEF Root
<1> HIDE DEF b
<1> QED
  BY <1>2, <1>3, SettingsAssumption DEF Builder, PointsOf

LEMMA FineTaskDivides ==
  ASSUME parameters \in Settings, NEW b, GoodBuilder(b)
  PROVE  Divides(b, FineTask(parameters, b))
<1> DEFINE t == FineTask(parameters, b)
<1>1. b \in Builder /\ b.center \in Point /\ b.covered \in SUBSET Point /\ b.scale \in Int
  BY DEF GoodBuilder, Builder
<1>2. MaxDistance(parameters, b) \in Nat \cup {-1}
  BY <1>1, MaxDistanceType DEF NoRadius
<1>3. CoveredLen(b) \in Nat
  BY <1>1, PointAssumption, FS_Subset, FS_CardinalityType DEF CoveredLen
<1>4. t.node \in Node
  BY <1>1, <1>2, <1>3 DEF FineTask, Node, Builder
<1>5. t \in Task
  BY <1>1, <1>4 DEF FineTask, Task, AddressOf, Address
<1>6. t.kids = <<>> /\ DOMAIN t.kids = {} /\ Len(t.kids) = 0 /\ t.uncounted = 0 /\ ~t.overcounted /\ ~t.sent
  BY DEF FineTask
<1>7. t.addr[1] \in Layers
  BY DEF FineTask, AddressOf, GoodBuilder
<1>8. PointsOfKids(t) = {}
  BY <1>6 DEF PointsOfKids
<1>9. PointsToSend(t) = PointsOf(b)
  BY <1>6 DEF PointsToSend, FineTask, Finals, IsLeaf, Center, AddressOf, PointsOf
<1>10. b.center \in PointsOf(b)
  BY DEF PointsOf
<1> HIDE DEF t
<1>11. Divides(b, t)
  BY <1>5, <1>6, <1>7, <1>8, <1>9, <1>10 DEF Divides, GoodTask, KidsApart, PointsOfTask, Unfinished
<1> QED
  BY <1>11 DEF t

(* A sequence that has every element of I once. *)
Lists(r, I) ==
  /\ \A k \in 1..Len(r) : r[k] \in I
  /\ \A y \in I : \E k \in 1..Len(r) : r[k] = y
  /\ \A j, k \in 1..Len(r) : j # k => r[j] # r[k]

LEMMA AppendLists ==
  ASSUME NEW S, NEW r \in Seq(S), NEW I, Lists(r, I), NEW y \in S, y \notin I
  PROVE  Lists(Append(r, y), I \cup {y})
<1> DEFINE q == Append(r, y)
<1>1. /\ Len(q) = Len(r) + 1 /\ Len(r) \in Nat /\ q[Len(r) + 1] = y
      /\ \A k \in 1..Len(r) : q[k] = r[k]
  OBVIOUS
<1>2. /\ \A k \in 1..Len(q) : k \in 1..Len(r) \/ k = Len(r) + 1
      /\ \A k \in 1..Len(r) : k \in 1..Len(q)
      /\ Len(r) + 1 \in 1..Len(q)
  BY <1>1
<1> HIDE DEF q
<1>3. ASSUME NEW j \in 1..Len(q), NEW k \in 1..Len(q), j # k PROVE q[j] # q[k]
  BY <1>1, <1>2, <1>3 DEF Lists
<1>4. \A k \in 1..Len(q) : q[k] \in I \cup {y}
  BY <1>1, <1>2 DEF Lists
<1>5. \A z \in I \cup {y} : \E k \in 1..Len(q) : q[k] = z
  BY <1>1, <1>2 DEF Lists
<1>6. Lists(q, I \cup {y})
  BY <1>3, <1>4, <1>5 DEF Lists
<1> QED
  BY <1>6 DEF q

LEMMA PrependLists ==
  ASSUME NEW S, NEW r \in Seq(S), NEW I, Lists(r, I), NEW y \in S, y \notin I
  PROVE  Lists(<<y>> \o r, I \cup {y})
<1> DEFINE q == <<y>> \o r
<1>1. /\ Len(q) = Len(r) + 1 /\ Len(r) \in Nat /\ q[1] = y
      /\ \A k \in 2..(Len(r) + 1) : q[k] = r[k - 1]
  OBVIOUS
<1>2. /\ \A k \in 1..Len(q) : k = 1 \/ (k \in 2..(Len(r) + 1) /\ k - 1 \in 1..Len(r))
      /\ \A k \in 1..Len(r) : k + 1 \in 1..Len(q) /\ k + 1 \in 2..(Len(r) + 1) /\ (k + 1) - 1 = k
      /\ 1 \in 1..Len(q)
  BY <1>1
<1> HIDE DEF q
<1>3. ASSUME NEW j \in 1..Len(q), NEW k \in 1..Len(q), j # k PROVE q[j] # q[k]
  <2>1. CASE j # 1 /\ k # 1
    <3>1. j - 1 \in 1..Len(r) /\ k - 1 \in 1..Len(r) /\ j - 1 # k - 1
      BY <1>2, <1>3, <2>1
    <3>2. q[j] = r[j - 1] /\ q[k] = r[k - 1]
      BY <1>1, <1>2, <2>1
    <3> QED
      BY <3>1, <3>2 DEF Lists
  <2>2. CASE j = 1
    BY <1>1, <1>2, <1>3, <2>2 DEF Lists
  <2>3. CASE k = 1
    BY <1>1, <1>2, <1>3, <2>3 DEF Lists
  <2> QED
    BY <2>1, <2>2, <2>3
<1>4. \A k \in 1..Len(q) : q[k] \in I \cup {y}
  BY <1>1, <1>2 DEF Lists
<1>5. \A z \in I \cup {y} : \E k \in 1..Len(q) : q[k] = z
  <2> TAKE z \in I \cup {y}
  <2>1. CASE z = y
    BY <1>1, <1>2, <2>1
  <2>2. CASE z \in I
    <3>1. PICK k \in 1..Len(r) : r[k] = z
      BY <2>2 DEF Lists
    <3> QED
      BY <1>1, <1>2, <3>1
  <2> QED
    BY <2>1, <2>2
<1>6. Lists(q, I \cup {y})
  BY <1>3, <1>4, <1>5 DEF Lists
<1> QED
  BY <1>6 DEF q

(* What a division is made of: the indexes of the centers that end up      *)
(* alone and of those that do not, the node, and either no child or the    *)
(* nested one and the others, to be spawned in some order.                 *)
IsAlone(ps, b, cs, s, j) == ps.singletons /\ Part(ps, b, cs, s, j) = {}
Alone(ps, b, cs, s) == {j \in 2..Len(cs) : IsAlone(ps, b, cs, s, j)}
Rest(ps, b, cs, s) == (2..Len(cs)) \ Alone(ps, b, cs, s)

Increasing(r) == \A j, k \in 1..Len(r) : j < k => r[j] < r[k]

LeafMade(ps, b, cs, s, t) ==
  /\ Rest(ps, b, cs, s) = {} /\ Part(ps, b, cs, s, 1) = {}
  /\ t.kids = <<>> /\ t.node.children = <<>>
  /\ t.uncounted = (IF t.overcounted THEN 1 ELSE 0)
  /\ t.node.count = Cardinality(Alone(ps, b, cs, s)) + 1

BranchMade(ps, b, cs, s, t, kept, order) ==
  /\ order \in Seq(Nat) /\ Lists(order, Rest(ps, b, cs, s) \cup {1})
  /\ Len(t.kids) = Len(order)
  /\ \A k \in 1..Len(order) : t.kids[k] = ChildOf(ps, b, cs, s, order[k])
  /\ t.uncounted = Len(t.kids) /\ ~t.overcounted
  /\ kept \in Seq(Nat) /\ Lists(kept, Rest(ps, b, cs, s)) /\ Increasing(kept)
  /\ Len(t.node.children) = Len(kept) + 1
  /\ t.node.children[1] = AddressOf(ChildOf(ps, b, cs, s, 1))
  /\ \A i \in 1..Len(kept) : t.node.children[i + 1] = AddressOf(ChildOf(ps, b, cs, s, kept[i]))
  /\ t.node.count =
       Cardinality(Alone(ps, b, cs, s))
         + SumFunctionOnSet([k \in DOMAIN t.kids |-> CoveredLen(t.kids[k])], DOMAIN t.kids)

DivisionMade(ps, b, cs, s, t) ==
  /\ t \in Task /\ ~t.sent
  /\ t.addr = AddressOf(b) /\ t.node.parent = b.parent
  /\ t.node.singletons = {cs[j] : j \in Alone(ps, b, cs, s)}
  /\ \/ LeafMade(ps, b, cs, s, t)
     \/ \E kept, order : BranchMade(ps, b, cs, s, t, kept, order)

LEMMA DividedTaskMade ==
  ASSUME parameters \in Settings, NEW b, GoodBuilder(b), ~IsFine(parameters, b),
         NEW centers \in PickCenters(parameters, b, NextScale(parameters, b))
  PROVE  DivisionMade(parameters, b, <<b.center>> \o centers, NextScale(parameters, b),
                      DividedTask(parameters, b, centers))
<1> DEFINE ps == parameters
           s == NextScale(ps, b)
           cs == <<b.center>> \o centers
           child(j) == ChildOf(ps, b, cs, s, j)
           C(j) == PointsOf(child(j))
           nested == child(1)
           alone == {j \in 2..Len(cs) : ps.singletons /\ child(j).covered = {}}
           later == [j \in 1..Len(centers) |-> j + 1]
           kept == AllBut(later, alone)
           inserts == [j \in DOMAIN kept |-> child(kept[j])]
           keep == NestedIsKept(ps, nested, inserts)
           new == IF ~keep THEN inserts
                  ELSE IF ps.first THEN <<nested>> \o inserts ELSE Append(inserts, nested)
           order == IF ~keep THEN kept ELSE IF ps.first THEN <<1>> \o kept ELSE Append(kept, 1)
           node == [parent |-> b.parent, radius |-> MaxDistance(ps, b),
                    count |-> CoverageCount(new, alone), children |-> Children(new, nested, inserts),
                    singletons |-> {cs[j] : j \in alone}]
           t == [addr |-> AddressOf(b), kids |-> IF Undone(new) THEN <<>> ELSE new,
                 uncounted |-> Uncounted(new), overcounted |-> Overcounted(new), sent |-> FALSE,
                 node |-> node]
<1>1. DividedTask(parameters, b, centers) = t
  BY DEF DividedTask
<1>2. b \in Builder /\ b.center \in Point /\ b.covered \in SUBSET Point /\ b.scale \in Layers
        /\ b.center \notin b.covered /\ b.scale \in Int
  BY DEF GoodBuilder, Builder
<1>3. s \in Layers /\ s \in Int
  <2>1. Root(ps).scale \in Int /\ ps.minRes \in Int
    BY RootType, SettingsAssumption DEF Builder, Parameters
  <2>2. ps.minRes - 1 <= s /\ s < b.scale /\ s \in Int
    BY <1>2, NextScaleFits
  <2> HIDE DEF s
  <2> QED
    BY <1>2, <2>1, <2>2 DEF Layers
<1>4. PICK n \in Nat : centers \in [1..n -> b.covered]
  BY <1>2, PickedCenters
<1>5. /\ cs \in Seq(Point) /\ Len(cs) = n + 1 /\ Len(centers) = n /\ cs[1] = b.center
      /\ \A j \in 2..(n + 1) : cs[j] \in Point
  BY <1>2, <1>4, CentersType
<1> DEFINE J == 1..(n + 1)
<1>6. /\ \A j \in J : child(j) \in Builder /\ cs[j] \notin child(j).covered
                      /\ child(j).center = cs[j] /\ child(j).scale = s
                      /\ cs[j] \in C(j) /\ C(j) \subseteq PointsOf(b)
      /\ \A j, k \in J : j # k => C(j) \cap C(k) = {}
      /\ \A p \in PointsOf(b) : \E j \in J : p \in C(j)
  <2>1. \A j : child(j).covered = Part(ps, b, cs, s, j) /\ child(j).center = cs[j] /\ child(j).scale = s
    BY DEF ChildOf
  <2>2. Shared(ps, b, cs, s)
    BY <1>2, <1>3, PartsPartition
  <2> HIDE DEF s, cs, ps
  <2> QED
    BY <1>5, <2>1, <2>2 DEF Shared
<1> HIDE DEF s, cs, child
<1>7. \A j \in alone : j \in J /\ j # 1 /\ C(j) = {cs[j]}
  BY <1>5, <1>6 DEF PointsOf
<1>8. /\ later \in Seq(2..(n + 1)) /\ Len(later) = n
      /\ \A i \in 1..n : later[i] = i + 1
  BY <1>5
<1>9. kept \in Seq(2..(n + 1)) /\ Selected(later, alone, n, kept)
  <2>1. \A i, j \in 1..Len(later) : i # j => later[i] # later[j]
    BY <1>8
  <2> HIDE DEF later, alone
  <2> QED
    BY <1>8, <2>1, AllButSelects
<1> DEFINE rest == (2..(n + 1)) \ alone
<1>10. Lists(kept, rest)
  <2>1. \A y : (\E i \in 1..n : later[i] = y) <=> y \in 2..(n + 1)
    <3>1. \A y \in 2..(n + 1) : y - 1 \in 1..n /\ later[y - 1] = y
      BY <1>8
    <3>2. \A i \in 1..n : later[i] \in 2..(n + 1)
      BY <1>8
    <3> HIDE DEF later
    <3> QED
      BY <3>1, <3>2
  <2> HIDE DEF later, alone, kept
  <2> QED
    BY <1>9, <2>1 DEF Selected, Lists
<1> HIDE DEF later, kept, alone
<1>11. /\ inserts \in Seq(Builder) /\ Len(inserts) = Len(kept) /\ DOMAIN inserts = 1..Len(kept)
       /\ Len(kept) \in Nat
       /\ \A k \in 1..Len(kept) : kept[k] \in J /\ kept[k] # 1 /\ inserts[k] = child(kept[k])
  <2>1. Len(kept) \in Nat /\ \A k \in 1..Len(kept) : kept[k] \in 2..(n + 1) /\ kept[k] \in J /\ kept[k] # 1
    BY <1>9
  <2>2. DOMAIN kept = 1..Len(kept)
    BY <1>9
  <2>3. \A k \in 1..Len(kept) : child(kept[k]) \in Builder
    BY <1>6, <2>1
  <2>4. inserts \in [1..Len(kept) -> Builder]
    BY <2>2, <2>3
  <2>5. inserts \in Seq(Builder) /\ Len(inserts) = Len(kept)
    BY <2>1, <2>4
  <2> QED
    BY <2>1, <2>2, <2>5
<1>12. nested \in Builder /\ 1 \in J /\ nested = child(1)
  BY <1>6
<1> HIDE DEF inserts, nested
(* The new nodes are the children with the indexes in order. *)
<1>13. /\ new \in Seq(Builder) /\ Len(new) = Len(order) /\ Len(order) \in Nat
       /\ \A k \in 1..Len(order) : order[k] \in J /\ new[k] = child(order[k])
  <2>1. CASE ~keep
    <3>1. new = inserts /\ order = kept
      BY <2>1
    <3> HIDE DEF new, order, keep
    <3> QED
      BY <1>11, <3>1
  <2>2. CASE keep /\ ps.first
    <3>1. new = <<nested>> \o inserts /\ order = <<1>> \o kept
      BY <2>2
    <3>2. /\ <<nested>> \o inserts \in Seq(Builder) /\ Len(<<nested>> \o inserts) = Len(kept) + 1
          /\ (<<nested>> \o inserts)[1] = nested
          /\ \A k \in 2..(Len(kept) + 1) : (<<nested>> \o inserts)[k] = inserts[k - 1]
      BY <1>11, <1>12
    <3>3. /\ Len(<<1>> \o kept) = Len(kept) + 1 /\ (<<1>> \o kept)[1] = 1
          /\ \A k \in 2..(Len(kept) + 1) : (<<1>> \o kept)[k] = kept[k - 1]
      BY <1>9
    <3>4. \A k \in 1..(Len(kept) + 1) : k = 1 \/ (k \in 2..(Len(kept) + 1) /\ k - 1 \in 1..Len(kept))
      BY <1>11
    <3>5. /\ new \in Seq(Builder) /\ Len(new) = Len(kept) + 1 /\ Len(order) = Len(kept) + 1
          /\ new[1] = nested /\ order[1] = 1
          /\ \A k \in 2..(Len(kept) + 1) : new[k] = inserts[k - 1] /\ order[k] = kept[k - 1]
      <4> HIDE DEF new, order, keep
      <4> QED
        BY <3>1, <3>2, <3>3
    <3> HIDE DEF new, order, keep
    <3>6. \A k \in 1..(Len(kept) + 1) : order[k] \in J /\ new[k] = child(order[k])
      BY <1>11, <1>12, <3>4, <3>5
    <3> QED
      BY <1>11, <3>5, <3>6
  <2>3. CASE keep /\ ~ps.first
    <3>1. new = Append(inserts, nested) /\ order = Append(kept, 1)
      BY <2>3
    <3>2. /\ Append(inserts, nested) \in Seq(Builder) /\ Len(Append(inserts, nested)) = Len(kept) + 1
          /\ Append(inserts, nested)[Len(kept) + 1] = nested
          /\ \A k \in 1..Len(kept) : Append(inserts, nested)[k] = inserts[k]
      BY <1>11, <1>12
    <3>3. /\ Len(Append(kept, 1)) = Len(kept) + 1 /\ Append(kept, 1)[Len(kept) + 1] = 1
          /\ \A k \in 1..Len(kept) : Append(kept, 1)[k] = kept[k]
      BY <1>9
    <3>4. \A k \in 1..(Len(kept) + 1) : k = Len(kept) + 1 \/ k \in 1..Len(kept)
      BY <1>11
    <3> HIDE DEF new, order, keep
    <3> QED
      BY <1>11, <1>12, <3>1, <3>2, <3>3, <3>4
  <2> QED
    BY <2>1, <2>2, <2>3
<1>14. Lists(order, IF keep THEN rest \cup {1} ELSE rest)
  <2>1. 1 \notin rest /\ 1 \in Nat /\ kept \in Seq(Nat)
    BY <1>9
  <2> HIDE DEF rest, keep
  <2>2. CASE ~keep
    BY <1>10, <2>2
  <2>3. CASE keep /\ ps.first
    BY <1>10, <2>1, <2>3, PrependLists
  <2>4. CASE keep /\ ~ps.first
    BY <1>10, <2>1, <2>4, AppendLists
  <2> QED
    BY <2>2, <2>3, <2>4
<1>15. keep = (ps.first \/ inserts # <<>> \/ ~(nested.covered = {} /\ ps.singletons))
  BY DEF NestedIsKept
<1>16. ~keep => new = <<>> /\ nested.covered = {}
  BY <1>15
<1>17. alone \subseteq J /\ alone \in SUBSET Nat /\ {cs[j] : j \in alone} \in SUBSET Point
  BY <1>5 DEF alone
<1>18. t.node \in Node
  <2>1. CoverageCount(new, alone) \in Nat
    <3> DEFINE f == [j \in DOMAIN new |-> CoveredLen(new[j])]
    <3>1. IsFiniteSet(alone) /\ Cardinality(alone) \in Nat
      <4>1. IsFiniteSet(J)
        BY FS_Interval
      <4>2. alone \in SUBSET J
        BY <1>17
      <4> HIDE DEF J
      <4> QED
        BY <4>1, <4>2, FS_Subset, FS_CardinalityType
    <3>2. DOMAIN new = 1..Len(order) /\ \A j \in DOMAIN new : new[j] \in Builder
      <4> HIDE DEF new, order
      <4> QED
        BY <1>13
    <3>3. \A j \in DOMAIN new : f[j] \in Nat
      <4> HIDE DEF new
      <4> QED
        BY <3>2, PointAssumption, FS_Subset, FS_CardinalityType DEF CoveredLen, Builder
    <3>4. IsFiniteSet(DOMAIN new)
      <4> HIDE DEF new, order
      <4> QED
        BY <1>13, <3>2, FS_Interval
    <3> DEFINE D == DOMAIN new
    <3>5. SumFunction(f) = SumFunctionOnSet(f, D)
      BY DEF SumFunction
    <3>6. CoverageCount(new, alone) = Cardinality(alone) + (IF new = <<>> THEN 1 ELSE SumFunction(f))
      BY DEF CoverageCount
    <3>7. SumFunctionOnSet(f, D) \in Nat
      <4> HIDE DEF f
      <4>1. \A j \in D : f[j] \in Nat
        BY <3>3
      <4>2. IsFiniteSet(D)
        BY <3>4
      <4> HIDE DEF D
      <4> QED
        BY <4>1, <4>2, SumOfNaturals
    <3> HIDE DEF f, D, new
    <3> QED
      BY <3>1, <3>5, <3>6, <3>7
  <2>2. Children(new, nested, inserts) \in Seq(Address)
    <3> DEFINE tails == [j \in DOMAIN inserts |-> AddressOf(inserts[j])]
    <3>1. \A c \in Builder : AddressOf(c) \in Address
      BY DEF AddressOf, Address, Builder
    <3>2. tails \in Seq(Address)
      BY <1>11, <3>1
    <3>3. <<AddressOf(nested)>> \in Seq(Address)
      BY <1>12, <3>1
    <3>4. Children(new, nested, inserts) = IF new = <<>> \/ Undone(new) THEN <<>> ELSE <<AddressOf(nested)>> \o tails
      BY DEF Children
    <3> HIDE DEF tails, new
    <3> QED
      BY <3>2, <3>3, <3>4
  <2>3. MaxDistance(ps, b) \in Nat \cup {-1}
    BY <1>2, MaxDistanceType DEF NoRadius
  <2>4. b.parent \in Address \cup {None}
    BY <1>2 DEF Builder
  <2> HIDE DEF new, ps
  <2> QED
    BY <1>17, <2>1, <2>2, <2>3, <2>4 DEF Node
<1>19. Len(new) = 0 <=> new = <<>>
  <2> HIDE DEF new, order
  <2> QED
    BY <1>13
<1>20. Undone(new) <=> Len(new) = 1 /\ new[1].covered = {}
  BY DEF Undone
<1>21. /\ t.addr = AddressOf(b) /\ t.kids = (IF Undone(new) THEN <<>> ELSE new)
       /\ t.uncounted = Len(new) /\ t.overcounted = Undone(new) /\ ~t.sent
       /\ t.node = node
  BY DEF Uncounted, Overcounted
<1>22. t.kids \in Seq(Builder)
  <2> HIDE DEF t, new, order
  <2> QED
    BY <1>13, <1>21
<1>23. t \in Task
  <2>1. AddressOf(b) \in Address
    BY <1>2 DEF AddressOf, Address
  <2>2. Len(new) \in Nat
    <3> HIDE DEF new, order
    <3> QED
      BY <1>13
  <2>3. t = [addr |-> t.addr, node |-> t.node, kids |-> t.kids, uncounted |-> t.uncounted,
             overcounted |-> t.overcounted, sent |-> t.sent]
    OBVIOUS
  <2>4. Undone(new) \in BOOLEAN
    BY DEF Undone
  <2>5. t.overcounted \in BOOLEAN /\ t.sent \in BOOLEAN
    <3>1. t.overcounted = Undone(new) /\ t.sent = FALSE
      BY DEF Overcounted
    <3> HIDE DEF t, new
    <3> QED
      BY <2>4, <3>1
  <2> HIDE DEF t, new, node
  <2> QED
    BY <1>18, <1>21, <1>22, <2>1, <2>2, <2>3, <2>5 DEF Task
<1>24. alone = Alone(ps, b, cs, s) /\ rest = Rest(ps, b, cs, s)
  <2>1. \A j : child(j).covered = Part(ps, b, cs, s, j)
    BY DEF child, ChildOf
  <2>2. alone = Alone(ps, b, cs, s)
    BY <2>1 DEF alone, Alone, IsAlone
  <2> QED
    BY <1>5, <2>2 DEF Rest
<1>25. order \in Seq(Nat) /\ kept \in Seq(Nat) /\ Increasing(kept)
  <2>1. kept \in Seq(Nat) /\ <<1>> \o kept \in Seq(Nat) /\ Append(kept, 1) \in Seq(Nat)
    BY <1>9
  <2>2. order \in Seq(Nat)
    <3> HIDE DEF keep
    <3> QED
      BY <2>1
  <2>3. \A j, k \in 1..Len(kept) : j < k => kept[j] < kept[k]
    <3> SUFFICES ASSUME NEW j \in 1..Len(kept), NEW k \in 1..Len(kept), j < k PROVE kept[j] < kept[k]
      OBVIOUS
    <3>1. PICK i \in 1..n, l \in 1..n : i < l /\ kept[j] = later[i] /\ kept[k] = later[l]
      BY <1>9 DEF Selected
    <3> QED
      BY <1>8, <3>1
  <2> QED
    BY <2>1, <2>2, <2>3 DEF Increasing
<1>26. /\ node.parent = b.parent /\ node.singletons = {cs[j] : j \in alone}
       /\ node.children = Children(new, nested, inserts) /\ node.count = CoverageCount(new, alone)
  OBVIOUS
<1> DEFINE tails == [j \in DOMAIN inserts |-> AddressOf(inserts[j])]
           f == [j \in DOMAIN new |-> CoveredLen(new[j])]
           made == t
<1>27. /\ new = <<>> \/ Undone(new) => node.children = <<>>
       /\ ~(new = <<>> \/ Undone(new)) => node.children = <<AddressOf(nested)>> \o tails
  BY <1>26 DEF Children
<1>28. node.count = Cardinality(alone) + (IF new = <<>> THEN 1 ELSE SumFunctionOnSet(f, DOMAIN new))
  BY <1>26 DEF CoverageCount, SumFunction
<1> HIDE DEF node, new, order, keep, rest
<1>29. /\ DOMAIN new = 1..Len(order)
  BY <1>13
<1>30. /\ made \in Task /\ ~made.sent /\ made.addr = AddressOf(b) /\ made.node.parent = b.parent
       /\ made.node.singletons = {cs[j] : j \in Alone(ps, b, cs, s)}
  BY <1>21, <1>23, <1>24, <1>26
<1>31. \A j : child(j) = ChildOf(ps, b, cs, s, j)
  BY DEF child
<1>32. made.node = node /\ made.kids = (IF Undone(new) THEN <<>> ELSE new)
        /\ made.uncounted = Len(new) /\ made.overcounted = Undone(new)
  BY <1>21
<1> HIDE DEF made
(* Either all the other points are singletons and the node is a leaf ... *)
<1>33. CASE new = <<>> \/ Undone(new)
  <2>1. rest = {} /\ nested.covered = {}
    <3>1. CASE new = <<>>
      <4>1. Len(order) = 0 /\ 1..Len(order) = {}
        BY <1>13, <1>19, <3>1
      <4>2. ~keep /\ rest = {}
        BY <1>14, <4>1 DEF Lists
      <4> QED
        BY <1>16, <4>2
    <3>2. CASE Undone(new)
      <4>1. Len(order) = 1 /\ 1..Len(order) = {1} /\ new # <<>>
        BY <1>13, <1>19, <1>20, <3>2
      <4>2. keep
        BY <1>16, <4>1
      <4>3. \A y \in rest \cup {1} : order[1] = y
        BY <1>14, <4>1, <4>2 DEF Lists
      <4>4. 1 \notin rest
        BY DEF rest
      <4>5. rest = {} /\ order[1] = 1
        BY <4>3, <4>4
      <4>6. new[1] = nested
        BY <1>12, <1>13, <4>1, <4>5
      <4> QED
        BY <1>20, <3>2, <4>5, <4>6
    <3> QED
      BY <1>33, <3>1, <3>2
  <2>2. made.kids = <<>>
    BY <1>32, <1>33
  <2>3. made.uncounted = (IF made.overcounted THEN 1 ELSE 0)
    <3>1. new = <<>> => ~Undone(new) /\ Len(new) = 0
      BY <1>19, <1>20
    <3>2. Undone(new) => Len(new) = 1
      BY <1>20
    <3> QED
      BY <1>32, <1>33, <3>1, <3>2
  <2>4. node.count = Cardinality(alone) + 1
    <3>1. CASE new = <<>>
      BY <1>28, <3>1
    <3>2. CASE new # <<>> /\ Undone(new)
      <4>1. DOMAIN new = {1} /\ CoveredLen(new[1]) = 1
        <5>1. Len(order) = 1 /\ 1..Len(order) = {1} /\ new[1].covered = {}
          BY <1>13, <1>20, <3>2
        <5> QED
          BY <1>29, <5>1, FS_EmptySet DEF CoveredLen
      <4>2. f[1] = 1
        BY <4>1
      <4> HIDE DEF f
      <4> DEFINE one == {1}
      <4>3. IsFiniteSet(one) /\ \A x \in one : f[x] \in Int
        <5>1. IsFiniteSet(one)
          BY FS_Singleton
        <5>2. \A x \in one : x = 1
          OBVIOUS
        <5> HIDE DEF one
        <5> QED
          BY <4>2, <5>1, <5>2
      <4>4. 1 \in one /\ one \ {1} = {}
        OBVIOUS
      <4>5. SumFunctionOnSet(f, one) = 1
        <5> HIDE DEF one
        <5>1. SumFunctionOnSet(f, one) = f[1] + SumFunctionOnSet(f, one \ {1})
          BY <4>3, <4>4, SumWithout
        <5>2. SumFunctionOnSet(f, one \ {1}) = 0
          BY <4>4, SumOfNone
        <5> QED
          BY <4>2, <5>1, <5>2
      <4> QED
        BY <1>28, <3>2, <4>1, <4>5
    <3> QED
      BY <1>33, <3>1, <3>2
  <2>5. Part(ps, b, cs, s, 1) = {}
    BY <1>12, <1>31, <2>1 DEF ChildOf
  <2>6. LeafMade(ps, b, cs, s, made)
    BY <1>24, <1>27, <1>32, <1>33, <2>1, <2>2, <2>3, <2>4, <2>5 DEF LeafMade
  <2>7. DivisionMade(ps, b, cs, s, made)
    BY <1>30, <2>6 DEF DivisionMade
  <2> QED
    BY <1>1, <2>7 DEF made, cs, s
(* ... or the nested child and some others take the points that are not.   *)
<1>34. CASE ~(new = <<>> \/ Undone(new))
  <2>1. keep
    BY <1>16, <1>34
  <2>2. made.kids = new /\ made.uncounted = Len(made.kids) /\ ~made.overcounted
    BY <1>32, <1>34
  <2>3. Lists(order, rest \cup {1})
    BY <1>14, <2>1
  <2>4. Len(made.kids) = Len(order) /\ \A k \in 1..Len(order) : made.kids[k] = ChildOf(ps, b, cs, s, order[k])
    BY <1>13, <1>31, <2>2
  <2>5. /\ Len(node.children) = Len(kept) + 1 /\ node.children[1] = AddressOf(nested)
        /\ \A i \in 1..Len(kept) : node.children[i + 1] = AddressOf(inserts[i])
    <3> DEFINE first == AddressOf(nested)
    <3>1. node.children = <<first>> \o tails
      BY <1>27, <1>34
    <3>2. \A c \in Builder : AddressOf(c) \in Address
      BY DEF AddressOf, Address, Builder
    <3>3. tails \in Seq(Address) /\ Len(tails) = Len(kept) /\ \A i \in 1..Len(kept) : tails[i] = AddressOf(inserts[i])
      BY <1>11, <3>2
    <3>4. first \in Address
      BY <1>12, <3>2
    <3> HIDE DEF first, tails
    <3>5. /\ Len(<<first>> \o tails) = Len(kept) + 1 /\ (<<first>> \o tails)[1] = first
          /\ \A i \in 2..(Len(kept) + 1) : (<<first>> \o tails)[i] = tails[i - 1]
      BY <1>11, <3>3, <3>4
    <3>6. \A i \in 1..Len(kept) : i + 1 \in 2..(Len(kept) + 1) /\ (i + 1) - 1 = i
      BY <1>11
    <3>7. \A i \in 1..Len(kept) : (<<first>> \o tails)[i + 1] = AddressOf(inserts[i])
      <4> TAKE i \in 1..Len(kept)
      <4>1. (<<first>> \o tails)[i + 1] = tails[i]
        BY <3>5, <3>6
      <4> QED
        BY <3>3, <4>1
    <3> QED
      BY <3>1, <3>5, <3>7 DEF first
  <2>6. node.count = Cardinality(alone) + SumFunctionOnSet([k \in DOMAIN made.kids |-> CoveredLen(made.kids[k])], DOMAIN made.kids)
    BY <1>28, <1>34, <2>2
  <2>7. /\ made.node.children[1] = AddressOf(ChildOf(ps, b, cs, s, 1))
        /\ \A i \in 1..Len(kept) : made.node.children[i + 1] = AddressOf(ChildOf(ps, b, cs, s, kept[i]))
    BY <1>11, <1>12, <1>31, <1>32, <2>5
  <2> HIDE DEF f
  <2>8. Lists(kept, rest)
    BY <1>10
  <2>9. BranchMade(ps, b, cs, s, made, kept, order)
    BY <1>24, <1>25, <1>32, <2>2, <2>3, <2>4, <2>5, <2>6, <2>7, <2>8 DEF BranchMade
  <2>10. DivisionMade(ps, b, cs, s, made)
    BY <1>30, <2>9 DEF DivisionMade
  <2> QED
    BY <1>1, <2>10 DEF made, cs, s
<1> QED
  BY <1>33, <1>34

LEMMA DividedTaskDivides ==
  ASSUME parameters \in Settings, NEW b, GoodBuilder(b), ~IsFine(parameters, b),
         NEW centers \in PickCenters(parameters, b, NextScale(parameters, b))
  PROVE  Divides(b, DividedTask(parameters, b, centers))
<1> DEFINE ps == parameters
           s == NextScale(ps, b)
           cs == <<b.center>> \o centers
           C(j) == PointsOf(ChildOf(ps, b, cs, s, j))
           alone == Alone(ps, b, cs, s)
           rest == Rest(ps, b, cs, s)
           t == DividedTask(ps, b, centers)
<1>1. b \in Builder /\ b.center \notin b.covered /\ b.scale \in Layers /\ b.scale \in Int
  BY DEF GoodBuilder, Builder
<1>2. s \in Layers /\ s \in Int
  <2>1. Root(ps).scale \in Int /\ ps.minRes \in Int
    BY RootType, SettingsAssumption DEF Builder, Parameters
  <2>2. ps.minRes - 1 <= s /\ s < b.scale /\ s \in Int
    BY <1>1, NextScaleFits
  <2> HIDE DEF s
  <2> QED
    BY <1>1, <2>1, <2>2 DEF Layers
<1>3. PICK n \in Nat : centers \in [1..n -> b.covered]
  BY <1>1, PickedCenters
<1>4. Len(cs) = n + 1 /\ cs[1] = b.center
  BY <1>1, <1>3, CentersType
<1> DEFINE J == 1..(n + 1)
<1>5. /\ \A j \in J : /\ ChildOf(ps, b, cs, s, j) \in Builder /\ cs[j] \notin Part(ps, b, cs, s, j)
                      /\ cs[j] \in C(j) /\ C(j) \subseteq PointsOf(b)
      /\ \A j, k \in J : j # k => C(j) \cap C(k) = {}
      /\ \A p \in PointsOf(b) : \E j \in J : p \in C(j)
  <2>1. Shared(ps, b, cs, s)
    BY <1>1, <1>2, PartsPartition
  <2> HIDE DEF s, cs
  <2> QED
    BY <1>4, <2>1 DEF Shared
<1>6. DivisionMade(ps, b, cs, s, t)
  BY DividedTaskMade
<1> HIDE DEF s, cs, t
<1>7. \A j : C(j) = Part(ps, b, cs, s, j) \cup {cs[j]}
  BY DEF PointsOf, ChildOf
<1>8. /\ alone \subseteq J /\ rest \subseteq J /\ 1 \notin rest /\ 1 \notin alone /\ 1 \in J
      /\ \A j \in J : j = 1 \/ j \in alone \/ j \in rest
      /\ \A j \in rest : j \notin alone
  BY <1>4 DEF Rest, Alone
<1>9. \A j \in alone : C(j) = {cs[j]}
  BY <1>7 DEF Alone, IsAlone
<1>10. /\ t \in Task /\ ~t.sent /\ t.addr = AddressOf(b)
       /\ t.node.singletons = {cs[j] : j \in alone}
  BY <1>6 DEF DivisionMade
<1>11. t.addr[1] \in Layers
  BY <1>1, <1>10 DEF AddressOf
<1>12. b.center \in PointsOf(b)
  BY DEF PointsOf
<1>13. PointsToSend(t) = {cs[j] : j \in alone} \cup (IF t.node.children = <<>> THEN {b.center} ELSE {})
  BY <1>10 DEF PointsToSend, Finals, IsLeaf, Center, AddressOf
<1> HIDE DEF C, alone, rest
(* Either all the other points are singletons and the node is a leaf ... *)
<1>14. CASE LeafMade(ps, b, cs, s, t)
  <2>1. /\ rest = {} /\ Part(ps, b, cs, s, 1) = {} /\ t.kids = <<>> /\ t.node.children = <<>>
        /\ t.uncounted = (IF t.overcounted THEN 1 ELSE 0)
    BY <1>14 DEF LeafMade, rest
  <2>2. C(1) = {b.center}
    BY <1>4, <1>7, <2>1
  <2>3. PointsToSend(t) = PointsOf(b)
    <3>1. PointsToSend(t) = {cs[j] : j \in alone} \cup {b.center}
      BY <1>13, <2>1
    <3>2. \A j \in alone : cs[j] \in PointsOf(b)
      BY <1>5, <1>8
    <3>3. \A p \in PointsOf(b) : p = b.center \/ \E j \in alone : p = cs[j]
      <4> TAKE p \in PointsOf(b)
      <4>1. PICK j \in J : p \in C(j)
        BY <1>5
      <4> QED
        BY <1>8, <1>9, <2>1, <2>2, <4>1
    <3> QED
      BY <1>12, <3>1, <3>2, <3>3
  <2>4. t.kids = <<>> /\ DOMAIN t.kids = {} /\ Len(t.kids) = 0
    BY <2>1
  <2>5. PointsOfKids(t) = {}
    BY <2>4 DEF PointsOfKids
  <2>6. Divides(b, t)
    BY <1>10, <1>11, <1>12, <2>1, <2>3, <2>4, <2>5
       DEF Divides, GoodTask, KidsApart, PointsOfTask, Unfinished
  <2> QED
    BY <2>6 DEF t
(* ... or the nested child and some others take the points that are not.   *)
<1>15. ASSUME NEW kept, NEW order, BranchMade(ps, b, cs, s, t, kept, order)
       PROVE  Divides(b, DividedTask(parameters, b, centers))
  <2>1. /\ order \in Seq(Nat) /\ Lists(order, rest \cup {1}) /\ Len(t.kids) = Len(order)
        /\ \A k \in 1..Len(order) : t.kids[k] = ChildOf(ps, b, cs, s, order[k])
        /\ t.uncounted = Len(t.kids) /\ ~t.overcounted
        /\ kept \in Seq(Nat) /\ Len(t.node.children) = Len(kept) + 1
    BY <1>15 DEF BranchMade, rest
  <2> DEFINE S == {cs[j] : j \in alone}
  <2>2. PointsToSend(t) = S
    <3>1. t.node.children # <<>>
      BY <2>1
    <3> QED
      BY <1>13, <3>1
  <2>3. t.kids \in Seq(Builder) /\ DOMAIN t.kids = 1..Len(order) /\ Len(t.kids) \in Nat
    BY <1>10, <2>1 DEF Task
  <2>4. \A k \in DOMAIN t.kids : /\ order[k] \in J /\ order[k] \in rest \cup {1}
                                 /\ t.kids[k] = ChildOf(ps, b, cs, s, order[k])
                                 /\ PointsOf(t.kids[k]) = C(order[k])
    BY <1>8, <2>1, <2>3 DEF Lists, C
  <2>5. \A k \in DOMAIN t.kids : GoodBuilder(t.kids[k])
    <3> TAKE k \in DOMAIN t.kids
    <3> DEFINE j == order[k]
               c == ChildOf(ps, b, cs, s, j)
    <3>1. c.scale = s /\ c.center = cs[j] /\ c.covered = Part(ps, b, cs, s, j) /\ t.kids[k] = c /\ j \in J
      BY <2>4 DEF ChildOf
    <3> HIDE DEF c
    <3> QED
      BY <1>2, <1>5, <2>3, <2>4, <3>1 DEF GoodBuilder
  <2>6. \A j, k \in DOMAIN t.kids : j # k => order[j] # order[k]
    BY <2>1, <2>3 DEF Lists
  <2>7. \A j, k \in DOMAIN t.kids : j # k => PointsOf(t.kids[j]) \cap PointsOf(t.kids[k]) = {}
    BY <1>5, <2>4, <2>6
  <2>8. \A i \in rest \cup {1} : i \notin alone /\ \E k \in DOMAIN t.kids : order[k] = i
    BY <1>8, <2>1, <2>3 DEF Lists
  <2>9. PointsOfKids(t) \cap S = {}
    <3> SUFFICES ASSUME NEW k \in DOMAIN t.kids, NEW j \in alone, cs[j] \in PointsOf(t.kids[k])
                 PROVE  FALSE
      BY DEF PointsOfKids
    <3>1. cs[j] \in C(order[k]) /\ cs[j] \in C(j) /\ order[k] \in J /\ j \in J /\ order[k] # j
      BY <1>5, <1>8, <2>4, <2>8
    <3> QED
      BY <1>5, <3>1
  <2>10. \A p \in PointsOf(b) : p \in PointsOfKids(t) \cup S
    <3> TAKE p \in PointsOf(b)
    <3>1. PICK i \in J : p \in C(i)
      BY <1>5
    <3>2. CASE i \in alone
      BY <1>9, <3>1, <3>2
    <3>3. CASE i \in rest \cup {1}
      <4>1. PICK k \in DOMAIN t.kids : order[k] = i
        BY <2>8, <3>3
      <4> QED
        BY <2>4, <3>1, <4>1 DEF PointsOfKids
    <3> QED
      BY <1>8, <3>2, <3>3
  <2>11. PointsOfKids(t) \subseteq PointsOf(b)
    BY <1>5, <2>4 DEF PointsOfKids
  <2>12. S \subseteq PointsOf(b)
    BY <1>5, <1>8
  <2>13. PointsOfTask(t) = PointsOf(b)
    BY <2>2, <2>10, <2>11, <2>12 DEF PointsOfTask
  <2>14. KidsApart(t)
    BY <2>2, <2>7, <2>9 DEF KidsApart
  <2> HIDE DEF S
  <2>15. Divides(b, t)
    BY <1>10, <1>11, <1>12, <2>1, <2>3, <2>5, <2>13, <2>14
       DEF Divides, GoodTask, Unfinished
  <2> QED
    BY <2>15 DEF t
<1> QED
  BY <1>6, <1>14, <1>15 DEF DivisionMade

-----------------------------------------------------------------------------
(* The points of sets of nodes and tasks, and of the channel.              *)

BuildersApart(bs) == \A b, c \in bs : b # c => PointsOf(b) \cap PointsOf(c) = {}
TasksApart(ts) == \A t, u \in ts : t # u => PointsOfTask(t) \cap PointsOfTask(u) = {}
MessagesApart(ch) == \A i, j \in DOMAIN ch : i # j => FinalsOf(ch[i]) \cap FinalsOf(ch[j]) = {}

LEMMA TakeBuilder ==
  ASSUME NEW bs, BuildersApart(bs), NEW b \in bs
  PROVE  /\ BuildersApart(bs \ {b})
         /\ PointsOfAll(bs) = PointsOfAll(bs \ {b}) \cup PointsOf(b)
         /\ PointsOfAll(bs \ {b}) \cap PointsOf(b) = {}
BY DEF BuildersApart, PointsOfAll

LEMMA AddBuilder ==
  ASSUME NEW bs, BuildersApart(bs), NEW b, PointsOf(b) \cap PointsOfAll(bs) = {}
  PROVE  /\ BuildersApart(bs \cup {b})
         /\ PointsOfAll(bs \cup {b}) = PointsOfAll(bs) \cup PointsOf(b)
         /\ b \notin bs
<1>1. \A c \in bs : PointsOf(c) \cap PointsOf(b) = {} /\ PointsOf(c) \subseteq PointsOfAll(bs)
  BY DEF PointsOfAll
<1>2. BuildersApart(bs \cup {b})
  BY <1>1 DEF BuildersApart
<1>3. PointsOfAll(bs \cup {b}) = PointsOfAll(bs) \cup PointsOf(b)
  BY DEF PointsOfAll
<1>4. b.center \in PointsOf(b)
  BY DEF PointsOf
<1> QED
  BY <1>1, <1>2, <1>3, <1>4

LEMMA TakeTask ==
  ASSUME NEW ts, TasksApart(ts), NEW t \in ts
  PROVE  /\ TasksApart(ts \ {t})
         /\ PointsOfTasks(ts) = PointsOfTasks(ts \ {t}) \cup PointsOfTask(t)
         /\ PointsOfTasks(ts \ {t}) \cap PointsOfTask(t) = {}
BY DEF TasksApart, PointsOfTasks

LEMMA AddTask ==
  ASSUME NEW ts, TasksApart(ts), NEW u, PointsOfTask(u) # {},
         PointsOfTask(u) \cap PointsOfTasks(ts) = {}
  PROVE  /\ TasksApart(ts \cup {u})
         /\ PointsOfTasks(ts \cup {u}) = PointsOfTasks(ts) \cup PointsOfTask(u)
         /\ u \notin ts
<1>1. \A t \in ts : PointsOfTask(t) \cap PointsOfTask(u) = {}
  BY DEF PointsOfTasks
<1>2. TasksApart(ts \cup {u})
  BY <1>1 DEF TasksApart
<1>3. PointsOfTasks(ts \cup {u}) = PointsOfTasks(ts) \cup PointsOfTask(u)
  BY DEF PointsOfTasks
<1> QED
  BY <1>1, <1>2, <1>3

LEMMA AppendMessage ==
  ASSUME NEW S, NEW ch \in Seq(S), NEW m \in S, MessagesApart(ch),
         FinalsOf(m) \cap PointsSent(ch) = {}
  PROVE  /\ MessagesApart(Append(ch, m))
         /\ PointsSent(Append(ch, m)) = PointsSent(ch) \cup FinalsOf(m)
         /\ \A i \in DOMAIN Append(ch, m) : \/ i \in DOMAIN ch /\ Append(ch, m)[i] = ch[i]
                                            \/ Append(ch, m)[i] = m
<1> DEFINE q == Append(ch, m)
<1>1. /\ Len(ch) \in Nat /\ DOMAIN ch = 1..Len(ch) /\ DOMAIN q = 1..(Len(ch) + 1)
      /\ \A i \in 1..Len(ch) : q[i] = ch[i]
      /\ q[Len(ch) + 1] = m
  OBVIOUS
<1>2. DOMAIN q = DOMAIN ch \cup {Len(ch) + 1} /\ Len(ch) + 1 \notin DOMAIN ch
  BY <1>1
<1> HIDE DEF q
<1>3. \A i \in DOMAIN ch : FinalsOf(q[i]) = FinalsOf(ch[i])
  BY <1>1
<1>4. \A i \in DOMAIN ch : FinalsOf(m) \cap FinalsOf(q[i]) = {}
  BY <1>3 DEF PointsSent
<1>5. MessagesApart(q)
  BY <1>1, <1>2, <1>3, <1>4 DEF MessagesApart
<1>6. PointsSent(q) = PointsSent(ch) \cup FinalsOf(m)
  BY <1>1, <1>2, <1>3 DEF PointsSent
<1>7. \A i \in DOMAIN q : (i \in DOMAIN ch /\ q[i] = ch[i]) \/ q[i] = m
  BY <1>1, <1>2
<1> QED
  BY <1>5, <1>6, <1>7 DEF q

LEMMA TakeMessage ==
  ASSUME NEW S, NEW ch \in Seq(S), ch # <<>>, MessagesApart(ch)
  PROVE  /\ MessagesApart(Tail(ch))
         /\ PointsSent(ch) = PointsSent(Tail(ch)) \cup FinalsOf(Head(ch))
         /\ PointsSent(Tail(ch)) \cap FinalsOf(Head(ch)) = {}
         /\ \A i \in DOMAIN Tail(ch) : i + 1 \in DOMAIN ch /\ Tail(ch)[i] = ch[i + 1]
         /\ 1 \in DOMAIN ch /\ Head(ch) = ch[1]
         /\ Len(Tail(ch)) = Len(ch) - 1 /\ Len(ch) \in Nat /\ Len(ch) >= 1
<1> DEFINE q == Tail(ch)
           m == Head(ch)
<1>1. /\ q \in Seq(S) /\ Len(q) = Len(ch) - 1 /\ \A i \in 1..Len(q) : q[i] = ch[i + 1]
  BY HeadTailProperties
<1>2. /\ Len(ch) \in Nat /\ Len(ch) >= 1 /\ DOMAIN ch = 1..Len(ch) /\ DOMAIN q = 1..(Len(ch) - 1)
      /\ m = ch[1]
  BY <1>1
<1> HIDE DEF q, m
<1>3. \A i \in DOMAIN q : i + 1 \in DOMAIN ch /\ i + 1 # 1 /\ q[i] = ch[i + 1]
  BY <1>1, <1>2
<1>4. \A i \in DOMAIN ch : i = 1 \/ (i - 1 \in DOMAIN q /\ (i - 1) + 1 = i /\ q[i - 1] = ch[i])
  BY <1>1, <1>2
<1>5. MessagesApart(q)
  <2> SUFFICES ASSUME NEW i \in DOMAIN q, NEW j \in DOMAIN q, i # j
               PROVE  FinalsOf(q[i]) \cap FinalsOf(q[j]) = {}
    BY DEF MessagesApart
  <2>1. i + 1 # j + 1
    BY <1>2
  <2> QED
    BY <1>3, <2>1 DEF MessagesApart
<1>6. 1 \in DOMAIN ch
  BY <1>2
<1>7. \A i \in DOMAIN q : FinalsOf(q[i]) \cap FinalsOf(m) = {}
  BY <1>2, <1>3, <1>6 DEF MessagesApart
<1>8. PointsSent(q) \cap FinalsOf(m) = {}
  BY <1>7 DEF PointsSent
<1>9. PointsSent(ch) = PointsSent(q) \cup FinalsOf(m)
  <2>1. \A i \in DOMAIN ch : FinalsOf(ch[i]) \subseteq PointsSent(q) \cup FinalsOf(m)
    BY <1>2, <1>4 DEF PointsSent
  <2>2. \A i \in DOMAIN q : FinalsOf(q[i]) \subseteq PointsSent(ch)
    BY <1>3 DEF PointsSent
  <2>3. FinalsOf(m) \subseteq PointsSent(ch)
    BY <1>2, <1>6 DEF PointsSent
  <2>4. PointsSent(q) \subseteq PointsSent(ch) /\ PointsSent(ch) \subseteq PointsSent(q) \cup FinalsOf(m)
    BY <2>1, <2>2 DEF PointsSent
  <2> QED
    BY <2>3, <2>4
<1> QED
  BY <1>1, <1>2, <1>3, <1>5, <1>6, <1>8, <1>9 DEF q, m

-----------------------------------------------------------------------------
(* The nodes that tasks have yet to hand over.                             *)

LEMMA UnfinishedType ==
  ASSUME NEW t, GoodTask(t)
  PROVE  /\ Unfinished(t) \in Nat
         /\ Unfinished(t) >= 1
         /\ t.overcounted /\ t.uncounted = 0 => Unfinished(t) >= 2
<1>1. t.kids \in Seq(Builder) /\ t.uncounted \in Nat /\ t.sent \in BOOLEAN /\ t.overcounted \in BOOLEAN
  BY DEF GoodTask, Task
<1>2. Len(t.kids) \in Nat /\ (t.kids = <<>> => Len(t.kids) = 0)
  BY <1>1
<1>3. ASSUME t.sent PROVE Len(t.kids) >= 1
  <2>1. PointsToSend(t) = {}
    BY <1>3 DEF PointsToSend
  <2>2. PointsOfKids(t) # {}
    BY <2>1 DEF GoodTask, PointsOfTask
  <2>3. DOMAIN t.kids # {}
    BY <2>2 DEF PointsOfKids
  <2> QED
    BY <1>1, <2>3
<1>4. t.uncounted <= Len(t.kids) + (IF t.overcounted THEN 1 ELSE 0)
      /\ (t.overcounted => t.kids = <<>>)
      /\ (t.sent => t.uncounted = 0 /\ ~t.overcounted)
  BY DEF GoodTask
<1> DEFINE k == Len(t.kids)
           n == t.uncounted
<1>5. k \in Nat /\ n \in Nat
  BY <1>1, <1>2
<1>6. CASE t.sent
  <2>1. Unfinished(t) = k /\ k >= 1 /\ ~t.overcounted
    BY <1>1, <1>2, <1>3, <1>4, <1>6 DEF Unfinished
  <2> QED
    BY <1>5, <2>1
<1>7. CASE ~t.sent /\ t.overcounted
  <2>1. Unfinished(t) = 1 + k - n + 1 /\ n <= k + 1
    BY <1>4, <1>7 DEF Unfinished
  <2> HIDE DEF k, n
  <2>2. Unfinished(t) \in Nat /\ Unfinished(t) >= 1 /\ (n = 0 => Unfinished(t) >= 2)
    BY <1>5, <2>1
  <2> QED
    BY <2>2 DEF n
<1>8. CASE ~t.sent /\ ~t.overcounted
  <2>1. Unfinished(t) = 1 + k - n + 0 /\ n <= k + 0
    BY <1>4, <1>8 DEF Unfinished
  <2> HIDE DEF k, n
  <2>2. Unfinished(t) \in Nat /\ Unfinished(t) >= 1
    BY <1>5, <2>1
  <2> QED
    BY <1>8, <2>2
<1> QED
  BY <1>1, <1>6, <1>7, <1>8

LEMMA OutstandingTakes ==
  ASSUME NEW ts, IsFiniteSet(ts), \A x \in ts : Unfinished(x) \in Int, NEW t \in ts
  PROVE  /\ Outstanding(ts \ {t}) \in Int
         /\ Outstanding(ts) = Outstanding(ts \ {t}) + Unfinished(t)
<1> DEFINE R == ts \ {t}
           f == [x \in ts |-> Unfinished(x)]
           g == [x \in R |-> Unfinished(x)]
<1>1. IsFiniteSet(R) /\ \A x \in R : f[x] = g[x] /\ g[x] \in Int
  BY FS_RemoveElement
<1>2. (\A x \in ts : f[x] \in Int) /\ f[t] = Unfinished(t)
  OBVIOUS
<1>3. Outstanding(ts) = SumFunctionOnSet(f, ts) /\ Outstanding(R) = SumFunctionOnSet(g, R)
  BY DEF Outstanding
<1> HIDE DEF f, g
<1>4. SumFunctionOnSet(f, ts) = f[t] + SumFunctionOnSet(f, R)
  BY <1>2, SumWithout
<1> HIDE DEF R
<1>5. SumFunctionOnSet(f, R) = SumFunctionOnSet(g, R) /\ SumFunctionOnSet(g, R) \in Int
  BY <1>1, SumOfSame, SumType
<1>6. Outstanding(R) \in Int /\ Outstanding(ts) = Outstanding(R) + Unfinished(t)
  BY <1>2, <1>3, <1>4, <1>5
<1> QED
  BY <1>6 DEF R

LEMMA OutstandingAdds ==
  ASSUME NEW ts, IsFiniteSet(ts), \A x \in ts : Unfinished(x) \in Int,
         NEW u, u \notin ts, Unfinished(u) \in Int
  PROVE  /\ IsFiniteSet(ts \cup {u})
         /\ Outstanding(ts \cup {u}) = Outstanding(ts) + Unfinished(u)
<1>1. IsFiniteSet(ts \cup {u})
  BY FS_AddElement
<1>2. \A x \in ts \cup {u} : Unfinished(x) \in Int
  OBVIOUS
<1>3. (ts \cup {u}) \ {u} = ts
  OBVIOUS
<1> DEFINE R == ts \cup {u}
<1> HIDE DEF R
<1>4. Outstanding(R) = Outstanding(R \ {u}) + Unfinished(u)
  BY <1>1, <1>2, OutstandingTakes DEF R
<1> QED
  BY <1>1, <1>3, <1>4 DEF R

(* Some task is at work if and only if some node is outstanding. *)
LEMMA OutstandingIsNatural ==
  ASSUME NEW ts, IsFiniteSet(ts), \A x \in ts : Unfinished(x) \in Nat /\ Unfinished(x) >= 1
  PROVE  Outstanding(ts) \in Nat /\ \A x \in ts : Outstanding(ts) >= Unfinished(x)
<1> DEFINE f == [x \in ts |-> Unfinished(x)]
<1>1. \A x \in ts : f[x] \in Nat /\ f[x] = Unfinished(x)
  OBVIOUS
<1>2. Outstanding(ts) = SumFunctionOnSet(f, ts)
  BY DEF Outstanding
<1> HIDE DEF f
<1>3. SumFunctionOnSet(f, ts) \in Nat /\ \A x \in ts : f[x] <= SumFunctionOnSet(f, ts)
  BY <1>1, SumOfNaturals
<1> QED
  BY <1>1, <1>2, <1>3

-----------------------------------------------------------------------------
(* The inductive invariant.                                                *)

(* No point is in two places ... *)
Apart ==
  /\ BuildersApart(queued) /\ TasksApart(running) /\ MessagesApart(channel)
  /\ PointsOfAll(queued) \cap PointsOfTasks(running) = {}
  /\ PointsSent(channel) \cap (PointsOfAll(queued) \cup PointsOfTasks(running)) = {}
  /\ PointsFinal \cap (PointsOfAll(queued) \cup PointsOfTasks(running) \cup PointsSent(channel)) = {}

(* ... and, unless an error has taken some away, every point is in one. *)
Complete ==
  ~Failed =>
    Point \subseteq PointsOfAll(queued) \cup PointsOfTasks(running)
                      \cup PointsSent(channel) \cup PointsFinal

(* The nodes that are known of. *)
Pending == inserted + Len(channel) + Cardinality(queued) + Outstanding(running)

Working ==
  /\ \A b \in queued : GoodBuilder(b)
  /\ \A t \in running : GoodTask(t)
  /\ \A i \in DOMAIN channel : channel[i] # SplitError => channel[i].addr[1] \in Layers
  /\ Apart /\ Complete
  /\ total >= Pending

IInv ==
  /\ TypeOK
  /\ IsFiniteSet(queued) /\ IsFiniteSet(running)
  /\ pc # "failed" => Working
  /\ Accounting
  /\ pc = "done" => inserted = total

(* What is known of in numbers. *)
LEMMA PendingType ==
  ASSUME IInv, pc # "failed"
  PROVE  /\ Len(channel) \in Nat /\ Cardinality(queued) \in Nat /\ Outstanding(running) \in Nat
         /\ \A t \in running : Unfinished(t) \in Nat /\ Unfinished(t) >= 1
                                 /\ Outstanding(running) >= Unfinished(t)
         /\ queued # {} => Cardinality(queued) >= 1
         /\ channel # <<>> => Len(channel) >= 1
<1>1. \A t \in running : Unfinished(t) \in Nat /\ Unfinished(t) >= 1
  BY UnfinishedType DEF IInv, Working
<1>2. Outstanding(running) \in Nat /\ \A t \in running : Outstanding(running) >= Unfinished(t)
  BY <1>1, OutstandingIsNatural DEF IInv
<1>3. Cardinality(queued) \in Nat /\ (queued # {} => Cardinality(queued) >= 1)
  <2>1. Cardinality(queued) \in Nat /\ (Cardinality(queued) = 0 <=> queued = {})
    BY FS_CardinalityType, FS_EmptySet DEF IInv
  <2> QED
    BY <2>1
<1>4. Len(channel) \in Nat /\ (channel # <<>> => Len(channel) >= 1)
  <2> DEFINE S == [addr: Address, node: Node] \cup {SplitError}
  <2>1. channel \in Seq(S)
    BY DEF IInv, TypeOK
  <2> HIDE DEF S
  <2> QED
    BY <2>1
<1> QED
  BY <1>1, <1>2, <1>3, <1>4

(* build returns only when all the nodes are in the tree. *)
LEMMA DoneIsEmpty ==
  ASSUME IInv, pc = "done"
  PROVE  queued = {} /\ running = {} /\ channel = <<>>
<1>1. inserted = total /\ total >= Pending /\ inserted \in Nat /\ total \in Nat
  BY DEF IInv, Working, TypeOK
<1>2. Pending = inserted + Len(channel) + Cardinality(queued) + Outstanding(running)
  BY DEF Pending
<1>3. Len(channel) \in Nat /\ Cardinality(queued) \in Nat /\ Outstanding(running) \in Nat
  BY PendingType
<1>4. Len(channel) = 0 /\ Cardinality(queued) = 0 /\ Outstanding(running) = 0
  BY <1>1, <1>2, <1>3
<1>5. ASSUME NEW t \in running PROVE FALSE
  <2>1. Unfinished(t) \in Nat /\ Unfinished(t) >= 1 /\ Outstanding(running) >= Unfinished(t)
    BY PendingType
  <2> QED
    BY <1>4, <2>1
<1> QED
  BY <1>4, <1>5, PendingType

(* What stays good while the parameters stay. *)
LEMMA GoodStays ==
  ASSUME parameters' = parameters
  PROVE  /\ Layers' = Layers
         /\ \A b : GoodBuilder(b)' = GoodBuilder(b)
         /\ \A t : GoodTask(t)' = GoodTask(t)
<1>1. Layers' = Layers
  BY DEF Layers
<1>2. \A b : GoodBuilder(b)' = GoodBuilder(b)
  BY <1>1 DEF GoodBuilder
<1> QED
  BY <1>1, <1>2 DEF GoodTask

(* A step of the pool, in terms of what it does to the points and numbers. *)
LEMMA PoolKeeps ==
  ASSUME IInv, pc # "failed", queued # {} \/ running # {},
         UNCHANGED <<parameters, tree, final, inserted, pc>>,
         IsFiniteSet(queued'), \A b \in queued' : GoodBuilder(b),
         IsFiniteSet(running'), \A t \in running' : GoodTask(t),
         channel' \in Seq([addr: Address, node: Node] \cup {SplitError}),
         \A i \in DOMAIN channel' : channel'[i] # SplitError => channel'[i].addr[1] \in Layers,
         ~Failed' => ~Failed,
         Apart', Complete',
         total' \in Nat, total' >= Pending',
         ~Failed' => (total = Pending => total' = Pending')
  PROVE  IInv'
<1>1. pc \in {"receive", "check"} /\ pc' = pc
  BY DoneIsEmpty DEF IInv, TypeOK
<1>2. Layers' = Layers /\ \A b : GoodBuilder(b)' = GoodBuilder(b)
        /\ \A t : GoodTask(t)' = GoodTask(t)
  BY GoodStays
<1>3. Working'
  <2>1. \A b \in queued' : GoodBuilder(b)'
    BY <1>2
  <2>2. \A t \in running' : GoodTask(t)'
    BY <1>2
  <2> QED
    BY <1>2, <2>1, <2>2 DEF Working
<1>4. TypeOK'
  <2>1. queued' \subseteq Builder /\ running' \subseteq Task
    BY DEF GoodBuilder, GoodTask
  <2>2. \A addr : InLayers(addr)' = InLayers(addr)
    BY <1>2 DEF InLayers
  <2>3. \A addr \in DOMAIN tree : InLayers(addr)
    BY <1>1 DEF IInv, TypeOK
  <2>4. \A b \in queued' : InLayers(AddressOf(b))
    BY DEF GoodBuilder, Builder, InLayers, AddressOf
  <2>5. \A addr \in DOMAIN tree' \cup {AddressOf(b) : b \in queued'} : InLayers(addr)'
    BY <2>2, <2>3, <2>4
  <2> QED
    BY <1>1, <2>1, <2>5 DEF IInv, TypeOK
<1>5. Accounting'
  BY DEF IInv, Accounting, Pending
<1> QED
  BY <1>1, <1>3, <1>4, <1>5 DEF IInv

(* One task moves on. *)
LEMMA TaskMovesOn ==
  ASSUME IInv, pc # "failed", NEW t \in running, NEW u, Becomes(t, u),
         PointsOfTask(u) \subseteq PointsOfTask(t),
         u.sent /\ u.kids = <<>> => PointsOfTask(u) = {} /\ Unfinished(u) = 0,
         ~(u.sent /\ u.kids = <<>>) => GoodTask(u)
  PROVE  /\ IsFiniteSet(running')
         /\ \A x \in running' : GoodTask(x)
         /\ TasksApart(running')
         /\ PointsOfTasks(running') = (PointsOfTasks(running) \ PointsOfTask(t)) \cup PointsOfTask(u)
         /\ Outstanding(running') = Outstanding(running) - Unfinished(t) + Unfinished(u)
         /\ Unfinished(u) \in Nat
<1> DEFINE R == running \ {t}
<1>1. IsFiniteSet(R) /\ TasksApart(running) /\ \A x \in running : GoodTask(x)
  BY FS_RemoveElement DEF IInv, Working, Apart
<1>2. /\ TasksApart(R)
      /\ PointsOfTasks(running) = PointsOfTasks(R) \cup PointsOfTask(t)
      /\ PointsOfTasks(R) \cap PointsOfTask(t) = {}
  BY <1>1, TakeTask
<1>3. \A x \in running : Unfinished(x) \in Int
  BY PendingType
<1>4. Outstanding(R) \in Int /\ Outstanding(running) = Outstanding(R) + Unfinished(t)
  BY <1>3, OutstandingTakes DEF IInv
<1>5. \A x \in R : Unfinished(x) \in Int
  BY <1>3
<1>6. Unfinished(t) \in Nat
  BY PendingType
<1>7. CASE u.sent /\ u.kids = <<>>
  <2>1. running' = R
    BY <1>7 DEF Becomes
  <2>2. PointsOfTask(u) = {} /\ Unfinished(u) = 0
    BY <1>7
  <2>3. \A x \in R : GoodTask(x)
    BY <1>1
  <2>4. Outstanding(R) = Outstanding(running) - Unfinished(t) + Unfinished(u)
    BY <1>4, <1>6, <2>2
  <2>5. PointsOfTasks(R) = (PointsOfTasks(running) \ PointsOfTask(t)) \cup PointsOfTask(u)
    BY <1>2, <2>2
  <2> HIDE DEF R
  <2> QED
    BY <1>1, <1>2, <2>1, <2>2, <2>3, <2>4, <2>5
<1>8. CASE ~(u.sent /\ u.kids = <<>>)
  <2>1. running' = R \cup {u}
    BY <1>8 DEF Becomes
  <2>2. GoodTask(u) /\ PointsOfTask(u) # {}
    BY <1>8 DEF GoodTask
  <2>3. PointsOfTask(u) \cap PointsOfTasks(R) = {}
    BY <1>2
  <2>4. \A x \in R \cup {u} : GoodTask(x)
    BY <1>1, <2>2
  <2> HIDE DEF R
  <2>5. /\ TasksApart(R \cup {u}) /\ u \notin R
        /\ PointsOfTasks(R \cup {u}) = PointsOfTasks(R) \cup PointsOfTask(u)
    BY <1>2, <2>2, <2>3, AddTask
  <2>6. Unfinished(u) \in Nat
    BY <2>2, UnfinishedType
  <2>7. IsFiniteSet(R \cup {u}) /\ Outstanding(R \cup {u}) = Outstanding(R) + Unfinished(u)
    <3>1. Unfinished(u) \in Int
      BY <2>6
    <3> QED
      BY <1>1, <1>5, <2>5, <3>1, OutstandingAdds DEF R
  <2>8. Outstanding(R \cup {u}) = Outstanding(running) - Unfinished(t) + Unfinished(u)
    BY <1>4, <1>6, <2>6, <2>7
  <2>9. PointsOfTasks(R) \cup PointsOfTask(u)
          = (PointsOfTasks(running) \ PointsOfTask(t)) \cup PointsOfTask(u)
    BY <1>2
  <2> QED
    BY <2>1, <2>4, <2>5, <2>6, <2>7, <2>8, <2>9
<1> QED
  BY <1>7, <1>8

-----------------------------------------------------------------------------
(* The steps of the pool.                                                  *)

LEMMA SplitKeeps ==
  ASSUME IInv, pc # "failed", NEW b \in queued, Split(b)
  PROVE  IInv'
<1>1. GoodBuilder(b) /\ parameters \in Settings
  BY DEF IInv, TypeOK, Working
<1>2. PICK t : Divides(b, t) /\ running' = running \cup {t}
  <2>1. CASE IsFine(parameters, b)
    BY <1>1, <2>1, FineTaskDivides DEF Split
  <2>2. CASE ~IsFine(parameters, b)
    <3>1. PICK centers \in PickCenters(parameters, b, NextScale(parameters, b)) :
            running' = running \cup {DividedTask(parameters, b, centers)}
      BY <2>2 DEF Split
    <3> QED
      BY <1>1, <2>2, <3>1, DividedTaskDivides
  <2> QED
    BY <2>1, <2>2
<1>3. queued' = queued \ {b} /\ UNCHANGED <<parameters, total, channel, tree, final, inserted, pc>>
  BY DEF Split
<1>4. GoodTask(t) /\ PointsOfTask(t) = PointsOf(b) /\ Unfinished(t) = 1 /\ PointsOfTask(t) # {}
  BY <1>2 DEF Divides, GoodTask
<1>5. /\ BuildersApart(queued') /\ PointsOfAll(queued) = PointsOfAll(queued') \cup PointsOf(b)
      /\ PointsOfAll(queued') \cap PointsOf(b) = {}
  BY <1>3, TakeBuilder DEF IInv, Working, Apart
<1>6. /\ TasksApart(running') /\ t \notin running
      /\ PointsOfTasks(running') = PointsOfTasks(running) \cup PointsOf(b)
  <2>1. TasksApart(running) /\ PointsOfTask(t) \cap PointsOfTasks(running) = {}
    BY <1>4, <1>5 DEF IInv, Working, Apart
  <2>2. /\ TasksApart(running \cup {t}) /\ t \notin running
        /\ PointsOfTasks(running \cup {t}) = PointsOfTasks(running) \cup PointsOfTask(t)
    BY <1>4, <2>1, AddTask
  <2> QED
    BY <1>2, <1>4, <2>2
<1>7. Apart'
  BY <1>3, <1>5, <1>6 DEF IInv, Working, Apart, PointsFinal
<1>8. (Failed' = Failed) /\ Complete'
  BY <1>3, <1>5, <1>6 DEF IInv, Working, Complete, PointsFinal, Failed
<1>9. IsFiniteSet(queued') /\ Cardinality(queued') = Cardinality(queued) - 1
  BY <1>3, FS_RemoveElement DEF IInv
<1>10. IsFiniteSet(running') /\ Outstanding(running') = Outstanding(running) + 1
  <2>1. \A x \in running : Unfinished(x) \in Int
    BY PendingType
  <2>2. Unfinished(t) \in Int
    BY <1>4
  <2> QED
    BY <1>2, <1>4, <1>6, <2>1, <2>2, OutstandingAdds DEF IInv
<1>11. Pending' = Pending
  <2>1. Cardinality(queued) \in Nat /\ Outstanding(running) \in Nat /\ Len(channel) \in Nat
          /\ inserted \in Nat
    BY PendingType DEF IInv, TypeOK
  <2> QED
    BY <1>3, <1>9, <1>10, <2>1 DEF Pending
<1>12. /\ \A c \in queued' : GoodBuilder(c)
       /\ \A x \in running' : GoodTask(x)
  BY <1>2, <1>3, <1>4 DEF IInv, Working
<1>13. /\ channel' \in Seq([addr: Address, node: Node] \cup {SplitError})
       /\ \A i \in DOMAIN channel' : channel'[i] # SplitError => channel'[i].addr[1] \in Layers
       /\ total' \in Nat /\ total' = total /\ total >= Pending
  BY <1>3 DEF IInv, TypeOK, Working
<1> QED
  BY <1>3, <1>7, <1>8, <1>9, <1>10, <1>11, <1>12, <1>13, PoolKeeps

LEMMA SplitFailsKeeps ==
  ASSUME IInv, pc # "failed", NEW b \in queued, SplitFails(b)
  PROVE  IInv'
<1>1. /\ queued' = queued \ {b} /\ channel' = Append(channel, SplitError)
      /\ UNCHANGED <<parameters, running, tree, final, inserted, pc>>
  BY DEF SplitFails
<1>2. PICK n \in Nat : total' = total + n
  <2>1. CoveredLen(b) \in Nat
    BY PointAssumption, FS_Subset, FS_CardinalityType
       DEF IInv, Working, GoodBuilder, Builder, CoveredLen
  <2>2. (IF parameters.first THEN 1..CoveredLen(b) ELSE {0}) \subseteq Nat
    BY <2>1
  <2> QED
    BY <2>2 DEF SplitFails
<1> DEFINE S == [addr: Address, node: Node] \cup {SplitError}
<1>3. channel \in Seq(S) /\ SplitError \in S
  BY DEF IInv, TypeOK
<1>4. channel' \in Seq(S)
  <2> HIDE DEF S
  <2> QED
    BY <1>1, <1>3
<1>5. Len(channel') = Len(channel) + 1 /\ SplitError \in ToSet(channel')
  <2> HIDE DEF S
  <2>1. /\ Len(channel') = Len(channel) + 1 /\ Len(channel) \in Nat
        /\ channel'[Len(channel) + 1] = SplitError /\ DOMAIN channel' = 1..Len(channel')
    BY <1>1, <1>3
  <2>2. Len(channel) + 1 \in DOMAIN channel'
    BY <2>1
  <2> QED
    BY <2>1, <2>2 DEF ToSet
<1>6. /\ MessagesApart(channel') /\ PointsSent(channel') = PointsSent(channel)
      /\ \A i \in DOMAIN channel' : (i \in DOMAIN channel /\ channel'[i] = channel[i])
                                      \/ channel'[i] = SplitError
  <2>1. MessagesApart(channel)
    BY DEF IInv, Working, Apart
  <2>2. FinalsOf(SplitError) = {}
    BY DEF FinalsOf
  <2>3. FinalsOf(SplitError) \cap PointsSent(channel) = {}
    BY <2>2
  <2> HIDE DEF S
  <2> DEFINE q == Append(channel, SplitError)
  <2>4. /\ MessagesApart(q) /\ PointsSent(q) = PointsSent(channel) \cup FinalsOf(SplitError)
        /\ \A i \in DOMAIN q : (i \in DOMAIN channel /\ q[i] = channel[i]) \/ q[i] = SplitError
    BY <1>3, <2>1, <2>3, AppendMessage
  <2> HIDE DEF q
  <2>5. channel' = q
    BY <1>1 DEF q
  <2> QED
    BY <2>2, <2>4, <2>5
<1>7. BuildersApart(queued') /\ PointsOfAll(queued) = PointsOfAll(queued') \cup PointsOf(b)
  BY <1>1, TakeBuilder DEF IInv, Working, Apart
<1>8. Apart'
  BY <1>1, <1>6, <1>7 DEF IInv, Working, Apart, PointsFinal
<1>9. Failed'
  BY <1>5 DEF Failed
<1>10. IsFiniteSet(queued') /\ Cardinality(queued') = Cardinality(queued) - 1
  BY <1>1, FS_RemoveElement DEF IInv
<1>11. Pending' = Pending
  <2>1. Cardinality(queued) \in Nat /\ Outstanding(running) \in Nat /\ Len(channel) \in Nat
          /\ inserted \in Nat
    BY PendingType DEF IInv, TypeOK
  <2> QED
    BY <1>1, <1>5, <1>10, <2>1 DEF Pending
<1>12. /\ \A c \in queued' : GoodBuilder(c)
       /\ IsFiniteSet(running') /\ \A x \in running' : GoodTask(x)
  BY <1>1 DEF IInv, Working
<1>13. \A i \in DOMAIN channel' : channel'[i] # SplitError => channel'[i].addr[1] \in Layers
  BY <1>6 DEF IInv, Working
<1>14. total' \in Nat /\ total' >= Pending'
  <2>1. total \in Nat /\ total >= Pending /\ Pending \in Int
    <3>1. Cardinality(queued) \in Nat /\ Outstanding(running) \in Nat /\ Len(channel) \in Nat
            /\ inserted \in Nat
      BY PendingType DEF IInv, TypeOK
    <3> QED
      BY <3>1 DEF IInv, TypeOK, Working, Pending
  <2> QED
    BY <1>2, <1>11, <2>1
<1>15. Complete'
  BY <1>9 DEF Complete
<1> QED
  BY <1>1, <1>4, <1>8, <1>9, <1>10, <1>12, <1>13, <1>14, <1>15, PoolKeeps

(* A task that only changes what it has counted holds the same points. *)
LEMMA CountingHolds ==
  ASSUME NEW t, GoodTask(t), ~t.sent, NEW u \in Task,
         u.addr = t.addr, u.node = t.node, u.kids = t.kids, u.sent = t.sent,
         u.uncounted <= Len(u.kids) + (IF u.overcounted THEN 1 ELSE 0),
         u.overcounted => t.overcounted
  PROVE  GoodTask(u) /\ PointsOfTask(u) = PointsOfTask(t)
<1>1. PointsOfKids(u) = PointsOfKids(t) /\ PointsToSend(u) = PointsToSend(t)
  BY DEF PointsOfKids, PointsToSend
<1>2. KidsApart(u)
  BY <1>1 DEF KidsApart, GoodTask
<1> QED
  BY <1>1, <1>2 DEF GoodTask, PointsOfTask

(* Nodes are counted ahead of being made known. *)
LEMMA SurplusStays ==
  ASSUME NEW d \in Int, total' = total + d, Pending' = Pending + d,
         Pending \in Int, total \in Int, total >= Pending
  PROVE  total' >= Pending' /\ (total = Pending => total' = Pending')
OBVIOUS

(* The pool counts: the points stay where they are. *)
LEMMA CountingKeeps ==
  ASSUME IInv, pc # "failed", NEW t \in running, NEW u, Becomes(t, u),
         GoodTask(u), PointsOfTask(u) = PointsOfTask(t), ~u.sent,
         NEW d \in Int, Unfinished(u) = Unfinished(t) + d, total' = total + d, total' \in Nat,
         UNCHANGED <<parameters, queued, channel, tree, final, inserted, pc>>
  PROVE  IInv'
<1>1. /\ IsFiniteSet(running') /\ \A x \in running' : GoodTask(x)
      /\ TasksApart(running')
      /\ PointsOfTasks(running') = (PointsOfTasks(running) \ PointsOfTask(t)) \cup PointsOfTask(u)
      /\ Outstanding(running') = Outstanding(running) - Unfinished(t) + Unfinished(u)
      /\ Unfinished(u) \in Nat
  BY TaskMovesOn
<1>2. PointsOfTasks(running') = PointsOfTasks(running)
  BY <1>1 DEF PointsOfTasks
<1>3. Apart'
  BY <1>1, <1>2 DEF IInv, Working, Apart, PointsFinal
<1>4. (Failed' = Failed) /\ Complete'
  BY <1>2 DEF IInv, Working, Complete, PointsFinal, Failed
<1>5. Pending' = Pending + d /\ Pending \in Int /\ total \in Int
  <2>1. Cardinality(queued) \in Nat /\ Outstanding(running) \in Nat /\ Len(channel) \in Nat
          /\ inserted \in Nat /\ total \in Nat /\ Unfinished(t) \in Nat
    BY PendingType DEF IInv, TypeOK
  <2>2. Outstanding(running') = Outstanding(running) + d
    BY <1>1, <2>1
  <2>3. Pending = inserted + Len(channel) + Cardinality(queued) + Outstanding(running)
    BY DEF Pending
  <2>4. Pending' = inserted + Len(channel) + Cardinality(queued) + Outstanding(running')
    BY DEF Pending
  <2> QED
    BY <2>1, <2>2, <2>3, <2>4
<1>6. total' >= Pending' /\ (total = Pending => total' = Pending')
  <2>1. total >= Pending
    BY DEF IInv, Working
  <2> QED
    BY <1>5, <2>1, SurplusStays
<1>7. /\ IsFiniteSet(queued') /\ \A b \in queued' : GoodBuilder(b)
      /\ channel' \in Seq([addr: Address, node: Node] \cup {SplitError})
      /\ \A i \in DOMAIN channel' : channel'[i] # SplitError => channel'[i].addr[1] \in Layers
  BY DEF IInv, TypeOK, Working
<1> QED
  BY <1>1, <1>3, <1>4, <1>6, <1>7, PoolKeeps

LEMMA CountKeeps ==
  ASSUME IInv, pc # "failed", NEW t \in running, Count(t)
  PROVE  IInv'
<1> DEFINE u == [t EXCEPT !.uncounted = t.uncounted - 1]
<1>1. GoodTask(t) /\ t \in Task
  BY DEF IInv, Working, GoodTask
<1>2. t.uncounted \in Nat /\ t.uncounted > 0 /\ ~t.sent /\ Len(t.kids) \in Nat
  BY <1>1 DEF Count, GoodTask, Task
<1>3. u \in Task
  BY <1>1, <1>2 DEF Task
<1>4. /\ u.addr = t.addr /\ u.node = t.node /\ u.kids = t.kids /\ u.sent = t.sent
      /\ u.overcounted = t.overcounted /\ u.uncounted = t.uncounted - 1
  BY <1>1 DEF Task
<1>5. Becomes(t, u) /\ total' = total + 1
        /\ UNCHANGED <<parameters, queued, channel, tree, final, inserted, pc>>
  BY DEF Count
<1> HIDE DEF u
<1> DEFINE a == IF t.overcounted THEN 1 ELSE 0
           k == Len(t.kids)
           n == t.uncounted
<1>6. Unfinished(t) = 1 + k - n + a /\ Unfinished(u) = 1 + k - (n - 1) + a
        /\ k \in Nat /\ n \in Nat /\ a \in Nat /\ n <= k + a
  BY <1>1, <1>2, <1>4 DEF Unfinished, GoodTask
<1>7. total \in Nat
  BY DEF IInv, TypeOK
<1>8. u.uncounted <= Len(u.kids) + (IF u.overcounted THEN 1 ELSE 0)
  <2>1. n - 1 <= k + a
    <3> HIDE DEF n, k, a
    <3> QED
      BY <1>6
  <2> QED
    BY <1>4, <2>1
<1> HIDE DEF n, k, a
<1>9. total' \in Nat /\ Unfinished(u) = Unfinished(t) + 1
  BY <1>5, <1>6, <1>7
<1>10. GoodTask(u) /\ PointsOfTask(u) = PointsOfTask(t) /\ ~u.sent
  BY <1>1, <1>2, <1>3, <1>4, <1>8, CountingHolds
<1> QED
  BY <1>5, <1>9, <1>10, CountingKeeps

LEMMA UncountKeeps ==
  ASSUME IInv, pc # "failed", NEW t \in running, Uncount(t)
  PROVE  IInv'
<1> DEFINE u == [t EXCEPT !.overcounted = FALSE]
<1>1. GoodTask(t) /\ t \in Task
  BY DEF IInv, Working, GoodTask
<1>2. t.uncounted = 0 /\ t.overcounted /\ ~t.sent /\ Len(t.kids) \in Nat
  BY <1>1 DEF Uncount, GoodTask, Task
<1>3. u \in Task
  BY <1>1 DEF Task
<1>4. /\ u.addr = t.addr /\ u.node = t.node /\ u.kids = t.kids /\ u.sent = t.sent
      /\ ~u.overcounted /\ u.uncounted = 0
  BY <1>1, <1>2 DEF Task
<1>5. Becomes(t, u) /\ total' = total - 1
        /\ UNCHANGED <<parameters, queued, channel, tree, final, inserted, pc>>
  BY DEF Uncount
<1> HIDE DEF u
<1>6. Unfinished(t) = 1 + Len(t.kids) - 0 + 1 /\ Unfinished(u) = 1 + Len(t.kids) - 0 + 0
  BY <1>2, <1>4 DEF Unfinished
<1>7. total \in Nat /\ total >= 1
  <2>1. Cardinality(queued) \in Nat /\ Outstanding(running) \in Nat /\ Len(channel) \in Nat
          /\ inserted \in Nat /\ total \in Nat /\ Outstanding(running) >= Unfinished(t)
          /\ Unfinished(t) \in Nat /\ Unfinished(t) >= 1 /\ total >= Pending
    BY PendingType DEF IInv, TypeOK, Working
  <2> QED
    BY <2>1 DEF Pending
<1>8. total' \in Nat /\ total' = total + (-1) /\ Unfinished(u) = Unfinished(t) + (-1)
  BY <1>2, <1>5, <1>6, <1>7
<1>9. u.uncounted <= Len(u.kids) + (IF u.overcounted THEN 1 ELSE 0)
  BY <1>2, <1>4
<1>10. GoodTask(u) /\ PointsOfTask(u) = PointsOfTask(t) /\ ~u.sent
  BY <1>1, <1>2, <1>3, <1>4, <1>9, CountingHolds
<1> QED
  BY <1>5, <1>8, <1>10, CountingKeeps

LEMMA SendKeeps ==
  ASSUME IInv, pc # "failed", NEW t \in running, Send(t)
  PROVE  IInv'
<1> DEFINE u == [t EXCEPT !.sent = TRUE]
           m == [addr |-> t.addr, node |-> t.node]
<1>1. GoodTask(t) /\ t \in Task
  BY DEF IInv, Working, GoodTask
<1>2. t.uncounted = 0 /\ ~t.overcounted /\ ~t.sent /\ Len(t.kids) \in Nat
  BY <1>1 DEF Send, Task
<1>3. u \in Task
  BY <1>1 DEF Task
<1>4. /\ u.addr = t.addr /\ u.node = t.node /\ u.kids = t.kids /\ u.sent
      /\ ~u.overcounted /\ u.uncounted = 0
  BY <1>1, <1>2 DEF Task
<1>5. Becomes(t, u) /\ channel' = Append(channel, m)
        /\ UNCHANGED <<parameters, queued, total, tree, final, inserted, pc>>
  BY DEF Send
<1>6. m \in [addr: Address, node: Node] /\ m # SplitError /\ m.addr = t.addr /\ m.node = t.node
  BY <1>1, ErrorAssumption DEF Task
<1> HIDE DEF u, m
<1>7. Unfinished(t) = 1 + Len(t.kids) - 0 + 0 /\ Unfinished(u) = 0 + Len(t.kids) - 0 + 0
  BY <1>2, <1>4 DEF Unfinished
<1>8. PointsOfKids(u) = PointsOfKids(t) /\ PointsToSend(u) = {} /\ FinalsOf(m) = PointsToSend(t)
  BY <1>2, <1>4, <1>6 DEF PointsOfKids, PointsToSend, FinalsOf
<1>9. PointsOfTask(u) = PointsOfKids(t)
  BY <1>8 DEF PointsOfTask
<1>10. PointsOfTask(t) = PointsOfTask(u) \cup FinalsOf(m) /\ PointsOfTask(u) \cap FinalsOf(m) = {}
  BY <1>1, <1>8, <1>9 DEF PointsOfTask, GoodTask, KidsApart
<1>11. ASSUME u.sent /\ u.kids = <<>> PROVE PointsOfTask(u) = {} /\ Unfinished(u) = 0
  BY <1>4, <1>7, <1>9, <1>11 DEF PointsOfKids
<1>12. ASSUME ~(u.sent /\ u.kids = <<>>) PROVE GoodTask(u)
  <2>1. 1 \in DOMAIN t.kids
    BY <1>1, <1>4, <1>12 DEF Task
  <2>2. t.kids[1].center \in PointsOfKids(t)
    BY <2>1 DEF PointsOfKids, PointsOf
  <2>3. KidsApart(u)
    BY <1>1, <1>4, <1>8 DEF KidsApart, GoodTask
  <2> QED
    BY <1>1, <1>2, <1>3, <1>4, <1>9, <2>2, <2>3 DEF GoodTask
<1>13. /\ IsFiniteSet(running') /\ \A x \in running' : GoodTask(x)
       /\ TasksApart(running')
       /\ PointsOfTasks(running') = (PointsOfTasks(running) \ PointsOfTask(t)) \cup PointsOfTask(u)
       /\ Outstanding(running') = Outstanding(running) - Unfinished(t) + Unfinished(u)
       /\ Unfinished(u) \in Nat
  BY <1>5, <1>10, <1>11, <1>12, TaskMovesOn
<1>14. PointsOfTask(t) \subseteq PointsOfTasks(running)
  BY DEF PointsOfTasks
<1>15. PointsOfTasks(running) = PointsOfTasks(running') \cup FinalsOf(m)
         /\ PointsOfTasks(running') \cap FinalsOf(m) = {}
  BY <1>10, <1>13, <1>14
<1> DEFINE S == [addr: Address, node: Node] \cup {SplitError}
<1>16. channel \in Seq(S) /\ m \in S
  BY <1>6 DEF IInv, TypeOK
<1>17. channel' \in Seq(S) /\ Len(channel') = Len(channel) + 1
  <2> HIDE DEF S
  <2> QED
    BY <1>5, <1>16
<1>18. /\ MessagesApart(channel') /\ PointsSent(channel') = PointsSent(channel) \cup FinalsOf(m)
       /\ \A i \in DOMAIN channel' : (i \in DOMAIN channel /\ channel'[i] = channel[i])
                                       \/ channel'[i] = m
  <2>1. MessagesApart(channel) /\ FinalsOf(m) \cap PointsSent(channel) = {}
    BY <1>15 DEF IInv, Working, Apart
  <2> HIDE DEF S
  <2> DEFINE q == Append(channel, m)
  <2>2. /\ MessagesApart(q) /\ PointsSent(q) = PointsSent(channel) \cup FinalsOf(m)
        /\ \A i \in DOMAIN q : (i \in DOMAIN channel /\ q[i] = channel[i]) \/ q[i] = m
    BY <1>16, <2>1, AppendMessage
  <2> HIDE DEF q
  <2>3. channel' = q
    BY <1>5 DEF q
  <2> QED
    BY <2>2, <2>3
<1>19. Apart'
  BY <1>5, <1>13, <1>15, <1>18 DEF IInv, Working, Apart, PointsFinal
<1>20. Failed' => Failed
  BY <1>5, <1>6, <1>18 DEF Failed, ToSet
<1>21. Failed => Failed'
  <2>1. DOMAIN channel \subseteq DOMAIN channel' /\ \A i \in DOMAIN channel : channel'[i] = channel[i]
    <3> HIDE DEF S
    <3> QED
      BY <1>5, <1>16
  <2> QED
    BY <1>5, <2>1 DEF Failed, ToSet
<1>22. Complete'
  BY <1>5, <1>15, <1>18, <1>21 DEF IInv, Working, Complete, PointsFinal
<1>23. Pending' = Pending
  <2>1. Cardinality(queued) \in Nat /\ Outstanding(running) \in Nat /\ Len(channel) \in Nat
          /\ inserted \in Nat /\ Unfinished(t) \in Nat
    BY PendingType DEF IInv, TypeOK
  <2>2. Outstanding(running') = Outstanding(running) - 1
    BY <1>2, <1>7, <1>13, <2>1
  <2> QED
    BY <1>5, <1>17, <2>1, <2>2 DEF Pending
<1>24. \A i \in DOMAIN channel' : channel'[i] # SplitError => channel'[i].addr[1] \in Layers
  BY <1>1, <1>6, <1>18 DEF IInv, Working, GoodTask
<1>25. /\ IsFiniteSet(queued') /\ \A b \in queued' : GoodBuilder(b)
       /\ total' \in Nat /\ total' = total /\ total >= Pending
  BY <1>5 DEF IInv, TypeOK, Working
<1> QED
  BY <1>5, <1>13, <1>17, <1>19, <1>21, <1>22, <1>23, <1>24, <1>25, PoolKeeps

LEMMA SpawnKeeps ==
  ASSUME IInv, pc # "failed", NEW t \in running, Spawn(t)
  PROVE  IInv'
<1> DEFINE u == [t EXCEPT !.kids = Front(t.kids)]
           n == Len(t.kids)
           b == t.kids[n]
<1>1. GoodTask(t) /\ t \in Task /\ t.kids \in Seq(Builder)
  BY DEF IInv, Working, GoodTask, Task
<1>2. t.uncounted = 0 /\ ~t.overcounted /\ t.sent /\ n \in Nat /\ DOMAIN t.kids = 1..n
  BY <1>1 DEF Spawn, GoodTask
<1>3. n >= 1 /\ n \in DOMAIN t.kids
  <2>1. PointsToSend(t) = {}
    BY <1>2 DEF PointsToSend
  <2>2. PointsOfKids(t) # {}
    BY <1>1, <2>1 DEF GoodTask, PointsOfTask
  <2>3. DOMAIN t.kids # {}
    BY <2>2 DEF PointsOfKids
  <2> QED
    BY <1>2, <2>3
<1>4. /\ Front(t.kids) \in Seq(Builder) /\ Len(Front(t.kids)) = n - 1
      /\ \A i \in 1..(n - 1) : Front(t.kids)[i] = t.kids[i]
  <2> DEFINE q == t.kids
             e == n - 1
  <2>1. \A i \in 1..e : q[i] \in Builder
    BY <1>1, <1>2
  <2>2. e \in Int /\ 1 \in Int
    BY <1>2
  <2> HIDE DEF q, e
  <2>3. /\ SubSeq(q, 1, e) \in Seq(Builder)
        /\ Len(SubSeq(q, 1, e)) = (IF 1 <= e THEN e - 1 + 1 ELSE 0)
        /\ \A i \in 1..(e - 1 + 1) : SubSeq(q, 1, e)[i] = q[1 + i - 1]
    BY <2>1, <2>2, SubSeqProperties
  <2>4. Front(t.kids) = SubSeq(q, 1, e)
    BY DEF Front, q, e
  <2>5. e - 1 + 1 = e /\ (\A i \in 1..e : 1 + i - 1 = i) /\ e \in Nat /\ (IF 1 <= e THEN e - 1 + 1 ELSE 0) = e
    BY <1>2, <1>3 DEF e
  <2>6. SubSeq(q, 1, e) \in Seq(Builder) /\ Len(SubSeq(q, 1, e)) = e
          /\ \A i \in 1..e : SubSeq(q, 1, e)[i] = q[i]
    BY <2>3, <2>5
  <2> QED
    BY <2>4, <2>6 DEF q, e
<1>5. u \in Task
  BY <1>1, <1>4 DEF Task
<1>6. /\ u.addr = t.addr /\ u.node = t.node /\ u.kids = Front(t.kids) /\ u.sent
      /\ ~u.overcounted /\ u.uncounted = 0
  BY <1>1, <1>2 DEF Task
<1>7. Becomes(t, u) /\ queued' = queued \cup {b}
        /\ UNCHANGED <<parameters, total, channel, tree, final, inserted, pc>>
  BY DEF Spawn
<1> HIDE DEF u
<1>8. /\ Len(u.kids) = n - 1 /\ DOMAIN u.kids = 1..(n - 1)
      /\ \A i \in DOMAIN u.kids : i \in DOMAIN t.kids /\ i # n /\ u.kids[i] = t.kids[i]
      /\ \A i \in DOMAIN t.kids : i = n \/ i \in DOMAIN u.kids
  BY <1>2, <1>3, <1>4, <1>6
<1>9. Unfinished(t) = n /\ Unfinished(u) = n - 1
  BY <1>2, <1>6, <1>8 DEF Unfinished
<1> HIDE DEF n
<1>10. GoodBuilder(b) /\ KidsApart(t)
  BY <1>1, <1>3 DEF GoodTask
<1> HIDE DEF b
<1>11. PointsToSend(t) = {} /\ PointsToSend(u) = {}
  BY <1>2, <1>6 DEF PointsToSend
<1>12. PointsOfKids(u) \cap PointsOf(b) = {}
  <2>1. \A i \in DOMAIN u.kids : PointsOf(u.kids[i]) \cap PointsOf(b) = {}
    BY <1>3, <1>8, <1>10 DEF KidsApart, b
  <2> QED
    BY <2>1 DEF PointsOfKids
<1>13. PointsOfKids(t) = PointsOfKids(u) \cup PointsOf(b)
  BY <1>3, <1>8 DEF PointsOfKids, b
<1>14. PointsOfTask(t) = PointsOfTask(u) \cup PointsOf(b) /\ PointsOfTask(u) \cap PointsOf(b) = {}
         /\ PointsOfTask(u) = PointsOfKids(u)
  BY <1>11, <1>12, <1>13 DEF PointsOfTask
<1>15. ASSUME u.sent /\ u.kids = <<>> PROVE PointsOfTask(u) = {} /\ Unfinished(u) = 0
  <2>1. DOMAIN u.kids = {} /\ Len(u.kids) = 0
    BY <1>15
  <2> QED
    <3>1. PointsOfKids(u) = {}
      BY <2>1 DEF PointsOfKids
    <3>2. PointsOfTask(u) = {}
      BY <1>14, <3>1
    <3>3. Unfinished(u) = 0
      BY <1>8, <1>9, <2>1
    <3> QED
      BY <3>2, <3>3
<1>16. ASSUME ~(u.sent /\ u.kids = <<>>) PROVE GoodTask(u)
  <2>1. 1 \in DOMAIN u.kids
    BY <1>5, <1>6, <1>16 DEF Task
  <2>2. u.kids[1].center \in PointsOfKids(u)
    BY <2>1 DEF PointsOfKids, PointsOf
  <2>3. KidsApart(u)
    BY <1>8, <1>10, <1>11 DEF KidsApart
  <2>4. \A j \in DOMAIN u.kids : GoodBuilder(u.kids[j])
    BY <1>1, <1>8 DEF GoodTask
  <2>5. Len(u.kids) \in Nat
    BY <1>5 DEF Task
  <2> QED
    BY <1>1, <1>5, <1>6, <1>14, <2>2, <2>3, <2>4, <2>5 DEF GoodTask
<1>17. /\ IsFiniteSet(running') /\ \A x \in running' : GoodTask(x)
       /\ TasksApart(running')
       /\ PointsOfTasks(running') = (PointsOfTasks(running) \ PointsOfTask(t)) \cup PointsOfTask(u)
       /\ Outstanding(running') = Outstanding(running) - Unfinished(t) + Unfinished(u)
       /\ Unfinished(u) \in Nat
  BY <1>7, <1>14, <1>15, <1>16, TaskMovesOn
<1>18. PointsOfTask(t) \subseteq PointsOfTasks(running)
  BY DEF PointsOfTasks
<1>19. PointsOfTasks(running) = PointsOfTasks(running') \cup PointsOf(b)
         /\ PointsOfTasks(running') \cap PointsOf(b) = {}
  BY <1>14, <1>17, <1>18
<1>20. /\ BuildersApart(queued') /\ b \notin queued
       /\ PointsOfAll(queued') = PointsOfAll(queued) \cup PointsOf(b)
  <2>1. BuildersApart(queued) /\ PointsOf(b) \cap PointsOfAll(queued) = {}
    BY <1>19 DEF IInv, Working, Apart
  <2>2. /\ BuildersApart(queued \cup {b}) /\ b \notin queued
        /\ PointsOfAll(queued \cup {b}) = PointsOfAll(queued) \cup PointsOf(b)
    BY <2>1, AddBuilder
  <2> QED
    BY <1>7, <2>2
<1>21. Apart'
  BY <1>7, <1>17, <1>19, <1>20 DEF IInv, Working, Apart, PointsFinal
<1>22. (Failed' = Failed) /\ Complete'
  BY <1>7, <1>19, <1>20 DEF IInv, Working, Complete, PointsFinal, Failed
<1>23. IsFiniteSet(queued') /\ Cardinality(queued') = Cardinality(queued) + 1
  BY <1>7, <1>20, FS_AddElement DEF IInv
<1>24. Pending' = Pending
  <2>1. Cardinality(queued) \in Nat /\ Outstanding(running) \in Nat /\ Len(channel) \in Nat
          /\ inserted \in Nat /\ Unfinished(t) \in Nat
    BY PendingType DEF IInv, TypeOK
  <2>2. Outstanding(running') = Outstanding(running) - 1
    BY <1>9, <1>17, <2>1
  <2> QED
    BY <1>7, <1>23, <2>1, <2>2 DEF Pending
<1>25. /\ \A c \in queued' : GoodBuilder(c)
       /\ channel' \in Seq([addr: Address, node: Node] \cup {SplitError})
       /\ \A i \in DOMAIN channel' : channel'[i] # SplitError => channel'[i].addr[1] \in Layers
       /\ total' \in Nat /\ total' = total /\ total >= Pending
  BY <1>7, <1>10 DEF IInv, TypeOK, Working
<1> QED
  BY <1>7, <1>17, <1>21, <1>22, <1>23, <1>24, <1>25, PoolKeeps

-----------------------------------------------------------------------------
(* The steps of the building thread.                                       *)

(* The tree and the final addresses after a node has been inserted. *)
LEMMA InsertType ==
  ASSUME TypeOK, NEW m \in [addr: Address, node: Node], m # SplitError,
         tree' = Inserted(m.addr, m.node),
         final' = [p \in Point |-> IF p \in Finals(m.addr, m.node) THEN m.addr ELSE final[p]]
  PROVE  /\ DOMAIN tree' = DOMAIN tree \cup {m.addr}
         /\ tree' \in [DOMAIN tree' -> Node]
         /\ final' \in [Point -> DOMAIN tree' \cup {None}]
         /\ PointsFinal' = PointsFinal \cup FinalsOf(m)
<1>1. m.addr \in Address /\ m.node \in Node /\ m.addr # None
  BY NoneAssumption
<1>2. tree' = [a \in DOMAIN tree \cup {m.addr} |-> IF a = m.addr THEN m.node ELSE tree[a]]
  BY DEF Inserted
<1>3. DOMAIN tree' = DOMAIN tree \cup {m.addr} /\ tree' \in [DOMAIN tree' -> Node]
  BY <1>1, <1>2 DEF TypeOK
<1>4. final' \in [Point -> DOMAIN tree' \cup {None}]
  BY <1>3 DEF TypeOK
<1>5. FinalsOf(m) = Finals(m.addr, m.node) /\ FinalsOf(m) \subseteq Point
  BY <1>1 DEF FinalsOf, Finals, Node, Address, Center
<1>6. PointsFinal' = PointsFinal \cup FinalsOf(m)
  BY <1>1, <1>5 DEF PointsFinal
<1> QED
  BY <1>3, <1>4, <1>6

LEMMA ReceiveKeeps ==
  ASSUME IInv, Receive
  PROVE  IInv'
<1> DEFINE m == Head(channel)
           S == [addr: Address, node: Node] \cup {SplitError}
<1>1. pc = "receive" /\ channel # <<>> /\ channel' = Tail(channel)
        /\ UNCHANGED <<parameters, queued, running, total>>
  BY DEF Receive
<1>2. channel \in Seq(S) /\ Working /\ TypeOK
  BY <1>1 DEF IInv, TypeOK
<1>3. channel' \in Seq(S) /\ m \in S
  <2> HIDE DEF S
  <2>1. Head(channel) \in S /\ Tail(channel) \in Seq(S)
    BY <1>1, <1>2, HeadTailProperties
  <2> QED
    BY <1>1, <2>1
<1>4. /\ MessagesApart(channel')
      /\ PointsSent(channel) = PointsSent(channel') \cup FinalsOf(m)
      /\ PointsSent(channel') \cap FinalsOf(m) = {}
      /\ \A i \in DOMAIN channel' : i + 1 \in DOMAIN channel /\ channel'[i] = channel[i + 1]
      /\ 1 \in DOMAIN channel /\ m = channel[1]
      /\ Len(channel') = Len(channel) - 1 /\ Len(channel) \in Nat /\ Len(channel) >= 1
  <2>1. MessagesApart(channel)
    BY <1>2 DEF Working, Apart
  <2> HIDE DEF S
  <2> QED
    BY <1>1, <1>2, <2>1, TakeMessage
<1>5. CASE m = SplitError
  <2>1. pc' = "failed" /\ UNCHANGED <<tree, final, inserted>>
    BY <1>5 DEF Receive
  <2>2. TypeOK'
    BY <1>1, <1>2, <1>3, <2>1 DEF TypeOK
  <2>3. Accounting'
    BY <2>1 DEF Accounting, Failed
  <2> QED
    BY <1>1, <2>1, <2>2, <2>3 DEF IInv
<1>6. CASE m # SplitError
  <2>1. /\ tree' = Inserted(m.addr, m.node)
        /\ final' = [p \in Point |-> IF p \in Finals(m.addr, m.node) THEN m.addr ELSE final[p]]
        /\ inserted' = inserted + 1
        /\ pc' = "check"
    BY <1>6 DEF Receive
  <2>2. m \in [addr: Address, node: Node] /\ m.addr \in Address
    BY <1>3, <1>6
  <2> HIDE DEF m
  <2>3. /\ DOMAIN tree' = DOMAIN tree \cup {m.addr}
        /\ tree' \in [DOMAIN tree' -> Node]
        /\ final' \in [Point -> DOMAIN tree' \cup {None}]
        /\ PointsFinal' = PointsFinal \cup FinalsOf(m)
    BY <1>2, <1>6, <2>1, <2>2, InsertType
  <2>4. Layers' = Layers /\ (\A b : GoodBuilder(b)' = GoodBuilder(b))
          /\ \A t : GoodTask(t)' = GoodTask(t)
    BY <1>1, GoodStays
  <2>5. m.addr[1] \in Layers
    BY <1>2, <1>4, <1>6 DEF Working
  <2>6. InLayers(m.addr)
    BY <2>2, <2>5 DEF InLayers, Address
  <2>7. \A addr : InLayers(addr)' = InLayers(addr)
    BY <2>4 DEF InLayers
  <2>8. \A addr \in DOMAIN tree' \cup {AddressOf(b) : b \in queued'} : InLayers(addr)'
    BY <1>1, <1>2, <2>3, <2>6, <2>7 DEF TypeOK
  <2>9. TypeOK'
    BY <1>1, <1>2, <1>3, <2>1, <2>3, <2>8 DEF TypeOK
  <2>10. Apart'
    BY <1>1, <1>2, <1>4, <2>3 DEF Working, Apart
  <2>11. Failed => Failed'
    <3> SUFFICES ASSUME Failed PROVE Failed'
      OBVIOUS
    <3>1. PICK i \in DOMAIN channel : channel[i] = SplitError
      BY <1>1 DEF Failed, ToSet
    <3>2. i # 1
      BY <1>4, <1>6, <3>1
    <3>3. i - 1 \in DOMAIN channel' /\ (i - 1) + 1 = i
      <4>1. DOMAIN channel = 1..Len(channel)
        BY <1>2
      <4>2. DOMAIN channel' = 1..Len(channel')
        BY <1>3
      <4> QED
        BY <1>4, <3>2, <4>1, <4>2
    <3>4. channel'[i - 1] = SplitError
      BY <1>4, <3>1, <3>3
    <3> QED
      BY <3>3, <3>4 DEF Failed, ToSet
  <2>12. Complete'
    BY <1>1, <1>2, <1>4, <2>3, <2>11 DEF Working, Complete
  <2>13. Pending' = Pending
    <3>1. Cardinality(queued) \in Nat /\ Outstanding(running) \in Nat /\ inserted \in Nat
      BY <1>1, <1>2, PendingType DEF TypeOK
    <3> QED
      BY <1>1, <1>4, <2>1, <3>1 DEF Pending
  <2>14. Working'
    BY <1>1, <1>2, <1>4, <2>4, <2>10, <2>12, <2>13 DEF Working
  <2>15. Accounting'
    BY <1>1, <2>11, <2>13 DEF IInv, Accounting, Pending
  <2> QED
    BY <1>1, <2>1, <2>9, <2>14, <2>15 DEF IInv
<1> QED
  BY <1>5, <1>6

LEMMA CheckCountKeeps ==
  ASSUME IInv, CheckCount
  PROVE  IInv'
<1>1. /\ pc = "check" /\ (pc' = "done" \/ pc' = "receive")
      /\ (pc' = "done" => inserted = total)
      /\ UNCHANGED <<parameters, queued, running, total, channel, tree, final, inserted>>
  BY DEF CheckCount
<1>2. Layers' = Layers /\ (\A b : GoodBuilder(b)' = GoodBuilder(b))
        /\ \A t : GoodTask(t)' = GoodTask(t)
  BY <1>1, GoodStays
<1>3. Failed' = Failed
  BY <1>1 DEF Failed
<1>4. \A addr : InLayers(addr)' = InLayers(addr)
  BY <1>2 DEF InLayers
<1>5. TypeOK'
  BY <1>1, <1>4 DEF IInv, TypeOK
<1>6. Working'
  BY <1>1, <1>2, <1>3 DEF IInv, Working, Apart, Complete, Pending, PointsFinal
<1>7. Accounting'
  BY <1>1, <1>3 DEF IInv, Accounting
<1> QED
  BY <1>1, <1>5, <1>6, <1>7 DEF IInv

LEMMA StutterKeeps ==
  ASSUME IInv, UNCHANGED vars
  PROVE  IInv'
<1>1. UNCHANGED <<parameters, queued, running, total, channel, tree, final, inserted, pc>>
  BY DEF vars
<1>2. Layers' = Layers /\ (\A b : GoodBuilder(b)' = GoodBuilder(b))
        /\ \A t : GoodTask(t)' = GoodTask(t)
  BY <1>1, GoodStays
<1>3. Failed' = Failed
  BY <1>1 DEF Failed
<1>4. \A addr : InLayers(addr)' = InLayers(addr)
  BY <1>2 DEF InLayers
<1>5. TypeOK'
  BY <1>1, <1>4 DEF IInv, TypeOK
<1>6. ASSUME pc # "failed" PROVE Working'
  BY <1>1, <1>2, <1>3, <1>6 DEF IInv, Working, Apart, Complete, Pending, PointsFinal
<1>7. Accounting'
  BY <1>1, <1>3 DEF IInv, Accounting
<1> QED
  BY <1>1, <1>5, <1>6, <1>7 DEF IInv

-----------------------------------------------------------------------------
LEMMA InitIInv ==
  ASSUME Init
  PROVE  IInv
<1> DEFINE b == Root(parameters)
<1>1. /\ parameters \in Settings /\ queued = {b} /\ running = {} /\ total = 1 /\ channel = <<>>
      /\ tree = <<>> /\ final = [p \in Point |-> None] /\ inserted = 0
      /\ pc \in {"receive", "failed"} /\ (pc = "receive" => RootFits(parameters))
  BY DEF Init
<1>2. b \in Builder /\ b.center \notin b.covered /\ PointsOf(b) = Point
  BY <1>1, RootType
<1>3. ASSUME pc # "failed" PROVE b.scale \in Layers
  <2>1. b.scale >= parameters.minRes
    BY <1>1, <1>3 DEF RootFits
  <2>2. b.scale \in Int /\ parameters.minRes \in Int
    BY <1>1, <1>2, SettingsAssumption DEF Builder, Parameters
  <2> QED
    BY <2>1, <2>2 DEF Layers
<1> HIDE DEF b
<1>4. IsFiniteSet(queued) /\ Cardinality(queued) = 1 /\ IsFiniteSet(running)
  BY <1>1, FS_Singleton, FS_EmptySet
<1>5. Outstanding(running) = 0
  <2>1. Outstanding({}) = SumFunctionOnSet([t \in {} |-> Unfinished(t)], {})
    BY DEF Outstanding
  <2> QED
    BY <1>1, <2>1, SumOfNone
<1>6. Pending = 1
  <2>1. Len(channel) = 0
    BY <1>1
  <2> QED
    BY <1>1, <1>4, <1>5, <2>1 DEF Pending
<1>7. DOMAIN channel = {} /\ DOMAIN tree = {}
  BY <1>1
<1>8. TypeOK
  <2>1. channel \in Seq([addr: Address, node: Node] \cup {SplitError})
    BY <1>1
  <2>2. tree \in [DOMAIN tree -> Node]
    BY <1>1
  <2>3. final \in [Point -> DOMAIN tree \cup {None}]
    BY <1>1
  <2>4. ASSUME pc # "failed", NEW addr \in DOMAIN tree \cup {AddressOf(c) : c \in queued}
        PROVE  InLayers(addr)
    <3>1. addr = AddressOf(b)
      BY <1>1, <1>7
    <3> QED
      BY <1>2, <1>3, <2>4, <3>1 DEF InLayers, AddressOf, Builder
  <2> QED
    BY <1>1, <1>2, <2>1, <2>2, <2>3, <2>4 DEF TypeOK
<1>9. PointsOfAll(queued) = Point /\ PointsOfTasks(running) = {} /\ PointsSent(channel) = {}
        /\ PointsFinal = {}
  BY <1>1, <1>2, <1>7 DEF PointsOfAll, PointsOfTasks, PointsSent, PointsFinal
<1>10. Apart
  BY <1>1, <1>7, <1>9 DEF Apart, BuildersApart, TasksApart, MessagesApart
<1>11. Complete
  BY <1>9 DEF Complete
<1>12. ASSUME pc # "failed" PROVE Working
  BY <1>1, <1>2, <1>3, <1>6, <1>7, <1>10, <1>11, <1>12 DEF Working, GoodBuilder
<1>13. Accounting
  BY <1>1, <1>6 DEF Accounting, Pending
<1>14. pc # "done"
  BY <1>1
<1> QED
  BY <1>4, <1>8, <1>12, <1>13, <1>14 DEF IInv

LEMMA NextIInv ==
  ASSUME IInv, [Next]_vars
  PROVE  IInv'
<1>1. ASSUME pc # "failed", NEW b \in queued, Split(b) PROVE IInv'
  BY <1>1, SplitKeeps
<1>2. ASSUME pc # "failed", NEW b \in queued, SplitFails(b) PROVE IInv'
  BY <1>2, SplitFailsKeeps
<1>3. ASSUME pc # "failed", NEW t \in running, Count(t) PROVE IInv'
  BY <1>3, CountKeeps
<1>4. ASSUME pc # "failed", NEW t \in running, Uncount(t) PROVE IInv'
  BY <1>4, UncountKeeps
<1>5. ASSUME pc # "failed", NEW t \in running, Send(t) PROVE IInv'
  BY <1>5, SendKeeps
<1>6. ASSUME pc # "failed", NEW t \in running, Spawn(t) PROVE IInv'
  BY <1>6, SpawnKeeps
<1>7. CASE Receive
  BY <1>7, ReceiveKeeps
<1>8. CASE CheckCount
  BY <1>8, CheckCountKeeps
<1>9. CASE Stopped \/ UNCHANGED vars
  BY <1>9, StutterKeeps DEF Stopped
<1> QED
  BY <1>1, <1>2, <1>3, <1>4, <1>5, <1>6, <1>7, <1>8, <1>9 DEF Next, PoolNext, BuilderNext

(* The inductive invariant: no node and no point gets lost in the build. *)
LEMMA BuildIsInvariant == Spec => []IInv
<1>1. Init => IInv
  BY InitIInv
<1>2. IInv /\ [Next]_vars => IInv'
  BY NextIInv
<1> QED
  BY <1>1, <1>2, PTL DEF Spec

(* The state of a build stays of its type, and every node it makes is of a *)
(* layer that the vector of layers has room for.                           *)
THEOREM BuildIsTyped == Spec => []TypeOK
<1>1. IInv => TypeOK
  BY DEF IInv
<1> QED
  BY <1>1, BuildIsInvariant, PTL

(* total_nodes is exact, however the tasks' fetch_adds and fetch_subs      *)
(* interleave with one another and with the building thread.               *)
THEOREM BuildCountsNodes == Spec => []Accounting
<1>1. IInv => Accounting
  BY DEF IInv
<1> QED
  BY <1>1, BuildIsInvariant, PTL

(* When build returns, nothing is left to do: no task runs, no node waits  *)
(* in the channel, and every point has its final address.                  *)
Returned ==
  pc = "done" =>
    /\ queued = {} /\ running = {} /\ channel = <<>>
    /\ \A p \in Point : final[p] \in DOMAIN tree

THEOREM BuildReturnsWhole == Spec => []Returned
<1>1. ASSUME IInv PROVE Returned
  <2> SUFFICES ASSUME pc = "done"
               PROVE  /\ queued = {} /\ running = {} /\ channel = <<>>
                      /\ \A p \in Point : final[p] \in DOMAIN tree
    BY DEF Returned
  <2>1. queued = {} /\ running = {} /\ channel = <<>>
    BY <1>1, DoneIsEmpty
  <2>2. PointsOfAll(queued) = {} /\ PointsOfTasks(running) = {}
    BY <2>1 DEF PointsOfAll, PointsOfTasks
  <2>3. DOMAIN channel = {}
    BY <2>1
  <2>4. PointsSent(channel) = {}
    BY <2>3 DEF PointsSent
  <2>5. ~Failed
    BY <2>3 DEF Failed, ToSet
  <2>6. Point \subseteq PointsFinal
    BY <1>1, <2>2, <2>4, <2>5 DEF IInv, Working, Complete
  <2>7. final \in [Point -> DOMAIN tree \cup {None}]
    BY <1>1 DEF IInv, TypeOK
  <2> QED
    BY <2>1, <2>6, <2>7 DEF PointsFinal
<1> QED
  BY <1>1, BuildIsInvariant, PTL

-----------------------------------------------------------------------------
(* A point in exactly one place.                                           *)

Waiting == queued \cup UNION {ToSet(t.kids) : t \in running}
OnTheWay ==
  {[addr |-> t.addr, node |-> t.node] : t \in {u \in running : ~u.sent}} \cup ToSet(channel)

LEMMA OnePlace ==
  ASSUME IInv, ~Failed, NEW p \in Point
  PROVE  \E x : PlacesOf(p) = {x}
<1> DEFINE W == {b \in Waiting : p \in PointsOf(b)}
           M == {m \in OnTheWay : p \in Finals(m.addr, m.node)}
           F == {final[p]} \ {None}
           Msg(t) == [addr |-> t.addr, node |-> t.node]
<1>1. PlacesOf(p) = W \cup M \cup F
  BY DEF PlacesOf, Waiting, OnTheWay
<1>2. pc # "failed" /\ \A i \in DOMAIN channel : channel[i] # SplitError
  BY DEF Failed, ToSet
<1>3. Working /\ Apart
  BY <1>2 DEF IInv, Working
<1>4. \A t \in running : GoodTask(t)
  BY <1>3 DEF Working
<1>5. \A c \in W : c \in queued \/ \E t \in running : \E j \in DOMAIN t.kids : c = t.kids[j]
  BY DEF Waiting, ToSet
<1>6. \A m \in M : \/ \E t \in running : ~t.sent /\ m = Msg(t) /\ p \in PointsToSend(t)
                   \/ \E i \in DOMAIN channel : m = channel[i] /\ p \in FinalsOf(channel[i])
  <2> SUFFICES ASSUME NEW m \in M
               PROVE  \/ \E t \in running : ~t.sent /\ m = Msg(t) /\ p \in PointsToSend(t)
                      \/ \E i \in DOMAIN channel : m = channel[i] /\ p \in FinalsOf(channel[i])
    OBVIOUS
  <2>1. CASE \E t \in {u \in running : ~u.sent} : m = Msg(t)
    <3>1. PICK t \in running : ~t.sent /\ m = Msg(t)
      BY <2>1
    <3>2. p \in Finals(t.addr, t.node)
      BY <3>1
    <3> QED
      BY <3>1, <3>2 DEF PointsToSend
  <2>2. CASE m \in ToSet(channel)
    BY <1>2, <2>2 DEF ToSet, FinalsOf
  <2> QED
    BY <2>1, <2>2 DEF OnTheWay
<1>7. \A c \in W : p \in PointsOf(c)
  OBVIOUS
<1>8. \A t \in running : Msg(t) \in OnTheWay \/ t.sent
  BY DEF OnTheWay
<1>9. \A i \in DOMAIN channel : channel[i] \in OnTheWay
  BY DEF OnTheWay, ToSet
<1>10. (\A b \in queued : b \in Waiting) /\ \A t \in running : \A j \in DOMAIN t.kids : t.kids[j] \in Waiting
  BY DEF Waiting, ToSet
<1>11. F = IF p \in PointsFinal THEN {final[p]} ELSE {}
  BY DEF PointsFinal
<1> DEFINE InQueue == p \in PointsOfAll(queued)
           InTask == p \in PointsOfTasks(running)
           InChannel == p \in PointsSent(channel)
           InTree == p \in PointsFinal
(* The places exclude one another. *)
<1>12. /\ ~(InQueue /\ InTask) /\ ~(InChannel /\ InQueue) /\ ~(InChannel /\ InTask)
       /\ ~(InTree /\ InQueue) /\ ~(InTree /\ InTask) /\ ~(InTree /\ InChannel)
  BY <1>3 DEF Apart
<1>13. InQueue \/ InTask \/ InChannel \/ InTree
  BY <1>3 DEF Working, Complete
<1>14. \A b \in queued : p \in PointsOf(b) => InQueue
  BY DEF PointsOfAll
<1>15. \A t \in running : p \in PointsOfTask(t) => InTask
  BY DEF PointsOfTasks
<1>16. \A t \in running : \A j \in DOMAIN t.kids : p \in PointsOf(t.kids[j]) => p \in PointsOfKids(t)
  BY DEF PointsOfKids
<1>17. \A t \in running : (p \in PointsOfKids(t) => p \in PointsOfTask(t))
                            /\ (p \in PointsToSend(t) => p \in PointsOfTask(t))
  BY DEF PointsOfTask
<1>18. \A i \in DOMAIN channel : p \in FinalsOf(channel[i]) => InChannel
  BY DEF PointsSent
<1>19. \A c \in W : InQueue \/ InTask
  BY <1>5, <1>14, <1>15, <1>16, <1>17
<1>20. \A m \in M : InTask \/ InChannel
  BY <1>6, <1>15, <1>17, <1>18
<1> HIDE DEF W, M, F
<1>21. CASE InQueue
  <2>1. PICK b \in queued : p \in PointsOf(b)
    BY <1>21 DEF PointsOfAll
  <2>2. b \in W
    BY <1>10, <2>1 DEF W
  <2>3. ASSUME NEW c \in W PROVE c = b
    <3>1. c \in queued
      BY <1>5, <1>7, <1>12, <1>15, <1>16, <1>17, <1>21, <2>3
    <3>2. p \in PointsOf(c)
      BY <1>7, <2>3
    <3> QED
      BY <1>3, <2>1, <3>1, <3>2 DEF Apart, BuildersApart
  <2>4. M = {} /\ F = {}
    BY <1>11, <1>12, <1>20, <1>21
  <2>5. PlacesOf(p) = {b}
    BY <1>1, <2>2, <2>3, <2>4
  <2> QED
    BY <2>5
<1>22. CASE InTask
  <2>1. PICK t \in running : p \in PointsOfTask(t)
    BY <1>22 DEF PointsOfTasks
  <2>2. \A u \in running : p \in PointsOfTask(u) => u = t
    BY <1>3, <2>1 DEF Apart, TasksApart
  <2>3. ~(p \in PointsOfKids(t) /\ p \in PointsToSend(t)) /\ KidsApart(t)
    BY <1>4 DEF GoodTask, KidsApart
  <2>4. F = {} /\ ~InChannel /\ ~InQueue
    BY <1>11, <1>12, <1>22
  <2>5. CASE p \in PointsOfKids(t)
    <3>1. PICK j \in DOMAIN t.kids : p \in PointsOf(t.kids[j])
      BY <2>5 DEF PointsOfKids
    <3>2. t.kids[j] \in W
      BY <1>10, <3>1 DEF W
    <3>3. ASSUME NEW c \in W PROVE c = t.kids[j]
      <4>1. c \notin queued /\ p \in PointsOf(c)
        BY <1>7, <1>14, <2>4, <3>3
      <4>2. PICK u \in running : \E k \in DOMAIN u.kids : c = u.kids[k]
        BY <1>5, <3>3, <4>1
      <4>3. u = t
        BY <1>16, <1>17, <2>2, <4>1, <4>2
      <4>4. PICK k \in DOMAIN t.kids : c = t.kids[k]
        BY <4>2, <4>3
      <4> QED
        BY <2>3, <3>1, <4>1, <4>4 DEF KidsApart
    <3>4. M = {}
      <4> SUFFICES ASSUME NEW m \in M PROVE FALSE
        OBVIOUS
      <4>1. PICK u \in running : p \in PointsToSend(u)
        BY <1>6, <1>18, <2>4
      <4> QED
        BY <1>17, <2>2, <2>3, <2>5, <4>1
    <3>5. PlacesOf(p) = {t.kids[j]}
      BY <1>1, <2>4, <3>2, <3>3, <3>4
    <3> QED
      BY <3>5
  <2>6. CASE p \in PointsToSend(t)
    <3>1. ~t.sent /\ p \in Finals(t.addr, t.node)
      BY <2>6 DEF PointsToSend
    <3>2. Msg(t) \in M
      BY <1>8, <3>1 DEF M
    <3>3. ASSUME NEW m \in M PROVE m = Msg(t)
      <4>1. PICK u \in running : m = Msg(u) /\ p \in PointsToSend(u)
        BY <1>6, <1>18, <2>4, <3>3
      <4> QED
        BY <1>17, <2>2, <4>1
    <3>4. W = {}
      <4> SUFFICES ASSUME NEW c \in W PROVE FALSE
        OBVIOUS
      <4>1. c \notin queued /\ p \in PointsOf(c)
        BY <1>7, <1>14, <2>4
      <4>2. PICK u \in running : \E k \in DOMAIN u.kids : c = u.kids[k]
        BY <1>5, <4>1
      <4>3. p \in PointsOfKids(u)
        BY <1>16, <4>1, <4>2
      <4> QED
        BY <1>17, <2>2, <2>3, <2>6, <4>3
    <3>5. PlacesOf(p) = {Msg(t)}
      <4> HIDE DEF Msg
      <4> QED
        BY <1>1, <2>4, <3>2, <3>3, <3>4
    <3> QED
      BY <3>5
  <2> QED
    BY <2>1, <2>5, <2>6 DEF PointsOfTask
<1>23. CASE InChannel
  <2>1. PICK i \in DOMAIN channel : p \in FinalsOf(channel[i])
    BY <1>23 DEF PointsSent
  <2>2. channel[i] \in M
    BY <1>2, <1>9, <2>1 DEF M, FinalsOf
  <2>3. ASSUME NEW m \in M PROVE m = channel[i]
    <3>1. PICK j \in DOMAIN channel : m = channel[j] /\ p \in FinalsOf(channel[j])
      BY <1>6, <1>12, <1>15, <1>17, <1>23, <2>3
    <3> QED
      BY <1>3, <2>1, <3>1 DEF Apart, MessagesApart
  <2>4. W = {} /\ F = {}
    BY <1>11, <1>12, <1>19, <1>23
  <2>5. PlacesOf(p) = {channel[i]}
    BY <1>1, <2>2, <2>3, <2>4
  <2> QED
    BY <2>5
<1>24. CASE InTree
  <2>1. W = {} /\ M = {} /\ F = {final[p]}
    BY <1>11, <1>12, <1>19, <1>20, <1>24
  <2> QED
    BY <1>1, <2>1
<1> QED
  BY <1>13, <1>21, <1>22, <1>23, <1>24

(* No point is lost or handed to two nodes, wherever the build is: every   *)
(* partition, every spawn and every message moves the points it is about.  *)
THEOREM BuildKeepsPoints == Spec => []EveryPointOnce
<1>1. ASSUME IInv PROVE EveryPointOnce
  <2> SUFFICES ASSUME ~Failed, NEW p \in Point PROVE Cardinality(PlacesOf(p)) = 1
    BY DEF EveryPointOnce
  <2>1. PICK x : PlacesOf(p) = {x}
    BY <1>1, OnePlace
  <2> QED
    BY <2>1, FS_Singleton
<1> QED
  BY <1>1, BuildIsInvariant, PTL

-----------------------------------------------------------------------------
(* Distances and scales.                                                   *)

LEMMA WithinOrder ==
  ASSUME NEW d \in Nat, NEW e \in Nat, NEW s \in Int, d <= e, Within(e, s)
  PROVE  Within(d, s)
<1>1. s >= 0 => Powi[s] \in Nat
  BY PowiDef
<1> QED
  BY <1>1 DEF Within

LEMMA WithinZero ==
  ASSUME NEW s \in Int
  PROVE  Within(0, s)
<1>1. s >= 0 => Powi[s] \in Nat /\ Powi[s] > s
  BY PowiDef, PowiGrows
<1> QED
  BY <1>1 DEF Within

(* A point is given to a center that it is near, which none of the others  *)
(* is: the first that is near, or the nearest, where the nested one gives  *)
(* way to the others.                                                      *)
OwnerRules(ps, b, cs, s) ==
  LET D(j, p) == Between(ps, cs[j], p)
      own(p) == Owner(ps, cs, s, p)
  IN /\ \A j, k \in 1..Len(cs) : j # k => ~Within(Between(ps, cs[j], cs[k]), s)
     /\ \A p \in PointsOf(b) :
          /\ own(p) \in 1..Len(cs) /\ Within(D(own(p), p), s)
          /\ ps.first => \A j \in 1..Len(cs) : Within(D(j, p), s) => own(p) <= j
          /\ ~ps.first /\ own(p) = 1 => \A j \in 2..Len(cs) : D(1, p) < D(j, p)
          /\ ~ps.first /\ own(p) # 1 =>
               /\ D(own(p), p) <= D(1, p)
               /\ \A j \in 2..Len(cs) :
                    D(own(p), p) < D(j, p) \/ (D(own(p), p) = D(j, p) /\ own(p) <= j)
     /\ \A j \in 1..Len(cs) : PointsOf(ChildOf(ps, b, cs, s, j)) = {p \in PointsOf(b) : own(p) = j}

LEMMA OwnersRule ==
  ASSUME NEW ps \in Settings, NEW b \in Builder, b.center \notin b.covered, NEW s \in Int,
         NEW centers \in PickCenters(ps, b, s)
  PROVE  OwnerRules(ps, b, <<b.center>> \o centers, s)
<1> DEFINE far == {p \in b.covered : ~Within(Between(ps, b.center, p), s)}
           cs == <<b.center>> \o centers
           D(j, p) == Between(ps, cs[j], p)
           own(p) == Owner(ps, cs, s, p)
<1>1. PICK n \in Nat : centers \in [1..n -> far]
  <2>1. IsFiniteSet(far)
    BY PointAssumption, FS_Subset DEF Builder
  <2>2. Cardinality(far) \in Nat
    BY <2>1, FS_CardinalityType
  <2>3. \E n \in 0..Cardinality(far) : centers \in [1..n -> far]
    BY DEF PickCenters
  <2> HIDE DEF far
  <2> QED
    BY <2>2, <2>3
<1>2. /\ \A j, k \in 1..n : j < k => ~Within(Between(ps, centers[j], centers[k]), s)
      /\ \A p \in far : \E j \in 1..n : Within(Between(ps, centers[j], p), s)
  BY <1>1 DEF PickCenters
<1>3. centers \in [1..n -> b.covered]
  BY <1>1
<1>4. /\ cs \in Seq(Point) /\ Len(cs) = n + 1 /\ DOMAIN cs = 1..(n + 1) /\ cs[1] = b.center
      /\ \A j \in 2..(n + 1) : j - 1 \in 1..n /\ cs[j] = centers[j - 1] /\ cs[j] \in b.covered
  BY <1>3, CentersType
<1>5. Shared(ps, b, cs, s)
  BY PartsPartition
<1>6. /\ \A p \in b.covered : own(p) \in 1..Len(cs)
      /\ \A j \in 2..Len(cs) : own(cs[j]) = j
  BY OwnersExist
<1>7. \A j \in 2..(n + 1) : cs[j] \in far
  BY <1>1, <1>4
<1> HIDE DEF cs
<1>8. \A j \in 1..(n + 1) : cs[j] \in Point
  BY <1>4
<1>9. \A j, k \in 1..(n + 1) : k < j => ~Within(Between(ps, cs[k], cs[j]), s)
  <2> SUFFICES ASSUME NEW j \in 1..(n + 1), NEW k \in 1..(n + 1), k < j
               PROVE  ~Within(Between(ps, cs[k], cs[j]), s)
    OBVIOUS
  <2>1. j \in 2..(n + 1)
    OBVIOUS
  <2>2. CASE k = 1
    BY <1>4, <1>7, <2>1, <2>2
  <2>3. CASE k \in 2..(n + 1)
    <3>1. j - 1 \in 1..n /\ k - 1 \in 1..n /\ k - 1 < j - 1
      BY <2>1, <2>3
    <3> QED
      BY <1>2, <1>4, <2>1, <2>3, <3>1
  <2> QED
    BY <2>2, <2>3
<1>10. \A p, q \in Point : Between(ps, p, q) = Between(ps, q, p) /\ Between(ps, p, p) = 0
                             /\ Between(ps, p, q) \in Nat
  BY CloudAssumption, BetweenType
<1>11. \A j, k \in 1..(n + 1) : j # k => ~Within(Between(ps, cs[j], cs[k]), s)
  <2> SUFFICES ASSUME NEW j \in 1..(n + 1), NEW k \in 1..(n + 1), j # k
               PROVE  ~Within(Between(ps, cs[j], cs[k]), s)
    OBVIOUS
  <2>1. j < k \/ k < j
    OBVIOUS
  <2> QED
    BY <1>8, <1>9, <1>10, <2>1
<1>12. PointsOf(b) \subseteq Point /\ \A p \in PointsOf(b) : p = b.center \/ p \in b.covered
  BY DEF PointsOf, Builder
<1>13. \A p \in PointsOf(b), j \in 1..(n + 1) : D(j, p) \in Nat
  BY <1>8, <1>10, <1>12
<1>14. \A p \in PointsOf(b) : \E j \in 1..(n + 1) : Within(D(j, p), s)
  <2> TAKE p \in PointsOf(b)
  <2>1. 1 \in 1..(n + 1)
    OBVIOUS
  <2>2. CASE p = b.center
    BY <1>4, <1>8, <1>10, <2>1, <2>2, WithinZero
  <2>3. CASE p \in b.covered \ far
    BY <1>4, <2>1, <2>3
  <2>4. CASE p \in far
    <3>1. PICK j \in 1..n : Within(Between(ps, centers[j], p), s)
      BY <1>2, <2>4
    <3>2. j + 1 \in 2..(n + 1) /\ (j + 1) - 1 = j /\ j + 1 \in 1..(n + 1)
      OBVIOUS
    <3>3. cs[j + 1] = centers[j]
      BY <1>4, <3>2
    <3> QED
      BY <3>1, <3>2, <3>3
  <2> QED
    BY <1>12, <2>2, <2>3, <2>4
<1> HIDE DEF far
<1>15. ASSUME ps.first, NEW p \in PointsOf(b)
       PROVE  /\ own(p) \in 1..Len(cs) /\ Within(D(own(p), p), s)
              /\ \A j \in 1..Len(cs) : Within(D(j, p), s) => own(p) <= j
  <2> DEFINE T == {j \in DOMAIN cs : Within(Between(ps, cs[j], p), s)}
  <2>1. T \in SUBSET Nat /\ T # {} /\ T \subseteq 1..(n + 1) /\ \A j \in 1..(n + 1) : Within(D(j, p), s) => j \in T
    BY <1>4, <1>14
  <2>2. own(p) = Min(T)
    BY <1>15 DEF Owner, FirstOwner
  <2>3. \A j \in T : Within(D(j, p), s)
    OBVIOUS
  <2> HIDE DEF T
  <2>4. Min(T) \in T /\ \A j \in T : Min(T) <= j
    BY <2>1, MinOfNaturals
  <2> HIDE DEF D
  <2> QED
    BY <1>4, <2>1, <2>2, <2>3, <2>4
<1>16. ASSUME ~ps.first, NEW p \in PointsOf(b)
       PROVE  /\ own(p) \in 1..Len(cs) /\ Within(D(own(p), p), s)
              /\ own(p) = 1 => \A j \in 2..Len(cs) : D(1, p) < D(j, p)
              /\ own(p) # 1 =>
                   /\ D(own(p), p) <= D(1, p)
                   /\ \A j \in 2..Len(cs) :
                        D(own(p), p) < D(j, p) \/ (D(own(p), p) = D(j, p) /\ own(p) <= j)
  <2> DEFINE T == {j \in 2..Len(cs) : \A k \in 2..Len(cs) : D(j, p) <= D(k, p)}
             nested == \A j \in 2..Len(cs) : D(1, p) < D(j, p)
  <2>1. own(p) = IF nested THEN 1 ELSE Min(T)
    BY <1>16 DEF Owner, AssignToNearest
  <2>2. Len(cs) = n + 1 /\ \A j \in 2..(n + 1) : j \in 1..(n + 1) /\ j # 1
    BY <1>4
  <2>3. PICK h \in 1..(n + 1) : Within(D(h, p), s)
    BY <1>14
  <2>4. CASE nested
    <3>1. own(p) = 1
      BY <2>1, <2>4
    <3>2. h = 1 \/ h \in 2..Len(cs)
      BY <2>2
    <3>3. D(1, p) <= D(h, p) /\ D(1, p) \in Nat /\ D(h, p) \in Nat
      <4>1. D(1, p) \in Nat /\ D(h, p) \in Nat
        BY <1>13
      <4> HIDE DEF D
      <4> QED
        BY <2>4, <3>2, <4>1
    <3>4. Within(D(1, p), s)
      <4> HIDE DEF D
      <4> QED
        BY <2>3, <3>3, WithinOrder
    <3> QED
      BY <2>2, <2>4, <3>1, <3>4
  <2>5. CASE ~nested
    <3>1. PICK i \in 2..Len(cs) : ~(D(1, p) < D(i, p))
      BY <2>5
    <3>2. \A j \in 1..(n + 1) : D(j, p) \in Nat
      BY <1>13
    <3> HIDE DEF D
    <3>3. T # {} /\ T \in SUBSET Nat
      <4> DEFINE V == {D(j, p) : j \in 2..Len(cs)}
      <4>1. V \in SUBSET Nat /\ D(i, p) \in V
        BY <2>2, <3>2
      <4>2. PICK v \in V : \A w \in V : v <= w
        <5> HIDE DEF V
        <5> QED
          BY <4>1, LeastNatural
      <4>3. PICK k \in 2..Len(cs) : v = D(k, p)
        OBVIOUS
      <4>4. \A j \in 2..Len(cs) : D(j, p) \in V
        OBVIOUS
      <4> HIDE DEF V
      <4>5. k \in T
        BY <4>2, <4>3, <4>4
      <4> QED
        BY <2>2, <4>5
    <3> DEFINE o == Min(T)
    <3>4. o \in T /\ \A k \in T : o <= k
      <4> HIDE DEF T
      <4> QED
        BY <3>3, MinOfNaturals
    <3>5. own(p) = o
      BY <2>1, <2>5
    <3> HIDE DEF o
    <3>6. o \in 2..Len(cs) /\ o \in 1..(n + 1) /\ o # 1 /\ \A k \in 2..Len(cs) : D(o, p) <= D(k, p)
      BY <2>2, <3>4
    <3>7. D(o, p) <= D(1, p)
      <4>1. D(o, p) <= D(i, p) /\ D(o, p) \in Nat /\ D(i, p) \in Nat /\ D(1, p) \in Nat
        BY <2>2, <3>1, <3>2, <3>6
      <4> QED
        BY <3>1, <4>1
    <3>8. ASSUME NEW j \in 2..Len(cs)
          PROVE  D(o, p) < D(j, p) \/ (D(o, p) = D(j, p) /\ o <= j)
      <4>1. D(o, p) \in Nat /\ D(j, p) \in Nat /\ D(o, p) <= D(j, p)
        BY <2>2, <3>2, <3>6
      <4>2. CASE D(o, p) = D(j, p)
        BY <3>4, <3>6, <4>2
      <4> QED
        BY <4>1, <4>2
    <3>9. Within(D(o, p), s)
      <4>1. h = 1 \/ h \in 2..Len(cs)
        BY <2>2
      <4>2. D(o, p) <= D(h, p) /\ D(o, p) \in Nat /\ D(h, p) \in Nat
        BY <3>2, <3>6, <3>7, <4>1
      <4> QED
        BY <2>3, <4>2, WithinOrder
    <3> QED
      BY <2>2, <3>5, <3>6, <3>7, <3>8, <3>9
  <2> QED
    BY <2>4, <2>5
<1>17. ASSUME NEW j \in 1..Len(cs)
       PROVE  PointsOf(ChildOf(ps, b, cs, s, j)) = {p \in PointsOf(b) : own(p) = j}
  <2> DEFINE C(i) == PointsOf(ChildOf(ps, b, cs, s, i))
  <2>1. \A i : C(i) = {p \in b.covered : p # cs[i] /\ own(p) = i} \cup {cs[i]}
    BY DEF PointsOf, ChildOf, Part, Owner
  <2>2. \A p \in PointsOf(b) : own(p) \in 1..Len(cs) /\ Within(D(own(p), p), s)
    BY <1>15, <1>16
  <2>3. cs[j] \in PointsOf(b)
    BY <1>5 DEF Shared, PointsOf, ChildOf
  <2>4. own(cs[j]) = j
    BY <1>4, <1>11, <2>2, <2>3
  <2>5. \A p \in PointsOf(b) : p \in b.covered \/ p = cs[1]
    BY <1>4, <1>12
  <2>6. own(cs[1]) = 1
    <3>1. cs[1] \in PointsOf(b) /\ 1 \in 1..Len(cs)
      BY <1>4 DEF PointsOf
    <3> QED
      BY <1>4, <1>11, <2>2, <3>1
  <2>7. b.covered \subseteq PointsOf(b)
    BY DEF PointsOf
  <2>8. ASSUME NEW p \in PointsOf(b), own(p) = j PROVE p \in C(j)
    BY <2>1, <2>5, <2>6, <2>8
  <2>9. ASSUME NEW p \in C(j) PROVE p \in PointsOf(b) /\ own(p) = j
    BY <2>1, <2>3, <2>4, <2>7, <2>9
  <2> QED
    BY <2>8, <2>9
<1>18. OwnerRules(ps, b, cs, s)
  BY <1>4, <1>11, <1>15, <1>16, <1>17 DEF OwnerRules
<1> QED
  BY <1>18 DEF cs

-----------------------------------------------------------------------------
(* The child a point goes to.                                              *)

(* Of finitely many distances one is the least, and first among its likes. *)
LEMMA ClosestExists ==
  ASSUME NEW n \in Nat, NEW D, \A i \in 2..n : D[i] \in Nat, NEW i0 \in 2..n
  PROVE  \E i \in 2..n : \A j \in 2..n : D[i] < D[j] \/ (D[i] = D[j] /\ i <= j)
<1> DEFINE V == {D[j] : j \in 2..n}
<1>1. V \in SUBSET Nat /\ D[i0] \in V
  OBVIOUS
<1>2. PICK v \in V : \A w \in V : v <= w
  <2> HIDE DEF V
  <2> QED
    BY <1>1, LeastNatural
<1> DEFINE T == {j \in 2..n : D[j] = v}
<1>3. T \in SUBSET Nat /\ T # {}
  OBVIOUS
<1>4. PICK i \in T : \A j \in T : i <= j
  <2> HIDE DEF T
  <2> QED
    BY <1>3, LeastNatural
<1>5. i \in 2..n /\ D[i] = v
  BY <1>4
<1>6. ASSUME NEW j \in 2..n PROVE D[i] < D[j] \/ (D[i] = D[j] /\ i <= j)
  <2>1. D[j] \in V /\ D[i] \in Nat /\ D[j] \in Nat /\ D[i] <= D[j]
    BY <1>2, <1>5
  <2>2. CASE D[i] = D[j]
    BY <1>4, <1>5, <2>2
  <2> QED
    BY <2>1, <2>2
<1> QED
  BY <1>5, <1>6

(* The child i is the one that a point goes to, as the partition has it. *)
IsChosen(ps, kids, p, i) ==
  LET D(j) == Between(ps, Center(kids[j]), p)
      near(j) == Within(D(j), Scale(kids[j]))
  IN /\ near(i)
     /\ ps.first => \A j \in 1..Len(kids) : near(j) => i <= j
     /\ ~ps.first /\ i = 1 => \A j \in 2..Len(kids) : D(1) < D(j)
     /\ ~ps.first /\ i # 1 =>
          /\ D(i) <= D(1)
          /\ \A j \in 2..Len(kids) : D(i) < D(j) \/ (D(i) = D(j) /\ i <= j)

LEMMA ChosenChild ==
  ASSUME NEW ps \in Settings, NEW node \in Node, NEW p \in Point,
         NEW i \in 1..Len(node.children), IsChosen(ps, node.children, p, i)
  PROVE  CoveringChild(ps, node, p) = node.children[i]
<1> DEFINE kids == node.children
           D(j) == Between(ps, Center(kids[j]), p)
           near(j) == Within(D(j), Scale(kids[j]))
<1>1. kids \in Seq(Address) /\ Len(kids) \in Nat /\ DOMAIN kids = 1..Len(kids) /\ kids # <<>>
  BY DEF Node
<1>2. \A j \in 1..Len(kids) : D(j) \in Nat
  <2> TAKE j \in 1..Len(kids)
  <2>1. Center(kids[j]) \in Point
    BY <1>1 DEF Center, Address
  <2> QED
    BY <2>1, BetweenType
<1>3. CASE ps.first
  <2> DEFINE covering == {j \in DOMAIN kids : near(j)}
  <2>1. i \in covering /\ \A j \in covering : i <= j
    BY <1>1, <1>3 DEF IsChosen
  <2>2. covering \in SUBSET Nat
    BY <1>1
  <2>3. CoveringChild(ps, node, p) =
          IF covering # {} THEN kids[CHOOSE j \in covering : \A k \in covering : j <= k] ELSE None
    BY <1>3 DEF CoveringChild, FirstCoveringChild
  <2> HIDE DEF covering
  <2>4. (CHOOSE j \in covering : \A k \in covering : j <= k) = i
    <3> DEFINE m == CHOOSE j \in covering : \A k \in covering : j <= k
    <3>1. m \in covering /\ \A k \in covering : m <= k
      BY <2>1
    <3> HIDE DEF m
    <3>2. m = i
      BY <2>1, <2>2, <3>1
    <3> QED
      BY <3>2 DEF m
  <2> QED
    BY <2>1, <2>3, <2>4
<1>4. CASE ~ps.first
  <2> DEFINE others == 2..Len(kids)
             first(j) == \A k \in others : D(j) < D(k) \/ (D(j) = D(k) /\ j <= k)
             closest == CHOOSE j \in others : first(j)
             h == IF \A j \in others : D(1) < D(j) THEN 1 ELSE closest
  <2>1. CoveringChild(ps, node, p) = IF kids # <<>> /\ near(h) THEN kids[h] ELSE None
    BY <1>4 DEF CoveringChild, NearestCoveringChild
  <2>2. h = i
    <3>1. CASE i = 1
      BY <1>4, <3>1 DEF IsChosen
    <3>2. CASE i # 1
      <4>1. i \in others /\ first(i) /\ D(i) <= D(1) /\ 1 \in 1..Len(kids)
        BY <1>1, <1>4, <3>2 DEF IsChosen
      <4>2. D(i) \in Nat /\ D(1) \in Nat
        BY <1>2, <4>1
      <4>3. ~(D(1) < D(i))
        <5> HIDE DEF D
        <5> QED
          BY <4>1, <4>2
      <4>4. h = closest
        <5> HIDE DEF D, closest
        <5> QED
          BY <4>1, <4>3
      <4>5. closest \in others /\ first(closest)
        <5> HIDE DEF first
        <5> QED
          BY <4>1
      <4>6. \A j \in others : j \in 1..Len(kids) /\ D(j) \in Nat
        <5>1. \A j \in others : j \in 1..Len(kids)
          BY <1>1
        <5> HIDE DEF D
        <5> QED
          BY <1>2, <5>1
      <4> HIDE DEF closest, D, h
      <4>7. closest <= i /\ i <= closest
        BY <4>1, <4>2, <4>5, <4>6
      <4>8. closest = i
        BY <4>5, <4>7
      <4> QED
        BY <4>4, <4>8
    <3> QED
      BY <3>1, <3>2
  <2>3. near(i)
    BY DEF IsChosen
  <2> HIDE DEF h, near
  <2> QED
    BY <1>1, <2>1, <2>2, <2>3
<1> QED
  BY <1>3, <1>4

LEMMA ChildIsNear ==
  ASSUME NEW ps \in Settings, NEW node \in Node, NEW p \in Point
  PROVE  \/ CoveringChild(ps, node, p) = None
         \/ \E j \in 1..Len(node.children) :
              /\ CoveringChild(ps, node, p) = node.children[j]
              /\ Within(Between(ps, Center(node.children[j]), p), Scale(node.children[j]))
<1> DEFINE kids == node.children
           D(j) == Between(ps, Center(kids[j]), p)
           near(j) == Within(D(j), Scale(kids[j]))
<1>1. kids \in Seq(Address) /\ Len(kids) \in Nat /\ DOMAIN kids = 1..Len(kids)
      /\ (kids # <<>> => Len(kids) >= 1)
  BY DEF Node
<1>2. \A j \in 1..Len(kids) : D(j) \in Nat
  <2> TAKE j \in 1..Len(kids)
  <2>1. Center(kids[j]) \in Point
    BY <1>1 DEF Center, Address
  <2> QED
    BY <2>1, BetweenType
<1>3. CASE ps.first
  <2> DEFINE covering == {j \in DOMAIN kids : near(j)}
             m == CHOOSE j \in covering : \A k \in covering : j <= k
  <2>1. CoveringChild(ps, node, p) = IF covering # {} THEN kids[m] ELSE None
    BY <1>3 DEF CoveringChild, FirstCoveringChild
  <2>2. covering \in SUBSET Nat /\ \A j \in covering : j \in 1..Len(kids) /\ near(j)
    BY <1>1
  <2> HIDE DEF covering, near
  <2>3. CASE covering # {}
    <3>1. \E j \in covering : \A k \in covering : j <= k
      BY <2>2, <2>3, LeastNatural
    <3>2. m \in covering
      BY <3>1
    <3> HIDE DEF m
    <3> QED
      BY <2>1, <2>2, <2>3, <3>2 DEF near
  <2> QED
    BY <2>1, <2>3
<1>4. CASE ~ps.first
  <2> DEFINE others == 2..Len(kids)
             first(j) == \A k \in others : D(j) < D(k) \/ (D(j) = D(k) /\ j <= k)
             closest == CHOOSE j \in others : first(j)
             h == IF \A j \in others : D(1) < D(j) THEN 1 ELSE closest
  <2>1. CoveringChild(ps, node, p) = IF kids # <<>> /\ near(h) THEN kids[h] ELSE None
    BY <1>4 DEF CoveringChild, NearestCoveringChild
  <2>2. kids # <<>> => h \in 1..Len(kids)
    <3>1. CASE \A j \in others : D(1) < D(j)
      <4>1. h = 1
        <5> HIDE DEF D, closest
        <5> QED
          BY <3>1
      <4> HIDE DEF h
      <4> QED
        BY <1>1, <4>1
    <3>2. CASE ~ \A j \in others : D(1) < D(j)
      <4>1. h = closest
        <5> HIDE DEF D, closest
        <5> QED
          BY <3>2
      <4>2. PICK i0 \in others : TRUE
        BY <3>2
      <4> DEFINE E == [j \in 1..Len(kids) |-> D(j)]
      <4>3. \A j \in others : j \in 1..Len(kids) /\ E[j] = D(j) /\ E[j] \in Nat
        <5>1. \A j \in others : j \in 1..Len(kids)
          BY <1>1
        <5> HIDE DEF D
        <5> QED
          BY <1>2, <5>1
      <4>4. \E i \in others : \A j \in others : E[i] < E[j] \/ (E[i] = E[j] /\ i <= j)
        <5> HIDE DEF E
        <5> QED
          BY <1>1, <4>2, <4>3, ClosestExists
      <4>5. \E i \in others : first(i)
        <5> HIDE DEF E, D
        <5> QED
          BY <4>3, <4>4
      <4>6. closest \in others
        <5> HIDE DEF first
        <5> QED
          BY <4>5
      <4> HIDE DEF closest, h
      <4> QED
        BY <4>1, <4>3, <4>6
    <3> QED
      BY <3>1, <3>2
  <2> HIDE DEF h
  <2> QED
    BY <2>1, <2>2
<1> QED
  BY <1>3, <1>4

LEMMA NoChild ==
  ASSUME NEW ps \in Settings, NEW node \in Node, NEW p \in Point,
         \A j \in 1..Len(node.children) :
           ~Within(Between(ps, Center(node.children[j]), p), Scale(node.children[j]))
  PROVE  CoveringChild(ps, node, p) = None
BY ChildIsNear

-----------------------------------------------------------------------------
(* What the split of a node hands down.                                    *)

Separated(ps, node) ==
  \A p, q \in {Center(c) : c \in ToSet(node.children)} \cup node.singletons :
    p # q => ~Within(Between(ps, p, q), Scale(node.children[1]))

(* The children are those that are spawned; each covers what the partition *)
(* of the tree sends to it, near its center, and the node keeps the rest.  *)
HandsDown(ps, b, t) ==
  /\ t.addr = AddressOf(b) /\ t.node \in Node /\ t.node.parent = b.parent
  /\ t.node.count = Cardinality(PointsOf(b))
  /\ t.kids \in Seq(Builder)
  /\ ToSet(t.node.children) = {AddressOf(k) : k \in ToSet(t.kids)}
  /\ \A k \in ToSet(t.kids) :
       /\ k.center \notin k.covered /\ k.parent = AddressOf(b) /\ k.scale < b.scale
       /\ PointsOf(k) = {p \in PointsOf(b) : CoveringChild(ps, t.node, p) = AddressOf(k)}
       /\ \A p \in PointsOf(k) : Within(Between(ps, k.center, p), k.scale)
  /\ Finals(t.addr, t.node) = {p \in PointsOf(b) : CoveringChild(ps, t.node, p) = None}
  /\ \A p \in PointsOf(b) : CoveringChild(ps, t.node, p) \in ToSet(t.node.children) \cup {None}
  /\ ~IsLeaf(t.node) => Separated(ps, t.node)

LEMMA ToSetOf ==
  ASSUME NEW S, NEW s \in Seq(S)
  PROVE  ToSet(s) = {s[i] : i \in 1..Len(s)} /\ ToSet(s) \subseteq S
BY DEF ToSet

LEMMA PointsCounted ==
  ASSUME NEW b \in Builder, b.center \notin b.covered
  PROVE  /\ IsFiniteSet(PointsOf(b)) /\ PointsOf(b) \subseteq Point
         /\ CoveredLen(b) = Cardinality(PointsOf(b)) /\ Cardinality(PointsOf(b)) \in Nat
<1>1. b.covered \subseteq Point /\ b.center \in Point
  BY DEF Builder
<1>2. IsFiniteSet(b.covered)
  BY <1>1, PointAssumption, FS_Subset
<1>3. /\ IsFiniteSet(b.covered \cup {b.center})
      /\ Cardinality(b.covered \cup {b.center}) = Cardinality(b.covered) + 1
  BY <1>2, FS_AddElement
<1> QED
  BY <1>1, <1>3, FS_CardinalityType DEF PointsOf, CoveredLen

(* A node without children keeps what it has. *)
LEMMA LeafHandsDown ==
  ASSUME NEW ps \in Settings, NEW b \in Builder, NEW t, t.node \in Node, t.addr = AddressOf(b),
         t.node.parent = b.parent, t.node.count = Cardinality(PointsOf(b)),
         t.kids = <<>>, t.node.children = <<>>, Finals(t.addr, t.node) = PointsOf(b)
  PROVE  HandsDown(ps, b, t)
<1>1. ToSet(t.kids) = {} /\ ToSet(t.node.children) = {} /\ t.kids \in Seq(Builder)
  BY DEF ToSet
<1>2. PointsOf(b) \subseteq Point
  BY DEF PointsOf, Builder
<1>3. Len(t.node.children) = 0 /\ 1..0 = {}
  OBVIOUS
<1>4. \A p \in PointsOf(b) : CoveringChild(ps, t.node, p) = None
  BY <1>2, <1>3, NoChild
<1> QED
  BY <1>1, <1>4 DEF HandsDown, IsLeaf

LEMMA FineTaskHandsDown ==
  ASSUME parameters \in Settings, NEW b, GoodBuilder(b)
  PROVE  HandsDown(parameters, b, FineTask(parameters, b))
<1> DEFINE t == FineTask(parameters, b)
<1>1. b \in Builder /\ b.center \notin b.covered
  BY DEF GoodBuilder
<1>2. t \in Task /\ t.kids = <<>> /\ PointsOfTask(t) = PointsOf(b) /\ ~t.sent
  BY FineTaskDivides DEF Divides, GoodTask, FineTask
<1>3. t.node.count = Cardinality(PointsOf(b))
  BY <1>1, PointsCounted DEF FineTask
<1>4. t.addr = AddressOf(b) /\ t.node.parent = b.parent /\ t.node.children = <<>>
  BY DEF FineTask
<1> HIDE DEF t
<1>5. t.node \in Node
  BY <1>2 DEF Task
<1>6. DOMAIN t.kids = {}
  BY <1>2
<1>7. PointsOfKids(t) = {}
  BY <1>6 DEF PointsOfKids
<1>8. Finals(t.addr, t.node) = PointsOf(b)
  BY <1>2, <1>7 DEF PointsOfTask, PointsToSend
<1>9. HandsDown(parameters, b, t)
  BY <1>1, <1>2, <1>3, <1>4, <1>5, <1>8, LeafHandsDown
<1> QED
  BY <1>9 DEF t

(* As many points as indexes that name them. *)
LEMMA NamedPoints ==
  ASSUME NEW n \in Nat, NEW cs, NEW I \in SUBSET (1..n),
         \A j, k \in I : j # k => cs[j] # cs[k]
  PROVE  LET S == {cs[j] : j \in I}
         IN IsFiniteSet(S) /\ Cardinality(S) = Cardinality(I) /\ Cardinality(I) \in Nat
<1> DEFINE S == {cs[j] : j \in I}
           f == [j \in I |-> cs[j]]
           K == 1..n
<1>1. IsFiniteSet(I)
  <2>1. IsFiniteSet(K) /\ I \subseteq K
    BY FS_Interval
  <2> HIDE DEF K
  <2> QED
    BY <2>1, FS_Subset
<1>2. f \in Bijection(I, S)
  <2>1. f \in [I -> S]
    OBVIOUS
  <2>2. \A j, k \in I : f[j] = f[k] => j = k
    OBVIOUS
  <2>3. \A x \in S : \E j \in I : f[j] = x
    OBVIOUS
  <2> HIDE DEF f, S
  <2> QED
    BY <2>1, <2>2, <2>3 DEF Bijection, Injection, Surjection, IsInjective
<1>3. ExistsBijection(I, S)
  BY <1>2 DEF ExistsBijection
<1> HIDE DEF S
<1>4. IsFiniteSet(S) /\ Cardinality(S) = Cardinality(I)
  BY <1>1, <1>3, FS_Bijection
<1> QED
  BY <1>1, <1>4, FS_CardinalityType DEF S

(* A node that is divided hands every point to the child of its owner.     *)
LEMMA BranchHandsDown ==
  ASSUME NEW ps \in Settings, NEW b \in Builder, NEW s \in Int, s < b.scale,
         NEW n \in Nat, NEW cs \in Seq(Point), Len(cs) = n + 1, OwnerRules(ps, b, cs, s),
         \A j \in 1..(n + 1) :
           ChildOf(ps, b, cs, s, j) \in Builder /\ cs[j] \notin Part(ps, b, cs, s, j),
         NEW t \in Task, t.addr = AddressOf(b), t.node.parent = b.parent,
         t.node.singletons = {cs[j] : j \in Alone(ps, b, cs, s)},
         b.center \notin b.covered,
         NEW kept, NEW order, BranchMade(ps, b, cs, s, t, kept, order)
  PROVE  HandsDown(ps, b, t)
<1> DEFINE J == 1..(n + 1)
           alone == Alone(ps, b, cs, s)
           rest == Rest(ps, b, cs, s)
           R == rest \cup {1}
           own(p) == Owner(ps, cs, s, p)
           child(j) == ChildOf(ps, b, cs, s, j)
           spot(j) == <<s, cs[j]>>
           kids == t.node.children
           m == Len(kept) + 1
           idx == [i \in 1..m |-> IF i = 1 THEN 1 ELSE kept[i - 1]]
<1>1. /\ alone \subseteq J /\ R \subseteq J /\ alone \cap R = {} /\ 1 \notin rest
      /\ \A j \in J : j \in alone \/ j \in R
      /\ \A j \in rest : j >= 2
      /\ \A j \in alone : Part(ps, b, cs, s, j) = {}
  BY DEF Alone, Rest, IsAlone
<1>2. \A j \in J : cs[j] \in Point /\ spot(j) \in Address /\ AddressOf(child(j)) = spot(j)
  BY DEF AddressOf, ChildOf, Address
<1>3. /\ \A j \in J : /\ child(j).center = cs[j] /\ child(j).scale = s /\ child(j).parent = AddressOf(b)
                      /\ child(j).covered = Part(ps, b, cs, s, j)
                      /\ PointsOf(child(j)) = Part(ps, b, cs, s, j) \cup {cs[j]}
      /\ \A j \in J : child(j) \in Builder /\ child(j).center \notin child(j).covered
  BY DEF ChildOf, PointsOf
<1>4. PointsOf(b) \subseteq Point
  BY DEF PointsOf, Builder
<1>5. /\ \A j, k \in J : j # k => ~Within(Between(ps, cs[j], cs[k]), s)
      /\ \A p \in PointsOf(b) :
           /\ own(p) \in J /\ Within(Between(ps, cs[own(p)], p), s)
           /\ ps.first => \A j \in J : Within(Between(ps, cs[j], p), s) => own(p) <= j
           /\ ~ps.first /\ own(p) = 1 =>
                \A j \in 2..(n + 1) : Between(ps, cs[1], p) < Between(ps, cs[j], p)
           /\ ~ps.first /\ own(p) # 1 =>
                /\ Between(ps, cs[own(p)], p) <= Between(ps, cs[1], p)
                /\ \A j \in 2..(n + 1) :
                     \/ Between(ps, cs[own(p)], p) < Between(ps, cs[j], p)
                     \/ Between(ps, cs[own(p)], p) = Between(ps, cs[j], p) /\ own(p) <= j
      /\ \A j \in J : PointsOf(child(j)) = {p \in PointsOf(b) : own(p) = j}
  <2> HIDE DEF own, child
  <2> QED
    BY DEF OwnerRules, own, child
<1>6. /\ kept \in Seq(Nat) /\ Lists(kept, rest) /\ Increasing(kept) /\ Len(kept) \in Nat
      /\ Len(kids) = m /\ kids[1] = spot(1) /\ \A i \in 1..Len(kept) : kids[i + 1] = spot(kept[i])
      /\ order \in Seq(Nat) /\ Lists(order, R) /\ Len(t.kids) = Len(order)
      /\ \A k \in 1..Len(order) : t.kids[k] = child(order[k])
      /\ t.node.count =
           Cardinality(alone)
             + SumFunctionOnSet([k \in DOMAIN t.kids |-> CoveredLen(t.kids[k])], DOMAIN t.kids)
  <2>1. \A j : AddressOf(child(j)) = spot(j)
    BY DEF AddressOf, ChildOf
  <2>2. /\ kept \in Seq(Nat) /\ Lists(kept, rest) /\ Increasing(kept)
        /\ Len(kids) = m /\ kids[1] = AddressOf(child(1))
        /\ \A i \in 1..Len(kept) : kids[i + 1] = AddressOf(child(kept[i]))
    BY DEF BranchMade
  <2>3. /\ order \in Seq(Nat) /\ Lists(order, R) /\ Len(t.kids) = Len(order)
        /\ \A k \in 1..Len(order) : t.kids[k] = child(order[k])
    BY DEF BranchMade
  <2>4. t.node.count =
          Cardinality(alone)
            + SumFunctionOnSet([k \in DOMAIN t.kids |-> CoveredLen(t.kids[k])], DOMAIN t.kids)
    BY DEF BranchMade
  <2>5. Len(kept) \in Nat
    BY <2>2
  <2> HIDE DEF child, alone, rest, kids
  <2>6. kids[1] = spot(1) /\ \A i \in 1..Len(kept) : kids[i + 1] = spot(kept[i])
    BY <2>1, <2>2
  <2> QED
    BY <2>2, <2>3, <2>4, <2>5, <2>6
<1>7. t.node \in Node /\ t.kids \in Seq(Builder) /\ kids \in Seq(Address)
  BY DEF Task, Node
<1>8. DOMAIN t.kids = 1..Len(order) /\ DOMAIN kids = 1..m
  BY <1>6, <1>7
<1> HIDE DEF alone, rest, own, child, kids
<1>9. /\ \A i \in 1..m : idx[i] \in R /\ kids[i] = spot(idx[i])
      /\ \A i, j \in 1..m : i < j => idx[i] < idx[j]
      /\ \A j \in R : \E i \in 1..m : idx[i] = j
      /\ idx[1] = 1 /\ 1 \in 1..m /\ \A i \in 2..m : idx[i] >= 2
  <2>1. \A i \in 1..m : i = 1 \/ (i # 1 /\ i - 1 \in 1..Len(kept) /\ (i - 1) + 1 = i)
    BY <1>6
  <2>2. \A i \in 2..m : idx[i] = kept[i - 1] /\ i - 1 \in 1..Len(kept) /\ idx[i] \in rest /\ i # 1
    BY <1>6, <2>1 DEF Lists
  <2>3. idx[1] = 1 /\ 1 \in 1..m
    BY <1>6
  <2>7. \A i \in 1..m : i = 1 \/ i \in 2..m
    BY <1>6
  <2>8. \A k \in 1..Len(kept) : k + 1 \in 1..m /\ k + 1 # 1 /\ idx[k + 1] = kept[k]
    <3> TAKE k \in 1..Len(kept)
    <3>1. k + 1 \in 1..m /\ k + 1 # 1 /\ (k + 1) - 1 = k
      BY <1>6
    <3> QED
      BY <3>1
  <2> HIDE DEF idx
  <2>4. ASSUME NEW i \in 1..m PROVE idx[i] \in R /\ kids[i] = spot(idx[i])
    <3>1. CASE i = 1
      BY <1>6, <2>3, <3>1
    <3>2. CASE i \in 2..m
      <4>1. idx[i] = kept[i - 1] /\ i - 1 \in 1..Len(kept) /\ idx[i] \in rest /\ (i - 1) + 1 = i
        BY <2>2, <3>2
      <4> QED
        BY <1>6, <4>1
    <3> QED
      BY <2>7, <3>1, <3>2
  <2>5. ASSUME NEW i \in 1..m, NEW j \in 1..m, i < j PROVE idx[i] < idx[j]
    <3>1. j \in 2..m
      BY <2>5
    <3>2. idx[j] \in rest /\ idx[j] >= 2 /\ idx[j] \in Nat
      BY <1>1, <2>2, <3>1
    <3>3. CASE i = 1
      BY <2>3, <3>2, <3>3
    <3>4. CASE i \in 2..m
      <4>1. i - 1 \in 1..Len(kept) /\ j - 1 \in 1..Len(kept) /\ i - 1 < j - 1
        BY <2>2, <2>5, <3>1, <3>4
      <4> QED
        BY <1>6, <2>2, <3>1, <3>4, <4>1 DEF Increasing
    <3> QED
      BY <3>3, <3>4
  <2>6. ASSUME NEW j \in R PROVE \E i \in 1..m : idx[i] = j
    <3>1. CASE j = 1
      BY <2>3, <3>1
    <3>2. CASE j \in rest
      <4>1. PICK k \in 1..Len(kept) : kept[k] = j
        BY <1>6, <3>2 DEF Lists
      <4> QED
        BY <2>8, <4>1
    <3> QED
      BY <3>1, <3>2
  <2> QED
    BY <1>1, <2>2, <2>3, <2>4, <2>5, <2>6
<1> HIDE DEF idx, m
<1>10. m \in Nat /\ Len(kids) = m
  BY <1>6 DEF m
<1>11. \A j \in J : spot(j) # None
  BY <1>2, NoneAssumption
<1>12. \A j, k \in J : j # k => cs[j] # cs[k] /\ spot(j) # spot(k)
  <2> SUFFICES ASSUME NEW j \in J, NEW k \in J, j # k, cs[j] = cs[k]
               PROVE  FALSE
    OBVIOUS
  <2>1. Between(ps, cs[j], cs[k]) = 0
    BY <1>2, CloudAssumption
  <2> QED
    BY <1>5, <2>1, WithinZero
<1>13. ASSUME NEW p \in PointsOf(b), own(p) \in R
       PROVE  CoveringChild(ps, t.node, p) = spot(own(p))
  <2>1. PICK i \in 1..m : idx[i] = own(p)
    BY <1>9, <1>13
  <2> DEFINE D(j) == Between(ps, Center(kids[j]), p)
             near(j) == Within(D(j), Scale(kids[j]))
  <2>2. \A j \in 1..m : D(j) = Between(ps, cs[idx[j]], p) /\ Scale(kids[j]) = s /\ idx[j] \in J
    BY <1>1, <1>9 DEF Center, Scale
  <2>3. near(i)
    BY <1>5, <2>1, <2>2
  <2>4. \A j \in 1..m : idx[i] <= idx[j] => i <= j
    <3> TAKE j \in 1..m
    <3>1. j < i => idx[j] < idx[i]
      BY <1>9
    <3>2. idx[i] \in Nat /\ idx[j] \in Nat
      BY <2>2
    <3> QED
      BY <1>10, <3>1, <3>2
  <2>5. ps.first => \A j \in 1..m : near(j) => i <= j
    BY <1>5, <2>1, <2>2, <2>4
  <2>6. 1 \in 1..m /\ (i = 1 <=> own(p) = 1) /\ D(1) = Between(ps, cs[1], p)
    <3>1. i # 1 => i \in 2..m
      BY <1>10
    <3>2. i # 1 => idx[i] >= 2
      BY <1>9, <3>1
    <3> QED
      BY <1>9, <2>1, <2>2, <3>2
  <2>7. \A j \in 2..m : j \in 1..m /\ idx[j] \in 2..(n + 1)
    <3> TAKE j \in 2..m
    <3>1. j \in 1..m
      BY <1>10
    <3>2. idx[j] >= 2 /\ idx[j] \in J
      BY <1>9, <2>2, <3>1
    <3> QED
      BY <3>1, <3>2
  <2>8. ~ps.first /\ i = 1 => \A j \in 2..m : D(1) < D(j)
    BY <1>5, <2>2, <2>6, <2>7
  <2>9. ASSUME ~ps.first, i # 1
        PROVE  D(i) <= D(1) /\ \A j \in 2..m : D(i) < D(j) \/ (D(i) = D(j) /\ i <= j)
    <3>1. D(i) = Between(ps, cs[own(p)], p) /\ own(p) # 1
      BY <2>1, <2>2, <2>6, <2>9
    <3>2. /\ Between(ps, cs[own(p)], p) <= Between(ps, cs[1], p)
          /\ \A j \in 2..(n + 1) :
               \/ Between(ps, cs[own(p)], p) < Between(ps, cs[j], p)
               \/ Between(ps, cs[own(p)], p) = Between(ps, cs[j], p) /\ own(p) <= j
      BY <1>5, <2>9, <3>1
    <3>3. D(i) <= D(1)
      BY <2>6, <3>1, <3>2
    <3>4. ASSUME NEW j \in 2..m PROVE D(i) < D(j) \/ (D(i) = D(j) /\ i <= j)
      <4>1. D(j) = Between(ps, cs[idx[j]], p) /\ idx[j] \in 2..(n + 1) /\ j \in 1..m
        BY <2>2, <2>7
      <4>2. \/ Between(ps, cs[own(p)], p) < Between(ps, cs[idx[j]], p)
            \/ Between(ps, cs[own(p)], p) = Between(ps, cs[idx[j]], p) /\ own(p) <= idx[j]
        BY <3>2, <4>1
      <4> HIDE DEF D
      <4> QED
        BY <2>1, <2>4, <3>1, <4>1, <4>2
    <3> QED
      BY <3>3, <3>4
  <2>10. IsChosen(ps, kids, p, i)
    <3> HIDE DEF D
    <3> QED
      BY <1>10, <2>3, <2>5, <2>8, <2>9 DEF IsChosen, D
  <2>11. CoveringChild(ps, t.node, p) = kids[i]
    BY <1>4, <1>7, <1>10, <2>10, ChosenChild DEF kids
  <2> QED
    BY <1>9, <2>1, <2>11
<1>14. ASSUME NEW p \in PointsOf(b), own(p) \in alone
       PROVE  CoveringChild(ps, t.node, p) = None /\ p = cs[own(p)]
  <2>1. p = cs[own(p)]
    BY <1>1, <1>3, <1>5, <1>14
  <2>2. \A j \in 1..m : ~Within(Between(ps, Center(kids[j]), p), Scale(kids[j]))
    <3> TAKE j \in 1..m
    <3>1. idx[j] \in J /\ idx[j] # own(p) /\ own(p) \in J
      BY <1>1, <1>5, <1>9, <1>14
    <3>2. Center(kids[j]) = cs[idx[j]] /\ Scale(kids[j]) = s
      BY <1>9 DEF Center, Scale
    <3> QED
      BY <1>5, <2>1, <3>1, <3>2
  <2> QED
    BY <1>4, <1>7, <1>10, <2>1, <2>2, NoChild DEF kids
<1>15. \A j \in J : cs[j] \in PointsOf(b) /\ own(cs[j]) = j
  BY <1>3, <1>5
(* The conjuncts. *)
<1>16. ToSet(kids) = {spot(j) : j \in R} /\ ToSet(t.kids) = {child(j) : j \in R}
  <2>1. ToSet(kids) = {kids[i] : i \in 1..m} /\ ToSet(t.kids) = {t.kids[k] : k \in 1..Len(order)}
    BY <1>8 DEF ToSet
  <2>2. \A k \in 1..Len(order) : order[k] \in R
    BY <1>6 DEF Lists
  <2>3. \A j \in R : \E k \in 1..Len(order) : order[k] = j
    BY <1>6 DEF Lists
  <2>4. ToSet(kids) = {spot(j) : j \in R}
    <3>1. \A i \in 1..m : \E j \in R : kids[i] = spot(j)
      BY <1>9
    <3>2. \A j \in R : \E i \in 1..m : kids[i] = spot(j)
      BY <1>9
    <3> HIDE DEF spot, R
    <3> QED
      BY <2>1, <3>1, <3>2
  <2>5. \A k \in 1..Len(order) : t.kids[k] = child(order[k])
    BY <1>6
  <2>6. ToSet(t.kids) = {child(j) : j \in R}
    <3> DEFINE w == t.kids
               K == 1..Len(order)
    <3>1. ToSet(w) = {w[k] : k \in K}
      BY <2>1
    <3>2. \A k \in K : order[k] \in R /\ w[k] = child(order[k])
      BY <2>2, <2>5
    <3>3. \A j \in R : \E k \in K : w[k] = child(j)
      BY <2>3, <3>2
    <3> HIDE DEF w, K, R, child
    <3>4. \A x \in ToSet(w) : x \in {child(j) : j \in R}
      BY <3>1, <3>2
    <3>5. \A x \in {child(j) : j \in R} : x \in ToSet(w)
      BY <3>1, <3>3
    <3> QED
      BY <3>4, <3>5 DEF w
  <2> QED
    BY <2>4, <2>6
<1>17. ToSet(kids) = {AddressOf(k) : k \in ToSet(t.kids)}
  <2>1. \A j \in R : AddressOf(child(j)) = spot(j)
    BY <1>1, <1>2
  <2> HIDE DEF spot, R
  <2>2. \A c \in ToSet(kids) : \E k \in ToSet(t.kids) : c = AddressOf(k)
    BY <1>16, <2>1
  <2>3. \A k \in ToSet(t.kids) : AddressOf(k) \in ToSet(kids)
    BY <1>16, <2>1
  <2> QED
    BY <2>2, <2>3
<1>18. ASSUME NEW j \in R
       PROVE  PointsOf(child(j)) = {p \in PointsOf(b) : CoveringChild(ps, t.node, p) = spot(j)}
  <2>1. \A p \in PointsOf(b) : own(p) \in alone \/ own(p) \in R
    BY <1>1, <1>5
  <2>2. j \in J
    BY <1>1
  <2>3. ASSUME NEW p \in PointsOf(b), CoveringChild(ps, t.node, p) = spot(j) PROVE own(p) = j
    BY <1>5, <1>11, <1>12, <1>13, <1>14, <2>1, <2>2, <2>3
  <2>4. ASSUME NEW p \in PointsOf(b), own(p) = j PROVE CoveringChild(ps, t.node, p) = spot(j)
    BY <1>13, <2>4
  <2> QED
    BY <1>5, <2>2, <2>3, <2>4
<1>19. ASSUME NEW k \in ToSet(t.kids)
       PROVE  /\ k.center \notin k.covered /\ k.parent = AddressOf(b) /\ k.scale < b.scale
              /\ PointsOf(k) = {p \in PointsOf(b) : CoveringChild(ps, t.node, p) = AddressOf(k)}
              /\ \A p \in PointsOf(k) : Within(Between(ps, k.center, p), k.scale)
  <2>1. PICK j \in R : k = child(j)
    BY <1>16
  <2>2. j \in J /\ AddressOf(k) = spot(j)
    BY <1>1, <1>2, <2>1
  <2>3. PointsOf(k) = {p \in PointsOf(b) : CoveringChild(ps, t.node, p) = AddressOf(k)}
    BY <1>18, <2>1, <2>2
  <2>4. \A p \in PointsOf(k) : Within(Between(ps, k.center, p), k.scale)
    BY <1>3, <1>5, <2>1, <2>2
  <2> QED
    BY <1>3, <2>1, <2>2, <2>3, <2>4
<1>20. \A p \in PointsOf(b) : own(p) \in alone \/ own(p) \in R
  BY <1>1, <1>5
<1>21. kids # <<>>
  <2>1. 1 \in DOMAIN kids
    BY <1>8, <1>9
  <2> QED
    BY <2>1
<1>22. Finals(t.addr, t.node) = {cs[j] : j \in alone}
  BY <1>21 DEF Finals, IsLeaf, kids, alone
<1>23. Finals(t.addr, t.node) = {p \in PointsOf(b) : CoveringChild(ps, t.node, p) = None}
  <2>1. ASSUME NEW p \in PointsOf(b), CoveringChild(ps, t.node, p) = None
        PROVE  \E j \in alone : p = cs[j]
    BY <1>1, <1>5, <1>11, <1>13, <1>14, <1>20, <2>1
  <2>2. ASSUME NEW j \in alone
        PROVE  cs[j] \in PointsOf(b) /\ CoveringChild(ps, t.node, cs[j]) = None
    BY <1>1, <1>14, <1>15
  <2> QED
    BY <1>22, <2>1, <2>2
<1>24. \A p \in PointsOf(b) : CoveringChild(ps, t.node, p) \in ToSet(kids) \cup {None}
  BY <1>13, <1>14, <1>16, <1>20
<1>25. Separated(ps, t.node)
  <2>1. Scale(kids[1]) = s
    BY <1>9 DEF Scale
  <2>2. \A c \in ToSet(kids) : \E j \in J : Center(c) = cs[j]
    <3>1. \A c \in ToSet(kids) : \E j \in R : c = spot(j)
      BY <1>16
    <3>2. \A j : Center(spot(j)) = cs[j]
      BY DEF Center
    <3> HIDE DEF spot, R
    <3> QED
      BY <1>1, <3>1, <3>2
  <2>3. \A p \in t.node.singletons : \E j \in J : p = cs[j]
    BY <1>1 DEF alone
  <2>4. \A p \in {Center(c) : c \in ToSet(kids)} \cup t.node.singletons : \E j \in J : p = cs[j]
    BY <2>2, <2>3
  <2>5. SUFFICES ASSUME NEW p, NEW q,
                        p \in {Center(c) : c \in ToSet(kids)} \cup t.node.singletons,
                        q \in {Center(c) : c \in ToSet(kids)} \cup t.node.singletons,
                        p # q
                 PROVE  ~Within(Between(ps, p, q), s)
    BY <2>1 DEF Separated, kids
  <2>6. PICK j \in J, k \in J : p = cs[j] /\ q = cs[k]
    BY <2>4, <2>5
  <2>7. ~Within(Between(ps, cs[j], cs[k]), s)
    BY <1>5, <2>5, <2>6
  <2> QED
    BY <2>6, <2>7
<1>26. t.node.count = Cardinality(PointsOf(b))
  <2> DEFINE S == {cs[j] : j \in alone}
             I == DOMAIN t.kids
             f == [k \in I |-> PointsOf(t.kids[k])]
             g == [k \in I |-> CoveredLen(t.kids[k])]
             U == UNION {f[k] : k \in I}
  <2>1. IsFiniteSet(S) /\ Cardinality(S) = Cardinality(alone) /\ Cardinality(alone) \in Nat
    <3>1. alone \in SUBSET (1..(n + 1)) /\ n + 1 \in Nat
      BY <1>1
    <3>2. \A j, k \in alone : j # k => cs[j] # cs[k]
      BY <1>1, <1>12
    <3> HIDE DEF alone
    <3> QED
      BY <3>1, <3>2, NamedPoints
  <2>2. IsFiniteSet(I)
    <3> DEFINE K == 1..Len(order)
    <3>1. IsFiniteSet(K)
      BY <1>6, FS_Interval
    <3> QED
      BY <1>8, <3>1
  <2>3. \A k \in I : order[k] \in R /\ t.kids[k] = child(order[k]) /\ order[k] \in J
    BY <1>1, <1>6, <1>8 DEF Lists
  <2>4. \A j, k \in I : j # k => order[j] # order[k]
    <3>1. \A j, k \in 1..Len(order) : j # k => order[j] # order[k]
      BY <1>6 DEF Lists
    <3> QED
      BY <1>8, <3>1
  <2>5. \A k \in I : f[k] = {p \in PointsOf(b) : own(p) = order[k]}
    BY <1>5, <2>3
  <2>6. \A k \in I : IsFiniteSet(f[k]) /\ g[k] = Cardinality(f[k])
    BY <1>3, <2>3, PointsCounted
  <2>7. \A j, k \in I : j # k => f[j] \cap f[k] = {}
    <3> HIDE DEF f, g, U, S, I, own
    <3> QED
      BY <2>4, <2>5
  <2>8. U = {p \in PointsOf(b) : own(p) \in R}
    <3>1. \A j \in R : \E k \in I : order[k] = j
      BY <1>6, <1>8 DEF Lists
    <3> HIDE DEF f
    <3> QED
      BY <2>3, <2>5, <3>1
  <2>9. S = {p \in PointsOf(b) : own(p) \in alone}
    <3>1. \A j \in alone : cs[j] \in PointsOf(b) /\ own(cs[j]) = j
      BY <1>1, <1>15
    <3> QED
      BY <1>14, <3>1
  <2>10. t.node.count = Cardinality(alone) + SumFunctionOnSet(g, I)
    BY <1>6
  <2> HIDE DEF S, I, f, g
  <2>11. IsFiniteSet(U) /\ Cardinality(U) = SumFunctionOnSet(g, I)
    BY <2>2, <2>6, <2>7, CardinalityOfUnion
  <2> HIDE DEF U
  <2>12. S \cap U = {} /\ PointsOf(b) = S \cup U
    BY <1>1, <1>20, <2>8, <2>9
  <2>13. Cardinality(S \cup U) = Cardinality(S) + Cardinality(U)
    <3>1. Cardinality(S \cup U) = Cardinality(S) + Cardinality(U) - Cardinality(S \cap U)
      BY <2>1, <2>11, FS_Union
    <3>2. Cardinality(S \cap U) = 0
      BY <2>12, FS_EmptySet
    <3>3. Cardinality(S) \in Nat /\ Cardinality(U) \in Nat
      BY <2>1, <2>11, FS_CardinalityType
    <3> QED
      BY <3>1, <3>2, <3>3
  <2> QED
    BY <2>1, <2>10, <2>11, <2>12, <2>13
<1> QED
  BY <1>7, <1>17, <1>19, <1>23, <1>24, <1>25, <1>26 DEF HandsDown, kids

LEMMA DividedTaskHandsDown ==
  ASSUME parameters \in Settings, NEW b, GoodBuilder(b), ~IsFine(parameters, b),
         NEW centers \in PickCenters(parameters, b, NextScale(parameters, b))
  PROVE  HandsDown(parameters, b, DividedTask(parameters, b, centers))
<1> DEFINE ps == parameters
           s == NextScale(ps, b)
           cs == <<b.center>> \o centers
           t == DividedTask(ps, b, centers)
<1>1. b \in Builder /\ b.center \notin b.covered
  BY DEF GoodBuilder
<1>2. s \in Int /\ s < b.scale
  BY <1>1, NextScaleFits
<1>3. PICK n \in Nat : centers \in [1..n -> b.covered]
  BY <1>1, PickedCenters
<1>4. cs \in Seq(Point) /\ Len(cs) = n + 1 /\ cs[1] = b.center
  BY <1>1, <1>3, CentersType
<1>5. OwnerRules(ps, b, cs, s) /\ Shared(ps, b, cs, s)
  BY <1>1, <1>2, OwnersRule, PartsPartition
<1>6. DivisionMade(ps, b, cs, s, t)
  BY DividedTaskMade
<1>7. Divides(b, t)
  BY DividedTaskDivides
<1> HIDE DEF s, cs, t
<1>8. \A j \in 1..(n + 1) :
        ChildOf(ps, b, cs, s, j) \in Builder /\ cs[j] \notin Part(ps, b, cs, s, j)
  BY <1>4, <1>5 DEF Shared
<1>9. /\ t \in Task /\ ~t.sent /\ t.addr = AddressOf(b) /\ t.node.parent = b.parent
      /\ t.node.singletons = {cs[j] : j \in Alone(ps, b, cs, s)}
  BY <1>6 DEF DivisionMade
<1>10. ASSUME LeafMade(ps, b, cs, s, t) PROVE HandsDown(ps, b, t)
  <2> DEFINE alone == Alone(ps, b, cs, s)
             S == {cs[j] : j \in alone}
  <2>1. t.kids = <<>> /\ t.node.children = <<>> /\ t.node.count = Cardinality(alone) + 1
    BY <1>10 DEF LeafMade
  <2>2. PointsOfKids(t) = {}
    <3>1. DOMAIN t.kids = {}
      BY <2>1
    <3> QED
      BY <3>1 DEF PointsOfKids
  <2>3. Finals(t.addr, t.node) = PointsOf(b)
    BY <1>7, <1>9, <2>2 DEF Divides, PointsOfTask, PointsToSend
  <2>4. PointsOf(b) = S \cup {cs[1]}
    BY <1>4, <1>9, <2>1, <2>3 DEF Finals, IsLeaf, Center, AddressOf
  <2>5. alone \subseteq 2..(n + 1)
    BY <1>4 DEF Alone
  <2>6. \A j, k \in 1..(n + 1) : j # k => cs[j] # cs[k]
    <3> SUFFICES ASSUME NEW j \in 1..(n + 1), NEW k \in 1..(n + 1), j # k, cs[j] = cs[k]
                 PROVE  FALSE
      OBVIOUS
    <3>1. ~Within(Between(ps, cs[j], cs[k]), s)
      BY <1>4, <1>5 DEF OwnerRules
    <3>2. Between(ps, cs[j], cs[k]) = 0
      BY <1>4, CloudAssumption
    <3> QED
      BY <1>2, <3>1, <3>2, WithinZero
  <2> HIDE DEF alone
  <2>7. IsFiniteSet(S) /\ Cardinality(S) = Cardinality(alone) /\ Cardinality(alone) \in Nat
    <3>1. alone \in SUBSET (1..(n + 1)) /\ n + 1 \in Nat
      BY <2>5
    <3>2. \A j, k \in alone : j # k => cs[j] # cs[k]
      BY <2>6, <3>1
    <3> QED
      BY <3>1, <3>2, NamedPoints
  <2>8. cs[1] \notin S
    <3>1. \A j \in alone : j \in 1..(n + 1) /\ j # 1
      BY <2>5
    <3>2. 1 \in 1..(n + 1)
      OBVIOUS
    <3> QED
      BY <2>6, <3>1, <3>2
  <2> HIDE DEF S
  <2>9. Cardinality(PointsOf(b)) = Cardinality(alone) + 1
    BY <2>4, <2>7, <2>8, FS_AddElement
  <2>10. t.node \in Node
    BY <1>9 DEF Task
  <2> QED
    BY <1>1, <1>9, <2>1, <2>3, <2>9, <2>10, LeafHandsDown
<1>11. ASSUME NEW kept, NEW order, BranchMade(ps, b, cs, s, t, kept, order)
       PROVE  HandsDown(ps, b, t)
  BY <1>1, <1>2, <1>4, <1>5, <1>8, <1>9, <1>11, BranchHandsDown
<1>12. HandsDown(ps, b, t)
  BY <1>6, <1>10, <1>11 DEF DivisionMade
<1> QED
  BY <1>12 DEF t

-----------------------------------------------------------------------------
(* The shape of a half-built tree.  K are the nodes that are made, W the   *)
(* BuilderNodes that wait to be split, and org the BuilderNode that is or  *)
(* was at each address.                                                    *)

Places(K, W) == {m.addr : m \in K} \cup {AddressOf(b) : b \in W}

(* A node m has what the one it was made of handed down. *)
NodeShape(ps, org, m) ==
  LET b == org[m.addr]
  IN /\ b \in Builder /\ b.center \notin b.covered /\ AddressOf(b) = m.addr
     /\ m.node \in Node /\ m.node.parent = b.parent /\ m.node.count = Cardinality(PointsOf(b))
     /\ Finals(m.addr, m.node) = {p \in PointsOf(b) : CoveringChild(ps, m.node, p) = None}
     /\ \A p \in PointsOf(b) : CoveringChild(ps, m.node, p) \in ToSet(m.node.children) \cup {None}
     /\ ~IsLeaf(m.node) => Separated(ps, m.node)
     /\ \A c \in ToSet(m.node.children) :
          /\ org[c].parent = m.addr /\ Scale(c) < Scale(m.addr)
          /\ PointsOf(org[c]) = {p \in PointsOf(b) : CoveringChild(ps, m.node, p) = c}
          /\ \A p \in PointsOf(org[c]) : Within(Between(ps, Center(c), p), Scale(c))

ShapeOf(ps, K, W, org) ==
  /\ \A m \in K : NodeShape(ps, org, m) /\ ToSet(m.node.children) \subseteq Places(K, W)
  /\ \A b \in W : b \in Builder /\ b.center \notin b.covered /\ org[AddressOf(b)] = b
  /\ \A m, n \in K : m.addr = n.addr => m = n
  /\ \A m \in K : \A b \in W : Center(m.addr) \in PointsOf(b) => Scale(m.addr) > b.scale
  /\ BuildersApart(W)
  /\ AddressOf(Root(ps)) \in Places(K, W) /\ org[AddressOf(Root(ps))] = Root(ps)
  /\ \A a \in Places(K, W) :
       \/ a = AddressOf(Root(ps))
       \/ \E m \in K : m.addr = org[a].parent /\ a \in ToSet(m.node.children)

(* The nodes a split makes are new, and differ by their addresses. *)
LEMMA KidsAreNew ==
  ASSUME NEW ps \in Settings, NEW K, NEW W, NEW org, ShapeOf(ps, K, W, org), NEW b \in W,
         NEW t, HandsDown(ps, b, t)
  PROVE  LET N == ToSet(t.kids)
         IN /\ \A k \in N : /\ k \in Builder /\ k.center \notin k.covered
                            /\ PointsOf(k) \subseteq PointsOf(b) /\ k.scale < b.scale
                            /\ AddressOf(k) \in Address /\ AddressOf(k) \notin Places(K, W)
            /\ \A k, l \in N : k # l => AddressOf(k) # AddressOf(l) /\ PointsOf(k) \cap PointsOf(l) = {}
<1> DEFINE N == ToSet(t.kids)
<1>1. \A k \in N : k \in Builder
  BY ToSetOf DEF HandsDown
<1>2. \A k \in N : /\ k.center \notin k.covered /\ k.parent = AddressOf(b) /\ k.scale < b.scale
                   /\ PointsOf(k) = {p \in PointsOf(b) : CoveringChild(ps, t.node, p) = AddressOf(k)}
  BY DEF HandsDown
<1>3. /\ b \in Builder /\ BuildersApart(W) /\ \A c \in W : c \in Builder
      /\ \A m \in K : Center(m.addr) \in PointsOf(b) => Scale(m.addr) > b.scale
  BY DEF ShapeOf
<1> HIDE DEF N
<1>4. \A k : AddressOf(k) = <<k.scale, k.center>> /\ k.center \in PointsOf(k)
  BY DEF AddressOf, PointsOf
<1>5. ASSUME NEW k \in N PROVE AddressOf(k) \in Address /\ AddressOf(k) \notin Places(K, W)
  <2>1. k.scale \in Int /\ k.center \in Point /\ b.scale \in Int
    BY <1>1, <1>3 DEF Builder
  <2>2. k.center \in PointsOf(b) /\ k.scale < b.scale
    BY <1>2, <1>4
  <2>3. ASSUME NEW m \in K, m.addr = AddressOf(k) PROVE FALSE
    <3>1. Center(m.addr) = k.center /\ Scale(m.addr) = k.scale
      BY <1>4, <2>3 DEF Center, Scale
    <3> QED
      BY <1>3, <2>1, <2>2, <3>1
  <2>4. ASSUME NEW c \in W, AddressOf(c) = AddressOf(k) PROVE FALSE
    <3>1. c.center = k.center /\ c.scale = k.scale
      BY <1>4, <2>4
    <3>2. c # b
      BY <2>1, <2>2, <3>1
    <3>3. PointsOf(b) \cap PointsOf(c) = {}
      BY <1>3, <3>2 DEF BuildersApart
    <3> QED
      BY <1>4, <2>2, <3>1, <3>3
  <2>5. AddressOf(k) \in Address
    BY <1>4, <2>1 DEF Address
  <2> QED
    BY <2>3, <2>4, <2>5 DEF Places
<1>6. ASSUME NEW k \in N, NEW l \in N, k # l
      PROVE  AddressOf(k) # AddressOf(l) /\ PointsOf(k) \cap PointsOf(l) = {}
  <2>1. ASSUME AddressOf(k) = AddressOf(l) PROVE FALSE
    <3>1. k.scale = l.scale /\ k.center = l.center /\ k.parent = l.parent
      BY <1>2, <1>4, <2>1
    <3>2. PointsOf(k) = PointsOf(l)
      BY <1>2, <2>1
    <3>3. k.covered = l.covered
      <4>1. k.center \notin k.covered /\ l.center \notin l.covered
        BY <1>2
      <4> QED
        BY <3>1, <3>2, <4>1 DEF PointsOf
    <3>4. k = l
      BY <1>1, <3>1, <3>3 DEF Builder
    <3> QED
      BY <1>6, <3>4
  <2> QED
    BY <1>2, <2>1
<1> QED
  BY <1>1, <1>2, <1>5, <1>6 DEF N

(* A split keeps the shape. *)
LEMMA ShapeGrows ==
  ASSUME NEW ps \in Settings, NEW K, NEW W, NEW org, ShapeOf(ps, K, W, org), NEW b \in W,
         NEW t, HandsDown(ps, b, t)
  PROVE  \E new : ShapeOf(ps, K \cup {[addr |-> t.addr, node |-> t.node]},
                          (W \ {b}) \cup ToSet(t.kids), new)
<1> DEFINE N == ToSet(t.kids)
           m0 == [addr |-> t.addr, node |-> t.node]
           A == {AddressOf(k) : k \in N}
           K2 == K \cup {m0}
           W2 == (W \ {b}) \cup N
           new == [a \in Address |-> IF a \in A THEN CHOOSE k \in N : AddressOf(k) = a ELSE org[a]]
<1>1. /\ \A k \in N : /\ k \in Builder /\ k.center \notin k.covered
                      /\ PointsOf(k) \subseteq PointsOf(b) /\ k.scale < b.scale
                      /\ AddressOf(k) \in Address /\ AddressOf(k) \notin Places(K, W)
      /\ \A k, l \in N : k # l => AddressOf(k) # AddressOf(l) /\ PointsOf(k) \cap PointsOf(l) = {}
  BY KidsAreNew
<1>2. /\ t.addr = AddressOf(b) /\ t.node \in Node /\ t.node.parent = b.parent
      /\ t.node.count = Cardinality(PointsOf(b))
      /\ ToSet(t.node.children) = A
      /\ \A k \in N :
           /\ k.parent = AddressOf(b) /\ k.scale < b.scale
           /\ PointsOf(k) = {p \in PointsOf(b) : CoveringChild(ps, t.node, p) = AddressOf(k)}
           /\ \A p \in PointsOf(k) : Within(Between(ps, k.center, p), k.scale)
      /\ Finals(t.addr, t.node) = {p \in PointsOf(b) : CoveringChild(ps, t.node, p) = None}
      /\ \A p \in PointsOf(b) : CoveringChild(ps, t.node, p) \in ToSet(t.node.children) \cup {None}
      /\ ~IsLeaf(t.node) => Separated(ps, t.node)
  BY DEF HandsDown
<1>3. /\ \A m \in K : NodeShape(ps, org, m) /\ ToSet(m.node.children) \subseteq Places(K, W)
      /\ \A c \in W : c \in Builder /\ c.center \notin c.covered /\ org[AddressOf(c)] = c
      /\ \A m, n \in K : m.addr = n.addr => m = n
      /\ \A m \in K : \A c \in W : Center(m.addr) \in PointsOf(c) => Scale(m.addr) > c.scale
      /\ BuildersApart(W)
      /\ AddressOf(Root(ps)) \in Places(K, W) /\ org[AddressOf(Root(ps))] = Root(ps)
      /\ \A a \in Places(K, W) :
           \/ a = AddressOf(Root(ps))
           \/ \E m \in K : m.addr = org[a].parent /\ a \in ToSet(m.node.children)
  BY DEF ShapeOf
<1>4. m0.addr = t.addr /\ m0.node = t.node
  OBVIOUS
<1> HIDE DEF m0, N
<1>5. \A k \in N : new[AddressOf(k)] = k
  <2> TAKE k \in N
  <2>1. AddressOf(k) \in A /\ AddressOf(k) \in Address
    BY <1>1
  <2>2. (CHOOSE l \in N : AddressOf(l) = AddressOf(k)) = k
    <3> DEFINE l == CHOOSE l \in N : AddressOf(l) = AddressOf(k)
    <3>1. l \in N /\ AddressOf(l) = AddressOf(k)
      OBVIOUS
    <3> HIDE DEF l
    <3>2. l = k
      BY <1>1, <3>1
    <3> QED
      BY <3>2 DEF l
  <2> QED
    BY <2>1, <2>2
<1>6. \A a \in Address : a \notin A => new[a] = org[a]
  OBVIOUS
<1> HIDE DEF new
<1>7. /\ \A c \in W : AddressOf(c) \in Address /\ AddressOf(c) \in Places(K, W)
      /\ \A m \in K : m.addr \in Address /\ m.addr \in Places(K, W)
      /\ \A m \in K : ToSet(m.node.children) \subseteq Address
  <2>1. ASSUME NEW c \in Builder PROVE AddressOf(c) \in Address
    BY DEF AddressOf, Address, Builder
  <2>2. \A m \in K : m.addr \in Address
    BY <1>3, <2>1 DEF NodeShape
  <2>3. ASSUME NEW m \in K PROVE ToSet(m.node.children) \subseteq Address
    <3>1. m.node.children \in Seq(Address)
      BY <1>3 DEF NodeShape, Node
    <3> QED
      BY <3>1, ToSetOf
  <2> QED
    BY <1>3, <2>1, <2>2, <2>3 DEF Places
<1>8. \A a \in Places(K, W) : a \notin A
  BY <1>1
<1>9. \A a \in Places(K, W) : a \in Address /\ new[a] = org[a]
  BY <1>6, <1>7, <1>8 DEF Places
<1>10. Places(K2, W2) = Places(K, W) \cup A
  <2>1. Places(K, W) = {m.addr : m \in K} \cup {AddressOf(c) : c \in W}
    BY DEF Places
  <2>2. Places(K2, W2) = {m.addr : m \in K2} \cup {AddressOf(c) : c \in W2}
    BY DEF Places
  <2>3. ASSUME NEW a \in Places(K2, W2) PROVE a \in Places(K, W) \cup A
    BY <1>2, <1>4, <1>7, <2>2
  <2>4. ASSUME NEW a \in Places(K, W) PROVE a \in Places(K2, W2)
    BY <1>2, <1>4, <2>1, <2>2
  <2>5. ASSUME NEW a \in A PROVE a \in Places(K2, W2)
    BY <2>2
  <2> QED
    BY <2>3, <2>4, <2>5
(* The nodes. *)
<1>11. ASSUME NEW m \in K
       PROVE  NodeShape(ps, new, m) /\ ToSet(m.node.children) \subseteq Places(K2, W2)
  <2>1. new[m.addr] = org[m.addr] /\ \A c \in ToSet(m.node.children) : new[c] = org[c]
    BY <1>3, <1>7, <1>9
  <2>2. NodeShape(ps, new, m)
    <3>1. NodeShape(ps, org, m)
      BY <1>3
    <3> QED
      BY <2>1, <3>1 DEF NodeShape
  <2> QED
    BY <1>3, <1>10, <2>2
<1>12. NodeShape(ps, new, m0) /\ ToSet(m0.node.children) \subseteq Places(K2, W2)
  <2>1. new[m0.addr] = b /\ m0.addr = AddressOf(b) /\ b \in Builder /\ b.center \notin b.covered
    BY <1>2, <1>3, <1>4, <1>7, <1>9
  <2>2. ASSUME NEW c \in ToSet(m0.node.children)
        PROVE  /\ new[c].parent = m0.addr /\ Scale(c) < Scale(m0.addr)
               /\ PointsOf(new[c]) = {p \in PointsOf(b) : CoveringChild(ps, m0.node, p) = c}
               /\ \A p \in PointsOf(new[c]) : Within(Between(ps, Center(c), p), Scale(c))
    <3>1. PICK k \in N : c = AddressOf(k)
      BY <1>2, <1>4
    <3>2. new[c] = k /\ Scale(c) = k.scale /\ Center(c) = k.center /\ Scale(m0.addr) = b.scale
      BY <1>5, <2>1, <3>1 DEF AddressOf, Scale, Center
    <3> QED
      BY <1>2, <1>4, <3>1, <3>2
  <2>3. NodeShape(ps, new, m0)
    <3> HIDE DEF A
    <3> QED
      BY <1>2, <1>4, <2>1, <2>2 DEF NodeShape
  <2> QED
    BY <1>2, <1>4, <1>10, <2>3
(* What waits. *)
<1>13. \A c \in W2 : c \in Builder /\ c.center \notin c.covered /\ new[AddressOf(c)] = c
  BY <1>1, <1>3, <1>5, <1>7, <1>9
<1>14. BuildersApart(W2)
  <2>1. \A c, d \in W : c # d => PointsOf(c) \cap PointsOf(d) = {}
    BY <1>3 DEF BuildersApart
  <2>2. \A c \in W2, d \in W2 : c # d => PointsOf(c) \cap PointsOf(d) = {}
    <3> SUFFICES ASSUME NEW c \in W2, NEW d \in W2, c # d PROVE PointsOf(c) \cap PointsOf(d) = {}
      OBVIOUS
    <3>1. CASE c \in N /\ d \in N
      BY <1>1, <3>1
    <3>2. CASE c \in W \ {b} /\ d \in W \ {b}
      BY <2>1, <3>2
    <3>3. CASE c \in W \ {b} /\ d \in N
      BY <1>1, <2>1, <3>3
    <3>4. CASE c \in N /\ d \in W \ {b}
      BY <1>1, <2>1, <3>4
    <3> QED
      BY <3>1, <3>2, <3>3, <3>4
  <2> QED
    BY <2>2 DEF BuildersApart
<1>15. \A m, n \in K2 : m.addr = n.addr => m = n
  <2>1. ASSUME NEW m \in K, m.addr = m0.addr PROVE FALSE
    <3>1. Center(m.addr) = b.center /\ Scale(m.addr) = b.scale /\ b.scale \in Int
      BY <1>2, <1>3, <1>4, <2>1 DEF AddressOf, Center, Scale, Builder
    <3>2. b.center \in PointsOf(b)
      BY DEF PointsOf
    <3> QED
      BY <1>3, <3>1, <3>2
  <2> QED
    BY <1>3, <2>1
<1>16. \A m \in K2 : \A c \in W2 : Center(m.addr) \in PointsOf(c) => Scale(m.addr) > c.scale
  <2> SUFFICES ASSUME NEW m \in K2, NEW c \in W2, Center(m.addr) \in PointsOf(c)
               PROVE  Scale(m.addr) > c.scale
    OBVIOUS
  <2>1. Center(m0.addr) = b.center /\ Scale(m0.addr) = b.scale /\ b.center \in PointsOf(b)
    BY <1>2, <1>4 DEF AddressOf, Center, Scale, PointsOf
  <2>2. CASE m \in K /\ c \in W
    BY <1>3, <2>2
  <2>3. CASE m \in K /\ c \in N
    <3>1. Scale(m.addr) > b.scale /\ c.scale < b.scale
      BY <1>1, <1>3, <2>3
    <3>2. Scale(m.addr) \in Int /\ b.scale \in Int /\ c.scale \in Int
      BY <1>1, <1>3, <1>7, <2>3 DEF Builder, Scale, Address
    <3> QED
      BY <3>1, <3>2
  <2>4. CASE m = m0 /\ c \in W \ {b}
    BY <1>3, <2>1, <2>4 DEF BuildersApart
  <2>5. CASE m = m0 /\ c \in N
    <3>1. c.scale < b.scale
      BY <1>1, <2>5
    <3>2. b.scale \in Int /\ c.scale \in Int
      BY <1>1, <1>3, <2>5 DEF Builder
    <3> QED
      BY <2>1, <2>5, <3>1, <3>2
  <2> QED
    BY <2>2, <2>3, <2>4, <2>5
(* The root, and the way from it. *)
<1>17. AddressOf(Root(ps)) \in Places(K2, W2) /\ new[AddressOf(Root(ps))] = Root(ps)
  BY <1>3, <1>9, <1>10
<1>18. ASSUME NEW a \in Places(K2, W2)
       PROVE  \/ a = AddressOf(Root(ps))
              \/ \E m \in K2 : m.addr = new[a].parent /\ a \in ToSet(m.node.children)
  <2>1. CASE a \in Places(K, W)
    BY <1>3, <1>9, <2>1
  <2>2. CASE a \in A
    <3>1. new[a].parent = AddressOf(b)
      BY <1>2, <1>5, <2>2
    <3> QED
      BY <1>2, <1>4, <2>2, <3>1
  <2> QED
    BY <1>10, <2>1, <2>2
<1> HIDE DEF K2, W2
<1>19. ShapeOf(ps, K2, W2, new)
  <2>1. \A m \in K2 : NodeShape(ps, new, m) /\ ToSet(m.node.children) \subseteq Places(K2, W2)
    BY <1>11, <1>12 DEF K2
  <2> QED
    BY <1>13, <1>14, <1>15, <1>16, <1>17, <1>18, <2>1 DEF ShapeOf
<1> QED
  BY <1>19 DEF K2, W2, m0, N

-----------------------------------------------------------------------------
(* The elements of the sequences that tasks and the channel hold.          *)

LEMMA ToSetOfAppend ==
  ASSUME NEW S, NEW s \in Seq(S), NEW x \in S
  PROVE  ToSet(Append(s, x)) = ToSet(s) \cup {x}
<1> DEFINE q == Append(s, x)
<1>1. /\ q \in Seq(S) /\ Len(q) = Len(s) + 1 /\ Len(s) \in Nat /\ q[Len(s) + 1] = x
      /\ \A k \in 1..Len(s) : q[k] = s[k]
  OBVIOUS
<1>2. /\ \A k \in 1..Len(q) : k \in 1..Len(s) \/ k = Len(s) + 1
      /\ \A k \in 1..Len(s) : k \in 1..Len(q)
      /\ Len(s) + 1 \in 1..Len(q)
  BY <1>1
<1> HIDE DEF q
<1>3. ToSet(q) = {q[i] : i \in 1..Len(q)} /\ ToSet(s) = {s[i] : i \in 1..Len(s)}
  BY <1>1, ToSetOf
<1>4. \A y \in ToSet(q) : y \in ToSet(s) \cup {x}
  BY <1>1, <1>2, <1>3
<1>5. \A y \in ToSet(s) \cup {x} : y \in ToSet(q)
  BY <1>1, <1>2, <1>3
<1> QED
  BY <1>4, <1>5 DEF q

LEMMA ToSetOfTail ==
  ASSUME NEW S, NEW s \in Seq(S), s # <<>>
  PROVE  ToSet(s) = {Head(s)} \cup ToSet(Tail(s)) /\ Head(s) \in S /\ Tail(s) \in Seq(S)
<1> DEFINE q == Tail(s)
           h == Head(s)
<1>1. /\ h \in S /\ q \in Seq(S) /\ Len(q) = Len(s) - 1 /\ \A i \in 1..Len(q) : q[i] = s[i + 1]
  BY HeadTailProperties
<1>2. Len(s) \in Nat /\ Len(s) >= 1 /\ h = s[1]
  OBVIOUS
<1> HIDE DEF q, h
<1>3. /\ \A i \in 1..Len(q) : i + 1 \in 1..Len(s)
      /\ \A i \in 1..Len(s) : i = 1 \/ (i - 1 \in 1..Len(q) /\ (i - 1) + 1 = i)
      /\ 1 \in 1..Len(s)
  BY <1>1, <1>2
<1>4. ToSet(q) = {q[i] : i \in 1..Len(q)} /\ ToSet(s) = {s[i] : i \in 1..Len(s)}
  BY <1>1, ToSetOf
<1>5. \A i \in 1..Len(s) : i # 1 => s[i] = q[i - 1]
  BY <1>1, <1>3
<1>6. \A y \in ToSet(s) : y \in {h} \cup ToSet(q)
  BY <1>2, <1>3, <1>4, <1>5
<1>7. \A y \in {h} \cup ToSet(q) : y \in ToSet(s)
  BY <1>1, <1>2, <1>3, <1>4
<1> QED
  BY <1>1, <1>6, <1>7 DEF q, h

LEMMA ToSetOfFront ==
  ASSUME NEW S, NEW s \in Seq(S), s # <<>>
  PROVE  ToSet(s) = ToSet(Front(s)) \cup {s[Len(s)]}
<1> DEFINE e == Len(s) - 1
           q == Front(s)
<1>1. Len(s) \in Nat /\ Len(s) >= 1 /\ (\A i \in 1..Len(s) : s[i] \in S)
  OBVIOUS
<1>2. e \in Nat /\ e + 1 = Len(s) /\ e - 1 + 1 = e /\ (\A i \in 1..e : 1 + i - 1 = i)
        /\ (IF 1 <= e THEN e - 1 + 1 ELSE 0) = e /\ (\A i \in 1..e : i \in 1..Len(s)) /\ 1 \in Int
        /\ \A i \in 1..Len(s) : i \in 1..e \/ i = Len(s)
  BY <1>1
<1>3. q = SubSeq(s, 1, e)
  BY DEF Front
<1> HIDE DEF e, q
<1>4. \A i \in 1..e : s[i] \in S
  BY <1>1, <1>2
<1>5. /\ SubSeq(s, 1, e) \in Seq(S)
      /\ Len(SubSeq(s, 1, e)) = (IF 1 <= e THEN e - 1 + 1 ELSE 0)
      /\ \A i \in 1..(e - 1 + 1) : SubSeq(s, 1, e)[i] = s[1 + i - 1]
  BY <1>2, <1>4, SubSeqProperties
<1>6. q \in Seq(S) /\ Len(q) = e /\ \A i \in 1..e : q[i] = s[i]
  BY <1>2, <1>3, <1>5
<1>7. ToSet(q) = {q[i] : i \in 1..e} /\ ToSet(s) = {s[i] : i \in 1..Len(s)}
  BY <1>6, ToSetOf
<1>8. Len(s) \in 1..Len(s)
  BY <1>1
<1>9. \A y \in ToSet(s) : y \in ToSet(q) \cup {s[Len(s)]}
  BY <1>2, <1>6, <1>7
<1>10. \A y \in ToSet(q) \cup {s[Len(s)]} : y \in ToSet(s)
  BY <1>2, <1>6, <1>7, <1>8
<1> QED
  BY <1>9, <1>10 DEF q

-----------------------------------------------------------------------------
(* The invariant of the shape.                                             *)

Known == {[addr |-> a, node |-> tree[a]] : a \in DOMAIN tree} \cup OnTheWay

(* A final address is that of a node which keeps the point. *)
FinalsAgree ==
  \A p \in Point :
    final[p] # None => final[p] \in DOMAIN tree /\ p \in Finals(final[p], tree[final[p]])

Shaped ==
  ~Failed =>
    /\ RootFits(parameters)
    /\ \E org : ShapeOf(parameters, Known, Waiting, org)
    /\ FinalsAgree

KidsOf(ts) == UNION {ToSet(t.kids) : t \in ts}
Unsent(ts) == {[addr |-> t.addr, node |-> t.node] : t \in {u \in ts : ~u.sent}}

LEMMA WaitingIs == Waiting = queued \cup KidsOf(running) /\ OnTheWay = Unsent(running) \cup ToSet(channel)
BY DEF Waiting, OnTheWay, KidsOf, Unsent

LEMMA ShapeStays ==
  ASSUME Shaped, Failed => Failed', UNCHANGED <<parameters, tree, final>>,
         Known' = Known, Waiting' = Waiting
  PROVE  Shaped'
BY DEF Shaped, FinalsAgree

(* What the tasks hold, when one moves on. *)
LEMMA TaskChanges ==
  ASSUME NEW t \in running, NEW u, Becomes(t, u)
  PROVE  \E R : /\ KidsOf(running) = KidsOf(R) \cup ToSet(t.kids)
                /\ KidsOf(running') = KidsOf(R) \cup ToSet(u.kids)
                /\ t.sent => Unsent(running) = Unsent(R)
                /\ ~t.sent => Unsent(running) = Unsent(R) \cup {[addr |-> t.addr, node |-> t.node]}
                /\ u.sent => Unsent(running') = Unsent(R)
                /\ ~u.sent => Unsent(running') = Unsent(R) \cup {[addr |-> u.addr, node |-> u.node]}
<1> DEFINE R == running \ {t}
           M(x) == [addr |-> x.addr, node |-> x.node]
<1>1. running' = R \cup (IF u.sent /\ u.kids = <<>> THEN {} ELSE {u}) /\ running = R \cup {t}
  BY DEF Becomes
<1> HIDE DEF R
<1>2. ASSUME NEW x
      PROVE  /\ KidsOf(R \cup {x}) = KidsOf(R) \cup ToSet(x.kids)
             /\ x.sent => Unsent(R \cup {x}) = Unsent(R)
             /\ ~x.sent => Unsent(R \cup {x}) = Unsent(R) \cup {M(x)}
  <2>1. KidsOf(R \cup {x}) = KidsOf(R) \cup ToSet(x.kids)
    BY DEF KidsOf
  <2>2. CASE x.sent
    BY <2>1, <2>2 DEF Unsent
  <2>3. CASE ~x.sent
    BY <2>1, <2>3 DEF Unsent
  <2> QED
    BY <2>2, <2>3
<1>3. CASE u.sent /\ u.kids = <<>>
  <2>1. ToSet(u.kids) = {} /\ running' = R
    BY <1>1, <1>3 DEF ToSet
  <2> QED
    BY <1>1, <1>2, <1>3, <2>1
<1>4. CASE ~(u.sent /\ u.kids = <<>>)
  BY <1>1, <1>2, <1>4
<1> QED
  BY <1>3, <1>4

LEMMA ChannelType ==
  ASSUME IInv, pc # "failed"
  PROVE  /\ channel \in Seq([addr: Address, node: Node] \cup {SplitError})
         /\ \A t \in running : t \in Task /\ GoodTask(t)
BY DEF IInv, TypeOK, Working

(* A task that counts holds what it held. *)
LEMMA CountingShape ==
  ASSUME Shaped, NEW t \in running, ~t.sent, NEW u, Becomes(t, u), ~u.sent, u.addr = t.addr,
         u.node = t.node, u.kids = t.kids,
         UNCHANGED <<parameters, queued, channel, tree, final, pc>>
  PROVE  Shaped'
<1>1. KidsOf(running') = KidsOf(running) /\ Unsent(running') = Unsent(running)
  <2> DEFINE m == [addr |-> t.addr, node |-> t.node]
  <2>1. [addr |-> u.addr, node |-> u.node] = m
    OBVIOUS
  <2> HIDE DEF m
  <2>2. PICK R : /\ KidsOf(running) = KidsOf(R) \cup ToSet(t.kids)
                 /\ KidsOf(running') = KidsOf(R) \cup ToSet(u.kids)
                 /\ Unsent(running) = Unsent(R) \cup {m} /\ Unsent(running') = Unsent(R) \cup {m}
    BY <2>1, TaskChanges DEF m
  <2> QED
    BY <2>2
<1>2. Waiting' = queued' \cup KidsOf(running') /\ OnTheWay' = Unsent(running') \cup ToSet(channel')
  BY DEF Waiting, OnTheWay, KidsOf, Unsent
<1>3. Waiting' = Waiting /\ OnTheWay' = OnTheWay
  BY <1>1, <1>2, WaitingIs
<1>4. Known' = Known
  BY <1>3 DEF Known
<1> QED
  BY <1>3, <1>4, ShapeStays DEF Failed

LEMMA CountShape ==
  ASSUME IInv, Shaped, pc # "failed", NEW t \in running, Count(t)
  PROVE  Shaped'
<1> DEFINE u == [t EXCEPT !.uncounted = @ - 1]
<1>1. GoodTask(t) /\ t \in Task
  BY ChannelType
<1>2. ~t.sent /\ Becomes(t, u) /\ UNCHANGED <<parameters, queued, channel, tree, final, pc>>
  BY <1>1 DEF Count, GoodTask
<1>3. u.addr = t.addr /\ u.node = t.node /\ u.kids = t.kids /\ u.sent = t.sent
  BY <1>1 DEF Task
<1> HIDE DEF u
<1> QED
  BY <1>2, <1>3, CountingShape

LEMMA UncountShape ==
  ASSUME IInv, Shaped, pc # "failed", NEW t \in running, Uncount(t)
  PROVE  Shaped'
<1> DEFINE u == [t EXCEPT !.overcounted = FALSE]
<1>1. GoodTask(t) /\ t \in Task
  BY ChannelType
<1>2. ~t.sent /\ Becomes(t, u) /\ UNCHANGED <<parameters, queued, channel, tree, final, pc>>
  BY <1>1 DEF Uncount, GoodTask
<1>3. u.addr = t.addr /\ u.node = t.node /\ u.kids = t.kids /\ u.sent = t.sent
  BY <1>1 DEF Task
<1> HIDE DEF u
<1> QED
  BY <1>2, <1>3, CountingShape

LEMMA SendShape ==
  ASSUME IInv, Shaped, pc # "failed", NEW t \in running, Send(t)
  PROVE  Shaped'
<1> DEFINE u == [t EXCEPT !.sent = TRUE]
           m == [addr |-> t.addr, node |-> t.node]
           S == [addr: Address, node: Node] \cup {SplitError}
<1>1. t \in Task /\ channel \in Seq(S)
  BY ChannelType
<1>2. /\ ~t.sent /\ Becomes(t, u) /\ channel' = Append(channel, m)
      /\ UNCHANGED <<parameters, queued, tree, final, pc>>
  BY DEF Send
<1>3. u.addr = t.addr /\ u.node = t.node /\ u.kids = t.kids /\ u.sent
  BY <1>1 DEF Task
<1>4. m \in S
  BY <1>1 DEF Task
<1>5. KidsOf(running') = KidsOf(running) /\ Unsent(running) = Unsent(running') \cup {m}
  <2> HIDE DEF u
  <2>1. PICK R : /\ KidsOf(running) = KidsOf(R) \cup ToSet(t.kids)
                 /\ KidsOf(running') = KidsOf(R) \cup ToSet(u.kids)
                 /\ Unsent(running) = Unsent(R) \cup {m} /\ Unsent(running') = Unsent(R)
    BY <1>2, <1>3, TaskChanges
  <2> HIDE DEF m
  <2> QED
    BY <1>3, <2>1
<1> HIDE DEF u, m, S
<1>6. ToSet(channel') = ToSet(channel) \cup {m}
  BY <1>1, <1>2, <1>4, ToSetOfAppend
<1>7. Waiting' = queued' \cup KidsOf(running') /\ OnTheWay' = Unsent(running') \cup ToSet(channel')
  BY DEF Waiting, OnTheWay, KidsOf, Unsent
<1>8. Waiting' = Waiting /\ OnTheWay' = OnTheWay
  BY <1>2, <1>5, <1>6, <1>7, WaitingIs
<1>9. Known' = Known
  BY <1>2, <1>8 DEF Known
<1>10. Failed => Failed'
  BY <1>2, <1>6 DEF Failed
<1> QED
  BY <1>2, <1>8, <1>9, <1>10, ShapeStays

LEMMA SpawnShape ==
  ASSUME IInv, Shaped, pc # "failed", NEW t \in running, Spawn(t)
  PROVE  Shaped'
<1> DEFINE u == [t EXCEPT !.kids = Front(@)]
           b == t.kids[Len(t.kids)]
<1>1. GoodTask(t) /\ t \in Task /\ t.kids \in Seq(Builder)
  BY ChannelType DEF Task
<1>2. /\ t.sent /\ Becomes(t, u) /\ queued' = queued \cup {b}
      /\ UNCHANGED <<parameters, channel, tree, final, pc>>
  BY DEF Spawn
<1>3. u.addr = t.addr /\ u.node = t.node /\ u.kids = Front(t.kids) /\ u.sent = t.sent
  BY <1>1 DEF Task
<1>4. t.kids # <<>>
  <2>1. PointsOfKids(t) # {}
    BY <1>1, <1>2 DEF GoodTask, PointsOfTask, PointsToSend
  <2> QED
    BY <2>1 DEF PointsOfKids
<1>5. ToSet(t.kids) = ToSet(u.kids) \cup {b}
  BY <1>1, <1>3, <1>4, ToSetOfFront
<1>6. Unsent(running') = Unsent(running) /\ KidsOf(running) = KidsOf(running') \cup {b}
  <2> HIDE DEF u, b
  <2>1. PICK R : /\ KidsOf(running) = KidsOf(R) \cup ToSet(t.kids)
                 /\ KidsOf(running') = KidsOf(R) \cup ToSet(u.kids)
                 /\ Unsent(running) = Unsent(R) /\ Unsent(running') = Unsent(R)
    BY <1>2, <1>3, TaskChanges
  <2> QED
    BY <1>5, <2>1
<1> HIDE DEF u, b
<1>7. Waiting' = queued' \cup KidsOf(running') /\ OnTheWay' = Unsent(running') \cup ToSet(channel')
  BY DEF Waiting, OnTheWay, KidsOf, Unsent
<1>8. Waiting' = Waiting /\ OnTheWay' = OnTheWay
  BY <1>2, <1>6, <1>7, WaitingIs
<1>9. Known' = Known
  BY <1>2, <1>8 DEF Known
<1> QED
  BY <1>2, <1>8, <1>9, ShapeStays DEF Failed

(* A split turns a node that waits into one that is on its way.            *)
LEMMA SplitShape ==
  ASSUME IInv, Shaped, pc # "failed", NEW b \in queued, Split(b)
  PROVE  Shaped'
<1>1. GoodBuilder(b) /\ parameters \in Settings /\ Working
  BY DEF IInv, TypeOK, Working
<1>2. PICK t : running' = running \cup {t} /\ ~t.sent /\ HandsDown(parameters, b, t)
  <2>1. CASE /\ IsFine(parameters, b)
             /\ running' = running \cup {FineTask(parameters, b)}
    BY <1>1, <2>1, FineTaskHandsDown, FineTaskDivides DEF Divides
  <2>2. ASSUME ~IsFine(parameters, b),
               NEW centers \in PickCenters(parameters, b, NextScale(parameters, b)),
               running' = running \cup {DividedTask(parameters, b, centers)}
        PROVE  \E t : running' = running \cup {t} /\ ~t.sent /\ HandsDown(parameters, b, t)
    BY <1>1, <2>2, DividedTaskHandsDown, DividedTaskDivides DEF Divides
  <2> QED
    BY <2>1, <2>2 DEF Split
<1>3. queued' = queued \ {b} /\ UNCHANGED <<parameters, total, channel, tree, final, inserted, pc>>
  BY DEF Split
<1> DEFINE m == [addr |-> t.addr, node |-> t.node]
<1>4. KidsOf(running') = KidsOf(running) \cup ToSet(t.kids) /\ Unsent(running') = Unsent(running) \cup {m}
  BY <1>2 DEF KidsOf, Unsent
<1>5. b \notin KidsOf(running)
  <2> SUFFICES ASSUME NEW u \in running, NEW i \in DOMAIN u.kids, b = u.kids[i] PROVE FALSE
    BY DEF KidsOf, ToSet
  <2>1. b.center \in PointsOf(b)
    BY DEF PointsOf
  <2>2. b.center \in PointsOfAll(queued) /\ b.center \in PointsOfTasks(running)
    BY <2>1 DEF PointsOfAll, PointsOfTasks, PointsOfTask, PointsOfKids
  <2> QED
    BY <1>1, <2>2 DEF Working, Apart
<1>6. Waiting' = queued' \cup KidsOf(running') /\ OnTheWay' = Unsent(running') \cup ToSet(channel')
  BY DEF Waiting, OnTheWay, KidsOf, Unsent
<1> HIDE DEF m
<1>7. Waiting' = (Waiting \ {b}) \cup ToSet(t.kids) /\ OnTheWay' = OnTheWay \cup {m} /\ b \in Waiting
  BY <1>3, <1>4, <1>5, <1>6, WaitingIs
<1>8. Known' = Known \cup {m}
  BY <1>3, <1>7 DEF Known
<1>9. ASSUME ~Failed' PROVE RootFits(parameters') /\ FinalsAgree'
                              /\ \E org : ShapeOf(parameters', Known', Waiting', org)
  <2>1. ~Failed
    BY <1>3, <1>9 DEF Failed
  <2>2. PICK org : ShapeOf(parameters, Known, Waiting, org)
    BY <2>1 DEF Shaped
  <2>3. \E new : ShapeOf(parameters, Known \cup {m}, (Waiting \ {b}) \cup ToSet(t.kids), new)
    BY <1>1, <1>2, <1>7, <2>2, ShapeGrows DEF m
  <2>4. RootFits(parameters) /\ FinalsAgree
    BY <2>1 DEF Shaped
  <2> QED
    BY <1>3, <1>7, <1>8, <2>3, <2>4 DEF FinalsAgree
<1> QED
  BY <1>9 DEF Shaped

(* A node that arrives goes from the channel to the tree.                  *)
LEMMA ReceiveShape ==
  ASSUME IInv, Shaped, Receive
  PROVE  Shaped'
<1> DEFINE m == Head(channel)
           S == [addr: Address, node: Node] \cup {SplitError}
<1>1. /\ pc = "receive" /\ channel # <<>> /\ channel' = Tail(channel)
      /\ UNCHANGED <<parameters, queued, running, total>>
  BY DEF Receive
<1>2. channel \in Seq(S)
  BY <1>1, ChannelType
<1>3. ToSet(channel) = {m} \cup ToSet(channel') /\ m \in S
  <2> HIDE DEF S
  <2> QED
    BY <1>1, <1>2, ToSetOfTail
<1>4. CASE m = SplitError
  <2>1. Failed'
    BY <1>4 DEF Receive, Failed
  <2> QED
    BY <2>1 DEF Shaped
<1>5. CASE m # SplitError
  <2>1. /\ tree' = Inserted(m.addr, m.node)
        /\ final' = [p \in Point |-> IF p \in Finals(m.addr, m.node) THEN m.addr ELSE final[p]]
    BY <1>5 DEF Receive
  <2>2. m \in [addr: Address, node: Node]
    BY <1>3, <1>5
  <2>3. pc' = "check"
    BY <1>5 DEF Receive
  <2> HIDE DEF m
  <2>4. m = [addr |-> m.addr, node |-> m.node]
    BY <2>2
  <2> SUFFICES ASSUME ~Failed'
               PROVE  /\ RootFits(parameters') /\ FinalsAgree'
                      /\ \E org : ShapeOf(parameters', Known', Waiting', org)
    BY DEF Shaped
  <2>5. ~Failed
    BY <1>1, <1>3, <1>5 DEF Failed
  <2>6. PICK org : ShapeOf(parameters, Known, Waiting, org)
    BY <2>5 DEF Shaped
  <2>7. \A n \in Known : n.addr = m.addr => n = m
    <3>1. m \in Known
      BY <1>3 DEF Known, OnTheWay
    <3> QED
      BY <2>6, <3>1 DEF ShapeOf
  <2> DEFINE E(f) == {[addr |-> a, node |-> f[a]] : a \in DOMAIN f}
  <2>8. /\ DOMAIN tree' = DOMAIN tree \cup {m.addr}
        /\ \A a \in DOMAIN tree : tree'[a] = tree[a]
        /\ tree'[m.addr] = m.node
    <3>1. /\ DOMAIN tree' = DOMAIN tree \cup {m.addr}
          /\ \A a \in DOMAIN tree' : tree'[a] = IF a = m.addr THEN m.node ELSE tree[a]
      BY <2>1 DEF Inserted
    <3>2. ASSUME m.addr \in DOMAIN tree PROVE tree[m.addr] = m.node
      <4> DEFINE n == [addr |-> m.addr, node |-> tree[m.addr]]
      <4>1. n \in Known /\ n.addr = m.addr /\ n.node = tree[m.addr]
        BY <3>2 DEF Known
      <4> HIDE DEF n
      <4>2. n = m
        BY <2>7, <4>1
      <4> QED
        BY <4>1, <4>2
    <3> QED
      BY <3>1, <3>2
  <2>9. E(tree') = E(tree) \cup {m}
    <3>1. ASSUME NEW x \in E(tree') PROVE x \in E(tree) \cup {m}
      <4>1. PICK a \in DOMAIN tree' : x = [addr |-> a, node |-> tree'[a]]
        OBVIOUS
      <4>2. CASE a = m.addr
        BY <2>4, <2>8, <4>1, <4>2
      <4>3. CASE a \in DOMAIN tree
        BY <2>8, <4>1, <4>3
      <4> QED
        BY <2>8, <4>2, <4>3
    <3>2. ASSUME NEW x \in E(tree) PROVE x \in E(tree')
      <4>1. PICK a \in DOMAIN tree : x = [addr |-> a, node |-> tree[a]]
        OBVIOUS
      <4> QED
        BY <2>8, <4>1
    <3>3. m \in E(tree')
      BY <2>4, <2>8
    <3> QED
      BY <3>1, <3>2, <3>3
  <2>10. /\ Known = E(tree) \cup Unsent(running) \cup ToSet(channel)
         /\ Known' = E(tree') \cup Unsent(running') \cup ToSet(channel')
    BY DEF Known, OnTheWay, Unsent
  <2> HIDE DEF E
  <2>11. Known' = Known
    BY <1>1, <1>3, <2>9, <2>10
  <2>12. Waiting' = Waiting
    BY <1>1 DEF Waiting
  <2>13. FinalsAgree'
    <3> SUFFICES ASSUME NEW p \in Point, final'[p] # None
                 PROVE  final'[p] \in DOMAIN tree' /\ p \in Finals(final'[p], tree'[final'[p]])
      BY DEF FinalsAgree
    <3>1. final'[p] = IF p \in Finals(m.addr, m.node) THEN m.addr ELSE final[p]
      BY <2>1
    <3>2. CASE p \in Finals(m.addr, m.node)
      BY <2>8, <3>1, <3>2
    <3>3. CASE p \notin Finals(m.addr, m.node)
      <4>1. final[p] \in DOMAIN tree /\ p \in Finals(final[p], tree[final[p]])
        BY <2>5, <3>1, <3>3 DEF Shaped, FinalsAgree
      <4> QED
        BY <2>8, <3>1, <3>3, <4>1
    <3> QED
      BY <3>2, <3>3
  <2>14. RootFits(parameters)
    BY <2>5 DEF Shaped
  <2> QED
    BY <1>1, <2>6, <2>11, <2>12, <2>13, <2>14
<1> QED
  BY <1>4, <1>5

LEMMA InitShape ==
  ASSUME Init
  PROVE  Shaped
<1> DEFINE r == Root(parameters)
           org == [a \in {AddressOf(r)} |-> r]
<1>1. /\ parameters \in Settings /\ queued = {r} /\ running = {} /\ channel = <<>> /\ tree = <<>>
      /\ final = [p \in Point |-> None]
      /\ pc \in {"receive", "failed"} /\ (pc = "receive" => RootFits(parameters))
  BY DEF Init
<1>2. r \in Builder /\ r.center \notin r.covered
  BY <1>1, RootType
<1>3. org[AddressOf(r)] = r
  OBVIOUS
<1> HIDE DEF r, org
<1>4. Waiting = {r} /\ OnTheWay = {}
  BY <1>1 DEF Waiting, OnTheWay, ToSet
<1>5. Known = {}
  BY <1>1, <1>4 DEF Known
<1>6. Places({}, {r}) = {AddressOf(r)}
  BY DEF Places
<1>7. ShapeOf(parameters, {}, {r}, org)
  BY <1>2, <1>3, <1>6 DEF ShapeOf, BuildersApart, r
<1>8. FinalsAgree
  BY <1>1 DEF FinalsAgree
<1> QED
  BY <1>1, <1>4, <1>5, <1>7, <1>8 DEF Shaped, Failed

LEMMA NextShape ==
  ASSUME IInv, Shaped, [Next]_vars
  PROVE  Shaped'
<1>1. ASSUME pc # "failed", NEW b \in queued, Split(b) PROVE Shaped'
  BY <1>1, SplitShape
<1>2. ASSUME pc # "failed", NEW b \in queued, SplitFails(b) PROVE Shaped'
  <2> DEFINE S == [addr: Address, node: Node] \cup {SplitError}
  <2>1. channel \in Seq(S) /\ SplitError \in S /\ channel' = Append(channel, SplitError)
    BY <1>2, ChannelType DEF SplitFails
  <2> HIDE DEF S
  <2>2. Failed'
    BY <2>1, ToSetOfAppend DEF Failed
  <2> QED
    BY <2>2 DEF Shaped
<1>3. ASSUME pc # "failed", NEW t \in running, Count(t) PROVE Shaped'
  BY <1>3, CountShape
<1>4. ASSUME pc # "failed", NEW t \in running, Uncount(t) PROVE Shaped'
  BY <1>4, UncountShape
<1>5. ASSUME pc # "failed", NEW t \in running, Send(t) PROVE Shaped'
  BY <1>5, SendShape
<1>6. ASSUME pc # "failed", NEW t \in running, Spawn(t) PROVE Shaped'
  BY <1>6, SpawnShape
<1>7. CASE Receive
  BY <1>7, ReceiveShape
<1>8. CASE CheckCount \/ Stopped \/ UNCHANGED vars
  <2>1. UNCHANGED <<parameters, queued, running, channel, tree, final>> /\ (Failed => Failed')
    BY <1>8 DEF CheckCount, Stopped, vars, Failed
  <2>2. Waiting' = Waiting /\ Known' = Known
    BY <2>1 DEF Waiting, Known, OnTheWay
  <2> QED
    BY <2>1, <2>2, ShapeStays
<1> QED
  BY <1>1, <1>2, <1>3, <1>4, <1>5, <1>6, <1>7, <1>8 DEF Next, PoolNext, BuilderNext

LEMMA BuildIsShaped == Spec => [](IInv /\ Shaped)
<1>1. Init => Shaped
  BY InitShape
<1>2. IInv /\ Shaped /\ [Next]_vars => Shaped'
  BY NextShape
<1> QED
  BY <1>1, <1>2, BuildIsInvariant, PTL DEF Spec

-----------------------------------------------------------------------------
(* The finished tree.                                                      *)

TreeRoot == AddressOf(Root(parameters))
Kids(a) == ToSet(tree[a].children)
ChildFor(a, p) == CoveringChild(parameters, tree[a], p)

FinishedNode(org, a) ==
  LET b == org[a]
  IN /\ b \in Builder /\ b.center \notin b.covered /\ AddressOf(b) = a
     /\ tree[a] \in Node /\ tree[a].parent = b.parent /\ tree[a].count = Cardinality(PointsOf(b))
     /\ Finals(a, tree[a]) = {p \in PointsOf(b) : ChildFor(a, p) = None}
     /\ \A p \in PointsOf(b) : ChildFor(a, p) \in Kids(a) \cup {None}
     /\ ~IsLeaf(tree[a]) => Separated(parameters, tree[a])
     /\ Kids(a) \subseteq DOMAIN tree
     /\ \A c \in Kids(a) :
          /\ org[c].parent = a /\ Scale(c) < Scale(a)
          /\ PointsOf(org[c]) = {p \in PointsOf(b) : ChildFor(a, p) = c}
          /\ \A p \in PointsOf(org[c]) : Within(Between(parameters, Center(c), p), Scale(c))

FinishedTree(org) ==
  /\ parameters \in Settings /\ RootFits(parameters)
  /\ IsFiniteSet(DOMAIN tree) /\ DOMAIN tree \subseteq Address
  /\ \A a \in DOMAIN tree : FinishedNode(org, a) /\ Scale(a) \in Layers
  /\ TreeRoot \in DOMAIN tree /\ org[TreeRoot] = Root(parameters)
  /\ \A a \in DOMAIN tree :
       a # TreeRoot => org[a].parent \in DOMAIN tree /\ a \in Kids(org[a].parent)
  /\ \A p \in Point : final[p] \in DOMAIN tree /\ p \in Finals(final[p], tree[final[p]])

LEMMA DoneIsFinished ==
  ASSUME IInv, Shaped, pc = "done"
  PROVE  \E org : FinishedTree(org)
<1> DEFINE D == DOMAIN tree
           Entry(a) == [addr |-> a, node |-> tree[a]]
           E == {Entry(a) : a \in D}
<1>1. queued = {} /\ running = {} /\ channel = <<>>
  BY DoneIsEmpty
<1>2. Waiting = {} /\ OnTheWay = {}
  BY <1>1 DEF Waiting, OnTheWay, ToSet
<1>3. Known = E
  BY <1>2 DEF Known
<1>4. ~Failed
  BY <1>1 DEF Failed, ToSet
<1>5. PICK org : ShapeOf(parameters, E, {}, org)
  BY <1>2, <1>3, <1>4 DEF Shaped
<1>6. RootFits(parameters) /\ FinalsAgree
  BY <1>4 DEF Shaped
<1>7. /\ parameters \in Settings /\ \A a \in D : a \in Layers \X Point
  BY DEF IInv, TypeOK, InLayers
<1>8. IsFiniteSet(D) /\ D \subseteq Address /\ \A a \in D : Scale(a) \in Layers
  <2> DEFINE lo == parameters.minRes - 1
             hi == Root(parameters).scale
  <2>1. lo \in Int /\ hi \in Int
    BY <1>7, RootType, SettingsAssumption DEF Parameters, Builder
  <2>2. Layers = lo..hi
    BY DEF Layers
  <2> HIDE DEF lo, hi
  <2>3. IsFiniteSet(Layers) /\ Layers \subseteq Int
    BY <2>1, <2>2, FS_Interval
  <2>4. IsFiniteSet(Layers \X Point)
    BY <2>3, PointAssumption, FS_Product
  <2>5. D \subseteq Layers \X Point
    BY <1>7
  <2>6. IsFiniteSet(D)
    BY <2>4, <2>5, FS_Subset
  <2> QED
    BY <1>7, <2>3, <2>6 DEF Address, Scale
<1>9. Places(E, {}) = D
  <2>1. Places(E, {}) = {m.addr : m \in E}
    BY DEF Places
  <2>2. \A a \in D : Entry(a).addr = a
    OBVIOUS
  <2> HIDE DEF Entry
  <2> QED
    BY <2>1, <2>2
<1>10. /\ \A m \in E : NodeShape(parameters, org, m) /\ ToSet(m.node.children) \subseteq D
       /\ TreeRoot \in D /\ org[TreeRoot] = Root(parameters)
       /\ \A a \in D :
            \/ a = TreeRoot
            \/ \E m \in E : m.addr = org[a].parent /\ a \in ToSet(m.node.children)
  BY <1>5, <1>9 DEF ShapeOf, TreeRoot
<1>11. ASSUME NEW a \in D PROVE FinishedNode(org, a)
  <2>1. Entry(a) \in E /\ Entry(a).addr = a /\ Entry(a).node = tree[a]
    OBVIOUS
  <2> HIDE DEF E, Entry
  <2>2. NodeShape(parameters, org, Entry(a)) /\ ToSet(tree[a].children) \subseteq D
    BY <1>10, <2>1
  <2> QED
    BY <2>1, <2>2 DEF NodeShape, FinishedNode, Kids, ChildFor
<1>12. ASSUME NEW a \in D, a # TreeRoot
       PROVE  org[a].parent \in D /\ a \in Kids(org[a].parent)
  <2>1. PICK m \in E : m.addr = org[a].parent /\ a \in ToSet(m.node.children)
    BY <1>10, <1>12
  <2>2. PICK q \in D : m = Entry(q)
    OBVIOUS
  <2>3. m.addr = q /\ m.node = tree[q]
    BY <2>2
  <2> QED
    BY <2>1, <2>2, <2>3 DEF Kids
<1>13. \A p \in Point : final[p] \in D /\ p \in Finals(final[p], tree[final[p]])
  <2>1. Point \subseteq PointsFinal
    <3>1. DOMAIN channel = {}
      BY <1>1
    <3>2. PointsOfAll(queued) = {} /\ PointsOfTasks(running) = {} /\ PointsSent(channel) = {}
      BY <1>1, <3>1 DEF PointsOfAll, PointsOfTasks, PointsSent
    <3> QED
      BY <1>4, <3>2 DEF IInv, Working, Complete
  <2> QED
    BY <1>6, <2>1 DEF PointsFinal, FinalsAgree
<1> QED
  BY <1>6, <1>7, <1>8, <1>10, <1>11, <1>12, <1>13 DEF FinishedTree

(* Inductions over the tree: from the root down, from some nodes up to the *)
(* root, and from the lowest nodes up.                                     *)
LEMMA TreeFacts ==
  ASSUME NEW org, FinishedTree(org)
  PROVE  /\ \A a \in DOMAIN tree : Scale(a) \in Int /\ Center(a) \in Point
         /\ tree[TreeRoot].parent = None
         /\ \A a \in DOMAIN tree : a # TreeRoot =>
              /\ tree[a].parent = org[a].parent /\ tree[a].parent # None
              /\ tree[a].parent \in DOMAIN tree /\ a \in Kids(tree[a].parent)
              /\ Scale(a) < Scale(tree[a].parent)
<1>1. \A a \in DOMAIN tree : a \in Address /\ Scale(a) \in Int /\ Center(a) \in Point
  BY DEF FinishedTree, Address, Scale, Center
<1>2. Root(parameters).parent = None
  BY DEF Root
<1>3. tree[TreeRoot].parent = None
  BY <1>2 DEF FinishedTree, FinishedNode
<1>4. ASSUME NEW a \in DOMAIN tree, a # TreeRoot
      PROVE  /\ tree[a].parent = org[a].parent /\ tree[a].parent # None
             /\ tree[a].parent \in DOMAIN tree /\ a \in Kids(tree[a].parent)
             /\ Scale(a) < Scale(tree[a].parent)
  <2>1. tree[a].parent = org[a].parent
    BY DEF FinishedTree, FinishedNode
  <2>2. org[a].parent \in DOMAIN tree /\ a \in Kids(org[a].parent)
    BY <1>4 DEF FinishedTree
  <2>3. FinishedNode(org, org[a].parent)
    BY <2>2 DEF FinishedTree
  <2>4. Scale(a) < Scale(org[a].parent)
    BY <2>2, <2>3 DEF FinishedNode
  <2> QED
    BY <1>1, <2>1, <2>2, <2>4, NoneAssumption
<1> QED
  BY <1>1, <1>3, <1>4

LEMMA HighestNode ==
  ASSUME NEW org, FinishedTree(org), NEW X \in SUBSET DOMAIN tree, X # {}
  PROVE  \E a \in X : \A c \in X : Scale(c) <= Scale(a)
<1> DEFINE f == [a \in X |-> Scale(a)]
           T == {f[a] : a \in X}
<1>1. IsFiniteSet(X)
  BY FS_Subset DEF FinishedTree
<1>2. \A a \in X : f[a] = Scale(a) /\ f[a] \in Int
  BY TreeFacts
<1>3. DOMAIN f = X
  OBVIOUS
<1> HIDE DEF f
<1>4. IsFiniteSet(T) /\ T \in SUBSET Int /\ T # {}
  BY <1>1, <1>2, <1>3, FiniteImage
<1>5. \A a \in X : f[a] \in T
  OBVIOUS
<1>6. \A y \in T : \E a \in X : y = f[a]
  OBVIOUS
<1> HIDE DEF T
<1>7. Max(T) \in T /\ \A n \in T : Max(T) >= n
  BY <1>4, MaxOfIntegers
<1>8. PICK a \in X : Max(T) = f[a]
  BY <1>6, <1>7
<1>9. \A c \in X : Scale(c) <= Scale(a)
  BY <1>2, <1>5, <1>7, <1>8
<1> QED
  BY <1>9

LEMMA FromTheRoot ==
  ASSUME NEW org, FinishedTree(org), NEW X \in SUBSET DOMAIN tree, TreeRoot \in X,
         \A a \in DOMAIN tree : a # TreeRoot /\ tree[a].parent \in X => a \in X
  PROVE  X = DOMAIN tree
<1> DEFINE Y == (DOMAIN tree) \ X
<1> SUFFICES ASSUME Y # {} PROVE FALSE
  OBVIOUS
<1>1. PICK a \in Y : \A c \in Y : Scale(c) <= Scale(a)
  BY HighestNode
<1>2. a \in DOMAIN tree /\ a # TreeRoot /\ tree[a].parent \notin X
  BY <1>1
<1>3. tree[a].parent \in Y /\ Scale(a) < Scale(tree[a].parent)
  BY <1>2, TreeFacts
<1>4. Scale(a) \in Int /\ Scale(tree[a].parent) \in Int
  BY <1>2, <1>3, TreeFacts
<1> QED
  BY <1>1, <1>3, <1>4

LEMMA ToTheRoot ==
  ASSUME NEW org, FinishedTree(org), NEW X \in SUBSET DOMAIN tree, X # {},
         \A a \in X : a # TreeRoot => tree[a].parent \in X
  PROVE  TreeRoot \in X
<1>1. PICK a \in X : \A c \in X : Scale(c) <= Scale(a)
  BY HighestNode
<1>2. CASE a # TreeRoot
  <2>1. tree[a].parent \in X /\ Scale(a) < Scale(tree[a].parent)
    BY <1>2, TreeFacts
  <2>2. Scale(a) \in Int /\ Scale(tree[a].parent) \in Int
    BY <2>1, TreeFacts
  <2> QED
    BY <1>1, <2>1, <2>2
<1> QED
  BY <1>2

LEMMA FromBelow ==
  ASSUME NEW org, FinishedTree(org), NEW X \in SUBSET DOMAIN tree,
         \A a \in DOMAIN tree : (\A c \in Kids(a) : c \in X) => a \in X
  PROVE  X = DOMAIN tree
<1> DEFINE Y == (DOMAIN tree) \ X
           lo == parameters.minRes - 1
           T == {Scale(a) - lo : a \in Y}
<1> SUFFICES ASSUME Y # {} PROVE FALSE
  OBVIOUS
<1>1. lo \in Int /\ \A a \in DOMAIN tree : Scale(a) \in Int /\ Scale(a) - lo \in Nat
  <2>1. lo \in Int /\ Root(parameters).scale \in Int
    BY RootType, SettingsAssumption DEF FinishedTree, Parameters, Builder
  <2>2. \A a \in DOMAIN tree : Scale(a) \in Int /\ Scale(a) \in lo..Root(parameters).scale
    BY TreeFacts DEF FinishedTree, Layers
  <2> HIDE DEF lo
  <2> QED
    BY <2>1, <2>2
<1> HIDE DEF lo
<1>2. T \in SUBSET Nat /\ T # {}
  BY <1>1
<1>3. PICK n \in T : \A m \in T : n <= m
  <2> HIDE DEF T
  <2> QED
    BY <1>2, LeastNatural
<1>4. PICK a \in Y : n = Scale(a) - lo
  OBVIOUS
<1>5. PICK c \in Kids(a) : c \notin X
  BY <1>4
<1>6. c \in Y /\ Scale(c) < Scale(a)
  BY <1>4, <1>5 DEF FinishedTree, FinishedNode
<1>7. Scale(c) - lo \in T
  BY <1>6
<1>8. Scale(a) - lo <= Scale(c) - lo
  BY <1>3, <1>4, <1>7
<1> QED
  BY <1>1, <1>4, <1>6, <1>8

-----------------------------------------------------------------------------
(* The finished tree hangs together.                                       *)

(* What is reached in n steps from the root. *)
Reaches(f, root) ==
  /\ f \in [Nat -> SUBSET DOMAIN tree] /\ f[0] = {root}
  /\ \A n \in Nat : f[n + 1] = f[n] \cup UNION {Kids(a) : a \in f[n]}

LEMMA ReachableSteps ==
  ASSUME NEW root \in DOMAIN tree, IsFiniteSet(DOMAIN tree),
         \A a \in DOMAIN tree : Kids(a) \subseteq DOMAIN tree
  PROVE  \E f : Reaches(f, root) /\ Reachable(tree, root) = f[Cardinality(DOMAIN tree) + 1]
<1> DEFINE D == DOMAIN tree
           X == SUBSET D
           below(s) == UNION {Kids(a) : a \in s \cap D}
           g == [nx \in Nat \X X |-> nx[2] \cup below(nx[2])]
           Eq(f) == f = [n \in Nat |-> IF n = 0 THEN {root} ELSE f[n - 1] \cup below(f[n - 1])]
           step == CHOOSE f : Eq(f)
           x0 == {root}
<1>1. Reachable(tree, root) = step[Cardinality(D) + 1]
  BY DEF Reachable, Kids
<1>2. \A n \in Nat, x \in X : g[<<n, x>>] = x \cup below(x)
  OBVIOUS
<1>3. \A x \in X : below(x) \in X
  OBVIOUS
<1>4. x0 \in X
  OBVIOUS
<1> HIDE DEF X, g, x0, below
<1>5. \A n \in Nat, x \in X : g[<<n, x>>] \in X
  <2> SUFFICES ASSUME NEW x \in X PROVE x \cup below(x) \in X
    BY <1>2
  <2> QED
    BY <1>3 DEF X
<1>6. PICK f : Recursion(f, X, x0, g)
  BY <1>4, <1>5, RecursionExists
<1>7. f \in [Nat -> X] /\ f[0] = {root} /\ \A n \in Nat : f[n + 1] = f[n] \cup below(f[n])
  <2>1. f \in [Nat -> X] /\ f[0] = x0 /\ \A n \in Nat : f[n + 1] = g[<<n, f[n]>>]
    BY <1>6 DEF Recursion
  <2>2. \A n \in Nat : f[n] \in X
    BY <2>1
  <2> QED
    BY <1>2, <2>1, <2>2 DEF x0
<1>8. \A n \in Nat : f[n] = IF n = 0 THEN {root} ELSE f[n - 1] \cup below(f[n - 1])
  <2> TAKE n \in Nat
  <2>1. CASE n = 0
    BY <2>1, <1>7
  <2>2. CASE n # 0
    <3>1. n - 1 \in Nat /\ (n - 1) + 1 = n
      BY <2>2
    <3> QED
      BY <3>1, <2>2, <1>7
  <2> QED
    BY <2>1, <2>2
<1>9. Eq(f)
  BY <1>7, <1>8
<1>10. Eq(step)
  BY <1>9
<1>11. \A h : Eq(h) => h[0] = {root} /\ \A n \in Nat : h[n + 1] = h[n] \cup below(h[n])
  <2> SUFFICES ASSUME NEW h, Eq(h)
               PROVE  h[0] = {root} /\ \A n \in Nat : h[n + 1] = h[n] \cup below(h[n])
    OBVIOUS
  <2>1. \A n \in Nat : h[n] = IF n = 0 THEN {root} ELSE h[n - 1] \cup below(h[n - 1])
    OBVIOUS
  <2> HIDE DEF Eq
  <2>2. \A n \in Nat : n + 1 \in Nat /\ n + 1 # 0 /\ (n + 1) - 1 = n
    OBVIOUS
  <2> QED
    BY <2>1, <2>2
<1> HIDE DEF Eq, step
<1> DEFINE P == {n \in Nat : step[n] = f[n]}
<1>12. P = Nat
  <2>1. 0 \in P
    BY <1>7, <1>10, <1>11
  <2>2. ASSUME NEW n \in P PROVE n + 1 \in P
    <3>1. n \in Nat /\ n + 1 \in Nat /\ step[n] = f[n]
      BY <2>2
    <3>2. step[n + 1] = step[n] \cup below(step[n])
      BY <1>10, <1>11, <3>1
    <3> QED
      BY <1>7, <3>1, <3>2
  <2>3. P \in SUBSET Nat
    OBVIOUS
  <2> HIDE DEF P
  <2> QED
    BY <2>1, <2>2, <2>3, AllNaturals
<1>13. Reaches(f, root)
  <2>1. \A n \in Nat : f[n] \in SUBSET D
    BY <1>7 DEF X
  <2>2. \A n \in Nat : below(f[n]) = UNION {Kids(a) : a \in f[n]}
    BY <2>1 DEF below
  <2> QED
    BY <1>7, <2>2 DEF Reaches, X
<1>14. Cardinality(D) + 1 \in Nat
  BY FS_CardinalityType
<1> HIDE DEF D
<1>15. step[Cardinality(D) + 1] = f[Cardinality(D) + 1]
  BY <1>12, <1>14
<1> QED
  BY <1>1, <1>13, <1>15 DEF D

LEMMA EverythingIsReached ==
  ASSUME NEW org, FinishedTree(org)
  PROVE  Reachable(tree, TreeRoot) = DOMAIN tree
<1> DEFINE D == DOMAIN tree
           N == Cardinality(D)
<1>1. /\ IsFiniteSet(D) /\ TreeRoot \in D /\ \A a \in D : Kids(a) \subseteq D
  BY DEF FinishedTree, FinishedNode
<1>2. N \in Nat
  BY <1>1, FS_CardinalityType
<1>3. PICK f : Reaches(f, TreeRoot) /\ Reachable(tree, TreeRoot) = f[N + 1]
  BY <1>1, ReachableSteps
<1>4. /\ \A n \in Nat : f[n] \subseteq D
      /\ f[0] = {TreeRoot}
      /\ \A n \in Nat : f[n + 1] = f[n] \cup UNION {Kids(a) : a \in f[n]}
  BY <1>3 DEF Reaches
<1>5. \A n \in Nat : IsFiniteSet(f[n]) /\ Cardinality(f[n]) \in Nat /\ Cardinality(f[n]) <= N
  BY <1>1, <1>4, FS_Subset, FS_CardinalityType
<1> HIDE DEF N
<1> DEFINE P == {n \in Nat : TreeRoot \in f[n] /\ (f[n] = D \/ Cardinality(f[n]) >= n + 1)}
<1>6. P = Nat
  <2>1. 0 \in P
    <3>1. Cardinality({TreeRoot}) = 1
      BY FS_Singleton
    <3>2. TreeRoot \in f[0] /\ Cardinality(f[0]) >= 0 + 1
      BY <1>4, <3>1
    <3> QED
      BY <3>2
  <2>2. ASSUME NEW n \in P PROVE n + 1 \in P
    <3>1. n \in Nat /\ n + 1 \in Nat /\ TreeRoot \in f[n] /\ f[n] \subseteq f[n + 1]
      BY <1>4, <2>2
    <3>2. CASE f[n] = D
      <4>1. f[n + 1] = D
        BY <1>4, <3>1, <3>2
      <4> QED
        BY <3>1, <4>1
    <3>3. CASE f[n] # D
      <4>1. Cardinality(f[n]) >= n + 1
        BY <2>2, <3>3
      <4>2. PICK a \in D : a # TreeRoot /\ tree[a].parent \in f[n] /\ a \notin f[n]
        <5>1. f[n] \in SUBSET D
          BY <1>4, <3>1
        <5> QED
          BY <3>1, <3>3, <5>1, FromTheRoot
      <4>3. a \in Kids(tree[a].parent)
        BY <4>2, TreeFacts
      <4>4. a \in f[n + 1]
        BY <1>4, <3>1, <4>2, <4>3
      <4> DEFINE S == f[n + 1]
                 R == f[n]
      <4>5. R \subseteq S /\ R # S /\ IsFiniteSet(S)
        BY <1>5, <3>1, <4>2, <4>4
      <4>6. Cardinality(R) \in Nat /\ Cardinality(S) \in Nat
        BY <1>5, <3>1
      <4>7. Cardinality(R) < Cardinality(S)
        <5> HIDE DEF R, S
        <5>1. Cardinality(R) <= Cardinality(S) /\ Cardinality(R) # Cardinality(S)
          BY <4>5, FS_Subset
        <5> QED
          BY <4>6, <5>1
      <4>8. Cardinality(S) >= (n + 1) + 1
        <5> HIDE DEF S
        <5> QED
          BY <3>1, <4>1, <4>6, <4>7
      <4>9. TreeRoot \in S
        BY <3>1
      <4> QED
        BY <3>1, <4>8, <4>9
    <3> QED
      BY <3>2, <3>3
  <2>3. P \in SUBSET Nat
    OBVIOUS
  <2> HIDE DEF P
  <2> QED
    BY <2>1, <2>2, <2>3, AllNaturals
<1>7. N + 1 \in P
  BY <1>2, <1>6
<1>8. f[N + 1] = D
  <2>1. N + 1 \in Nat /\ Cardinality(f[N + 1]) \in Nat /\ Cardinality(f[N + 1]) <= N
    BY <1>2, <1>5
  <2>2. ~(Cardinality(f[N + 1]) >= (N + 1) + 1)
    BY <1>2, <2>1
  <2> QED
    BY <1>7, <2>2
<1> QED
  BY <1>3, <1>8

(* The finished tree has no dangling reference and no unreachable node,    *)
(* and its children are below their parents and agree with them, whatever  *)
(* the order in which the nodes were made and arrived.                     *)
THEOREM FinishedTreeIsConnected == Spec => []TreeIsConnected
<1>1. ASSUME IInv, Shaped PROVE TreeIsConnected
  <2> SUFFICES ASSUME pc = "done"
               PROVE  /\ NoDanglingRefs(tree, TreeRoot)
                      /\ DOMAIN tree \subseteq Reachable(tree, TreeRoot)
                      /\ \A a \in DOMAIN tree : \A c \in Kids(a) :
                           tree[c].parent = a /\ Scale(c) < Scale(a)
    BY DEF TreeIsConnected, TreeRoot, Kids
  <2>1. PICK org : FinishedTree(org)
    BY <1>1, DoneIsFinished
  <2>2. Reachable(tree, TreeRoot) = DOMAIN tree
    BY <2>1, EverythingIsReached
  <2>3. ASSUME NEW a \in DOMAIN tree, NEW c \in Kids(a)
        PROVE  tree[c].parent = a /\ Scale(c) < Scale(a)
    <3>1. c \in DOMAIN tree /\ org[c].parent = a /\ Scale(c) < Scale(a)
      BY <2>1 DEF FinishedTree, FinishedNode
    <3>2. tree[c].parent = org[c].parent
      BY <2>1, <3>1 DEF FinishedTree, FinishedNode
    <3> QED
      BY <3>1, <3>2
  <2> QED
    BY <2>2, <2>3 DEF NoDanglingRefs
<1> QED
  BY <1>1, BuildIsShaped, PTL

-----------------------------------------------------------------------------
(* The walks of one point over the finished tree.                          *)

DownWalk(w, p) ==
  \A a \in DOMAIN tree :
    w[a] = IF ChildFor(a, p) = None THEN <<a>> ELSE <<a>> \o w[ChildFor(a, p)]

UpWalk(u) ==
  \A a \in DOMAIN tree :
    u[a] = IF a = TreeRoot THEN <<a>> ELSE Append(u[tree[a].parent], a)

(* How far the nodes are above the lowest scale and below the root. *)
LEMMA Heights ==
  ASSUME NEW org, FinishedTree(org)
  PROVE  \A a \in DOMAIN tree :
           /\ Scale(a) - (parameters.minRes - 1) \in Nat
           /\ Scale(TreeRoot) - Scale(a) \in Nat
<1> DEFINE lo == parameters.minRes - 1
           hi == Scale(TreeRoot)
<1>1. lo \in Int /\ hi = Root(parameters).scale /\ hi \in Int
  BY RootType, SettingsAssumption DEF FinishedTree, Parameters, Builder, TreeRoot, AddressOf, Scale
<1>2. \A a \in DOMAIN tree : Scale(a) \in Int /\ Scale(a) \in lo..hi
  BY <1>1, TreeFacts DEF FinishedTree, Layers
<1> HIDE DEF lo, hi
<1>3. \A a \in DOMAIN tree : Scale(a) - lo \in Nat /\ hi - Scale(a) \in Nat
  BY <1>1, <1>2
<1> QED
  BY <1>3 DEF lo, hi

LEMMA ChildrenAreBelow ==
  ASSUME NEW org, FinishedTree(org), NEW p \in Point, NEW a \in DOMAIN tree,
         ChildFor(a, p) # None
  PROVE  ChildFor(a, p) \in DOMAIN tree /\ Scale(ChildFor(a, p)) < Scale(a)
<1>1. parameters \in Settings /\ tree[a] \in Node /\ FinishedNode(org, a)
  BY DEF FinishedTree, FinishedNode
<1>2. PICK j \in 1..Len(tree[a].children) : ChildFor(a, p) = tree[a].children[j]
  BY <1>1, ChildIsNear DEF ChildFor
<1>3. ChildFor(a, p) \in Kids(a)
  <2>1. tree[a].children \in Seq(Address)
    BY <1>1 DEF Node
  <2> QED
    BY <1>2, <2>1, ToSetOf DEF Kids
<1> QED
  BY <1>1, <1>3 DEF FinishedNode

LEMMA PathIsDownWalk ==
  ASSUME NEW org, FinishedTree(org), NEW p \in Point
  PROVE  \E w \in [DOMAIN tree -> Seq(Address)] :
           DownWalk(w, p) /\ Path(parameters, tree, TreeRoot, p) = w[TreeRoot]
<1> DEFINE D == DOMAIN tree
           V == Seq(Address)
           S == {TreeRoot} \cup D \cup UNION {ToSet(tree[b].children) : b \in D}
           Child(a) == CoveringChild(parameters, tree[a], p)
           Eq(w) == w = [a \in S |->
                           IF a \notin D THEN <<a>>
                           ELSE IF Child(a) = None THEN <<a>> ELSE <<a>> \o w[Child(a)]]
           walk == CHOOSE w : Eq(w)
           lo == parameters.minRes - 1
           stop == {a \in D : Child(a) = None}
           base == [a \in D |-> <<a>>]
           next == [a \in D |-> IF Child(a) = None THEN a ELSE Child(a)]
           step == [av \in D \X V |-> <<av[1]>> \o av[2]]
           rank == [a \in D |-> Scale(a) - lo]
<1>1. Path(parameters, tree, TreeRoot, p) = walk[TreeRoot]
  BY DEF Path
<1>2. /\ D \subseteq Address /\ TreeRoot \in D
      /\ \A a \in D : ToSet(tree[a].children) \subseteq D
  BY DEF FinishedTree, FinishedNode, Kids
<1>3. S = D
  BY <1>2
<1>4. \A a \in D : Child(a) # None => Child(a) \in D /\ Scale(Child(a)) < Scale(a)
  BY ChildrenAreBelow DEF ChildFor
<1>5. \A a \in D : Scale(a) \in Int /\ Scale(a) - lo \in Nat
  BY TreeFacts, Heights
<1>6. lo \in Int
  BY SettingsAssumption DEF FinishedTree, Parameters
<1>7. \E f \in [D -> V] : Walk(f, D, stop, base, next, step)
  <2>1. base \in [D -> V]
    BY <1>2
  <2>2. next \in [D -> D]
    BY <1>4
  <2>3. \A a \in D, v \in V : step[<<a, v>>] = <<a>> \o v /\ step[<<a, v>>] \in V
    <3> TAKE a \in D, v \in V
    <3>1. step[<<a, v>>] = <<a>> \o v
      OBVIOUS
    <3>2. <<a>> \in V
      BY <1>2
    <3> QED
      BY <3>1, <3>2, ConcatProperties
  <2>4. rank \in [D -> Nat]
    BY <1>5
  <2>5. \A a \in D : a \notin stop => rank[next[a]] < rank[a]
    <3> SUFFICES ASSUME NEW a \in D, a \notin stop PROVE rank[next[a]] < rank[a]
      OBVIOUS
    <3>1. next[a] = Child(a) /\ Child(a) \in D /\ Scale(Child(a)) < Scale(a)
      BY <1>4
    <3>2. rank[next[a]] = Scale(Child(a)) - lo /\ rank[a] = Scale(a) - lo
      BY <3>1
    <3>3. Scale(Child(a)) \in Int /\ Scale(a) \in Int
      BY <1>5, <3>1
    <3> HIDE DEF rank, next, lo
    <3> QED
      BY <1>6, <3>1, <3>2, <3>3
  <2> HIDE DEF V, base, next, step, rank, stop, D
  <2> QED
    BY <2>1, <2>2, <2>3, <2>4, <2>5, WalksExist
<1>8. PICK f \in [D -> V] : Walk(f, D, stop, base, next, step)
  BY <1>7
<1>9. \A a \in D : f[a] = IF Child(a) = None THEN <<a>> ELSE <<a>> \o f[Child(a)]
  <2> SUFFICES ASSUME NEW a \in D
               PROVE  f[a] = IF Child(a) = None THEN <<a>> ELSE <<a>> \o f[Child(a)]
    OBVIOUS
  <2>1. f[a] = IF a \in stop THEN base[a] ELSE step[<<a, f[next[a]]>>]
    BY <1>8 DEF Walk
  <2>2. CASE Child(a) = None
    BY <2>1, <2>2
  <2>3. CASE Child(a) # None
    <3>1. next[a] = Child(a) /\ Child(a) \in D /\ a \notin stop
      BY <1>4, <2>3
    <3>2. f[Child(a)] \in V
      BY <3>1
    <3>3. step[<<a, f[Child(a)]>>] = <<a>> \o f[Child(a)]
      BY <3>2
    <3> QED
      BY <2>1, <2>3, <3>1, <3>3
  <2> QED
    BY <2>2, <2>3
<1>10. Eq(f)
  <2> HIDE DEF D, V, Child
  <2>1. f = [a \in D |-> f[a]]
    OBVIOUS
  <2>2. f = [a \in D |-> IF Child(a) = None THEN <<a>> ELSE <<a>> \o f[Child(a)]]
    BY <1>9, <2>1
  <2> QED
    BY <1>3, <2>2
<1>11. Eq(walk)
  <2> HIDE DEF Eq
  <2> QED
    BY <1>10
<1>12. /\ walk = [a \in D |-> walk[a]]
       /\ \A a \in D : walk[a] = IF Child(a) = None THEN <<a>> ELSE <<a>> \o walk[Child(a)]
  <2> HIDE DEF walk, D, Child
  <2> QED
    BY <1>3, <1>11
<1> HIDE DEF walk
<1>13. \A a \in D : walk[a] \in V
  <2> DEFINE X == {a \in D : walk[a] \in V}
  <2>1. X \in SUBSET DOMAIN tree
    OBVIOUS
  <2>2. ASSUME NEW a \in D, \A c \in Kids(a) : c \in X PROVE a \in X
    <3>1. <<a>> \in V
      BY <1>2
    <3>2. CASE Child(a) = None
      BY <1>12, <3>1, <3>2
    <3>3. CASE Child(a) # None
      <4>1. PICK j \in 1..Len(tree[a].children) : Child(a) = tree[a].children[j]
        BY <3>3, ChildIsNear DEF FinishedTree, FinishedNode
      <4>2. tree[a].children \in Seq(Address)
        BY DEF FinishedTree, FinishedNode, Node
      <4>3. Child(a) \in Kids(a)
        BY <4>1, <4>2, ToSetOf DEF Kids
      <4>4. walk[Child(a)] \in V
        BY <2>2, <4>3
      <4>5. <<a>> \o walk[Child(a)] \in V
        BY <3>1, <4>4, ConcatProperties
      <4> QED
        BY <1>12, <3>3, <4>5
    <3> QED
      BY <3>2, <3>3
  <2> HIDE DEF X
  <2>3. X = DOMAIN tree
    BY <2>1, <2>2, FromBelow
  <2> QED
    BY <2>3 DEF X
<1>14. walk \in [D -> V]
  <2> HIDE DEF D, V
  <2> QED
    BY <1>12, <1>13
<1>15. DownWalk(walk, p)
  BY <1>12 DEF DownWalk, ChildFor
<1> QED
  BY <1>1, <1>14, <1>15

LEMMA KnownPathIsUpWalk ==
  ASSUME NEW org, FinishedTree(org), NEW p \in Point
  PROVE  \E u \in [DOMAIN tree -> Seq(Address)] :
           UpWalk(u) /\ KnownPath(tree, final, p) = u[final[p]]
<1> DEFINE D == DOMAIN tree
           A == Address \cup {None}
           V == Seq(A)
           S == {final[p]} \cup D \cup {tree[b].parent : b \in D}
           Top(a) == a \notin D \/ tree[a].parent = None
           Eq(u) == u = [a \in S |-> IF Top(a) THEN <<a>> ELSE Append(u[tree[a].parent], a)]
           up == CHOOSE u : Eq(u)
           hi == Scale(TreeRoot)
           stop == {None, TreeRoot}
           base == [a \in S |-> <<a>>]
           next == [a \in S |-> IF Top(a) THEN a ELSE tree[a].parent]
           step == [av \in S \X V |-> Append(av[2], av[1])]
           rank == [a \in S |-> IF a = None THEN 0 ELSE hi - Scale(a)]
<1>1. KnownPath(tree, final, p) = up[final[p]]
  BY DEF KnownPath
<1>2. /\ D \subseteq Address /\ TreeRoot \in D /\ final[p] \in D
      /\ tree[TreeRoot].parent = None /\ None \notin D
      /\ \A a \in D : a # TreeRoot =>
           /\ tree[a].parent # None /\ tree[a].parent \in D
           /\ Scale(a) < Scale(tree[a].parent)
  BY TreeFacts, NoneAssumption DEF FinishedTree
<1>3. S = D \cup {None} /\ S \subseteq A
  BY <1>2
<1>4. \A a \in S : Top(a) <=> a \in stop
  BY <1>2, <1>3
<1>5. \A a \in D : Scale(a) \in Int /\ hi - Scale(a) \in Nat
  BY TreeFacts, Heights
<1>6. hi \in Int
  BY <1>2, <1>5
<1>7. \E f \in [S -> V] : Walk(f, S, stop, base, next, step)
  <2>1. base \in [S -> V]
    BY <1>3
  <2>2. next \in [S -> S]
    BY <1>2, <1>3, <1>4
  <2>3. \A a \in S, v \in V : step[<<a, v>>] = Append(v, a) /\ step[<<a, v>>] \in V
    <3> TAKE a \in S, v \in V
    <3>1. step[<<a, v>>] = Append(v, a)
      OBVIOUS
    <3>2. a \in A
      BY <1>3
    <3> QED
      BY <3>1, <3>2, AppendProperties
  <2>4. rank \in [S -> Nat]
    <3> HIDE DEF hi
    <3> QED
      BY <1>3, <1>5
  <2>5. \A a \in S : a \notin stop => rank[next[a]] < rank[a]
    <3> SUFFICES ASSUME NEW a \in S, a \notin stop PROVE rank[next[a]] < rank[a]
      OBVIOUS
    <3>1. a \in D /\ a # TreeRoot /\ ~Top(a)
      BY <1>3, <1>4
    <3>2. next[a] = tree[a].parent /\ tree[a].parent \in D /\ Scale(a) < Scale(tree[a].parent)
      BY <1>2, <3>1
    <3>3. rank[next[a]] = hi - Scale(tree[a].parent) /\ rank[a] = hi - Scale(a)
      <4> HIDE DEF hi, next
      <4> QED
        BY <1>2, <1>3, <3>1, <3>2
    <3>4. Scale(tree[a].parent) \in Int /\ Scale(a) \in Int
      BY <1>5, <3>1, <3>2
    <3> HIDE DEF rank, next, hi
    <3> QED
      BY <1>6, <3>2, <3>3, <3>4
  <2> HIDE DEF V, base, next, step, rank, stop, S
  <2> QED
    BY <2>1, <2>2, <2>3, <2>4, <2>5, WalksExist
<1>8. PICK f \in [S -> V] : Walk(f, S, stop, base, next, step)
  BY <1>7
<1>9. \A a \in S : f[a] = IF Top(a) THEN <<a>> ELSE Append(f[tree[a].parent], a)
  <2> SUFFICES ASSUME NEW a \in S
               PROVE  f[a] = IF Top(a) THEN <<a>> ELSE Append(f[tree[a].parent], a)
    OBVIOUS
  <2>1. f[a] = IF a \in stop THEN base[a] ELSE step[<<a, f[next[a]]>>]
    BY <1>8 DEF Walk
  <2>2. CASE Top(a)
    <3>1. a \in stop
      BY <1>4, <2>2
    <3>2. base[a] = <<a>>
      OBVIOUS
    <3> HIDE DEF Top, base, step, next, stop
    <3> QED
      BY <2>1, <2>2, <3>1, <3>2
  <2>3. CASE ~Top(a)
    <3>1. a \notin stop
      BY <1>4, <2>3
    <3>2. next[a] = tree[a].parent /\ tree[a].parent \in S
      BY <1>2, <1>3, <1>4, <2>3
    <3>3. f[tree[a].parent] \in V
      BY <3>2
    <3>4. step[<<a, f[tree[a].parent]>>] = Append(f[tree[a].parent], a)
      BY <3>3
    <3> HIDE DEF Top, base, step, next, stop
    <3> QED
      BY <2>1, <2>3, <3>1, <3>2, <3>4
  <2> QED
    BY <2>2, <2>3
<1>10. Eq(f)
  <2> HIDE DEF S, V, Top
  <2>1. f = [a \in S |-> f[a]]
    OBVIOUS
  <2>2. f = [a \in S |-> IF Top(a) THEN <<a>> ELSE Append(f[tree[a].parent], a)]
    BY <1>9, <2>1
  <2> QED
    BY <2>2
<1>11. Eq(up)
  <2> HIDE DEF Eq
  <2> QED
    BY <1>10
<1>12. \A a \in S : up[a] = IF Top(a) THEN <<a>> ELSE Append(up[tree[a].parent], a)
  <2> HIDE DEF up, S, Top
  <2> QED
    BY <1>11
<1> HIDE DEF up
<1>13. UpWalk(up)
  <2> SUFFICES ASSUME NEW a \in D
               PROVE  up[a] = IF a = TreeRoot THEN <<a>> ELSE Append(up[tree[a].parent], a)
    BY DEF UpWalk
  <2>1. a \in S /\ (Top(a) <=> a = TreeRoot)
    BY <1>2, <1>3
  <2> HIDE DEF Top, S
  <2> QED
    BY <1>12, <2>1
<1>14. \A a \in D : up[a] \in Seq(Address)
  <2> DEFINE X == {a \in D : up[a] \in Seq(Address)}
  <2>1. X \in SUBSET DOMAIN tree
    OBVIOUS
  <2>2. TreeRoot \in X
    <3>1. up[TreeRoot] = <<TreeRoot>> /\ TreeRoot \in Address
      BY <1>2, <1>13 DEF UpWalk
    <3>2. <<TreeRoot>> \in Seq(Address)
      BY <3>1
    <3> QED
      BY <1>2, <3>1, <3>2
  <2>3. ASSUME NEW a \in D, a # TreeRoot, tree[a].parent \in X PROVE a \in X
    <3>1. up[a] = Append(up[tree[a].parent], a)
      BY <1>13, <2>3 DEF UpWalk
    <3> DEFINE s == up[tree[a].parent]
    <3>2. a \in Address /\ s \in Seq(Address)
      BY <1>2, <2>3
    <3>3. Append(s, a) \in Seq(Address)
      <4> HIDE DEF s
      <4> QED
        BY <3>2, AppendProperties
    <3> QED
      BY <3>1, <3>3
  <2> HIDE DEF X
  <2>4. X = DOMAIN tree
    BY <2>1, <2>2, <2>3, FromTheRoot
  <2> QED
    BY <2>4 DEF X
<1> DEFINE u == [a \in D |-> up[a]]
<1>15. u \in [D -> Seq(Address)]
  BY <1>14
<1>16. UpWalk(u) /\ KnownPath(tree, final, p) = u[final[p]]
  <2>1. \A a \in D : u[a] = up[a]
    OBVIOUS
  <2> HIDE DEF u
  <2>2. UpWalk(u)
    BY <1>2, <1>13, <2>1 DEF UpWalk
  <2> QED
    BY <1>1, <1>2, <2>1, <2>2
<1> QED
  BY <1>15, <1>16

(* Going up from where a point was put, what is left of the walk up and    *)
(* the walk down from there are together the way that was put down.        *)
LEMMA WalksAgree ==
  ASSUME NEW org, FinishedTree(org), NEW p \in Point,
         NEW w \in [DOMAIN tree -> Seq(Address)], DownWalk(w, p),
         NEW u \in [DOMAIN tree -> Seq(Address)], UpWalk(u)
  PROVE  u[final[p]] = w[TreeRoot]
<1> DEFINE D == DOMAIN tree
           V == Seq(Address)
           end == final[p]
           Above(a) == IF a = TreeRoot THEN <<>> ELSE u[tree[a].parent]
           X == {a \in D : p \in PointsOf(org[a]) /\ u[end] = Above(a) \o w[a]}
<1>1. /\ D \subseteq Address /\ TreeRoot \in D /\ end \in D /\ p \in Finals(end, tree[end])
      /\ \A a \in D : FinishedNode(org, a)
  BY DEF FinishedTree
<1>2. \A a \in D : Above(a) \in V /\ u[a] = Above(a) \o <<a>>
  <2> TAKE a \in D
  <2>1. a \in Address /\ <<a>> \in V
    BY <1>1
  <2>2. CASE a = TreeRoot
    <3>1. u[a] = <<a>> /\ Above(a) = <<>>
      BY <2>2 DEF UpWalk
    <3>2. <<>> \o <<a>> = <<a>> /\ <<>> \in V
      BY <2>1, ConcatEmptySeq
    <3> QED
      BY <3>1, <3>2
  <2>3. CASE a # TreeRoot
    <3>1. u[a] = Append(u[tree[a].parent], a) /\ Above(a) = u[tree[a].parent]
      BY <2>3 DEF UpWalk
    <3>2. Above(a) \in V
      BY <2>3, <3>1, TreeFacts
    <3> HIDE DEF Above
    <3>3. Append(Above(a), a) = Above(a) \o <<a>>
      BY <2>1, <3>2, AppendIsConcat
    <3> QED
      BY <3>1, <3>2, <3>3
  <2> QED
    BY <2>2, <2>3
<1> HIDE DEF Above
<1>3. end \in X
  <2>1. p \in PointsOf(org[end]) /\ ChildFor(end, p) = None
    BY <1>1 DEF FinishedNode
  <2>2. w[end] = <<end>>
    BY <1>1, <2>1 DEF DownWalk
  <2> QED
    BY <1>1, <1>2, <2>1, <2>2
<1>4. ASSUME NEW a \in X, a # TreeRoot PROVE tree[a].parent \in X
  <2> DEFINE b == tree[a].parent
  <2>1. a \in D /\ p \in PointsOf(org[a]) /\ u[end] = Above(a) \o w[a]
    OBVIOUS
  <2>2. b \in D /\ a \in Kids(b)
    BY <1>4, <2>1, TreeFacts
  <2>3. p \in PointsOf(org[b]) /\ ChildFor(b, p) = a
    BY <1>1, <2>1, <2>2 DEF FinishedNode
  <2>4. a # None
    BY <1>1, <2>1, NoneAssumption
  <2>5. w[b] = <<b>> \o w[a]
    BY <2>2, <2>3, <2>4 DEF DownWalk
  <2>6. Above(a) = u[b]
    BY <1>4 DEF Above
  <2>7. u[b] = Above(b) \o <<b>> /\ Above(b) \in V /\ <<b>> \in V /\ w[a] \in V
    <3>1. u[b] = Above(b) \o <<b>> /\ Above(b) \in V
      BY <1>2, <2>2
    <3>2. b \in Address
      BY <1>1, <2>2
    <3>3. w[a] \in V
      BY <2>1
    <3> HIDE DEF b
    <3>4. <<b>> \in V
      BY <3>2
    <3> QED
      BY <3>1, <3>3, <3>4
  <2> HIDE DEF b
  <2>8. (Above(b) \o <<b>>) \o w[a] = Above(b) \o (<<b>> \o w[a])
    <3> DEFINE s == Above(b)
               t == <<b>>
               v == w[a]
    <3>1. s \in V /\ t \in V /\ v \in V
      BY <2>7
    <3> HIDE DEF s, t, v, X
    <3>2. (s \o t) \o v = s \o (t \o v)
      BY <3>1, ConcatAssociative
    <3> QED
      BY <3>2 DEF s, t, v
  <2>9. u[end] = Above(b) \o w[b]
    BY <2>1, <2>5, <2>6, <2>7, <2>8
  <2>10. b \in X
    BY <2>2, <2>3, <2>9
  <2> QED
    BY <2>10 DEF b
<1>5. X \in SUBSET D
  OBVIOUS
<1>6. \A a \in X : u[end] = Above(a) \o w[a]
  OBVIOUS
<1> HIDE DEF X
<1>7. TreeRoot \in X
  BY <1>3, <1>4, <1>5, ToTheRoot
<1>8. u[end] = Above(TreeRoot) \o w[TreeRoot] /\ w[TreeRoot] \in V
  BY <1>1, <1>6, <1>7
<1>9. Above(TreeRoot) = <<>>
  BY DEF Above
<1> QED
  BY <1>8, <1>9, ConcatEmptySeq

(* The walk down to a point by distance leads where the build has put the  *)
(* point, so that it is the walk up from its final address: the ties and   *)
(* the boundaries of the partitions are those of the queries.              *)
THEOREM WalksMeet == Spec => []PathIsKnownPath
<1>1. ASSUME IInv, Shaped PROVE PathIsKnownPath
  <2> SUFFICES ASSUME pc = "done", NEW p \in Point
               PROVE  Path(parameters, tree, TreeRoot, p) = KnownPath(tree, final, p)
    BY DEF PathIsKnownPath, TreeRoot
  <2>1. PICK org : FinishedTree(org)
    BY <1>1, DoneIsFinished
  <2>2. PICK w \in [DOMAIN tree -> Seq(Address)] :
          DownWalk(w, p) /\ Path(parameters, tree, TreeRoot, p) = w[TreeRoot]
    BY <2>1, PathIsDownWalk
  <2>3. PICK u \in [DOMAIN tree -> Seq(Address)] :
          UpWalk(u) /\ KnownPath(tree, final, p) = u[final[p]]
    BY <2>1, KnownPathIsUpWalk
  <2>4. u[final[p]] = w[TreeRoot]
    BY <2>1, <2>2, <2>3, WalksAgree
  <2> QED
    BY <2>2, <2>3, <2>4
<1> QED
  BY <1>1, BuildIsShaped, PTL

-----------------------------------------------------------------------------
(* The path of a point goes through the nodes that were given the point.   *)

LEMMA ToSetOfPrepend ==
  ASSUME NEW S, NEW a \in S, NEW s \in Seq(S)
  PROVE  ToSet(<<a>> \o s) = {a} \cup ToSet(s)
<1> DEFINE t == <<a>> \o s
<1>1. t \in Seq(S) /\ Len(t) = Len(s) + 1 /\ Len(s) \in Nat /\ t[1] = a
  OBVIOUS
<1>2. \A i \in 1..Len(s) : i + 1 \in 1..Len(t) /\ t[i + 1] = s[i]
  OBVIOUS
<1>3. \A i \in 1..Len(t) : i = 1 \/ (i - 1 \in 1..Len(s) /\ t[i] = s[i - 1])
  BY <1>1, <1>2
<1> HIDE DEF t
<1>4. ToSet(t) = {t[i] : i \in 1..Len(t)} /\ ToSet(s) = {s[i] : i \in 1..Len(s)}
  BY <1>1, ToSetOf
<1>5. ASSUME NEW x \in ToSet(t) PROVE x = a \/ x \in ToSet(s)
  BY <1>1, <1>3, <1>4
<1>6. a \in ToSet(t)
  BY <1>1, <1>4
<1>7. ASSUME NEW x \in ToSet(s) PROVE x \in ToSet(t)
  BY <1>2, <1>4
<1>8. ToSet(t) = {a} \cup ToSet(s)
  BY <1>5, <1>6, <1>7
<1> QED
  BY <1>8 DEF t

LEMMA NodesOnTheWay ==
  ASSUME NEW org, FinishedTree(org), NEW p \in Point,
         NEW w \in [DOMAIN tree -> Seq(Address)], DownWalk(w, p)
  PROVE  ToSet(w[TreeRoot]) = {a \in DOMAIN tree : p \in PointsOf(org[a])}
<1> DEFINE D == DOMAIN tree
           G == {a \in D : p \in PointsOf(org[a])}
           end == final[p]
<1>1. /\ D \subseteq Address /\ TreeRoot \in D /\ end \in D /\ p \in Finals(end, tree[end])
      /\ \A a \in D : FinishedNode(org, a)
  BY DEF FinishedTree
<1>2. ASSUME NEW a \in G, a # TreeRoot
      PROVE  /\ tree[a].parent \in G
             /\ ToSet(w[tree[a].parent]) = {tree[a].parent} \cup ToSet(w[a])
  <2> DEFINE b == tree[a].parent
  <2>1. b \in D /\ a \in Kids(b)
    BY <1>2, TreeFacts
  <2>2. p \in PointsOf(org[b]) /\ ChildFor(b, p) = a
    BY <1>1, <2>1 DEF FinishedNode
  <2>3. a # None
    BY <1>1, NoneAssumption
  <2>4. w[b] = <<b>> \o w[a]
    BY <2>1, <2>2, <2>3 DEF DownWalk
  <2>5. b \in Address /\ w[a] \in Seq(Address)
    BY <1>1, <2>1
  <2> HIDE DEF b
  <2>6. ToSet(w[b]) = {b} \cup ToSet(w[a])
    BY <2>4, <2>5, ToSetOfPrepend
  <2> QED
    BY <2>1, <2>2, <2>6 DEF b
<1>3. \A a \in D : a \in ToSet(w[a])
  <2> TAKE a \in D
  <2>1. w[a][1] = a /\ w[a] \in Seq(Address) /\ 1 \in 1..Len(w[a])
    <3>1. CASE ChildFor(a, p) = None
      <4>1. w[a] = <<a>>
        BY <3>1 DEF DownWalk
      <4> QED
        BY <1>1, <4>1
    <3>2. CASE ChildFor(a, p) # None
      <4>1. w[a] = <<a>> \o w[ChildFor(a, p)] /\ w[ChildFor(a, p)] \in Seq(Address)
        BY <3>2, ChildrenAreBelow DEF DownWalk
      <4> DEFINE s == w[ChildFor(a, p)]
      <4>2. w[a] = <<a>> \o s /\ s \in Seq(Address) /\ a \in Address /\ w[a] \in Seq(Address)
        BY <1>1, <4>1
      <4> HIDE DEF s
      <4> QED
        BY <4>2
    <3> QED
      BY <3>1, <3>2
  <2> QED
    BY <2>1, ToSetOf
<1>4. ToSet(w[TreeRoot]) \subseteq G
  <2> DEFINE X == {a \in G : ToSet(w[a]) \subseteq G}
  <2>1. end \in X
    <3>1. end \in G /\ ChildFor(end, p) = None
      BY <1>1 DEF FinishedNode
    <3>2. w[end] = <<end>>
      BY <1>1, <3>1 DEF DownWalk
    <3>3. ToSet(w[end]) = {end}
      BY <3>2 DEF ToSet
    <3> QED
      BY <3>1, <3>3
  <2>2. ASSUME NEW a \in X, a # TreeRoot PROVE tree[a].parent \in X
    <3>1. a \in G /\ ToSet(w[a]) \subseteq G
      OBVIOUS
    <3> HIDE DEF G
    <3> QED
      BY <1>2, <2>2, <3>1
  <2>3. X \in SUBSET DOMAIN tree
    OBVIOUS
  <2>4. \A a \in X : ToSet(w[a]) \subseteq G
    OBVIOUS
  <2> HIDE DEF X
  <2>5. TreeRoot \in X
    BY <2>1, <2>2, <2>3, ToTheRoot
  <2> QED
    BY <2>4, <2>5
<1>5. G \subseteq ToSet(w[TreeRoot])
  <2> DEFINE T == ToSet(w[TreeRoot])
             X == {a \in D : a \in G => ToSet(w[a]) \subseteq T}
  <2>1. TreeRoot \in X
    BY <1>1
  <2>2. ASSUME NEW a \in D, a # TreeRoot, tree[a].parent \in X PROVE a \in X
    <3> SUFFICES ASSUME a \in G PROVE ToSet(w[a]) \subseteq T
      OBVIOUS
    <3>1. tree[a].parent \in G /\ ToSet(w[a]) \subseteq ToSet(w[tree[a].parent])
      <4> HIDE DEF G
      <4> QED
        BY <1>2, <2>2
    <3> QED
      BY <2>2, <3>1
  <2>3. X \in SUBSET DOMAIN tree
    OBVIOUS
  <2>4. \A a \in G : a \in X => ToSet(w[a]) \subseteq T
    OBVIOUS
  <2> HIDE DEF X
  <2>5. X = DOMAIN tree
    BY <2>1, <2>2, <2>3, FromTheRoot
  <2> QED
    BY <1>3, <2>4, <2>5
<1> QED
  BY <1>4, <1>5

LEMMA KnownPathGoesThrough ==
  ASSUME NEW org, FinishedTree(org), NEW p \in Point
  PROVE  ToSet(KnownPath(tree, final, p)) = {a \in DOMAIN tree : p \in PointsOf(org[a])}
<1>1. PICK w \in [DOMAIN tree -> Seq(Address)] : DownWalk(w, p)
  BY PathIsDownWalk
<1>2. PICK u \in [DOMAIN tree -> Seq(Address)] :
        UpWalk(u) /\ KnownPath(tree, final, p) = u[final[p]]
  BY KnownPathIsUpWalk
<1>3. u[final[p]] = w[TreeRoot]
  BY <1>1, <1>2, WalksAgree
<1> QED
  BY <1>1, <1>2, <1>3, NodesOnTheWay

(* coverage_count, which a node computes from what it hands its children   *)
(* before any of them is made, is the number of points whose path goes     *)
(* through the node in the finished tree.                                  *)
THEOREM CountsOfTheTree == Spec => []CountsAreExact
<1>1. ASSUME IInv, Shaped PROVE CountsAreExact
  <2> DEFINE Through(a) == {p \in Point : a \in ToSet(KnownPath(tree, final, p))}
  <2> SUFFICES ASSUME pc = "done", NEW a \in DOMAIN tree
               PROVE  tree[a].count = Cardinality(Through(a))
    BY DEF CountsAreExact
  <2>1. PICK org : FinishedTree(org)
    BY <1>1, DoneIsFinished
  <2>2. tree[a].count = Cardinality(PointsOf(org[a])) /\ org[a] \in Builder
    BY <2>1 DEF FinishedTree, FinishedNode
  <2>3. PointsOf(org[a]) \subseteq Point
    BY <2>2 DEF PointsOf, Builder
  <2>4. \A p \in Point : a \in ToSet(KnownPath(tree, final, p)) <=> p \in PointsOf(org[a])
    BY <2>1, KnownPathGoesThrough
  <2>5. Through(a) = PointsOf(org[a])
    BY <2>3, <2>4
  <2> QED
    BY <2>2, <2>5
<1> QED
  BY <1>1, BuildIsShaped, PTL

-----------------------------------------------------------------------------
(* The properties of a cover tree.                                         *)

(* The scale of the root is that of its radius, and so covers the cloud,   *)
(* the points just at it included.                                         *)
LEMMA RootCovers ==
  ASSUME NEW ps \in Settings, RootFits(ps), NEW p \in Point
  PROVE  LET d == Between(ps, Root(ps).center, p)
         IN Within(d, Root(ps).scale) \/ d = Powi[Root(ps).scale]
<1> DEFINE b == [parent |-> None, scale |-> 0, center |-> LastIndex, covered |-> Point \ {LastIndex}]
           r == MaxDistance(ps, b)
           D == {Between(ps, b.center, q) : q \in b.covered}
           f == [q \in b.covered |-> Between(ps, b.center, q)]
           s == Root(ps).scale
           d == Between(ps, LastIndex, p)
<1>1. b.center = LastIndex /\ b.covered = Point \ {LastIndex} /\ LastIndex \in Point
  BY SettingsAssumption
<1>2. Root(ps).center = LastIndex /\ s = CeilLog(r) /\ s \in Int
  BY RootType DEF Root, Builder
<1>3. d \in Nat
  BY <1>1, BetweenType
<1>4. r \in Nat \cup {NoRadius}
  <2> HIDE DEF b
  <2> QED
    BY <1>1, MaxDistanceType
<1>5. b.covered = {} => r = NoRadius
  BY DEF MaxDistance
<1>6. b.covered # {} => r = Max(D)
  BY DEF MaxDistance
<1> HIDE DEF s, b, r
<1>7. s # BelowAnyScale
  BY DEF RootFits, BelowAnyScale, s
<1>8. CASE p = LastIndex
  <2>1. d = 0
    BY <1>1, <1>8, CloudAssumption
  <2> HIDE DEF d
  <2>2. Within(d, s)
    BY <1>2, <2>1, WithinZero
  <2> QED
    BY <1>2, <2>2 DEF d, s
<1>9. CASE p # LastIndex
  <2>1. p \in b.covered /\ b.covered \in SUBSET Point
    BY <1>1, <1>9
  <2>2. d \in D
    BY <1>1, <2>1
  <2>3. D \in SUBSET Nat
    BY <1>1, <2>1, BetweenType
  <2>4. IsFiniteSet(D)
    <3>1. IsFiniteSet(b.covered)
      BY <2>1, PointAssumption, FS_Subset
    <3>2. D = {f[q] : q \in b.covered} /\ DOMAIN f = b.covered
      OBVIOUS
    <3> HIDE DEF f, D
    <3> QED
      BY <3>1, <3>2, FiniteImage
  <2> HIDE DEF D, d
  <2>5. r \in D /\ d <= r
    BY <1>6, <2>1, <2>2, <2>3, <2>4, MaxOfIntegers
  <2>6. r \in Nat /\ r # 0
    BY <1>2, <1>7, <2>3, <2>5 DEF CeilLog, NoRadius
  <2> DEFINE T == {n \in 0..r : Powi[n] >= r}
  <2>7. s = Min(T)
    BY <1>2, <2>6 DEF CeilLog, NoRadius
  <2>8. r \in T /\ T \in SUBSET Nat
    BY <2>6, PowiGrows, PowiDef
  <2>9. \A n \in T : Powi[n] >= r
    OBVIOUS
  <2> HIDE DEF T
  <2>10. s \in T
    BY <2>7, <2>8, MinOfNaturals
  <2>11. s \in Nat /\ Powi[s] >= r /\ Powi[s] \in Nat
    BY <2>8, <2>9, <2>10, PowiDef
  <2>12. d < Powi[s] \/ d = Powi[s]
    BY <1>3, <2>5, <2>6, <2>11
  <2>13. Within(d, s) \/ d = Powi[s]
    BY <2>11, <2>12 DEF Within
  <2> QED
    BY <1>2, <2>13 DEF d, s
<1> QED
  BY <1>8, <1>9

LEMMA NodeCovers ==
  ASSUME NEW org, FinishedTree(org), NEW a \in DOMAIN tree, NEW p \in PointsOf(org[a])
  PROVE  LET d == Between(parameters, Center(a), p)
         IN Within(d, Scale(a)) \/ (a = TreeRoot /\ d = Powi[Scale(a)])
<1>1. CASE a = TreeRoot
  <2>1. Center(a) = Root(parameters).center /\ Scale(a) = Root(parameters).scale
    BY <1>1 DEF TreeRoot, AddressOf, Center, Scale
  <2>2. p \in Point
    <3>1. org[a] \in Builder
      BY DEF FinishedTree, FinishedNode
    <3> QED
      BY <3>1 DEF PointsOf, Builder
  <2> QED
    BY <1>1, <2>1, <2>2, RootCovers DEF FinishedTree
<1>2. CASE a # TreeRoot
  <2>1. tree[a].parent \in DOMAIN tree /\ a \in Kids(tree[a].parent)
    BY <1>2, TreeFacts
  <2>2. FinishedNode(org, tree[a].parent)
    BY <2>1 DEF FinishedTree
  <2>3. Within(Between(parameters, Center(a), p), Scale(a))
    BY <2>1, <2>2 DEF FinishedNode
  <2> QED
    BY <2>3
<1> QED
  BY <1>1, <1>2

(* Every node on the path of a point covers the point, and the centers     *)
(* among which a node shares out its points are apart, with either         *)
(* partition, down to the finest resolution.                               *)
THEOREM CoverTreeProperty == Spec => []CoveringAndSeparation
<1>1. ASSUME IInv, Shaped PROVE CoveringAndSeparation
  <2> DEFINE Covers(a, p) ==
               LET d == Between(parameters, Center(a), p)
               IN Within(d, Scale(a)) \/ (tree[a].parent = None /\ d = Powi[Scale(a)])
  <2> SUFFICES ASSUME pc = "done"
               PROVE  /\ \A p \in Point : \A a \in ToSet(KnownPath(tree, final, p)) : Covers(a, p)
                      /\ \A a \in DOMAIN tree : ~IsLeaf(tree[a]) => Separated(parameters, tree[a])
    BY DEF CoveringAndSeparation, Separated
  <2>1. PICK org : FinishedTree(org)
    BY <1>1, DoneIsFinished
  <2>2. ASSUME NEW p \in Point, NEW a \in ToSet(KnownPath(tree, final, p)) PROVE Covers(a, p)
    <3>1. a \in DOMAIN tree /\ p \in PointsOf(org[a])
      BY <2>1, KnownPathGoesThrough
    <3>2. a = TreeRoot => tree[a].parent = None
      BY <2>1, TreeFacts
    <3> QED
      BY <2>1, <3>1, <3>2, NodeCovers
  <2>3. \A a \in DOMAIN tree : ~IsLeaf(tree[a]) => Separated(parameters, tree[a])
    BY <2>1 DEF FinishedTree, FinishedNode
  <2> HIDE DEF Covers
  <2> QED
    BY <2>2, <2>3
<1> QED
  BY <1>1, BuildIsShaped, PTL

-----------------------------------------------------------------------------
(* Distances from the query.                                               *)

LEMMA Scaled ==
  ASSUME NEW x \in Nat, NEW y \in Nat
  PROVE  /\ Base * x \in Nat
         /\ x <= y <=> Base * x <= Base * y
         /\ x < y => Base * x + Base <= Base * y
<1>1. Base \in Nat /\ Base >= 2
  BY BaseAssumption
<1>2. ASSUME NEW u \in Nat, NEW v \in Nat, u < v PROVE Base * u + Base <= Base * v
  <2>1. v - u - 1 \in Nat /\ v = u + 1 + (v - u - 1)
    BY <1>2
  <2> DEFINE w == v - u - 1
  <2>2. w \in Nat /\ v = u + 1 + w
    BY <2>1
  <2> HIDE DEF w
  <2>3. Base * w \in Nat
    BY <1>1, <2>2
  <2>4. Base * (u + 1 + w) = Base * u + Base + Base * w
    BY <1>1, <2>2
  <2> QED
    BY <1>1, <2>2, <2>3, <2>4
<1>3. Base * x \in Nat /\ Base * y \in Nat
  BY <1>1
<1>4. CASE x < y
  BY <1>1, <1>2, <1>3, <1>4
<1>5. CASE y < x
  BY <1>1, <1>2, <1>3, <1>5
<1>6. CASE x = y
  BY <1>3, <1>6
<1> QED
  BY <1>4, <1>5, <1>6

LEMMA QueryIs ==
  ASSUME query \in Query
  PROVE  /\ query.k \in Nat /\ query.k > 0
         /\ \A p \in Point : query.dist[p] \in Nat /\ query.dist[p] <= Farthest
         /\ \A x, y \in Point :
              query.dist[x] <= Between(parameters, x, y) + query.dist[y]
<1>1. query \in [dist: [Point -> 0..Farthest], k: Ks, routing: BOOLEAN]
  BY DEF Query
<1>2. \A x, y \in Point : query.dist[x] <= Between(parameters, x, y) + query.dist[y]
  BY DEF Query
<1>3. query.k \in Ks /\ query.dist \in [Point -> 0..Farthest]
  BY <1>1
<1>4. query.k \in Nat /\ query.k > 0 /\ Farthest \in Nat
  <2>1. Ks \subseteq Nat \ {0} /\ Farthest \in Nat
    BY QueryAssumption
  <2>2. query.k \in Nat \ {0}
    BY <1>3, <2>1
  <2> QED
    BY <2>1, <2>2
<1>5. \A p \in Point : query.dist[p] \in Nat /\ query.dist[p] <= Farthest
  BY <1>3, <1>4
<1> QED
  BY <1>2, <1>4, <1>5

LEMMA DistType ==
  ASSUME query \in Query
  PROVE  /\ Infinite \in Nat
         /\ \A p \in Point : Dist(p) \in Nat /\ Dist(p) < Infinite
         /\ \A p, r \in Point : Dist(p) <= Dist(r) <=> query.dist[p] <= query.dist[r]
<1>1. Farthest \in Nat /\ Farthest + 1 \in Nat
  BY QueryAssumption
<1>2. Infinite \in Nat
  BY <1>1, Scaled DEF Infinite
<1>3. ASSUME NEW p \in Point PROVE Dist(p) \in Nat /\ Dist(p) < Infinite
  <2> DEFINE x == query.dist[p]
             y == Farthest + 1
  <2>1. x \in Nat /\ y \in Nat /\ x < y
    BY <1>1, QueryIs
  <2>2. Dist(p) = Base * x /\ Infinite = Base * y
    BY DEF Dist, Infinite
  <2> HIDE DEF x, y
  <2>3. Base * x \in Nat /\ Base * y \in Nat /\ Base * x + Base <= Base * y
    BY <2>1, Scaled
  <2> QED
    BY <2>2, <2>3, BaseAssumption
<1>4. ASSUME NEW p \in Point, NEW r \in Point
      PROVE  Dist(p) <= Dist(r) <=> query.dist[p] <= query.dist[r]
  BY QueryIs, Scaled DEF Dist
<1> QED
  BY <1>2, <1>3, <1>4

(* The radius of the k nearest points. *)
LEMMA MaxDistIs ==
  ASSUME query \in Query, NEW points \in SUBSET Point
  PROVE  /\ IsFiniteSet(points) /\ Cardinality(points) \in Nat
         /\ MaxDist(points) \in Nat /\ MaxDist(points) <= Infinite
         /\ Cardinality(points) < query.k => MaxDist(points) = Infinite
         /\ ~(Cardinality(points) < query.k) =>
              /\ \A p \in points : Dist(p) <= MaxDist(points)
              /\ \E p \in points : MaxDist(points) = Dist(p)
<1> DEFINE f == [p \in points |-> Dist(p)]
           D == {f[p] : p \in points}
<1>1. IsFiniteSet(points) /\ Cardinality(points) \in Nat
  BY PointAssumption, FS_Subset, FS_CardinalityType
<1>2. CASE Cardinality(points) < query.k
  <2>1. MaxDist(points) = Infinite
    BY <1>2 DEF MaxDist
  <2> QED
    BY <1>1, <1>2, <2>1, DistType
<1>3. CASE ~(Cardinality(points) < query.k)
  <2>1. points # {}
    BY <1>3, QueryIs, FS_EmptySet
  <2>2. DOMAIN f = points /\ \A p \in points : f[p] = Dist(p) /\ f[p] \in Nat /\ f[p] < Infinite
    BY DistType
  <2>3. D = {Dist(p) : p \in points}
    OBVIOUS
  <2>4. MaxDist(points) = Max(D)
    BY <1>3, <2>3 DEF MaxDist
  <2> HIDE DEF f
  <2>5. IsFiniteSet(D) /\ D \in SUBSET Int /\ D # {}
    BY <1>1, <2>1, <2>2, FiniteImage
  <2>6. \A p \in points : f[p] \in D
    OBVIOUS
  <2>7. \A d \in D : \E p \in points : d = f[p]
    OBVIOUS
  <2> HIDE DEF D
  <2>8. Max(D) \in D /\ \A d \in D : Max(D) >= d
    BY <2>5, MaxOfIntegers
  <2>9. PICK p \in points : Max(D) = f[p]
    BY <2>7, <2>8
  <2>10. MaxDist(points) = Dist(p) /\ MaxDist(points) \in Nat /\ MaxDist(points) < Infinite
    BY <2>2, <2>4, <2>9
  <2>11. \A q \in points : Dist(q) <= MaxDist(points)
    BY <2>2, <2>4, <2>5, <2>6, <2>8
  <2> QED
    BY <1>1, <1>3, <2>10, <2>11, DistType
<1> QED
  BY <1>2, <1>3

-----------------------------------------------------------------------------
(* The k nearest.                                                          *)

(* points are the k nearest of all. *)
Keeps(points, all) ==
  /\ points \subseteq all
  /\ Cardinality(points) = SmallerOf(query.k, Cardinality(all))
  /\ \A p \in points, r \in all \ points : Dist(p) <= Dist(r)

LEMMA NearestExist ==
  ASSUME NEW T, IsFiniteSet(T), NEW d \in [T -> Nat], NEW k \in Nat
  PROVE  \E S \in SUBSET T :
           /\ Cardinality(S) = SmallerOf(k, Cardinality(T))
           /\ \A p \in S, r \in T \ S : d[p] <= d[r]
<1> DEFINE Good(n, S) == /\ Cardinality(S) = SmallerOf(n, Cardinality(T))
                         /\ \A p \in S, r \in T \ S : d[p] <= d[r]
           P == {n \in Nat : \E S \in SUBSET T : Good(n, S)}
<1>1. \A S \in SUBSET T : IsFiniteSet(S) /\ Cardinality(S) \in Nat /\ Cardinality(S) <= Cardinality(T)
                            /\ (Cardinality(S) = Cardinality(T) => S = T)
  BY FS_Subset, FS_CardinalityType
<1>2. Cardinality(T) \in Nat
  BY FS_CardinalityType
<1>3. 0 \in P
  <2>1. {} \in SUBSET T /\ Cardinality({}) = 0
    BY FS_EmptySet
  <2>2. Good(0, {})
    BY <1>2, <2>1 DEF SmallerOf
  <2> QED
    BY <2>1, <2>2
<1>4. ASSUME NEW n \in P PROVE n + 1 \in P
  <2>1. n \in Nat /\ n + 1 \in Nat
    OBVIOUS
  <2>2. PICK S \in SUBSET T : Good(n, S)
    OBVIOUS
  <2>3. CASE S = T
    <3>1. Good(n + 1, S)
      BY <1>1, <1>2, <2>1, <2>2, <2>3 DEF SmallerOf
    <3> QED
      BY <2>1, <3>1
  <2>4. CASE S # T
    <3> DEFINE R == T \ S
               V == {d[r] : r \in R}
    <3>1. V \in SUBSET Nat /\ V # {}
      BY <2>4
    <3>2. PICK v \in V : \A w \in V : v <= w
      <4> HIDE DEF V
      <4> QED
        BY <3>1, LeastNatural
    <3>3. PICK x \in R : v = d[x]
      OBVIOUS
    <3>4. \A r \in R : d[x] <= d[r]
      BY <3>2, <3>3
    <3> DEFINE U == S \cup {x}
    <3>5. U \in SUBSET T /\ x \notin S /\ x \in T
      BY <3>3
    <3>6. Cardinality(U) = Cardinality(S) + 1
      BY <1>1, <3>5, FS_AddElement
    <3>7. Cardinality(S) < Cardinality(T) /\ Cardinality(S) \in Nat
      BY <1>1, <1>2, <2>4
    <3>8. Cardinality(U) = SmallerOf(n + 1, Cardinality(T))
      <4>1. Cardinality(S) = SmallerOf(n, Cardinality(T))
        BY <2>2
      <4> HIDE DEF U
      <4> QED
        BY <1>2, <2>1, <3>6, <3>7, <4>1 DEF SmallerOf
    <3>9. \A p \in U, r \in T \ U : d[p] <= d[r]
      BY <2>2, <3>4
    <3>10. Good(n + 1, U)
      BY <3>8, <3>9
    <3> QED
      BY <2>1, <3>5, <3>10
  <2> QED
    BY <2>3, <2>4
<1>5. P = Nat
  <2>1. P \in SUBSET Nat
    OBVIOUS
  <2> HIDE DEF P
  <2> QED
    BY <1>3, <1>4, <2>1, AllNaturals
<1> QED
  BY <1>5

LEMMA NearestKeeps ==
  ASSUME query \in Query, NEW points \in SUBSET Point
  PROVE  Keeps(Nearest(points), points)
<1> DEFINE d == [p \in points |-> Dist(p)]
           Good(S) == /\ Cardinality(S) = SmallerOf(query.k, Cardinality(points))
                      /\ \A p \in S, r \in points \ S : Dist(p) <= Dist(r)
<1>1. IsFiniteSet(points) /\ query.k \in Nat /\ d \in [points -> Nat]
  BY MaxDistIs, QueryIs, DistType
<1>2. \A p \in points : d[p] = Dist(p)
  OBVIOUS
<1>3. \E S \in SUBSET points : Good(S)
  <2> HIDE DEF d
  <2>1. PICK S \in SUBSET points :
          /\ Cardinality(S) = SmallerOf(query.k, Cardinality(points))
          /\ \A p \in S, r \in points \ S : d[p] <= d[r]
    BY <1>1, NearestExist
  <2>2. Good(S)
    BY <1>2, <2>1
  <2> QED
    BY <2>2
<1>4. Nearest(points) = CHOOSE S \in SUBSET points : Good(S)
  BY DEF Nearest
<1> HIDE DEF Good
<1>5. Nearest(points) \in SUBSET points /\ Good(Nearest(points))
  BY <1>3, <1>4
<1> QED
  BY <1>5 DEF Good, Keeps

(* The k nearest of the k nearest so far and of some new points are the k  *)
(* nearest of all, and reach no farther.                                   *)
LEMMA KeepsMore ==
  ASSUME query \in Query, NEW all \in SUBSET Point, NEW points, Keeps(points, all),
         NEW new \in SUBSET Point
  PROVE  /\ Keeps(Nearest(points \cup new), all \cup new)
         /\ MaxDist(Nearest(points \cup new)) <= MaxDist(points)
<1> DEFINE both == points \cup new
           S == Nearest(both)
           k == query.k
<1>1. points \in SUBSET all /\ points \in SUBSET Point /\ both \in SUBSET Point
      /\ all \cup new \in SUBSET Point
  BY DEF Keeps
<1>2. Keeps(S, both)
  BY <1>1, NearestKeeps
<1> HIDE DEF S, k
<1>3. S \subseteq both /\ Cardinality(S) = SmallerOf(k, Cardinality(both))
      /\ \A p \in S, r \in both \ S : Dist(p) <= Dist(r)
  BY <1>2 DEF Keeps, k
<1>4. Cardinality(points) = SmallerOf(k, Cardinality(all))
      /\ \A p \in points, r \in all \ points : Dist(p) <= Dist(r)
  BY DEF Keeps, k
<1>5. /\ k \in Nat
      /\ IsFiniteSet(points) /\ Cardinality(points) \in Nat
      /\ IsFiniteSet(all) /\ Cardinality(all) \in Nat
      /\ IsFiniteSet(both) /\ Cardinality(both) \in Nat
      /\ IsFiniteSet(S) /\ Cardinality(S) \in Nat
      /\ IsFiniteSet(all \cup new) /\ Cardinality(all \cup new) \in Nat
  <2>1. S \in SUBSET Point
    BY <1>1, <1>3
  <2> HIDE DEF both
  <2> QED
    BY <1>1, <2>1, MaxDistIs, QueryIs DEF k
<1>6. /\ Cardinality(points) <= Cardinality(all) /\ (Cardinality(points) = Cardinality(all) => points = all)
      /\ Cardinality(points) <= Cardinality(both)
      /\ Cardinality(all) <= Cardinality(all \cup new)
  <2>1. points \subseteq both /\ all \subseteq all \cup new
    OBVIOUS
  <2> HIDE DEF both
  <2> QED
    BY <1>1, <1>5, <2>1, FS_Subset
<1>7. Cardinality(S) = SmallerOf(k, Cardinality(all \cup new))
  <2>1. CASE points = all
    BY <1>3, <2>1
  <2>2. CASE points # all
    <3> HIDE DEF both
    <3> QED
      BY <1>3, <1>4, <1>5, <1>6, <2>2 DEF SmallerOf
  <2> QED
    BY <2>1, <2>2
<1>8. \A p \in Point : Dist(p) \in Nat
  BY DistType
<1>9. ASSUME NEW p \in S, p \notin points, Cardinality(points) = k
      PROVE  \E y \in points : Dist(p) <= Dist(y)
  <2>1. Cardinality(S) = k
    <3> HIDE DEF both
    <3> QED
      BY <1>3, <1>5, <1>6, <1>9 DEF SmallerOf
  <2>2. PICK y \in points : y \notin S
    <3> SUFFICES ASSUME points \subseteq S PROVE FALSE
      OBVIOUS
    <3>1. points = S
      BY <1>5, <1>9, <2>1, FS_Subset
    <3> QED
      BY <1>9, <3>1
  <2> QED
    BY <1>3, <2>2
<1>10. ASSUME NEW p \in S, NEW r \in (all \cup new) \ S PROVE Dist(p) <= Dist(r)
  <2>1. CASE r \in both
    BY <1>3, <2>1
  <2>2. CASE r \notin both
    <3>1. r \in all /\ r \notin points
      BY <2>2
    <3>2. Cardinality(points) = k
      <4>1. points # all
        BY <3>1
      <4> QED
        BY <1>4, <1>5, <1>6, <4>1 DEF SmallerOf
    <3>3. CASE p \in points
      BY <1>4, <3>1, <3>3
    <3>4. CASE p \notin points
      <4>1. PICK y \in points : Dist(p) <= Dist(y)
        BY <1>9, <3>2, <3>4
      <4>2. Dist(y) <= Dist(r)
        BY <1>4, <3>1
      <4>3. p \in Point /\ y \in Point /\ r \in Point
        BY <1>1, <1>3, <3>1
      <4>4. Dist(p) \in Nat /\ Dist(y) \in Nat /\ Dist(r) \in Nat
        BY <1>8, <4>3
      <4> QED
        BY <4>1, <4>2, <4>4
    <3> QED
      BY <3>3, <3>4
  <2> QED
    BY <2>1, <2>2
<1>11. Keeps(S, all \cup new)
  <2>1. S \subseteq all \cup new
    BY <1>1, <1>3
  <2> HIDE DEF both
  <2> QED
    BY <1>7, <1>10, <2>1 DEF Keeps, k
<1>12. MaxDist(S) <= MaxDist(points)
  <2>1. S \in SUBSET Point
    BY <1>1, <1>3
  <2>2. CASE Cardinality(points) < k
    BY <1>1, <2>1, <2>2, MaxDistIs DEF k
  <2>3. CASE ~(Cardinality(points) < k)
    <3>1. Cardinality(points) = k /\ Cardinality(S) = k
      <4> HIDE DEF both
      <4> QED
        BY <1>3, <1>4, <1>5, <1>6, <2>3 DEF SmallerOf
    <3>2. PICK p \in S : MaxDist(S) = Dist(p)
      BY <1>5, <2>1, <3>1, MaxDistIs DEF k
    <3>3. \A y \in points : Dist(y) <= MaxDist(points)
      BY <1>1, <2>3, MaxDistIs DEF k
    <3>4. MaxDist(points) \in Nat
      BY <1>1, MaxDistIs
    <3>5. CASE p \in points
      BY <3>2, <3>3, <3>5
    <3>6. CASE p \notin points
      <4>1. PICK y \in points : Dist(p) <= Dist(y)
        BY <1>9, <3>1, <3>6
      <4>2. Dist(p) \in Nat /\ Dist(y) \in Nat
        BY <1>1, <1>8, <2>1
      <4> QED
        BY <3>2, <3>3, <3>4, <4>1, <4>2
    <3> QED
      BY <3>5, <3>6
  <2> QED
    BY <2>2, <2>3
<1> QED
  BY <1>11, <1>12 DEF S

-----------------------------------------------------------------------------
(* What a node is estimated at, no point below it is nearer than.          *)
LEMMA MinDistBelow ==
  ASSUME query \in Query, NEW org, FinishedTree(org), NEW a \in DOMAIN tree
  PROVE  MinDist(a) \in Nat /\ \A p \in PointsOf(org[a]) : MinDist(a) <= Dist(p)
<1> DEFINE s == Scale(a)
           c == Center(a)
           pow == Powi[s + 1]
<1>1. s \in Int /\ c \in Point /\ parameters \in Settings /\ org[a] \in Builder
  BY TreeFacts DEF FinishedTree, FinishedNode
<1>2. s >= -1 /\ (a = TreeRoot => s >= 0)
  <2> DEFINE m == parameters.minRes
  <2>1. m \in Int /\ m >= 0
    BY <1>1, QueryAssumption, SettingsAssumption DEF Parameters
  <2>2. s \in Layers
    BY DEF FinishedTree
  <2>3. Root(parameters).scale \in Int
    BY <1>1, RootType DEF Builder
  <2>4. s >= m - 1
    <3> HIDE DEF s
    <3> QED
      BY <1>1, <2>1, <2>2, <2>3 DEF Layers
  <2>5. a = TreeRoot => s >= m
    BY DEF FinishedTree, RootFits, TreeRoot, AddressOf, Scale
  <2> HIDE DEF s, m
  <2> QED
    BY <1>1, <2>1, <2>4, <2>5
<1>3. s + 1 \in Nat /\ pow \in Nat
  <2> HIDE DEF s
  <2>1. s + 1 \in Nat
    BY <1>1, <1>2
  <2> QED
    BY <2>1, PowiDef
<1>4. MinDist(a) = LargerOf(Dist(c) - pow, 0)
  BY DEF MinDist
<1> HIDE DEF pow, c
<1>5. Dist(c) \in Nat
  BY <1>1, DistType
<1>6. MinDist(a) \in Nat
  BY <1>3, <1>4, <1>5 DEF LargerOf
<1>7. ASSUME NEW p \in PointsOf(org[a]) PROVE MinDist(a) <= Dist(p)
  <2> DEFINE d == Between(parameters, c, p)
  <2>1. p \in Point
    BY <1>1 DEF PointsOf, Builder
  <2>2. d \in Nat
    BY <1>1, <2>1, BetweenType
  <2>3. Base * d <= pow
    <3>1. Within(d, s) \/ (a = TreeRoot /\ d = Powi[s])
      BY NodeCovers DEF c
    <3> HIDE DEF d, s
    <3>2. CASE s >= 0
      <4>1. s \in Nat /\ Powi[s] \in Nat /\ Powi[s + 1] = Base * Powi[s]
        <5>1. s \in Nat /\ s + 1 \in Nat /\ s + 1 # 0 /\ (s + 1) - 1 = s
          BY <1>1, <3>2
        <5>2. Powi[s + 1] = Base * Powi[(s + 1) - 1]
          BY <5>1, PowiDef
        <5> QED
          BY <5>1, <5>2, PowiDef
      <4>2. d <= Powi[s]
        BY <2>2, <3>1, <3>2, <4>1 DEF Within
      <4>3. Base * d <= Base * Powi[s]
        BY <2>2, <4>1, <4>2, Scaled
      <4> QED
        BY <4>1, <4>3 DEF pow, s
    <3>3. CASE s < 0
      <4>1. d = 0
        BY <1>1, <1>2, <2>2, <3>1, <3>3 DEF Within
      <4> QED
        BY <1>3, <4>1, BaseAssumption
    <3> QED
      BY <1>1, <3>2, <3>3
  <2>4. Dist(c) <= Base * d + Dist(p)
    <3> DEFINE x == query.dist[c]
               y == query.dist[p]
    <3>1. x \in Nat /\ y \in Nat /\ x <= d + y
      BY <1>1, <2>1, QueryIs
    <3>2. Dist(c) = Base * x /\ Dist(p) = Base * y
      BY DEF Dist
    <3> HIDE DEF x, y, d
    <3>3. Base * x <= Base * (d + y)
      BY <2>2, <3>1, Scaled
    <3>4. Base * (d + y) = Base * d + Base * y
      BY <2>2, <3>1, BaseAssumption
    <3> QED
      BY <3>2, <3>3, <3>4
  <2>5. Base * d \in Nat /\ Dist(p) \in Nat
    BY <2>1, <2>2, DistType, Scaled
  <2> HIDE DEF d
  <2> QED
    BY <1>3, <1>4, <1>5, <2>3, <2>4, <2>5 DEF LargerOf
<1> QED
  BY <1>6, <1>7

-----------------------------------------------------------------------------
(* Pushing nodes.  X is what a heap may hold, besides what it did.         *)

HeapNode == [address: DOMAIN tree, dist: Nat, min: Nat]

InHeap(heap, seen) == \A n \in heap : n.address \in DOMAIN tree /\ Center(n.address) \in seen

Searches(X) ==
  {h \in [children: SUBSET X, known: SUBSET Point, nearest: SUBSET Point, max: Nat] :
     /\ Keeps(h.nearest, h.known)
     /\ MaxDist(h.nearest) <= h.max
     /\ InHeap(h.children, h.known)}

(* A point is known, below a node of the heap, or farther than the rest.   *)
Met(org, h, p) ==
  \/ p \in h.known
  \/ \E n \in h.children : p \in PointsOf(org[n.address])
  \/ Dist(p) >= MaxDist(h.nearest)

Grows(h, g) ==
  /\ h.children \subseteq g.children /\ h.known \subseteq g.known
  /\ MaxDist(g.nearest) <= MaxDist(h.nearest)

LEMMA SearchIs ==
  ASSUME query \in Query, NEW X, NEW h \in Searches(X)
  PROVE  /\ h \in [children: SUBSET X, known: SUBSET Point, nearest: SUBSET Point, max: Nat]
         /\ h.children \subseteq X /\ h.known \in SUBSET Point /\ h.nearest \in SUBSET Point
         /\ h.max \in Nat /\ Keeps(h.nearest, h.known) /\ InHeap(h.children, h.known)
         /\ MaxDist(h.nearest) \in Nat /\ MaxDist(h.nearest) <= h.max
<1>1. /\ h \in [children: SUBSET X, known: SUBSET Point, nearest: SUBSET Point, max: Nat]
      /\ Keeps(h.nearest, h.known) /\ InHeap(h.children, h.known)
      /\ MaxDist(h.nearest) <= h.max
  BY DEF Searches
<1>2. h.children \subseteq X /\ h.known \in SUBSET Point /\ h.nearest \in SUBSET Point /\ h.max \in Nat
  BY <1>1
<1> QED
  BY <1>1, <1>2, MaxDistIs

LEMMA GrowingStays ==
  ASSUME query \in Query, NEW X, NEW h \in Searches(X), NEW g \in Searches(X), Grows(h, g)
  PROVE  /\ \A org : \A p \in Point : Met(org, h, p) => Met(org, g, p)
         /\ \A i \in Searches(X) : Grows(g, i) => Grows(h, i)
<1>1. MaxDist(h.nearest) \in Nat /\ MaxDist(g.nearest) \in Nat
      /\ MaxDist(g.nearest) <= MaxDist(h.nearest)
      /\ h.children \subseteq g.children /\ h.known \subseteq g.known
  BY SearchIs DEF Grows
<1>2. \A p \in Point : Dist(p) \in Nat
  BY DistType
<1>3. ASSUME NEW org, NEW p \in Point, Met(org, h, p) PROVE Met(org, g, p)
  BY <1>1, <1>2, <1>3 DEF Met
<1>4. ASSUME NEW i \in Searches(X), Grows(g, i) PROVE Grows(h, i)
  <2>1. MaxDist(i.nearest) \in Nat
    BY SearchIs
  <2> QED
    BY <1>1, <1>4, <2>1 DEF Grows
<1> QED
  BY <1>3, <1>4

(* push_nodes with one node: the node is in the heap, or too far to have   *)
(* anything of interest below it.                                          *)
LEMMA PushKeeps ==
  ASSUME query \in Query, NEW org, FinishedTree(org), NEW X, HeapNode \subseteq X,
         NEW h \in Searches(X), NEW a \in DOMAIN tree
  PROVE  /\ PushNode(h, a) \in Searches(X) /\ Grows(h, PushNode(h, a))
         /\ \A p \in PointsOf(org[a]) : Met(org, PushNode(h, a), p)
<1> DEFINE c == Center(a)
           g == PushNode(h, a)
           new == Nearest(h.nearest \cup {c})
           n == [address |-> a, dist |-> Dist(c), min |-> MinDist(a)]
<1>1. c \in Point
  BY TreeFacts
<1>2. /\ h.children \subseteq X /\ h.known \in SUBSET Point /\ h.nearest \in SUBSET Point
      /\ h.max \in Nat /\ Keeps(h.nearest, h.known) /\ InHeap(h.children, h.known)
      /\ MaxDist(h.nearest) \in Nat /\ MaxDist(h.nearest) <= h.max
  BY SearchIs
<1>3. n \in X
  <2>1. Dist(c) \in Nat /\ MinDist(a) \in Nat
    BY <1>1, DistType, MinDistBelow
  <2> QED
    BY <2>1 DEF HeapNode
<1>4. /\ Keeps(new, h.known \cup {c}) /\ MaxDist(new) <= MaxDist(h.nearest)
      /\ new \in SUBSET Point /\ MaxDist(new) \in Nat
  <2>1. {c} \in SUBSET Point
    BY <1>1
  <2> DEFINE t == {c}
  <2> HIDE DEF c, n, g
  <2>2. Keeps(Nearest(h.nearest \cup t), h.known \cup t)
        /\ MaxDist(Nearest(h.nearest \cup t)) <= MaxDist(h.nearest)
    <3>1. t \in SUBSET Point
      BY <2>1
    <3> HIDE DEF t
    <3> QED
      BY <1>2, <3>1, KeepsMore
  <2>3. new \in SUBSET Point
    BY <1>2, <2>1, <2>2 DEF Keeps
  <2> HIDE DEF new
  <2> QED
    BY <2>2, <2>3, MaxDistIs DEF new
<1>5. /\ g.children = IF MinDist(a) < h.max THEN h.children \cup {n} ELSE h.children
      /\ g.known = h.known \cup {c}
      /\ g.nearest = IF c \in h.known THEN h.nearest ELSE new
      /\ g.max = h.max \/ (g.max = MaxDist(new) /\ c \notin h.known)
      /\ g = [children |-> g.children, known |-> g.known, nearest |-> g.nearest, max |-> g.max]
  BY DEF PushNode
<1> HIDE DEF g, new, n, c
<1>6. /\ Keeps(g.nearest, g.known) /\ MaxDist(g.nearest) <= MaxDist(h.nearest)
      /\ g.nearest \in SUBSET Point /\ MaxDist(g.nearest) \in Nat
      /\ MaxDist(g.nearest) <= g.max /\ g.max \in Nat
  <2>1. CASE c \in h.known
    <3>1. g.nearest = h.nearest /\ g.known = h.known /\ g.max = h.max
      BY <1>5, <2>1
    <3> QED
      BY <1>2, <3>1
  <2>2. CASE c \notin h.known
    <3>1. g.nearest = new /\ g.known = h.known \cup {c}
      BY <1>5, <2>2
    <3> QED
      BY <1>2, <1>4, <1>5, <3>1
  <2> QED
    BY <2>1, <2>2
<1>7. InHeap(g.children, g.known) /\ g.children \subseteq X
  <2>1. n.address = a /\ c = Center(a)
    BY DEF n, c
  <2> QED
    BY <1>2, <1>3, <1>5, <2>1 DEF InHeap
<1>8. Grows(h, g)
  BY <1>5, <1>6 DEF Grows
<1>9. g \in Searches(X)
  <2>1. g.known \in SUBSET Point
    BY <1>1, <1>2, <1>5
  <2>2. g \in [children: SUBSET X, known: SUBSET Point, nearest: SUBSET Point, max: Nat]
    <3> DEFINE x1 == g.children
               x2 == g.known
               x3 == g.nearest
               x4 == g.max
    <3>1. x1 \in SUBSET X /\ x2 \in SUBSET Point /\ x3 \in SUBSET Point /\ x4 \in Nat
      BY <1>6, <1>7, <2>1
    <3>2. g = [children |-> x1, known |-> x2, nearest |-> x3, max |-> x4]
      BY <1>5
    <3> HIDE DEF x1, x2, x3, x4
    <3> QED
      BY <3>1, <3>2
  <2> QED
    BY <1>6, <1>7, <2>2 DEF Searches
<1>10. ASSUME NEW p \in PointsOf(org[a]) PROVE Met(org, g, p)
  <2>1. CASE MinDist(a) < h.max
    <3>1. n \in g.children /\ n.address = a
      BY <1>5, <2>1 DEF n
    <3> QED
      BY <3>1 DEF Met
  <2>2. CASE ~(MinDist(a) < h.max)
    <3>1. MinDist(a) <= Dist(p) /\ MinDist(a) \in Nat
      BY MinDistBelow
    <3>2. Dist(p) \in Nat
      <4>1. org[a] \in Builder
        BY DEF FinishedTree, FinishedNode
      <4>2. p \in Point
        BY <4>1 DEF PointsOf, Builder
      <4> QED
        BY <4>2, DistType
    <3>3. Dist(p) >= MaxDist(g.nearest)
      BY <1>2, <1>6, <2>2, <3>1, <3>2
    <3> QED
      BY <3>3 DEF Met
  <2> QED
    BY <2>1, <2>2
<1> QED
  BY <1>8, <1>9, <1>10 DEF g

(* push_nodes folds over the addresses: the recursion that the fold of the *)
(* sequences is.                                                           *)
Pushed(h, list, it) ==
  it = [s \in SUBSET DOMAIN list |->
          IF s = {} THEN h ELSE PushNode(it[s \ {Max(s)}], list[Max(s)])]

Pushes(h, list) == CHOOSE it : Pushed(h, list, it)

LEMMA FoldOfPushes ==
  ASSUME NEW h, NEW list
  PROVE  FoldLeft(PushNode, h, list) = Pushes(h, list)[DOMAIN list]
BY DEF FoldLeft, MapThenFoldSet, Pushes, Pushed

LEMMA PushesExist ==
  ASSUME query \in Query, NEW org, FinishedTree(org), NEW X, HeapNode \subseteq X,
         NEW h \in Searches(X), NEW list \in Seq(DOMAIN tree)
  PROVE  /\ Pushed(h, list, Pushes(h, list))
         /\ Pushes(h, list) \in [SUBSET DOMAIN list -> Searches(X)]
<1> DEFINE D == SUBSET DOMAIN list
           V == Searches(X)
           base == [s \in D |-> h]
           next == [s \in D |-> s \ {Max(s)}]
           stop == {{}}
           step == [sv \in D \X V |-> IF sv[1] = {} THEN sv[2]
                                      ELSE PushNode(sv[2], list[Max(sv[1])])]
           rank == [s \in D |-> Cardinality(s)]
<1>1. IsFiniteSet(DOMAIN list) /\ DOMAIN list \subseteq Int
      /\ \A i \in DOMAIN list : list[i] \in DOMAIN tree
  <2>1. DOMAIN list = 1..Len(list) /\ Len(list) \in Nat
    OBVIOUS
  <2>2. IsFiniteSet(1..Len(list)) /\ 1..Len(list) \subseteq Int
    BY <2>1, FS_Interval
  <2> QED
    BY <2>1, <2>2
<1>2. \A s \in D : /\ IsFiniteSet(s) /\ Cardinality(s) \in Nat
                   /\ s # {} => Max(s) \in s /\ Cardinality(s \ {Max(s)}) = Cardinality(s) - 1
  <2> TAKE s \in D
  <2>1. IsFiniteSet(s) /\ Cardinality(s) \in Nat /\ s \in SUBSET Int
    BY <1>1, FS_Subset, FS_CardinalityType
  <2>2. s # {} => Max(s) \in s
    BY <2>1, MaxOfIntegers
  <2> QED
    BY <2>1, <2>2, FS_RemoveElement
<1>3. \E f \in [D -> V] : Walk(f, D, stop, base, next, step)
  <2>1. base \in [D -> V] /\ next \in [D -> D]
    OBVIOUS
  <2>2. \A a \in D, v \in V : step[<<a, v>>] \in V
    <3> TAKE a \in D, v \in V
    <3>1. step[<<a, v>>] = IF a = {} THEN v ELSE PushNode(v, list[Max(a)])
      OBVIOUS
    <3>2. a # {} => PushNode(v, list[Max(a)]) \in V
      <4>1. a # {} => list[Max(a)] \in DOMAIN tree
        BY <1>1, <1>2
      <4> QED
        BY <4>1, PushKeeps
    <3> HIDE DEF step
    <3> QED
      BY <3>1, <3>2
  <2>3. rank \in [D -> Nat]
    BY <1>2
  <2>4. \A a \in D : a \notin stop => rank[next[a]] < rank[a]
    <3> TAKE a \in D
    <3> HAVE a \notin stop
    <3>1. a # {} /\ next[a] = a \ {Max(a)} /\ next[a] \in D
      OBVIOUS
    <3>2. rank[next[a]] = Cardinality(a) - 1 /\ rank[a] = Cardinality(a) /\ Cardinality(a) \in Nat
      BY <1>2, <3>1
    <3> QED
      BY <3>2
  <2> HIDE DEF D, V, base, next, stop, step, rank
  <2> QED
    BY <2>1, <2>2, <2>3, <2>4, WalksExist
<1>4. PICK f \in [D -> V] : Walk(f, D, stop, base, next, step)
  BY <1>3
<1>5. \A s \in D : f[s] = IF s = {} THEN h ELSE PushNode(f[s \ {Max(s)}], list[Max(s)])
  <2> TAKE s \in D
  <2>1. f[s] = IF s \in stop THEN base[s] ELSE step[<<s, f[next[s]]>>]
    BY <1>4 DEF Walk
  <2>2. next[s] = s \ {Max(s)} /\ next[s] \in D /\ f[next[s]] \in V
    OBVIOUS
  <2>3. base[s] = h /\ (s \in stop <=> s = {})
    OBVIOUS
  <2>4. s # {} => step[<<s, f[next[s]]>>] = PushNode(f[next[s]], list[Max(s)])
    <3> HIDE DEF V, D, next
    <3> QED
      BY <2>2
  <2> HIDE DEF V, D, next, step, base, stop
  <2> QED
    BY <2>1, <2>2, <2>3, <2>4
<1>6. Pushed(h, list, f)
  <2>1. f = [s \in D |-> f[s]]
    OBVIOUS
  <2>2. f = [s \in D |-> IF s = {} THEN h ELSE PushNode(f[s \ {Max(s)}], list[Max(s)])]
    BY <1>5, <2>1
  <2> QED
    BY <2>2 DEF Pushed
<1>7. Pushed(h, list, Pushes(h, list))
  BY <1>6 DEF Pushes
<1> DEFINE g == Pushes(h, list)
<1> HIDE DEF g
<1>8. \A s \in D : g[s] = IF s = {} THEN h ELSE PushNode(g[s \ {Max(s)}], list[Max(s)])
  BY <1>7 DEF g, Pushed
<1>9. \A m \in Nat : \A s \in D : Cardinality(s) = m => g[s] \in V
  <2> DEFINE P == {m \in Nat : \A s \in D : Cardinality(s) = m => g[s] \in V}
  <2>1. 0 \in P
    <3>1. \A s \in D : Cardinality(s) = 0 => s = {}
      BY <1>2, FS_EmptySet
    <3> QED
      BY <1>8, <3>1
  <2>2. ASSUME NEW m \in P PROVE m + 1 \in P
    <3>1. m + 1 \in Nat /\ (m + 1) - 1 = m /\ m + 1 # 0
      OBVIOUS
    <3>2. ASSUME NEW s \in D, Cardinality(s) = m + 1 PROVE g[s] \in V
      <4>1. s # {}
        BY <3>1, <3>2, FS_EmptySet
      <4>2. Max(s) \in s /\ Cardinality(s \ {Max(s)}) = m /\ s \ {Max(s)} \in D
        BY <1>2, <3>1, <3>2, <4>1
      <4>3. g[s \ {Max(s)}] \in V
        BY <4>2
      <4>4. g[s] = PushNode(g[s \ {Max(s)}], list[Max(s)]) /\ list[Max(s)] \in DOMAIN tree
        BY <1>1, <1>8, <4>1, <4>2
      <4> QED
        BY <4>3, <4>4, PushKeeps
    <3> QED
      BY <3>1, <3>2
  <2>3. P \in SUBSET Nat
    OBVIOUS
  <2>4. P = Nat
    <3> HIDE DEF P
    <3> QED
      BY <2>1, <2>2, <2>3, AllNaturals
  <2> QED
    BY <2>4
<1>10. \A s \in D : g[s] \in V
  BY <1>2, <1>9
<1>11. g \in [D -> V]
  <2>1. g = [s \in D |-> IF s = {} THEN h ELSE PushNode(g[s \ {Max(s)}], list[Max(s)])]
    BY <1>7 DEF g, Pushed
  <2>2. g = [s \in D |-> g[s]]
    BY <2>1
  <2> HIDE DEF D, V
  <2> QED
    BY <1>10, <2>2
<1> QED
  BY <1>7, <1>11 DEF g

(* push_nodes, all in all. *)
LEMMA PushAll ==
  ASSUME query \in Query, NEW org, FinishedTree(org), NEW X, HeapNode \subseteq X,
         NEW h \in Searches(X), NEW list \in Seq(DOMAIN tree)
  PROVE  LET g == FoldLeft(PushNode, h, list)
         IN /\ g \in Searches(X) /\ Grows(h, g)
            /\ \A a \in ToSet(list) : \A p \in PointsOf(org[a]) : Met(org, g, p)
<1> DEFINE n == Len(list)
           it == Pushes(h, list)
           Good(g, m) == /\ g \in Searches(X) /\ Grows(h, g)
                         /\ \A i \in 1..m : \A p \in PointsOf(org[list[i]]) : Met(org, g, p)
           P == {m \in Nat : m <= n => Good(it[1..m], m)}
<1>1. /\ n \in Nat /\ DOMAIN list = 1..n /\ \A i \in 1..n : list[i] \in DOMAIN tree
  OBVIOUS
<1>2. /\ \A s \in SUBSET (1..n) :
           it[s] = IF s = {} THEN h ELSE PushNode(it[s \ {Max(s)}], list[Max(s)])
      /\ \A s \in SUBSET (1..n) : it[s] \in Searches(X)
  <2>1. Pushed(h, list, it) /\ it \in [SUBSET DOMAIN list -> Searches(X)]
    BY PushesExist
  <2> HIDE DEF it, n
  <2> QED
    BY <1>1, <2>1 DEF Pushed
<1> HIDE DEF it, n
<1>3. \A a \in DOMAIN tree : PointsOf(org[a]) \subseteq Point
  <2> TAKE a \in DOMAIN tree
  <2>1. org[a] \in Builder
    BY DEF FinishedTree, FinishedNode
  <2> QED
    BY <2>1 DEF PointsOf, Builder
<1>4. 0 \in P
  <2>1. 1..0 = {} /\ {} \in SUBSET (1..n)
    OBVIOUS
  <2>2. it[1..0] = h
    BY <1>2, <2>1
  <2>3. Grows(h, h)
    BY SearchIs DEF Grows
  <2> QED
    BY <2>1, <2>2, <2>3
<1>5. ASSUME NEW m \in P PROVE m + 1 \in P
  <2>1. m \in Nat /\ m + 1 \in Nat
    OBVIOUS
  <2> SUFFICES ASSUME m + 1 <= n PROVE Good(it[1..(m + 1)], m + 1)
    BY <2>1
  <2>2. Good(it[1..m], m)
    BY <1>1, <2>1
  <2> DEFINE s == 1..(m + 1)
             x == it[1..m]
             a == list[m + 1]
  <2>3. s \in SUBSET (1..n) /\ s # {} /\ m + 1 \in s /\ m + 1 \in 1..n /\ s \ {m + 1} = 1..m
        /\ 1..m \in SUBSET (1..n)
    <3>1. m + 1 <= n /\ m >= 0
      OBVIOUS
    <3> HIDE DEF P
    <3>2. \A i \in 1..m : i \in 1..n /\ i \in s /\ i # m + 1
      BY <1>1, <2>1, <3>1
    <3>3. \A i \in s : i \in 1..n /\ (i \in 1..m \/ i = m + 1)
      BY <1>1, <2>1, <3>1
    <3>4. m + 1 \in s
      BY <2>1, <3>1
    <3> HIDE DEF s
    <3> QED
      BY <3>2, <3>3, <3>4
  <2>4. Max(s) = m + 1
    <3>1. IsFiniteSet(s) /\ s \in SUBSET Int
      BY <2>1, FS_Interval
    <3>2. \A i \in s : i <= m + 1
      BY <2>1
    <3> HIDE DEF s
    <3>3. Max(s) \in s /\ Max(s) >= m + 1
      BY <2>3, <3>1, MaxOfIntegers
    <3> HIDE DEF P
    <3>4. Max(s) \in Int /\ Max(s) <= m + 1 /\ Max(s) >= m + 1
      BY <3>1, <3>2, <3>3
    <3> QED
      BY <2>1, <3>4
  <2>5. it[s] = PushNode(x, a)
    <3> HIDE DEF s, a
    <3>1. it[s] = PushNode(it[s \ {Max(s)}], list[Max(s)])
      BY <1>2, <2>3
    <3> QED
      BY <2>3, <2>4, <3>1 DEF a
  <2>6. x \in Searches(X) /\ it[s] \in Searches(X) /\ a \in DOMAIN tree
    BY <1>1, <1>2, <2>3
  <2> HIDE DEF s, a, x
  <2>7. Grows(x, it[s]) /\ \A p \in PointsOf(org[a]) : Met(org, it[s], p)
    BY <2>5, <2>6, PushKeeps
  <2>8. Grows(h, x) /\ \A i \in 1..m : \A p \in PointsOf(org[list[i]]) : Met(org, x, p)
    BY <2>2 DEF x
  <2>9. Grows(h, it[s])
    BY <2>6, <2>7, <2>8, GrowingStays
  <2>10. \A i \in 1..m : \A p \in PointsOf(org[list[i]]) : Met(org, it[s], p)
    <3> TAKE i \in 1..m
    <3>1. list[i] \in DOMAIN tree
      BY <1>1, <2>3
    <3>2. \A p \in Point : Met(org, x, p) => Met(org, it[s], p)
      BY <2>6, <2>7, GrowingStays
    <3> QED
      BY <1>3, <2>8, <3>1, <3>2
  <2>11. \A i \in 1..(m + 1) : i \in 1..m \/ i = m + 1
    BY <2>1
  <2> QED
    BY <2>6, <2>7, <2>9, <2>10, <2>11 DEF s, a
<1>6. P = Nat
  <2>1. P \in SUBSET Nat
    OBVIOUS
  <2> HIDE DEF P
  <2> QED
    BY <1>4, <1>5, <2>1, AllNaturals
<1>7. Good(it[1..n], n)
  <2>1. n \in P
    BY <1>1, <1>6
  <2>2. \A k \in P : k <= n => Good(it[1..k], k)
    OBVIOUS
  <2> HIDE DEF P, Good
  <2> QED
    BY <1>1, <2>1, <2>2
<1>8. FoldLeft(PushNode, h, list) = it[1..n]
  BY <1>1, FoldOfPushes DEF it
<1>9. ToSet(list) = {list[i] : i \in 1..n}
  BY <1>1 DEF ToSet
<1> QED
  BY <1>7, <1>8, <1>9

(* What a search may be given to push into, and what it gets. *)
RealHeap(heap) == \A n \in heap : n.address \in DOMAIN tree /\ "address" \in DOMAIN n

Going(heap, seen, points) ==
  /\ seen \in SUBSET Point /\ Keeps(points, seen)
  /\ InHeap(heap, seen) /\ RealHeap(heap)

After(org, heap, seen, points, g, list) ==
  /\ Going(g.children, g.known, g.nearest)
  /\ heap \subseteq g.children /\ seen \subseteq g.known
  /\ MaxDist(g.nearest) <= MaxDist(points)
  /\ \A a \in ToSet(list) : \A p \in PointsOf(org[a]) : Met(org, g, p)

LEMMA PushNodesKeep ==
  ASSUME query \in Query, NEW org, FinishedTree(org), NEW heap, NEW seen, NEW points,
         Going(heap, seen, points), NEW list \in Seq(DOMAIN tree)
  PROVE  After(org, heap, seen, points, PushNodes(heap, seen, points, list), list)
<1> DEFINE h == [children |-> heap, known |-> seen, nearest |-> points, max |-> MaxDist(points)]
           X == HeapNode \cup heap
           g == FoldLeft(PushNode, h, list)
<1>1. seen \in SUBSET Point /\ Keeps(points, seen) /\ InHeap(heap, seen) /\ RealHeap(heap)
  BY DEF Going
<1>2. points \in SUBSET Point /\ MaxDist(points) \in Nat
  BY <1>1, MaxDistIs DEF Keeps
<1>3. /\ h.children = heap /\ h.known = seen /\ h.nearest = points /\ h.max = MaxDist(points)
      /\ h \in [children: SUBSET X, known: SUBSET Point, nearest: SUBSET Point, max: Nat]
  BY <1>1, <1>2
<1>4. PushNodes(heap, seen, points, list) = g
  BY DEF PushNodes
<1> HIDE DEF h
<1>5. h \in Searches(X)
  BY <1>1, <1>2, <1>3 DEF Searches
<1>6. HeapNode \subseteq X
  OBVIOUS
<1>7. \A n \in X : n \in HeapNode \/ n \in heap
  OBVIOUS
<1> HIDE DEF X
<1>8. /\ g \in Searches(X) /\ Grows(h, g)
      /\ \A a \in ToSet(list) : \A p \in PointsOf(org[a]) : Met(org, g, p)
  BY <1>5, <1>6, PushAll
<1> HIDE DEF g
<1>9. g.known \in SUBSET Point /\ Keeps(g.nearest, g.known) /\ InHeap(g.children, g.known)
      /\ g.children \subseteq X
  BY <1>8, SearchIs
<1>10. RealHeap(g.children)
  <2> SUFFICES ASSUME NEW n \in g.children PROVE n.address \in DOMAIN tree /\ "address" \in DOMAIN n
    BY DEF RealHeap
  <2>1. CASE n \in HeapNode
    BY <2>1 DEF HeapNode
  <2>2. CASE n \in heap
    BY <1>1, <2>2 DEF RealHeap
  <2> QED
    BY <1>7, <1>9, <2>1, <2>2
<1> QED
  BY <1>3, <1>4, <1>8, <1>9, <1>10 DEF After, Going, Grows

(* child_knn, of the nested child and then of the others. *)
LEMMA ChildKnnKeeps ==
  ASSUME query \in Query, NEW org, FinishedTree(org), NEW heap, Going(heap, known, nearest),
         NEW kids \in Seq(DOMAIN tree), kids # <<>>
  PROVE  After(org, heap, known, nearest, ChildKnn(heap, kids), kids)
<1> DEFINE a == kids[1]
           h == PushNodes(heap, known, nearest, <<a>>)
           g == PushNodes(h.children, h.known, h.nearest, Tail(kids))
<1>1. ToSet(kids) = {a} \cup ToSet(Tail(kids)) /\ a \in DOMAIN tree /\ Tail(kids) \in Seq(DOMAIN tree)
  <2>1. Head(kids) = a
    OBVIOUS
  <2> HIDE DEF a
  <2> QED
    BY <2>1, ToSetOfTail
<1>2. ChildKnn(heap, kids) = g
  BY DEF ChildKnn
<1>3. <<a>> \in Seq(DOMAIN tree) /\ a \in ToSet(<<a>>)
  BY <1>1 DEF ToSet
<1> HIDE DEF h, a
<1>4. After(org, heap, known, nearest, h, <<a>>)
  BY <1>3, PushNodesKeep DEF h
<1>5. Going(h.children, h.known, h.nearest)
  BY <1>4 DEF After
<1> HIDE DEF g
<1>6. After(org, h.children, h.known, h.nearest, g, Tail(kids))
  BY <1>1, <1>5, PushNodesKeep DEF g
<1>7. MaxDist(g.nearest) <= MaxDist(nearest) /\ MaxDist(g.nearest) \in Nat
      /\ MaxDist(h.nearest) \in Nat /\ MaxDist(g.nearest) <= MaxDist(h.nearest)
  <2>1. g.nearest \in SUBSET Point /\ h.nearest \in SUBSET Point /\ nearest \in SUBSET Point
    BY <1>4, <1>6 DEF After, Going, Keeps
  <2>2. MaxDist(g.nearest) \in Nat /\ MaxDist(h.nearest) \in Nat /\ MaxDist(nearest) \in Nat
    BY <2>1, MaxDistIs
  <2>3. MaxDist(g.nearest) <= MaxDist(h.nearest) /\ MaxDist(h.nearest) <= MaxDist(nearest)
    BY <1>4, <1>6 DEF After
  <2> QED
    BY <2>2, <2>3
<1>8. h.children \subseteq g.children /\ h.known \subseteq g.known /\ Going(g.children, g.known, g.nearest)
      /\ heap \subseteq h.children /\ known \subseteq h.known
  BY <1>4, <1>6 DEF After
<1>9. ASSUME NEW p \in PointsOf(org[a]) PROVE Met(org, g, p)
  <2>1. Met(org, h, p)
    BY <1>3, <1>4 DEF After
  <2>2. p \in Point
    <3>1. org[a] \in Builder
      BY <1>1 DEF FinishedTree, FinishedNode
    <3> QED
      BY <3>1 DEF PointsOf, Builder
  <2>3. Dist(p) \in Nat
    BY <2>2, DistType
  <2> QED
    BY <1>7, <1>8, <2>1, <2>3 DEF Met
<1>10. \A c \in ToSet(Tail(kids)) : \A p \in PointsOf(org[c]) : Met(org, g, p)
  BY <1>6 DEF After
<1> QED
  BY <1>1, <1>2, <1>7, <1>8, <1>9, <1>10 DEF After

-----------------------------------------------------------------------------
(* The search.                                                             *)

(* Where a point that the search has not met is to be found. *)
Sought(p) ==
  \/ \E n \in childHeap : n.address \in ToSet(KnownPath(tree, final, p))
  \/ \E n \in singletonHeap : p \in tree[n.address].singletons
  \/ Dist(p) >= MaxDist(nearest)

Searching ==
  /\ Going(childHeap, known, nearest)
  /\ RealHeap(singletonHeap)
  /\ \A p \in Point \ known : Sought(p)

(* Inductive: the heaps stay sound, and a search that is over has emptied  *)
(* them; the singletons are turned to when a node is waiting with its, or  *)
(* nothing else is left.                                                   *)
QInv ==
  /\ at \in {"start", "root", "again", "greedy", "singletons", "answered"}
  /\ at # "start" => pc = "done" /\ query \in Query
  /\ at \in {"start", "root"} => childHeap = {} /\ singletonHeap = {} /\ known = {} /\ nearest = {}
  /\ at \notin {"start", "root"} => Searching
  /\ at = "again" => query.routing
  /\ at = "singletons" => childHeap = {} \/ singletonHeap # {}
  /\ at = "answered" /\ ~query.routing => childHeap = {} /\ singletonHeap = {}

(* A finished tree, and the paths of its points. *)
LEMMA SearchedTree ==
  ASSUME IInv, Shaped, pc = "done"
  PROVE  \E org : /\ FinishedTree(org)
                  /\ \A a \in DOMAIN tree : PointsOf(org[a]) \subseteq Point
                  /\ \A p \in Point : \A a \in DOMAIN tree :
                       a \in ToSet(KnownPath(tree, final, p)) <=> p \in PointsOf(org[a])
<1>1. PICK org : FinishedTree(org)
  BY DoneIsFinished
<1>2. \A p \in Point : ToSet(KnownPath(tree, final, p)) = {a \in DOMAIN tree : p \in PointsOf(org[a])}
  BY <1>1, KnownPathGoesThrough
<1>3. ASSUME NEW a \in DOMAIN tree PROVE PointsOf(org[a]) \subseteq Point
  <2>1. org[a] \in Builder
    BY <1>1 DEF FinishedTree, FinishedNode
  <2> QED
    BY <2>1 DEF PointsOf, Builder
<1>4. \A p \in Point : \A a \in DOMAIN tree :
        a \in ToSet(KnownPath(tree, final, p)) <=> p \in PointsOf(org[a])
  BY <1>2
<1> QED
  BY <1>1, <1>3, <1>4

(* A point below a node is one of its singletons, the center of a leaf, or *)
(* below one of its children.                                              *)
LEMMA BelowNode ==
  ASSUME NEW org, FinishedTree(org), NEW a \in DOMAIN tree, NEW p \in PointsOf(org[a])
  PROVE  /\ tree[a].children \in Seq(DOMAIN tree)
         /\ \/ p \in tree[a].singletons
            \/ IsLeaf(tree[a]) /\ p = Center(a)
            \/ \E c \in ToSet(tree[a].children) : p \in PointsOf(org[c])
<1>1. FinishedNode(org, a)
  BY DEF FinishedTree
<1>2. tree[a].children \in Seq(DOMAIN tree)
  <2>1. tree[a].children \in Seq(Address)
    BY <1>1 DEF FinishedNode, Node
  <2>2. ToSet(tree[a].children) \subseteq DOMAIN tree
    BY <1>1 DEF FinishedNode, Kids
  <2> DEFINE s == tree[a].children
  <2> HIDE DEF s
  <2>3. \A i \in 1..Len(s) : s[i] \in DOMAIN tree
    BY <2>1, <2>2, ToSetOf DEF s
  <2>4. s \in Seq(Address)
    BY <2>1 DEF s
  <2>5. s \in Seq(DOMAIN tree)
    BY <2>3, <2>4
  <2> QED
    BY <2>5 DEF s
<1>3. CASE ChildFor(a, p) = None
  <2>1. p \in Finals(a, tree[a])
    BY <1>1, <1>3 DEF FinishedNode
  <2> QED
    BY <1>2, <2>1 DEF Finals
<1>4. CASE ChildFor(a, p) # None
  <2>1. ChildFor(a, p) \in Kids(a)
    BY <1>1, <1>4 DEF FinishedNode
  <2>2. p \in PointsOf(org[ChildFor(a, p)])
    <3>1. PointsOf(org[ChildFor(a, p)]) = {q \in PointsOf(org[a]) : ChildFor(a, q) = ChildFor(a, p)}
      BY <1>1, <2>1 DEF FinishedNode
    <3> QED
      BY <3>1
  <2> QED
    BY <1>2, <2>1, <2>2 DEF Kids
<1> QED
  BY <1>3, <1>4

(* What a step of the search leaves alone. *)
LEMMA DistanceStays ==
  ASSUME UNCHANGED query
  PROVE  /\ \A p : Dist(p)' = Dist(p)
         /\ \A S : nearest' = S => MaxDist(nearest)' = MaxDist(S)
<1>1. ASSUME NEW p PROVE Dist(p)' = Dist(p)
  BY DEF Dist
<1>2. ASSUME NEW S, nearest' = S PROVE MaxDist(nearest)' = MaxDist(S)
  BY <1>2 DEF MaxDist, Dist
<1> QED
  BY <1>1, <1>2

LEMMA GoingStays ==
  ASSUME UNCHANGED <<vars, query>>, NEW heap, NEW seen, NEW points, Going(heap, seen, points),
         childHeap' = heap, known' = seen, nearest' = points
  PROVE  Going(childHeap, known, nearest)'
<1>1. Keeps(nearest, known)'
  BY DEF Going, Keeps, Dist
<1>2. InHeap(childHeap, known)' /\ RealHeap(childHeap)'
  BY DEF Going, InHeap, RealHeap, vars
<1>3. (known \in SUBSET Point)'
  BY DEF Going
<1> QED
  BY <1>1, <1>2, <1>3 DEF Going

LEMMA SearchStays ==
  ASSUME UNCHANGED <<vars, query>>, pc = "done", query \in Query,
         NEW heap, NEW seen, NEW points, Going(heap, seen, points),
         childHeap' = heap, known' = seen, nearest' = points,
         RealHeap(singletonHeap)',
         \A p \in Point \ seen :
           \/ \E n \in heap : n.address \in ToSet(KnownPath(tree, final, p))
           \/ \E n \in singletonHeap' : p \in tree[n.address].singletons
           \/ Dist(p) >= MaxDist(points)
  PROVE  Searching' /\ (pc = "done" /\ query \in Query)'
<1>1. Going(childHeap, known, nearest)'
  BY GoingStays
<1>2. tree' = tree /\ final' = final /\ parameters' = parameters /\ pc' = pc /\ query' = query
  BY DEF vars
<1>3. ASSUME NEW p \in Point \ seen PROVE Sought(p)'
  <2>1. Dist(p)' = Dist(p) /\ MaxDist(nearest)' = MaxDist(points)
    BY DistanceStays
  <2>2. ASSUME NEW n \in heap, n.address \in ToSet(KnownPath(tree, final, p)) PROVE Sought(p)'
    BY <1>2, <2>2 DEF Sought
  <2>3. ASSUME NEW n \in singletonHeap', p \in tree[n.address].singletons PROVE Sought(p)'
    BY <1>2, <2>3 DEF Sought
  <2>4. ASSUME Dist(p) >= MaxDist(points) PROVE Sought(p)'
    BY <2>1, <2>4 DEF Sought
  <2> QED
    BY <2>2, <2>3, <2>4
<1>4. (query \in Query)'
  BY <1>2 DEF Query
<1> QED
  BY <1>1, <1>2, <1>3, <1>4 DEF Searching

(* The actions.                                                            *)
LEMMA AskKeeps ==
  ASSUME QInv, Ask, UNCHANGED vars
  PROVE  QInv'
<1>1. pc = "done" /\ at = "start" /\ query' \in Query /\ at' = "root"
      /\ UNCHANGED <<childHeap, singletonHeap, known, nearest>>
  BY DEF Ask, heapVars
<1>2. tree' = tree /\ final' = final /\ parameters' = parameters /\ pc' = pc
  BY DEF vars
<1>3. (pc = "done" /\ query \in Query)'
  BY <1>1, <1>2 DEF Query
<1>4. (childHeap = {} /\ singletonHeap = {} /\ known = {} /\ nearest = {})'
  BY <1>1 DEF QInv
<1> QED
  BY <1>1, <1>3, <1>4 DEF QInv

LEMMA PushRootKeeps ==
  ASSUME IInv, Shaped, QInv, PushRoot, UNCHANGED vars
  PROVE  QInv'
<1> DEFINE list == <<TreeRoot>>
           g == PushNodes(childHeap, known, nearest, list)
<1>1. at = "root" /\ pc = "done" /\ query \in Query
      /\ childHeap = {} /\ singletonHeap = {} /\ known = {} /\ nearest = {}
  BY DEF PushRoot, QInv
<1>2. /\ childHeap' = g.children /\ known' = g.known /\ nearest' = g.nearest
      /\ at' = IF query.routing THEN "again" ELSE "greedy"
      /\ UNCHANGED <<query, singletonHeap>>
  BY DEF PushRoot, TreeRoot
<1> HIDE DEF g
<1>3. PICK org : /\ FinishedTree(org)
                 /\ \A a \in DOMAIN tree : PointsOf(org[a]) \subseteq Point
                 /\ \A p \in Point : \A a \in DOMAIN tree :
                      a \in ToSet(KnownPath(tree, final, p)) <=> p \in PointsOf(org[a])
  BY <1>1, SearchedTree
<1>4. TreeRoot \in DOMAIN tree /\ PointsOf(org[TreeRoot]) = Point /\ TreeRoot \in ToSet(list)
  <2>1. TreeRoot \in DOMAIN tree /\ org[TreeRoot] = Root(parameters)
    BY <1>3 DEF FinishedTree
  <2>2. PointsOf(Root(parameters)) = Point
    BY SettingsAssumption DEF Root, PointsOf
  <2> QED
    BY <2>1, <2>2 DEF ToSet
<1>5. Going({}, {}, {})
  <2>1. Cardinality({}) = 0 /\ query.k \in Nat /\ query.k > 0
    BY <1>1, QueryIs, FS_EmptySet
  <2>2. Keeps({}, {})
    BY <2>1 DEF Keeps, SmallerOf
  <2> QED
    BY <2>2 DEF Going, InHeap, RealHeap
<1>6. After(org, {}, {}, {}, g, list)
  <2>1. list \in Seq(DOMAIN tree)
    BY <1>4
  <2> HIDE DEF list
  <2> QED
    BY <1>1, <1>3, <1>5, <2>1, PushNodesKeep DEF g
<1>7. Going(g.children, g.known, g.nearest) /\ \A p \in Point : Met(org, g, p)
  BY <1>4, <1>6 DEF After
<1>8. RealHeap(singletonHeap)'
  BY <1>1, <1>2 DEF RealHeap
<1>9. \A p \in Point \ g.known :
        \/ \E n \in g.children : n.address \in ToSet(KnownPath(tree, final, p))
        \/ \E n \in singletonHeap' : p \in tree[n.address].singletons
        \/ Dist(p) >= MaxDist(g.nearest)
  <2> TAKE p \in Point \ g.known
  <2>1. Met(org, g, p) /\ p \notin g.known
    BY <1>7
  <2>2. ASSUME NEW n \in g.children, p \in PointsOf(org[n.address])
        PROVE  n.address \in ToSet(KnownPath(tree, final, p))
    BY <1>3, <1>7, <2>2 DEF Going, RealHeap
  <2> QED
    BY <2>1, <2>2 DEF Met
<1>10. Searching' /\ (pc = "done" /\ query \in Query)'
  BY <1>1, <1>2, <1>7, <1>8, <1>9, SearchStays
<1>11. (at = "again" => query.routing)' /\ at' \in {"again", "greedy"}
  BY <1>2
<1> QED
  BY <1>10, <1>11 DEF QInv

(* A pop that only raises an estimate. *)
LEMMA PutBackIs ==
  ASSUME NEW heap, RealHeap(heap), NEW n \in heap
  PROVE  /\ Farther(n).address = n.address
         /\ RealHeap((heap \ {n}) \cup {Farther(n)})
         /\ \A seen : InHeap(heap, seen) => InHeap((heap \ {n}) \cup {Farther(n)}, seen)
         /\ (heap \ {n}) \cup {Farther(n)} # {}
<1>1. Farther(n).address = n.address /\ "address" \in DOMAIN Farther(n)
  BY DEF RealHeap, Farther
<1> QED
  BY <1>1 DEF RealHeap, InHeap

LEMMA UnpackKeeps ==
  ASSUME QInv, Unpack, UNCHANGED vars
  PROVE  QInv'
<1>1. /\ at = "singletons" /\ singletonHeap = {} /\ at' = "answered"
      /\ UNCHANGED <<query, childHeap, singletonHeap, known, nearest>>
  BY DEF Unpack, heapVars
<1>2. pc = "done" /\ query \in Query /\ Searching /\ childHeap = {}
  BY <1>1 DEF QInv
<1>3. Searching' /\ (pc = "done" /\ query \in Query)'
  <2>1. Going(childHeap, known, nearest) /\ RealHeap(singletonHeap) /\ \A p \in Point \ known : Sought(p)
    BY <1>2 DEF Searching
  <2>2. RealHeap(singletonHeap)'
    BY <1>1, <2>1 DEF RealHeap, vars
  <2> QED
    BY <1>1, <1>2, <2>1, <2>2, SearchStays DEF Sought
<1> QED
  BY <1>1, <1>2, <1>3 DEF QInv

LEMMA SingletonsKeep ==
  ASSUME IInv, Shaped, QInv, Singletons, UNCHANGED vars
  PROVE  QInv'
<1>1. at = "singletons" /\ pc = "done" /\ query \in Query /\ Searching
      /\ UNCHANGED <<query, childHeap>>
  BY DEF Singletons, QInv
<1>2. Going(childHeap, known, nearest) /\ RealHeap(singletonHeap) /\ \A p \in Point \ known : Sought(p)
  BY <1>1 DEF Searching
<1>3. PICK n \in Closest(singletonHeap) :
        LET rest == singletonHeap \ {n}
            new == tree[n.address].singletons \ known
        IN \/ /\ IsFarther(n)
              /\ singletonHeap' = rest \cup {Farther(n)}
              /\ UNCHANGED <<known, nearest, at>>
           \/ /\ ~IsFarther(n)
              /\ singletonHeap' = rest
              /\ known' = known \cup new /\ nearest' = Nearest(nearest \cup new)
              /\ at' = "greedy"
  BY DEF Singletons
<1>4. n \in singletonHeap
  BY DEF Closest
<1>5. CASE /\ singletonHeap' = (singletonHeap \ {n}) \cup {Farther(n)}
           /\ UNCHANGED <<known, nearest, at>>
  <2> DEFINE heap == (singletonHeap \ {n}) \cup {Farther(n)}
  <2>1. RealHeap(heap) /\ heap # {} /\ Farther(n).address = n.address
    BY <1>2, <1>4, PutBackIs
  <2>2. \A m \in singletonHeap : \E q \in heap : q.address = m.address
    BY <2>1
  <2>3. singletonHeap' = heap
    BY <1>5
  <2> HIDE DEF heap
  <2>4. RealHeap(singletonHeap)'
    BY <2>1, <2>3 DEF RealHeap, vars
  <2>5. \A p \in Point \ known :
          \/ \E m \in childHeap : m.address \in ToSet(KnownPath(tree, final, p))
          \/ \E m \in singletonHeap' : p \in tree[m.address].singletons
          \/ Dist(p) >= MaxDist(nearest)
    BY <1>2, <2>2, <2>3 DEF Sought
  <2>6. Searching' /\ (pc = "done" /\ query \in Query)'
    BY <1>1, <1>2, <1>5, <2>4, <2>5, SearchStays
  <2>7. at' = "singletons" /\ singletonHeap' # {}
    BY <1>1, <1>5, <2>1, <2>3
  <2> QED
    BY <2>6, <2>7 DEF QInv
<1>6. CASE /\ singletonHeap' = singletonHeap \ {n}
           /\ known' = known \cup (tree[n.address].singletons \ known)
           /\ nearest' = Nearest(nearest \cup (tree[n.address].singletons \ known))
           /\ at' = "greedy"
  <2> DEFINE S == tree[n.address].singletons
             new == S \ known
             seen == known \cup new
             points == Nearest(nearest \cup new)
  <2>1. S \in SUBSET Point
    <3>1. n.address \in DOMAIN tree
      BY <1>2, <1>4 DEF RealHeap
    <3>2. tree[n.address] \in Node
      BY <1>1, <3>1, SearchedTree DEF FinishedTree, FinishedNode
    <3> QED
      BY <3>2 DEF Node
  <2>2. known \in SUBSET Point /\ Keeps(nearest, known) /\ InHeap(childHeap, known) /\ RealHeap(childHeap)
    BY <1>2 DEF Going
  <2> HIDE DEF S
  <2>3. new \in SUBSET Point /\ seen \in SUBSET Point /\ known \subseteq seen /\ S \subseteq seen
    BY <2>1, <2>2
  <2> HIDE DEF new
  <2>4. Keeps(points, seen) /\ MaxDist(points) <= MaxDist(nearest)
    BY <1>1, <2>2, <2>3, KeepsMore
  <2>5. MaxDist(points) \in Nat /\ MaxDist(nearest) \in Nat
    <3>1. points \in SUBSET Point /\ nearest \in SUBSET Point
      BY <2>2, <2>3, <2>4 DEF Keeps
    <3> QED
      BY <1>1, <3>1, MaxDistIs
  <2>6. known' = seen /\ nearest' = points
    BY <1>6 DEF new, S
  <2> HIDE DEF seen, points
  <2>7. Going(childHeap, seen, points)
    BY <2>2, <2>3, <2>4 DEF Going, InHeap
  <2>8. RealHeap(singletonHeap)'
    BY <1>2, <1>6 DEF RealHeap, vars
  <2>9. \A p \in Point \ seen :
          \/ \E m \in childHeap : m.address \in ToSet(KnownPath(tree, final, p))
          \/ \E m \in singletonHeap' : p \in tree[m.address].singletons
          \/ Dist(p) >= MaxDist(points)
    <3> TAKE p \in Point \ seen
    <3>1. Sought(p) /\ p \notin S
      BY <1>2, <2>3
    <3>2. Dist(p) \in Nat
      BY <1>1, DistType
    <3>3. ASSUME NEW m \in singletonHeap, p \in tree[m.address].singletons PROVE m \in singletonHeap'
      BY <1>6, <3>1, <3>3 DEF S
    <3> QED
      BY <2>4, <2>5, <3>1, <3>2, <3>3 DEF Sought
  <2>10. Searching' /\ (pc = "done" /\ query \in Query)'
    BY <1>1, <2>6, <2>7, <2>8, <2>9, SearchStays
  <2> QED
    BY <1>6, <2>10 DEF QInv
<1> QED
  BY <1>3, <1>5, <1>6

(* A step of the children's heap, but for where the search turns next. *)
LEMMA GreedySearch ==
  ASSUME IInv, Shaped, pc = "done", query \in Query, Searching, UNCHANGED <<vars, query>>,
         NEW n \in childHeap,
         \/ /\ childHeap' = (childHeap \ {n}) \cup {Farther(n)}
            /\ UNCHANGED <<singletonHeap, known, nearest>>
         \/ /\ IsLeaf(tree[n.address])
            /\ childHeap' = childHeap \ {n} /\ singletonHeap' = singletonHeap \cup {n}
            /\ UNCHANGED <<known, nearest>>
         \/ /\ ~IsLeaf(tree[n.address])
            /\ singletonHeap' = singletonHeap \cup {n}
            /\ childHeap' = ChildKnn(childHeap \ {n}, tree[n.address].children).children
            /\ known' = ChildKnn(childHeap \ {n}, tree[n.address].children).known
            /\ nearest' = ChildKnn(childHeap \ {n}, tree[n.address].children).nearest
  PROVE  Searching' /\ (pc = "done" /\ query \in Query)'
<1> DEFINE a == n.address
           rest == childHeap \ {n}
           kids == tree[a].children
           OnPath(m, p) == m.address \in ToSet(KnownPath(tree, final, p))
           Kept(heap, points, p) ==
             \/ \E m \in heap : OnPath(m, p)
             \/ \E m \in singletonHeap' : p \in tree[m.address].singletons
             \/ Dist(p) >= MaxDist(points)
<1>1. /\ known \in SUBSET Point /\ Keeps(nearest, known)
      /\ InHeap(childHeap, known) /\ RealHeap(childHeap) /\ RealHeap(singletonHeap)
  BY DEF Searching, Going
<1>2. \A p \in Point \ known :
        \/ \E m \in childHeap : OnPath(m, p)
        \/ \E m \in singletonHeap : p \in tree[m.address].singletons
        \/ Dist(p) >= MaxDist(nearest)
  BY DEF Searching, Sought
<1>3. a \in DOMAIN tree /\ Center(a) \in known /\ tree' = tree
  BY <1>1 DEF RealHeap, InHeap, vars
<1>4. PICK org : /\ FinishedTree(org)
                 /\ \A c \in DOMAIN tree : PointsOf(org[c]) \subseteq Point
                 /\ \A p \in Point : \A c \in DOMAIN tree :
                      c \in ToSet(KnownPath(tree, final, p)) <=> p \in PointsOf(org[c])
  BY SearchedTree
<1>5. Going(rest, known, nearest)
  BY <1>1 DEF Going, InHeap, RealHeap
<1>6. CASE /\ childHeap' = rest \cup {Farther(n)}
           /\ UNCHANGED <<singletonHeap, known, nearest>>
  <2> DEFINE heap == rest \cup {Farther(n)}
  <2>1. RealHeap(heap) /\ InHeap(heap, known) /\ Farther(n).address = a
    BY <1>1, PutBackIs
  <2>2. \A m \in childHeap : \E q \in heap : q.address = m.address
    BY <2>1
  <2>3. childHeap' = heap
    BY <1>6
  <2> HIDE DEF heap
  <2>4. Going(heap, known, nearest)
    BY <1>1, <2>1 DEF Going
  <2>5. RealHeap(singletonHeap)'
    BY <1>1, <1>3, <1>6 DEF RealHeap
  <2>6. \A p \in Point \ known : Kept(heap, nearest, p)
    <3> TAKE p \in Point \ known
    <3>1. ASSUME NEW m \in childHeap, OnPath(m, p) PROVE \E q \in heap : OnPath(q, p)
      BY <2>2, <3>1
    <3> QED
      BY <1>2, <1>6, <3>1
  <2> QED
    BY <1>6, <2>3, <2>4, <2>5, <2>6, SearchStays
<1>7. ASSUME singletonHeap' = singletonHeap \cup {n} PROVE RealHeap(singletonHeap)'
  BY <1>1, <1>3, <1>7 DEF RealHeap
<1>8. CASE /\ IsLeaf(tree[a])
           /\ childHeap' = rest /\ singletonHeap' = singletonHeap \cup {n}
           /\ UNCHANGED <<known, nearest>>
  <2>1. \A p \in Point \ known : Kept(rest, nearest, p)
    <3> TAKE p \in Point \ known
    <3>1. CASE OnPath(n, p)
      <4>1. p \in PointsOf(org[a])
        BY <1>3, <1>4, <3>1
      <4>2. ToSet(kids) = {}
        BY <1>8 DEF IsLeaf, ToSet
      <4>3. p \in tree[a].singletons
        BY <1>3, <1>4, <4>1, <4>2, BelowNode
      <4> QED
        BY <1>8, <4>3
    <3>2. CASE ~OnPath(n, p)
      BY <1>2, <1>8, <3>2
    <3> QED
      BY <3>1, <3>2
  <2>2. RealHeap(singletonHeap)'
    BY <1>7, <1>8
  <2> HIDE DEF rest
  <2> QED
    BY <1>5, <1>8, <2>1, <2>2, SearchStays
<1>9. CASE /\ ~IsLeaf(tree[a])
           /\ singletonHeap' = singletonHeap \cup {n}
           /\ childHeap' = ChildKnn(rest, kids).children
           /\ known' = ChildKnn(rest, kids).known
           /\ nearest' = ChildKnn(rest, kids).nearest
  <2> DEFINE g == ChildKnn(rest, kids)
             heap == g.children
             seen == g.known
             points == g.nearest
  <2>1. kids \in Seq(DOMAIN tree) /\ kids # <<>>
    <3>1. tree[a].children \in Seq(Address) /\ ToSet(tree[a].children) \subseteq DOMAIN tree
      BY <1>3, <1>4 DEF FinishedTree, FinishedNode, Node, Kids
    <3>2. \A i \in 1..Len(kids) : kids[i] \in DOMAIN tree
      <4> HIDE DEF kids
      <4> QED
        BY <3>1, ToSetOf DEF kids
    <3> HIDE DEF a
    <3> QED
      BY <1>9, <3>1, <3>2 DEF IsLeaf
  <2>2. After(org, rest, known, nearest, g, kids)
    <3> HIDE DEF kids, rest
    <3> QED
      BY <1>4, <1>5, <2>1, ChildKnnKeeps
  <2> HIDE DEF g, kids
  <2>3. /\ Going(heap, seen, points) /\ rest \subseteq heap /\ known \subseteq seen
        /\ MaxDist(points) <= MaxDist(nearest)
        /\ \A c \in ToSet(kids) : \A p \in PointsOf(org[c]) : Met(org, g, p)
    BY <2>2 DEF After
  <2>4. MaxDist(points) \in Nat /\ MaxDist(nearest) \in Nat /\ RealHeap(heap)
    <3>1. points \in SUBSET Point /\ nearest \in SUBSET Point
      BY <1>1, <2>3 DEF Going, Keeps
    <3> QED
      BY <2>3, <3>1, MaxDistIs DEF Going
  <2>5. \A p \in Point \ seen : Kept(heap, points, p)
    <3> TAKE p \in Point \ seen
    <3>1. p \in Point /\ p \notin known /\ Dist(p) \in Nat
      BY <2>3, DistType
    <3>2. CASE OnPath(n, p)
      <4>1. p \in PointsOf(org[a])
        BY <1>3, <1>4, <3>1, <3>2
      <4>2. p \in tree[a].singletons \/ \E c \in ToSet(kids) : p \in PointsOf(org[c])
        BY <1>3, <1>4, <1>9, <4>1, BelowNode DEF kids
      <4>3. CASE p \in tree[a].singletons
        BY <1>9, <4>3
      <4>4. CASE \E c \in ToSet(kids) : p \in PointsOf(org[c])
        <5>1. Met(org, g, p)
          BY <2>3, <4>4
        <5>2. ASSUME NEW m \in heap, p \in PointsOf(org[m.address]) PROVE OnPath(m, p)
          BY <1>4, <2>4, <3>1, <5>2 DEF RealHeap
        <5> QED
          BY <5>1, <5>2 DEF Met
      <4> QED
        BY <4>2, <4>3, <4>4
    <3>3. CASE ~OnPath(n, p)
      <4>1. CASE \E m \in childHeap : OnPath(m, p)
        BY <2>3, <3>3, <4>1
      <4>2. CASE \E m \in singletonHeap : p \in tree[m.address].singletons
        BY <1>9, <4>2
      <4>3. CASE Dist(p) >= MaxDist(nearest)
        BY <2>3, <2>4, <3>1, <4>3
      <4> QED
        BY <1>2, <3>1, <4>1, <4>2, <4>3
    <3> QED
      BY <3>2, <3>3
  <2>6. RealHeap(singletonHeap)'
    BY <1>7, <1>9
  <2>7. childHeap' = heap /\ known' = seen /\ nearest' = points
    BY <1>9 DEF g, kids
  <2> HIDE DEF heap, seen, points
  <2> QED
    BY <2>3, <2>5, <2>6, <2>7, SearchStays
<1> QED
  BY <1>6, <1>8, <1>9

LEMMA GreedyKeeps ==
  ASSUME IInv, Shaped, QInv, Greedy, UNCHANGED vars
  PROVE  QInv'
<1>1. at \in {"greedy", "again"} /\ pc = "done" /\ query \in Query /\ Searching /\ UNCHANGED query
      /\ (at = "again" => query.routing)
  BY DEF Greedy, QInv
<1>2. CASE childHeap = {}
  <2>1. at' = AfterGreedy /\ UNCHANGED <<childHeap, singletonHeap, known, nearest>>
    BY <1>2 DEF Greedy, heapVars
  <2>2. Going(childHeap, known, nearest) /\ RealHeap(singletonHeap) /\ \A p \in Point \ known : Sought(p)
    BY <1>1 DEF Searching
  <2>3. RealHeap(singletonHeap)'
    BY <2>1, <2>2 DEF RealHeap, vars
  <2>4. Searching' /\ (pc = "done" /\ query \in Query)'
    BY <1>1, <2>1, <2>2, <2>3, SearchStays DEF Sought
  <2>5. /\ at' \in {"singletons", "greedy", "answered"}
        /\ at' = "answered" => query.routing
    BY <1>1, <2>1 DEF AfterGreedy
  <2> QED
    BY <1>1, <1>2, <2>1, <2>4, <2>5 DEF QInv
<1>3. CASE childHeap # {}
  <2>1. PICK n \in Closest(childHeap) :
          LET rest == childHeap \ {n}
              kids == tree[n.address].children
              pushed == ChildKnn(rest, kids)
          IN \/ /\ IsFarther(n)
                /\ childHeap' = rest \cup {Farther(n)}
                /\ estMinDist' = Without(estMinDist, n.address)
                /\ UNCHANGED <<singletonHeap, known, nearest, at>>
             \/ /\ ~IsFarther(n) /\ IsLeaf(tree[n.address])
                /\ childHeap' = rest /\ singletonHeap' = singletonHeap \cup {n}
                /\ estMinDist' = Without(estMinDist, n.address)
                /\ at' = AfterGreedy
                /\ UNCHANGED <<known, nearest>>
             \/ /\ ~IsFarther(n) /\ ~IsLeaf(tree[n.address])
                /\ childHeap' = pushed.children /\ singletonHeap' = singletonHeap \cup {n}
                /\ known' = pushed.known /\ nearest' = pushed.nearest
                /\ estMinDist' = Increased(Without(estMinDist, n.address), n.address, Tail(kids))
                /\ at' = IF query.routing THEN "again" ELSE "greedy"
    BY <1>3 DEF Greedy
  <2>2. n \in childHeap
    BY DEF Closest
  <2>3. Searching' /\ (pc = "done" /\ query \in Query)'
    BY <1>1, <2>1, <2>2, GreedySearch
  <2>4. /\ at' \in {"again", "greedy", "singletons", "answered"}
        /\ at' = "again" => query.routing
        /\ at' = "answered" => query.routing
        /\ at' = "singletons" => n \in singletonHeap'
    BY <1>1, <2>1 DEF AfterGreedy
  <2> QED
    BY <1>1, <2>3, <2>4 DEF QInv
<1> QED
  BY <1>2, <1>3

(* A build that is over stays as it is, and so does the search, in between. *)
LEMMA OtherStepsKeep ==
  ASSUME IInv, Shaped, QInv, [Next]_vars, UNCHANGED queryVars
  PROVE  QInv'
<1>1. UNCHANGED <<query, childHeap, singletonHeap, known, nearest, at>>
  BY DEF queryVars, heapVars
<1>2. CASE at = "start"
  BY <1>1, <1>2 DEF QInv
<1>3. CASE at # "start"
  <2>1. pc = "done" /\ query \in Query
    BY <1>3 DEF QInv
  <2>2. queued = {} /\ running = {}
    BY <2>1, DoneIsEmpty
  <2>3. UNCHANGED vars
    BY <2>1, <2>2 DEF Next, PoolNext, BuilderNext, Receive, CheckCount, Stopped
  <2>4. (pc = "done" /\ query \in Query)'
    BY <1>1, <2>1, <2>3 DEF vars, Query
  <2>5. CASE at = "root"
    BY <1>1, <2>4, <2>5 DEF QInv
  <2>6. CASE at # "root"
    <3>1. Going(childHeap, known, nearest) /\ RealHeap(singletonHeap) /\ \A p \in Point \ known : Sought(p)
      BY <1>3, <2>6 DEF QInv, Searching
    <3>2. RealHeap(singletonHeap)'
      BY <1>1, <2>3, <3>1 DEF RealHeap, vars
    <3>3. Searching'
      BY <1>1, <2>1, <2>3, <3>1, <3>2, SearchStays DEF Sought
    <3> QED
      BY <1>1, <2>4, <3>3 DEF QInv
  <2> QED
    BY <2>5, <2>6
<1> QED
  BY <1>2, <1>3

LEMMA QueryIsInvariant == QSpec => [](IInv /\ Shaped /\ QInv)
<1>1. QInit => Init /\ QInv
  BY DEF QInit, QInv
<1>2. [QNext]_<<vars, queryVars>> => [Next]_vars
  BY DEF QNext
<1>3. IInv /\ Shaped /\ QInv /\ [QNext]_<<vars, queryVars>> => QInv'
  <2> SUFFICES ASSUME IInv, Shaped, QInv, [QNext]_<<vars, queryVars>> PROVE QInv'
    OBVIOUS
  <2>1. CASE [Next]_vars /\ UNCHANGED queryVars
    BY <2>1, OtherStepsKeep
  <2>2. CASE UNCHANGED vars /\ Ask
    BY <2>2, AskKeeps
  <2>3. CASE UNCHANGED vars /\ PushRoot
    BY <2>3, PushRootKeeps
  <2>4. CASE UNCHANGED vars /\ Greedy
    BY <2>4, GreedyKeeps
  <2>5. CASE UNCHANGED vars /\ Singletons
    BY <2>5, SingletonsKeep
  <2>6. CASE UNCHANGED vars /\ Unpack
    BY <2>6, UnpackKeeps
  <2> QED
    BY <2>1, <2>2, <2>3, <2>4, <2>5, <2>6 DEF QNext
<1>4. QSpec => Spec
  BY <1>1, <1>2, PTL DEF QSpec, Spec
<1> QED
  BY <1>1, <1>3, <1>4, BuildIsShaped, PTL DEF QSpec

(* While knn runs, every point it has not met is below a node whose        *)
(* children it is still to look at, or a singleton of one whose singletons *)
(* it is, or no nearer than the k points it has: putting nodes back by     *)
(* their estimates, and leaving out those too far away, loses nothing.     *)
THEOREM SearchOverlooksNothing == QSpec => []NothingOverlooked
<1>1. QInv => NothingOverlooked
  BY DEF QInv, Searching, Sought, NothingOverlooked
<1> QED
  BY <1>1, QueryIsInvariant, PTL

(* When knn unpacks its heap, the heap holds the k points of the cloud     *)
(* that are nearest to the query, or all of them if there are fewer.       *)
THEOREM KnnFindsTheNearest == QSpec => []KnnIsExact
<1>1. ASSUME QInv PROVE KnnIsExact
  <2> SUFFICES ASSUME at = "answered", ~query.routing PROVE AreNearestOf(nearest, Point)
    BY DEF KnnIsExact
  <2>1. query \in Query /\ Searching /\ childHeap = {} /\ singletonHeap = {}
    BY <1>1 DEF QInv
  <2>2. known \in SUBSET Point /\ Keeps(nearest, known) /\ \A p \in Point \ known : Dist(p) >= MaxDist(nearest)
    BY <2>1 DEF Searching, Going, Sought
  <2> DEFINE k == query.k
  <2>3. /\ nearest \in SUBSET known /\ nearest \in SUBSET Point
        /\ Cardinality(nearest) = SmallerOf(k, Cardinality(known))
        /\ \A p \in nearest, r \in known \ nearest : Dist(p) <= Dist(r)
    BY <2>2 DEF Keeps
  <2>4. /\ k \in Nat /\ Infinite \in Nat
        /\ \A p \in Point : Dist(p) \in Nat /\ Dist(p) < Infinite
        /\ \A p, r \in Point : Dist(p) <= Dist(r) <=> query.dist[p] <= query.dist[r]
    BY <2>1, QueryIs, DistType
  <2> HIDE DEF k
  <2>5. /\ Cardinality(nearest) \in Nat /\ Cardinality(known) \in Nat /\ Cardinality(Point) \in Nat
        /\ Cardinality(known) <= Cardinality(Point)
    BY <2>2, <2>3, MaxDistIs, PointAssumption, FS_Subset, FS_CardinalityType
  <2>6. CASE Cardinality(nearest) < k
    <3>1. MaxDist(nearest) = Infinite
      BY <2>1, <2>3, <2>6, MaxDistIs DEF k
    <3>2. known = Point
      BY <2>2, <2>4, <3>1
    <3> QED
      BY <2>3, <2>4, <3>2 DEF AreNearestOf, k
  <2>7. CASE ~(Cardinality(nearest) < k)
    <3>1. /\ \A p \in nearest : Dist(p) <= MaxDist(nearest)
          /\ MaxDist(nearest) \in Nat
      BY <2>1, <2>3, <2>7, MaxDistIs DEF k
    <3>2. Cardinality(nearest) = SmallerOf(k, Cardinality(Point))
      BY <2>3, <2>4, <2>5, <2>7 DEF SmallerOf
    <3>3. \A p \in nearest, r \in Point \ nearest : Dist(p) <= Dist(r)
      <4> TAKE p \in nearest, r \in Point \ nearest
      <4>1. CASE r \in known
        BY <2>3, <4>1
      <4>2. CASE r \notin known
        <5>1. Dist(p) \in Nat /\ Dist(r) \in Nat /\ Dist(p) <= MaxDist(nearest)
              /\ Dist(r) >= MaxDist(nearest)
          BY <2>2, <2>3, <2>4, <3>1, <4>2
        <5> QED
          BY <3>1, <5>1
      <4> QED
        BY <4>1, <4>2
    <3>4. \A p \in nearest, r \in Point \ nearest : query.dist[p] <= query.dist[r]
      BY <2>3, <2>4, <3>3
    <3> QED
      BY <2>3, <3>2, <3>4 DEF AreNearestOf, k
  <2> QED
    BY <2>6, <2>7
<1> QED
  BY <1>1, QueryIsInvariant, PTL

=============================================================================
