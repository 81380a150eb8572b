------------------------------ MODULE DataLemmas ------------------------------
(***************************************************************************)
(* Facts about data that the proofs cite: least elements and recursion;    *)
(* sums over finite sets (SumFunctionOnSet of the community modules): that *)
(* the recursion of their definition has a solution, and how a sum changes *)
(* when an element comes, goes or changes its value.  Inductions are over  *)
(* sets, of naturals or of subsets, or over a least counterexample, which  *)
(* the provers can instantiate.                                            *)
(***************************************************************************)
EXTENDS Integers, Sequences, SequencesExt, FiniteSetsExt, FiniteSetTheorems, TLAPS

-----------------------------------------------------------------------------
(* Least elements.                                                         *)

LEMMA LeastSubset ==
  ASSUME NEW S, IsFiniteSet(S), NEW T \in SUBSET SUBSET S, T # {}
  PROVE  \E s \in T : \A t \in T : ~(t \subseteq s /\ t # s)
<1>1. IsWellFoundedOn(StrictSubsetOrdering(S), FiniteSubsetsOf(S))
  BY FS_StrictSubsetOrderingWellFounded
<1>2. T \subseteq FiniteSubsetsOf(S)
  BY FS_FiniteSubsetsOfFinite
<1>3. \E s \in T : \A t \in T : ~ (<<t, s>> \in StrictSubsetOrdering(S))
  BY <1>1, <1>2, WFMin
<1> QED
  BY <1>2, <1>3 DEF StrictSubsetOrdering

LEMMA LeastNatural ==
  ASSUME NEW T \in SUBSET Nat, T # {}
  PROVE  \E n \in T : \A m \in T : n <= m
<1>1. PICK b \in T : TRUE
  OBVIOUS
<1> DEFINE U == {1..n : n \in {k \in T : k <= b}}
<1>2. IsFiniteSet(1..b)
  BY FS_Interval
<1>3. \A u \in U : u \subseteq 1..b
  OBVIOUS
<1>0. U # {}
  BY b <= b
<1>4. \E s \in U : \A t \in U : ~(t \subseteq s /\ t # s)
  <2> DEFINE B == 1..b
  <2>1. IsFiniteSet(B) /\ U \in SUBSET SUBSET B
    BY <1>2, <1>3
  <2> HIDE DEF U, B
  <2> QED
    BY <2>1, <1>0, LeastSubset
<1>5. PICK n \in T : n <= b /\ \A t \in U : ~(t \subseteq 1..n /\ t # 1..n)
  BY <1>4
<1>6. \A m \in T : n <= m
  <2> SUFFICES ASSUME NEW m \in T, m < n PROVE FALSE
    OBVIOUS
  <2>1. 1..m \in U
    BY <1>5
  <2>2. 1..m \subseteq 1..n /\ n \in 1..n /\ n \notin 1..m
    OBVIOUS
  <2> QED
    BY <2>1, <2>2, <1>5
<1> QED
  BY <1>6

(* Induction over the naturals, for a set of them. *)
LEMMA AllNaturals ==
  ASSUME NEW P \in SUBSET Nat, 0 \in P, \A n \in P : n + 1 \in P
  PROVE  P = Nat
<1> DEFINE Bad == Nat \ P
<1> SUFFICES ASSUME Bad # {} PROVE FALSE
  OBVIOUS
<1>1. PICK n \in Bad : \A m \in Bad : n <= m
  <2>1. Bad \in SUBSET Nat
    OBVIOUS
  <2> HIDE DEF Bad
  <2> QED
    BY <2>1, LeastNatural
<1>2. n \in Nat /\ n # 0 /\ n \notin P
  OBVIOUS
<1>3. n - 1 \in Nat /\ n - 1 \in P
  BY <1>1, <1>2
<1> QED
  BY <1>2, <1>3

(* What a definition by recursion over the naturals defines. *)
Recursion(f, X, x0, g) ==
  f \in [Nat -> X] /\ f[0] = x0 /\ \A n \in Nat : f[n + 1] = g[<<n, f[n]>>]

LEMMA RecursionExists ==
  ASSUME NEW X, NEW x0 \in X, NEW g, \A n \in Nat, x \in X : g[<<n, x>>] \in X
  PROVE  \E f : Recursion(f, X, x0, g)
<1> DEFINE Solves(n, f) ==
             /\ f \in [0..n -> X] /\ f[0] = x0
             /\ \A m \in Nat : m < n => f[m + 1] = g[<<m, f[m]>>]
           P == {n \in Nat : \E f : Solves(n, f)}
<1>1. 0 \in P
  <2>1. Solves(0, [m \in 0..0 |-> x0])
    OBVIOUS
  <2> QED
    BY <2>1
<1>2. ASSUME NEW n \in P
      PROVE  n + 1 \in P
  <2>1. PICK f : Solves(n, f)
    BY <1>2
  <2>2. n \in Nat /\ f[n] \in X /\ g[<<n, f[n]>>] \in X
    BY <2>1
  <2> DEFINE h == [m \in 0..(n + 1) |-> IF m = n + 1 THEN g[<<n, f[n]>>] ELSE f[m]]
  <2>3. \A m \in 0..n : h[m] = f[m] /\ f[m] \in X
    BY <2>1, <2>2
  <2>4. h[n + 1] = g[<<n, f[n]>>]
    BY <2>2
  <2>5. h \in [0..(n + 1) -> X]
    <3>1. \A m \in 0..(n + 1) : m \in 0..n \/ m = n + 1
      BY <2>2
    <3>2. \A m \in 0..(n + 1) : h[m] \in X
      <4> HIDE DEF h
      <4> QED
        BY <2>2, <2>3, <2>4, <3>1
    <3>3. h = [m \in 0..(n + 1) |-> h[m]]
      OBVIOUS
    <3> HIDE DEF h
    <3> QED
      BY <3>2, <3>3
  <2> HIDE DEF h
  <2>6. h[0] = x0
    BY <2>1, <2>2, <2>3
  <2>7. ASSUME NEW m \in Nat, m < n + 1
        PROVE  h[m + 1] = g[<<m, h[m]>>]
    <3>1. CASE m = n
      BY <2>2, <2>3, <2>4, <3>1
    <3>2. CASE m < n
      <4>1. m \in 0..n /\ m + 1 \in 0..n
        BY <2>2, <3>2
      <4>2. f[m + 1] = g[<<m, f[m]>>]
        BY <2>1, <3>2
      <4> QED
        BY <2>3, <4>1, <4>2
    <3> QED
      BY <2>2, <2>7, <3>1, <3>2
  <2>8. Solves(n + 1, h)
    BY <2>5, <2>6, <2>7
  <2> HIDE DEF Solves
  <2> QED
    BY <2>2, <2>8
<1>3. \A n \in Nat : \E f : Solves(n, f)
  <2>1. P \in SUBSET Nat
    OBVIOUS
  <2>2. P = Nat
    <3> HIDE DEF P
    <3> QED
      BY <1>1, <1>2, <2>1, AllNaturals
  <2> QED
    BY <2>2
<1>4. ASSUME NEW n \in Nat, NEW m \in Nat, NEW f, NEW h, Solves(n, f), Solves(m, h)
      PROVE  \A k \in Nat : k <= n /\ k <= m => f[k] = h[k]
  <2> DEFINE Q == {k \in Nat : k <= n /\ k <= m => f[k] = h[k]}
  <2>1. 0 \in Q
    BY <1>4
  <2>2. ASSUME NEW k \in Q PROVE k + 1 \in Q
    <3>1. k \in Nat /\ (k <= n /\ k <= m => f[k] = h[k])
      BY <2>2
    <3>2. ASSUME k + 1 <= n, k + 1 <= m PROVE f[k + 1] = h[k + 1]
      <4>1. k < n /\ k < m /\ f[k] = h[k]
        BY <3>1, <3>2
      <4>2. f[k + 1] = g[<<k, f[k]>>] /\ h[k + 1] = g[<<k, h[k]>>]
        BY <1>4, <3>1, <4>1
      <4> QED
        BY <4>1, <4>2
    <3> QED
      BY <3>1, <3>2
  <2>3. Q = Nat
    <3>1. Q \in SUBSET Nat
      OBVIOUS
    <3> HIDE DEF Q
    <3> QED
      BY <2>1, <2>2, <3>1, AllNaturals
  <2> QED
    BY <2>3
<1> DEFINE S(n) == CHOOSE f : Solves(n, f)
           F == [n \in Nat |-> S(n)[n]]
<1>5. \A n \in Nat : Solves(n, S(n))
  <2> HIDE DEF Solves
  <2> QED
    BY <1>3
<1> HIDE DEF S
<1>6. \A n \in Nat : F[n] \in X
  BY <1>5
<1>7. F[0] = x0
  BY <1>5
<1>8. ASSUME NEW n \in Nat
      PROVE  F[n + 1] = g[<<n, F[n]>>]
  <2>1. Solves(n, S(n)) /\ Solves(n + 1, S(n + 1)) /\ n + 1 \in Nat
    BY <1>5
  <2>2. S(n)[n] = S(n + 1)[n]
    <3> HIDE DEF Solves
    <3> QED
      BY <2>1, <1>4
  <2>3. S(n + 1)[n + 1] = g[<<n, S(n + 1)[n]>>]
    BY <2>1
  <2> QED
    BY <2>1, <2>2, <2>3
<1>9. F \in [Nat -> X]
  BY <1>6
<1> HIDE DEF F
<1> QED
  BY <1>7, <1>8, <1>9 DEF Recursion

(* The same up to a bound, for functions on the naturals below it. *)
StepsIn(g, X, N) == \A n \in 1..N : \A x \in X : g[<<n, x>>] \in X
RecursionTo(N, f, X, x0, g) ==
  f \in [0..N -> X] /\ f[0] = x0 /\ \A n \in 1..N : f[n] = g[<<n, f[n - 1]>>]

LEMMA RecursionUpTo ==
  ASSUME NEW X, NEW N \in Nat, NEW x0 \in X, NEW g, StepsIn(g, X, N)
  PROVE  \E f : RecursionTo(N, f, X, x0, g)
<1> DEFINE h == [nx \in Nat \X X |-> IF nx[1] < N THEN g[<<nx[1] + 1, nx[2]>>] ELSE nx[2]]
<1>1. ASSUME NEW n \in Nat, NEW x \in X
      PROVE  /\ h[<<n, x>>] \in X
             /\ n < N => h[<<n, x>>] = g[<<n + 1, x>>]
  <2>1. <<n, x>> \in Nat \X X /\ (n < N => n + 1 \in 1..N)
    OBVIOUS
  <2>2. h[<<n, x>>] = IF n < N THEN g[<<n + 1, x>>] ELSE x
    BY <2>1
  <2> HIDE DEF h
  <2> QED
    BY <2>1, <2>2 DEF StepsIn
<1> HIDE DEF h
<1>2. PICK F : Recursion(F, X, x0, h)
  BY <1>1, RecursionExists
<1>3. F \in [Nat -> X] /\ F[0] = x0 /\ \A n \in Nat : F[n + 1] = h[<<n, F[n]>>]
  BY <1>2 DEF Recursion
<1> DEFINE f == [n \in 0..N |-> F[n]]
<1>4. f \in [0..N -> X] /\ f[0] = x0
  BY <1>3
<1>5. ASSUME NEW n \in 1..N PROVE f[n] = g[<<n, f[n - 1]>>]
  <2>1. n - 1 \in Nat /\ n - 1 < N /\ n - 1 \in 0..N /\ n \in 0..N /\ (n - 1) + 1 = n
    OBVIOUS
  <2>2. F[n] = h[<<n - 1, F[n - 1]>>] /\ F[n - 1] \in X
    BY <2>1, <1>3
  <2>3. h[<<n - 1, F[n - 1]>>] = g[<<n, F[n - 1]>>]
    BY <2>1, <2>2, <1>1
  <2> QED
    BY <2>1, <2>2, <2>3
<1> QED
  BY <1>4, <1>5 DEF RecursionTo

(* A walk that steps from a to next[a] until it stops, at lower and lower  *)
(* ranks, is defined by its recursion.                                     *)
Walk(f, D, stop, base, next, step) ==
  \A a \in D : f[a] = IF a \in stop THEN base[a] ELSE step[<<a, f[next[a]]>>]

LEMMA WalksExist ==
  ASSUME NEW D, NEW V, NEW base \in [D -> V], NEW next \in [D -> D], NEW stop,
         NEW step, \A a \in D, v \in V : step[<<a, v>>] \in V,
         NEW rank \in [D -> Nat], \A a \in D : a \notin stop => rank[next[a]] < rank[a]
  PROVE  \E f \in [D -> V] : Walk(f, D, stop, base, next, step)
<1> DEFINE X == [D -> V]
           once(h) == [a \in D |-> IF a \in stop THEN base[a] ELSE step[<<a, h[next[a]]>>]]
           g == [nx \in Nat \X X |-> once(nx[2])]
<1>1. \A n \in Nat, h \in X : g[<<n, h>>] = once(h) /\ once(h) \in X
  OBVIOUS
<1>2. PICK F : Recursion(F, X, base, g)
  <2>1. base \in X /\ \A n \in Nat, h \in X : g[<<n, h>>] \in X
    BY <1>1
  <2> HIDE DEF X, g
  <2> QED
    BY <2>1, RecursionExists
<1>3. /\ \A n \in Nat : F[n] \in X
      /\ F[0] = base
      /\ \A n \in Nat : F[n + 1] = once(F[n])
  <2>1. F \in [Nat -> X] /\ F[0] = base /\ \A n \in Nat : F[n + 1] = g[<<n, F[n]>>]
    BY <1>2 DEF Recursion
  <2> HIDE DEF X, g, once
  <2> QED
    BY <1>1, <2>1
<1>4. /\ \A a \in D : F[0][a] = base[a]
      /\ \A n \in Nat, a \in D :
           /\ F[n][a] \in V
           /\ F[n + 1][a] = IF a \in stop THEN base[a] ELSE step[<<a, F[n][next[a]]>>]
  BY <1>3
<1> HIDE DEF X, once, g
<1> DEFINE P == {n \in Nat : \A a \in D : rank[a] <= n => F[n + 1][a] = F[n][a]}
<1>5. 0 \in P
  <2> SUFFICES ASSUME NEW a \in D, rank[a] <= 0 PROVE F[0 + 1][a] = F[0][a]
    OBVIOUS
  <2>1. rank[a] \in Nat /\ rank[next[a]] \in Nat
    OBVIOUS
  <2>2. a \in stop
    BY <2>1
  <2> QED
    BY <1>4, <2>2
<1>6. ASSUME NEW n \in P PROVE n + 1 \in P
  <2>0. n \in Nat /\ n + 1 \in Nat
    OBVIOUS
  <2> SUFFICES ASSUME NEW a \in D, rank[a] <= n + 1 PROVE F[(n + 1) + 1][a] = F[n + 1][a]
    BY <2>0
  <2>1. CASE a \in stop
    BY <1>4, <2>0, <2>1
  <2>2. CASE a \notin stop
    <3>1. rank[a] \in Nat /\ rank[next[a]] \in Nat /\ rank[next[a]] < rank[a] /\ next[a] \in D
      BY <2>2
    <3>2. rank[next[a]] <= n
      BY <2>0, <3>1
    <3>3. F[n + 1][next[a]] = F[n][next[a]]
      BY <3>1, <3>2
    <3>4. F[n + 1][a] = step[<<a, F[n][next[a]]>>]
      BY <1>4, <2>0, <2>2
    <3>5. F[(n + 1) + 1][a] = step[<<a, F[n + 1][next[a]]>>]
      <4> HIDE DEF P
      <4> DEFINE m == n + 1
      <4>1. m \in Nat
        BY <2>0
      <4> HIDE DEF m
      <4>2. F[m + 1][a] = step[<<a, F[m][next[a]]>>]
        BY <1>4, <2>2, <4>1
      <4> QED
        BY <4>2 DEF m
    <3> QED
      BY <3>3, <3>4, <3>5
  <2> QED
    BY <2>1, <2>2
<1>7. P = Nat
  <2>1. P \in SUBSET Nat
    OBVIOUS
  <2> HIDE DEF P
  <2> QED
    BY <1>5, <1>6, <2>1, AllNaturals
<1>8. \A n \in Nat, a \in D : rank[a] <= n => F[n + 1][a] = F[n][a]
  BY <1>7
<1> DEFINE Q == {n \in Nat : \A a \in D : F[rank[a] + n][a] = F[rank[a]][a]}
<1>9. Q = Nat
  <2>1. Q \in SUBSET Nat
    OBVIOUS
  <2>2. 0 \in Q
    OBVIOUS
  <2>3. ASSUME NEW n \in Q PROVE n + 1 \in Q
    <3> SUFFICES ASSUME NEW a \in D PROVE F[rank[a] + (n + 1)][a] = F[rank[a]][a]
      OBVIOUS
    <3>1. rank[a] + n \in Nat /\ rank[a] <= rank[a] + n /\ rank[a] + (n + 1) = (rank[a] + n) + 1
      OBVIOUS
    <3> QED
      BY <1>8, <3>1
  <2> HIDE DEF Q
  <2> QED
    BY <2>1, <2>2, <2>3, AllNaturals
<1>10. \A n \in Nat, a \in D : F[rank[a] + n][a] = F[rank[a]][a]
  BY <1>9
<1> DEFINE f == [a \in D |-> F[rank[a]][a]]
<1>11. f \in [D -> V]
  BY <1>4
<1>12. ASSUME NEW a \in D
       PROVE  f[a] = IF a \in stop THEN base[a] ELSE step[<<a, f[next[a]]>>]
  <2>1. rank[a] \in Nat /\ f[a] = F[rank[a]][a] /\ F[rank[a] + 1][a] = F[rank[a]][a]
    BY <1>8
  <2>2. f[a] = IF a \in stop THEN base[a] ELSE step[<<a, F[rank[a]][next[a]]>>]
    BY <1>4, <2>1
  <2>3. CASE a \notin stop
    <3>1. next[a] \in D /\ rank[next[a]] \in Nat /\ rank[next[a]] < rank[a]
      BY <2>3
    <3>2. rank[a] - rank[next[a]] \in Nat /\ rank[next[a]] + (rank[a] - rank[next[a]]) = rank[a]
      BY <2>1, <3>1
    <3>3. F[rank[a]][next[a]] = f[next[a]]
      BY <1>10, <3>1, <3>2
    <3> QED
      BY <2>2, <3>3
  <2> QED
    BY <2>2, <2>3
<1> HIDE DEF f
<1> QED
  BY <1>11, <1>12 DEF Walk

LEMMA MinOfNaturals ==
  ASSUME NEW T \in SUBSET Nat, T # {}
  PROVE  Min(T) \in T /\ \A n \in T : Min(T) <= n
BY LeastNatural DEF Min

LEMMA MaxOfIntegers ==
  ASSUME NEW T \in SUBSET Int, T # {}, IsFiniteSet(T)
  PROVE  Max(T) \in T /\ \A n \in T : Max(T) >= n
<1> DEFINE Above(n) == {m \in T : m >= n}
           U == {Above(n) : n \in T}
<1>1. \E s \in U : \A t \in U : ~(t \subseteq s /\ t # s)
  <2> DEFINE S == T
  <2>1. U \in SUBSET SUBSET S /\ IsFiniteSet(S)
    OBVIOUS
  <2>2. U # {}
    OBVIOUS
  <2> HIDE DEF U, S
  <2> QED
    BY <2>1, <2>2, LeastSubset
<1>2. PICK s \in U : \A t \in U : ~(t \subseteq s /\ t # s)
  BY <1>1
<1> HIDE DEF Above
<1>3. PICK n \in T : s = Above(n)
  BY <1>2
<1>5. \A m \in T : ~(Above(m) \subseteq Above(n) /\ Above(m) # Above(n))
  BY <1>2, <1>3
<1>4. \A m \in T : n >= m
  <2> SUFFICES ASSUME NEW m \in T, m > n PROVE FALSE
    OBVIOUS
  <2>0. m \in Int /\ n \in Int /\ T \subseteq Int
    OBVIOUS
  <2>1. \A k \in T : k >= m => k >= n
    BY <2>0
  <2>2. n >= n /\ ~(n >= m)
    BY <2>0
  <2>3. Above(m) \subseteq Above(n)
    BY <2>1 DEF Above
  <2>4. n \in Above(n) /\ n \notin Above(m)
    BY <2>2 DEF Above
  <2> QED
    BY <2>3, <2>4, <1>5
<1> QED
  BY <1>4 DEF Max

(* The values of a function on a finite set. *)
LEMMA FiniteImage ==
  ASSUME NEW S, IsFiniteSet(S), NEW f, DOMAIN f = S
  PROVE  IsFiniteSet({f[x] : x \in S})
<1> DEFINE T == {f[x] : x \in S}
           h == [x \in S |-> f[x]]
<1>1. h \in Surjection(S, T)
  BY DEF Surjection
<1> HIDE DEF h, T
<1>2. IsFiniteSet(T)
  BY <1>1, FS_Surjection
<1> QED
  BY <1>2 DEF T

-----------------------------------------------------------------------------
(* FoldLeft recurs over sets of indices, of which only the first ones      *)
(* matter: where g[<<i, x>>] is what the operator makes of x and the i-th  *)
(* element, the fold is the recursion along the sequence.                  *)
Folding(n, it, base, g) ==
  \A s \in SUBSET (1..n) : it[s] = IF s = {} THEN base ELSE g[<<Max(s), it[s \ {Max(s)}]>>]

LEMMA MaxOfPrefix ==
  ASSUME NEW n \in Nat, NEW i \in 1..n
  PROVE  Max(1..i) = i /\ (1..i) \ {i} = 1..(i - 1) /\ 1..i # {} /\ 1..i \in SUBSET (1..n)
<1>1. 1..i \in SUBSET Int /\ 1..i # {} /\ i \in Int /\ 1 \in Int
  OBVIOUS
<1>2. IsFiniteSet(1..i)
  BY <1>1, FS_Interval
<1>3. Max(1..i) \in 1..i /\ Max(1..i) >= i
  BY <1>1, <1>2, MaxOfIntegers
<1> QED
  BY <1>3

LEMMA FoldingExists ==
  ASSUME NEW n \in Nat, NEW X, NEW base \in X, NEW g, StepsIn(g, X, n)
  PROVE  \E it \in [SUBSET (1..n) -> X] : Folding(n, it, base, g)
<1> DEFINE D == SUBSET (1..n)
           bases == [s \in D |-> base]
           next == [s \in D |-> s \ {Max(s)}]
           stop == {{}}
           step == [sx \in D \X X |-> IF sx[1] = {} THEN sx[2] ELSE g[<<Max(sx[1]), sx[2]>>]]
           rank == [s \in D |-> Cardinality(s)]
<1>1. ASSUME NEW s \in D
      PROVE  /\ Cardinality(s) \in Nat
             /\ s # {} => Max(s) \in 1..n /\ Cardinality(s \ {Max(s)}) = Cardinality(s) - 1
  <2>1. IsFiniteSet(1..n) /\ 1..n \subseteq Int
    BY FS_Interval
  <2>2. IsFiniteSet(s) /\ Cardinality(s) \in Nat /\ s \in SUBSET Int
    BY <2>1, FS_Subset, FS_CardinalityType
  <2>3. s # {} => Max(s) \in s
    BY <2>2, MaxOfIntegers
  <2> QED
    BY <2>2, <2>3, FS_RemoveElement
<1>2. ASSUME NEW s \in D, NEW x \in X
      PROVE  /\ step[<<s, x>>] \in X
             /\ s # {} => step[<<s, x>>] = g[<<Max(s), x>>]
  <2>1. step[<<s, x>>] = IF s = {} THEN x ELSE g[<<Max(s), x>>]
    OBVIOUS
  <2> HIDE DEF step
  <2> QED
    BY <1>1, <2>1 DEF StepsIn
<1>3. \E it \in [D -> X] : Walk(it, D, stop, bases, next, step)
  <2>1. bases \in [D -> X] /\ next \in [D -> D]
    OBVIOUS
  <2>2. rank \in [D -> Nat]
    BY <1>1
  <2>3. ASSUME NEW s \in D, s \notin stop PROVE rank[next[s]] < rank[s]
    <3>1. s # {} /\ next[s] = s \ {Max(s)} /\ next[s] \in D
      BY <2>3
    <3>2. rank[next[s]] = Cardinality(s) - 1 /\ rank[s] = Cardinality(s) /\ Cardinality(s) \in Nat
      BY <1>1, <3>1
    <3> QED
      BY <3>2
  <2> HIDE DEF D, bases, next, stop, step, rank
  <2> QED
    BY <1>2, <2>1, <2>2, <2>3, WalksExist
<1>4. PICK it \in [D -> X] : Walk(it, D, stop, bases, next, step)
  BY <1>3
<1>5. ASSUME NEW s \in D
      PROVE  it[s] = IF s = {} THEN base ELSE g[<<Max(s), it[s \ {Max(s)}]>>]
  <2>1. it[s] = IF s \in stop THEN bases[s] ELSE step[<<s, it[next[s]]>>]
    BY <1>4 DEF Walk
  <2>2. next[s] = s \ {Max(s)} /\ next[s] \in D /\ it[next[s]] \in X
        /\ bases[s] = base /\ (s \in stop <=> s = {})
    OBVIOUS
  <2> HIDE DEF D, bases, next, stop, step
  <2> QED
    BY <1>2, <2>1, <2>2
<1> QED
  BY <1>5 DEF Folding

FoldsIn(n, it, X, base, g) ==
  /\ it[{}] = base
  /\ \A s \in SUBSET (1..n) :
       s # {} /\ it[s \ {Max(s)}] \in X => it[s] = g[<<Max(s), it[s \ {Max(s)}]>>]

LEMMA FoldingAlong ==
  ASSUME NEW n \in Nat, NEW X, NEW base, NEW g, NEW f, RecursionTo(n, f, X, base, g),
         NEW it, FoldsIn(n, it, X, base, g)
  PROVE  it[1..n] = f[n]
<1>1. f \in [0..n -> X] /\ f[0] = base /\ \A i \in 1..n : f[i] = g[<<i, f[i - 1]>>]
  BY DEF RecursionTo
<1> DEFINE P == {i \in Nat : i <= n => it[1..i] = f[i]}
<1>2. 0 \in P
  <2>1. 1..0 = {}
    OBVIOUS
  <2> QED
    BY <1>1, <2>1 DEF FoldsIn
<1>3. ASSUME NEW i \in P PROVE i + 1 \in P
  <2>1. SUFFICES ASSUME i + 1 <= n PROVE it[1..(i + 1)] = f[i + 1]
    OBVIOUS
  <2>2. i \in Nat /\ i + 1 \in 1..n /\ i \in 0..n /\ (i + 1) - 1 = i /\ it[1..i] = f[i]
    BY <2>1
  <2> DEFINE j == i + 1
             s == 1..j
  <2>3. j \in 1..n /\ j - 1 = i
    BY <2>2
  <2> HIDE DEF j
  <2>4. Max(s) = j /\ s \ {j} = 1..i /\ s # {} /\ s \in SUBSET (1..n)
    BY <2>3, MaxOfPrefix
  <2> HIDE DEF s
  <2>5. it[s \ {Max(s)}] = f[i] /\ f[i] \in X
    BY <1>1, <2>2, <2>4
  <2>6. it[s] = g[<<j, f[i]>>]
    BY <2>4, <2>5 DEF FoldsIn
  <2>7. f[j] = g[<<j, f[i]>>]
    BY <1>1, <2>3
  <2> QED
    BY <2>6, <2>7 DEF j, s
<1>4. P \in SUBSET Nat
  OBVIOUS
<1>5. P = Nat
  <2> HIDE DEF P
  <2> QED
    BY <1>2, <1>3, <1>4, AllNaturals
<1> QED
  BY <1>5

LEMMA MaxOfIndices ==
  ASSUME NEW n \in Nat, NEW s \in SUBSET (1..n), s # {}
  PROVE  Max(s) \in 1..n /\ s \ {Max(s)} \in SUBSET (1..n)
<1>1. IsFiniteSet(1..n) /\ 1..n \subseteq Int
  BY FS_Interval
<1>2. IsFiniteSet(s) /\ s \in SUBSET Int
  BY <1>1, FS_Subset
<1>3. Max(s) \in s
  BY <1>2, MaxOfIntegers
<1> QED
  BY <1>3

(* So a fold, which is a solution of its recursion if there is one, is     *)
(* the recursion along the sequence.                                       *)
SolvedBy(n, it, X, base, g) ==
  \A fold \in [SUBSET (1..n) -> X] : Folding(n, fold, base, g) => FoldsIn(n, it, X, base, g)

LEMMA FoldAlong ==
  ASSUME NEW n \in Nat, NEW X, NEW base \in X, NEW g, StepsIn(g, X, n), NEW it,
         SolvedBy(n, it, X, base, g)
  PROVE  \E h : RecursionTo(n, h, X, base, g) /\ it[1..n] = h[n]
<1>1. FoldsIn(n, it, X, base, g)
  BY FoldingExists DEF SolvedBy
<1>2. PICK h : RecursionTo(n, h, X, base, g)
  BY RecursionUpTo
<1> QED
  BY <1>1, <1>2, FoldingAlong

(* SetToSeq lists a finite set. *)
LEMMA SetToSeqLists ==
  ASSUME NEW S, IsFiniteSet(S)
  PROVE  /\ SetToSeq(S) \in Seq(S) /\ Len(SetToSeq(S)) = Cardinality(S)
         /\ {SetToSeq(S)[i] : i \in 1..Len(SetToSeq(S))} = S
         /\ DOMAIN SetToSeq(S) = 1..Len(SetToSeq(S))
<1> DEFINE n == Cardinality(S)
<1>1. n \in Nat /\ ExistsBijection(1..n, S)
  BY FS_CardinalityType
<1>2. PICK b \in Bijection(1..n, S) : TRUE
  BY <1>1 DEF ExistsBijection
<1>3. b \in [1..n -> S] /\ IsInjective(b)
  BY <1>2 DEF Bijection, Injection, IsInjective
<1> DEFINE f == SetToSeq(S)
<1>4. f \in [1..n -> S] /\ IsInjective(f)
  BY <1>3 DEF SetToSeq
<1> HIDE DEF f
<1>5. f \in Injection(1..n, S)
  BY <1>4 DEF Injection, IsInjective
<1>6. Cardinality(1..n) = n
  BY <1>1, FS_Interval
<1>7. f \in Surjection(1..n, S)
  BY <1>5, <1>6, FS_Injection
<1>8. f \in Seq(S) /\ Len(f) = n
  BY <1>1, <1>4
<1>9. \A x \in S : \E i \in 1..n : f[i] = x
  BY <1>7 DEF Surjection
<1> QED
  BY <1>4, <1>8, <1>9 DEF f

-----------------------------------------------------------------------------
(* FlattenSeq: its recursion has a solution, of which longer sequences of  *)
(* sequences have more.                                                    *)
Flattens(s, f) == f = [i \in 1..Len(s) |-> IF i = 1 THEN s[i] ELSE f[i - 1] \o s[i]]
Flattening(s) == CHOOSE f : Flattens(s, f)

LEMMA FlattenSeqIs ==
  ASSUME NEW s PROVE FlattenSeq(s) = IF Len(s) = 0 THEN s ELSE Flattening(s)[Len(s)]
BY DEF FlattenSeq, Flattens, Flattening

LEMMA FlatteningExists ==
  ASSUME NEW B, NEW s \in Seq(Seq(B)) PROVE Flattens(s, Flattening(s))
<1> DEFINE N == Len(s)
           X == Seq(B)
           g == [nx \in (1..N) \X X |-> nx[2] \o s[nx[1]]]
<1>1. N \in Nat /\ <<>> \in X
  OBVIOUS
<1>2. ASSUME NEW n \in 1..N, NEW x \in X PROVE g[<<n, x>>] = x \o s[n] /\ g[<<n, x>>] \in X
  <2>1. s[n] \in X /\ x \o s[n] \in X
    OBVIOUS
  <2>2. <<n, x>> \in (1..N) \X X
    OBVIOUS
  <2>3. g[<<n, x>>] = x \o s[n]
    BY <2>2
  <2> QED
    BY <2>1, <2>3
<1> HIDE DEF g
<1>3. PICK F : RecursionTo(N, F, X, <<>>, g)
  <2>1. StepsIn(g, X, N)
    BY <1>2 DEF StepsIn
  <2> HIDE DEF N, X
  <2> QED
    BY <2>1, <1>1, RecursionUpTo
<1> DEFINE f == [i \in 1..N |-> F[i]]
<1>4. ASSUME NEW i \in 1..N PROVE f[i] = IF i = 1 THEN s[i] ELSE f[i - 1] \o s[i]
  <2>1. i - 1 \in 0..N /\ F[i - 1] \in X /\ s[i] \in X
    <3>1. i - 1 \in 0..N /\ s[i] \in X
      OBVIOUS
    <3> HIDE DEF N, X
    <3> QED
      BY <3>1, <1>3 DEF RecursionTo
  <2>2. F[i] = F[i - 1] \o s[i]
    BY <2>1, <1>2, <1>3 DEF RecursionTo
  <2>3. i # 1 => i - 1 \in 1..N
    OBVIOUS
  <2>4. i = 1 => F[i - 1] = <<>>
    BY <1>3 DEF RecursionTo
  <2>5. \A x \in X : <<>> \o x = x
    OBVIOUS
  <2> HIDE DEF X, N
  <2> QED
    BY <2>1, <2>2, <2>3, <2>4, <2>5
<1>5. f = [i \in 1..N |-> IF i = 1 THEN s[i] ELSE f[i - 1] \o s[i]]
  BY <1>4
<1> QED
  BY <1>5 DEF Flattens, Flattening

LEMMA FlatteningOfPrefix ==
  ASSUME NEW B, NEW s \in Seq(Seq(B)), NEW t \in Seq(Seq(B)), Len(s) <= Len(t),
         \A i \in 1..Len(s) : s[i] = t[i]
  PROVE  \A i \in 1..Len(s) : Flattening(s)[i] = Flattening(t)[i] /\ Flattening(s)[i] \in Seq(B)
<1> DEFINE f == Flattening(s)
           h == Flattening(t)
           X == Seq(B)
           P == {n \in Nat : n \in 1..Len(s) => f[n] = h[n] /\ f[n] \in X}
<1>1. /\ \A i \in 1..Len(s) : f[i] = IF i = 1 THEN s[i] ELSE f[i - 1] \o s[i]
      /\ \A i \in 1..Len(t) : h[i] = IF i = 1 THEN t[i] ELSE h[i - 1] \o t[i]
  <2>1. Flattens(s, f) /\ Flattens(t, h)
    BY FlatteningExists
  <2> HIDE DEF f, h
  <2> QED
    BY <2>1 DEF Flattens
<1>2. /\ \A i \in 1..Len(s) : s[i] \in X /\ i \in 1..Len(t)
      /\ \A x, y \in X : x \o y \in X
      /\ Len(s) \in Nat
  OBVIOUS
<1> HIDE DEF f, h, X
<1>3. 0 \in P
  OBVIOUS
<1>4. ASSUME NEW n \in P PROVE n + 1 \in P
  <2> SUFFICES ASSUME n + 1 \in 1..Len(s) PROVE f[n + 1] = h[n + 1] /\ f[n + 1] \in X
    OBVIOUS
  <2>1. CASE n = 0
    BY <2>1, <1>1, <1>2
  <2>2. CASE n # 0
    <3>1. n \in 1..Len(s) /\ (n + 1) - 1 = n /\ n + 1 # 1
      BY <2>2, <1>2
    <3>2. f[n] = h[n] /\ f[n] \in X
      BY <3>1
    <3>3. f[n + 1] = f[n] \o s[n + 1] /\ h[n + 1] = h[n] \o t[n + 1]
      BY <3>1, <1>1, <1>2
    <3> QED
      BY <3>2, <3>3, <1>2
  <2> QED
    BY <2>1, <2>2
<1>5. P = Nat
  <2>1. P \in SUBSET Nat
    OBVIOUS
  <2> HIDE DEF P
  <2> QED
    BY <2>1, <1>3, <1>4, AllNaturals
<1>6. \A i \in 1..Len(s) : i \in P
  <2> HIDE DEF P
  <2> QED
    BY <1>5, <1>2
<1>7. \A i \in 1..Len(s) : f[i] = h[i] /\ f[i] \in X
  BY <1>6
<1> QED
  BY <1>7 DEF f, h, X

(* What is cited of FlattenSeq. *)
LEMMA FlattenNone == FlattenSeq(<<>>) = <<>>
BY FlattenSeqIs

LEMMA FlattenAppend ==
  ASSUME NEW B, NEW s \in Seq(Seq(B)), NEW x \in Seq(B)
  PROVE  FlattenSeq(Append(s, x)) = FlattenSeq(s) \o x /\ FlattenSeq(s) \in Seq(B)
<1> DEFINE t == Append(s, x)
           n == Len(s)
           f == Flattening(s)
           h == Flattening(t)
<1>1. t \in Seq(Seq(B)) /\ Len(t) = n + 1 /\ n \in Nat /\ t[n + 1] = x
      /\ \A i \in 1..n : s[i] = t[i]
  OBVIOUS
<1>2. \A i \in 1..n : f[i] = h[i] /\ f[i] \in Seq(B)
  <2>1. Len(s) <= Len(t)
    BY <1>1
  <2> HIDE DEF t
  <2> QED
    BY <1>1, <2>1, FlatteningOfPrefix
<1>3. Flattens(t, h)
  <2> HIDE DEF t
  <2> QED
    BY <1>1, FlatteningExists
<1>4. FlattenSeq(t) = IF Len(t) = 0 THEN t ELSE h[Len(t)]
  BY FlattenSeqIs
<1>5. FlattenSeq(s) = IF n = 0 THEN s ELSE f[n]
  BY FlattenSeqIs
<1> HIDE DEF t, h, f
<1>6. h[n + 1] = IF n + 1 = 1 THEN t[n + 1] ELSE h[(n + 1) - 1] \o t[n + 1]
  <2>1. n + 1 \in 1..Len(t)
    BY <1>1
  <2> QED
    BY <1>3, <2>1 DEF Flattens
<1>7. FlattenSeq(t) = h[n + 1]
  BY <1>1, <1>4
<1>8. CASE n = 0
  <2>1. s = <<>> /\ <<>> \o x = x /\ <<>> \in Seq(B)
    BY <1>8
  <2>2. h[n + 1] = x
    BY <1>1, <1>6, <1>8
  <2> QED
    BY <2>1, <2>2, <1>5, <1>7, <1>8 DEF t
<1>9. CASE n # 0
  <2>1. n \in 1..n /\ (n + 1) - 1 = n /\ n + 1 # 1
    BY <1>1, <1>9
  <2>2. h[n + 1] = h[n] \o x
    BY <2>1, <1>1, <1>6
  <2>3. f[n] = h[n] /\ f[n] \in Seq(B)
    BY <2>1, <1>2
  <2> QED
    BY <2>2, <2>3, <1>5, <1>7, <1>9 DEF t
<1> QED
  BY <1>8, <1>9

-----------------------------------------------------------------------------
(* The sums over all subsets of a set.                                     *)

Chosen(s) == CHOOSE x \in s : TRUE

Summed(f, sets, it) ==
  it = [s \in sets |-> IF s = {} THEN 0 ELSE f[Chosen(s)] + it[s \ {Chosen(s)}]]

Sums(f, S) == CHOOSE it : Summed(f, SUBSET S, it)

LEMMA SumIsAmongSums ==
  ASSUME NEW f, NEW S
  PROVE  SumFunctionOnSet(f, S) = Sums(f, S)[S]
BY DEF SumFunctionOnSet, FoldFunctionOnSet, MapThenFoldSet, Summed, Sums, Chosen

SmallSubsets(S, n) == {s \in SUBSET S : Cardinality(s) <= n}

LEMMA SumsOfSmall ==
  ASSUME NEW f, NEW S, IsFiniteSet(S)
  PROVE  \A n \in Nat : \E it : Summed(f, SmallSubsets(S, n), it)
<1> DEFINE Good(n) == \E it : Summed(f, SmallSubsets(S, n), it)
           Bad == {n \in Nat : ~Good(n)}
<1> SUFFICES ASSUME Bad # {} PROVE FALSE
  OBVIOUS
<1>1. PICK n \in Bad : \A m \in Bad : n <= m
  <2>1. Bad \in SUBSET Nat
    OBVIOUS
  <2> HIDE DEF Bad
  <2> QED
    BY <2>1, LeastNatural
<1>2. n \in Nat /\ ~Good(n) /\ \A m \in Nat : m < n => Good(m)
  <2> HIDE DEF Good
  <2> QED
    BY <1>1
<1>3. \A s \in SUBSET S : IsFiniteSet(s) /\ Cardinality(s) \in Nat /\ (Cardinality(s) = 0 <=> s = {})
  BY FS_Subset, FS_CardinalityType, FS_EmptySet
<1> HIDE DEF Bad
<1>4. CASE n = 0
  <2>1. SmallSubsets(S, 0) = {{}}
    BY <1>3 DEF SmallSubsets
  <2>2. Summed(f, {{}}, [s \in {{}} |-> 0])
    BY DEF Summed
  <2> QED
    BY <2>1, <2>2, <1>2, <1>4
<1>5. CASE n # 0
  <2>1. n \in Nat /\ n - 1 \in Nat /\ Good(n - 1)
    <3> HIDE DEF Good
    <3> QED
      BY <1>2, <1>5
  <2>2. PICK old : Summed(f, SmallSubsets(S, n - 1), old)
    BY <2>1
  <2> DEFINE it == [s \in SmallSubsets(S, n) |->
                      IF s = {} THEN 0 ELSE f[Chosen(s)] + old[s \ {Chosen(s)}]]
  <2>3. SmallSubsets(S, n - 1) \subseteq SmallSubsets(S, n)
    BY <1>3, <2>1 DEF SmallSubsets
  <2>4. \A s \in SmallSubsets(S, n) : s # {} => s \ {Chosen(s)} \in SmallSubsets(S, n - 1)
    <3> TAKE s \in SmallSubsets(S, n)
    <3> HAVE s # {}
    <3>1. Chosen(s) \in s /\ s \in SUBSET S /\ s \ {Chosen(s)} \in SUBSET S
      BY DEF Chosen, SmallSubsets
    <3>2. Cardinality(s \ {Chosen(s)}) = Cardinality(s) - 1
      BY <3>1, <1>3, FS_RemoveElement
    <3>3. Cardinality(s) \in Nat /\ Cardinality(s) <= n
      BY <3>1, <1>3 DEF SmallSubsets
    <3> QED
      BY <3>1, <3>2, <3>3, <2>1 DEF SmallSubsets
  <2>5. \A s \in SmallSubsets(S, n - 1) : it[s] = old[s]
    BY <2>2, <2>3 DEF Summed
  <2>6. Summed(f, SmallSubsets(S, n), it)
    <3> it = [s \in SmallSubsets(S, n) |->
                IF s = {} THEN 0 ELSE f[Chosen(s)] + it[s \ {Chosen(s)}]]
      BY <2>4, <2>5
    <3> QED
      BY DEF Summed
  <2> QED
    BY <2>6, <1>2
<1> QED
  BY <1>2, <1>4, <1>5

LEMMA SumsExist ==
  ASSUME NEW f, NEW S, IsFiniteSet(S)
  PROVE  Summed(f, SUBSET S, Sums(f, S))
<1>1. Cardinality(S) \in Nat /\ \A s \in SUBSET S : Cardinality(s) <= Cardinality(S)
  BY FS_Subset, FS_CardinalityType
<1>2. SmallSubsets(S, Cardinality(S)) = SUBSET S
  BY <1>1 DEF SmallSubsets
<1>3. \E it : Summed(f, SUBSET S, it)
  <2>1. \A n \in Nat : \E it : Summed(f, SmallSubsets(S, n), it)
    BY SumsOfSmall
  <2>2. \E it : Summed(f, SmallSubsets(S, Cardinality(S)), it)
    BY <1>1, <2>1
  <2> QED
    BY <2>2, <1>2
<1> QED
  BY <1>3 DEF Sums

LEMMA SumsType ==
  ASSUME NEW f, NEW S, IsFiniteSet(S), \A x \in S : f[x] \in Int
  PROVE  \A s \in SUBSET S : Sums(f, S)[s] \in Int
<1> DEFINE it == Sums(f, S)
           Bad == {s \in SUBSET S : it[s] \notin Int}
<1>0. Summed(f, SUBSET S, it)
  BY SumsExist
<1> HIDE DEF it
<1> SUFFICES ASSUME Bad # {} PROVE FALSE
  BY DEF it
<1>1. PICK s \in Bad : \A t \in Bad : ~(t \subseteq s /\ t # s)
  <2>1. Bad \in SUBSET SUBSET S
    OBVIOUS
  <2> HIDE DEF Bad
  <2> QED
    BY <2>1, LeastSubset
<1>2. s # {} /\ Chosen(s) \in s
  BY <1>0, <1>1 DEF Summed, Chosen
<1>3. it[s \ {Chosen(s)}] \in Int
  BY <1>1, <1>2
<1>4. s \in SUBSET S /\ it[s] \notin Int
  BY <1>1
<1>5. it[s] = f[Chosen(s)] + it[s \ {Chosen(s)}]
  BY <1>0, <1>2, <1>4 DEF Summed
<1>6. f[Chosen(s)] \in Int
  BY <1>2, <1>4
<1> QED
  BY <1>3, <1>4, <1>5, <1>6

(* It does not matter which element goes first. *)
LEMMA SumsCommute ==
  ASSUME NEW f, NEW S, IsFiniteSet(S), \A x \in S : f[x] \in Int
  PROVE  \A s \in SUBSET S : \A x \in s : Sums(f, S)[s] = f[x] + Sums(f, S)[s \ {x}]
<1> DEFINE it == Sums(f, S)
           Bad == {s \in SUBSET S : ~ \A x \in s : it[s] = f[x] + it[s \ {x}]}
<1>0. Summed(f, SUBSET S, it) /\ \A s \in SUBSET S : it[s] \in Int
  BY SumsExist, SumsType
<1> HIDE DEF it
<1> SUFFICES ASSUME Bad # {} PROVE FALSE
  BY DEF it
<1>1. PICK s \in Bad : \A t \in Bad : ~(t \subseteq s /\ t # s)
  <2>1. Bad \in SUBSET SUBSET S
    OBVIOUS
  <2> HIDE DEF Bad
  <2> QED
    BY <2>1, LeastSubset
<1>2. PICK x \in s : it[s] # f[x] + it[s \ {x}]
  BY <1>1
<1> DEFINE y == Chosen(s)
<1>3. y \in s /\ it[s] = f[y] + it[s \ {y}]
  BY <1>0, <1>2 DEF Summed, Chosen
<1>4. x # y
  BY <1>2, <1>3
<1>5. it[s \ {y}] = f[x] + it[(s \ {y}) \ {x}]
  BY <1>1, <1>2, <1>3, <1>4
<1>6. it[s \ {x}] = f[y] + it[(s \ {x}) \ {y}]
  BY <1>1, <1>2, <1>3, <1>4
<1>7. (s \ {y}) \ {x} = (s \ {x}) \ {y} /\ (s \ {y}) \ {x} \in SUBSET S
  OBVIOUS
<1>8. f[x] \in Int /\ f[y] \in Int /\ it[(s \ {y}) \ {x}] \in Int
  BY <1>0, <1>3, <1>7
<1>9. it[(s \ {x}) \ {y}] = it[(s \ {y}) \ {x}]
  BY <1>7
<1> DEFINE rest == it[(s \ {y}) \ {x}]
<1>10. it[s] = f[y] + (f[x] + rest)
  BY <1>3, <1>5
<1>11. f[x] + it[s \ {x}] = f[x] + (f[y] + rest)
  BY <1>6, <1>9
<1> HIDE DEF rest, y
<1> QED
  BY <1>2, <1>8, <1>10, <1>11 DEF rest

LEMMA SumsAgree ==
  ASSUME NEW f, NEW g, NEW S, IsFiniteSet(S), NEW R \in SUBSET S, \A x \in R : f[x] = g[x]
  PROVE  \A s \in SUBSET R : Sums(f, R)[s] = Sums(g, S)[s]
<1> DEFINE Bad == {s \in SUBSET R : Sums(f, R)[s] # Sums(g, S)[s]}
<1> SUFFICES ASSUME Bad # {} PROVE FALSE
  OBVIOUS
<1>0. /\ IsFiniteSet(R)
      /\ Summed(f, SUBSET R, Sums(f, R)) /\ Summed(g, SUBSET S, Sums(g, S))
  BY FS_Subset, SumsExist
<1>1. PICK s \in Bad : \A t \in Bad : ~(t \subseteq s /\ t # s)
  <2>1. Bad \in SUBSET SUBSET R
    OBVIOUS
  <2> HIDE DEF Bad
  <2> QED
    BY <2>1, <1>0, LeastSubset
<1>2. s \in SUBSET R /\ s \in SUBSET S
  OBVIOUS
<1>3. s # {} /\ Chosen(s) \in s
  BY <1>0, <1>1, <1>2 DEF Summed, Chosen
<1>4. Sums(f, R)[s \ {Chosen(s)}] = Sums(g, S)[s \ {Chosen(s)}]
  BY <1>1, <1>3
<1>5. /\ Sums(f, R)[s] = f[Chosen(s)] + Sums(f, R)[s \ {Chosen(s)}]
      /\ Sums(g, S)[s] = g[Chosen(s)] + Sums(g, S)[s \ {Chosen(s)}]
  BY <1>0, <1>2, <1>3 DEF Summed
<1> QED
  BY <1>1, <1>2, <1>3, <1>4, <1>5

-----------------------------------------------------------------------------
(* What is cited of sums.                                                  *)

LEMMA SumOfNone == ASSUME NEW f PROVE SumFunctionOnSet(f, {}) = 0
<1>1. Summed(f, SUBSET {}, Sums(f, {}))
  BY SumsExist, FS_EmptySet
<1> QED
  BY <1>1, SumIsAmongSums DEF Summed

LEMMA SumType ==
  ASSUME NEW f, NEW S, IsFiniteSet(S), \A x \in S : f[x] \in Int
  PROVE  SumFunctionOnSet(f, S) \in Int
BY SumIsAmongSums, SumsType

LEMMA SumWithout ==
  ASSUME NEW f, NEW S, IsFiniteSet(S), \A x \in S : f[x] \in Int, NEW x \in S
  PROVE  SumFunctionOnSet(f, S) = f[x] + SumFunctionOnSet(f, S \ {x})
<1>1. SumFunctionOnSet(f, S) = f[x] + Sums(f, S)[S \ {x}]
  BY SumIsAmongSums, SumsCommute
<1>2. Sums(f, S)[S \ {x}] = Sums(f, S \ {x})[S \ {x}]
  BY SumsAgree
<1> QED
  BY <1>1, <1>2, SumIsAmongSums

LEMMA SumWith ==
  ASSUME NEW f, NEW S, IsFiniteSet(S), NEW x, x \notin S, \A y \in S \cup {x} : f[y] \in Int
  PROVE  SumFunctionOnSet(f, S \cup {x}) = SumFunctionOnSet(f, S) + f[x]
<1>1. IsFiniteSet(S \cup {x}) /\ (S \cup {x}) \ {x} = S
  BY FS_AddElement
<1>2. SumFunctionOnSet(f, S \cup {x}) = f[x] + SumFunctionOnSet(f, S)
  BY <1>1, SumWithout
<1> QED
  BY <1>2, SumType

LEMMA SumOfSame ==
  ASSUME NEW f, NEW g, NEW S, IsFiniteSet(S), \A x \in S : f[x] = g[x]
  PROVE  SumFunctionOnSet(f, S) = SumFunctionOnSet(g, S)
BY SumIsAmongSums, SumsAgree

LEMMA SumOfZeros ==
  ASSUME NEW f, NEW S, IsFiniteSet(S), \A x \in S : f[x] = 0
  PROVE  SumFunctionOnSet(f, S) = 0
<1> DEFINE Bad == {s \in SUBSET S : SumFunctionOnSet(f, s) # 0}
<1> SUFFICES ASSUME Bad # {} PROVE FALSE
  OBVIOUS
<1>1. PICK s \in Bad : \A t \in Bad : ~(t \subseteq s /\ t # s)
  <2>1. Bad \in SUBSET SUBSET S
    OBVIOUS
  <2> HIDE DEF Bad
  <2> QED
    BY <2>1, LeastSubset
<1>2. s \in SUBSET S /\ SumFunctionOnSet(f, s) # 0
  BY <1>1
<1>3. s # {}
  BY <1>2, SumOfNone
<1>4. PICK x \in s : TRUE
  BY <1>3
<1>5. SumFunctionOnSet(f, s \ {x}) = 0
  BY <1>1, <1>2, <1>4
<1>6. IsFiniteSet(s) /\ \A y \in s : f[y] \in Int
  BY <1>2, FS_Subset
<1>7. SumFunctionOnSet(f, s) = f[x] + SumFunctionOnSet(f, s \ {x})
  BY <1>4, <1>6, SumWithout
<1> QED
  BY <1>2, <1>4, <1>5, <1>7

(* What disjoint sets hold is as much as they hold each. *)
LEMMA CardinalityOfUnion ==
  ASSUME NEW f, NEW S, IsFiniteSet(S), \A x \in S : IsFiniteSet(f[x]),
         \A x, y \in S : x # y => f[x] \cap f[y] = {},
         NEW g, \A x \in S : g[x] = Cardinality(f[x])
  PROVE  /\ IsFiniteSet(UNION {f[x] : x \in S})
         /\ Cardinality(UNION {f[x] : x \in S}) = SumFunctionOnSet(g, S)
<1> DEFINE All(s) == UNION {f[x] : x \in s}
           Good(s) == IsFiniteSet(All(s)) /\ Cardinality(All(s)) = SumFunctionOnSet(g, s)
           Bad == {s \in SUBSET S : ~Good(s)}
<1>1. ASSUME Bad # {} PROVE FALSE
  <2>1. PICK s \in Bad : \A t \in Bad : ~(t \subseteq s /\ t # s)
    <3>1. Bad \in SUBSET SUBSET S
      OBVIOUS
    <3> HIDE DEF Bad
    <3> QED
      BY <1>1, <3>1, LeastSubset
  <2>2. s \in SUBSET S /\ ~Good(s)
    BY <2>1
  <2>3. s # {}
    <3> SUFFICES ASSUME s = {} PROVE FALSE
      OBVIOUS
    <3>1. All(s) = {}
      OBVIOUS
    <3>2. IsFiniteSet({}) /\ Cardinality({}) = 0
      BY FS_EmptySet
    <3> HIDE DEF All
    <3> QED
      BY <2>2, <3>1, <3>2, SumOfNone
  <2>4. PICK x \in s : TRUE
    BY <2>3
  <2> DEFINE r == s \ {x}
  <2>5. Good(r)
    <3>1. r \in SUBSET S /\ r \subseteq s /\ r # s
      BY <2>2, <2>4
    <3> HIDE DEF r, Good
    <3> QED
      BY <2>1, <3>1
  <2>6. All(s) = All(r) \cup f[x] /\ All(r) \cap f[x] = {} /\ IsFiniteSet(f[x])
    BY <2>2, <2>4
  <2>7. IsFiniteSet(s) /\ \A y \in s : g[y] \in Int
    <3>1. \A y \in S : g[y] \in Nat
      BY FS_CardinalityType
    <3> QED
      BY <2>2, <3>1, FS_Subset
  <2>8. SumFunctionOnSet(g, s) = g[x] + SumFunctionOnSet(g, r) /\ g[x] = Cardinality(f[x])
    BY <2>2, <2>4, <2>7, SumWithout
  <2> HIDE DEF All, r
  <2>9. IsFiniteSet(All(r)) /\ Cardinality(All(r)) = SumFunctionOnSet(g, r)
    BY <2>5
  <2>10. /\ IsFiniteSet(All(s))
         /\ Cardinality(All(s)) = Cardinality(All(r)) + Cardinality(f[x]) - Cardinality(All(r) \cap f[x])
    <3> DEFINE A == All(r)
               B == f[x]
    <3>1. IsFiniteSet(A) /\ IsFiniteSet(B) /\ All(s) = A \cup B
      BY <2>6, <2>9
    <3> HIDE DEF A, B
    <3>2. IsFiniteSet(A \cup B) /\ Cardinality(A \cup B) = Cardinality(A) + Cardinality(B) - Cardinality(A \cap B)
      BY <3>1, FS_Union
    <3> QED
      BY <3>1, <3>2 DEF A, B
  <2>11. Cardinality(All(r) \cap f[x]) = 0 /\ Cardinality(All(r)) \in Nat /\ Cardinality(f[x]) \in Nat
    BY <2>6, <2>9, FS_EmptySet, FS_CardinalityType
  <2> QED
    BY <2>2, <2>8, <2>9, <2>10, <2>11
<1>2. Good(S)
  <2>1. S \in SUBSET S
    OBVIOUS
  <2> HIDE DEF Good
  <2> QED
    BY <1>1, <2>1
<1> QED
  BY <1>2

(* A sum of naturals is one, no less than each of them. *)
LEMMA SumOfNaturals ==
  ASSUME NEW f, NEW S, IsFiniteSet(S), \A x \in S : f[x] \in Nat
  PROVE  /\ SumFunctionOnSet(f, S) \in Nat
         /\ \A x \in S : f[x] <= SumFunctionOnSet(f, S)
<1> DEFINE Bad == {s \in SUBSET S : SumFunctionOnSet(f, s) \notin Nat}
<1>1. Bad = {}
  <2> SUFFICES ASSUME Bad # {} PROVE FALSE
    OBVIOUS
  <2>1. PICK s \in Bad : \A t \in Bad : ~(t \subseteq s /\ t # s)
    <3>1. Bad \in SUBSET SUBSET S
      OBVIOUS
    <3> HIDE DEF Bad
    <3> QED
      BY <3>1, LeastSubset
  <2>0. s # {}
    <3> SUFFICES ASSUME s = {} PROVE FALSE
      OBVIOUS
    <3>1. SumFunctionOnSet(f, s) = 0
      BY SumOfNone
    <3>2. SumFunctionOnSet(f, s) \notin Nat
      BY <2>1
    <3> QED
      BY <3>1, <3>2
  <2>2. PICK x \in s : TRUE
    BY <2>0
  <2>3. SumFunctionOnSet(f, s \ {x}) \in Nat
    BY <2>1, <2>2
  <2>4. SumFunctionOnSet(f, s) = f[x] + SumFunctionOnSet(f, s \ {x})
    BY <2>2, FS_Subset, SumWithout
  <2> QED
    BY <2>1, <2>2, <2>3, <2>4
<1>2. ASSUME NEW x \in S
      PROVE  f[x] <= SumFunctionOnSet(f, S)
  <2>1. SumFunctionOnSet(f, S) = f[x] + SumFunctionOnSet(f, S \ {x})
    BY SumWithout
  <2>2. SumFunctionOnSet(f, S \ {x}) \in Nat
    BY <1>1
  <2> QED
    BY <2>1, <2>2
<1> QED
  BY <1>1, <1>2

(* How a sum changes with the value at one element. *)
LEMMA SumChanges ==
  ASSUME NEW f, NEW g, NEW S, IsFiniteSet(S), \A x \in S : f[x] \in Int /\ g[x] \in Int,
         NEW x \in S, \A y \in S \ {x} : f[y] = g[y]
  PROVE  SumFunctionOnSet(g, S) = SumFunctionOnSet(f, S) + g[x] - f[x]
<1>1. IsFiniteSet(S \ {x})
  BY FS_RemoveElement
<1>2. SumFunctionOnSet(g, S \ {x}) = SumFunctionOnSet(f, S \ {x})
  BY <1>1, SumOfSame
<1>3. /\ SumFunctionOnSet(f, S) = f[x] + SumFunctionOnSet(f, S \ {x})
      /\ SumFunctionOnSet(g, S) = g[x] + SumFunctionOnSet(g, S \ {x})
  BY SumWithout
<1>4. SumFunctionOnSet(f, S \ {x}) \in Int
  BY <1>1, SumType
<1> QED
  BY <1>2, <1>3, <1>4

(* A sum along an injection, and a sum that goes beyond what counts. *)
LEMMA SumOfImage ==
  ASSUME NEW S, IsFiniteSet(S), NEW e, \A x, y \in S : e[x] = e[y] => x = y,
         NEW f, NEW g, \A x \in S : f[x] = g[e[x]] /\ f[x] \in Int
  PROVE  SumFunctionOnSet(f, S) = SumFunctionOnSet(g, {e[x] : x \in S})
<1> DEFINE I(s) == {e[x] : x \in s}
           Bad == {s \in SUBSET S : SumFunctionOnSet(f, s) # SumFunctionOnSet(g, I(s))}
<1> SUFFICES ASSUME Bad # {} PROVE FALSE
  OBVIOUS
<1>1. PICK s \in Bad : \A t \in Bad : ~(t \subseteq s /\ t # s)
  <2>1. Bad \in SUBSET SUBSET S
    OBVIOUS
  <2> HIDE DEF Bad
  <2> QED
    BY <2>1, LeastSubset
<1>2. s \in SUBSET S /\ SumFunctionOnSet(f, s) # SumFunctionOnSet(g, I(s))
  BY <1>1
<1>3. s # {}
  <2>1. I({}) = {}
    OBVIOUS
  <2> QED
    BY <1>2, <2>1, SumOfNone
<1>4. PICK x \in s : TRUE
  BY <1>3
<1>5. SumFunctionOnSet(f, s \ {x}) = SumFunctionOnSet(g, I(s \ {x}))
  BY <1>1, <1>2, <1>4
<1>6. IsFiniteSet(s) /\ \A y \in s : f[y] \in Int
  BY <1>2, FS_Subset
<1>7. SumFunctionOnSet(f, s) = f[x] + SumFunctionOnSet(f, s \ {x})
  BY <1>4, <1>6, SumWithout
<1>8. e[x] \in I(s) /\ I(s) \ {e[x]} = I(s \ {x})
  BY <1>2, <1>4
<1>9. IsFiniteSet(I(s)) /\ \A y \in I(s) : g[y] \in Int
  <2> DEFINE h == [y \in s |-> e[y]]
  <2>1. I(s) = {h[y] : y \in s} /\ DOMAIN h = s
    OBVIOUS
  <2> HIDE DEF h
  <2>2. IsFiniteSet({h[y] : y \in s})
    BY <1>6, <2>1, FiniteImage
  <2>3. \A y \in I(s) : g[y] \in Int
    BY <1>2
  <2> HIDE DEF I
  <2> QED
    BY <2>1, <2>2, <2>3
<1> HIDE DEF I
<1>10. SumFunctionOnSet(g, I(s)) = g[e[x]] + SumFunctionOnSet(g, I(s) \ {e[x]})
  BY <1>8, <1>9, SumWithout
<1> QED
  BY <1>2, <1>4, <1>5, <1>7, <1>8, <1>10

LEMMA SumBeyond ==
  ASSUME NEW T, IsFiniteSet(T), NEW g, \A x \in T : g[x] \in Int,
         NEW R \in SUBSET T, \A x \in T \ R : g[x] = 0
  PROVE  SumFunctionOnSet(g, T) = SumFunctionOnSet(g, R)
<1> DEFINE Bad == {t \in SUBSET T : R \subseteq t /\ SumFunctionOnSet(g, t) # SumFunctionOnSet(g, R)}
<1> SUFFICES ASSUME Bad # {} PROVE FALSE
  OBVIOUS
<1>1. PICK s \in Bad : \A t \in Bad : ~(t \subseteq s /\ t # s)
  <2>1. Bad \in SUBSET SUBSET T
    OBVIOUS
  <2> HIDE DEF Bad
  <2> QED
    BY <2>1, LeastSubset
<1>2. s \in SUBSET T /\ R \subseteq s /\ SumFunctionOnSet(g, s) # SumFunctionOnSet(g, R)
  BY <1>1
<1>3. PICK x \in s : x \notin R
  BY <1>2
<1>4. SumFunctionOnSet(g, s \ {x}) = SumFunctionOnSet(g, R)
  BY <1>1, <1>2, <1>3
<1>5. IsFiniteSet(s) /\ \A y \in s : g[y] \in Int
  BY <1>2, FS_Subset
<1>6. SumFunctionOnSet(g, s) = g[x] + SumFunctionOnSet(g, s \ {x})
  BY <1>5, SumWithout
<1>7. g[x] = 0 /\ SumFunctionOnSet(g, s \ {x}) \in Int
  BY <1>2, <1>3, <1>5, FS_Subset, SumType
<1> QED
  BY <1>2, <1>4, <1>6, <1>7

Along(f, S, e, g, T) ==
  /\ \A x, y \in S : e[x] = e[y] => x = y
  /\ \A x \in S : e[x] \in T /\ f[x] = g[e[x]]
  /\ \A y \in T : g[y] \in Int /\ ((\A x \in S : e[x] # y) => g[y] = 0)

LEMMA SumAlong ==
  ASSUME NEW T, IsFiniteSet(T), NEW S, IsFiniteSet(S), NEW f, NEW e, NEW g, Along(f, S, e, g, T)
  PROVE  SumFunctionOnSet(f, S) = SumFunctionOnSet(g, T)
<1> DEFINE R == {e[x] : x \in S}
<1>1. SumFunctionOnSet(f, S) = SumFunctionOnSet(g, R)
  <2>1. /\ \A x \in S : f[x] = g[e[x]] /\ f[x] \in Int
        /\ \A x, y \in S : e[x] = e[y] => x = y
    BY DEF Along
  <2> QED
    BY <2>1, SumOfImage
<1>2. R \in SUBSET T /\ (\A x \in T : g[x] \in Int) /\ \A x \in T \ R : g[x] = 0
  BY DEF Along
<1> HIDE DEF R
<1>3. SumFunctionOnSet(g, T) = SumFunctionOnSet(g, R)
  BY <1>2, SumBeyond
<1> QED
  BY <1>1, <1>3

LEMMA SumOfSums ==
  ASSUME NEW S, IsFiniteSet(S), NEW f, NEW g, NEW h,
         \A x \in S : f[x] \in Int /\ g[x] \in Int /\ h[x] = f[x] + g[x]
  PROVE  SumFunctionOnSet(h, S) = SumFunctionOnSet(f, S) + SumFunctionOnSet(g, S)
<1> DEFINE Bad == {s \in SUBSET S : SumFunctionOnSet(h, s) # SumFunctionOnSet(f, s) + SumFunctionOnSet(g, s)}
<1> SUFFICES ASSUME Bad # {} PROVE FALSE
  OBVIOUS
<1>1. PICK s \in Bad : \A t \in Bad : ~(t \subseteq s /\ t # s)
  <2>1. Bad \in SUBSET SUBSET S
    OBVIOUS
  <2> HIDE DEF Bad
  <2> QED
    BY <2>1, LeastSubset
<1>2. s \in SUBSET S /\ SumFunctionOnSet(h, s) # SumFunctionOnSet(f, s) + SumFunctionOnSet(g, s)
  BY <1>1
<1>3. s # {}
  BY <1>2, SumOfNone
<1>4. PICK x \in s : TRUE
  BY <1>3
<1> DEFINE r == s \ {x}
<1>5. SumFunctionOnSet(h, r) = SumFunctionOnSet(f, r) + SumFunctionOnSet(g, r)
  BY <1>1, <1>2, <1>4
<1>6. /\ IsFiniteSet(s) /\ IsFiniteSet(r) /\ r \in SUBSET s
      /\ \A y \in s : f[y] \in Int /\ g[y] \in Int /\ h[y] \in Int /\ h[y] = f[y] + g[y]
  BY <1>2, FS_Subset
<1>7. /\ SumFunctionOnSet(h, s) = h[x] + SumFunctionOnSet(h, r)
      /\ SumFunctionOnSet(f, s) = f[x] + SumFunctionOnSet(f, r)
      /\ SumFunctionOnSet(g, s) = g[x] + SumFunctionOnSet(g, r)
  BY <1>4, <1>6, SumWithout
<1>8. SumFunctionOnSet(f, r) \in Int /\ SumFunctionOnSet(g, r) \in Int
  <2>1. \A y \in r : f[y] \in Int /\ g[y] \in Int
    BY <1>6
  <2> HIDE DEF r
  <2> QED
    BY <1>6, <2>1, SumType
<1> HIDE DEF r
<1>9. h[x] = f[x] + g[x] /\ f[x] \in Int /\ g[x] \in Int
  BY <1>4, <1>6
<1> QED
  BY <1>2, <1>5, <1>7, <1>8, <1>9

NothingInCommon(P, Q) == P \cap Q = {}

LEMMA SumOfUnion ==
  ASSUME NEW S, IsFiniteSet(S), NEW T, IsFiniteSet(T), NothingInCommon(S, T),
         NEW f, \A x \in S \cup T : f[x] \in Int
  PROVE  SumFunctionOnSet(f, S \cup T) = SumFunctionOnSet(f, S) + SumFunctionOnSet(f, T)
<1> DEFINE U == S \cup T
           g == [x \in U |-> IF x \in S THEN f[x] ELSE 0]
           h == [x \in U |-> IF x \in S THEN 0 ELSE f[x]]
<1>1. IsFiniteSet(U) /\ S \in SUBSET U /\ T \in SUBSET U
  BY FS_Union
<1>2. /\ \A x \in U : f[x] \in Int /\ g[x] \in Int /\ h[x] \in Int /\ f[x] = g[x] + h[x]
      /\ \A x \in S : g[x] = f[x]
      /\ \A x \in U \ S : g[x] = 0
      /\ \A x \in T : h[x] = f[x]
      /\ \A x \in U \ T : h[x] = 0
  BY DEF NothingInCommon
<1> HIDE DEF U, g, h
<1>3. SumFunctionOnSet(f, U) = SumFunctionOnSet(g, U) + SumFunctionOnSet(h, U)
  BY <1>1, <1>2, SumOfSums
<1>4. SumFunctionOnSet(g, U) = SumFunctionOnSet(g, S)
  BY <1>1, <1>2, SumBeyond
<1>5. SumFunctionOnSet(h, U) = SumFunctionOnSet(h, T)
  BY <1>1, <1>2, SumBeyond
<1>6. SumFunctionOnSet(g, S) = SumFunctionOnSet(f, S)
  BY <1>2, SumOfSame
<1>7. SumFunctionOnSet(h, T) = SumFunctionOnSet(f, T)
  BY <1>2, SumOfSame
<1> QED
  BY <1>3, <1>4, <1>5, <1>6, <1>7 DEF U
=============================================================================
