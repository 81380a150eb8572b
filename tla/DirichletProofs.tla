---------------------------- MODULE DirichletProofs ----------------------------
(***************************************************************************)
(* Proofs about the counts of a distribution and the tracker that follows  *)
(* them: a store is one count per address, and sums that are kept up to    *)
(* date bucket by bucket are those of all the evidence at once.            *)
(***************************************************************************)
EXTENDS DirichletTracker, DataLemmas, SequenceTheorems

-----------------------------------------------------------------------------
(* A store: sorted addresses, values in step, and no table.                *)
Sorted(ix) == ix \in Seq(Loc) /\ \A i, j \in 1..Len(ix) : i < j => ix[i] < ix[j]

IsStore(s, V) ==
  /\ s = [indexes |-> s.indexes, hashed |-> NoTable, values |-> s.values, total |-> s.total]
  /\ Sorted(s.indexes) /\ s.values \in Seq(V) /\ Len(s.values) = Len(s.indexes)

LEMMA PrefixBelow ==
  ASSUME NEW n \in Nat, NEW S \in SUBSET (1..n), \A i \in 1..n, j \in S : i < j => i \in S
  PROVE  /\ Cardinality(S) \in 0..n
         /\ \A i \in 1..n : i \in S <=> i <= Cardinality(S)
<1>1. CASE S = {}
  BY <1>1, FS_EmptySet
<1>2. CASE S # {}
  <2> DEFINE m == Max(S)
  <2>1. IsFiniteSet(1..n) /\ S \in SUBSET Int
    BY FS_Interval
  <2>2. IsFiniteSet(S)
    BY <2>1, FS_Subset
  <2>3. m \in S /\ \A i \in S : m >= i
    BY <1>2, <2>1, <2>2, MaxOfIntegers
  <2> HIDE DEF m
  <2>4. m \in 1..n /\ \A i \in S : i <= m
    BY <2>3
  <2>5. ASSUME NEW i \in 1..n, i <= m PROVE i \in S
    BY <2>3, <2>5
  <2>6. S = 1..m
    <3>1. \A i \in S : i \in 1..m
      BY <2>4
    <3>2. \A i \in 1..m : i \in S
      BY <2>4, <2>5
    <3> QED
      BY <3>1, <3>2
  <2>7. Cardinality(1..m) = m
    BY <2>4, FS_Interval
  <2> QED
    BY <2>4, <2>6, <2>7
<1> QED
  BY <1>1, <1>2

(* A search finds the place of an address, or where it would go. *)
LEMMA SearchFinds ==
  ASSUME NEW V, NEW s, IsStore(s, V), NEW loc \in Loc
  PROVE  LET n == Len(s.indexes)
             at == SearchedAt(s, loc)
         IN /\ n \in Nat /\ DOMAIN s.indexes = 1..n /\ DOMAIN s.values = 1..n
            /\ at \in 1..(n + 1)
            /\ \A i \in 1..n : s.indexes[i] \in Loc /\ s.values[i] \in V
            /\ \A i \in 1..n : s.indexes[i] < loc <=> i < at
            /\ \A i \in 1..n : s.indexes[i] = loc => i = at
            /\ Holds(s, loc) <=> at <= n /\ s.indexes[at] = loc
<1> DEFINE n == Len(s.indexes)
           S == {j \in DOMAIN s.indexes : s.indexes[j] < loc}
           at == SearchedAt(s, loc)
<1>1. /\ n \in Nat /\ DOMAIN s.indexes = 1..n /\ DOMAIN s.values = 1..n
      /\ \A i \in 1..n : s.indexes[i] \in Loc /\ s.values[i] \in V
  BY DEF IsStore, Sorted
<1>2. \A i, j \in 1..n : i < j => s.indexes[i] < s.indexes[j]
  BY DEF IsStore, Sorted
<1>3. Loc \subseteq Nat
  BY StoreAssumption
<1>4. S \in SUBSET (1..n) /\ \A i \in 1..n, j \in S : i < j => i \in S
  <2>1. S \in SUBSET (1..n)
    BY <1>1
  <2>2. ASSUME NEW i \in 1..n, NEW j \in S, i < j PROVE i \in S
    <3>1. j \in 1..n /\ s.indexes[j] < loc
      BY <1>1
    <3>2. s.indexes[i] < s.indexes[j]
      BY <1>2, <2>2, <3>1
    <3>3. s.indexes[i] \in Nat /\ s.indexes[j] \in Nat /\ loc \in Nat
      BY <1>1, <1>3, <3>1
    <3> QED
      BY <1>1, <3>1, <3>2, <3>3
  <2> QED
    BY <2>1, <2>2
<1>5. /\ Cardinality(S) \in 0..n
      /\ \A i \in 1..n : i \in S <=> i <= Cardinality(S)
  <2> HIDE DEF S, n
  <2> QED
    BY <1>1, <1>4, PrefixBelow
<1>6. at = Cardinality(S) + 1
  BY DEF SearchedAt
<1>7. \A i \in 1..n : i \in S <=> s.indexes[i] < loc
  BY <1>1
<1> HIDE DEF S, n, at
<1>8. /\ at \in 1..(n + 1)
      /\ \A i \in 1..n : s.indexes[i] < loc <=> i < at
  BY <1>1, <1>5, <1>6, <1>7
<1>9. ASSUME NEW i \in 1..n, s.indexes[i] = loc PROVE i = at
  <2>1. ~(i < at)
    BY <1>3, <1>8, <1>9
  <2>2. CASE at < i
    <3>1. at \in 1..n
      BY <1>1, <1>8, <2>2
    <3>2. s.indexes[at] < s.indexes[i]
      BY <1>2, <2>2, <3>1 DEF n
    <3> QED
      BY <1>8, <1>9, <3>1, <3>2
  <2> QED
    BY <1>8, <2>1, <2>2
<1>10. Holds(s, loc) <=> \E i \in 1..n : s.indexes[i] = loc
  BY DEF Holds, Contains, n
<1>11. Holds(s, loc) <=> at <= n /\ s.indexes[at] = loc
  BY <1>8, <1>9, <1>10
<1> QED
  BY <1>1, <1>8, <1>9, <1>11 DEF n, at

LEMMA IndexIs ==
  ASSUME NEW V, NEW s, IsStore(s, V), NEW loc \in Loc
  PROVE  /\ Index(s, loc) = IF Holds(s, loc) THEN SearchedAt(s, loc) ELSE 0
         /\ IndexToUpdate(s, loc) = Index(s, loc)
         /\ Holds(s, loc) => Index(s, loc) # 0
<1>1. s.hashed = NoTable
  BY DEF IsStore
<1>2. SearchedAt(s, loc) \in 1..(Len(s.indexes) + 1) /\ Len(s.indexes) \in Nat
  BY SearchFinds
<1> QED
  BY <1>1, <1>2 DEF Index, IndexToUpdate

CountAt(s, loc) == Get(s, loc, 0)

LEMMA GetIs ==
  ASSUME NEW V, NEW s, IsStore(s, V), NEW loc \in Loc
  PROVE  /\ CountAt(s, loc) = IF Holds(s, loc) THEN s.values[SearchedAt(s, loc)] ELSE 0
         /\ Holds(s, loc) => CountAt(s, loc) = ValueOf(s, loc) /\ ValueOf(s, loc) \in V

<1>1. Holds(s, loc) => SearchedAt(s, loc) \in 1..Len(s.indexes)
  BY SearchFinds
<1>2. \A i \in 1..Len(s.indexes) : s.values[i] \in V
  BY SearchFinds
<1> QED
  BY <1>1, <1>2, IndexIs DEF CountAt, Get, ValueOf

-----------------------------------------------------------------------------
(* Changing the value at an address, and putting in an address.            *)
Same(s, t, loc) ==
  \A l \in Loc : l # loc => /\ Holds(t, l) <=> Holds(s, l)
                            /\ CountAt(t, l) = CountAt(s, l)
                            /\ Holds(s, l) => ValueOf(t, l) = ValueOf(s, l)

SetTo(s, t, loc, v, total, V) ==
  /\ IsStore(t, V) /\ Holds(t, loc) /\ ValueOf(t, loc) = v /\ CountAt(t, loc) = v
  /\ t.total = total /\ Same(s, t, loc)

LEMMA ChangeKeeps ==
  ASSUME NEW V, NEW s, IsStore(s, V), NEW loc \in Loc, Holds(s, loc), NEW v \in V, NEW total,
         NEW t, t = [indexes |-> s.indexes, hashed |-> NoTable,
                     values |-> [s.values EXCEPT ![Index(s, loc)] = v], total |-> total]
  PROVE  SetTo(s, t, loc, v, total, V)
<1> DEFINE n == Len(s.indexes)
           k == Index(s, loc)
<1>1. k = SearchedAt(s, loc) /\ k \in 1..n /\ n \in Nat
  BY IndexIs, SearchFinds
<1>2. s.values \in [1..n -> V] /\ Len(s.values) = n
  BY DEF IsStore
<1> DEFINE vs == [s.values EXCEPT ![k] = v]
<1>3. vs \in [1..n -> V] /\ vs[k] = v /\ \A i \in 1..n : i # k => vs[i] = s.values[i]
  BY <1>1, <1>2
<1>4. vs \in Seq(V) /\ Len(vs) = n
  <2> HIDE DEF vs, n, k
  <2> QED
    BY <1>1, <1>3
<1>5. t.indexes = s.indexes /\ t.hashed = NoTable /\ t.values = vs /\ t.total = total
  OBVIOUS
<1> HIDE DEF vs
<1>6. IsStore(t, V)
  BY <1>4, <1>5 DEF IsStore
<1>7. \A l \in Loc : SearchedAt(t, l) = SearchedAt(s, l) /\ (Holds(t, l) <=> Holds(s, l))
  BY <1>5 DEF SearchedAt, Holds
<1> HIDE DEF n, k
<1>8. Holds(t, loc) /\ ValueOf(t, loc) = v /\ CountAt(t, loc) = v
  <2>1. CountAt(t, loc) = vs[k]
    BY <1>1, <1>5, <1>6, <1>7, GetIs
  <2> QED
    BY <1>3, <1>6, <1>7, <2>1, GetIs
<1>9. ASSUME NEW l \in Loc, l # loc
      PROVE  /\ Holds(t, l) <=> Holds(s, l)
             /\ CountAt(t, l) = CountAt(s, l)
             /\ Holds(s, l) => ValueOf(t, l) = ValueOf(s, l)
  <2>1. CASE Holds(s, l)
    <3>1. SearchedAt(s, l) \in 1..n /\ s.indexes[SearchedAt(s, l)] = l /\ s.indexes[k] = loc
      BY <1>1, <2>1, SearchFinds DEF n
    <3>2. SearchedAt(s, l) # k
      BY <1>9, <3>1
    <3>3. CountAt(t, l) = vs[SearchedAt(s, l)] /\ CountAt(s, l) = s.values[SearchedAt(s, l)]
      BY <1>5, <1>6, <1>7, <2>1, GetIs
    <3>4. CountAt(t, l) = CountAt(s, l)
      BY <1>3, <3>1, <3>2, <3>3
    <3> QED
      BY <1>6, <1>7, <2>1, <3>4, GetIs
  <2>2. CASE ~Holds(s, l)
    BY <1>6, <1>7, <2>2, GetIs
  <2> QED
    BY <2>1, <2>2
<1>10. Same(s, t, loc)
  BY <1>9 DEF Same
<1> QED
  BY <1>5, <1>6, <1>8, <1>10 DEF SetTo
Longer(r, q, at, x, A) ==
  /\ r \in Seq(A) /\ Len(r) = Len(q) + 1
  /\ \A i \in 1..(Len(q) + 1) : r[i] = IF i < at THEN q[i] ELSE IF i = at THEN x ELSE q[i - 1]

LEMMA InsertIs ==
  ASSUME NEW A, NEW q \in Seq(A), NEW at \in 1..(Len(q) + 1), NEW x \in A
  PROVE  Longer(InsertAt(q, at, x), q, at, x, A)
<1> DEFINE a == SubSeq(q, 1, at - 1)
           b == SubSeq(q, at, Len(q))
           n == Len(q)
<1>1. n \in Nat /\ \A i \in 1..n : q[i] \in A
  OBVIOUS
<1>2. a \in Seq(A) /\ Len(a) = at - 1 /\ \A i \in 1..(at - 1) : a[i] = q[i]
  <2>1. \A i \in 1..(at - 1) : q[i] \in A
    BY <1>1
  <2> QED
    BY <1>1, <2>1
<1>3. b \in Seq(A) /\ Len(b) = n - at + 1 /\ \A i \in 1..(n - at + 1) : b[i] = q[at + i - 1]
  <2>1. \A i \in at..n : q[i] \in A
    BY <1>1
  <2> QED
    BY <1>1, <2>1
<1>4. InsertAt(q, at, x) = a \o <<x>> \o b
  BY DEF InsertAt
<1> HIDE DEF a, b, n
<1>5. /\ a \o <<x>> \in Seq(A) /\ Len(a \o <<x>>) = at
      /\ \A i \in 1..at : (a \o <<x>>)[i] = IF i < at THEN q[i] ELSE x
  BY <1>1, <1>2 DEF n
<1> DEFINE c == a \o <<x>>
<1>6. c \o b \in Seq(A) /\ Len(c \o b) = n + 1
      /\ \A i \in 1..(n + 1) : (c \o b)[i] = IF i <= at THEN c[i] ELSE b[i - at]
  <2> HIDE DEF c
  <2> QED
    BY <1>1, <1>3, <1>5 DEF c, n
<1> HIDE DEF c
<1>7. ASSUME NEW i \in 1..(n + 1)
      PROVE  (c \o b)[i] = IF i < at THEN q[i] ELSE IF i = at THEN x ELSE q[i - 1]
  <2>1. CASE i <= at
    BY <1>1, <1>5, <1>6, <2>1 DEF c
  <2>2. CASE i > at
    <3>1. i - at \in 1..(n - at + 1) /\ at + (i - at) - 1 = i - 1
      BY <1>1, <2>2 DEF n
    <3>2. b[i - at] = q[i - 1]
      BY <1>3, <3>1
    <3> QED
      BY <1>1, <1>6, <2>2, <3>2 DEF n
  <2>3. i <= at \/ i > at
    BY <1>1 DEF n
  <2> QED
    BY <2>1, <2>2, <2>3
<1> QED
  BY <1>4, <1>6, <1>7 DEF c, n, Longer

LEMMA InsertKeeps ==
  ASSUME NEW V, NEW s, IsStore(s, V), NEW loc \in Loc, ~Holds(s, loc), NEW v \in V
  PROVE  SetTo(s, InsertLoc(s, loc, v), loc, v, s.total, V)
<1> DEFINE n == Len(s.indexes)
           at == SearchedAt(s, loc)
           t == InsertLoc(s, loc, v)
           ix == InsertAt(s.indexes, at, loc)
           vs == InsertAt(s.values, at, v)
<1>1. /\ n \in Nat /\ at \in 1..(n + 1) /\ s.indexes \in Seq(Loc)
      /\ s.values \in Seq(V) /\ Len(s.values) = n
      /\ \A i \in 1..n : s.indexes[i] \in Nat
      /\ \A i \in 1..n : s.indexes[i] < loc <=> i < at
      /\ \A i, j \in 1..n : i < j => s.indexes[i] < s.indexes[j]
      /\ loc \in Nat
  <2>1. Loc \subseteq Nat
    BY StoreAssumption
  <2>2. /\ s.indexes \in Seq(Loc) /\ s.values \in Seq(V) /\ Len(s.values) = n
        /\ \A i, j \in 1..n : i < j => s.indexes[i] < s.indexes[j]
    BY DEF IsStore, Sorted
  <2> QED
    BY <2>1, <2>2, SearchFinds
<1>2. \A i \in 1..n : s.indexes[i] # loc
  BY DEF Holds, Contains
<1>3. s = [indexes |-> s.indexes, hashed |-> NoTable, values |-> s.values, total |-> s.total]
  BY DEF IsStore
<1>4. t = [indexes |-> ix, hashed |-> NoTable, values |-> vs, total |-> s.total]
  <2> DEFINE h == IF s.hashed # NoTable THEN (loc :> at) @@ s.hashed
                  ELSE IF Len(ix) > HashLimit THEN EnableHashmap(ix) ELSE NoTable
  <2>1. t = [s EXCEPT !.indexes = ix, !.values = vs, !.hashed = h]
    BY DEF InsertLoc
  <2>2. s.hashed = NoTable
    BY DEF IsStore
  <2>3. h = NoTable
    BY <2>2 DEF EnableHashmap
  <2> HIDE DEF h, ix, vs, t
  <2> QED
    BY <1>3, <2>1, <2>3
<1> HIDE DEF t, at, n
<1>5. /\ ix \in Seq(Loc) /\ Len(ix) = n + 1
      /\ \A i \in 1..(n + 1) :
           ix[i] = IF i < at THEN s.indexes[i] ELSE IF i = at THEN loc ELSE s.indexes[i - 1]
  <2>1. s.indexes \in Seq(Loc) /\ at \in 1..(Len(s.indexes) + 1)
    BY <1>1 DEF n
  <2>2. Longer(ix, s.indexes, at, loc, Loc)
    BY <2>1, InsertIs
  <2> QED
    BY <2>2 DEF n, Longer
<1>6. /\ vs \in Seq(V) /\ Len(vs) = n + 1
      /\ \A i \in 1..(n + 1) :
           vs[i] = IF i < at THEN s.values[i] ELSE IF i = at THEN v ELSE s.values[i - 1]
  <2>1. s.values \in Seq(V) /\ at \in 1..(Len(s.values) + 1) /\ Len(s.values) = n
    BY <1>1
  <2>2. Longer(vs, s.values, at, v, V)
    BY <2>1, InsertIs
  <2> QED
    BY <2>1, <2>2 DEF Longer
<1> HIDE DEF ix, vs
<1>7. Sorted(ix)
  <2> SUFFICES ASSUME NEW i \in 1..(n + 1), NEW j \in 1..(n + 1), i < j PROVE ix[i] < ix[j]
    BY <1>5 DEF Sorted
  <2>1. CASE j < at
    <3>1. i \in 1..n /\ j \in 1..n /\ i < at
      BY <1>1, <2>1
    <3>2. s.indexes[i] < s.indexes[j]
      BY <1>1, <3>1
    <3>3. ix[i] = s.indexes[i] /\ ix[j] = s.indexes[j]
      BY <1>5, <2>1, <3>1
    <3> QED
      BY <3>2, <3>3
  <2>2. CASE i < at /\ j = at
    <3>1. i \in 1..n /\ s.indexes[i] < loc
      BY <1>1, <2>2
    <3>2. ix[i] = s.indexes[i]
      BY <1>5, <2>2
    <3>3. ix[j] = loc
      BY <1>1, <1>5, <2>2
    <3> QED
      BY <3>1, <3>2, <3>3
  <2>3. CASE i < at /\ j > at
    <3>1. i \in 1..n /\ j - 1 \in 1..n /\ i < j - 1
      BY <1>1, <2>3
    <3>2. s.indexes[i] < s.indexes[j - 1]
      BY <1>1, <3>1
    <3>3. ix[i] = s.indexes[i] /\ ix[j] = s.indexes[j - 1]
      BY <1>1, <1>5, <2>3, <3>1
    <3> QED
      BY <3>2, <3>3
  <2>4. CASE i = at
    <3>1. j - 1 \in 1..n /\ ~(j - 1 < at) /\ j > at
      BY <1>1, <2>4
    <3>2. ~(s.indexes[j - 1] < loc) /\ s.indexes[j - 1] # loc /\ s.indexes[j - 1] \in Nat
      BY <1>1, <1>2, <3>1
    <3>3. loc < s.indexes[j - 1]
      BY <1>1, <3>2
    <3>4. ix[i] = loc /\ ix[j] = s.indexes[j - 1]
      BY <1>1, <1>5, <2>4, <3>1
    <3> QED
      BY <3>3, <3>4
  <2>5. CASE i > at
    <3>1. i - 1 \in 1..n /\ j - 1 \in 1..n /\ i - 1 < j - 1 /\ j > at
      BY <1>1, <2>5
    <3>2. s.indexes[i - 1] < s.indexes[j - 1]
      BY <1>1, <3>1
    <3>3. ix[i] = s.indexes[i - 1] /\ ix[j] = s.indexes[j - 1]
      BY <1>1, <1>5, <2>5, <3>1
    <3> QED
      BY <3>2, <3>3
  <2> QED
    BY <1>1, <2>1, <2>2, <2>3, <2>4, <2>5
<1>8. t.indexes = ix /\ t.values = vs /\ t.total = s.total
      /\ t = [indexes |-> t.indexes, hashed |-> NoTable, values |-> t.values, total |-> t.total]
  BY <1>4
<1>9. IsStore(t, V)
  BY <1>5, <1>6, <1>7, <1>8 DEF IsStore
<1>10. at \in 1..(n + 1) /\ ix[at] = loc /\ vs[at] = v
  <2>1. at \in 1..(n + 1) /\ ~(at < at)
    BY <1>1
  <2> QED
    BY <1>5, <1>6, <2>1
<1>11. Holds(t, loc) /\ SearchedAt(t, loc) = at
  <2>1. Holds(t, loc)
    BY <1>5, <1>8, <1>10 DEF Holds, Contains
  <2> QED
    BY <1>5, <1>8, <1>9, <1>10, <2>1, SearchFinds
<1>12. ValueOf(t, loc) = v /\ CountAt(t, loc) = v
  BY <1>8, <1>9, <1>10, <1>11, GetIs
<1>13. ASSUME NEW l \in Loc, l # loc, NEW i \in 1..n, s.indexes[i] = l
       PROVE  Holds(t, l) /\ Holds(s, l) /\ CountAt(t, l) = s.values[i] /\ CountAt(s, l) = s.values[i]
  <2> DEFINE j == IF i < at THEN i ELSE i + 1
  <2>1. j \in 1..(n + 1) /\ ix[j] = l /\ vs[j] = s.values[i]
    <3>1. CASE i < at
      BY <1>1, <1>5, <1>6, <1>13, <3>1
    <3>2. CASE ~(i < at)
      <4>1. i + 1 \in 1..(n + 1) /\ ~(i + 1 < at) /\ i + 1 # at /\ (i + 1) - 1 = i
        BY <1>1, <3>2
      <4> QED
        BY <1>5, <1>6, <1>13, <3>2, <4>1
    <3> QED
      BY <3>1, <3>2
  <2> HIDE DEF j
  <2>2. Holds(t, l) /\ SearchedAt(t, l) = j
    <3>1. Holds(t, l)
      BY <1>5, <1>8, <2>1 DEF Holds, Contains
    <3> QED
      BY <1>5, <1>8, <1>9, <2>1, <3>1, SearchFinds
  <2>3. Holds(s, l) /\ SearchedAt(s, l) = i
    <3>1. Holds(s, l)
      BY <1>13 DEF Holds, Contains, n
    <3> QED
      BY <1>13, <3>1, SearchFinds DEF n
  <2> QED
    BY <1>8, <1>9, <2>1, <2>2, <2>3, GetIs
<1>14. ASSUME NEW l \in Loc, l # loc, Holds(t, l) PROVE \E i \in 1..n : s.indexes[i] = l
  <2>1. PICK j \in 1..(n + 1) : ix[j] = l
    BY <1>5, <1>8, <1>14 DEF Holds, Contains
  <2>2. j # at
    BY <1>10, <1>14, <2>1
  <2>3. CASE j < at
    <3>1. j \in 1..n /\ s.indexes[j] = l
      BY <1>1, <1>5, <2>1, <2>3
    <3> QED
      BY <3>1
  <2>4. CASE j > at
    <3>1. j - 1 \in 1..n /\ s.indexes[j - 1] = l
      BY <1>1, <1>5, <2>1, <2>4
    <3> QED
      BY <3>1
  <2> QED
    BY <1>1, <2>2, <2>3, <2>4
<1>15. ASSUME NEW l \in Loc, l # loc
       PROVE  /\ Holds(t, l) <=> Holds(s, l)
              /\ CountAt(t, l) = CountAt(s, l)
              /\ Holds(s, l) => ValueOf(t, l) = ValueOf(s, l)
  <2>1. CASE Holds(t, l) \/ Holds(s, l)
    <3>1. PICK i \in 1..n : s.indexes[i] = l
      BY <1>14, <1>15, <2>1 DEF Holds, Contains, n
    <3>2. Holds(t, l) /\ Holds(s, l) /\ CountAt(t, l) = CountAt(s, l)
      BY <1>13, <1>15, <3>1
    <3>3. ValueOf(t, l) = CountAt(t, l) /\ ValueOf(s, l) = CountAt(s, l)
      BY <1>9, <3>2, GetIs
    <3> QED
      BY <3>2, <3>3
  <2>2. CASE ~Holds(t, l) /\ ~Holds(s, l)
    BY <1>9, <2>2, GetIs
  <2> QED
    BY <2>1, <2>2
<1> QED
  BY <1>8, <1>9, <1>11, <1>12, <1>15 DEF SetTo, Same, t

LEMMA NewIsStore ==
  ASSUME NEW V
  PROVE  IsStore(NewParams, V) /\ NewParams.total = 0
         /\ \A l \in Loc : ~Holds(NewParams, l) /\ CountAt(NewParams, l) = 0
<1>1. IsStore(NewParams, V) /\ NewParams.total = 0
  BY DEF IsStore, Sorted, NewParams
<1>2. \A l \in Loc : ~Holds(NewParams, l)
  BY DEF Holds, Contains, NewParams
<1> QED
  BY <1>1, <1>2, GetIs
LEMMA OtherTotal ==
  ASSUME NEW V, NEW s, IsStore(s, V), NEW x, NEW t, t = [s EXCEPT !.total = x]
  PROVE  /\ IsStore(t, V) /\ t.total = x /\ t.indexes = s.indexes /\ t.values = s.values
         /\ \A l \in Loc : /\ Holds(t, l) <=> Holds(s, l)
                           /\ CountAt(t, l) = CountAt(s, l) /\ Index(t, l) = Index(s, l)
                           /\ ValueOf(t, l) = ValueOf(s, l)
<1>1. t = [indexes |-> s.indexes, hashed |-> NoTable, values |-> s.values, total |-> x]
  <2>1. s = [indexes |-> s.indexes, hashed |-> NoTable, values |-> s.values, total |-> s.total]
    BY DEF IsStore
  <2> QED
    BY <2>1
<1>2. t.indexes = s.indexes /\ t.values = s.values /\ t.total = x /\ t.hashed = NoTable
  BY <1>1
<1>3. IsStore(t, V)
  BY <1>1, <1>2 DEF IsStore
<1>4. \A l \in Loc : Index(t, l) = Index(s, l) /\ (Holds(t, l) <=> Holds(s, l))
  <2>1. s.hashed = NoTable
    BY DEF IsStore
  <2> QED
    BY <1>2, <2>1 DEF Index, Holds, SearchedAt
<1> QED
  BY <1>2, <1>3, <1>4 DEF CountAt, Get, ValueOf

LEMMA SetToOtherTotal ==
  ASSUME NEW V, NEW s, NEW t, NEW loc \in Loc, NEW v, NEW total, SetTo(s, t, loc, v, total, V), NEW x
  PROVE  SetTo(s, [t EXCEPT !.total = x], loc, v, x, V)
<1> DEFINE u == [t EXCEPT !.total = x]
<1>1. IsStore(t, V) /\ u = [t EXCEPT !.total = x]
  BY DEF SetTo
<1> HIDE DEF u
<1>2. /\ IsStore(u, V) /\ u.total = x
      /\ \A l \in Loc : /\ Holds(u, l) <=> Holds(t, l)
                        /\ CountAt(u, l) = CountAt(t, l) /\ ValueOf(u, l) = ValueOf(t, l)
  BY <1>1, OtherTotal
<1>3. Holds(t, loc) /\ ValueOf(t, loc) = v /\ CountAt(t, loc) = v /\ Same(s, t, loc)
  BY DEF SetTo
<1>4. Same(s, u, loc)
  BY <1>2, <1>3 DEF Same
<1>5. Holds(u, loc) /\ ValueOf(u, loc) = v /\ CountAt(u, loc) = v
  BY <1>2, <1>3
<1>6. SetTo(s, u, loc, v, x, V)
  BY <1>2, <1>4, <1>5 DEF SetTo
<1> QED
  BY <1>6 DEF u

-----------------------------------------------------------------------------
(* The counts of a store, and their sum.                                   *)
Counts(s) == [l \in Loc |-> CountAt(s, l)]
CountStore(s) == IsStore(s, Nat) /\ s.total = SumFunctionOnSet(Counts(s), Loc)

LEMMA CountsType ==
  ASSUME NEW s, IsStore(s, Nat)
  PROVE  /\ Counts(s) \in [Loc -> Nat] /\ IsFiniteSet(Loc)
         /\ SumFunctionOnSet(Counts(s), Loc) \in Nat
         /\ \A l \in Loc : CountAt(s, l) \in Nat /\ CountAt(s, l) <= SumFunctionOnSet(Counts(s), Loc)
<1>1. \A l \in Loc : CountAt(s, l) \in Nat
  BY GetIs
<1>2. Counts(s) \in [Loc -> Nat] /\ IsFiniteSet(Loc) /\ \A l \in Loc : Counts(s)[l] = CountAt(s, l)
  BY <1>1, StoreAssumption DEF Counts
<1> HIDE DEF Counts
<1> QED
  BY <1>1, <1>2, SumOfNaturals

LEMMA SetToCounts ==
  ASSUME NEW s, NEW t, IsStore(s, Nat), NEW loc \in Loc, NEW v \in Nat, NEW total,
         SetTo(s, t, loc, v, total, Nat)
  PROVE  /\ Counts(t) = [Counts(s) EXCEPT ![loc] = v]
         /\ SumFunctionOnSet(Counts(t), Loc) = SumFunctionOnSet(Counts(s), Loc) + v - CountAt(s, loc)
<1>1. IsStore(t, Nat) /\ CountAt(t, loc) = v /\ \A l \in Loc : l # loc => CountAt(t, l) = CountAt(s, l)
  BY DEF SetTo, Same
<1>2. Counts(t) = [Counts(s) EXCEPT ![loc] = v]
  BY <1>1 DEF Counts
<1>3. /\ Counts(s) \in [Loc -> Nat] /\ Counts(t) \in [Loc -> Nat] /\ IsFiniteSet(Loc)
      /\ Counts(s)[loc] = CountAt(s, loc) /\ Counts(t)[loc] = v
      /\ \A l \in Loc \ {loc} : Counts(s)[l] = Counts(t)[l]
  BY <1>1, CountsType DEF Counts
<1> HIDE DEF Counts
<1>4. SumFunctionOnSet(Counts(t), Loc) = SumFunctionOnSet(Counts(s), Loc) + Counts(t)[loc] - Counts(s)[loc]
  BY <1>3, SumChanges
<1> QED
  BY <1>2, <1>3, <1>4

StoreRecord(a, b, c, d) == [indexes |-> a, hashed |-> b, values |-> c, total |-> d]
WithValues(s, vs, x) == [s EXCEPT !.values = vs, !.total = x]

LEMMA RecordChange ==
  ASSUME NEW a, NEW b, NEW c, NEW d, NEW w, NEW x
  PROVE  WithValues(StoreRecord(a, b, c, d), w, x) = StoreRecord(a, b, w, x)
<1> DEFINE s == [indexes |-> a, hashed |-> b, values |-> c, total |-> d]
           u == [s EXCEPT !.values = w]
<1>1. u = [indexes |-> a, hashed |-> b, values |-> w, total |-> d]
  OBVIOUS
<1>2. WithValues(StoreRecord(a, b, c, d), w, x) = [u EXCEPT !.total = x]
  BY DEF WithValues, StoreRecord
<1> HIDE DEF u
<1>3. [u EXCEPT !.total = x] = [indexes |-> a, hashed |-> b, values |-> w, total |-> x]
  BY <1>1
<1> QED
  BY <1>2, <1>3 DEF StoreRecord

LEMMA ValuesChange ==
  ASSUME NEW V, NEW s, IsStore(s, V), NEW k, NEW v, NEW total,
         NEW t, t = [s EXCEPT !.values[k] = v, !.total = total]
  PROVE  t = [indexes |-> s.indexes, hashed |-> NoTable, values |-> [s.values EXCEPT ![k] = v],
              total |-> total]
<1>1. s = StoreRecord(s.indexes, NoTable, s.values, s.total)
  BY DEF IsStore, StoreRecord
<1>2. t = WithValues(s, [s.values EXCEPT ![k] = v], total)
  BY DEF WithValues
<1>3. t = StoreRecord(s.indexes, NoTable, [s.values EXCEPT ![k] = v], total)
  BY <1>1, <1>2, RecordChange
<1> QED
  BY <1>3 DEF StoreRecord

ChangedAt(s, k, v, x) == [s EXCEPT !.values[k] = v, !.total = x]

LEMMA ChangedIs ==
  ASSUME NEW s, IsStore(s, Nat), NEW loc \in Loc, Holds(s, loc), NEW v \in Nat, NEW total
  PROVE  SetTo(s, ChangedAt(s, Index(s, loc), v, total), loc, v, total, Nat)
<1> DEFINE k == Index(s, loc)
           u == [indexes |-> s.indexes, hashed |-> NoTable, values |-> [s.values EXCEPT ![k] = v],
                 total |-> total]
<1>1. SetTo(s, u, loc, v, total, Nat)
  BY ChangeKeeps
<1> HIDE DEF k
<1>2. ChangedAt(s, k, v, total) = u
  BY ValuesChange DEF ChangedAt
<1> HIDE DEF u
<1>3. SetTo(s, ChangedAt(s, k, v, total), loc, v, total, Nat)
  BY <1>1, <1>2
<1> QED
  BY <1>3 DEF k

LEMMA AddValueIs ==
  ASSUME NEW s, IsStore(s, Nat), NEW loc \in Loc, NEW n \in Nat
  PROVE  SetTo(s, AddValue(s, loc, n), loc, CountAt(s, loc) + n, s.total, Nat)
<1> DEFINE at == Index(s, loc)
<1>1. IndexToUpdate(s, loc) = at /\ (Holds(s, loc) <=> at # 0)
  BY IndexIs
<1>2. CASE Holds(s, loc)
  <2>1. CountAt(s, loc) = s.values[at] /\ s.values[at] \in Nat
    BY <1>1, <1>2, GetIs DEF ValueOf
  <2> DEFINE v == s.values[at] + n
             t == [indexes |-> s.indexes, hashed |-> NoTable, values |-> [s.values EXCEPT ![at] = v],
                   total |-> s.total]
  <2>2. AddValue(s, loc, n) = [s EXCEPT !.values[at] = v]
    BY <1>1, <1>2 DEF AddValue
  <2>3. [s EXCEPT !.values[at] = v] = t
    <3>1. s = [indexes |-> s.indexes, hashed |-> NoTable, values |-> s.values, total |-> s.total]
      BY DEF IsStore
    <3> HIDE DEF v, at
    <3> QED
      BY <3>1
  <2>4. v \in Nat
    BY <2>1
  <2>5. SetTo(s, t, loc, v, s.total, Nat)
    <3> HIDE DEF v
    <3> QED
      BY <1>2, <2>4, ChangeKeeps
  <2> QED
    BY <2>1, <2>2, <2>3, <2>5
<1>3. CASE ~Holds(s, loc)
  <2>1. AddValue(s, loc, n) = InsertLoc(s, loc, n) /\ CountAt(s, loc) = 0
    BY <1>1, <1>3, GetIs DEF AddValue
  <2> QED
    BY <1>3, <2>1, InsertKeeps
<1> QED
  BY <1>2, <1>3

LEMMA AddPopIs ==
  ASSUME NEW s, CountStore(s), NEW loc \in Loc, NEW n \in Nat
  PROVE  LET t == AddPop(s, loc, n)
         IN /\ CountStore(t) /\ SetTo(s, t, loc, CountAt(s, loc) + n, s.total + n, Nat)
            /\ Counts(t) = [Counts(s) EXCEPT ![loc] = CountAt(s, loc) + n]
<1> DEFINE t == AddPop(s, loc, n)
           v == CountAt(s, loc) + n
<1>1. IsStore(s, Nat)
  BY DEF CountStore
<1>2. SetTo(s, AddValue(s, loc, n), loc, v, s.total, Nat)
  BY <1>1, AddValueIs
<1>3. SetTo(s, t, loc, v, s.total + n, Nat)
  BY <1>2, SetToOtherTotal DEF AddPop
<1>4. CountAt(s, loc) \in Nat /\ v \in Nat /\ SumFunctionOnSet(Counts(s), Loc) \in Nat
  BY <1>1, CountsType
<1>5. v - CountAt(s, loc) = n
  BY <1>4
<1> HIDE DEF t, v
<1>6. /\ Counts(t) = [Counts(s) EXCEPT ![loc] = v]
      /\ SumFunctionOnSet(Counts(t), Loc) = SumFunctionOnSet(Counts(s), Loc) + v - CountAt(s, loc)
  BY <1>1, <1>3, <1>4, SetToCounts
<1>7. t.total = SumFunctionOnSet(Counts(t), Loc) /\ IsStore(t, Nat)
  <2>1. t.total = s.total + n /\ IsStore(t, Nat)
    BY <1>3 DEF SetTo
  <2>2. s.total = SumFunctionOnSet(Counts(s), Loc)
    BY DEF CountStore
  <2> QED
    BY <1>4, <1>5, <1>6, <2>1, <2>2
<1> QED
  BY <1>3, <1>6, <1>7 DEF CountStore, t, v

LEMMA ReplacePopIs ==
  ASSUME NEW s, CountStore(s), NEW loc \in Loc, NEW n \in Nat
  PROVE  CountStore(ReplacePop(s, loc, n))
<1> DEFINE t == ReplacePop(s, loc, n)
           at == Index(s, loc)
           c == CountAt(s, loc)
<1>1. IsStore(s, Nat) /\ s.total = SumFunctionOnSet(Counts(s), Loc)
  BY DEF CountStore
<1>2. IndexToUpdate(s, loc) = at /\ (Holds(s, loc) <=> at # 0)
  BY <1>1, IndexIs
<1>3. c \in Nat /\ SumFunctionOnSet(Counts(s), Loc) \in Nat
  BY <1>1, CountsType
<1>4. SetTo(s, t, loc, n, s.total + n - c, Nat)
  <2>1. CASE Holds(s, loc)
    <3>1. c = s.values[at]
      BY <1>1, <2>1, GetIs DEF ValueOf
    <3> DEFINE total == s.total + n - s.values[at]
    <3>2. t = ChangedAt(s, at, n, total)
      BY <1>2, <2>1 DEF ReplacePop, ChangedAt
    <3> HIDE DEF total
    <3>3. SetTo(s, ChangedAt(s, at, n, total), loc, n, total, Nat)
      BY <1>1, <2>1, ChangedIs
    <3> QED
      BY <3>1, <3>2, <3>3 DEF total
  <2>2. CASE ~Holds(s, loc)
    <3>1. t = [InsertLoc(s, loc, n) EXCEPT !.total = s.total + n] /\ c = 0
      BY <1>1, <1>2, <2>2, GetIs DEF ReplacePop
    <3>2. SetTo(s, t, loc, n, s.total + n, Nat)
      BY <1>1, <2>2, <3>1, InsertKeeps, SetToOtherTotal
    <3>3. s.total + n - c = s.total + n
      BY <1>1, <1>3, <3>1
    <3> QED
      BY <3>2, <3>3
  <2> QED
    BY <2>1, <2>2
<1> HIDE DEF t, c
<1>5. SumFunctionOnSet(Counts(t), Loc) = SumFunctionOnSet(Counts(s), Loc) + n - c
  BY <1>1, <1>4, SetToCounts DEF c
<1> QED
  BY <1>1, <1>4, <1>5 DEF CountStore, SetTo, t

LEMMA RemovePopIs ==
  ASSUME NEW s, CountStore(s), NEW loc \in Loc, NEW n \in Nat
  PROVE  LET t == RemovePop(s, loc, n)
             c == CountAt(s, loc)
             left == IF c > n THEN c - n ELSE 0
         IN /\ CountStore(t) /\ t.total = s.total + left - c
            /\ Counts(t) = [Counts(s) EXCEPT ![loc] = left]
            /\ ~Holds(s, loc) => t = s
            /\ Holds(s, loc) => SetTo(s, t, loc, left, s.total + left - c, Nat)
<1> DEFINE t == RemovePop(s, loc, n)
           at == Index(s, loc)
           c == CountAt(s, loc)
           left == IF c > n THEN c - n ELSE 0
           total == s.total + left - c
<1>1. IsStore(s, Nat) /\ s.total = SumFunctionOnSet(Counts(s), Loc)
  BY DEF CountStore
<1>2. Holds(s, loc) <=> at # 0
  BY <1>1, IndexIs
<1>3. c \in Nat /\ SumFunctionOnSet(Counts(s), Loc) \in Nat /\ left \in Nat
  BY <1>1, CountsType
<1>4. CASE Holds(s, loc)
  <2>1. c = s.values[at]
    BY <1>1, <1>4, GetIs DEF ValueOf
  <2>2. t = ChangedAt(s, at, left, total)
    BY <1>2, <1>4, <2>1 DEF RemovePop, ChangedAt
  <2> HIDE DEF total, left, t, c
  <2>3. SetTo(s, ChangedAt(s, at, left, total), loc, left, total, Nat)
    BY <1>1, <1>3, <1>4, ChangedIs
  <2>5. SetTo(s, t, loc, left, total, Nat)
    BY <2>2, <2>3
  <2>6. /\ Counts(t) = [Counts(s) EXCEPT ![loc] = left]
        /\ SumFunctionOnSet(Counts(t), Loc) = SumFunctionOnSet(Counts(s), Loc) + left - c
    BY <1>1, <1>3, <2>5, SetToCounts DEF c
  <2>7. CountStore(t) /\ t.total = total
    BY <1>1, <2>5, <2>6 DEF CountStore, SetTo, total
  <2> QED
    BY <1>4, <2>5, <2>6, <2>7 DEF t, left, total, c
<1>5. CASE ~Holds(s, loc)
  <2>1. t = s /\ c = 0
    BY <1>1, <1>2, <1>5, GetIs DEF RemovePop
  <2>2. left = 0
    BY <2>1
  <2>3. Counts(s)[loc] = 0 /\ Counts(s) \in [Loc -> Nat]
    BY <1>1, <2>1, CountsType DEF Counts
  <2> HIDE DEF t, c, left
  <2>4. [Counts(s) EXCEPT ![loc] = left] = Counts(s) /\ s.total = s.total + left - c
    BY <1>1, <1>3, <2>1, <2>2, <2>3
  <2> QED
    BY <1>5, <2>1, <2>4 DEF t, c, left
<1> QED
  BY <1>4, <1>5

LEMMA NewCounts == CountStore(NewParams) /\ Counts(NewParams) = [l \in Loc |-> 0]
<1>1. Counts(NewParams) = [l \in Loc |-> 0]
  BY NewIsStore DEF Counts
<1>2. SumFunctionOnSet(Counts(NewParams), Loc) = 0
  BY <1>1, StoreAssumption, SumOfZeros
<1> QED
  BY <1>1, <1>2, NewIsStore DEF CountStore

-----------------------------------------------------------------------------
(* Stores made from pairs, merged, and added to distributions.             *)
Stores == {s \in [indexes : Seq(Loc), hashed : {NoTable}, values : Seq(Nat), total : Nat] :
             IsStore(s, Nat)}
CountStores == {s \in Stores : CountStore(s)}

LEMMA StoresAre ==
  /\ \A s : IsStore(s, Nat) /\ s.total \in Nat => s \in Stores
  /\ \A s : CountStore(s) => s \in CountStores
<1>1. ASSUME NEW s, IsStore(s, Nat), s.total \in Nat PROVE s \in Stores
  <2>1. /\ s = [indexes |-> s.indexes, hashed |-> NoTable, values |-> s.values, total |-> s.total]
        /\ s.indexes \in Seq(Loc) /\ s.values \in Seq(Nat)
    BY <1>1 DEF IsStore, Sorted
  <2>2. s \in [indexes : Seq(Loc), hashed : {NoTable}, values : Seq(Nat), total : Nat]
    BY <1>1, <2>1
  <2> QED
    BY <1>1, <2>2 DEF Stores
<1>2. ASSUME NEW s, CountStore(s) PROVE s \in CountStores
  <2>1. IsStore(s, Nat) /\ s.total \in Nat
    BY <1>2, CountsType DEF CountStore
  <2> QED
    BY <1>1, <1>2, <2>1 DEF CountStores
<1> QED
  BY <1>1, <1>2

LEMMA IterIs ==
  ASSUME NEW s, IsStore(s, Nat)
  PROVE  LET q == Iter(s)
         IN /\ Len(s.indexes) \in Nat /\ Len(q) = Len(s.indexes) /\ DOMAIN q = 1..Len(q)
            /\ \A i \in 1..Len(q) : /\ q[i] = <<s.indexes[i], s.values[i]>>
                                    /\ q[i][1] \in Loc /\ q[i][2] \in Nat
                                    /\ q[i][1] = s.indexes[i] /\ q[i][2] = s.values[i]
<1> DEFINE n == Len(s.indexes)
<1>1. n \in Nat /\ DOMAIN s.indexes = 1..n
      /\ \A i \in 1..n : s.indexes[i] \in Loc /\ s.values[i] \in Nat
  BY DEF IsStore, Sorted
<1>2. Iter(s) = [i \in 1..n |-> <<s.indexes[i], s.values[i]>>]
  BY <1>1 DEF Iter
<1> HIDE DEF n
<1> QED
  BY <1>1, <1>2 DEF n

Replaces(pairs, it) ==
  it = [k \in SUBSET DOMAIN pairs |->
          IF k = {} THEN NewParams
          ELSE ReplacePop(it[k \ {Max(k)}], pairs[Max(k)][1], pairs[Max(k)][2])]

LEMMA ReplacesFold ==
  ASSUME NEW pairs
  PROVE  FromPairs(pairs) = (CHOOSE it : Replaces(pairs, it))[DOMAIN pairs]
BY DEF FromPairs, FoldLeft, MapThenFoldSet, Replaces

ReplacesTo(pairs, n, h, X) ==
  /\ h \in [0..n -> X] /\ h[0] = NewParams
  /\ \A i \in 1..n : h[i] = ReplacePop(h[i - 1], pairs[i][1], pairs[i][2])

LEMMA ReplacesInOrder ==
  ASSUME NEW pairs \in Seq(Loc \X Nat)
  PROVE  \E h : ReplacesTo(pairs, Len(pairs), h, CountStores) /\ FromPairs(pairs) = h[Len(pairs)]
<1> DEFINE q == pairs
           n == Len(q)
           X == CountStores
           base == NewParams
           g == [ix \in (1..n) \X X |-> ReplacePop(ix[2], q[ix[1]][1], q[ix[1]][2])]
<1>1. n \in Nat /\ DOMAIN q = 1..n /\ \A i \in 1..n : q[i][1] \in Loc /\ q[i][2] \in Nat
  OBVIOUS
<1>2. base \in X
  BY NewCounts, StoresAre DEF NewParams
<1>3. ASSUME NEW x \in X, NEW l \in Loc, NEW m \in Nat PROVE ReplacePop(x, l, m) \in X
  <2>1. CountStore(x)
    BY DEF CountStores
  <2> QED
    BY <2>1, ReplacePopIs, StoresAre
<1> HIDE DEF q, n, X, base
<1>4. \A i \in 1..n, x \in X : g[<<i, x>>] = ReplacePop(x, q[i][1], q[i][2])
  OBVIOUS
<1> HIDE DEF g
<1>5. \A i \in 1..n, x \in X : g[<<i, x>>] \in X
  BY <1>1, <1>3, <1>4
<1>6. StepsIn(g, X, n)
  BY <1>5 DEF StepsIn
<1> DEFINE one == CHOOSE it : Replaces(pairs, it)
<1>7. ASSUME NEW fold \in [SUBSET (1..n) -> X], Folding(n, fold, base, g)
      PROVE  FoldsIn(n, one, X, base, g)
  <2>1. \A k \in SUBSET (1..n) : k # {} => Max(k) \in 1..n /\ k \ {Max(k)} \in SUBSET (1..n)
    BY <1>1, MaxOfIndices
  <2>2. \A k \in SUBSET (1..n) :
          fold[k] = IF k = {} THEN base
                    ELSE ReplacePop(fold[k \ {Max(k)}], q[Max(k)][1], q[Max(k)][2])
    BY <1>4, <1>7, <2>1 DEF Folding
  <2>3. Replaces(pairs, fold)
    BY <1>1, <2>2 DEF Replaces, q, base
  <2>4. Replaces(pairs, one)
    BY <2>3
  <2> HIDE DEF one
  <2>5. \A k \in SUBSET (1..n) :
          one[k] = IF k = {} THEN base
                   ELSE ReplacePop(one[k \ {Max(k)}], q[Max(k)][1], q[Max(k)][2])
    BY <1>1, <2>4 DEF Replaces, q, base
  <2>6. one[{}] = base
    BY <2>5
  <2> QED
    BY <1>4, <2>1, <2>5, <2>6 DEF FoldsIn
<1> HIDE DEF one
<1>8. PICK h : RecursionTo(n, h, X, base, g) /\ one[1..n] = h[n]
  <2>1. SolvedBy(n, one, X, base, g)
    BY <1>7 DEF SolvedBy
  <2> QED
    BY <1>1, <1>2, <1>6, <2>1, FoldAlong
<1>9. /\ h \in [0..n -> X] /\ h[0] = base
      /\ \A i \in 1..n : h[i] = ReplacePop(h[i - 1], q[i][1], q[i][2])
  <2>1. h \in [0..n -> X] /\ h[0] = base /\ \A i \in 1..n : h[i] = g[<<i, h[i - 1]>>]
    BY <1>8 DEF RecursionTo
  <2>2. \A i \in 1..n : h[i - 1] \in X
    BY <1>1, <2>1
  <2> QED
    BY <1>4, <2>1, <2>2
<1>10. ReplacesTo(pairs, n, h, X)
  BY <1>9 DEF ReplacesTo, q, base
<1>11. FromPairs(pairs) = h[n]
  BY <1>1, <1>8, ReplacesFold DEF one, q
<1> QED
  BY <1>10, <1>11 DEF n, q, X

Merges(s, t, it) ==
  it = [k \in SUBSET DOMAIN Iter(t) |->
          IF k = {} THEN s
          ELSE AddPop(it[k \ {Max(k)}], Iter(t)[Max(k)][1], Iter(t)[Max(k)][2])]

LEMMA MergesFold ==
  ASSUME NEW s, NEW t
  PROVE  Merge(s, t) = (CHOOSE it : Merges(s, t, it))[DOMAIN Iter(t)]
BY DEF Merge, FoldLeft, MapThenFoldSet, Merges

MergesTo(s, t, n, h, X) ==
  /\ h \in [0..n -> X] /\ h[0] = s
  /\ \A i \in 1..n : h[i] = AddPop(h[i - 1], Iter(t)[i][1], Iter(t)[i][2])

LEMMA MergesInOrder ==
  ASSUME NEW s, CountStore(s), NEW t, IsStore(t, Nat)
  PROVE  \E h : MergesTo(s, t, Len(Iter(t)), h, CountStores) /\ Merge(s, t) = h[Len(Iter(t))]
<1> DEFINE q == Iter(t)
           n == Len(q)
           X == CountStores
           base == s
           g == [ix \in (1..n) \X X |-> AddPop(ix[2], q[ix[1]][1], q[ix[1]][2])]
<1>1. n \in Nat /\ DOMAIN q = 1..n /\ \A i \in 1..n : q[i][1] \in Loc /\ q[i][2] \in Nat
  BY IterIs
<1>2. base \in X
  BY StoresAre
<1>3. ASSUME NEW x \in X, NEW l \in Loc, NEW m \in Nat PROVE AddPop(x, l, m) \in X
  <2>1. CountStore(x)
    BY DEF CountStores
  <2> QED
    BY <2>1, AddPopIs, StoresAre
<1> HIDE DEF q, n, X, base
<1>4. \A i \in 1..n, x \in X : g[<<i, x>>] = AddPop(x, q[i][1], q[i][2])
  OBVIOUS
<1> HIDE DEF g
<1>5. \A i \in 1..n, x \in X : g[<<i, x>>] \in X
  BY <1>1, <1>3, <1>4
<1>6. StepsIn(g, X, n)
  BY <1>5 DEF StepsIn
<1> DEFINE one == CHOOSE it : Merges(s, t, it)
<1>7. ASSUME NEW fold \in [SUBSET (1..n) -> X], Folding(n, fold, base, g)
      PROVE  FoldsIn(n, one, X, base, g)
  <2>1. \A k \in SUBSET (1..n) : k # {} => Max(k) \in 1..n /\ k \ {Max(k)} \in SUBSET (1..n)
    BY <1>1, MaxOfIndices
  <2>2. \A k \in SUBSET (1..n) :
          fold[k] = IF k = {} THEN base
                    ELSE AddPop(fold[k \ {Max(k)}], q[Max(k)][1], q[Max(k)][2])
    BY <1>4, <1>7, <2>1 DEF Folding
  <2>3. Merges(s, t, fold)
    BY <1>1, <2>2 DEF Merges, q, base
  <2>4. Merges(s, t, one)
    BY <2>3
  <2> HIDE DEF one
  <2>5. \A k \in SUBSET (1..n) :
          one[k] = IF k = {} THEN base
                   ELSE AddPop(one[k \ {Max(k)}], q[Max(k)][1], q[Max(k)][2])
    BY <1>1, <2>4 DEF Merges, q, base
  <2>6. one[{}] = base
    BY <2>5
  <2> QED
    BY <1>4, <2>1, <2>5, <2>6 DEF FoldsIn
<1> HIDE DEF one
<1>8. PICK h : RecursionTo(n, h, X, base, g) /\ one[1..n] = h[n]
  <2>1. SolvedBy(n, one, X, base, g)
    BY <1>7 DEF SolvedBy
  <2> QED
    BY <1>1, <1>2, <1>6, <2>1, FoldAlong
<1>9. /\ h \in [0..n -> X] /\ h[0] = base
      /\ \A i \in 1..n : h[i] = AddPop(h[i - 1], q[i][1], q[i][2])
  <2>1. h \in [0..n -> X] /\ h[0] = base /\ \A i \in 1..n : h[i] = g[<<i, h[i - 1]>>]
    BY <1>8 DEF RecursionTo
  <2>2. \A i \in 1..n : h[i - 1] \in X
    BY <1>1, <2>1
  <2> QED
    BY <1>4, <2>1, <2>2
<1>10. MergesTo(s, t, n, h, X)
  BY <1>9 DEF MergesTo, q, base
<1>11. Merge(s, t) = h[n]
  BY <1>1, <1>8, MergesFold DEF one, q
<1> QED
  BY <1>10, <1>11 DEF n, q, X

Observes(s, t, it) ==
  it = [k \in SUBSET DOMAIN Iter(t) |->
          IF k = {} THEN [s EXCEPT !.total = @ + t.total]
          ELSE AddValue(it[k \ {Max(k)}], Iter(t)[Max(k)][1], Iter(t)[Max(k)][2])]

LEMMA ObservesFold ==
  ASSUME NEW s, NEW t
  PROVE  AddObservations(s, t) = (CHOOSE it : Observes(s, t, it))[DOMAIN Iter(t)]
BY DEF AddObservations, FoldLeft, MapThenFoldSet, Observes

ObservesTo(s, t, n, h, X) ==
  /\ h \in [0..n -> X] /\ h[0] = [s EXCEPT !.total = @ + t.total]
  /\ \A i \in 1..n : h[i] = AddValue(h[i - 1], Iter(t)[i][1], Iter(t)[i][2])

LEMMA ObservesInOrder ==
  ASSUME NEW s, IsStore(s, Nat), s.total \in Nat, NEW t, IsStore(t, Nat), t.total \in Nat
  PROVE  \E h : ObservesTo(s, t, Len(Iter(t)), h, Stores) /\ AddObservations(s, t) = h[Len(Iter(t))]
<1> DEFINE q == Iter(t)
           n == Len(q)
           X == Stores
           base == [s EXCEPT !.total = @ + t.total]
           g == [ix \in (1..n) \X X |-> AddValue(ix[2], q[ix[1]][1], q[ix[1]][2])]
<1>1. n \in Nat /\ DOMAIN q = 1..n /\ \A i \in 1..n : q[i][1] \in Loc /\ q[i][2] \in Nat
  BY IterIs
<1>2. base \in X
  <2>1. IsStore(base, Nat) /\ base.total = s.total + t.total
    BY OtherTotal
  <2> HIDE DEF base
  <2> QED
    BY <2>1, StoresAre
<1>3. ASSUME NEW x \in X, NEW l \in Loc, NEW m \in Nat PROVE AddValue(x, l, m) \in X
  <2>1. IsStore(x, Nat) /\ x.total \in Nat
    BY DEF Stores
  <2> QED
    BY <2>1, AddValueIs, StoresAre DEF SetTo
<1> HIDE DEF q, n, X, base
<1>4. \A i \in 1..n, x \in X : g[<<i, x>>] = AddValue(x, q[i][1], q[i][2])
  OBVIOUS
<1> HIDE DEF g
<1>5. \A i \in 1..n, x \in X : g[<<i, x>>] \in X
  BY <1>1, <1>3, <1>4
<1>6. StepsIn(g, X, n)
  BY <1>5 DEF StepsIn
<1> DEFINE one == CHOOSE it : Observes(s, t, it)
<1>7. ASSUME NEW fold \in [SUBSET (1..n) -> X], Folding(n, fold, base, g)
      PROVE  FoldsIn(n, one, X, base, g)
  <2>1. \A k \in SUBSET (1..n) : k # {} => Max(k) \in 1..n /\ k \ {Max(k)} \in SUBSET (1..n)
    BY <1>1, MaxOfIndices
  <2>2. \A k \in SUBSET (1..n) :
          fold[k] = IF k = {} THEN base
                    ELSE AddValue(fold[k \ {Max(k)}], q[Max(k)][1], q[Max(k)][2])
    BY <1>4, <1>7, <2>1 DEF Folding
  <2>3. Observes(s, t, fold)
    BY <1>1, <2>2 DEF Observes, q, base
  <2>4. Observes(s, t, one)
    BY <2>3
  <2> HIDE DEF one
  <2>5. \A k \in SUBSET (1..n) :
          one[k] = IF k = {} THEN base
                   ELSE AddValue(one[k \ {Max(k)}], q[Max(k)][1], q[Max(k)][2])
    BY <1>1, <2>4 DEF Observes, q, base
  <2>6. one[{}] = base
    BY <2>5
  <2> QED
    BY <1>4, <2>1, <2>5, <2>6 DEF FoldsIn
<1> HIDE DEF one
<1>8. PICK h : RecursionTo(n, h, X, base, g) /\ one[1..n] = h[n]
  <2>1. SolvedBy(n, one, X, base, g)
    BY <1>7 DEF SolvedBy
  <2> QED
    BY <1>1, <1>2, <1>6, <2>1, FoldAlong
<1>9. /\ h \in [0..n -> X] /\ h[0] = base
      /\ \A i \in 1..n : h[i] = AddValue(h[i - 1], q[i][1], q[i][2])
  <2>1. h \in [0..n -> X] /\ h[0] = base /\ \A i \in 1..n : h[i] = g[<<i, h[i - 1]>>]
    BY <1>8 DEF RecursionTo
  <2>2. \A i \in 1..n : h[i - 1] \in X
    BY <1>1, <2>1
  <2> QED
    BY <1>4, <2>1, <2>2
<1>10. ObservesTo(s, t, n, h, X)
  BY <1>9 DEF ObservesTo, q, base
<1>11. AddObservations(s, t) = h[n]
  BY <1>1, <1>8, ObservesFold DEF one, q
<1> QED
  BY <1>10, <1>11 DEF n, q, X

LEMMA FromPairsIs ==
  ASSUME NEW pairs \in Seq(Loc \X Nat)
  PROVE  CountStore(FromPairs(pairs))
<1>1. PICK h : ReplacesTo(pairs, Len(pairs), h, CountStores) /\ FromPairs(pairs) = h[Len(pairs)]
  BY ReplacesInOrder
<1>2. Len(pairs) \in 0..Len(pairs)
  OBVIOUS
<1>3. h[Len(pairs)] \in CountStores
  BY <1>1, <1>2 DEF ReplacesTo
<1> QED
  BY <1>1, <1>3 DEF CountStores

(* What the first i pairs of t have at l. *)
UpTo(t, i, l) == IF Holds(t, l) /\ SearchedAt(t, l) <= i THEN CountAt(t, l) ELSE 0
HeldUpTo(t, i, l) == Holds(t, l) /\ SearchedAt(t, l) <= i

LEMMA UpToSteps ==
  ASSUME NEW t, IsStore(t, Nat), NEW i \in 1..Len(t.indexes), NEW l \in Loc
  PROVE  /\ UpTo(t, i - 1, l) \in Nat
         /\ l = t.indexes[i] => /\ UpTo(t, i, l) = t.values[i] /\ UpTo(t, i - 1, l) = 0
                                /\ HeldUpTo(t, i, l)
         /\ l # t.indexes[i] => /\ UpTo(t, i, l) = UpTo(t, i - 1, l)
                                /\ HeldUpTo(t, i, l) <=> HeldUpTo(t, i - 1, l)
<1> DEFINE n == Len(t.indexes)
           at == SearchedAt(t, l)
<1>1. n \in Nat /\ at \in 1..(n + 1) /\ i \in 1..n /\ (Holds(t, l) => t.indexes[at] = l)
      /\ (t.indexes[i] = l => i = at)
  BY SearchFinds
<1>2. CountAt(t, l) \in Nat /\ (Holds(t, l) => CountAt(t, l) = t.values[at])
  BY CountsType, GetIs
<1>3. CASE l = t.indexes[i]
  <2>1. Holds(t, l)
    BY <1>3 DEF Holds, Contains
  <2>2. at = i
    BY <1>1, <1>3
  <2> HIDE DEF n, at
  <2> QED
    BY <1>1, <1>2, <1>3, <2>1, <2>2 DEF UpTo, HeldUpTo, at
<1>4. CASE l # t.indexes[i]
  <2>1. Holds(t, l) => at # i
    BY <1>1, <1>4
  <2> HIDE DEF n, at
  <2>2. Holds(t, l) => (at <= i <=> at <= i - 1)
    BY <1>1, <2>1
  <2> QED
    BY <1>2, <1>4, <2>2 DEF UpTo, HeldUpTo, at
<1> QED
  BY <1>3, <1>4

LEMMA UpToEnds ==
  ASSUME NEW t, IsStore(t, Nat), NEW l \in Loc
  PROVE  /\ UpTo(t, 0, l) = 0 /\ ~HeldUpTo(t, 0, l)
         /\ UpTo(t, Len(t.indexes), l) = CountAt(t, l)
         /\ HeldUpTo(t, Len(t.indexes), l) <=> Holds(t, l)
<1>1. Len(t.indexes) \in Nat /\ SearchedAt(t, l) \in 1..(Len(t.indexes) + 1)
      /\ (Holds(t, l) => SearchedAt(t, l) <= Len(t.indexes))
  BY SearchFinds
<1>2. ~Holds(t, l) => CountAt(t, l) = 0
  BY GetIs
<1> QED
  BY <1>1, <1>2 DEF UpTo, HeldUpTo

Sum2(s, t, i, u) ==
  \A l \in Loc : /\ CountAt(u, l) = CountAt(s, l) + UpTo(t, i, l)
                 /\ Holds(u, l) <=> Holds(s, l) \/ HeldUpTo(t, i, l)

LEMMA Sum2Steps ==
  ASSUME NEW s, IsStore(s, Nat), NEW t, IsStore(t, Nat), NEW i \in 1..Len(t.indexes),
         NEW u, Sum2(s, t, i - 1, u), NEW v, NEW total,
         SetTo(u, v, t.indexes[i], CountAt(u, t.indexes[i]) + t.values[i], total, Nat)
  PROVE  Sum2(s, t, i, v)
<1> SUFFICES ASSUME NEW l \in Loc
             PROVE  /\ CountAt(v, l) = CountAt(s, l) + UpTo(t, i, l)
                    /\ Holds(v, l) <=> Holds(s, l) \/ HeldUpTo(t, i, l)
  BY DEF Sum2
<1> DEFINE loc == t.indexes[i]
<1>1. loc \in Loc /\ t.values[i] \in Nat /\ CountAt(s, l) \in Nat
  BY SearchFinds, CountsType
<1>2. CountAt(u, l) = CountAt(s, l) + UpTo(t, i - 1, l)
      /\ (Holds(u, l) <=> Holds(s, l) \/ HeldUpTo(t, i - 1, l))
  BY DEF Sum2
<1>3. /\ Holds(v, loc) /\ CountAt(v, loc) = CountAt(u, loc) + t.values[i]
      /\ l # loc => CountAt(v, l) = CountAt(u, l) /\ (Holds(v, l) <=> Holds(u, l))
  BY DEF SetTo, Same
<1>4. /\ UpTo(t, i - 1, l) \in Nat
      /\ l = loc => /\ UpTo(t, i, l) = t.values[i] /\ UpTo(t, i - 1, l) = 0
                    /\ HeldUpTo(t, i, l)
      /\ l # loc => /\ UpTo(t, i, l) = UpTo(t, i - 1, l)
                    /\ HeldUpTo(t, i, l) <=> HeldUpTo(t, i - 1, l)
  BY UpToSteps
<1> HIDE DEF loc
<1>5. CASE l = loc
  BY <1>1, <1>2, <1>3, <1>4, <1>5
<1>6. CASE l # loc
  BY <1>2, <1>3, <1>4, <1>6
<1> QED
  BY <1>5, <1>6

(* Two stores added up, pair by pair: the counts are the sums. *)
SumOfStores(s, t, u) ==
  \A l \in Loc : /\ CountAt(u, l) = CountAt(s, l) + CountAt(t, l)
                 /\ Holds(u, l) <=> Holds(s, l) \/ Holds(t, l)

LEMMA MergeIs ==
  ASSUME NEW s, CountStore(s), NEW t, IsStore(t, Nat)
  PROVE  CountStore(Merge(s, t)) /\ SumOfStores(s, t, Merge(s, t))
<1> DEFINE q == Iter(t)
           n == Len(t.indexes)
<1>1. /\ n \in Nat /\ Len(q) = n
      /\ \A i \in 1..n : q[i][1] = t.indexes[i] /\ q[i][2] = t.values[i]
                         /\ q[i][1] \in Loc /\ q[i][2] \in Nat
  BY IterIs
<1>2. PICK h : MergesTo(s, t, Len(Iter(t)), h, CountStores) /\ Merge(s, t) = h[Len(Iter(t))]
  BY MergesInOrder
<1>3. /\ h[0] = s /\ Merge(s, t) = h[n] /\ \A i \in 0..n : CountStore(h[i])
      /\ \A i \in 1..n : h[i] = AddPop(h[i - 1], t.indexes[i], t.values[i])
  <2>1. h \in [0..n -> CountStores] /\ h[0] = s
        /\ \A i \in 1..n : h[i] = AddPop(h[i - 1], q[i][1], q[i][2])
    BY <1>1, <1>2 DEF MergesTo
  <2> HIDE DEF q, n
  <2> QED
    BY <1>1, <1>2, <2>1 DEF CountStores, q
<1>4. IsStore(s, Nat)
  BY DEF CountStore
<1> DEFINE P == {i \in Nat : i <= n => Sum2(s, t, i, h[i])}
<1>5. 0 \in P
  <2>1. Sum2(s, t, 0, s)
    BY <1>4, UpToEnds, CountsType DEF Sum2
  <2> QED
    BY <1>3, <2>1
<1> HIDE DEF q
<1>6. ASSUME NEW i \in P PROVE i + 1 \in P
  <2> SUFFICES ASSUME i + 1 <= n PROVE Sum2(s, t, i + 1, h[i + 1])
    OBVIOUS
  <2> DEFINE j == i + 1
  <2>1. j \in 1..n /\ j - 1 = i /\ i \in 0..n /\ Sum2(s, t, i, h[i])
    BY <1>1
  <2> HIDE DEF j
  <2>2. CountStore(h[i]) /\ h[j] = AddPop(h[i], t.indexes[j], t.values[j])
        /\ t.indexes[j] \in Loc /\ t.values[j] \in Nat
    BY <1>1, <1>3, <2>1
  <2>3. SetTo(h[i], h[j], t.indexes[j], CountAt(h[i], t.indexes[j]) + t.values[j],
              h[i].total + t.values[j], Nat)
    <3>1. \A a : CountStore(a) =>
            \A l \in Loc, m \in Nat :
              SetTo(a, AddPop(a, l, m), l, CountAt(a, l) + m, a.total + m, Nat)
      BY AddPopIs
    <3> QED
      BY <2>2, <3>1
  <2>4. Sum2(s, t, j - 1, h[i])
    BY <2>1
  <2>5. Sum2(s, t, j, h[j])
    BY <1>4, <2>1, <2>3, <2>4, Sum2Steps DEF n
  <2> QED
    BY <2>5 DEF j
<1>7. P = Nat
  <2>1. P \in SUBSET Nat
    OBVIOUS
  <2> HIDE DEF P
  <2> QED
    BY <1>5, <1>6, <2>1, AllNaturals
<1>8. Sum2(s, t, n, h[n])
  BY <1>1, <1>7
<1>9. SumOfStores(s, t, h[n])
  BY <1>8, UpToEnds DEF Sum2, SumOfStores, n
<1> QED
  BY <1>1, <1>3, <1>9

LEMMA ObservationsAre ==
  ASSUME NEW s, IsStore(s, Nat), s.total \in Nat, NEW t, IsStore(t, Nat), t.total \in Nat
  PROVE  LET u == AddObservations(s, t)
         IN IsStore(u, Nat) /\ u.total = s.total + t.total /\ SumOfStores(s, t, u)
<1> DEFINE q == Iter(t)
           n == Len(t.indexes)
           base == [s EXCEPT !.total = @ + t.total]
<1>1. /\ n \in Nat /\ Len(q) = n
      /\ \A i \in 1..n : q[i][1] = t.indexes[i] /\ q[i][2] = t.values[i]
                         /\ q[i][1] \in Loc /\ q[i][2] \in Nat
  BY IterIs
<1>2. PICK h : ObservesTo(s, t, Len(Iter(t)), h, Stores) /\ AddObservations(s, t) = h[Len(Iter(t))]
  BY ObservesInOrder
<1>3. /\ h[0] = base /\ AddObservations(s, t) = h[n] /\ \A i \in 0..n : IsStore(h[i], Nat)
      /\ \A i \in 1..n : h[i] = AddValue(h[i - 1], t.indexes[i], t.values[i])
  <2>1. h \in [0..n -> Stores] /\ h[0] = base
        /\ \A i \in 1..n : h[i] = AddValue(h[i - 1], q[i][1], q[i][2])
    BY <1>1, <1>2 DEF ObservesTo
  <2> HIDE DEF q, n, base
  <2> QED
    BY <1>1, <1>2, <2>1 DEF Stores, q
<1>4. /\ base.total = s.total + t.total
      /\ \A l \in Loc : CountAt(base, l) = CountAt(s, l) /\ (Holds(base, l) <=> Holds(s, l))
  <2> DEFINE x == s.total + t.total
  <2>1. base = [s EXCEPT !.total = x]
    OBVIOUS
  <2> HIDE DEF base, x
  <2>2. LET r == [s EXCEPT !.total = x]
        IN /\ r.total = x
           /\ \A l \in Loc : CountAt(r, l) = CountAt(s, l) /\ (Holds(r, l) <=> Holds(s, l))
    BY OtherTotal
  <2> QED
    BY <2>1, <2>2 DEF x
<1> DEFINE P == {i \in Nat : i <= n => Sum2(s, t, i, h[i]) /\ h[i].total = s.total + t.total}
<1> HIDE DEF base
<1>5. 0 \in P
  <2>1. Sum2(s, t, 0, base)
    BY <1>4, UpToEnds, CountsType DEF Sum2
  <2> QED
    BY <1>3, <1>4, <2>1
<1> HIDE DEF q
<1>6. ASSUME NEW i \in P PROVE i + 1 \in P
  <2> SUFFICES ASSUME i + 1 <= n
               PROVE  Sum2(s, t, i + 1, h[i + 1]) /\ h[i + 1].total = s.total + t.total
    OBVIOUS
  <2> DEFINE j == i + 1
  <2>1. j \in 1..n /\ j - 1 = i /\ i \in 0..n /\ Sum2(s, t, i, h[i]) /\ h[i].total = s.total + t.total
    BY <1>1
  <2> HIDE DEF j
  <2>2. IsStore(h[i], Nat) /\ h[j] = AddValue(h[i], t.indexes[j], t.values[j])
        /\ t.indexes[j] \in Loc /\ t.values[j] \in Nat
    BY <1>1, <1>3, <2>1
  <2>3. SetTo(h[i], h[j], t.indexes[j], CountAt(h[i], t.indexes[j]) + t.values[j], h[i].total, Nat)
    BY <2>2, AddValueIs
  <2>4. Sum2(s, t, j - 1, h[i])
    BY <2>1
  <2>5. Sum2(s, t, j, h[j])
    BY <2>1, <2>3, <2>4, Sum2Steps DEF n
  <2> QED
    BY <2>1, <2>3, <2>5 DEF j, SetTo
<1>7. P = Nat
  <2>1. P \in SUBSET Nat
    OBVIOUS
  <2> HIDE DEF P
  <2> QED
    BY <1>5, <1>6, <2>1, AllNaturals
<1>8. Sum2(s, t, n, h[n]) /\ h[n].total = s.total + t.total
  BY <1>1, <1>7
<1>9. SumOfStores(s, t, h[n])
  BY <1>8, UpToEnds DEF Sum2, SumOfStores, n
<1> QED
  BY <1>1, <1>3, <1>8, <1>9

-----------------------------------------------------------------------------
(* What is collected is one count per address: every operation of a        *)
(* DiscreteData does what DiscreteCounts says.                             *)
DataInv == CountStore(data) /\ (prior # None => CountStore(prior))

LEMMA ObservationIsAddPop ==
  ASSUME NEW s, NEW loc
  PROVE  AddObservation(s, loc) = AddPop(s, loc, 1)
BY DEF AddObservation, AddPop

LEMMA DataInvInit == Init => DataInv
BY NewCounts DEF Init, DataInv

LEMMA MergedAre ==
  ASSUME NEW pairs \in Merged
  PROVE  pairs \in Seq(Loc \X Nat) /\ CountStore(FromPairs(pairs)) /\ IsStore(FromPairs(pairs), Nat)
<1>1. pairs \in Seq(Loc \X Nat)
  BY TrackerAssumption
<1> QED
  BY <1>1, FromPairsIs DEF CountStore

LEMMA DataInvStep == DataInv /\ [Next]_vars => DataInv'
<1> SUFFICES ASSUME DataInv, [Next]_vars PROVE DataInv'
  OBVIOUS
<1>1. ASSUME NEW loc \in Loc, NEW n \in 1..2, AddData(loc, n) \/ RemoveData(loc, n) \/ Observe(loc, n)
      PROVE  DataInv'
  <2>1. n \in Nat /\ CountStore(data) /\ UNCHANGED prior
    BY <1>1 DEF AddData, RemoveData, Observe, DataInv
  <2>2. data' = AddPop(data, loc, n) \/ data' = RemovePop(data, loc, n)
    BY <1>1 DEF AddData, RemoveData, Observe
  <2>3. CountStore(AddPop(data, loc, n)) /\ CountStore(RemovePop(data, loc, n))
    BY <2>1, AddPopIs, RemovePopIs
  <2> QED
    BY <2>1, <2>2, <2>3 DEF DataInv
<1>2. ASSUME NEW pairs \in Merged, MergeData(pairs) PROVE DataInv'
  <2>1. CountStore(Merge(data, FromPairs(pairs)))
    BY MergedAre, MergeIs DEF DataInv
  <2> QED
    BY <1>2, <2>1 DEF MergeData, DataInv
<1>3. ASSUME NEW loc \in Loc, ObservePrior(loc) PROVE DataInv'
  <2>1. CountStore(AddPop(prior, loc, 1))
    BY <1>3, AddPopIs DEF ObservePrior, DataInv
  <2> QED
    BY <1>3, <2>1, ObservationIsAddPop DEF ObservePrior, DataInv
<1>4. ASSUME NEW loc \in Loc, SetPrior(loc) PROVE DataInv'
  BY <1>4 DEF SetPrior, DataInv
<1>5. ASSUME NEW loc \in Loc, Forget(loc) PROVE DataInv'
  <2>1. CountStore(RemovePop(data, loc, 1))
    BY RemovePopIs DEF DataInv
  <2> QED
    BY <1>5, <2>1 DEF Forget, DataInv
<1>6. CASE MakePrior
  BY <1>6, NewCounts DEF MakePrior, DataInv
<1>7. CASE StartTracker
  BY <1>7, NewCounts DEF StartTracker, DataInv
<1>8. CASE StartSparse
  BY <1>8, NewCounts DEF StartSparse, DataInv
<1>9. CASE UNCHANGED vars
  BY <1>9 DEF vars, DataInv
<1> QED
  BY <1>1, <1>2, <1>3, <1>4, <1>5, <1>6, <1>7, <1>8, <1>9 DEF Next

LEMMA DataInvAlways == Spec => []DataInv
BY DataInvInit, DataInvStep, PTL DEF Spec

LEMMA CountsTotal ==
  ASSUME NEW s, CountStore(s)
  PROVE  Counts(s) = [l \in Loc |-> Get(s, l, 0)] /\ s.total = SumFunction([l \in Loc |-> Get(s, l, 0)])
<1>1. Counts(s) = [l \in Loc |-> Get(s, l, 0)] /\ DOMAIN Counts(s) = Loc
  BY DEF Counts, CountAt
<1>2. s.total = SumFunctionOnSet(Counts(s), Loc)
  BY DEF CountStore
<1> QED
  BY <1>1, <1>2 DEF SumFunction

LEMMA CountsInit == Init => Abstract!Init
<1>1. NewParams.total = 0 /\ [l \in Loc |-> Get(NewParams, l, 0)] = [l \in Loc |-> 0]
  BY NewCounts, NewIsStore, CountsTotal
<1> QED
  BY <1>1 DEF Init, Abstract!Init, Abstract!Empty

(* One step of the counts, by what it does to the store. *)
Added(s, t, l, n) == Counts(t) = [Counts(s) EXCEPT ![l] = @ + n]
Taken(s, t, l, n) == Counts(t) = [Counts(s) EXCEPT ![l] = IF @ > n THEN @ - n ELSE 0]
Joined(s, t, other) == Counts(t) = [l \in Loc |-> Counts(s)[l] + other[l]]

LEMMA DataSteps ==
  DataInv /\ DataInv' /\ [Next]_vars =>
    \/ \E l \in Loc, n \in 1..2 : Added(data, data', l, n) \/ Taken(data, data', l, n)
    \/ \E pairs \in Merged : Joined(data, data', Counts(FromPairs(pairs)))
    \/ Counts(data') = [l \in Loc |-> 0]
    \/ data' = data
<1> SUFFICES ASSUME DataInv, [Next]_vars,
                    ~ \E l \in Loc, n \in 1..2 : Added(data, data', l, n) \/ Taken(data, data', l, n),
                    ~ \E pairs \in Merged : Joined(data, data', Counts(FromPairs(pairs))),
                    Counts(data') # [l \in Loc |-> 0]
             PROVE  data' = data
  OBVIOUS
<1>1. CountStore(data) /\ Counts(data) \in [Loc -> Nat]
      /\ \A l \in Loc : Counts(data)[l] = CountAt(data, l)
  BY CountsType DEF DataInv, CountStore, Counts
<1>2. ASSUME NEW loc \in Loc, NEW n \in 1..2, data' = AddPop(data, loc, n) PROVE FALSE
  <2>1. n \in Nat
    OBVIOUS
  <2>2. Counts(data') = [Counts(data) EXCEPT ![loc] = CountAt(data, loc) + n]
    BY <1>1, <1>2, <2>1, AddPopIs
  <2>3. Added(data, data', loc, n)
    BY <1>1, <2>2 DEF Added
  <2> QED
    BY <2>3
<1>3. ASSUME NEW loc \in Loc, NEW n \in 1..2, data' = RemovePop(data, loc, n) PROVE FALSE
  <2>1. n \in Nat
    OBVIOUS
  <2> DEFINE c == CountAt(data, loc)
  <2>2. Counts(data') = [Counts(data) EXCEPT ![loc] = IF c > n THEN c - n ELSE 0]
    BY <1>1, <1>3, <2>1, RemovePopIs
  <2>3. Taken(data, data', loc, n)
    BY <1>1, <2>2 DEF Taken
  <2> QED
    BY <2>3
<1>4. ASSUME NEW pairs \in Merged, data' = Merge(data, FromPairs(pairs)) PROVE FALSE
  <2>1. SumOfStores(data, FromPairs(pairs), data')
    BY <1>1, <1>4, MergedAre, MergeIs
  <2>2. Joined(data, data', Counts(FromPairs(pairs)))
    BY <1>1, <2>1 DEF Joined, SumOfStores, Counts
  <2> QED
    BY <2>2
<1>5. data' # NewParams
  BY NewCounts
<1>6. ASSUME NEW loc \in Loc, Forget(loc) PROVE FALSE
  BY <1>3, <1>6 DEF Forget
<1>7. ASSUME NEW loc \in Loc, NEW n \in 1..2, AddData(loc, n) \/ RemoveData(loc, n) \/ Observe(loc, n)
      PROVE  FALSE
  BY <1>2, <1>3, <1>7 DEF AddData, RemoveData, Observe
<1>8. ASSUME NEW pairs \in Merged, MergeData(pairs) PROVE FALSE
  BY <1>4, <1>8 DEF MergeData
<1>9. ASSUME NEW loc \in Loc, ObservePrior(loc) \/ SetPrior(loc) PROVE data' = data
  BY <1>9 DEF ObservePrior, SetPrior
<1> QED
  BY <1>5, <1>6, <1>7, <1>8, <1>9 DEF Next, vars, MakePrior, StartTracker, StartSparse

LEMMA SumIsSum ==
  ASSUME NEW f
  PROVE  Abstract!SumFunction(f) = SumFunction(f)
BY DEF Abstract!SumFunction, SumFunction, Abstract!SumFunctionOnSet, SumFunctionOnSet,
       Abstract!FoldFunctionOnSet, FoldFunctionOnSet, Abstract!MapThenFoldSet, MapThenFoldSet

LEMMA CountsStep == DataInv /\ DataInv' /\ [Next]_vars => [Abstract!Next]_Abstract!vars
<1> SUFFICES ASSUME DataInv, DataInv', [Next]_vars PROVE [Abstract!Next]_Abstract!vars
  OBVIOUS
<1>1. /\ Counts(data) = [l \in Loc |-> Get(data, l, 0)]
      /\ Counts(data') = [l \in Loc |-> Get(data', l, 0)]
      /\ data'.total = SumFunction([l \in Loc |-> Get(data', l, 0)])
  BY CountsTotal DEF DataInv
<1>2. data'.total = Abstract!SumFunction([l \in Loc |-> Get(data', l, 0)])
  BY <1>1, SumIsSum
<1>3. Abstract!Next <=> \/ \E l \in Loc, n \in 1..2 : Abstract!Add(l, n) \/ Abstract!Remove(l, n)
                        \/ \E pairs \in Merged : Abstract!Merge([l \in Loc |-> Get(FromPairs(pairs), l, 0)])
                        \/ Abstract!MovedAway
  BY <1>2 DEF Abstract!Next
<1>4. CASE data' = data
  BY <1>4 DEF Abstract!vars
<1>5. CASE Counts(data') = [l \in Loc |-> 0]
  BY <1>1, <1>3, <1>5 DEF Abstract!MovedAway, Abstract!Empty
<1>6. ASSUME NEW l \in Loc, NEW n \in 1..2, Added(data, data', l, n) PROVE Abstract!Next
  <2>1. Abstract!Add(l, n)
    BY <1>1, <1>6 DEF Abstract!Add, Added
  <2> QED
    BY <1>3, <2>1
<1>7. ASSUME NEW l \in Loc, NEW n \in 1..2, Taken(data, data', l, n) PROVE Abstract!Next
  <2>1. Abstract!Remove(l, n)
    BY <1>1, <1>7 DEF Abstract!Remove, Taken
  <2> QED
    BY <1>3, <2>1
<1>8. ASSUME NEW pairs \in Merged, Joined(data, data', Counts(FromPairs(pairs))) PROVE Abstract!Next
  <2> DEFINE other == [l \in Loc |-> Get(FromPairs(pairs), l, 0)]
  <2>1. Counts(FromPairs(pairs)) = other
    BY DEF Counts, CountAt
  <2>2. Abstract!Merge(other)
    BY <1>1, <1>8, <2>1 DEF Abstract!Merge, Joined
  <2> QED
    BY <1>3, <2>2
<1> QED
  BY <1>4, <1>5, <1>6, <1>7, <1>8, DataSteps

(* Every operation of DiscreteData (add_pop, remove_pop, a merge, being    *)
(* taken over) is one of a count per address and their sum, for any        *)
(* addresses, and in any order.                                            *)
THEOREM DataOfCounts == Spec => DataIsCounts
<1>1. DataInv /\ DataInv' /\ [Next]_vars => [Abstract!Next]_Abstract!vars
  BY CountsStep
<1> QED
  BY CountsInit, DataInvAlways, <1>1, PTL DEF Spec, DataIsCounts, Abstract!Spec

-----------------------------------------------------------------------------
(* The sums of the first values: a sample is the address whose part of the *)
(* total holds the drawn number.                                           *)
UpToSum(s, j) == SumFunctionOnSet(s.values, 1..j)

LEMMA UpToSums ==
  ASSUME NEW s, IsStore(s, Nat)
  PROVE  LET n == Len(s.indexes)
         IN /\ n \in Nat /\ UpToSum(s, 0) = 0 /\ \A j \in 0..n : UpToSum(s, j) \in Nat
            /\ \A j \in 1..n : /\ j - 1 \in 0..n /\ s.values[j] \in Nat
                               /\ UpToSum(s, j) = UpToSum(s, j - 1) + s.values[j]
<1> DEFINE n == Len(s.indexes)
           v == s.values
<1>1. n \in Nat /\ \A i \in 1..n : v[i] \in Nat
  BY DEF IsStore, Sorted
<1> HIDE DEF n, v
<1>2. UpToSum(s, 0) = 0
  <2>1. 1..0 = {}
    OBVIOUS
  <2> QED
    BY <2>1, SumOfNone DEF UpToSum
<1>3. ASSUME NEW j \in 0..n PROVE UpToSum(s, j) \in Nat
  <2>1. IsFiniteSet(1..j) /\ \A i \in 1..j : v[i] \in Nat
    BY <1>1, FS_Interval
  <2> QED
    BY <2>1, SumOfNaturals DEF UpToSum, v
<1>4. ASSUME NEW j \in 1..n
      PROVE  /\ j - 1 \in 0..n /\ v[j] \in Nat
             /\ UpToSum(s, j) = UpToSum(s, j - 1) + v[j]
  <2>1. /\ IsFiniteSet(1..(j - 1)) /\ j \notin 1..(j - 1) /\ 1..j = 1..(j - 1) \cup {j}
        /\ \A i \in 1..(j - 1) \cup {j} : v[i] \in Int
    BY <1>1, FS_Interval
  <2>2. SumFunctionOnSet(v, 1..(j - 1) \cup {j}) = SumFunctionOnSet(v, 1..(j - 1)) + v[j]
    BY <2>1, SumWith
  <2>3. UpToSum(s, j) = UpToSum(s, j - 1) + v[j]
    <3>1. SumFunctionOnSet(v, 1..j) = SumFunctionOnSet(v, 1..(j - 1) \cup {j})
      BY <2>1
    <3> QED
      BY <3>1, <2>2 DEF UpToSum, v
  <2> QED
    BY <1>1, <2>3
<1> QED
  BY <1>1, <1>2, <1>3, <1>4 DEF n, v

LEMMA UpToSumGrows ==
  ASSUME NEW s, IsStore(s, Nat), NEW i \in 0..Len(s.indexes), NEW j \in i..Len(s.indexes)
  PROVE  UpToSum(s, i) <= UpToSum(s, j)
<1> DEFINE n == Len(s.indexes)
           P == {m \in Nat : m <= n /\ i <= m => UpToSum(s, i) <= UpToSum(s, m)}
<1>1. n \in Nat /\ (\A m \in 0..n : UpToSum(s, m) \in Nat)
      /\ \A m \in 1..n : UpToSum(s, m) = UpToSum(s, m - 1) + s.values[m] /\ s.values[m] \in Nat
  BY UpToSums
<1>2. 0 \in P
  BY <1>1
<1>3. ASSUME NEW m \in P PROVE m + 1 \in P
  <2> SUFFICES ASSUME m + 1 <= n, i <= m + 1 PROVE UpToSum(s, i) <= UpToSum(s, m + 1)
    OBVIOUS
  <2>1. m + 1 \in 1..n /\ m \in 0..n /\ (m + 1) - 1 = m
    BY <1>1
  <2> HIDE DEF n
  <2>2. UpToSum(s, m + 1) = UpToSum(s, m) + s.values[m + 1] /\ s.values[m + 1] \in Nat
        /\ UpToSum(s, m) \in Nat
    BY <1>1, <2>1
  <2>3. i = m + 1 \/ UpToSum(s, i) <= UpToSum(s, m)
    BY <2>1
  <2>4. UpToSum(s, i) \in Nat
    BY <1>1 DEF n
  <2> QED
    BY <2>2, <2>3, <2>4
<1>4. P = Nat
  <2>1. P \in SUBSET Nat
    OBVIOUS
  <2> HIDE DEF P
  <2> QED
    BY <1>2, <1>3, <2>1, AllNaturals
<1> QED
  BY <1>1, <1>4

LEMMA UpToSumIsTotal ==
  ASSUME NEW s, IsStore(s, Nat)
  PROVE  UpToSum(s, Len(s.indexes)) = SumFunctionOnSet(Counts(s), Loc)
<1> DEFINE n == Len(s.indexes)
           U(j) == [l \in Loc |-> UpTo(s, j, l)]
           P == {m \in Nat : m <= n => SumFunctionOnSet(U(m), Loc) = UpToSum(s, m)}
<1>1. n \in Nat /\ UpToSum(s, 0) = 0 /\ (\A m \in 0..n : UpToSum(s, m) \in Nat) /\ IsFiniteSet(Loc)
      /\ \A m \in 1..n : UpToSum(s, m) = UpToSum(s, m - 1) + s.values[m] /\ s.values[m] \in Nat
  BY UpToSums, StoreAssumption
<1>2. 0 \in P
  <2>1. \A l \in Loc : U(0)[l] = 0
    BY UpToEnds
  <2> HIDE DEF U
  <2>2. SumFunctionOnSet(U(0), Loc) = 0
    BY <1>1, <2>1, SumOfZeros
  <2> QED
    BY <1>1, <2>2
<1>3. ASSUME NEW m \in P PROVE m + 1 \in P
  <2> SUFFICES ASSUME m + 1 <= n
               PROVE  SumFunctionOnSet(U(m + 1), Loc) = UpToSum(s, m + 1)
    OBVIOUS
  <2> DEFINE j == m + 1
             loc == s.indexes[j]
  <2>1. j \in 1..n /\ j - 1 = m /\ m \in 0..n
        /\ SumFunctionOnSet(U(m), Loc) = UpToSum(s, m)
    BY <1>1
  <2> HIDE DEF j
  <2>2. loc \in Loc
    BY <2>1, <1>1 DEF IsStore, Sorted
  <2>3. /\ U(j)[loc] = s.values[j] /\ U(m)[loc] = 0
        /\ \A l \in Loc : U(m)[l] \in Nat /\ (l # loc => U(m)[l] = U(j)[l])
    <3>1. \A l \in Loc : /\ UpTo(s, j - 1, l) \in Nat
                         /\ l = loc => UpTo(s, j, l) = s.values[j] /\ UpTo(s, j - 1, l) = 0
                         /\ l # loc => UpTo(s, j, l) = UpTo(s, j - 1, l)
      BY <2>1, UpToSteps
    <3> QED
      BY <2>1, <2>2, <3>1
  <2> HIDE DEF U, loc, n
  <2>4. s.values[j] \in Nat /\ UpToSum(s, j) = UpToSum(s, m) + s.values[j] /\ UpToSum(s, m) \in Nat
    BY <1>1, <2>1
  <2>5. /\ \A l \in Loc : U(m)[l] \in Int /\ U(j)[l] \in Int
        /\ \A l \in Loc \ {loc} : U(m)[l] = U(j)[l]
    BY <2>3, <2>4
  <2>6. SumFunctionOnSet(U(j), Loc) = SumFunctionOnSet(U(m), Loc) + U(j)[loc] - U(m)[loc]
    BY <1>1, <2>2, <2>5, SumChanges
  <2> QED
    BY <2>1, <2>3, <2>4, <2>6 DEF j
<1>4. P = Nat
  <2>1. P \in SUBSET Nat
    OBVIOUS
  <2> HIDE DEF P
  <2> QED
    BY <1>2, <1>3, <2>1, AllNaturals
<1>5. \A l \in Loc : U(n)[l] = Counts(s)[l]
  BY UpToEnds DEF Counts
<1>6. SumFunctionOnSet(U(n), Loc) = UpToSum(s, n)
  <2> HIDE DEF U
  <2> QED
    BY <1>1, <1>4
<1> HIDE DEF U, n
<1>7. SumFunctionOnSet(U(n), Loc) = SumFunctionOnSet(Counts(s), Loc)
  BY <1>1, <1>5, SumOfSame
<1> QED
  BY <1>6, <1>7 DEF n

(* The draws that find the address at j. *)
Part(s, j) == UpToSum(s, j - 1)..(UpToSum(s, j) - 1)

Climbs(f, n) ==
  f[0] = 0 /\ (\A j \in 0..n : f[j] \in Nat) /\ \A i \in 0..n : \A j \in i..n : f[i] <= f[j]

PassedBy(f, n, drawn) == {j \in 1..n : drawn < f[j]}
FirstIn(S) == CHOOSE j \in S : \A i \in S : j <= i

LEMMA FirstPassed ==
  ASSUME NEW n \in Nat, NEW f, NEW drawn \in Nat, drawn < f[n], Climbs(f, n)
  PROVE  LET passed == PassedBy(f, n, drawn)
             least == FirstIn(passed)
         IN /\ passed # {} /\ least \in 1..n /\ drawn < f[least] /\ f[least - 1] <= drawn
            /\ \A j \in 1..n : drawn < f[j] /\ f[j - 1] <= drawn => j = least
<1> DEFINE passed == PassedBy(f, n, drawn)
           least == FirstIn(passed)
<1>0. /\ f[0] = 0 /\ \A j \in 0..n : f[j] \in Nat
      /\ \A i \in 0..n : \A j \in i..n : f[i] <= f[j]
  BY DEF Climbs
<1>1. n \in passed
  <2>1. n # 0
    BY <1>0
  <2> QED
    BY <2>1 DEF PassedBy
<1>2. PICK j \in passed : \A i \in passed : j <= i
  <2>1. passed \in SUBSET Nat /\ passed # {}
    BY <1>1 DEF PassedBy
  <2> HIDE DEF passed
  <2> QED
    BY <2>1, LeastNatural
<1>3. least \in passed /\ \A i \in passed : least <= i
  <2> HIDE DEF passed
  <2> QED
    BY <1>2 DEF FirstIn
<1> HIDE DEF least
<1>4. least \in 1..n /\ drawn < f[least] /\ least - 1 \in 0..n /\ \A i \in 1..n : drawn < f[i] => least <= i
  BY <1>3 DEF PassedBy
<1>5. f[least - 1] <= drawn
  <2>1. CASE least = 1
    BY <1>0, <1>4, <2>1
  <2>2. CASE least # 1
    <3>1. least - 1 \in 1..n /\ ~(least <= least - 1)
      BY <1>4, <2>2
    <3>2. ~(drawn < f[least - 1]) /\ f[least - 1] \in Nat
      BY <1>0, <1>4, <3>1
    <3> QED
      BY <3>2
  <2> QED
    BY <2>1, <2>2
<1>6. ASSUME NEW k \in 1..n, drawn < f[k], f[k - 1] <= drawn PROVE k = least
  <2>1. least <= k
    BY <1>4, <1>6
  <2>2. CASE least < k
    <3>1. least \in 0..n /\ k - 1 \in least..n
      BY <1>4, <2>2
    <3>2. f[least] <= f[k - 1] /\ f[least] \in Nat /\ f[k - 1] \in Nat
      BY <1>0, <3>1
    <3> QED
      BY <1>4, <1>6, <3>2
  <2> QED
    BY <1>4, <2>1, <2>2
<1> QED
  BY <1>1, <1>4, <1>5, <1>6 DEF least

LEMMA SampledIs ==
  ASSUME NEW s, CountStore(s), NEW drawn \in 0..s.total - 1
  PROVE  LET n == Len(s.indexes)
         IN /\ SampledAt(s, drawn) # None
            /\ \A j \in 1..n : SampledAt(s, drawn) = s.indexes[j] <=> drawn \in Part(s, j)
<1> DEFINE n == Len(s.indexes)
           f == [j \in 0..n |-> UpToSum(s, j)]
           passed == PassedBy(f, n, drawn)
           least == FirstIn(passed)
<1>1. /\ IsStore(s, Nat) /\ s.total = UpToSum(s, n)
  BY UpToSumIsTotal DEF CountStore
<1>2. n \in Nat /\ UpToSum(s, 0) = 0 /\ \A j \in 0..n : UpToSum(s, j) \in Nat
  BY <1>1, UpToSums
<1>3. \A i \in 0..n : \A j \in i..n : UpToSum(s, i) <= UpToSum(s, j)
  BY <1>1, UpToSumGrows
<1>4. /\ Places(s) = 1..n /\ DOMAIN s.values = 1..n /\ \A j \in 1..n : s.indexes[j] \in Loc
      /\ \A i, j \in 1..n : i # j => s.indexes[i] # s.indexes[j]
  <2>1. Sorted(s.indexes) /\ s.values \in Seq(Nat) /\ Len(s.values) = n
    BY <1>1 DEF IsStore
  <2>2. \A j \in 1..n : s.indexes[j] \in Nat
    <3>1. \A j \in 1..n : s.indexes[j] \in Loc
      BY <2>1 DEF Sorted
    <3> HIDE DEF n
    <3> QED
      BY <3>1, StoreAssumption
  <2>3. ASSUME NEW i \in 1..n, NEW j \in 1..n, i # j PROVE s.indexes[i] # s.indexes[j]
    <3>1. i < j \/ j < i
      BY <1>2, <2>3
    <3>2. s.indexes[i] < s.indexes[j] \/ s.indexes[j] < s.indexes[i]
      BY <2>1, <3>1 DEF Sorted
    <3> QED
      BY <2>2, <3>2
  <2> QED
    BY <2>1, <2>3 DEF Places, Sorted
<1>5. \A j \in 1..n : SumOver(1..j, LAMBDA i : s.values[i]) = UpToSum(s, j)
  <2> SUFFICES ASSUME NEW j \in 1..n
               PROVE  SumFunctionOnSet([i \in 1..j |-> s.values[i]], 1..j) = SumFunctionOnSet(s.values, 1..j)
    BY DEF SumOver, SumFunction, UpToSum
  <2> DEFINE g == [i \in 1..j |-> s.values[i]]
  <2>1. IsFiniteSet(1..j) /\ \A i \in 1..j : g[i] = s.values[i]
    BY <1>2, FS_Interval
  <2> HIDE DEF g
  <2> QED
    BY <2>1, SumOfSame
<1>6. {j \in Places(s) : drawn < SumOver(1..j, LAMBDA i : s.values[i])} = passed
  <2>1. \A j \in 1..n : f[j] = UpToSum(s, j)
    BY <1>2
  <2> QED
    BY <1>4, <1>5, <2>1 DEF PassedBy
<1>7. /\ passed # {} /\ least \in 1..n /\ drawn < f[least] /\ f[least - 1] <= drawn
      /\ \A j \in 1..n : drawn < f[j] /\ f[j - 1] <= drawn => j = least
  <2>1. Climbs(f, n)
    <3>1. 0 \in 0..n /\ \A j \in 0..n : f[j] = UpToSum(s, j)
      BY <1>2
    <3>2. \A i \in 0..n : \A j \in i..n : j \in 0..n
      BY <1>2
    <3> HIDE DEF f, n
    <3> QED
      BY <1>2, <1>3, <3>1, <3>2 DEF Climbs
  <2>2. drawn < f[n] /\ drawn \in Nat
    BY <1>1, <1>2
  <2> HIDE DEF f, n
  <2> QED
    BY <1>2, <2>1, <2>2, FirstPassed
<1>8. SampledAt(s, drawn) = s.indexes[least]
  BY <1>6, <1>7 DEF SampledAt, FirstIn
<1> HIDE DEF least, passed
<1>9. SampledAt(s, drawn) # None
  BY <1>4, <1>7, <1>8, TrackerAssumption
<1>10. ASSUME NEW j \in 1..n PROVE SampledAt(s, drawn) = s.indexes[j] <=> drawn \in Part(s, j)
  <2>1. SampledAt(s, drawn) = s.indexes[j] <=> j = least
    BY <1>4, <1>7, <1>8
  <2>2. j = least <=> drawn < f[j] /\ f[j - 1] <= drawn
    BY <1>7
  <2>3. f[j] = UpToSum(s, j) /\ f[j - 1] = UpToSum(s, j - 1) /\ f[j] \in Nat /\ f[j - 1] \in Nat
    BY <1>2
  <2> HIDE DEF f
  <2>4. drawn \in Part(s, j) <=> drawn < f[j] /\ f[j - 1] <= drawn
    BY <2>3 DEF Part
  <2> QED
    BY <2>1, <2>2, <2>4
<1> QED
  BY <1>9, <1>10

LEMMA SamplesFollow ==
  ASSUME NEW s, CountStore(s)
  PROVE  /\ \A drawn \in 0..s.total - 1 : SampledAt(s, drawn) # None
         /\ \A j \in Places(s) :
              Cardinality({drawn \in 0..s.total - 1 : SampledAt(s, drawn) = s.indexes[j]}) = s.values[j]
<1> DEFINE n == Len(s.indexes)
<1>1. IsStore(s, Nat) /\ s.total = UpToSum(s, n) /\ Places(s) = 1..n
  BY UpToSumIsTotal DEF CountStore, IsStore, Places
<1>2. /\ n \in Nat /\ UpToSum(s, 0) = 0 /\ (\A j \in 0..n : UpToSum(s, j) \in Nat)
      /\ \A j \in 1..n : /\ j - 1 \in 0..n /\ s.values[j] \in Nat
                         /\ UpToSum(s, j) = UpToSum(s, j - 1) + s.values[j]
  BY <1>1, UpToSums
<1>3. \A drawn \in 0..s.total - 1 :
        /\ SampledAt(s, drawn) # None
        /\ \A j \in 1..n : SampledAt(s, drawn) = s.indexes[j] <=> drawn \in Part(s, j)
  BY SampledIs
<1>4. ASSUME NEW j \in 1..n
      PROVE  Cardinality({drawn \in 0..s.total - 1 : SampledAt(s, drawn) = s.indexes[j]}) = s.values[j]
  <2> DEFINE a == UpToSum(s, j - 1)
             b == UpToSum(s, j)
             drawnAt == {drawn \in 0..s.total - 1 : SampledAt(s, drawn) = s.indexes[j]}
  <2>1. b <= UpToSum(s, n) /\ j \in 0..n /\ n \in j..n
    <3>1. j \in 0..n /\ n \in j..n
      BY <1>2
    <3> QED
      BY <1>1, <3>1, UpToSumGrows
  <2>2. a \in Nat /\ b \in Nat /\ b = a + s.values[j] /\ s.values[j] \in Nat
    BY <1>2, <2>1
  <2>3. Part(s, j) = a..(b - 1)
    BY DEF Part
  <2>4. drawnAt = {drawn \in 0..s.total - 1 : drawn \in Part(s, j)}
    BY <1>3
  <2> HIDE DEF a, b, drawnAt, n
  <2>5. drawnAt = a..(b - 1)
    <3>1. s.total \in Nat /\ b <= s.total
      BY <1>1, <1>2, <2>1
    <3>2. \A drawn \in a..(b - 1) : drawn \in 0..s.total - 1
      BY <2>2, <3>1
    <3> QED
      BY <2>3, <2>4, <3>2
  <2>6. Cardinality(a..(b - 1)) = IF a > b - 1 THEN 0 ELSE (b - 1) - a + 1
    <3> DEFINE c == b - 1
    <3>1. a \in Int /\ c \in Int
      BY <2>2
    <3> HIDE DEF c
    <3>2. Cardinality(a..c) = IF a > c THEN 0 ELSE c - a + 1
      BY <3>1, FS_Interval
    <3> QED
      BY <3>2 DEF c
  <2>7. Cardinality(drawnAt) = s.values[j]
    <3>1. (IF a > b - 1 THEN 0 ELSE (b - 1) - a + 1) = s.values[j]
      BY <2>2
    <3> QED
      BY <2>5, <2>6, <3>1
  <2> QED
    BY <2>7 DEF drawnAt
<1> QED
  BY <1>1, <1>3, <1>4

(* A sample over the total of the counts, or of a prior, finds an address, *)
(* and each address in as many draws as it counts, whatever was collected, *)
(* taken away, merged and observed before.                                 *)
THEOREM SamplesFollowCounts == Spec => []SampleFollowsCounts
<1>1. DataInv => SampleFollowsCounts
  BY SamplesFollow DEF DataInv, SampleFollowsCounts
<1> QED
  BY DataInvAlways, <1>1, PTL

-----------------------------------------------------------------------------
(* What an address adds to the divergence and to the likelihood.           *)
KlPart(a, c, total) ==
  IF c > 0 THEN LnGamma[a + c] - LnGamma[a] - c * (Digamma[a] - Digamma[total]) ELSE 0
MllPart(a, c) ==
  IF c > 0 THEN LnGamma[a + c] - LnGamma[a] - LnGamma[c + 1] ELSE 0

KlParts(p, d) == [l \in Loc |-> KlPart(CountAt(p, l), CountAt(d, l), p.total)]
MllParts(p, d) == [l \in Loc |-> MllPart(CountAt(p, l), CountAt(d, l))]

(* A prior, and evidence at addresses it has. *)
Backed(p) ==
  /\ CountStore(p) /\ p.total \in 1..MaxTotal
  /\ \A l \in Loc : Holds(p, l) => CountAt(p, l) > 0
Evidence(p, d) ==
  /\ Backed(p) /\ CountStore(d) /\ d.total \in 0..MaxTotal
  /\ \A l \in Loc : Holds(d, l) => Holds(p, l)

LEMMA Tabled ==
  ASSUME NEW n \in 1..2*MaxTotal + 1
  PROVE  LnGamma[n] \in Int /\ Digamma[n] \in Int
BY TrackerAssumption

LEMMA Amounts ==
  ASSUME NEW p, NEW d, Evidence(p, d), NEW l \in Loc
  PROVE  LET a == CountAt(p, l)
             c == CountAt(d, l)
         IN /\ a \in 0..p.total /\ c \in 0..d.total /\ p.total \in 1..MaxTotal /\ d.total \in 0..MaxTotal
            /\ Holds(p, l) <=> a > 0
            /\ c > 0 => Holds(d, l) /\ a > 0
<1>1. IsStore(p, Nat) /\ IsStore(d, Nat) /\ p.total \in 1..MaxTotal /\ d.total \in 0..MaxTotal
      /\ p.total = SumFunctionOnSet(Counts(p), Loc) /\ d.total = SumFunctionOnSet(Counts(d), Loc)
  BY DEF Evidence, Backed, CountStore
<1>2. /\ CountAt(p, l) \in Nat /\ CountAt(p, l) <= p.total
      /\ CountAt(d, l) \in Nat /\ CountAt(d, l) <= d.total
  BY <1>1, CountsType
<1>3. /\ ~Holds(p, l) => CountAt(p, l) = 0
      /\ ~Holds(d, l) => CountAt(d, l) = 0
  BY <1>1, GetIs
<1>4. /\ Holds(d, l) => Holds(p, l)
      /\ Holds(p, l) => CountAt(p, l) > 0
  BY DEF Evidence, Backed
<1> QED
  BY <1>1, <1>2, <1>3, <1>4

LEMMA PartType ==
  ASSUME NEW total \in 1..MaxTotal, NEW a \in 0..total, NEW c \in 0..MaxTotal, c > 0 => a > 0
  PROVE  KlPart(a, c, total) \in Int /\ MllPart(a, c) \in Int
<1>0. MaxTotal \in Nat
  BY TrackerAssumption
<1>1. CASE c > 0
  <2>1. a + c \in 1..2*MaxTotal + 1 /\ a \in 1..2*MaxTotal + 1 /\ c + 1 \in 1..2*MaxTotal + 1
        /\ total \in 1..2*MaxTotal + 1
    BY <1>0, <1>1
  <2>2. /\ LnGamma[a + c] \in Int /\ LnGamma[a] \in Int /\ LnGamma[c + 1] \in Int
        /\ Digamma[a] \in Int /\ Digamma[total] \in Int
    BY <2>1, Tabled
  <2>3. c * (Digamma[a] - Digamma[total]) \in Int
    BY <2>2
  <2> QED
    BY <2>2, <2>3 DEF KlPart, MllPart
<1>2. CASE ~(c > 0)
  BY <1>2 DEF KlPart, MllPart
<1> QED
  BY <1>1, <1>2

LEMMA PartsType ==
  ASSUME NEW p, NEW d, Evidence(p, d)
  PROVE  /\ \A l \in Loc : KlParts(p, d)[l] \in Int /\ MllParts(p, d)[l] \in Int
         /\ SumFunctionOnSet(KlParts(p, d), Loc) \in Int
         /\ SumFunctionOnSet(MllParts(p, d), Loc) \in Int
<1>1. ASSUME NEW l \in Loc PROVE KlParts(p, d)[l] \in Int /\ MllParts(p, d)[l] \in Int
  <2> DEFINE a == CountAt(p, l)
             c == CountAt(d, l)
  <2>1. p.total \in 1..MaxTotal /\ a \in 0..p.total /\ c \in 0..MaxTotal /\ (c > 0 => a > 0)
    <3>1. /\ a \in 0..p.total /\ c \in 0..d.total /\ p.total \in 1..MaxTotal /\ d.total \in 0..MaxTotal
          /\ c > 0 => Holds(d, l) /\ a > 0
      BY Amounts
    <3> QED
      BY <3>1, TrackerAssumption
  <2>2. KlParts(p, d)[l] = KlPart(a, c, p.total) /\ MllParts(p, d)[l] = MllPart(a, c)
    BY DEF KlParts, MllParts
  <2> HIDE DEF a, c
  <2> QED
    BY <2>1, <2>2, PartType
<1>2. IsFiniteSet(Loc)
  BY StoreAssumption
<1> QED
  BY <1>1, <1>2, SumType

LEMMA PartsWhenNew ==
  ASSUME NEW p, NEW d, \A l \in Loc : CountAt(d, l) = 0
  PROVE  SumFunctionOnSet(KlParts(p, d), Loc) = 0 /\ SumFunctionOnSet(MllParts(p, d), Loc) = 0
<1>1. \A l \in Loc : KlParts(p, d)[l] = 0 /\ MllParts(p, d)[l] = 0
  BY DEF KlParts, MllParts, KlPart, MllPart
<1>2. IsFiniteSet(Loc)
  BY StoreAssumption
<1> QED
  BY <1>1, <1>2, SumOfZeros

(* The entry of a bucket, and what a tracker keeps. *)
EntryFor(a, c, total) ==
  [alpha |-> a, observations |-> c, digamma |-> Digamma[a], lnGamma |-> LnGamma[a],
   mll |-> MllPart(a, c), kl |-> KlPart(a, c, total)]
Entries ==
  [alpha : Nat, observations : Nat, digamma : Int, lnGamma : Int, mll : Int, kl : Int]

LEMMA EntryType ==
  ASSUME NEW total \in 1..MaxTotal, NEW a \in 1..total, NEW c \in 0..MaxTotal
  PROVE  /\ EntryFor(a, c, total) \in Entries
         /\ c = 0 => EntryFor(a, c, total) = NewEntry(a)
<1>1. MaxTotal \in Nat
  BY TrackerAssumption
<1>2. a \in 1..2*MaxTotal + 1 /\ a \in 0..total /\ a \in Nat /\ c \in Nat /\ a > 0
  BY <1>1
<1>3. LnGamma[a] \in Int /\ Digamma[a] \in Int
  BY <1>2, Tabled
<1>4. KlPart(a, c, total) \in Int /\ MllPart(a, c) \in Int
  BY <1>2, PartType
<1>5. EntryFor(a, c, total) \in Entries
  BY <1>2, <1>3, <1>4 DEF EntryFor, Entries
<1>6. c = 0 => EntryFor(a, c, total) = NewEntry(a)
  BY DEF EntryFor, NewEntry, KlPart, MllPart
<1> QED
  BY <1>5, <1>6

LEMMA UpdateIs ==
  ASSUME NEW total \in 1..MaxTotal, NEW a \in 1..total, NEW c \in Nat, NEW change \in Int,
         c + change \in Nat
  PROVE  UpdateEntry(EntryFor(a, c, total), change, Digamma[total]) = EntryFor(a, c + change, total)
<1> DEFINE e == EntryFor(a, c, total)
           n == c + change
<1>1. /\ e.alpha = a /\ e.observations = c /\ e.digamma = Digamma[a] /\ e.lnGamma = LnGamma[a]
      /\ e = [alpha |-> a, observations |-> c, digamma |-> Digamma[a], lnGamma |-> LnGamma[a],
              mll |-> MllPart(a, c), kl |-> KlPart(a, c, total)]
  BY DEF EntryFor
<1> DEFINE x == LnGamma[a + n] - LnGamma[a]
<1>2. UpdateEntry(e, change, Digamma[total]) =
        IF n > 0 THEN [e EXCEPT !.observations = n, !.mll = x - LnGamma[n + 1],
                                !.kl = x - n * (Digamma[a] - Digamma[total])]
        ELSE [e EXCEPT !.observations = 0, !.mll = 0, !.kl = 0]
  <2> HIDE DEF e
  <2> QED
    BY <1>1 DEF UpdateEntry
<1>3. \A o, m, k : [e EXCEPT !.observations = o, !.mll = m, !.kl = k] =
                   [alpha |-> a, observations |-> o, digamma |-> Digamma[a], lnGamma |-> LnGamma[a],
                    mll |-> m, kl |-> k]
  <2> HIDE DEF e
  <2> TAKE o, m, k
  <2> DEFINE e1 == [e EXCEPT !.observations = o]
             e2 == [e1 EXCEPT !.mll = m]
  <2>1. e1 = [alpha |-> a, observations |-> o, digamma |-> Digamma[a], lnGamma |-> LnGamma[a],
              mll |-> MllPart(a, c), kl |-> KlPart(a, c, total)]
    BY <1>1
  <2> HIDE DEF e1
  <2>2. e2 = [alpha |-> a, observations |-> o, digamma |-> Digamma[a], lnGamma |-> LnGamma[a],
              mll |-> m, kl |-> KlPart(a, c, total)]
    BY <2>1
  <2> HIDE DEF e2
  <2>3. [e2 EXCEPT !.kl = k] = [alpha |-> a, observations |-> o, digamma |-> Digamma[a],
                                lnGamma |-> LnGamma[a], mll |-> m, kl |-> k]
    BY <2>2
  <2> QED
    BY <2>3 DEF e1, e2
<1>4. /\ n > 0 => MllPart(a, n) = x - LnGamma[n + 1] /\ KlPart(a, n, total) = x - n * (Digamma[a] - Digamma[total])
      /\ ~(n > 0) => MllPart(a, n) = 0 /\ KlPart(a, n, total) = 0 /\ n = 0
  BY DEF MllPart, KlPart
<1> HIDE DEF e, n, x
<1>5. UpdateEntry(e, change, Digamma[total]) = EntryFor(a, n, total)
  <2>1. EntryFor(a, n, total) = [alpha |-> a, observations |-> n, digamma |-> Digamma[a],
                                 lnGamma |-> LnGamma[a], mll |-> MllPart(a, n), kl |-> KlPart(a, n, total)]
    BY DEF EntryFor
  <2> QED
    BY <1>2, <1>3, <1>4, <2>1
<1> QED
  BY <1>5 DEF e, n

TrackerRecord(store, totalAlpha, sparseAlpha, observed, kl, klConst, mll, mllConst, buckets,
              digammaTotal, lnGammaTotal) ==
  [store |-> store, totalAlpha |-> totalAlpha, sparseAlpha |-> sparseAlpha, observed |-> observed,
   kl |-> kl, klConst |-> klConst, mll |-> mll, mllConst |-> mllConst, buckets |-> buckets,
   digammaTotal |-> digammaTotal, lnGammaTotal |-> lnGammaTotal]

IsTracker(t) ==
  t = TrackerRecord(t.store, t.totalAlpha, t.sparseAlpha, t.observed, t.kl, t.klConst, t.mll,
                    t.mllConst, t.buckets, t.digammaTotal, t.lnGammaTotal)

(* The buckets are those of addresses of the prior, and of all that were   *)
(* observed, each with the prior and the evidence of its address.          *)
BucketsFollow(s, p, d) ==
  /\ IsStore(s, Entries)
  /\ \A l \in Loc :
       /\ Holds(s, l) => /\ Holds(p, l)
                         /\ ValueOf(s, l) = EntryFor(CountAt(p, l), CountAt(d, l), p.total)
       /\ Holds(d, l) => Holds(s, l)

(* The sums are those of the parts, over every address.                    *)
SumsFollow(t, p, d) ==
  /\ t.totalAlpha = p.total /\ t.observed = d.total
  /\ t.digammaTotal = Digamma[p.total] /\ t.lnGammaTotal = LnGamma[p.total]
  /\ t.klConst = LnGamma[p.total] - LnGamma[d.total + p.total]
  /\ t.kl = t.klConst + SumFunctionOnSet(KlParts(p, d), Loc)
  /\ t.mllConst \in Int
  /\ (\E l \in Loc : Holds(d, l)) =>
       t.mllConst = LnGamma[p.total] + LnGamma[d.total + 1] - LnGamma[d.total + p.total]
  /\ t.mll = t.mllConst + SumFunctionOnSet(MllParts(p, d), Loc)

Followed(t, p, d) == IsTracker(t) /\ BucketsFollow(t.store, p, d) /\ SumsFollow(t, p, d)

LEMMA NothingObserved ==
  ASSUME NEW p, Backed(p)
  PROVE  /\ Evidence(p, NewParams) /\ NewParams.total = 0 /\ p.total \in Nat /\ LnGamma[p.total] \in Int
         /\ (\A l \in Loc : ~Holds(NewParams, l) /\ CountAt(NewParams, l) = 0)
         /\ SumFunctionOnSet(KlParts(p, NewParams), Loc) = 0
         /\ SumFunctionOnSet(MllParts(p, NewParams), Loc) = 0
<1>1. NewParams.total = 0 /\ \A l \in Loc : ~Holds(NewParams, l) /\ CountAt(NewParams, l) = 0
  BY NewIsStore
<1>2. CountStore(NewParams) /\ MaxTotal \in Nat
  BY NewCounts, TrackerAssumption
<1>3. Evidence(p, NewParams)
  BY <1>1, <1>2 DEF Evidence
<1>4. p.total \in 1..MaxTotal
  BY DEF Backed
<1>5. p.total \in 1..2*MaxTotal + 1
  BY <1>2, <1>4
<1> QED
  BY <1>1, <1>3, <1>4, <1>5, Tabled, PartsWhenNew

LEMMA EmptyFollows ==
  ASSUME NEW p, Backed(p), NEW n
  PROVE  Followed(EmptyTracker(p.total, n), p, NewParams)
<1> DEFINE t == EmptyTracker(p.total, n)
<1>1. /\ NewParams.total = 0 /\ p.total \in Nat /\ LnGamma[p.total] \in Int
      /\ (\A l \in Loc : ~Holds(NewParams, l) /\ CountAt(NewParams, l) = 0)
      /\ SumFunctionOnSet(KlParts(p, NewParams), Loc) = 0
      /\ SumFunctionOnSet(MllParts(p, NewParams), Loc) = 0
  BY NothingObserved
<1>2. /\ t.store = NewParams /\ t.totalAlpha = p.total /\ t.observed = 0 /\ t.kl = 0 /\ t.klConst = 0
      /\ t.mll = 0 /\ t.mllConst = 0 /\ t.digammaTotal = Digamma[p.total]
      /\ t.lnGammaTotal = LnGamma[p.total] /\ IsTracker(t)
  BY DEF EmptyTracker, IsTracker, TrackerRecord
<1> HIDE DEF t
<1>3. BucketsFollow(NewParams, p, NewParams)
  BY <1>1, NewIsStore DEF BucketsFollow
<1>4. 0 + p.total = p.total
  BY <1>1
<1>5. SumsFollow(t, p, NewParams)
  BY <1>1, <1>2, <1>4 DEF SumsFollow
<1> QED
  BY <1>2, <1>3, <1>5 DEF Followed, t

LEMMA WholeFollows ==
  ASSUME NEW p, Backed(p)
  PROVE  Followed(TrackerOf(p), p, NewParams)
<1> DEFINE e == EmptyTracker(p.total, Len(p.values))
           vs == [j \in Places(p) |-> NewEntry(p.values[j])]
           s == [p EXCEPT !.values = vs, !.total = 0]
           t == TrackerOf(p)
<1>1. IsStore(p, Nat) /\ p.total \in 1..MaxTotal /\ MaxTotal \in Nat
  BY TrackerAssumption DEF Backed, CountStore
<1>2. /\ Len(p.indexes) \in Nat /\ Places(p) = 1..Len(p.indexes) /\ Len(p.values) = Len(p.indexes)
      /\ \A j \in 1..Len(p.indexes) : p.values[j] \in Nat
  BY <1>1 DEF IsStore, Places, Sorted
<1>3. s = [indexes |-> p.indexes, hashed |-> NoTable, values |-> vs, total |-> 0]
  <2>1. p = StoreRecord(p.indexes, NoTable, p.values, p.total)
    BY <1>1 DEF IsStore, StoreRecord
  <2>2. s = WithValues(p, vs, 0)
    BY DEF WithValues
  <2> HIDE DEF vs, s
  <2>3. s = StoreRecord(p.indexes, NoTable, vs, 0)
    BY <2>1, <2>2, RecordChange
  <2> QED
    BY <2>3 DEF StoreRecord
<1>4. \A l \in Loc : Holds(s, l) <=> Holds(p, l)
  <2>1. s.indexes = p.indexes
    BY <1>3
  <2> QED
    BY <2>1 DEF Holds
<1>5. ASSUME NEW l \in Loc, Holds(p, l)
      PROVE  /\ CountAt(p, l) \in 1..p.total /\ Index(p, l) \in 1..Len(p.indexes)
             /\ CountAt(p, l) = p.values[Index(p, l)] /\ Index(s, l) = Index(p, l)
  <2>1. Index(p, l) \in 1..Len(p.indexes)
    BY <1>1, <1>5, IndexIs, SearchFinds
  <2>2. Index(s, l) = Index(p, l)
    <3>1. s.indexes = p.indexes /\ s.hashed = NoTable /\ p.hashed = NoTable
      BY <1>1, <1>3 DEF IsStore
    <3> HIDE DEF s
    <3> QED
      BY <3>1 DEF Index, Holds, SearchedAt
  <2>3. CountAt(p, l) = p.values[Index(p, l)]
    BY <1>1, <1>5, GetIs DEF ValueOf
  <2>4. CountAt(p, l) \in 0..p.total /\ CountAt(p, l) > 0
    BY <1>5, NothingObserved, Amounts
  <2> QED
    BY <1>1, <2>1, <2>2, <2>3, <2>4
<1>6. ASSUME NEW j \in 1..Len(p.indexes) PROVE NewEntry(p.values[j]) \in Entries
  <2> DEFINE l == p.indexes[j]
  <2>1. l \in Loc /\ Holds(p, l) /\ SearchedAt(p, l) = j
    <3>1. l \in Loc
      BY <1>1, <1>2 DEF IsStore, Sorted
    <3>2. Holds(p, l)
      BY <1>1, <1>2 DEF Holds, Contains, IsStore, Sorted
    <3>3. SearchedAt(p, l) = j
      BY <1>1, <3>1, SearchFinds
    <3> QED
      BY <3>1, <3>2, <3>3
  <2> HIDE DEF l
  <2>2. p.values[j] \in 1..p.total
    BY <1>1, <1>5, <2>1, IndexIs
  <2>3. 0 \in 0..MaxTotal
    BY <1>1
  <2> QED
    BY <1>1, <2>2, <2>3, EntryType
<1>7. IsStore(s, Entries)
  <2>1. vs \in Seq(Entries) /\ Len(vs) = Len(p.indexes)
    <3>1. vs \in [1..Len(p.indexes) -> Entries]
      BY <1>2, <1>6
    <3> HIDE DEF vs
    <3> QED
      BY <1>2, <3>1
  <2>2. Sorted(p.indexes)
    BY <1>1 DEF IsStore
  <2> HIDE DEF vs, s
  <2> QED
    BY <1>3, <2>1, <2>2 DEF IsStore
<1>8. BucketsFollow(s, p, NewParams)
  <2>1. ASSUME NEW l \in Loc, Holds(s, l)
        PROVE  Holds(p, l) /\ ValueOf(s, l) = EntryFor(CountAt(p, l), CountAt(NewParams, l), p.total)
    <3>1. /\ Holds(p, l) /\ CountAt(p, l) \in 1..p.total /\ Index(p, l) \in 1..Len(p.indexes)
          /\ CountAt(p, l) = p.values[Index(p, l)] /\ Index(s, l) = Index(p, l)
      BY <1>4, <1>5, <2>1
    <3>2. ValueOf(s, l) = NewEntry(CountAt(p, l))
      <4>1. s.values = vs /\ vs[Index(p, l)] = NewEntry(p.values[Index(p, l)])
        BY <1>2, <1>3, <3>1
      <4> HIDE DEF s, vs
      <4> QED
        BY <3>1, <4>1 DEF ValueOf
    <3>3. CountAt(NewParams, l) = 0 /\ 0 \in 0..MaxTotal
      BY <1>1, NewIsStore
    <3> HIDE DEF s
    <3>4. EntryFor(CountAt(p, l), 0, p.total) = NewEntry(CountAt(p, l))
      BY <1>1, <3>1, <3>3, EntryType
    <3> QED
      BY <3>1, <3>2, <3>3, <3>4
  <2>2. \A l \in Loc : ~Holds(NewParams, l)
    BY NewIsStore
  <2> HIDE DEF s
  <2> QED
    BY <1>7, <2>1, <2>2 DEF BucketsFollow
<1>9. Followed(e, p, NewParams)
  BY EmptyFollows
<1>10. t = TrackerRecord(s, e.totalAlpha, p.total, e.observed, e.kl, e.klConst, e.mll, e.mllConst,
                         e.buckets, e.digammaTotal, e.lnGammaTotal)
  <2>1. t = [e EXCEPT !.sparseAlpha = p.total, !.store = s]
    BY DEF TrackerOf
  <2> HIDE DEF t, e, s
  <2>2. e = [store |-> e.store, totalAlpha |-> e.totalAlpha, sparseAlpha |-> e.sparseAlpha,
             observed |-> e.observed, kl |-> e.kl, klConst |-> e.klConst, mll |-> e.mll,
             mllConst |-> e.mllConst, buckets |-> e.buckets, digammaTotal |-> e.digammaTotal,
             lnGammaTotal |-> e.lnGammaTotal]
    BY <1>9 DEF Followed, IsTracker, TrackerRecord
  <2> DEFINE e1 == [e EXCEPT !.sparseAlpha = p.total]
  <2>3. e1 = [store |-> e.store, totalAlpha |-> e.totalAlpha, sparseAlpha |-> p.total,
             observed |-> e.observed, kl |-> e.kl, klConst |-> e.klConst, mll |-> e.mll,
             mllConst |-> e.mllConst, buckets |-> e.buckets, digammaTotal |-> e.digammaTotal,
             lnGammaTotal |-> e.lnGammaTotal]
    BY <2>2
  <2>4. t = [e1 EXCEPT !.store = s]
    BY <2>1
  <2> HIDE DEF e1
  <2> QED
    BY <2>3, <2>4 DEF TrackerRecord
<1> HIDE DEF t, e, s
<1>11. IsTracker(t) /\ t.store = s /\ SumsFollow(t, p, NewParams)
  <2>1. /\ t.store = s /\ t.totalAlpha = e.totalAlpha /\ t.observed = e.observed /\ t.kl = e.kl
        /\ t.klConst = e.klConst /\ t.mll = e.mll /\ t.mllConst = e.mllConst
        /\ t.digammaTotal = e.digammaTotal /\ t.lnGammaTotal = e.lnGammaTotal /\ IsTracker(t)
    BY <1>10 DEF TrackerRecord, IsTracker
  <2> QED
    BY <1>9, <2>1 DEF Followed, SumsFollow
<1> QED
  BY <1>8, <1>11 DEF Followed, t

LEMMA SetAlphaFollows ==
  ASSUME NEW p, NEW d, Evidence(p, d), NEW t, Followed(t, p, d),
         NEW loc \in Loc, Holds(p, loc), ~Holds(t.store, loc)
  PROVE  Followed(SetAlpha(t, loc, ValueOf(p, loc)), p, d)
<1> DEFINE a == CountAt(p, loc)
           s == InsertLoc(t.store, loc, NewEntry(a))
           u == SetAlpha(t, loc, ValueOf(p, loc))
<1>1. IsStore(t.store, Entries) /\ IsTracker(t) /\ IsStore(p, Nat)
  BY DEF Followed, BucketsFollow, Evidence, Backed, CountStore
<1>2. a = ValueOf(p, loc) /\ IndexToUpdate(t.store, loc) = 0
  BY <1>1, GetIs, IndexIs
<1>3. a \in 1..p.total /\ p.total \in 1..MaxTotal /\ CountAt(d, loc) = 0 /\ 0 \in 0..MaxTotal
  <2>1. /\ a \in 0..p.total /\ p.total \in 1..MaxTotal /\ a > 0
        /\ CountAt(d, loc) \in 0..d.total /\ d.total \in 0..MaxTotal
        /\ CountAt(d, loc) > 0 => Holds(d, loc)
    BY Amounts
  <2>2. ~Holds(d, loc)
    BY DEF Followed, BucketsFollow
  <2>3. MaxTotal \in Nat
    BY TrackerAssumption
  <2> HIDE DEF a
  <2> QED
    BY <2>1, <2>2, <2>3
<1>4. EntryFor(a, 0, p.total) \in Entries /\ EntryFor(a, 0, p.total) = NewEntry(a)
  <2> HIDE DEF a
  <2> QED
    BY <1>3, EntryType
<1>5. u = [t EXCEPT !.sparseAlpha = @ + a, !.store = s]
  <2> HIDE DEF a
  <2> QED
    BY <1>2 DEF SetAlpha
<1>6. SetTo(t.store, s, loc, NewEntry(a), t.store.total, Entries)
  BY <1>1, <1>4, InsertKeeps
<1>7. BucketsFollow(s, p, d)
  <2>1. ASSUME NEW l \in Loc, Holds(s, l)
        PROVE  Holds(p, l) /\ ValueOf(s, l) = EntryFor(CountAt(p, l), CountAt(d, l), p.total)
    <3>1. CASE l = loc
      BY <1>3, <1>4, <1>6, <3>1 DEF SetTo
    <3>2. CASE l # loc
      <4>1. Holds(t.store, l) /\ ValueOf(s, l) = ValueOf(t.store, l)
        BY <1>6, <2>1, <3>2 DEF SetTo, Same
      <4> QED
        BY <4>1 DEF Followed, BucketsFollow
    <3> QED
      BY <3>1, <3>2
  <2>2. ASSUME NEW l \in Loc, Holds(d, l) PROVE Holds(s, l)
    <3>1. Holds(t.store, l)
      BY <2>2 DEF Followed, BucketsFollow
    <3> QED
      BY <1>6, <3>1 DEF SetTo, Same
  <2>3. IsStore(s, Entries)
    BY <1>6 DEF SetTo
  <2> HIDE DEF s
  <2> QED
    BY <2>1, <2>2, <2>3 DEF BucketsFollow
<1> HIDE DEF u, s
<1> DEFINE x == t.sparseAlpha + a
<1>8. u = TrackerRecord(s, t.totalAlpha, x, t.observed, t.kl, t.klConst, t.mll, t.mllConst,
                        t.buckets, t.digammaTotal, t.lnGammaTotal)
  <2>1. t = [store |-> t.store, totalAlpha |-> t.totalAlpha, sparseAlpha |-> t.sparseAlpha,
             observed |-> t.observed, kl |-> t.kl, klConst |-> t.klConst, mll |-> t.mll,
             mllConst |-> t.mllConst, buckets |-> t.buckets, digammaTotal |-> t.digammaTotal,
             lnGammaTotal |-> t.lnGammaTotal]
    BY <1>1 DEF IsTracker, TrackerRecord
  <2> DEFINE e1 == [t EXCEPT !.sparseAlpha = x]
  <2>2. u = [e1 EXCEPT !.store = s]
    BY <1>5
  <2> HIDE DEF x
  <2>3. e1 = [store |-> t.store, totalAlpha |-> t.totalAlpha, sparseAlpha |-> x,
             observed |-> t.observed, kl |-> t.kl, klConst |-> t.klConst, mll |-> t.mll,
             mllConst |-> t.mllConst, buckets |-> t.buckets, digammaTotal |-> t.digammaTotal,
             lnGammaTotal |-> t.lnGammaTotal]
    BY <2>1
  <2> HIDE DEF e1
  <2> QED
    BY <2>2, <2>3 DEF TrackerRecord
<1> HIDE DEF x
<1>9. IsTracker(u) /\ u.store = s /\ SumsFollow(u, p, d)
  <2>1. /\ u.store = s /\ u.totalAlpha = t.totalAlpha /\ u.observed = t.observed /\ u.kl = t.kl
        /\ u.klConst = t.klConst /\ u.mll = t.mll /\ u.mllConst = t.mllConst
        /\ u.digammaTotal = t.digammaTotal /\ u.lnGammaTotal = t.lnGammaTotal /\ IsTracker(u)
    BY <1>8 DEF TrackerRecord, IsTracker
  <2> QED
    BY <2>1 DEF Followed, SumsFollow
<1> QED
  BY <1>7, <1>9 DEF Followed, u

TrackerWith(t, s, o, mc, kc, k, m) ==
  [t EXCEPT !.store = s, !.observed = o, !.mllConst = mc, !.klConst = kc, !.kl = k, !.mll = m]

LEMMA TrackerChange ==
  ASSUME NEW t, IsTracker(t), NEW s, NEW o, NEW mc, NEW kc, NEW k, NEW m
  PROVE  TrackerWith(t, s, o, mc, kc, k, m)
         = TrackerRecord(s, t.totalAlpha, t.sparseAlpha, o, k, kc, m, mc, t.buckets,
                         t.digammaTotal, t.lnGammaTotal)
<1> DEFINE R(s1, o1, k1, kc1, m1, mc1) ==
             [store |-> s1, totalAlpha |-> t.totalAlpha, sparseAlpha |-> t.sparseAlpha, observed |-> o1,
              kl |-> k1, klConst |-> kc1, mll |-> m1, mllConst |-> mc1, buckets |-> t.buckets,
              digammaTotal |-> t.digammaTotal, lnGammaTotal |-> t.lnGammaTotal]
           t1 == [t EXCEPT !.store = s]
           t2 == [t1 EXCEPT !.observed = o]
           t3 == [t2 EXCEPT !.mllConst = mc]
           t4 == [t3 EXCEPT !.klConst = kc]
           t5 == [t4 EXCEPT !.kl = k]
           t6 == [t5 EXCEPT !.mll = m]
<1>1. t = R(t.store, t.observed, t.kl, t.klConst, t.mll, t.mllConst)
  BY DEF IsTracker, TrackerRecord
<1>2. t1 = R(s, t.observed, t.kl, t.klConst, t.mll, t.mllConst)
  BY <1>1
<1> HIDE DEF t1
<1>3. t2 = R(s, o, t.kl, t.klConst, t.mll, t.mllConst)
  BY <1>2
<1> HIDE DEF t2
<1>4. t3 = R(s, o, t.kl, t.klConst, t.mll, mc)
  BY <1>3
<1> HIDE DEF t3
<1>5. t4 = R(s, o, t.kl, kc, t.mll, mc)
  BY <1>4
<1> HIDE DEF t4
<1>6. t5 = R(s, o, k, kc, t.mll, mc)
  BY <1>5
<1> HIDE DEF t5
<1>7. t6 = R(s, o, k, kc, m, mc)
  BY <1>6
<1>8. TrackerWith(t, s, o, mc, kc, k, m) = t6
  BY DEF TrackerWith, t1, t2, t3, t4, t5
<1> HIDE DEF t6
<1> QED
  BY <1>7, <1>8 DEF TrackerRecord

(* Only the part of the address that was observed changes.                 *)
LEMMA PartsChange ==
  ASSUME NEW p, NEW d, Evidence(p, d), NEW d2, Evidence(p, d2), NEW loc \in Loc,
         \A l \in Loc : l # loc => CountAt(d2, l) = CountAt(d, l)
  PROVE  /\ SumFunctionOnSet(KlParts(p, d2), Loc) =
              SumFunctionOnSet(KlParts(p, d), Loc) + KlParts(p, d2)[loc] - KlParts(p, d)[loc]
         /\ SumFunctionOnSet(MllParts(p, d2), Loc) =
              SumFunctionOnSet(MllParts(p, d), Loc) + MllParts(p, d2)[loc] - MllParts(p, d)[loc]
<1> DEFINE k == KlParts(p, d)
           k2 == KlParts(p, d2)
           m == MllParts(p, d)
           m2 == MllParts(p, d2)
<1>1. \A l \in Loc : k[l] \in Int /\ k2[l] \in Int /\ m[l] \in Int /\ m2[l] \in Int
  BY PartsType
<1>2. \A l \in Loc \ {loc} : k[l] = k2[l] /\ m[l] = m2[l]
  BY DEF KlParts, MllParts
<1>3. IsFiniteSet(Loc)
  BY StoreAssumption
<1> HIDE DEF k, k2, m, m2
<1>4. SumFunctionOnSet(k2, Loc) = SumFunctionOnSet(k, Loc) + k2[loc] - k[loc]
  BY <1>1, <1>2, <1>3, SumChanges
<1>5. SumFunctionOnSet(m2, Loc) = SumFunctionOnSet(m, Loc) + m2[loc] - m[loc]
  BY <1>1, <1>2, <1>3, SumChanges
<1> QED
  BY <1>4, <1>5 DEF k, k2, m, m2

LEMMA ObservedFollows ==
  ASSUME NEW p, NEW d, Evidence(p, d), NEW d2, Evidence(p, d2), NEW t, Followed(t, p, d),
         NEW loc \in Loc, Holds(t.store, loc), NEW change \in Int,
         SetTo(d, d2, loc, CountAt(d, loc) + change, d.total + change, Nat)
  PROVE  Followed(IncObservation(t, loc, change), p, d2)
<1> DEFINE a == CountAt(p, loc)
           c == CountAt(d, loc)
           n == c + change
           P == p.total
           at == Index(t.store, loc)
           old == EntryFor(a, c, P)
           new == EntryFor(a, n, P)
           u == IncObservation(t, loc, change)
<1>1. /\ IsStore(t.store, Entries) /\ IsTracker(t) /\ SumsFollow(t, p, d) /\ IsStore(p, Nat)
      /\ IsStore(d, Nat) /\ IsStore(d2, Nat) /\ MaxTotal \in Nat
  BY TrackerAssumption DEF Followed, BucketsFollow, Evidence, Backed, CountStore
<1>2. /\ CountAt(d2, loc) = n /\ d2.total = d.total + change /\ Holds(d2, loc)
      /\ \A l \in Loc : l # loc => CountAt(d2, l) = CountAt(d, l) /\ (Holds(d2, l) <=> Holds(d, l))
  BY DEF SetTo, Same
<1>3. Holds(p, loc) /\ ValueOf(t.store, loc) = old
  BY DEF Followed, BucketsFollow
<1>4. /\ a \in 1..P /\ P \in 1..MaxTotal /\ c \in Nat /\ n \in Nat /\ n \in 0..MaxTotal
      /\ d.total \in 0..MaxTotal /\ d2.total \in 0..MaxTotal
  <2>1. /\ a \in 0..P /\ P \in 1..MaxTotal /\ a > 0 /\ c \in 0..d.total /\ d.total \in 0..MaxTotal
        /\ n \in 0..d2.total /\ d2.total \in 0..MaxTotal
    <3>1. /\ a \in 0..P /\ P \in 1..MaxTotal /\ a > 0 /\ c \in 0..d.total /\ d.total \in 0..MaxTotal
      BY <1>3, Amounts
    <3>2. CountAt(d2, loc) \in 0..d2.total /\ d2.total \in 0..MaxTotal
      BY Amounts
    <3> QED
      BY <1>2, <3>1, <3>2
  <2> HIDE DEF a, c, n, P
  <2> QED
    BY <1>1, <2>1
<1>5. UpdateEntry(old, change, Digamma[P]) = new
  <2> HIDE DEF a, c, P
  <2> QED
    BY <1>4, UpdateIs DEF n
<1>6. new \in Entries
  <2> HIDE DEF a, n, P
  <2> QED
    BY <1>4, EntryType
<1>7. /\ old.kl = KlParts(p, d)[loc] /\ new.kl = KlParts(p, d2)[loc]
      /\ old.mll = MllParts(p, d)[loc] /\ new.mll = MllParts(p, d2)[loc]
  BY <1>2 DEF EntryFor, KlParts, MllParts
<1> DEFINE o == t.observed + change
           lng == LnGamma[o + t.totalAlpha]
           mc == t.lnGammaTotal + LnGamma[o + 1] - lng
           kc == t.lnGammaTotal - lng
           k == t.kl - (t.klConst + old.kl) + kc + new.kl
           m == t.mll - (t.mllConst + old.mll) + mc + new.mll
           s == [t.store EXCEPT !.values[at] = new]
<1>8. u = TrackerWith(t, s, o, mc, kc, k, m)
  <2>1. t.store.values[at] = old /\ UpdateEntry(old, change, t.digammaTotal) = new
    BY <1>1, <1>3, <1>5 DEF ValueOf, SumsFollow
  <2> HIDE DEF old, new, at
  <2> QED
    BY <2>1 DEF IncObservation, at, TrackerWith
<1>9. s = [indexes |-> t.store.indexes, hashed |-> NoTable,
           values |-> [t.store.values EXCEPT ![at] = new], total |-> t.store.total]
  <2> DEFINE b == t.store
             vs == [b.values EXCEPT ![at] = new]
  <2>1. b = [indexes |-> b.indexes, hashed |-> NoTable, values |-> b.values, total |-> b.total]
    BY <1>1 DEF IsStore
  <2>2. s = [b EXCEPT !.values = vs]
    OBVIOUS
  <2> HIDE DEF b, vs, s
  <2>3. s = [indexes |-> b.indexes, hashed |-> NoTable, values |-> vs, total |-> b.total]
    BY <2>1, <2>2
  <2> QED
    BY <2>3 DEF b, vs
<1>10. SetTo(t.store, s, loc, new, t.store.total, Entries)
  <2> HIDE DEF s, new
  <2> QED
    BY <1>1, <1>6, <1>9, ChangeKeeps
<1>11. BucketsFollow(s, p, d2)
  <2>1. ASSUME NEW l \in Loc, Holds(s, l)
        PROVE  Holds(p, l) /\ ValueOf(s, l) = EntryFor(CountAt(p, l), CountAt(d2, l), P)
    <3>1. CASE l = loc
      BY <1>2, <1>3, <1>10, <3>1 DEF SetTo
    <3>2. CASE l # loc
      <4>1. Holds(t.store, l) /\ ValueOf(s, l) = ValueOf(t.store, l) /\ CountAt(d2, l) = CountAt(d, l)
        BY <1>2, <1>10, <2>1, <3>2 DEF SetTo, Same
      <4> QED
        BY <4>1 DEF Followed, BucketsFollow
    <3> QED
      BY <3>1, <3>2
  <2>2. ASSUME NEW l \in Loc, Holds(d2, l) PROVE Holds(s, l)
    <3>1. l # loc => Holds(t.store, l)
      BY <1>2, <2>2 DEF Followed, BucketsFollow
    <3> QED
      BY <1>10, <3>1 DEF SetTo, Same
  <2>3. IsStore(s, Entries)
    BY <1>10 DEF SetTo
  <2> HIDE DEF s
  <2> QED
    BY <2>1, <2>2, <2>3 DEF BucketsFollow
<1> HIDE DEF s, u
<1>12. /\ u.store = s /\ u.totalAlpha = t.totalAlpha /\ u.observed = o /\ u.kl = k /\ u.klConst = kc
       /\ u.mll = m /\ u.mllConst = mc /\ u.digammaTotal = t.digammaTotal
       /\ u.lnGammaTotal = t.lnGammaTotal /\ IsTracker(u)
  <2> HIDE DEF o, mc, kc, k, m
  <2>1. u = TrackerRecord(s, t.totalAlpha, t.sparseAlpha, o, k, kc, m, mc, t.buckets,
                          t.digammaTotal, t.lnGammaTotal)
    BY <1>1, <1>8, TrackerChange
  <2> QED
    BY <2>1 DEF TrackerRecord, IsTracker
<1>13. /\ t.totalAlpha = P /\ t.observed = d.total /\ o = d2.total
       /\ t.lnGammaTotal = LnGamma[P] /\ t.digammaTotal = Digamma[P]
       /\ t.kl = t.klConst + SumFunctionOnSet(KlParts(p, d), Loc)
       /\ t.mll = t.mllConst + SumFunctionOnSet(MllParts(p, d), Loc)
       /\ t.klConst = LnGamma[P] - LnGamma[d.total + P] /\ t.mllConst \in Int
  BY <1>1, <1>2 DEF SumsFollow
<1>14. /\ LnGamma[P] \in Int /\ LnGamma[d.total + P] \in Int /\ LnGamma[d2.total + P] \in Int
       /\ LnGamma[d2.total + 1] \in Int
  <2>1. /\ P \in 1..2*MaxTotal + 1 /\ d.total + P \in 1..2*MaxTotal + 1
        /\ d2.total + P \in 1..2*MaxTotal + 1 /\ d2.total + 1 \in 1..2*MaxTotal + 1
    <3> HIDE DEF P
    <3> QED
      BY <1>1, <1>4
  <2> QED
    BY <2>1, Tabled
<1> DEFINE K == SumFunctionOnSet(KlParts(p, d), Loc)
           K2 == SumFunctionOnSet(KlParts(p, d2), Loc)
           M == SumFunctionOnSet(MllParts(p, d), Loc)
           M2 == SumFunctionOnSet(MllParts(p, d2), Loc)
<1>15. /\ K2 = K + new.kl - old.kl /\ M2 = M + new.mll - old.mll
       /\ K \in Int /\ M \in Int /\ new.kl \in Int /\ old.kl \in Int /\ new.mll \in Int /\ old.mll \in Int
  <2>1. /\ K2 = K + KlParts(p, d2)[loc] - KlParts(p, d)[loc]
        /\ M2 = M + MllParts(p, d2)[loc] - MllParts(p, d)[loc]
    BY <1>2, PartsChange
  <2>2. /\ KlParts(p, d2)[loc] \in Int /\ KlParts(p, d)[loc] \in Int /\ K \in Int /\ M \in Int
        /\ MllParts(p, d2)[loc] \in Int /\ MllParts(p, d)[loc] \in Int
    BY PartsType
  <2> HIDE DEF K, K2, M, M2, old, new
  <2> QED
    BY <1>7, <2>1, <2>2
<1> HIDE DEF K, K2, M, M2, old, new
<1>16. /\ kc = LnGamma[P] - LnGamma[d2.total + P] /\ kc \in Int
       /\ mc = LnGamma[P] + LnGamma[d2.total + 1] - LnGamma[d2.total + P] /\ mc \in Int
       /\ t.klConst \in Int /\ t.kl = t.klConst + K /\ t.mll = t.mllConst + M
  <2> HIDE DEF P, o
  <2>1. o + t.totalAlpha = d2.total + P /\ o + 1 = d2.total + 1
    BY <1>13
  <2> QED
    BY <1>13, <1>14, <2>1 DEF K, M
<1> HIDE DEF kc, mc
<1>17. k = kc + K2 /\ m = mc + M2
  BY <1>13, <1>15, <1>16
<1> HIDE DEF k, m, o, P
<1>18. SumsFollow(u, p, d2)
  BY <1>12, <1>13, <1>16, <1>17 DEF SumsFollow, K2, M2, P
<1> QED
  BY <1>11, <1>12, <1>18 DEF Followed, u

LEMMA MergeTotal ==
  ASSUME NEW s, CountStore(s), NEW t, CountStore(t)
  PROVE  Merge(s, t).total = s.total + t.total
<1> DEFINE u == Merge(s, t)
<1>1. CountStore(u) /\ SumOfStores(s, t, u) /\ IsStore(s, Nat) /\ IsStore(t, Nat)
  BY MergeIs DEF CountStore
<1> HIDE DEF u
<1>2. IsFiniteSet(Loc) /\ \A l \in Loc : /\ Counts(s)[l] \in Int /\ Counts(t)[l] \in Int
                                         /\ Counts(u)[l] = Counts(s)[l] + Counts(t)[l]
  <2>1. Counts(s) \in [Loc -> Nat] /\ Counts(t) \in [Loc -> Nat] /\ IsFiniteSet(Loc)
    BY <1>1, CountsType
  <2>2. \A l \in Loc : Counts(u)[l] = Counts(s)[l] + Counts(t)[l]
    BY <1>1 DEF SumOfStores, Counts
  <2> QED
    BY <2>1, <2>2
<1>3. SumFunctionOnSet(Counts(u), Loc) = SumFunctionOnSet(Counts(s), Loc) + SumFunctionOnSet(Counts(t), Loc)
  BY <1>2, SumOfSums
<1>4. u.total = s.total + t.total
  BY <1>1, <1>3 DEF CountStore
<1> QED
  BY <1>4 DEF u

LEMMA PlaceIs ==
  ASSUME NEW s, IsStore(s, Nat)
  PROVE  LET n == Len(s.indexes)
         IN /\ n \in Nat /\ Places(s) = 1..n /\ DOMAIN s.values = 1..n /\ DOMAIN s.indexes = 1..n
            /\ \A j \in 1..n : /\ s.indexes[j] \in Loc /\ Holds(s, s.indexes[j])
                               /\ CountAt(s, s.indexes[j]) = s.values[j]
            /\ \A i, j \in 1..n : s.indexes[i] = s.indexes[j] => i = j
            /\ \A l \in Loc : Holds(s, l) => \E j \in 1..n : l = s.indexes[j]
<1> DEFINE n == Len(s.indexes)
<1>1. /\ n \in Nat /\ Places(s) = 1..n /\ DOMAIN s.values = 1..n /\ DOMAIN s.indexes = 1..n
      /\ \A j \in 1..n : s.indexes[j] \in Loc /\ Holds(s, s.indexes[j])
  BY DEF IsStore, Sorted, Places, Holds, Contains
<1>2. \A l \in Loc : /\ \A j \in 1..n : s.indexes[j] = l => j = SearchedAt(s, l)
                     /\ Holds(s, l) => SearchedAt(s, l) \in 1..n /\ s.indexes[SearchedAt(s, l)] = l
                     /\ Holds(s, l) => CountAt(s, l) = s.values[SearchedAt(s, l)]
  BY SearchFinds, GetIs
<1> HIDE DEF n
<1>3. ASSUME NEW j \in 1..n PROVE CountAt(s, s.indexes[j]) = s.values[j]
  BY <1>1, <1>2
<1>4. ASSUME NEW i \in 1..n, NEW j \in 1..n, s.indexes[i] = s.indexes[j] PROVE i = j
  <2>1. i = SearchedAt(s, s.indexes[i]) /\ j = SearchedAt(s, s.indexes[j])
    BY <1>1, <1>2
  <2> QED
    BY <1>4, <2>1
<1>5. ASSUME NEW l \in Loc, Holds(s, l) PROVE \E j \in 1..n : l = s.indexes[j]
  BY <1>2, <1>5
<1> QED
  BY <1>1, <1>3, <1>4, <1>5 DEF n

-----------------------------------------------------------------------------
(* The sums over pairs and over positions are those over addresses.        *)
KlOf(p, x) == LnGamma[x[2] + CountAt(p, x[1])] - LnGamma[CountAt(p, x[1])]
              - x[2] * (Digamma[CountAt(p, x[1])] - Digamma[p.total])

LEMMA KlOverPairs ==
  ASSUME NEW p, NEW d, Evidence(p, d)
  PROVE  /\ SumFunctionOnSet([x \in ToSet(Iter(d)) |-> KlOf(p, x)], ToSet(Iter(d)))
              = SumFunctionOnSet(KlParts(p, d), Loc)
         /\ \A x \in ToSet(Iter(d)) : CountAt(p, x[1]) # 0
<1> DEFINE n == Len(d.indexes)
           q == Iter(d)
           S == ToSet(q)
           f == [x \in S |-> KlOf(p, x)]
           e == [x \in S |-> x[1]]
           g == KlParts(p, d)
<1>1. IsStore(d, Nat) /\ IsStore(p, Nat) /\ MaxTotal \in Nat
  BY TrackerAssumption DEF Evidence, Backed, CountStore
<1>2. /\ n \in Nat
      /\ \A j \in 1..n : /\ d.indexes[j] \in Loc /\ Holds(d, d.indexes[j])
                         /\ CountAt(d, d.indexes[j]) = d.values[j]
      /\ \A i, j \in 1..n : d.indexes[i] = d.indexes[j] => i = j
      /\ \A l \in Loc : Holds(d, l) => \E j \in 1..n : l = d.indexes[j]
  BY <1>1, PlaceIs
<1>3. /\ Len(q) = n /\ DOMAIN q = 1..n
      /\ \A i \in 1..n : q[i] = <<d.indexes[i], d.values[i]>>
  BY <1>1, IterIs
<1> HIDE DEF q, n
<1>4. S = {q[i] : i \in 1..n} /\ IsFiniteSet(S)
  <2>1. S = {q[i] : i \in 1..n}
    BY <1>3 DEF ToSet
  <2>2. IsFiniteSet(1..n)
    BY <1>2, FS_Interval
  <2> HIDE DEF S
  <2> QED
    BY <1>3, <2>1, <2>2, FiniteImage
<1>5. ASSUME NEW x \in S
      PROVE  /\ x[1] \in Loc /\ x[2] = CountAt(d, x[1]) /\ Holds(d, x[1])
             /\ CountAt(p, x[1]) # 0 /\ KlOf(p, x) = g[x[1]]
  <2>1. PICK i \in 1..n : x = <<d.indexes[i], d.values[i]>>
    BY <1>3, <1>4
  <2>2. x[1] \in Loc /\ x[2] = CountAt(d, x[1]) /\ Holds(d, x[1])
    BY <1>2, <2>1
  <2> DEFINE l == x[1]
             c == CountAt(d, l)
             a == CountAt(p, l)
  <2>3. l \in Loc /\ Holds(p, l)
    BY <2>2 DEF Evidence
  <2>4. a \in 1..p.total /\ p.total \in 1..MaxTotal /\ c \in Nat
    <3>1. /\ a \in 0..p.total /\ c \in 0..d.total /\ p.total \in 1..MaxTotal /\ d.total \in 0..MaxTotal
          /\ a > 0
      BY <2>3, Amounts
    <3> HIDE DEF a, c
    <3> QED
      BY <1>1, <3>1
  <2>5. KlOf(p, x) = LnGamma[c + a] - LnGamma[a] - c * (Digamma[a] - Digamma[p.total])
    BY <2>2 DEF KlOf
  <2>6. g[l] = IF c > 0 THEN LnGamma[a + c] - LnGamma[a] - c * (Digamma[a] - Digamma[p.total]) ELSE 0
    BY <2>3 DEF KlParts, KlPart
  <2> HIDE DEF a, c, l
  <2>7. KlOf(p, x) = g[l]
    <3>1. a \in 1..2*MaxTotal + 1 /\ p.total \in 1..2*MaxTotal + 1 /\ c + a = a + c
      BY <1>1, <2>4
    <3>2. LnGamma[a] \in Int /\ Digamma[a] \in Int /\ Digamma[p.total] \in Int
      BY <3>1, Tabled
    <3>3. CASE c > 0
      BY <2>5, <2>6, <3>1, <3>3
    <3>4. CASE ~(c > 0)
      <4>1. c = 0
        BY <2>4, <3>4
      <4>2. c + a = a
        BY <2>4, <4>1
      <4> QED
        BY <2>5, <2>6, <3>2, <4>1, <4>2
    <3> QED
      BY <3>3, <3>4
  <2> QED
    BY <2>2, <2>4, <2>7 DEF l, a
<1>6. \A x, y \in S : e[x] = e[y] => x = y
  <2> SUFFICES ASSUME NEW x \in S, NEW y \in S, x[1] = y[1] PROVE x = y
    OBVIOUS
  <2>1. PICK i \in 1..n : x = <<d.indexes[i], d.values[i]>>
    BY <1>3, <1>4
  <2>2. PICK j \in 1..n : y = <<d.indexes[j], d.values[j]>>
    BY <1>3, <1>4
  <2>3. i = j
    BY <1>2, <2>1, <2>2
  <2> QED
    BY <2>1, <2>2, <2>3
<1>7. ASSUME NEW l \in Loc, \A x \in S : e[x] # l PROVE g[l] = 0
  <2>1. ~Holds(d, l)
    <3> SUFFICES ASSUME Holds(d, l) PROVE FALSE
      OBVIOUS
    <3>1. PICK j \in 1..n : l = d.indexes[j]
      BY <1>2
    <3>2. q[j] \in S /\ e[q[j]] = l
      BY <1>3, <1>4, <3>1
    <3> QED
      BY <1>7, <3>2
  <2>2. CountAt(d, l) = 0
    BY <1>1, <2>1, GetIs
  <2> QED
    BY <2>2 DEF KlParts, KlPart
<1>8. IsFiniteSet(Loc) /\ \A l \in Loc : g[l] \in Int
  BY PartsType, StoreAssumption
<1>9. \A x \in S : f[x] = g[e[x]] /\ e[x] \in Loc
  BY <1>5
<1> HIDE DEF S, e, f, g
<1>10. SumFunctionOnSet(f, S) = SumFunctionOnSet(g, Loc)
  <2>1. Along(f, S, e, g, Loc)
    BY <1>6, <1>7, <1>8, <1>9 DEF Along
  <2> QED
    BY <1>4, <1>8, <2>1, SumAlong
<1> QED
  BY <1>5, <1>10 DEF S, f, g, q

Counted(p, d) == {j \in Places(p) : d.values[j] > 0}
MllOf(p, d, j) == LnGamma[p.values[j] + d.values[j]] - LnGamma[p.values[j]] - LnGamma[d.values[j] + 1]

LEMMA MllOverPlaces ==
  ASSUME NEW p, NEW d, Evidence(p, d), p.indexes = d.indexes
  PROVE  SumFunctionOnSet([j \in Counted(p, d) |-> MllOf(p, d, j)], Counted(p, d))
           = SumFunctionOnSet(MllParts(p, d), Loc)
<1> DEFINE n == Len(p.indexes)
           S == Counted(p, d)
           f == [j \in S |-> MllOf(p, d, j)]
           e == [j \in S |-> p.indexes[j]]
           g == MllParts(p, d)
<1>1. IsStore(d, Nat) /\ IsStore(p, Nat)
  BY DEF Evidence, Backed, CountStore
<1>2. /\ n \in Nat /\ Places(p) = 1..n
      /\ \A j \in 1..n : /\ p.indexes[j] \in Loc /\ CountAt(p, p.indexes[j]) = p.values[j]
                         /\ CountAt(d, p.indexes[j]) = d.values[j]
      /\ \A i, j \in 1..n : p.indexes[i] = p.indexes[j] => i = j
      /\ \A l \in Loc : Holds(d, l) => \E j \in 1..n : l = p.indexes[j]
  <2>1. /\ n \in Nat /\ Places(p) = 1..n
        /\ \A j \in 1..n : p.indexes[j] \in Loc /\ CountAt(p, p.indexes[j]) = p.values[j]
        /\ \A i, j \in 1..n : p.indexes[i] = p.indexes[j] => i = j
    BY <1>1, PlaceIs
  <2>2. /\ \A j \in 1..Len(d.indexes) : CountAt(d, d.indexes[j]) = d.values[j]
        /\ \A l \in Loc : Holds(d, l) => \E j \in 1..Len(d.indexes) : l = d.indexes[j]
    BY <1>1, PlaceIs
  <2> QED
    BY <2>1, <2>2
<1> HIDE DEF n
<1>3. S \subseteq 1..n /\ IsFiniteSet(S)
  <2>1. S \subseteq 1..n
    BY <1>2 DEF Counted
  <2>2. IsFiniteSet(1..n)
    BY <1>2, FS_Interval
  <2> HIDE DEF S
  <2> QED
    BY <2>1, <2>2, FS_Subset
<1>4. ASSUME NEW j \in S PROVE MllOf(p, d, j) = g[p.indexes[j]] /\ p.indexes[j] \in Loc
  <2>1. j \in 1..n /\ d.values[j] > 0
    BY <1>2 DEF Counted
  <2>2. /\ p.indexes[j] \in Loc /\ CountAt(p, p.indexes[j]) = p.values[j]
        /\ CountAt(d, p.indexes[j]) = d.values[j]
    BY <1>2, <2>1
  <2>3. g[p.indexes[j]] = MllPart(p.values[j], d.values[j])
    BY <2>2 DEF MllParts
  <2> QED
    BY <2>1, <2>2, <2>3 DEF MllOf, MllPart
<1>5. \A i, j \in S : e[i] = e[j] => i = j
  BY <1>2, <1>3
<1>6. ASSUME NEW l \in Loc, \A j \in S : e[j] # l PROVE g[l] = 0
  <2>1. ~(CountAt(d, l) > 0)
    <3> SUFFICES ASSUME CountAt(d, l) > 0 PROVE FALSE
      OBVIOUS
    <3>1. Holds(d, l)
      BY Amounts
    <3>2. PICK j \in 1..n : l = p.indexes[j]
      BY <1>2, <3>1
    <3>3. j \in S /\ e[j] = l
      BY <1>2, <3>2 DEF Counted
    <3> QED
      BY <1>6, <3>3
  <2> QED
    BY <2>1 DEF MllParts, MllPart
<1>7. IsFiniteSet(Loc) /\ \A l \in Loc : g[l] \in Int
  BY PartsType, StoreAssumption
<1>8. \A j \in S : f[j] = g[e[j]] /\ e[j] \in Loc
  BY <1>4
<1> HIDE DEF S, e, f, g
<1>9. SumFunctionOnSet(f, S) = SumFunctionOnSet(g, Loc)
  <2>1. Along(f, S, e, g, Loc)
    BY <1>5, <1>6, <1>7, <1>8 DEF Along
  <2> QED
    BY <1>3, <1>7, <2>1, SumAlong
<1> QED
  BY <1>9 DEF S, f, g

LEMMA PosteriorIs ==
  ASSUME NEW p, NEW d, Evidence(p, d)
  PROVE  PosteriorKlDiv(p, d) =
           NotBelowZero(LnGamma[p.total] - LnGamma[d.total + p.total]
                        + SumFunctionOnSet(KlParts(p, d), Loc))
<1> DEFINE S == ToSet(Iter(d))
<1>1. SumFunctionOnSet([x \in S |-> KlOf(p, x)], S) = SumFunctionOnSet(KlParts(p, d), Loc)
      /\ \A x \in S : CountAt(p, x[1]) # 0
  BY KlOverPairs
<1>2. PosteriorKlDiv(p, d) =
        NotBelowZero(LnGamma[p.total] - LnGamma[d.total + p.total]
                     + SumFunctionOnSet([x \in S |-> KlOf(p, x)], S))
  <2>1. \A x \in S : Get(p, x[1], 0) # 0
    BY <1>1 DEF CountAt
  <2> HIDE DEF S
  <2> QED
    BY <2>1 DEF PosteriorKlDiv, SumOver, SumFunction, KlOf, CountAt, S
<1> HIDE DEF S
<1> QED
  BY <1>1, <1>2

LEMMA KlIsBatch ==
  ASSUME NEW p, NEW d, Evidence(p, d), NEW t, Followed(t, p, d)
  PROVE  NotBelowZero(t.kl) = PosteriorKlDiv(p, d)
<1>1. t.kl = LnGamma[p.total] - LnGamma[d.total + p.total] + SumFunctionOnSet(KlParts(p, d), Loc)
  BY DEF Followed, SumsFollow
<1> QED
  BY <1>1, PosteriorIs

LEMMA MllIsBatch ==
  ASSUME NEW p, NEW d, Evidence(p, d), NEW t, Followed(t, p, d), LnLikelihood(p, d) # None
  PROVE  t.mll = LnLikelihood(p, d)
<1> DEFINE S == Counted(p, d)
<1>1. p.indexes = d.indexes
  BY DEF LnLikelihood
<1>2. SumFunctionOnSet([j \in S |-> MllOf(p, d, j)], S) = SumFunctionOnSet(MllParts(p, d), Loc)
  BY <1>1, MllOverPlaces
<1>3. LnLikelihood(p, d) =
        LnGamma[p.total] + LnGamma[d.total + 1] - LnGamma[d.total + p.total]
        + SumFunctionOnSet([j \in S |-> MllOf(p, d, j)], S)
  BY DEF LnLikelihood, SumOver, SumFunction, MllOf, Counted
<1>4. PICK l \in Loc : Holds(p, l)
  <2> SUFFICES ASSUME \A l \in Loc : ~Holds(p, l) PROVE FALSE
    OBVIOUS
  <2>1. /\ IsStore(p, Nat) /\ p.total = SumFunctionOnSet(Counts(p), Loc) /\ p.total \in 1..MaxTotal
    BY DEF Evidence, Backed, CountStore
  <2>2. \A l \in Loc : Counts(p)[l] = 0
    BY <2>1, GetIs DEF Counts
  <2>3. SumFunctionOnSet(Counts(p), Loc) = 0
    BY <2>2, StoreAssumption, SumOfZeros
  <2> QED
    BY <2>1, <2>3
<1>5. Holds(d, l)
  BY <1>1, <1>4 DEF Holds
<1>6. t.mll = LnGamma[p.total] + LnGamma[d.total + 1] - LnGamma[d.total + p.total]
              + SumFunctionOnSet(MllParts(p, d), Loc)
  BY <1>5 DEF Followed, SumsFollow
<1> HIDE DEF S
<1> QED
  BY <1>2, <1>3, <1>6

-----------------------------------------------------------------------------
(* The prior and the evidence stay within what the tables hold, every      *)
(* count of the prior is positive, and the tracker follows them.           *)
TrackerInv ==
  /\ CountStore(data) /\ data.total \in 0..MaxTotal
  /\ prior # None => Backed(prior)
  /\ tracker # None => prior # None /\ Evidence(prior, data) /\ Followed(tracker, prior, data)

LEMMA TrackerInvInit == Init => TrackerInv
<1>1. NewParams.total \in 0..MaxTotal
  BY NewIsStore, TrackerAssumption
<1> QED
  BY <1>1, NewCounts DEF Init, TrackerInv

LEMMA TakenTotal ==
  ASSUME NEW s, CountStore(s), NEW loc \in Loc, NEW n \in Nat
  PROVE  CountStore(RemovePop(s, loc, n)) /\ RemovePop(s, loc, n).total \in 0..s.total
<1> DEFINE t == RemovePop(s, loc, n)
           c == CountAt(s, loc)
           left == IF c > n THEN c - n ELSE 0
<1>1. CountStore(t) /\ t.total = s.total + left - c
  BY RemovePopIs
<1>2. /\ c \in Nat /\ s.total \in Nat /\ c <= s.total
  BY CountsType DEF CountStore
<1>3. left \in 0..c
  <2> HIDE DEF c
  <2> QED
    BY <1>2
<1> HIDE DEF t, c, left
<1> QED
  BY <1>1, <1>2, <1>3 DEF t

LEMMA AddedTotal ==
  ASSUME NEW s, CountStore(s), NEW loc \in Loc, NEW n \in Nat
  PROVE  /\ CountStore(AddPop(s, loc, n)) /\ AddPop(s, loc, n).total = s.total + n
         /\ s.total \in Nat
<1>1. SetTo(s, AddPop(s, loc, n), loc, CountAt(s, loc) + n, s.total + n, Nat) /\ CountStore(AddPop(s, loc, n))
  BY AddPopIs
<1>2. s.total \in Nat
  BY CountsType DEF CountStore
<1> QED
  BY <1>1, <1>2 DEF SetTo

LEMMA PriorMade ==
  ASSUME NEW d, CountStore(d), d.total \in 1..MaxTotal, \A j \in Places(d) : d.values[j] > 0
  PROVE  Backed(d)
<1>1. IsStore(d, Nat)
  BY DEF CountStore
<1>2. ASSUME NEW l \in Loc, Holds(d, l) PROVE CountAt(d, l) > 0
  <2>1. PICK j \in 1..Len(d.indexes) : l = d.indexes[j]
    BY <1>1, <1>2, PlaceIs
  <2>2. CountAt(d, d.indexes[j]) = d.values[j] /\ Places(d) = 1..Len(d.indexes)
    BY <1>1, PlaceIs
  <2> QED
    BY <2>1, <2>2
<1> QED
  BY <1>2 DEF Backed

LEMMA PriorObserved ==
  ASSUME NEW p, Backed(p), NEW loc \in Loc, p.total < MaxTotal
  PROVE  Backed(AddObservation(p, loc))
<1> DEFINE u == AddPop(p, loc, 1)
<1>1. CountStore(p) /\ p.total \in 1..MaxTotal /\ MaxTotal \in Nat /\ IsStore(p, Nat)
  BY TrackerAssumption DEF Backed, CountStore
<1>2. SetTo(p, u, loc, CountAt(p, loc) + 1, p.total + 1, Nat) /\ CountStore(u)
  <2>1. 1 \in Nat
    OBVIOUS
  <2> QED
    BY <1>1, <2>1, AddPopIs
<1> HIDE DEF u
<1>3. u.total \in 1..MaxTotal
  <2>1. u.total = p.total + 1
    BY <1>2 DEF SetTo
  <2> QED
    BY <1>1, <2>1
<1>4. ASSUME NEW l \in Loc, Holds(u, l) PROVE CountAt(u, l) > 0
  <2>1. CASE l = loc
    <3>1. CountAt(u, l) = CountAt(p, loc) + 1 /\ CountAt(p, loc) \in Nat
      BY <1>1, <1>2, <2>1, CountsType DEF SetTo
    <3> QED
      BY <3>1
  <2>2. CASE l # loc
    <3>1. CountAt(u, l) = CountAt(p, l) /\ Holds(p, l)
      BY <1>2, <1>4, <2>2 DEF SetTo, Same
    <3> QED
      BY <3>1 DEF Backed
  <2> QED
    BY <2>1, <2>2
<1>5. Backed(u)
  BY <1>2, <1>3, <1>4 DEF Backed
<1> QED
  BY <1>5, ObservationIsAddPop DEF u

(* An observation, or one taken back, at an address with a bucket. *)
LEMMA ObservationStep ==
  ASSUME NEW p, NEW d, Evidence(p, d), NEW t, Followed(t, p, d), NEW loc \in Loc,
         Holds(t.store, loc), NEW change \in Int, NEW d2, CountStore(d2), d2.total \in 0..MaxTotal,
         SetTo(d, d2, loc, CountAt(d, loc) + change, d.total + change, Nat)
  PROVE  Evidence(p, d2) /\ Followed(IncObservation(t, loc, change), p, d2)
<1>1. ASSUME NEW l \in Loc, Holds(d2, l) PROVE Holds(p, l)
  <2>1. CASE l = loc
    BY <2>1 DEF Followed, BucketsFollow
  <2>2. CASE l # loc
    <3>1. Holds(d, l)
      BY <1>1, <2>2 DEF SetTo, Same
    <3> QED
      BY <3>1 DEF Evidence
  <2> QED
    BY <2>1, <2>2
<1>2. Evidence(p, d2)
  BY <1>1 DEF Evidence
<1> QED
  BY <1>2, ObservedFollows

LEMMA TrackerInvStep == TrackerInv /\ [Next]_vars => TrackerInv'
<1> SUFFICES ASSUME TrackerInv, [Next]_vars PROVE TrackerInv'
  OBVIOUS
<1>0. CountStore(data) /\ data.total \in 0..MaxTotal /\ MaxTotal \in Nat
  BY TrackerAssumption DEF TrackerInv
<1>1. ASSUME NEW loc \in Loc, NEW n \in 1..2, AddData(loc, n) PROVE TrackerInv'
  <2>1. n \in Nat /\ tracker' = None /\ data' = AddPop(data, loc, n) /\ prior' = prior
        /\ data.total + n <= MaxTotal
    BY <1>1 DEF AddData
  <2>2. CountStore(data') /\ data'.total = data.total + n
    BY <1>0, <2>1, AddedTotal
  <2>3. data'.total \in 0..MaxTotal
    BY <1>0, <2>1, <2>2
  <2> QED
    BY <2>1, <2>2, <2>3 DEF TrackerInv
<1>2. ASSUME NEW loc \in Loc, NEW n \in 1..2, RemoveData(loc, n) PROVE TrackerInv'
  <2>1. n \in Nat /\ tracker' = None /\ data' = RemovePop(data, loc, n) /\ prior' = prior
    BY <1>2 DEF RemoveData
  <2>2. CountStore(data') /\ data'.total \in 0..data.total
    BY <1>0, <2>1, TakenTotal
  <2>3. data'.total \in 0..MaxTotal
    BY <1>0, <2>2
  <2> QED
    BY <2>1, <2>2, <2>3 DEF TrackerInv
<1>3. ASSUME NEW pairs \in Merged, MergeData(pairs) PROVE TrackerInv'
  <2>1. tracker' = None /\ data' = Merge(data, FromPairs(pairs)) /\ prior' = prior
        /\ data.total + FromPairs(pairs).total <= MaxTotal
    BY <1>3 DEF MergeData
  <2>2. CountStore(data') /\ data'.total = data.total + FromPairs(pairs).total
    BY <1>0, <2>1, MergedAre, MergeIs, MergeTotal
  <2>3. data'.total \in Nat
    BY <2>2, CountsType DEF CountStore
  <2>4. data'.total \in 0..MaxTotal
    BY <1>0, <2>1, <2>2, <2>3
  <2> QED
    BY <2>1, <2>2, <2>4 DEF TrackerInv
<1>4. CASE MakePrior
  <2>1. data.total \in 1..MaxTotal
    BY <1>0, <1>4 DEF MakePrior
  <2>2. Backed(data)
    BY <1>0, <1>4, <2>1, PriorMade DEF MakePrior
  <2>3. tracker' = None
    BY <1>4 DEF MakePrior, TrackerInv
  <2>4. CountStore(NewParams) /\ NewParams.total \in 0..MaxTotal
    BY <1>0, NewCounts, NewIsStore
  <2> QED
    BY <1>4, <2>2, <2>3, <2>4 DEF MakePrior, TrackerInv
<1>5. ASSUME NEW loc \in Loc, ObservePrior(loc) PROVE TrackerInv'
  <2>1. Backed(prior')
    BY <1>5, PriorObserved DEF ObservePrior, TrackerInv
  <2> QED
    BY <1>5, <2>1 DEF ObservePrior, TrackerInv
<1>6. CASE StartTracker \/ StartSparse
  <2>1. Backed(prior) /\ prior' = prior /\ prior # None /\ data' = NewParams
    BY <1>6 DEF StartTracker, StartSparse, TrackerInv
  <2>2. tracker' = TrackerOf(prior) \/ tracker' = EmptyTracker(prior.total, Len(prior.values))
    BY <1>6 DEF StartTracker, StartSparse
  <2>3. Followed(TrackerOf(prior), prior, NewParams)
        /\ Followed(EmptyTracker(prior.total, Len(prior.values)), prior, NewParams)
    BY <2>1, WholeFollows, EmptyFollows
  <2>4. Evidence(prior, NewParams) /\ CountStore(NewParams) /\ NewParams.total \in 0..MaxTotal
    BY <2>1, NothingObserved DEF Evidence
  <2> QED
    BY <2>1, <2>2, <2>3, <2>4 DEF TrackerInv
<1>7. ASSUME NEW loc \in Loc, SetPrior(loc) PROVE TrackerInv'
  <2>1. /\ Evidence(prior, data) /\ Followed(tracker, prior, data) /\ Holds(prior, loc)
        /\ ~Holds(tracker.store, loc) /\ data' = data /\ prior' = prior /\ prior # None
        /\ tracker' = SetAlpha(tracker, loc, ValueOf(prior, loc))
    BY <1>7 DEF SetPrior, TrackerInv
  <2>2. Followed(SetAlpha(tracker, loc, ValueOf(prior, loc)), prior, data)
    BY <2>1, SetAlphaFollows
  <2> QED
    BY <2>1, <2>2 DEF TrackerInv
<1>8. ASSUME NEW loc \in Loc, NEW n \in 1..2, Observe(loc, n) PROVE TrackerInv'
  <2>1. /\ Evidence(prior, data) /\ Followed(tracker, prior, data) /\ prior # None
        /\ data' = AddPop(data, loc, n) /\ prior' = prior /\ data.total + n <= MaxTotal
        /\ tracker' = IncObservation(tracker, loc, n) /\ Index(tracker.store, loc) # 0
    BY <1>8 DEF Observe, TrackerInv
  <2>2. Holds(tracker.store, loc)
    BY <2>1, IndexIs DEF Followed, BucketsFollow
  <2>3. n \in Nat /\ n \in Int
    OBVIOUS
  <2>4. SetTo(data, data', loc, CountAt(data, loc) + n, data.total + n, Nat) /\ CountStore(data')
    BY <1>0, <2>1, <2>3, AddPopIs
  <2>5. data'.total \in 0..MaxTotal
    <3>1. data'.total = data.total + n
      BY <2>4 DEF SetTo
    <3> QED
      BY <1>0, <2>1, <3>1
  <2>6. Evidence(prior, data') /\ Followed(IncObservation(tracker, loc, n), prior, data')
    BY <2>1, <2>2, <2>3, <2>4, <2>5, ObservationStep
  <2> QED
    BY <2>1, <2>4, <2>5, <2>6 DEF TrackerInv
<1>9. ASSUME NEW loc \in Loc, Forget(loc) PROVE TrackerInv'
  <2>1. /\ Evidence(prior, data) /\ Followed(tracker, prior, data) /\ prior # None
        /\ data' = RemovePop(data, loc, 1) /\ prior' = prior
        /\ tracker' = IncObservation(tracker, loc, -1) /\ CountAt(data, loc) > 0
    BY <1>9 DEF Forget, TrackerInv, CountAt
  <2>2. Holds(data, loc) /\ Holds(tracker.store, loc)
    <3>1. Holds(data, loc)
      BY <2>1, Amounts
    <3> QED
      BY <2>1, <3>1 DEF Followed, BucketsFollow
  <2> DEFINE c == CountAt(data, loc)
             left == IF c > 1 THEN c - 1 ELSE 0
  <2>3. c \in Nat /\ c > 0 /\ 1 \in Nat /\ -1 \in Int
    BY <1>0, <2>1, CountsType DEF CountStore
  <2>4. SetTo(data, data', loc, left, data.total + left - c, Nat) /\ CountStore(data')
        /\ data'.total \in 0..data.total
    BY <1>0, <2>1, <2>2, <2>3, RemovePopIs, TakenTotal
  <2>5. left = c + (-1) /\ data.total + left - c = data.total + (-1) /\ data'.total \in 0..MaxTotal
    <3> HIDE DEF c
    <3> QED
      BY <1>0, <2>3, <2>4
  <2>6. SetTo(data, data', loc, CountAt(data, loc) + (-1), data.total + (-1), Nat)
    <3> HIDE DEF left
    <3> QED
      BY <2>4, <2>5
  <2>7. Evidence(prior, data') /\ Followed(IncObservation(tracker, loc, -1), prior, data')
    BY <2>1, <2>2, <2>3, <2>4, <2>5, <2>6, ObservationStep
  <2> QED
    BY <2>1, <2>4, <2>5, <2>7 DEF TrackerInv
<1>10. CASE UNCHANGED vars
  BY <1>10 DEF vars, TrackerInv
<1> QED
  BY <1>1, <1>2, <1>3, <1>4, <1>5, <1>6, <1>7, <1>8, <1>9, <1>10 DEF Next

(* The divergence and the likelihood that a tracker updates bucket by      *)
(* bucket are at every step those of the prior and all the evidence, for   *)
(* any tables, totals and addresses, and whether the tracker was made      *)
(* whole or given its priors one by one between observations.              *)
THEOREM TrackerIsBatch == Spec => []IncrementalIsBatch
<1>1. TrackerInv => IncrementalIsBatch
  <2> SUFFICES ASSUME TrackerInv, tracker # None
               PROVE  /\ NotBelowZero(tracker.kl) = PosteriorKlDiv(prior, data)
                      /\ LnLikelihood(prior, data) # None => tracker.mll = LnLikelihood(prior, data)
    BY DEF IncrementalIsBatch
  <2>1. Evidence(prior, data) /\ Followed(tracker, prior, data)
    BY DEF TrackerInv
  <2> QED
    BY <2>1, KlIsBatch, MllIsBatch
<1> QED
  BY TrackerInvInit, TrackerInvStep, <1>1, PTL DEF Spec

-----------------------------------------------------------------------------
(* Two stores side by side: every address of either, once.                 *)
Rising(q, n, S) == q \in [1..n -> S] /\ \A i, j \in 1..n : i < j => q[i] < q[j]

LEMMA RisingExists ==
  ASSUME NEW S, IsFiniteSet(S)
  PROVE  S \subseteq Nat => \E q : Rising(q, Cardinality(S), S)
<1> DEFINE Bad == {s \in SUBSET S : s \subseteq Nat /\ ~ \E q : Rising(q, Cardinality(s), s)}
<1> SUFFICES ASSUME Bad # {} PROVE FALSE
  OBVIOUS
<1>1. PICK s \in Bad : \A t \in Bad : ~(t \subseteq s /\ t # s)
  <2>1. Bad \in SUBSET SUBSET S
    OBVIOUS
  <2> HIDE DEF Bad
  <2> QED
    BY <2>1, LeastSubset
<1>2. s \in SUBSET S /\ s \in SUBSET Nat /\ IsFiniteSet(s) /\ ~ \E q : Rising(q, Cardinality(s), s)
  BY <1>1, FS_Subset
<1>3. s # {}
  <2>1. Cardinality({}) = 0 /\ 1..0 = {}
    BY FS_EmptySet
  <2>2. Rising([i \in {} |-> 0], 0, {})
    BY <2>1 DEF Rising
  <2> QED
    BY <1>2, <2>1, <2>2
<1> DEFINE m == Max(s)
           r == s \ {m}
           n == Cardinality(r)
<1>4. m \in s /\ \A i \in s : m >= i
  BY <1>2, <1>3, MaxOfIntegers
<1> HIDE DEF m
<1>5. /\ IsFiniteSet(r) /\ n \in Nat /\ Cardinality(s) = n + 1
      /\ r \in SUBSET s /\ \A i \in r : i < m
  <2>1. IsFiniteSet(r) /\ Cardinality(r) = Cardinality(s) - 1 /\ n \in Nat /\ Cardinality(s) \in Nat
    BY <1>2, <1>4, FS_RemoveElement, FS_CardinalityType
  <2> QED
    BY <1>2, <1>4, <2>1
<1>6. PICK h : Rising(h, n, r)
  BY <1>1, <1>2, <1>4, <1>5
<1> HIDE DEF n
<1> DEFINE q == [i \in 1..(n + 1) |-> IF i = n + 1 THEN m ELSE h[i]]
<1>7. \A i \in 1..n : h[i] \in r
  BY <1>6 DEF Rising
<1>8. q \in [1..(n + 1) -> s]
  BY <1>4, <1>5, <1>7
<1>9. ASSUME NEW i \in 1..(n + 1), NEW j \in 1..(n + 1), i < j PROVE q[i] < q[j]
  <2>1. i \in 1..n /\ q[i] = h[i]
    BY <1>5, <1>9
  <2>2. CASE j = n + 1
    BY <1>5, <1>7, <2>1, <2>2
  <2>3. CASE j # n + 1
    <3>1. j \in 1..n /\ q[j] = h[j]
      BY <1>5, <2>3
    <3> QED
      BY <1>6, <1>9, <2>1, <3>1 DEF Rising
  <2> QED
    BY <2>2, <2>3
<1>10. Rising(q, n + 1, s)
  BY <1>8, <1>9 DEF Rising
<1> QED
  BY <1>2, <1>5, <1>10

LEMMA AscendingIs ==
  ASSUME NEW S, IsFiniteSet(S), S \subseteq Nat
  PROVE  LET q == Ascending(S)
             n == Cardinality(S)
         IN /\ n \in Nat /\ DOMAIN q = 1..n /\ \A i \in 1..n : q[i] \in S
            /\ \A i, j \in 1..n : q[i] = q[j] => i = j
            /\ \A x \in S : \E i \in 1..n : q[i] = x
<1> DEFINE n == Cardinality(S)
           q == Ascending(S)
<1>1. n \in Nat
  BY FS_CardinalityType
<1>2. q \in [1..n -> S] /\ \A i, j \in 1..n : i < j => q[i] < q[j]
  <2>1. PICK h : Rising(h, n, S)
    BY RisingExists
  <2>2. h \in [1..n -> S] /\ \A i, j \in DOMAIN h : i < j => h[i] < h[j]
    BY <2>1 DEF Rising
  <2>3. q \in [1..n -> S] /\ \A i, j \in DOMAIN q : i < j => q[i] < q[j]
    BY <2>2 DEF Ascending
  <2> QED
    BY <2>3
<1> HIDE DEF q
<1>3. ASSUME NEW i \in 1..n, NEW j \in 1..n, q[i] = q[j] PROVE i = j
  <2>1. q[i] \in Nat /\ q[j] \in Nat
    BY <1>2
  <2>2. ~(i < j) /\ ~(j < i)
    BY <1>2, <1>3, <2>1
  <2> QED
    BY <1>1, <2>2
<1>4. q \in Injection(1..n, S)
  BY <1>2, <1>3 DEF Injection, IsInjective
<1>5. Cardinality(1..n) = n
  BY <1>1, FS_Interval
<1>6. q \in Surjection(1..n, S)
  BY <1>4, <1>5, FS_Injection
<1> QED
  BY <1>1, <1>2, <1>3, <1>6 DEF Surjection, q

SideBySide(s, t, both, n) ==
  /\ n \in Nat /\ DOMAIN both = 1..n
  /\ \A j \in 1..n : /\ both[j][1] \in Loc
                     /\ Holds(s, both[j][1]) \/ Holds(t, both[j][1])
                     /\ both[j][2] = CountAt(s, both[j][1])
                     /\ both[j][3] = CountAt(t, both[j][1])
  /\ \A i, j \in 1..n : both[i][1] = both[j][1] => i = j
  /\ \A l \in Loc : Holds(s, l) \/ Holds(t, l) => \E j \in 1..n : both[j][1] = l

LEMMA DoubleIterIs ==
  ASSUME NEW s, IsStore(s, Nat), NEW t, IsStore(t, Nat)
  PROVE  \E n : SideBySide(s, t, DoubleIter(s, t), n)
<1> DEFINE S == ToSet(s.indexes) \cup ToSet(t.indexes)
           q == Ascending(S)
           n == Cardinality(S)
           both == DoubleIter(s, t)
<1>1. S = {l \in Loc : Holds(s, l) \/ Holds(t, l)}
  <2>1. \A u \in {s, t} : ToSet(u.indexes) = {l \in Loc : Holds(u, l)}
    <3> SUFFICES ASSUME NEW u, IsStore(u, Nat) PROVE ToSet(u.indexes) = {l \in Loc : Holds(u, l)}
      OBVIOUS
    <3>1. /\ DOMAIN u.indexes = 1..Len(u.indexes)
          /\ \A j \in 1..Len(u.indexes) : u.indexes[j] \in Loc /\ Holds(u, u.indexes[j])
          /\ \A l \in Loc : Holds(u, l) => \E j \in 1..Len(u.indexes) : l = u.indexes[j]
      BY PlaceIs
    <3> QED
      BY <3>1 DEF ToSet
  <2> QED
    BY <2>1
<1>2. IsFiniteSet(S) /\ S \subseteq Nat
  <2>1. S \subseteq Loc /\ IsFiniteSet(Loc) /\ Loc \subseteq Nat
    BY <1>1, StoreAssumption
  <2> HIDE DEF S
  <2> QED
    BY <2>1, FS_Subset
<1> HIDE DEF S
<1>3. /\ n \in Nat /\ DOMAIN q = 1..n /\ \A i \in 1..n : q[i] \in S
      /\ \A i, j \in 1..n : q[i] = q[j] => i = j
      /\ \A x \in S : \E i \in 1..n : q[i] = x
  BY <1>2, AscendingIs
<1>4. \A l \in Loc : /\ (IF Holds(s, l) THEN s.values[SearchedAt(s, l)] ELSE 0) = CountAt(s, l)
                     /\ (IF Holds(t, l) THEN t.values[SearchedAt(t, l)] ELSE 0) = CountAt(t, l)
  BY GetIs
<1>5. both = [j \in DOMAIN q |->
                <<q[j], IF Holds(s, q[j]) THEN s.values[SearchedAt(s, q[j])] ELSE 0,
                        IF Holds(t, q[j]) THEN t.values[SearchedAt(t, q[j])] ELSE 0>>]
  BY DEF DoubleIter, S
<1> HIDE DEF q, n, both
<1>6. /\ DOMAIN both = 1..n
      /\ \A j \in 1..n : /\ both[j][1] = q[j] /\ q[j] \in Loc
                         /\ Holds(s, q[j]) \/ Holds(t, q[j])
                         /\ both[j][2] = CountAt(s, q[j]) /\ both[j][3] = CountAt(t, q[j])
  BY <1>1, <1>3, <1>4, <1>5
<1>7. SideBySide(s, t, both, n)
  BY <1>1, <1>3, <1>6 DEF SideBySide
<1> QED
  BY <1>7 DEF both

(* Sums over the two, and over the values of one, are sums over addresses. *)
LEMMA OverBoth ==
  ASSUME NEW s, NEW t, NEW both, NEW n, SideBySide(s, t, both, n),
         NEW g, \A l \in Loc : g[l] \in Int,
         \A l \in Loc : ~Holds(s, l) /\ ~Holds(t, l) => g[l] = 0,
         NEW f, \A j \in 1..n : f[j] = g[both[j][1]]
  PROVE  SumFunctionOnSet(f, 1..n) = SumFunctionOnSet(g, Loc)
<1> DEFINE S == 1..n
           e == [j \in S |-> both[j][1]]
<1>1. n \in Nat /\ IsFiniteSet(S) /\ IsFiniteSet(Loc)
  BY FS_Interval, StoreAssumption DEF SideBySide
<1>2. \A i, j \in S : e[i] = e[j] => i = j
  BY DEF SideBySide
<1>3. \A j \in S : e[j] \in Loc /\ f[j] = g[e[j]]
  BY DEF SideBySide
<1>4. ASSUME NEW l \in Loc, \A j \in S : e[j] # l PROVE g[l] = 0
  BY <1>4 DEF SideBySide
<1> HIDE DEF S, e
<1>5. Along(f, S, e, g, Loc)
  BY <1>2, <1>3, <1>4 DEF Along
<1>6. SumFunctionOnSet(f, S) = SumFunctionOnSet(g, Loc)
  BY <1>1, <1>5, SumAlong
<1> QED
  BY <1>6 DEF S

LEMMA OverPlaces ==
  ASSUME NEW s, IsStore(s, Nat), NEW g, \A l \in Loc : g[l] \in Int,
         \A l \in Loc : ~Holds(s, l) => g[l] = 0,
         NEW f, \A j \in Places(s) : f[j] = g[s.indexes[j]]
  PROVE  SumFunctionOnSet(f, Places(s)) = SumFunctionOnSet(g, Loc)
<1> DEFINE n == Len(s.indexes)
           S == Places(s)
           e == [j \in S |-> s.indexes[j]]
<1>1. /\ n \in Nat /\ S = 1..n /\ \A j \in 1..n : s.indexes[j] \in Loc
      /\ \A i, j \in 1..n : s.indexes[i] = s.indexes[j] => i = j
      /\ \A l \in Loc : Holds(s, l) => \E j \in 1..n : l = s.indexes[j]
  BY PlaceIs
<1>2. IsFiniteSet(S) /\ IsFiniteSet(Loc)
  BY <1>1, FS_Interval, StoreAssumption
<1>3. \A i, j \in S : e[i] = e[j] => i = j
  BY <1>1
<1>4. \A j \in S : e[j] \in Loc /\ f[j] = g[e[j]]
  BY <1>1
<1>5. ASSUME NEW l \in Loc, \A j \in S : e[j] # l PROVE g[l] = 0
  BY <1>1, <1>5
<1> HIDE DEF S, e
<1>6. Along(f, S, e, g, Loc)
  BY <1>3, <1>4, <1>5 DEF Along
<1>7. SumFunctionOnSet(f, S) = SumFunctionOnSet(g, Loc)
  BY <1>2, <1>6, SumAlong
<1> QED
  BY <1>7 DEF S

-----------------------------------------------------------------------------
(* The divergence from a prior to its posterior.                           *)
Posterior(p, d, q) ==
  /\ IsStore(q, Nat) /\ q.total = p.total + d.total
  /\ \A l \in Loc : /\ CountAt(q, l) = CountAt(p, l) + CountAt(d, l)
                    /\ Holds(q, l) <=> Holds(p, l) \/ Holds(d, l)

LEMMA PosteriorOf ==
  ASSUME NEW p, Backed(p), NEW d, CountStore(d)
  PROVE  Posterior(p, d, AddObservations(p, d))
<1> DEFINE q == AddObservations(p, d)
<1>1. /\ IsStore(p, Nat) /\ p.total \in Nat /\ IsStore(d, Nat) /\ d.total \in Nat
  BY CountsType DEF Backed, CountStore
<1>2. IsStore(q, Nat) /\ q.total = p.total + d.total /\ SumOfStores(p, d, q)
  BY <1>1, ObservationsAre
<1> HIDE DEF q
<1>3. Posterior(p, d, q)
  BY <1>2 DEF SumOfStores, Posterior
<1> QED
  BY <1>3 DEF q

(* With evidence only at addresses of the prior, the posterior has the     *)
(* addresses of the prior, and its counts sum up to its total.             *)
LEMMA PosteriorCounts ==
  ASSUME NEW p, NEW d, Evidence(p, d), NEW q, Posterior(p, d, q)
  PROVE  /\ SumFunctionOnSet(Counts(q), Loc) = q.total
         /\ p.total \in 1..MaxTotal /\ q.total \in 1..2*MaxTotal /\ MaxTotal \in Nat
         /\ \A l \in Loc : /\ Counts(q)[l] = CountAt(q, l) /\ CountAt(q, l) \in 0..q.total
                           /\ Holds(q, l) <=> Holds(p, l)
                           /\ Holds(p, l) => CountAt(p, l) \in 1..p.total /\ CountAt(q, l) \in 1..q.total
                           /\ ~Holds(p, l) => CountAt(p, l) = 0 /\ CountAt(d, l) = 0 /\ CountAt(q, l) = 0
<1>1. /\ CountStore(p) /\ CountStore(d) /\ IsStore(p, Nat) /\ IsStore(d, Nat) /\ MaxTotal \in Nat
      /\ p.total \in 1..MaxTotal /\ d.total \in 0..MaxTotal /\ q.total = p.total + d.total
  BY TrackerAssumption DEF Evidence, Backed, CountStore, Posterior
<1>2. q.total \in 1..2*MaxTotal
  BY <1>1
<1>3. SumFunctionOnSet(Counts(q), Loc) = q.total
  <2>1. Counts(p) \in [Loc -> Nat] /\ Counts(d) \in [Loc -> Nat] /\ IsFiniteSet(Loc)
    BY <1>1, CountsType
  <2>2. \A l \in Loc : Counts(q)[l] = Counts(p)[l] + Counts(d)[l]
    BY DEF Posterior, Counts
  <2>3. \A l \in Loc : /\ Counts(p)[l] \in Int /\ Counts(d)[l] \in Int
                       /\ Counts(q)[l] = Counts(p)[l] + Counts(d)[l]
    BY <2>1, <2>2
  <2>4. SumFunctionOnSet(Counts(q), Loc) = SumFunctionOnSet(Counts(p), Loc) + SumFunctionOnSet(Counts(d), Loc)
    BY <2>1, <2>3, SumOfSums
  <2> QED
    BY <1>1, <2>4 DEF CountStore
<1>4. ASSUME NEW l \in Loc
      PROVE  /\ Counts(q)[l] = CountAt(q, l) /\ CountAt(q, l) \in 0..q.total
             /\ Holds(q, l) <=> Holds(p, l)
             /\ Holds(p, l) => CountAt(p, l) \in 1..p.total /\ CountAt(q, l) \in 1..q.total
             /\ ~Holds(p, l) => CountAt(p, l) = 0 /\ CountAt(d, l) = 0 /\ CountAt(q, l) = 0
  <2>1. /\ CountAt(p, l) \in 0..p.total /\ CountAt(d, l) \in 0..d.total
        /\ Holds(p, l) <=> CountAt(p, l) > 0
        /\ CountAt(d, l) > 0 => Holds(d, l) /\ CountAt(p, l) > 0
    BY Amounts
  <2>2. CountAt(q, l) = CountAt(p, l) + CountAt(d, l)
        /\ (Holds(q, l) <=> Holds(p, l) \/ Holds(d, l)) /\ (Holds(d, l) => Holds(p, l))
    BY DEF Posterior, Evidence
  <2>3. Counts(q)[l] = CountAt(q, l)
    BY DEF Counts
  <2> QED
    BY <1>1, <2>1, <2>2, <2>3
<1> QED
  BY <1>1, <1>2, <1>3, <1>4

LEMMA TermIsPart ==
  ASSUME NEW total \in 1..MaxTotal, NEW a \in 1..total, NEW c \in 0..MaxTotal
  PROVE  KlTerm(a, a + c, total) = KlPart(a, c, total)
<1>1. MaxTotal \in Nat
  BY TrackerAssumption
<1>2. a \in 1..2*MaxTotal + 1 /\ a + c \in 1..2*MaxTotal + 1 /\ total \in 1..2*MaxTotal + 1
  BY <1>1
<1> DEFINE x == Digamma[a] - Digamma[total]
<1>3. LnGamma[a] \in Int /\ LnGamma[a + c] \in Int /\ x \in Int
  BY <1>2, Tabled
<1>4. KlTerm(a, a + c, total) = LnGamma[a + c] - LnGamma[a] + (a - (a + c)) * x
  BY DEF KlTerm
<1>5. KlPart(a, c, total) = IF c > 0 THEN LnGamma[a + c] - LnGamma[a] - c * x ELSE 0
  BY DEF KlPart
<1> HIDE DEF x
<1>6. (a - (a + c)) * x = -(c * x)
  <2>1. a - (a + c) = -c
    BY <1>1
  <2>2. (-c) * x = -(c * x)
    BY <1>1, <1>3
  <2> QED
    BY <2>1, <2>2
<1>7. CASE c > 0
  <2>1. c * x \in Int
    BY <1>3
  <2> QED
    BY <1>3, <1>4, <1>5, <1>6, <1>7, <2>1
<1>8. CASE ~(c > 0)
  <2>1. c = 0 /\ a + c = a /\ c * x = 0
    BY <1>1, <1>3, <1>8
  <2> QED
    BY <1>3, <1>4, <1>5, <1>6, <2>1
<1> QED
  BY <1>7, <1>8

LEMMA TermsAreParts ==
  ASSUME NEW p, NEW d, Evidence(p, d), NEW q, Posterior(p, d, q), NEW l \in Loc, Holds(p, l)
  PROVE  KlTerm(CountAt(p, l), CountAt(q, l), p.total) = KlParts(p, d)[l]
<1> DEFINE a == CountAt(p, l)
           c == CountAt(d, l)
<1>1. a \in 1..p.total /\ c \in 0..MaxTotal /\ p.total \in 1..MaxTotal
  <2>1. /\ a \in 0..p.total /\ c \in 0..d.total /\ p.total \in 1..MaxTotal /\ d.total \in 0..MaxTotal /\ a > 0
    BY Amounts
  <2>2. MaxTotal \in Nat
    BY TrackerAssumption
  <2> HIDE DEF a, c
  <2> QED
    BY <2>1, <2>2
<1>2. CountAt(q, l) = a + c /\ KlParts(p, d)[l] = KlPart(a, c, p.total)
  BY DEF Posterior, KlParts
<1> HIDE DEF a, c
<1>3. KlTerm(a, a + c, p.total) = KlPart(a, c, p.total)
  BY <1>1, TermIsPart
<1> QED
  BY <1>2, <1>3 DEF a, c

KlOfCounts(p, d, q) ==
  NotBelowZero(LnGamma[p.total] - LnGamma[q.total] + SumFunctionOnSet(KlParts(p, d), Loc))

LEMMA KlDivIs ==
  ASSUME NEW p, NEW d, Evidence(p, d), NEW q, Posterior(p, d, q)
  PROVE  KlDiv(p, q) = KlOfCounts(p, d, q)
<1> DEFINE both == DoubleIter(p, q)
           f == [j \in DOMAIN both |-> both[j][3]]
           h == [j \in DOMAIN both |-> KlTerm(both[j][2], both[j][3], p.total)]
<1>1. IsStore(p, Nat) /\ IsStore(q, Nat)
  BY DEF Evidence, Backed, CountStore, Posterior
<1>2. PICK n : SideBySide(p, q, both, n)
  BY <1>1, DoubleIterIs
<1>3. /\ SumFunctionOnSet(Counts(q), Loc) = q.total /\ p.total \in 1..MaxTotal
      /\ \A l \in Loc : /\ Counts(q)[l] = CountAt(q, l) /\ CountAt(q, l) \in 0..q.total
                        /\ Holds(q, l) <=> Holds(p, l)
                        /\ Holds(p, l) => CountAt(p, l) \in 1..p.total /\ CountAt(q, l) \in 1..q.total
                        /\ ~Holds(p, l) => CountAt(p, l) = 0 /\ CountAt(d, l) = 0 /\ CountAt(q, l) = 0
  BY PosteriorCounts
<1>4. KlDiv(p, q) = IF p.total = 0 \/ \E j \in DOMAIN both : both[j][2] = 0 /\ both[j][3] > 0 THEN None
                    ELSE NotBelowZero(LnGamma[p.total] - LnGamma[SumFunctionOnSet(f, DOMAIN both)]
                                      + SumFunctionOnSet(h, DOMAIN both))
  BY DEF KlDiv, SumOver, SumFunction
<1> HIDE DEF both
<1>5. /\ DOMAIN both = 1..n
      /\ \A j \in 1..n : /\ both[j][1] \in Loc /\ Holds(p, both[j][1])
                         /\ both[j][2] = CountAt(p, both[j][1]) /\ both[j][2] # 0
                         /\ both[j][3] = CountAt(q, both[j][1])
  BY <1>2, <1>3 DEF SideBySide
<1>6. SumFunctionOnSet(f, DOMAIN both) = q.total
  <2>1. \A l \in Loc : Counts(q)[l] \in Int /\ (~Holds(p, l) /\ ~Holds(q, l) => Counts(q)[l] = 0)
    BY <1>3
  <2>2. \A j \in 1..n : f[j] = Counts(q)[both[j][1]]
    BY <1>3, <1>5
  <2> HIDE DEF f
  <2>3. SumFunctionOnSet(f, 1..n) = SumFunctionOnSet(Counts(q), Loc)
    BY <1>2, <2>1, <2>2, OverBoth
  <2> QED
    BY <1>3, <1>5, <2>3
<1>7. SumFunctionOnSet(h, DOMAIN both) = SumFunctionOnSet(KlParts(p, d), Loc)
  <2>1. \A l \in Loc : KlParts(p, d)[l] \in Int
    BY PartsType
  <2>2. \A l \in Loc : ~Holds(p, l) /\ ~Holds(q, l) => KlParts(p, d)[l] = 0
    BY <1>3 DEF KlParts, KlPart
  <2>3. \A j \in 1..n : h[j] = KlParts(p, d)[both[j][1]]
    <3>1. \A j \in 1..n : KlTerm(CountAt(p, both[j][1]), CountAt(q, both[j][1]), p.total) = KlParts(p, d)[both[j][1]]
      BY <1>5, TermsAreParts
    <3> QED
      BY <1>5, <3>1
  <2> HIDE DEF h
  <2>4. SumFunctionOnSet(h, 1..n) = SumFunctionOnSet(KlParts(p, d), Loc)
    BY <1>2, <2>1, <2>2, <2>3, OverBoth
  <2> QED
    BY <1>5, <2>4
<1>8. ~(p.total = 0 \/ \E j \in DOMAIN both : both[j][2] = 0 /\ both[j][3] > 0)
  BY <1>3, <1>5
<1> HIDE DEF f, h
<1> QED
  BY <1>4, <1>6, <1>7, <1>8 DEF KlOfCounts

LEMMA SupportedIs ==
  ASSUME NEW p, NEW d, Evidence(p, d), NEW q, Posterior(p, d, q), SupportedKlDiv(p, q) # None
  PROVE  SupportedKlDiv(p, q) = KlOfCounts(p, d, q)
<1> DEFINE f == [j \in Places(p) |-> q.values[j]]
           h == [j \in Places(p) |-> KlTerm(p.values[j], q.values[j], p.total)]
<1>1. IsStore(p, Nat) /\ IsStore(q, Nat)
  BY DEF Evidence, Backed, CountStore, Posterior
<1>2. p.indexes = q.indexes
  BY DEF SupportedKlDiv
<1>3. SupportedKlDiv(p, q) = NotBelowZero(LnGamma[p.total] - LnGamma[SumFunctionOnSet(f, Places(p))]
                                          + SumFunctionOnSet(h, Places(p)))
  BY DEF SupportedKlDiv, SumOver, SumFunction
<1>4. /\ SumFunctionOnSet(Counts(q), Loc) = q.total
      /\ \A l \in Loc : /\ Counts(q)[l] = CountAt(q, l) /\ CountAt(q, l) \in 0..q.total
                        /\ ~Holds(p, l) => CountAt(p, l) = 0 /\ CountAt(d, l) = 0 /\ CountAt(q, l) = 0
  BY PosteriorCounts
<1>5. /\ Places(p) = 1..Len(p.indexes)
      /\ \A j \in Places(p) : /\ p.indexes[j] \in Loc /\ Holds(p, p.indexes[j])
                              /\ CountAt(p, p.indexes[j]) = p.values[j]
                              /\ CountAt(q, p.indexes[j]) = q.values[j]
  <2>1. /\ Places(p) = 1..Len(p.indexes)
        /\ \A j \in 1..Len(p.indexes) : /\ p.indexes[j] \in Loc /\ Holds(p, p.indexes[j])
                                        /\ CountAt(p, p.indexes[j]) = p.values[j]
    BY <1>1, PlaceIs
  <2>2. \A j \in 1..Len(q.indexes) : CountAt(q, q.indexes[j]) = q.values[j]
    BY <1>1, PlaceIs
  <2> QED
    BY <1>2, <2>1, <2>2
<1>6. SumFunctionOnSet(f, Places(p)) = q.total
  <2>1. \A l \in Loc : Counts(q)[l] \in Int /\ (~Holds(p, l) => Counts(q)[l] = 0)
    BY <1>4
  <2>2. \A j \in Places(p) : f[j] = Counts(q)[p.indexes[j]]
    BY <1>4, <1>5
  <2> HIDE DEF f
  <2> QED
    BY <1>1, <1>4, <2>1, <2>2, OverPlaces
<1>7. SumFunctionOnSet(h, Places(p)) = SumFunctionOnSet(KlParts(p, d), Loc)
  <2>1. \A l \in Loc : KlParts(p, d)[l] \in Int
    BY PartsType
  <2>2. \A l \in Loc : ~Holds(p, l) => KlParts(p, d)[l] = 0
    BY <1>4 DEF KlParts, KlPart
  <2>3. \A j \in Places(p) : h[j] = KlParts(p, d)[p.indexes[j]]
    <3>1. \A j \in Places(p) : KlTerm(CountAt(p, p.indexes[j]), CountAt(q, p.indexes[j]), p.total)
                               = KlParts(p, d)[p.indexes[j]]
      BY <1>5, TermsAreParts
    <3> QED
      BY <1>5, <3>1
  <2> HIDE DEF h
  <2> QED
    BY <1>1, <2>1, <2>2, <2>3, OverPlaces
<1> HIDE DEF f, h
<1> QED
  BY <1>3, <1>6, <1>7 DEF KlOfCounts

(* The divergence of the two categoricals, as a sum over addresses. *)
CatParts(p, q) ==
  [l \in Loc |-> IF Holds(p, l) THEN CatTerm(CountAt(q, l), CountAt(p, l), q, p) ELSE 0]

LEMMA CatPartsType ==
  ASSUME NEW p, NEW d, Evidence(p, d), NEW q, Posterior(p, d, q)
  PROVE  \A l \in Loc : CatParts(p, q)[l] \in Int /\ (~Holds(p, l) => CatParts(p, q)[l] = 0)
<1> SUFFICES ASSUME NEW l \in Loc, Holds(p, l)
             PROVE  CatTerm(CountAt(q, l), CountAt(p, l), q, p) \in Int
  BY DEF CatParts
<1> DEFINE a == CountAt(q, l)
           b == CountAt(p, l)
<1>1. /\ p.total \in 1..MaxTotal /\ q.total \in 1..2*MaxTotal /\ MaxTotal \in Nat
      /\ a \in 1..q.total /\ b \in 1..p.total
  BY PosteriorCounts
<1> HIDE DEF a, b
<1>2. /\ a \in 1..2*MaxTotal + 1 /\ b \in 1..2*MaxTotal + 1
      /\ p.total \in 1..2*MaxTotal + 1 /\ q.total \in 1..2*MaxTotal + 1
  BY <1>1
<1>3. Ln[a] \in Int /\ Ln[b] \in Int /\ Ln[p.total] \in Int /\ Ln[q.total] \in Int
  BY <1>2, TrackerAssumption
<1>4. a * (Ln[a] - Ln[b] - (Ln[q.total] - Ln[p.total])) \in Int
  BY <1>2, <1>3
<1> QED
  BY <1>4 DEF CatTerm, LnTotals, a, b

LEMMA CatDivergencesAgree ==
  ASSUME NEW p, NEW d, Evidence(p, d), NEW q, Posterior(p, d, q), CatSupportedKlDiv(q, p) # None
  PROVE  CatSupportedKlDiv(q, p) = CatKlDiv(q, p)
<1> DEFINE both == DoubleIter(q, p)
           g == CatParts(p, q)
           f == [j \in Places(q) |-> CatTerm(q.values[j], p.values[j], q, p)]
           h == [j \in DOMAIN both |-> CatTerm(both[j][2], both[j][3], q, p)]
<1>1. IsStore(p, Nat) /\ IsStore(q, Nat)
  BY DEF Evidence, Backed, CountStore, Posterior
<1>2. p.indexes = q.indexes
  BY DEF CatSupportedKlDiv
<1>3. CatSupportedKlDiv(q, p) = SumFunctionOnSet(f, Places(q))
  BY DEF CatSupportedKlDiv, SumOver, SumFunction
<1>4. /\ p.total \in 1..MaxTotal /\ q.total \in 1..2*MaxTotal
      /\ \A l \in Loc : /\ Holds(q, l) <=> Holds(p, l)
                        /\ Holds(p, l) => CountAt(p, l) \in 1..p.total /\ CountAt(q, l) \in 1..q.total
  BY PosteriorCounts
<1>5. \A l \in Loc : g[l] \in Int /\ (~Holds(p, l) => g[l] = 0)
  BY CatPartsType
<1>6. \A j \in Places(q) : /\ q.indexes[j] \in Loc /\ Holds(p, q.indexes[j])
                           /\ CountAt(p, q.indexes[j]) = p.values[j]
                           /\ CountAt(q, q.indexes[j]) = q.values[j]
  <2>1. \A j \in 1..Len(p.indexes) : /\ p.indexes[j] \in Loc /\ Holds(p, p.indexes[j])
                                     /\ CountAt(p, p.indexes[j]) = p.values[j]
    BY <1>1, PlaceIs
  <2>2. /\ Places(q) = 1..Len(q.indexes)
        /\ \A j \in 1..Len(q.indexes) : CountAt(q, q.indexes[j]) = q.values[j]
    BY <1>1, PlaceIs
  <2> QED
    BY <1>2, <2>1, <2>2
<1>7. SumFunctionOnSet(f, Places(q)) = SumFunctionOnSet(g, Loc)
  <2>1. \A j \in Places(q) : f[j] = g[q.indexes[j]]
    BY <1>6 DEF CatParts
  <2>2. \A l \in Loc : g[l] \in Int /\ (~Holds(q, l) => g[l] = 0)
    BY <1>4, <1>5
  <2> HIDE DEF f, g
  <2> QED
    BY <1>1, <2>1, <2>2, OverPlaces
<1>8. PICK n : SideBySide(q, p, both, n)
  BY <1>1, DoubleIterIs
<1>9. CatKlDiv(q, p) =
        IF q.total = 0 \/ p.total = 0 \/ \E j \in DOMAIN both : both[j][2] = 0 /\ both[j][3] > 0 THEN None
        ELSE SumFunctionOnSet(h, DOMAIN both)
  BY DEF CatKlDiv, SumOver, SumFunction
<1> HIDE DEF both
<1>10. /\ DOMAIN both = 1..n
       /\ \A j \in 1..n : /\ both[j][1] \in Loc /\ Holds(p, both[j][1])
                          /\ both[j][2] = CountAt(q, both[j][1]) /\ both[j][2] # 0
                          /\ both[j][3] = CountAt(p, both[j][1])
  BY <1>4, <1>8 DEF SideBySide
<1>11. SumFunctionOnSet(h, DOMAIN both) = SumFunctionOnSet(g, Loc)
  <2>1. \A j \in 1..n : h[j] = g[both[j][1]]
    BY <1>10 DEF CatParts
  <2>2. \A l \in Loc : g[l] \in Int /\ (~Holds(q, l) /\ ~Holds(p, l) => g[l] = 0)
    BY <1>5
  <2> HIDE DEF h, g
  <2>3. SumFunctionOnSet(h, 1..n) = SumFunctionOnSet(g, Loc)
    BY <1>8, <2>1, <2>2, OverBoth
  <2> QED
    BY <1>10, <2>3
<1>12. ~(q.total = 0 \/ p.total = 0 \/ \E j \in DOMAIN both : both[j][2] = 0 /\ both[j][3] > 0)
  BY <1>4, <1>10
<1> HIDE DEF f, g, h
<1> QED
  BY <1>3, <1>7, <1>9, <1>11, <1>12

(* Evidence at an address that the prior has not: no divergence has a      *)
(* number.                                                                 *)
LEMMA NothingAgainst ==
  ASSUME NEW p, Backed(p), NEW d, CountStore(d), NEW q, Posterior(p, d, q),
         NEW l \in Loc, Holds(d, l), ~Holds(p, l), CountAt(d, l) > 0
  PROVE  /\ PosteriorKlDiv(p, d) = None /\ KlDiv(p, q) = None
         /\ SupportedKlDiv(p, q) = None /\ CatSupportedKlDiv(q, p) = None
<1>1. IsStore(p, Nat) /\ IsStore(d, Nat) /\ IsStore(q, Nat)
  BY DEF Backed, CountStore, Posterior
<1>2. CountAt(p, l) = 0
  BY <1>1, GetIs
<1>3. Holds(q, l) /\ CountAt(q, l) = CountAt(d, l)
  <2>1. CountAt(q, l) = CountAt(p, l) + CountAt(d, l) /\ Holds(q, l) /\ CountAt(d, l) \in Nat
    BY <1>1, CountsType DEF Posterior
  <2> QED
    BY <1>2, <2>1
<1>4. PosteriorKlDiv(p, d) = None
  <2>1. PICK j \in 1..Len(d.indexes) : l = d.indexes[j]
    BY <1>1, PlaceIs
  <2>2. /\ j \in DOMAIN Iter(d) /\ Iter(d)[j][1] = l
    BY <1>1, <2>1, IterIs
  <2>3. \E x \in ToSet(Iter(d)) : x[1] = l
    BY <2>2 DEF ToSet
  <2>4. \E x \in ToSet(Iter(d)) : Get(p, x[1], 0) = 0
    BY <1>2, <2>3 DEF CountAt
  <2> QED
    BY <2>4 DEF PosteriorKlDiv
<1>5. KlDiv(p, q) = None
  <2> DEFINE both == DoubleIter(p, q)
  <2>1. PICK n : SideBySide(p, q, both, n)
    BY <1>1, DoubleIterIs
  <2> HIDE DEF both
  <2>2. PICK j \in 1..n : both[j][1] = l
    BY <1>3, <2>1 DEF SideBySide
  <2>3. j \in DOMAIN both /\ both[j][2] = 0 /\ both[j][3] > 0
    BY <1>2, <1>3, <2>1, <2>2 DEF SideBySide
  <2>4. \E i \in DOMAIN both : both[i][2] = 0 /\ both[i][3] > 0
    BY <2>3
  <2> QED
    BY <2>4 DEF KlDiv, both
<1>6. p.indexes # q.indexes
  BY <1>3 DEF Holds
<1> QED
  BY <1>4, <1>5, <1>6 DEF SupportedKlDiv, CatSupportedKlDiv

(* The three divergences of a Dirichlet, and the two of a Categorical,     *)
(* agree at every step, for any tables, totals and addresses.              *)
THEOREM DivergencesAreOne == Spec => []DivergencesAgree
<1>1. TrackerInv => DivergencesAgree
  <2> DEFINE p == prior
             d == data
             q == AddObservations(prior, data)
  <2> SUFFICES ASSUME TrackerInv, prior # None,
                      \A j \in Places(data) : data.values[j] > 0 \/ Holds(prior, data.indexes[j])
               PROVE  /\ KlDiv(p, q) = PosteriorKlDiv(p, d)
                      /\ SupportedKlDiv(p, q) # None => SupportedKlDiv(p, q) = KlDiv(p, q)
                      /\ CatSupportedKlDiv(q, p) # None => CatSupportedKlDiv(q, p) = CatKlDiv(q, p)
    BY DEF DivergencesAgree
  <2>1. Backed(p) /\ CountStore(d) /\ d.total \in 0..MaxTotal
    BY DEF TrackerInv
  <2>2. Posterior(p, d, q)
    BY <2>1, PosteriorOf
  <2> HIDE DEF q
  <2>3. CASE \A l \in Loc : Holds(d, l) => Holds(p, l)
    <3>1. Evidence(p, d)
      BY <2>1, <2>3 DEF Evidence
    <3>2. q.total = d.total + p.total
      BY <2>1, <2>2 DEF Posterior, Backed
    <3>3. KlDiv(p, q) = KlOfCounts(p, d, q)
      BY <2>2, <3>1, KlDivIs
    <3>4. PosteriorKlDiv(p, d) = KlOfCounts(p, d, q)
      BY <3>1, <3>2, PosteriorIs DEF KlOfCounts
    <3>5. SupportedKlDiv(p, q) # None => SupportedKlDiv(p, q) = KlOfCounts(p, d, q)
      BY <2>2, <3>1, SupportedIs
    <3>6. CatSupportedKlDiv(q, p) # None => CatSupportedKlDiv(q, p) = CatKlDiv(q, p)
      BY <2>2, <3>1, CatDivergencesAgree
    <3> QED
      BY <3>3, <3>4, <3>5, <3>6
  <2>4. CASE \E l \in Loc : Holds(d, l) /\ ~Holds(p, l)
    <3>1. PICK l \in Loc : Holds(d, l) /\ ~Holds(p, l)
      BY <2>4
    <3>2. CountAt(d, l) > 0
      <4>1. IsStore(d, Nat)
        BY <2>1 DEF CountStore
      <4>2. PICK j \in 1..Len(d.indexes) : l = d.indexes[j]
        BY <3>1, <4>1, PlaceIs
      <4>3. j \in Places(d) /\ CountAt(d, l) = d.values[j]
        BY <4>1, <4>2, PlaceIs
      <4> QED
        BY <3>1, <4>2, <4>3
    <3> QED
      BY <2>1, <2>2, <3>1, <3>2, NothingAgainst
  <2> QED
    BY <2>3, <2>4
<1> QED
  BY TrackerInvInit, TrackerInvStep, <1>1, PTL DEF Spec
=============================================================================
