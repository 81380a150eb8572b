------------------------- MODULE CoverTreeWriterProofs -------------------------
(***************************************************************************)
(* Proofs about the life of a tree, for every tree that is well built: it  *)
(* stays the tree that the builder made, and readers miss no plugin.       *)
(***************************************************************************)
EXTENDS PyCoverTree, DataLemmas, SequenceTheorems

-----------------------------------------------------------------------------
(* A layer: N has its nodes as they were built, V whatever kinds and       *)
(* components of plugins there are.                                        *)
BareNode(n) ==
  n = NewNode(n.parent, n.address, n.radius, n.count, n.children, n.singletons)
Bare(N) ==
  /\ IsFiniteSet(DOMAIN N) /\ N = [pi \in DOMAIN N |-> N[pi]]
  /\ \A pi \in DOMAIN N : BareNode(N[pi])

PluginMaps(V) == UNION {[ks -> V] : ks \in SUBSET V}
WithMap(n, q) == [n EXCEPT !.plugins = q]
Plugged(N, V) ==
  {f \in [DOMAIN N -> {WithMap(N[pi], q) : pi \in DOMAIN N, q \in PluginMaps(V)}] :
     \A pi \in DOMAIN N : CloneNode(f[pi]) = N[pi]}
Updates(N, V) == {PluginOp(pi, kind, c) : pi \in DOMAIN N, kind \in V, c \in V}

KindsAt(nodes, pi) == DOMAIN nodes[pi].plugins

LEMMA FilledNode ==
  ASSUME NEW p, NEW a, NEW r, NEW c, NEW k, NEW s, NEW n, n = NewNode(p, a, r, c, k, s), NEW q
  PROVE  WithMap(n, q) = [address |-> a, parent |-> p, radius |-> r, count |-> c,
                          children |-> k, singletons |-> s, plugins |-> q]
BY DEF WithMap, NewNode

LEMMA NodeWithMap ==
  ASSUME NEW n, BareNode(n), NEW q
  PROVE  /\ CloneNode(WithMap(n, q)) = n /\ WithMap(n, q).plugins = q
         /\ \A r : WithMap(WithMap(n, q), r) = WithMap(n, r)
<1> DEFINE filled(x) == [address |-> n.address, parent |-> n.parent, radius |-> n.radius,
                         count |-> n.count, children |-> n.children,
                         singletons |-> n.singletons, plugins |-> x]
<1>1. \A x : WithMap(n, x) = filled(x)
  BY FilledNode DEF BareNode
<1>2. n = filled(<<>>)
  BY DEF BareNode, NewNode
<1>3. \A x, y : [filled(x) EXCEPT !.plugins = y] = filled(y) /\ filled(x).plugins = x
  OBVIOUS
<1>4. \A y : WithMap(filled(q), y) = filled(y)
  BY <1>3 DEF WithMap
<1>5. CloneNode(filled(q)) = filled(<<>>)
  BY <1>3 DEF CloneNode
<1> HIDE DEF filled
<1> QED
  BY <1>1, <1>2, <1>3, <1>4, <1>5

LEMMA PluggedNode ==
  ASSUME NEW N, Bare(N), NEW V, NEW f \in Plugged(N, V), NEW pi \in DOMAIN N
  PROVE  /\ f[pi] = WithMap(N[pi], f[pi].plugins) /\ f[pi].plugins \in PluginMaps(V)
         /\ \A q : CloneNode(WithMap(f[pi], q)) = N[pi]
         /\ \A q : WithMap(f[pi], q) = WithMap(N[pi], q) /\ WithMap(f[pi], q).plugins = q
         /\ DOMAIN f = DOMAIN N
<1>1. PICK pj \in DOMAIN N, q \in PluginMaps(V) : f[pi] = WithMap(N[pj], q)
  BY DEF Plugged
<1>2. BareNode(N[pi]) /\ BareNode(N[pj])
  BY DEF Bare
<1>3. CloneNode(f[pi]) = N[pi] /\ DOMAIN f = DOMAIN N
  BY DEF Plugged
<1>4. CloneNode(f[pi]) = N[pj]
  BY <1>1, <1>2, NodeWithMap
<1>5. f[pi].plugins = q /\ f[pi] = WithMap(N[pi], q)
  BY <1>1, <1>2, <1>3, <1>4, NodeWithMap
<1>6. \A r : /\ WithMap(f[pi], r) = WithMap(N[pi], r)
             /\ CloneNode(WithMap(f[pi], r)) = N[pi] /\ WithMap(f[pi], r).plugins = r
  BY <1>2, <1>5, NodeWithMap
<1> QED
  BY <1>3, <1>5, <1>6

LEMMA ApplyKeeps ==
  ASSUME NEW N, Bare(N), NEW V, NEW f \in Plugged(N, V), NEW op \in Updates(N, V)
  PROVE  /\ Apply(f, op) \in Plugged(N, V) /\ ApplyCloned(f, op) = Apply(f, op)
         /\ \A pi \in DOMAIN N :
              KindsAt(Apply(f, op), pi) = KindsAt(f, pi) \cup (IF op.pi = pi THEN {op.kind} ELSE {})
<1>1. PICK pj \in DOMAIN N, kind \in V, c \in V : op = PluginOp(pj, kind, c)
  BY DEF Updates
<1>2. op.type = "update" /\ op.pi = pj /\ op.kind = kind /\ op.component = c
  BY <1>1 DEF PluginOp
<1>3. DOMAIN f = DOMAIN N /\ f = [pi \in DOMAIN N |-> f[pi]]
  BY DEF Plugged
<1> DEFINE q == Put(f[pj].plugins, kind, c)
           g == [f EXCEPT ![pj] = WithMap(f[pj], q)]
<1>4. Apply(f, op) = g /\ ApplyCloned(f, op) = Apply(f, op)
  BY <1>2, <1>3 DEF Apply, ApplyCloned, InsertPlugin, WithMap
<1>5. f[pj].plugins \in PluginMaps(V)
  BY PluggedNode
<1>6. q \in PluginMaps(V) /\ DOMAIN q = DOMAIN f[pj].plugins \cup {kind}
  <2>1. PICK ks \in SUBSET V : f[pj].plugins \in [ks -> V]
    BY <1>5 DEF PluginMaps
  <2>2. q = [x \in {kind} \cup ks |-> IF x = kind THEN c ELSE f[pj].plugins[x]]
    BY <2>1 DEF Put
  <2>3. q \in [ks \cup {kind} -> V]
    BY <2>1, <2>2
  <2> QED
    BY <2>1, <2>3 DEF PluginMaps
<1> HIDE DEF q
<1>7. /\ g[pj] = WithMap(N[pj], q) /\ CloneNode(g[pj]) = N[pj] /\ g[pj].plugins = q
      /\ \A pi \in DOMAIN N \ {pj} : g[pi] = f[pi]
      /\ DOMAIN g = DOMAIN N /\ g = [pi \in DOMAIN N |-> g[pi]]
  <2>1. WithMap(f[pj], q) = WithMap(N[pj], q) /\ CloneNode(WithMap(f[pj], q)) = N[pj]
        /\ WithMap(f[pj], q).plugins = q
    BY PluggedNode
  <2> HIDE DEF Plugged, WithMap, CloneNode
  <2> QED
    BY <1>3, <2>1
<1>8. \A pi \in DOMAIN N : g[pi] \in {WithMap(N[pk], r) : pk \in DOMAIN N, r \in PluginMaps(V)}
                             /\ CloneNode(g[pi]) = N[pi]
  BY <1>6, <1>7 DEF Plugged
<1> DEFINE R == {WithMap(N[pk], r) : pk \in DOMAIN N, r \in PluginMaps(V)}
<1> HIDE DEF g, R
<1>9. g \in Plugged(N, V)
  <2>1. g \in [DOMAIN N -> R] /\ \A pi \in DOMAIN N : CloneNode(g[pi]) = N[pi]
    BY <1>7, <1>8 DEF R
  <2>2. Plugged(N, V) = {h \in [DOMAIN N -> R] : \A pi \in DOMAIN N : CloneNode(h[pi]) = N[pi]}
    BY DEF Plugged, R
  <2> QED
    BY <2>1, <2>2
<1> QED
  BY <1>2, <1>4, <1>6, <1>7, <1>9 DEF KindsAt

(* Operations in a row. *)
ApplyStep(N, V, ops) ==
  [ix \in (1..Len(ops)) \X Plugged(N, V) |-> Apply(ix[2], ops[ix[1]])]

Applies(ops, f, it) ==
  it = [s \in SUBSET DOMAIN ops |-> IF s = {} THEN f ELSE Apply(it[s \ {Max(s)}], ops[Max(s)])]
AppliesCloned(ops, f, it) ==
  it = [s \in SUBSET DOMAIN ops |->
          IF s = {} THEN f ELSE ApplyCloned(it[s \ {Max(s)}], ops[Max(s)])]

LEMMA FoldOfApply ==
  ASSUME NEW f, NEW ops
  PROVE  /\ FoldLeft(Apply, f, ops) = (CHOOSE it : Applies(ops, f, it))[DOMAIN ops]
         /\ FoldLeft(ApplyCloned, f, ops) = (CHOOSE it : AppliesCloned(ops, f, it))[DOMAIN ops]
BY DEF FoldLeft, MapThenFoldSet, Applies, AppliesCloned

LEMMA ApplyAll ==
  ASSUME NEW N, Bare(N), NEW V, NEW f \in Plugged(N, V), NEW ops \in Seq(Updates(N, V))
  PROVE  \E h : /\ RecursionTo(Len(ops), h, Plugged(N, V), f, ApplyStep(N, V, ops))
                /\ FoldLeft(Apply, f, ops) = h[Len(ops)]
                /\ FoldLeft(ApplyCloned, f, ops) = h[Len(ops)]
<1> DEFINE n == Len(ops)
           X == Plugged(N, V)
           g == ApplyStep(N, V, ops)
<1>1. n \in Nat /\ DOMAIN ops = 1..n /\ \A i \in 1..n : ops[i] \in Updates(N, V)
  OBVIOUS
<1>2. ASSUME NEW i \in 1..n, NEW x \in X
      PROVE  g[<<i, x>>] = Apply(x, ops[i]) /\ g[<<i, x>>] = ApplyCloned(x, ops[i]) /\ g[<<i, x>>] \in X
  <2>1. g[<<i, x>>] = Apply(x, ops[i])
    BY DEF ApplyStep
  <2> HIDE DEF g
  <2> QED
    BY <1>1, <2>1, ApplyKeeps
<1>3. StepsIn(g, X, n)
  BY <1>2 DEF StepsIn
<1> HIDE DEF n, X, g
<1>4. \A s \in SUBSET (1..n) : s # {} => Max(s) \in 1..n /\ s \ {Max(s)} \in SUBSET (1..n)
  BY <1>1, MaxOfIndices
<1> DEFINE one == CHOOSE it : Applies(ops, f, it)
           two == CHOOSE it : AppliesCloned(ops, f, it)
<1>5. ASSUME NEW fold \in [SUBSET (1..n) -> X], Folding(n, fold, f, g)
      PROVE  FoldsIn(n, one, X, f, g) /\ FoldsIn(n, two, X, f, g)
  <2>1. \A s \in SUBSET (1..n) :
          /\ fold[s] = IF s = {} THEN f ELSE Apply(fold[s \ {Max(s)}], ops[Max(s)])
          /\ fold[s] = IF s = {} THEN f ELSE ApplyCloned(fold[s \ {Max(s)}], ops[Max(s)])
    BY <1>2, <1>4, <1>5 DEF Folding
  <2>2. Applies(ops, f, fold) /\ AppliesCloned(ops, f, fold)
    BY <1>1, <2>1 DEF Applies, AppliesCloned
  <2>3. Applies(ops, f, one) /\ AppliesCloned(ops, f, two)
    BY <2>2
  <2> HIDE DEF one, two
  <2>4. \A s \in SUBSET (1..n) : one[s] = IF s = {} THEN f ELSE Apply(one[s \ {Max(s)}], ops[Max(s)])
    BY <1>1, <2>3 DEF Applies
  <2>5. \A s \in SUBSET (1..n) :
          two[s] = IF s = {} THEN f ELSE ApplyCloned(two[s \ {Max(s)}], ops[Max(s)])
    BY <1>1, <2>3 DEF AppliesCloned
  <2>6. one[{}] = f /\ two[{}] = f
    BY <2>4, <2>5
  <2>7. FoldsIn(n, one, X, f, g)
    BY <1>2, <1>4, <2>4, <2>6 DEF FoldsIn
  <2>8. FoldsIn(n, two, X, f, g)
    BY <1>2, <1>4, <2>5, <2>6 DEF FoldsIn
  <2> QED
    BY <2>7, <2>8
<1> HIDE DEF one, two
<1>6. PICK h : RecursionTo(n, h, X, f, g) /\ one[1..n] = h[n]
  <2>1. f \in X
    BY DEF X
  <2>2. SolvedBy(n, one, X, f, g)
    BY <1>5 DEF SolvedBy
  <2> QED
    BY <1>1, <1>3, <2>1, <2>2, FoldAlong
<1>7. two[1..n] = h[n]
  <2>1. f \in X
    BY DEF X
  <2>2. \E fold \in [SUBSET (1..n) -> X] : Folding(n, fold, f, g)
    BY <1>1, <1>3, <2>1, FoldingExists
  <2>3. FoldsIn(n, two, X, f, g)
    BY <1>5, <2>2
  <2> QED
    BY <1>1, <1>6, <2>3, FoldingAlong
<1>8. FoldLeft(Apply, f, ops) = h[n] /\ FoldLeft(ApplyCloned, f, ops) = h[n]
  BY <1>1, <1>6, <1>7, FoldOfApply DEF one, two
<1> QED
  BY <1>6, <1>8 DEF n, X, g

KindsIn(ops, pi) == {ops[i].kind : i \in {j \in DOMAIN ops : ops[j].pi = pi}}

Applied(f, ops) == FoldLeft(Apply, f, ops)
AppliedOnce(f, ops) == FoldLeft(ApplyCloned, f, ops)

LEMMA AppliedKinds ==
  ASSUME NEW N, Bare(N), NEW V, NEW f \in Plugged(N, V), NEW ops \in Seq(Updates(N, V))
  PROVE  LET g == Applied(f, ops)
         IN /\ g \in Plugged(N, V) /\ AppliedOnce(f, ops) = g
            /\ \A pi \in DOMAIN N : KindsAt(g, pi) = KindsAt(f, pi) \cup KindsIn(ops, pi)
<1> DEFINE n == Len(ops)
           X == Plugged(N, V)
<1>1. n \in Nat /\ DOMAIN ops = 1..n /\ \A i \in 1..n : ops[i] \in Updates(N, V)
  OBVIOUS
<1>2. PICK h : /\ RecursionTo(n, h, X, f, ApplyStep(N, V, ops))
               /\ Applied(f, ops) = h[n] /\ AppliedOnce(f, ops) = h[n]
  BY ApplyAll DEF Applied, AppliedOnce
<1>3. /\ h \in [0..n -> X] /\ h[0] = f
      /\ \A i \in 1..n : h[i] = ApplyStep(N, V, ops)[<<i, h[i - 1]>>]
  BY <1>2 DEF RecursionTo
<1>4. ASSUME NEW i \in 1..n PROVE h[i - 1] \in X /\ h[i] = Apply(h[i - 1], ops[i])
  <2>1. i - 1 \in 0..n /\ h[i - 1] \in X
    BY <1>3
  <2> QED
    BY <1>3, <2>1 DEF ApplyStep
<1> DEFINE Some(pi, i) == {ops[j].kind : j \in {l \in 1..i : ops[l].pi = pi}}
           P == {i \in Nat : i <= n => \A pi \in DOMAIN N : KindsAt(h[i], pi) = KindsAt(f, pi) \cup Some(pi, i)}
<1>5. 0 \in P
  <2>1. \A pi : Some(pi, 0) = {}
    OBVIOUS
  <2> HIDE DEF Some
  <2> QED
    BY <1>3, <2>1
<1>6. ASSUME NEW i \in P PROVE i + 1 \in P
  <2> SUFFICES ASSUME i + 1 <= n, NEW pi \in DOMAIN N
               PROVE  KindsAt(h[i + 1], pi) = KindsAt(f, pi) \cup Some(pi, i + 1)
    OBVIOUS
  <2>1. i \in Nat /\ i + 1 \in 1..n /\ (i + 1) - 1 = i /\ i <= n
    OBVIOUS
  <2>2. KindsAt(h[i], pi) = KindsAt(f, pi) \cup Some(pi, i)
    BY <2>1
  <2>3. 1..(i + 1) = (1..i) \cup {i + 1}
    BY <2>1
  <2>4. Some(pi, i + 1) = Some(pi, i) \cup (IF ops[i + 1].pi = pi THEN {ops[i + 1].kind} ELSE {})
    BY <2>3
  <2>5. KindsAt(h[i + 1], pi)
          = KindsAt(h[i], pi) \cup (IF ops[i + 1].pi = pi THEN {ops[i + 1].kind} ELSE {})
    <3>1. h[i] \in X /\ h[i + 1] = Apply(h[i], ops[i + 1]) /\ ops[i + 1] \in Updates(N, V)
      BY <1>1, <1>4, <2>1
    <3> QED
      BY <3>1, ApplyKeeps
  <2> HIDE DEF Some
  <2> QED
    BY <2>2, <2>4, <2>5
<1>7. P \in SUBSET Nat
  OBVIOUS
<1>8. P = Nat
  <2> HIDE DEF P
  <2> QED
    BY <1>5, <1>6, <1>7, AllNaturals
<1>9. \A pi \in DOMAIN N : KindsAt(h[n], pi) = KindsAt(f, pi) \cup KindsIn(ops, pi)
  <2>1. \A pi : Some(pi, n) = KindsIn(ops, pi)
    BY <1>1 DEF KindsIn
  <2>2. n \in P
    BY <1>1, <1>8
  <2> HIDE DEF Some
  <2> QED
    BY <1>1, <2>1, <2>2
<1>10. h[n] \in X
  BY <1>1, <1>3
<1> QED
  BY <1>2, <1>9, <1>10

LEMMA NoneApplied ==
  ASSUME NEW N, Bare(N), NEW V, NEW f \in Plugged(N, V), NEW ops \in Seq(Updates(N, V)), Len(ops) = 0
  PROVE  Applied(f, ops) = f
<1> DEFINE n == Len(ops)
<1> HIDE DEF n
<1>1. PICK h : /\ RecursionTo(n, h, Plugged(N, V), f, ApplyStep(N, V, ops)) /\ Applied(f, ops) = h[n]
  BY ApplyAll DEF Applied, n
<1>2. h[0] = f /\ n = 0
  BY <1>1 DEF RecursionTo, n
<1> QED
  BY <1>1, <1>2

LEMMA BareIsPlugged ==
  ASSUME NEW N, Bare(N), NEW V
  PROVE  /\ N \in Plugged(N, V) /\ \A pi \in DOMAIN N : KindsAt(N, pi) = {}
         /\ \A pi \in DOMAIN N : CloneNode(N[pi]) = N[pi]
<1>1. <<>> \in PluginMaps(V)
  <2>1. <<>> \in [{} -> V]
    OBVIOUS
  <2> QED
    BY <2>1 DEF PluginMaps
<1>2. ASSUME NEW n, BareNode(n) PROVE WithMap(n, <<>>) = n /\ CloneNode(n) = n /\ n.plugins = <<>>
  <2>1. n.plugins = <<>>
    BY <1>2 DEF BareNode, NewNode
  <2>2. WithMap(n, <<>>) = n
    BY <1>2, FilledNode DEF BareNode, NewNode
  <2> QED
    BY <2>1, <2>2 DEF CloneNode, WithMap
<1>3. \A pi \in DOMAIN N : WithMap(N[pi], <<>>) = N[pi] /\ CloneNode(N[pi]) = N[pi] /\ N[pi].plugins = <<>>
  BY <1>2 DEF Bare
<1> DEFINE R == {WithMap(N[pk], r) : pk \in DOMAIN N, r \in PluginMaps(V)}
<1>4. \A pi \in DOMAIN N : N[pi] \in R
  BY <1>1, <1>3
<1>5. N = [pi \in DOMAIN N |-> N[pi]]
  BY DEF Bare
<1> HIDE DEF R
<1>6. N \in [DOMAIN N -> R]
  BY <1>4, <1>5
<1>7. Plugged(N, V) = {h \in [DOMAIN N -> R] : \A pi \in DOMAIN N : CloneNode(h[pi]) = N[pi]}
  BY DEF Plugged, R
<1>8. \A pi \in DOMAIN N : KindsAt(N, pi) = {}
  BY <1>3 DEF KindsAt
<1> QED
  BY <1>3, <1>6, <1>7, <1>8

(* Nodes without plugins are the nodes as they were built. *)
NonePlugged(N, f) == \A pi \in DOMAIN N : KindsAt(f, pi) = {}

LEMMA NoPlugins ==
  ASSUME NEW N, Bare(N), NEW V, NEW f \in Plugged(N, V), NonePlugged(N, f)
  PROVE  f = N
<1>1. ASSUME NEW pi \in DOMAIN N PROVE f[pi] = N[pi]
  <2>1. f[pi] = WithMap(N[pi], f[pi].plugins) /\ f[pi].plugins \in PluginMaps(V)
    BY PluggedNode
  <2>2. DOMAIN f[pi].plugins = {}
    BY DEF KindsAt, NonePlugged
  <2> DEFINE q == f[pi].plugins
             none == N[pi].plugins
  <2>3. q = [x \in DOMAIN q |-> q[x]]
    BY <2>1 DEF PluginMaps
  <2>4. N[pi] = WithMap(N[pi], none) /\ none \in PluginMaps(V) /\ DOMAIN none = {}
    BY BareIsPlugged, PluggedNode DEF KindsAt
  <2>5. none = [x \in DOMAIN none |-> none[x]]
    BY <2>4 DEF PluginMaps
  <2>6. q = none
    <3> HIDE DEF q, none
    <3> QED
      BY <2>2, <2>3, <2>4, <2>5 DEF q
  <2> QED
    BY <2>1, <2>4, <2>6
<1>2. f = [pi \in DOMAIN N |-> f[pi]] /\ N = [pi \in DOMAIN N |-> N[pi]]
  BY DEF Plugged, Bare
<1> QED
  BY <1>1, <1>2

(* A layer between its operations: the operations up to swap, applied to   *)
(* the copy behind, make what is shown; those above it are pending.        *)
LayerRecord(s, shown, writing, log, swap, second) ==
  [scale |-> s, shown |-> shown, writing |-> writing, log |-> log, swap |-> swap,
   first |-> FALSE, second |-> second]
Pending(layer) == SubSeq(layer.log, layer.swap + 1, Len(layer.log))

Settled(layer, N, V) ==
  /\ layer = LayerRecord(layer.scale, layer.shown, layer.writing, layer.log, layer.swap, layer.second)
  /\ layer.second \in BOOLEAN
  /\ layer.shown \in Plugged(N, V)
  /\ layer.log \in Seq(Updates(N, V)) /\ layer.swap \in 0..Len(layer.log)
  /\ layer.second => layer.shown = N /\ layer.swap = 0
  /\ ~layer.second =>
       /\ layer.writing \in Plugged(N, V)
       /\ Applied(layer.writing, SubSeq(layer.log, 1, layer.swap)) = layer.shown

LEMMA RefreshKeeps ==
  ASSUME NEW N, Bare(N), NEW V, NEW layer, Settled(layer, N, V)
  PROVE  LET fresh == RefreshLayer(layer)
         IN /\ Settled(fresh, N, V) /\ ~fresh.second /\ Pending(fresh) = <<>>
            /\ fresh.writing = layer.shown /\ fresh.scale = layer.scale
            /\ fresh.log = Pending(layer) /\ fresh.shown = Applied(layer.shown, Pending(layer))
            /\ \A pi \in DOMAIN N :
                 KindsAt(fresh.shown, pi) = KindsAt(layer.shown, pi) \cup KindsIn(Pending(layer), pi)
<1> DEFINE stale == IF layer.second THEN [pi \in DOMAIN layer.shown |-> CloneNode(layer.shown[pi])]
                    ELSE layer.writing
           old == SubSeq(layer.log, 1, layer.swap)
           twice == Applied(stale, old)
           once == Pending(layer)
           shown == AppliedOnce(twice, once)
           fresh == RefreshLayer(layer)
<1>1. /\ layer.log \in Seq(Updates(N, V)) /\ layer.swap \in 0..Len(layer.log) /\ Len(layer.log) \in Nat
      /\ layer.shown \in Plugged(N, V)
  BY DEF Settled
<1>2. old \in Seq(Updates(N, V)) /\ once \in Seq(Updates(N, V)) /\ Len(once) \in Nat
  BY <1>1 DEF Pending
<1>3. twice = layer.shown
  <2>1. CASE layer.second
    <3>1. layer.shown = N /\ layer.swap = 0
      BY <2>1 DEF Settled
    <3>2. stale = [pi \in DOMAIN N |-> CloneNode(N[pi])]
      BY <2>1, <3>1
    <3>3. stale = N
      BY <3>2, BareIsPlugged DEF Bare
    <3>4. Len(old) = 0
      BY <1>1, <3>1
    <3> HIDE DEF stale, old
    <3>5. stale \in Plugged(N, V)
      BY <3>3, BareIsPlugged
    <3>6. twice = stale
      BY <1>2, <3>4, <3>5, NoneApplied
    <3> QED
      BY <3>1, <3>3, <3>6
  <2>2. CASE ~layer.second
    BY <2>2 DEF Settled
  <2> QED
    BY <2>1, <2>2
<1>4. /\ shown \in Plugged(N, V) /\ shown = Applied(layer.shown, once)
      /\ \A pi \in DOMAIN N : KindsAt(shown, pi) = KindsAt(layer.shown, pi) \cup KindsIn(once, pi)
  <2> HIDE DEF twice, once
  <2> QED
    BY <1>1, <1>2, <1>3, AppliedKinds
<1>5. fresh = LayerRecord(layer.scale, shown, layer.shown, once, Len(once), FALSE)
  <2> HIDE DEF shown, twice, stale, old, once
  <2>1. layer.first = FALSE
    BY DEF Settled, LayerRecord
  <2> QED
    BY <2>1 DEF RefreshLayer, LayerRecord, Applied, AppliedOnce, shown, twice, stale, old, once, Pending
<1> HIDE DEF fresh, shown, once
<1>6. /\ fresh.scale = layer.scale /\ fresh.shown = shown /\ fresh.writing = layer.shown /\ fresh.log = once
      /\ fresh.swap = Len(once) /\ fresh.second = FALSE
  BY <1>5 DEF LayerRecord
<1>7. SubSeq(once, 1, Len(once)) = once /\ Pending(fresh) = <<>>
  BY <1>2, <1>6 DEF Pending
<1>8. Settled(fresh, N, V)
  <2>1. fresh = LayerRecord(fresh.scale, fresh.shown, fresh.writing, fresh.log, fresh.swap, fresh.second)
    BY <1>5, <1>6
  <2>2. fresh.swap \in 0..Len(fresh.log) /\ fresh.log \in Seq(Updates(N, V))
    BY <1>2, <1>6
  <2>3. Applied(fresh.writing, SubSeq(fresh.log, 1, fresh.swap)) = fresh.shown
    BY <1>4, <1>6, <1>7
  <2> QED
    BY <1>1, <1>4, <1>6, <2>1, <2>2, <2>3 DEF Settled
<1> QED
  BY <1>4, <1>6, <1>7, <1>8 DEF fresh, once

(* build and load write the nodes of a layer once, and show them.          *)
InsertStep(layer, N, l, pi) == AddOp(l, InsertOp(pi, N[pi]))
Inserts(layer, N, it) ==
  LET pis == SetToSeq(DOMAIN N)
  IN it = [s \in SUBSET DOMAIN pis |->
             IF s = {} THEN layer ELSE AddOp(it[s \ {Max(s)}], InsertOp(pis[Max(s)], N[pis[Max(s)]]))]

LEMMA FoldOfInserts ==
  ASSUME NEW layer, NEW N
  PROVE  InsertNodes(layer, N) = (CHOOSE it : Inserts(layer, N, it))[DOMAIN SetToSeq(DOMAIN N)]
BY DEF InsertNodes, FoldLeft, MapThenFoldSet, Inserts

NewLayerWith(s, nodes) ==
  [scale |-> s, shown |-> <<>>, writing |-> nodes, log |-> <<>>, swap |-> 0,
   first |-> TRUE, second |-> FALSE]

LEMMA InsertOne ==
  ASSUME NEW s, NEW nodes, NEW pi, NEW n
  PROVE  AddOp(NewLayerWith(s, nodes), InsertOp(pi, n)) = NewLayerWith(s, Put(nodes, pi, n))
BY DEF AddOp, NewLayerWith, NewLayer, InsertOp, Apply

LEMMA InsertsAll ==
  ASSUME NEW N, Bare(N), NEW s
  PROVE  InsertNodes(NewLayer(s), N) = NewLayerWith(s, N)
<1> DEFINE pis == SetToSeq(DOMAIN N)
           n == Len(pis)
           Part(P) == NewLayerWith(s, [pi \in P |-> N[pi]])
           X == {Part(P) : P \in SUBSET DOMAIN N}
           base == NewLayer(s)
           g == [ix \in (1..n) \X X |-> AddOp(ix[2], InsertOp(pis[ix[1]], N[pis[ix[1]]]))]
<1>1. /\ pis \in Seq(DOMAIN N) /\ n \in Nat /\ DOMAIN pis = 1..n /\ \A i \in 1..n : pis[i] \in DOMAIN N
      /\ {pis[i] : i \in 1..n} = DOMAIN N
  <2>1. IsFiniteSet(DOMAIN N)
    BY DEF Bare
  <2>2. /\ pis \in Seq(DOMAIN N) /\ DOMAIN pis = 1..Len(pis)
        /\ {pis[i] : i \in 1..Len(pis)} = DOMAIN N
    BY <2>1, SetToSeqLists
  <2> HIDE DEF pis
  <2>3. Len(pis) \in Nat /\ \A i \in 1..Len(pis) : pis[i] \in DOMAIN N
    BY <2>2
  <2> QED
    BY <2>2, <2>3
<1>2. ASSUME NEW P \in SUBSET DOMAIN N, NEW pi \in DOMAIN N
      PROVE  AddOp(Part(P), InsertOp(pi, N[pi])) = Part(P \cup {pi}) /\ Part(P \cup {pi}) \in X
  <2>1. Put([pj \in P |-> N[pj]], pi, N[pi]) = [pj \in P \cup {pi} |-> N[pj]]
    BY DEF Put
  <2> QED
    BY <2>1, InsertOne
<1>3. base = Part({}) /\ base \in X
  <2>1. base = NewLayerWith(s, <<>>)
    BY DEF NewLayerWith, NewLayer
  <2>2. [pi \in {} |-> N[pi]] = <<>>
    OBVIOUS
  <2> QED
    BY <2>1, <2>2
<1> HIDE DEF pis, n
<1>4. ASSUME NEW i \in 1..n, NEW P \in SUBSET DOMAIN N
      PROVE  /\ g[<<i, Part(P)>>] = Part(P \cup {pis[i]}) /\ P \cup {pis[i]} \in SUBSET DOMAIN N
             /\ g[<<i, Part(P)>>] = AddOp(Part(P), InsertOp(pis[i], N[pis[i]]))
             /\ g[<<i, Part(P)>>] \in X
  <2>1. g[<<i, Part(P)>>] = AddOp(Part(P), InsertOp(pis[i], N[pis[i]]))
    OBVIOUS
  <2> HIDE DEF g, Part, X
  <2> QED
    BY <1>1, <1>2, <2>1
<1> HIDE DEF g
<1>5. \A i \in 1..n, x \in X : g[<<i, x>>] \in X /\ g[<<i, x>>] = AddOp(x, InsertOp(pis[i], N[pis[i]]))
  <2>1. \A x \in X : \E P \in SUBSET DOMAIN N : x = Part(P)
    OBVIOUS
  <2> HIDE DEF X, Part
  <2> QED
    BY <1>4, <2>1
<1> HIDE DEF X, Part, base
<1>6. StepsIn(g, X, n)
  BY <1>5 DEF StepsIn
<1> DEFINE one == CHOOSE it : Inserts(base, N, it)
<1>7. ASSUME NEW fold \in [SUBSET (1..n) -> X], Folding(n, fold, base, g)
      PROVE  FoldsIn(n, one, X, base, g)
  <2>0. \A t \in SUBSET (1..n) : t # {} => Max(t) \in 1..n /\ t \ {Max(t)} \in SUBSET (1..n)
    BY <1>1, MaxOfIndices
  <2>1. \A t \in SUBSET (1..n) :
          fold[t] = IF t = {} THEN base
                    ELSE AddOp(fold[t \ {Max(t)}], InsertOp(pis[Max(t)], N[pis[Max(t)]]))
    BY <1>5, <1>7, <2>0 DEF Folding
  <2>2. Inserts(base, N, fold)
    BY <1>1, <2>1 DEF Inserts, pis
  <2>3. Inserts(base, N, one)
    BY <2>2
  <2> HIDE DEF one
  <2>4. \A t \in SUBSET (1..n) :
          one[t] = IF t = {} THEN base
                   ELSE AddOp(one[t \ {Max(t)}], InsertOp(pis[Max(t)], N[pis[Max(t)]]))
    BY <1>1, <2>3 DEF Inserts, pis
  <2>5. one[{}] = base
    BY <2>4
  <2> QED
    BY <1>5, <2>0, <2>4, <2>5 DEF FoldsIn
<1> HIDE DEF one
<1>8. PICK h : RecursionTo(n, h, X, base, g) /\ one[1..n] = h[n]
  <2>1. SolvedBy(n, one, X, base, g)
    BY <1>7 DEF SolvedBy
  <2> QED
    BY <1>1, <1>3, <1>6, <2>1, FoldAlong
<1>9. h[0] = base /\ \A i \in 1..n : h[i] = g[<<i, h[i - 1]>>]
  BY <1>8 DEF RecursionTo
<1> DEFINE Those(i) == {pis[j] : j \in 1..i}
           Q == {i \in Nat : i <= n => h[i] = Part(Those(i))}
<1>10. 0 \in Q
  <2>1. Those(0) = {}
    OBVIOUS
  <2> HIDE DEF Those
  <2> QED
    BY <1>3, <1>9, <2>1
<1>11. ASSUME NEW i \in Q PROVE i + 1 \in Q
  <2> SUFFICES ASSUME i + 1 <= n PROVE h[i + 1] = Part(Those(i + 1))
    OBVIOUS
  <2>1. i \in Nat /\ i + 1 \in 1..n /\ (i + 1) - 1 = i /\ h[i] = Part(Those(i))
    BY <1>1
  <2>2. 1..(i + 1) = (1..i) \cup {i + 1} /\ \A j \in 1..i : j \in 1..n
    BY <1>1, <2>1
  <2>3. Those(i + 1) = Those(i) \cup {pis[i + 1]} /\ Those(i) \in SUBSET DOMAIN N
    BY <1>1, <2>2
  <2>4. h[i + 1] = g[<<i + 1, h[i]>>]
    BY <1>9, <2>1
  <2> HIDE DEF Those
  <2> QED
    BY <1>4, <2>1, <2>3, <2>4
<1>12. Q = Nat
  <2>1. Q \in SUBSET Nat
    OBVIOUS
  <2> HIDE DEF Q
  <2> QED
    BY <1>10, <1>11, <2>1, AllNaturals
<1>13. h[n] = Part(DOMAIN N)
  <2>1. n \in Q /\ Those(n) = DOMAIN N
    BY <1>1, <1>12
  <2>2. h[n] = Part(Those(n))
    BY <1>1, <2>1
  <2> HIDE DEF Those
  <2> QED
    BY <2>1, <2>2
<1>14. InsertNodes(base, N) = one[1..n]
  BY <1>1, FoldOfInserts DEF one, pis
<1>15. Part(DOMAIN N) = NewLayerWith(s, N)
  BY DEF Part, Bare
<1> QED
  BY <1>8, <1>13, <1>14, <1>15 DEF base

(* The operations of add_plugin go into the log of a layer.                *)
PluginAdds(layer, kind, components, those, it) ==
  it = [s \in SUBSET DOMAIN those |->
          IF s = {} THEN layer
          ELSE AddOp(it[s \ {Max(s)}], PluginOp(those[Max(s)], kind, components[those[Max(s)]]))]

Having(layer, kind, pis) == {pi \in pis : HasComponent(kind, layer.shown[pi])}

LEMMA FoldOfPlugins ==
  ASSUME NEW layer, NEW kind, NEW components, NEW pis
  PROVE  LET those == SetToSeq(Having(layer, kind, pis))
         IN WithPlugins(layer, kind, components, pis)
              = (CHOOSE it : PluginAdds(layer, kind, components, those, it))[DOMAIN those]
BY DEF WithPlugins, FoldLeft, MapThenFoldSet, PluginAdds, Having

Logged(layer, ops) ==
  LayerRecord(layer.scale, layer.shown, layer.writing, layer.log \o ops, layer.swap, layer.second)

LEMMA LogOne ==
  ASSUME NEW s, NEW a, NEW b, NEW c, NEW d, NEW e, NEW op
  PROVE  AddOp(LayerRecord(s, a, b, c, d, e), op) = LayerRecord(s, a, b, Append(c, op), d, e)
BY DEF AddOp, LayerRecord

LEMMA ConcatAppend ==
  ASSUME NEW T, NEW a \in Seq(T), NEW b \in Seq(T), NEW x \in T
  PROVE  Append(b, x) \in Seq(T) /\ a \o Append(b, x) = Append(a \o b, x)
<1> DEFINE l == a \o Append(b, x)
           r == Append(a \o b, x)
<1>1. Append(b, x) \in Seq(T) /\ a \o b \in Seq(T)
  OBVIOUS
<1>2. l \in Seq(T) /\ r \in Seq(T)
  BY <1>1
<1>3. Len(l) = Len(r)
  OBVIOUS
<1>4. \A i \in 1..Len(l) : l[i] = r[i]
  OBVIOUS
<1> HIDE DEF l, r
<1>5. l = r
  BY <1>2, <1>3, <1>4, SeqEqual
<1> QED
  BY <1>1, <1>5 DEF l, r

Gives(components, N, V) == \A pi \in DOMAIN N : components[pi] \in V
Lists(ops, layer, kind, components, pis) ==
  \A op : (\E i \in DOMAIN ops : ops[i] = op)
       <=> \E pi \in Having(layer, kind, pis) : op = PluginOp(pi, kind, components[pi])

LEMMA PluginsLogged ==
  ASSUME NEW N, Bare(N), NEW V, NEW layer, Settled(layer, N, V),
         NEW kind \in V, NEW components, Gives(components, N, V), NEW pis \in SUBSET DOMAIN N
  PROVE  \E ops \in Seq(Updates(N, V)) :
           /\ WithPlugins(layer, kind, components, pis) = Logged(layer, ops)
           /\ Lists(ops, layer, kind, components, pis)
<1> DEFINE S == Having(layer, kind, pis)
           those == SetToSeq(S)
           n == Len(those)
           U == Seq(Updates(N, V))
           X == {Logged(layer, ops) : ops \in U}
           Op(i) == PluginOp(those[i], kind, components[those[i]])
           g == [ix \in (1..n) \X X |-> AddOp(ix[2], Op(ix[1]))]
<1>1. /\ those \in Seq(S) /\ n \in Nat /\ DOMAIN those = 1..n
      /\ {those[i] : i \in 1..n} = S
  <2>1. IsFiniteSet(S)
    <3>1. S \subseteq DOMAIN N /\ IsFiniteSet(DOMAIN N)
      BY DEF Having, Bare
    <3> QED
      BY <3>1, FS_Subset
  <2>2. /\ those \in Seq(S) /\ DOMAIN those = 1..n
        /\ {those[i] : i \in 1..n} = S
    BY <2>1, SetToSeqLists
  <2> HIDE DEF those, S
  <2> QED
    BY <2>2
<1> HIDE DEF those, n
<1>2. \A i \in 1..n : Op(i) \in Updates(N, V) /\ those[i] \in S
  <2>1. \A i \in 1..n : those[i] \in S
    BY <1>1
  <2>2. \A pi \in S : pi \in DOMAIN N
    BY DEF Having
  <2> QED
    BY <2>1, <2>2 DEF Updates, Gives
<1>3. layer = LayerRecord(layer.scale, layer.shown, layer.writing, layer.log, layer.swap, layer.second)
      /\ layer.log \in U
  BY DEF Settled
<1> HIDE DEF Op, S
<1>4. ASSUME NEW ops \in U, NEW i \in 1..n
      PROVE  /\ AddOp(Logged(layer, ops), Op(i)) = Logged(layer, Append(ops, Op(i)))
             /\ Append(ops, Op(i)) \in U
  <2>1. Append(ops, Op(i)) \in U /\ layer.log \o Append(ops, Op(i)) = Append(layer.log \o ops, Op(i))
    <3> DEFINE T == Updates(N, V)
               x == Op(i)
               log == layer.log
    <3>1. ops \in Seq(T) /\ log \in Seq(T) /\ x \in T
      BY <1>2, <1>3
    <3> HIDE DEF T, x, log
    <3>2. Append(ops, x) \in Seq(T) /\ log \o Append(ops, x) = Append(log \o ops, x)
      BY <3>1, ConcatAppend
    <3> QED
      BY <3>2 DEF T, x, log
  <2> QED
    BY <2>1, LogOne DEF Logged
<1>5. layer = Logged(layer, <<>>) /\ layer \in X
  <2>1. layer.log \o <<>> = layer.log /\ <<>> \in U
    BY <1>3
  <2>2. layer = Logged(layer, <<>>)
    BY <1>3, <2>1 DEF Logged
  <2> QED
    BY <2>1, <2>2
<1>6. ASSUME NEW i \in 1..n, NEW ops \in U
      PROVE  g[<<i, Logged(layer, ops)>>] = Logged(layer, Append(ops, Op(i)))
             /\ g[<<i, Logged(layer, ops)>>] = AddOp(Logged(layer, ops), Op(i))
             /\ g[<<i, Logged(layer, ops)>>] \in X
  <2>1. Logged(layer, ops) \in X
    OBVIOUS
  <2>2. g[<<i, Logged(layer, ops)>>] = AddOp(Logged(layer, ops), Op(i))
    BY <2>1
  <2>3. Logged(layer, Append(ops, Op(i))) \in X
    BY <1>4
  <2> HIDE DEF g, X, U
  <2> QED
    BY <1>4, <2>2, <2>3
<1> HIDE DEF g
<1>7. \A i \in 1..n, x \in X : g[<<i, x>>] \in X /\ g[<<i, x>>] = AddOp(x, Op(i))
  <2>1. \A x \in X : \E ops \in U : x = Logged(layer, ops)
    OBVIOUS
  <2> HIDE DEF X, U
  <2> QED
    BY <1>6, <2>1
<1> HIDE DEF X, U
<1>8. StepsIn(g, X, n)
  BY <1>7 DEF StepsIn
<1> DEFINE one == CHOOSE it : PluginAdds(layer, kind, components, those, it)
<1>9. ASSUME NEW fold \in [SUBSET (1..n) -> X], Folding(n, fold, layer, g)
      PROVE  FoldsIn(n, one, X, layer, g)
  <2>0. \A t \in SUBSET (1..n) : t # {} => Max(t) \in 1..n /\ t \ {Max(t)} \in SUBSET (1..n)
    BY <1>1, MaxOfIndices
  <2>1. \A t \in SUBSET (1..n) :
          fold[t] = IF t = {} THEN layer ELSE AddOp(fold[t \ {Max(t)}], Op(Max(t)))
    BY <1>7, <1>9, <2>0 DEF Folding
  <2>2. PluginAdds(layer, kind, components, those, fold)
    BY <1>1, <2>1 DEF PluginAdds, Op
  <2>3. PluginAdds(layer, kind, components, those, one)
    BY <2>2
  <2> HIDE DEF one
  <2>4. \A t \in SUBSET (1..n) :
          one[t] = IF t = {} THEN layer ELSE AddOp(one[t \ {Max(t)}], Op(Max(t)))
    BY <1>1, <2>3 DEF PluginAdds, Op
  <2>5. one[{}] = layer
    BY <2>4
  <2> QED
    BY <1>7, <2>0, <2>4, <2>5 DEF FoldsIn
<1> HIDE DEF one
<1>10. PICK h : RecursionTo(n, h, X, layer, g) /\ one[1..n] = h[n]
  <2>1. SolvedBy(n, one, X, layer, g)
    BY <1>9 DEF SolvedBy
  <2> QED
    BY <1>1, <1>5, <1>8, <2>1, FoldAlong
<1>11. h[0] = layer /\ \A i \in 1..n : h[i] = g[<<i, h[i - 1]>>]
  BY <1>10 DEF RecursionTo
<1> DEFINE Adds(i, ops) == Len(ops) = i /\ h[i] = Logged(layer, ops) /\ \A j \in 1..i : ops[j] = Op(j)
           Q == {i \in Nat : i <= n => \E ops \in U : Adds(i, ops)}
<1>12. 0 \in Q
  <2>1. <<>> \in U /\ Len(<<>>) = 0
    BY DEF U
  <2> QED
    BY <1>5, <1>11, <2>1
<1>13. ASSUME NEW i \in Q PROVE i + 1 \in Q
  <2> SUFFICES ASSUME i + 1 <= n PROVE \E ops \in U : Adds(i + 1, ops)
    OBVIOUS
  <2>1. i \in Nat /\ i + 1 \in 1..n /\ (i + 1) - 1 = i /\ \E ops \in U : Adds(i, ops)
    BY <1>1
  <2>2. PICK ops \in U : Adds(i, ops)
    BY <2>1
  <2> DEFINE more == Append(ops, Op(i + 1))
  <2>3. more \in U /\ h[i + 1] = Logged(layer, more)
    <3>1. h[i + 1] = g[<<i + 1, h[i]>>] /\ h[i] = Logged(layer, ops)
      BY <1>11, <2>1, <2>2
    <3> QED
      BY <1>4, <1>6, <2>1, <2>2, <3>1
  <2>4. Len(more) = i + 1 /\ \A j \in 1..(i + 1) : more[j] = Op(j)
    <3>1. ops \in Seq(Updates(N, V)) /\ Len(ops) = i /\ \A j \in 1..i : ops[j] = Op(j)
      BY <2>2 DEF U
    <3> QED
      BY <2>1, <3>1
  <2> QED
    BY <2>3, <2>4
<1>14. Q = Nat
  <2>1. Q \in SUBSET Nat
    OBVIOUS
  <2> HIDE DEF Q
  <2> QED
    BY <1>12, <1>13, <2>1, AllNaturals
<1>15. PICK ops \in U : Adds(n, ops)
  BY <1>1, <1>14
<1>16. WithPlugins(layer, kind, components, pis) = Logged(layer, ops)
  BY <1>1, <1>10, <1>15, FoldOfPlugins DEF one, those, S
<1>17. DOMAIN ops = 1..n /\ \A i \in 1..n : ops[i] = Op(i)
  BY <1>15 DEF U
<1>18. ASSUME NEW op
       PROVE  (\E i \in DOMAIN ops : ops[i] = op) <=> \E pi \in S : op = PluginOp(pi, kind, components[pi])
  <2>1. \A pi : pi \in S <=> \E i \in 1..n : those[i] = pi
    BY <1>1
  <2> QED
    BY <1>17, <2>1 DEF Op
<1> QED
  BY <1>15, <1>16, <1>18 DEF U, S, Lists

(* More kinds and components do no harm. *)
LEMMA MoreValues ==
  ASSUME NEW N, NEW V, NEW W, V \subseteq W
  PROVE  /\ Plugged(N, V) \subseteq Plugged(N, W)
         /\ Updates(N, V) \subseteq Updates(N, W)
         /\ Seq(Updates(N, V)) \subseteq Seq(Updates(N, W))
         /\ \A layer : Settled(layer, N, V) => Settled(layer, N, W)
<1>1. PluginMaps(V) \subseteq PluginMaps(W)
  BY DEF PluginMaps
<1>2. Updates(N, V) \subseteq Updates(N, W)
  BY DEF Updates
<1>3. Seq(Updates(N, V)) \subseteq Seq(Updates(N, W))
  BY <1>2, SeqMonotonic
<1>4. Plugged(N, V) \subseteq Plugged(N, W)
  <2> DEFINE R(v) == {WithMap(N[pi], q) : pi \in DOMAIN N, q \in PluginMaps(v)}
  <2>1. R(V) \subseteq R(W)
    BY <1>1
  <2>2. \A v : Plugged(N, v) = {f \in [DOMAIN N -> R(v)] : \A pi \in DOMAIN N : CloneNode(f[pi]) = N[pi]}
    BY DEF Plugged
  <2> HIDE DEF R
  <2> QED
    BY <2>1, <2>2
<1> QED
  BY <1>2, <1>3, <1>4 DEF Settled

LEMMA LogKeeps ==
  ASSUME NEW N, Bare(N), NEW V, NEW layer, Settled(layer, N, V), NEW ops \in Seq(Updates(N, V))
  PROVE  LET more == Logged(layer, ops)
         IN /\ Settled(more, N, V) /\ more.shown = layer.shown /\ more.second = layer.second
            /\ more.writing = layer.writing
            /\ \A pi : KindsIn(Pending(more), pi) = KindsIn(Pending(layer), pi) \cup KindsIn(ops, pi)
<1> DEFINE more == Logged(layer, ops)
           T == Updates(N, V)
<1>1. /\ more.scale = layer.scale /\ more.shown = layer.shown /\ more.writing = layer.writing
      /\ more.log = layer.log \o ops /\ more.swap = layer.swap /\ more.second = layer.second
      /\ more = LayerRecord(more.scale, more.shown, more.writing, more.log, more.swap, more.second)
  BY DEF Logged, LayerRecord
<1>2. layer.log \in Seq(T) /\ ops \in Seq(T) /\ layer.swap \in 0..Len(layer.log)
      /\ Len(layer.log) \in Nat /\ Len(ops) \in Nat
  BY DEF Settled
<1> DEFINE log == layer.log
           swap == layer.swap
           all == log \o ops
           n == Len(log)
<1> HIDE DEF log, swap, T
<1>3. log \in Seq(T) /\ ops \in Seq(T) /\ swap \in 0..n /\ n \in Nat /\ Len(ops) \in Nat
  BY <1>2 DEF log, swap
<1>4. /\ all \in Seq(T) /\ Len(all) = n + Len(ops)
      /\ \A i \in 1..n : all[i] = log[i]
      /\ \A i \in 1..Len(ops) : all[n + i] = ops[i]
  BY <1>3
<1>5. SubSeq(all, 1, swap) = SubSeq(log, 1, swap)
  BY <1>3, <1>4
<1>6. DOMAIN SubSeq(log, swap + 1, n) = 1..(n - swap)
      /\ \A i \in 1..(n - swap) : SubSeq(log, swap + 1, n)[i] = log[swap + i]
  BY <1>3
<1> HIDE DEF all
<1>7. DOMAIN SubSeq(all, swap + 1, Len(all)) = 1..(n + Len(ops) - swap)
      /\ \A i \in 1..(n + Len(ops) - swap) : SubSeq(all, swap + 1, Len(all))[i] = all[swap + i]
  BY <1>3, <1>4
<1>8. ASSUME NEW pi
      PROVE  KindsIn(SubSeq(all, swap + 1, Len(all)), pi)
               = KindsIn(SubSeq(log, swap + 1, n), pi) \cup KindsIn(ops, pi)
  <2> DEFINE k == n - swap
             m == Len(ops)
             from == SubSeq(log, swap + 1, n)
             both == SubSeq(all, swap + 1, Len(all))
  <2>1. k \in Nat /\ m \in Nat /\ n + Len(ops) - swap = k + m /\ DOMAIN ops = 1..m
    BY <1>3
  <2>2. DOMAIN from = 1..k /\ DOMAIN both = 1..(k + m)
    BY <1>6, <1>7, <2>1
  <2>3. ASSUME NEW i \in 1..k PROVE both[i] = from[i]
    <3>1. swap + i \in 1..n /\ i \in 1..(n + Len(ops) - swap) /\ i \in 1..(n - swap)
      BY <1>3
    <3> QED
      BY <1>4, <1>6, <1>7, <3>1
  <2>4. ASSUME NEW i \in 1..m PROVE both[k + i] = ops[i]
    <3>1. k + i \in 1..(n + Len(ops) - swap) /\ swap + (k + i) = n + i
      BY <1>3
    <3> QED
      BY <1>4, <1>7, <3>1
  <2> HIDE DEF k, m, from, both
  <2>5. \A i \in 1..(k + m) : i \in 1..k \/ \E j \in 1..m : i = k + j
    <3> TAKE i \in 1..(k + m)
    <3>1. i \in 1..k \/ (i - k \in 1..m /\ i = k + (i - k))
      BY <2>1
    <3> QED
      BY <3>1
  <2>6. \A j \in 1..m : k + j \in 1..(k + m)
    BY <2>1
  <2>7. \A j \in 1..k : j \in 1..(k + m)
    BY <2>1
  <2>8. ASSUME NEW x PROVE x \in KindsIn(both, pi) <=> x \in KindsIn(from, pi) \/ x \in KindsIn(ops, pi)
    <3>1. x \in KindsIn(both, pi) <=> \E i \in 1..(k + m) : both[i].pi = pi /\ both[i].kind = x
      BY <2>2 DEF KindsIn
    <3>2. x \in KindsIn(from, pi) <=> \E i \in 1..k : from[i].pi = pi /\ from[i].kind = x
      BY <2>2 DEF KindsIn
    <3>3. x \in KindsIn(ops, pi) <=> \E i \in 1..m : ops[i].pi = pi /\ ops[i].kind = x
      BY <2>1 DEF KindsIn
    <3> QED
      BY <2>3, <2>4, <2>5, <2>6, <2>7, <3>1, <3>2, <3>3
  <2> QED
    BY <2>8 DEF both, from
<1>9. Pending(more) = SubSeq(all, swap + 1, Len(all)) /\ Pending(layer) = SubSeq(log, swap + 1, n)
  BY <1>1 DEF Pending, all, log, swap
<1>10. Settled(more, N, V)
  <2>1. more.log \in Seq(Updates(N, V)) /\ more.swap \in 0..Len(more.log)
        /\ SubSeq(more.log, 1, more.swap) = SubSeq(layer.log, 1, layer.swap)
    <3>1. all \in Seq(T) /\ swap \in 0..Len(all)
      BY <1>3, <1>4
    <3> QED
      BY <1>1, <1>5, <3>1 DEF all, log, swap, T
  <2> HIDE DEF more
  <2> QED
    BY <1>1, <2>1 DEF Settled
<1> QED
  BY <1>1, <1>8, <1>9, <1>10

LEMMA FirstRefresh ==
  ASSUME NEW N, Bare(N), NEW s, NEW V
  PROVE  LET fresh == RefreshLayer(NewLayerWith(s, N))
         IN Settled(fresh, N, V) /\ fresh.second /\ fresh.shown = N /\ fresh.scale = s
            /\ Pending(fresh) = <<>>
<1> DEFINE layer == NewLayerWith(s, N)
           none == SubSeq(<<>>, 1, 0)
           once == Applied(N, none)
           shown == AppliedOnce(once, none)
           fresh == RefreshLayer(layer)
           T == Updates(N, V)
<1>1. none \in Seq(T) /\ Len(none) = 0 /\ none = <<>>
  OBVIOUS
<1>2. N \in Plugged(N, V)
  BY BareIsPlugged
<1>3. fresh = LayerRecord(s, shown, <<>>, none, Len(none), TRUE)
  <2>1. /\ layer.scale = s /\ layer.shown = <<>> /\ layer.writing = N /\ layer.log = <<>>
        /\ layer.swap = 0 /\ layer.first = TRUE /\ layer.second = FALSE
    BY DEF NewLayerWith
  <2>2. SubSeq(layer.log, 1, layer.swap) = none
        /\ SubSeq(layer.log, layer.swap + 1, Len(layer.log)) = none
    BY <2>1
  <2> HIDE DEF layer, none
  <2> QED
    BY <2>1, <2>2 DEF RefreshLayer, LayerRecord, Applied, AppliedOnce
<1> HIDE DEF none
<1>4. once = N /\ shown = N
  <2>1. none \in Seq(Updates(N, V))
    BY <1>1
  <2>2. once = N
    BY <1>1, <1>2, <2>1, NoneApplied
  <2>3. AppliedOnce(N, none) = Applied(N, none)
    BY <1>2, <2>1, AppliedKinds
  <2> QED
    BY <2>2, <2>3
<1> HIDE DEF once, shown, fresh
<1>5. /\ fresh = LayerRecord(fresh.scale, fresh.shown, fresh.writing, fresh.log, fresh.swap, fresh.second)
      /\ fresh.scale = s /\ fresh.shown = N /\ fresh.log = none /\ fresh.swap = 0 /\ fresh.second = TRUE
  BY <1>1, <1>3, <1>4 DEF LayerRecord
<1>6. Settled(fresh, N, V)
  <2>1. fresh.log \in Seq(Updates(N, V)) /\ fresh.swap \in 0..Len(fresh.log)
    BY <1>1, <1>5
  <2> QED
    BY <1>2, <1>5, <2>1 DEF Settled
<1>7. Pending(fresh) = <<>>
  BY <1>1, <1>5 DEF Pending
<1> QED
  BY <1>5, <1>6, <1>7 DEF fresh

-----------------------------------------------------------------------------
(* The nodes that build writes to a layer.                                 *)
Top(d) == LayerOf(d.minRes, d.root)
NodesOn(d, i) == {na \in DOMAIN d.nodes : LayerOf(d.minRes, na) = i}
LayerNodes(d, i) ==
  [pi \in {PointIndex(na) : na \in NodesOn(d, i)} |->
     d.nodes[CHOOSE na \in NodesOn(d, i) : PointIndex(na) = pi]]

LEMMA NodesOfTree ==
  ASSUME NEW d, WellBuilt(d), NEW na \in DOMAIN d.nodes
  PROVE  BareNode(d.nodes[na]) /\ d.nodes[na].address = na
<1> DEFINE n == d.nodes[na]
<1>1. n = NewNode(n.parent, na, n.radius, n.count, n.children, n.singletons)
  BY DEF WellBuilt
<1>2. n.address = na
  BY <1>1 DEF NewNode
<1> HIDE DEF n
<1>3. BareNode(n)
  BY <1>1, <1>2 DEF BareNode
<1> QED
  BY <1>2, <1>3 DEF n

LEMMA NodesOfLayer ==
  ASSUME NEW d, WellBuilt(d)
  PROVE  /\ Top(d) \in Nat \ {0}
         /\ \A na \in DOMAIN d.nodes :
              /\ LayerOf(d.minRes, na) \in 1..Top(d)
              /\ PointIndex(na) \in DOMAIN LayerNodes(d, LayerOf(d.minRes, na))
              /\ LayerNodes(d, LayerOf(d.minRes, na))[PointIndex(na)] = d.nodes[na]
         /\ \A i : \A pi \in DOMAIN LayerNodes(d, i) :
              \E na \in NodesOn(d, i) : pi = PointIndex(na) /\ LayerNodes(d, i)[pi] = d.nodes[na]
         /\ \A i : Bare(LayerNodes(d, i))
<1>1. /\ d.minRes \in Int /\ DOMAIN d.nodes \subseteq Int /\ IsFiniteSet(DOMAIN d.nodes)
      /\ d.root \in DOMAIN d.nodes
      /\ \A na \in DOMAIN d.nodes :
           na # d.root => LayerOf(d.minRes, na) < LayerOf(d.minRes, d.root)
      /\ \A na, nb \in DOMAIN d.nodes :
           LayerOf(d.minRes, na) = LayerOf(d.minRes, nb) /\ PointIndex(na) = PointIndex(nb) => na = nb
      /\ \A na \in DOMAIN d.nodes :
           d.nodes[na] = NewNode(d.nodes[na].parent, na, d.nodes[na].radius, d.nodes[na].count,
                                 d.nodes[na].children, d.nodes[na].singletons)
  BY DEF WellBuilt
<1>2. \A na \in DOMAIN d.nodes : LayerOf(d.minRes, na) \in Nat \ {0}
  <2> TAKE na \in DOMAIN d.nodes
  <2>1. na \in Int /\ PointRange \in Nat \ {0} /\ Offset \in Nat /\ d.minRes \in Int
    BY <1>1, NodeAddressAssumption
  <2>2. ScaleIndex(na) \in Int
    BY <2>1 DEF ScaleIndex
  <2> QED
    BY <2>1, <2>2 DEF LayerOf, InternalIndex
<1>3. Top(d) \in Nat \ {0} /\ \A na \in DOMAIN d.nodes : LayerOf(d.minRes, na) \in 1..Top(d)
  BY <1>1, <1>2 DEF Top
<1>4. ASSUME NEW i, NEW na \in NodesOn(d, i)
      PROVE  PointIndex(na) \in DOMAIN LayerNodes(d, i) /\ LayerNodes(d, i)[PointIndex(na)] = d.nodes[na]
  <2> DEFINE nb == CHOOSE x \in NodesOn(d, i) : PointIndex(x) = PointIndex(na)
  <2>1. nb \in NodesOn(d, i) /\ PointIndex(nb) = PointIndex(na)
    OBVIOUS
  <2> HIDE DEF nb
  <2>2. nb = na
    BY <1>1, <2>1 DEF NodesOn
  <2>3. LayerNodes(d, i)[PointIndex(na)] = d.nodes[nb]
    BY DEF LayerNodes, nb
  <2> QED
    BY <2>2, <2>3 DEF LayerNodes
<1>5. ASSUME NEW i, NEW pi \in DOMAIN LayerNodes(d, i)
      PROVE  \E na \in NodesOn(d, i) : pi = PointIndex(na) /\ LayerNodes(d, i)[pi] = d.nodes[na]
  <2>1. PICK na \in NodesOn(d, i) : pi = PointIndex(na)
    BY <1>5 DEF LayerNodes
  <2> QED
    BY <1>4, <2>1
<1>6. ASSUME NEW i PROVE Bare(LayerNodes(d, i))
  <2> DEFINE N == LayerNodes(d, i)
  <2>1. IsFiniteSet(DOMAIN N)
    <3>1. IsFiniteSet(NodesOn(d, i))
      BY <1>1, FS_Subset DEF NodesOn
    <3> DEFINE f == [na \in NodesOn(d, i) |-> PointIndex(na)]
    <3>2. IsFiniteSet({f[na] : na \in NodesOn(d, i)})
      BY <3>1, FiniteImage
    <3>3. DOMAIN N = {f[na] : na \in NodesOn(d, i)}
      BY DEF LayerNodes
    <3> QED
      BY <3>2, <3>3
  <2>2. N = [pi \in DOMAIN N |-> N[pi]]
    BY DEF LayerNodes
  <2>3. \A pi \in DOMAIN N : BareNode(N[pi])
    <3> TAKE pi \in DOMAIN N
    <3>1. PICK na \in DOMAIN d.nodes : N[pi] = d.nodes[na]
      BY <1>5 DEF NodesOn
    <3> QED
      BY <3>1, NodesOfTree
  <2> QED
    BY <2>1, <2>2, <2>3 DEF Bare
<1>7. \A na \in DOMAIN d.nodes : na \in NodesOn(d, LayerOf(d.minRes, na))
  BY DEF NodesOn
<1> QED
  BY <1>3, <1>4, <1>5, <1>6, <1>7

(* The layers hold the tree of d.                                          *)
Whole(ls, d, V) ==
  /\ ls = [i \in 1..Top(d) |-> ls[i]]
  /\ \A i \in 1..Top(d) : Settled(ls[i], LayerNodes(d, i), V) /\ ls[i].scale = d.minRes + i - 2

LEMMA BuiltIsWhole ==
  ASSUME NEW d, WellBuilt(d), NEW V
  PROVE  LET ls == BuiltLayers(d)
         IN /\ Whole(ls, d, V)
            /\ \A i \in 1..Top(d) : ls[i].second /\ ls[i].shown = LayerNodes(d, i)
                                    /\ Pending(ls[i]) = <<>>
<1> DEFINE ls == BuiltLayers(d)
           made(i) == RefreshLayer(InsertNodes(NewLayer(d.minRes + i - 2), LayerNodes(d, i)))
<1>1. ls = [i \in 1..Top(d) |-> made(i)]
  BY DEF BuiltLayers, LayerNodes, NodesOn, Top
<1>2. ASSUME NEW i \in 1..Top(d)
      PROVE  /\ Settled(made(i), LayerNodes(d, i), V) /\ made(i).scale = d.minRes + i - 2
             /\ made(i).second /\ made(i).shown = LayerNodes(d, i) /\ Pending(made(i)) = <<>>
  <2> DEFINE N == LayerNodes(d, i)
             s == d.minRes + i - 2
  <2>1. Bare(N)
    BY NodesOfLayer
  <2> HIDE DEF N, s
  <2>2. InsertNodes(NewLayer(s), N) = NewLayerWith(s, N)
    BY <2>1, InsertsAll
  <2> DEFINE fresh == RefreshLayer(NewLayerWith(s, N))
  <2>3. /\ Settled(fresh, N, V) /\ fresh.second /\ fresh.shown = N /\ fresh.scale = s
        /\ Pending(fresh) = <<>>
    BY <2>1, FirstRefresh
  <2>4. made(i) = fresh
    BY <2>2 DEF N, s
  <2> HIDE DEF fresh, made
  <2> QED
    BY <2>3, <2>4 DEF N, s
<1> HIDE DEF made
<1>3. \A i \in 1..Top(d) : ls[i] = made(i)
  BY <1>1
<1>4. ls = [i \in 1..Top(d) |-> ls[i]]
  BY <1>1
<1> HIDE DEF ls
<1> QED
  BY <1>2, <1>3, <1>4 DEF Whole, ls

LEMMA SameFields ==
  ASSUME NEW n, BareNode(n), NEW q
  PROVE  LET m == WithMap(n, q)
         IN /\ m.address = n.address /\ m.count = n.count /\ m.children = n.children
            /\ m.singletons = n.singletons
            /\ ChildrenOf(m) = ChildrenOf(n) /\ FinalPoints(m) = FinalPoints(n)
            /\ SavedNode(m) = SavedNode(n)
            /\ \A kind : HasComponent(kind, m) = HasComponent(kind, n)
<1> DEFINE m == WithMap(n, q)
<1>1. m = [address |-> n.address, parent |-> n.parent, radius |-> n.radius, count |-> n.count,
           children |-> n.children, singletons |-> n.singletons, plugins |-> q]
  BY FilledNode DEF BareNode
<1>2. /\ m.address = n.address /\ m.count = n.count /\ m.children = n.children
      /\ m.singletons = n.singletons /\ m.parent = n.parent /\ m.radius = n.radius
  BY <1>1
<1> HIDE DEF m
<1>3. /\ ChildrenOf(m) = ChildrenOf(n) /\ FinalPoints(m) = FinalPoints(n)
      /\ \A kind : HasComponent(kind, m) = HasComponent(kind, n)
  BY <1>2 DEF ChildrenOf, FinalPoints, NodeIsLeaf, HasComponent
<1>4. SavedNode(m) = SavedNode(n)
  BY <1>2 DEF SavedNode, NodeIsLeaf
<1> QED
  BY <1>2, <1>3, <1>4 DEF m

LEMMA WholeShows ==
  ASSUME NEW d, WellBuilt(d), NEW V, NEW ls, Whole(ls, d, V)
  PROVE  /\ Len(ls) = Top(d) /\ DOMAIN ls = 1..Top(d) /\ ls # <<>>
         /\ Addresses(ls) = DOMAIN d.nodes
         /\ \A i \in 1..Top(d) : DOMAIN ls[i].shown = DOMAIN LayerNodes(d, i)
         /\ \A i \in 1..Top(d) : \A pi \in DOMAIN ls[i].shown : 
              /\ ls[i].shown[pi] = WithMap(LayerNodes(d, i)[pi], ls[i].shown[pi].plugins)
              /\ CloneNode(ls[i].shown[pi]) = LayerNodes(d, i)[pi]
         /\ \A na \in DOMAIN d.nodes :
              /\ Finds(ls, d.minRes, na)
              /\ LayerOf(d.minRes, na) \in 1..Top(d)
              /\ CloneNode(ShownBy(ls, d.minRes, na)) = d.nodes[na]
              /\ ShownBy(ls, d.minRes, na) = WithMap(d.nodes[na], ShownBy(ls, d.minRes, na).plugins)
              /\ BareNode(d.nodes[na]) /\ d.nodes[na].address = na
<1>1. Top(d) \in Nat \ {0}
  BY NodesOfLayer
<1>2. Len(ls) = Top(d) /\ DOMAIN ls = 1..Top(d)
  BY <1>1 DEF Whole
<1>3. ls # <<>>
  <2>1. 1 \in DOMAIN ls
    BY <1>1, <1>2
  <2> QED
    BY <2>1
<1>4. ASSUME NEW i \in 1..Top(d)
      PROVE  /\ DOMAIN ls[i].shown = DOMAIN LayerNodes(d, i)
             /\ \A pi \in DOMAIN ls[i].shown :
                  /\ ls[i].shown[pi] = WithMap(LayerNodes(d, i)[pi], ls[i].shown[pi].plugins)
                  /\ CloneNode(ls[i].shown[pi]) = LayerNodes(d, i)[pi]
                  /\ BareNode(LayerNodes(d, i)[pi])
  <2> DEFINE N == LayerNodes(d, i)
             f == ls[i].shown
  <2>1. Bare(N) /\ f \in Plugged(N, V)
    BY NodesOfLayer DEF Whole, Settled
  <2>2. DOMAIN f = DOMAIN N /\ \A pi \in DOMAIN N : CloneNode(f[pi]) = N[pi]
    BY <2>1 DEF Plugged
  <2> HIDE DEF N, f
  <2>3. \A pi \in DOMAIN N : f[pi] = WithMap(N[pi], f[pi].plugins) /\ BareNode(N[pi])
    BY <2>1, PluggedNode DEF Bare
  <2> QED
    BY <2>2, <2>3 DEF N, f
<1>5. ASSUME NEW na \in DOMAIN d.nodes
      PROVE  /\ Finds(ls, d.minRes, na)
             /\ LayerOf(d.minRes, na) \in 1..Top(d)
             /\ CloneNode(ShownBy(ls, d.minRes, na)) = d.nodes[na]
             /\ ShownBy(ls, d.minRes, na) = WithMap(d.nodes[na], ShownBy(ls, d.minRes, na).plugins)
             /\ BareNode(d.nodes[na]) /\ d.nodes[na].address = na
  <2> DEFINE i == LayerOf(d.minRes, na)
  <2>1. i \in 1..Top(d) /\ PointIndex(na) \in DOMAIN LayerNodes(d, i)
        /\ LayerNodes(d, i)[PointIndex(na)] = d.nodes[na]
    BY NodesOfLayer
  <2>2. Finds(ls, d.minRes, na)
    BY <1>1, <1>2, <1>4, <2>1 DEF Finds, HasNode
  <2>3. d.nodes[na].address = na
    BY NodesOfTree
  <2> QED
    BY <1>4, <2>1, <2>2, <2>3 DEF ShownBy
<1>6. Addresses(ls) = DOMAIN d.nodes
  <2>1. ASSUME NEW i \in 1..Top(d), NEW pi \in DOMAIN ls[i].shown
        PROVE  ls[i].shown[pi].address \in DOMAIN d.nodes
    <3>1. PICK na \in NodesOn(d, i) : LayerNodes(d, i)[pi] = d.nodes[na]
      BY <1>4, NodesOfLayer
    <3>2. ls[i].shown[pi].address = LayerNodes(d, i)[pi].address
      BY <1>4, SameFields
    <3> QED
      BY <1>5, <3>1, <3>2 DEF NodesOn
  <2>2. ASSUME NEW na \in DOMAIN d.nodes
        PROVE  na \in Addresses(ls)
    <3> DEFINE i == LayerOf(d.minRes, na)
               n == ShownBy(ls, d.minRes, na)
    <3>1. i \in 1..Top(d) /\ PointIndex(na) \in DOMAIN ls[i].shown
      BY <1>5 DEF Finds, HasNode
    <3>2. n.address = na
      BY <1>5, SameFields
    <3>3. n = ls[i].shown[PointIndex(na)]
      BY DEF ShownBy
    <3> QED
      BY <1>2, <3>1, <3>2, <3>3 DEF Addresses
  <2> QED
    BY <1>2, <2>1, <2>2 DEF Addresses
<1> QED
  BY <1>2, <1>3, <1>4, <1>5, <1>6

-----------------------------------------------------------------------------
(* save and load.                                                          *)
LEMMA PairOfAddress ==
  ASSUME NEW na \in Int
  PROVE  /\ Pair(na) \in Int \X Int /\ FromOption(Pair(na)) = na
         /\ Pair(na) # NoParent /\ Pair(na)[2] = PointIndex(na)
<1>1. PointRange \in Nat /\ PointRange > 0 /\ Offset \in Nat
  BY NodeAddressAssumption
<1>2. na \div PointRange \in Int /\ na % PointRange \in Int
      /\ na = PointRange * (na \div PointRange) + (na % PointRange)
  BY <1>1
<1> DEFINE s == na \div PointRange
           p == na % PointRange
<1> HIDE DEF s, p
<1>3. s \in Int /\ p \in Int /\ na = PointRange * s + p
  BY <1>2 DEF s, p
<1>4. Pair(na) = <<s - Offset, p>> /\ PointIndex(na) = p
  BY DEF Pair, ScaleIndex, PointIndex, s, p
<1>5. Pair(na) \in Int \X Int
  BY <1>1, <1>3, <1>4
<1>6. Pair(na) # None /\ Pair(na) # NoParent
  BY <1>5, OptionAssumption
<1>7. Pack(s - Offset, p) = na
  <2>1. (s - Offset) + Offset = s
    BY <1>1, <1>3
  <2>2. Pack(s - Offset, p) = s * PointRange + p
    BY <2>1 DEF Pack
  <2>3. s * PointRange = PointRange * s
    BY <1>1, <1>3
  <2> QED
    BY <1>3, <2>2, <2>3
<1> QED
  BY <1>4, <1>5, <1>6, <1>7 DEF FromOption

LEMMA LoadedOfSaved ==
  ASSUME NEW d, WellBuilt(d), NEW na \in DOMAIN d.nodes
  PROVE  LoadedNode(SavedNode(d.nodes[na])) = d.nodes[na]
<1> DEFINE n == d.nodes[na]
           s == SavedNode(n)
<1>1. /\ n = NewNode(n.parent, na, n.radius, n.count, n.children, n.singletons)
      /\ n.parent \in {None} \cup DOMAIN d.nodes
      /\ n.children = Leaf \/ n.children \in Seq(DOMAIN d.nodes)
      /\ DOMAIN d.nodes \subseteq Int
  BY DEF WellBuilt
<1>2. n.address = na
  BY NodesOfTree
<1> HIDE DEF n
<1>3. na \in Int
  BY <1>1
<1>4. /\ s.address = Pair(na) /\ s.parent = (IF n.parent = None THEN NoParent ELSE Pair(n.parent))
      /\ s.radius = n.radius /\ s.count = n.count /\ s.singletons = n.singletons
      /\ s.children = IF n.children = Leaf THEN Leaf ELSE [i \in DOMAIN n.children |-> Pair(n.children[i])]
  BY <1>2 DEF SavedNode, NodeIsLeaf
<1> HIDE DEF s
<1>5. FromOption(s.address) = na
  BY <1>3, <1>4, PairOfAddress
<1>6. (IF s.parent = NoParent THEN None ELSE FromOption(s.parent)) = n.parent
  <2>1. CASE n.parent = None
    BY <1>4, <2>1
  <2>2. CASE n.parent # None
    <3>1. n.parent \in Int
      BY <1>1, <2>2
    <3> QED
      BY <1>4, <2>2, <3>1, PairOfAddress
  <2> QED
    BY <2>1, <2>2
<1>7. (IF s.children = Leaf THEN Leaf ELSE ToAddresses(s.children)) = n.children
  <2>1. CASE n.children = Leaf
    BY <1>4, <2>1
  <2>2. CASE n.children # Leaf
    <3> DEFINE kids == n.children
               pairs == [i \in DOMAIN kids |-> Pair(kids[i])]
    <3>1. kids \in Seq(DOMAIN d.nodes)
      BY <1>1, <2>2
    <3> HIDE DEF kids
    <3>2. \A i \in DOMAIN kids : kids[i] \in Int
      BY <1>1, <3>1
    <3>3. \A i \in DOMAIN kids : Pair(kids[i]) \in Int \X Int /\ FromOption(Pair(kids[i])) = kids[i]
      BY <3>2, PairOfAddress
    <3>4. pairs \in Seq(Int \X Int)
      <4>1. DOMAIN kids = 1..Len(kids) /\ Len(kids) \in Nat
        BY <3>1
      <4>2. \A i \in 1..Len(kids) : Pair(kids[i]) \in Int \X Int
        BY <3>3, <4>1
      <4>3. pairs = [i \in 1..Len(kids) |-> Pair(kids[i])]
        BY <4>1
      <4> DEFINE m == Len(kids)
                 P == Int \X Int
                 f(i) == Pair(kids[i])
      <4> HIDE DEF m, P, f
      <4>4. [i \in 1..m |-> f(i)] \in Seq(P)
        BY <4>1, <4>2 DEF m, P, f
      <4> QED
        BY <4>3, <4>4 DEF m, P, f
    <3>5. pairs # Leaf
      BY <3>4, OptionAssumption
    <3>6. ToAddresses(pairs) = kids
      <4>1. ToAddresses(pairs) = [i \in DOMAIN kids |-> kids[i]]
        BY <3>3 DEF ToAddresses
      <4>2. kids = [i \in DOMAIN kids |-> kids[i]]
        BY <3>1
      <4> QED
        BY <4>1, <4>2
    <3>7. s.children = pairs
      BY <1>4, <2>2 DEF kids
    <3> HIDE DEF pairs
    <3> QED
      BY <3>5, <3>6, <3>7 DEF kids
  <2> QED
    BY <2>1, <2>2
<1>8. LoadedNode(s) = NewNode(n.parent, na, n.radius, n.count, n.children, n.singletons)
  BY <1>4, <1>5, <1>6, <1>7 DEF LoadedNode
<1> QED
  BY <1>1, <1>8 DEF s, n

(* What is saved of a layer is that of its nodes as they were built.       *)
SavedOfLayer(d, i) ==
  [scale |-> d.minRes + i - 2, nodes |-> {SavedNode(LayerNodes(d, i)[pi]) : pi \in DOMAIN LayerNodes(d, i)}]

LEMMA SavedIs ==
  ASSUME NEW d, WellBuilt(d), NEW V, NEW ls, Whole(ls, d, V), NEW i \in 1..Top(d)
  PROVE  SavedLayer(ls[i]) = SavedOfLayer(d, i)
<1> DEFINE N == LayerNodes(d, i)
           f == ls[i].shown
<1>1. Bare(N)
  BY NodesOfLayer
<1>2. DOMAIN f = DOMAIN N /\ \A pi \in DOMAIN N : f[pi] = WithMap(N[pi], f[pi].plugins)
  BY WholeShows
<1>3. \A pi \in DOMAIN N : SavedNode(f[pi]) = SavedNode(N[pi])
  <2> HIDE DEF N, f
  <2> TAKE pi \in DOMAIN N
  <2>1. BareNode(N[pi])
    BY <1>1 DEF Bare
  <2>2. SavedNode(WithMap(N[pi], f[pi].plugins)) = SavedNode(N[pi])
    BY <2>1, SameFields
  <2> QED
    BY <1>2, <2>2
<1>4. {SavedNode(f[pi]) : pi \in DOMAIN f} = {SavedNode(N[pi]) : pi \in DOMAIN N}
  BY <1>2, <1>3
<1>5. ls[i].scale = d.minRes + i - 2
  BY DEF Whole
<1> QED
  BY <1>4, <1>5 DEF SavedLayer, SavedOfLayer

LEMMA LoadedIs ==
  ASSUME NEW d, WellBuilt(d), NEW i, NEW V
  PROVE  LET l == LoadedLayer(SavedOfLayer(d, i))
         IN /\ Settled(l, LayerNodes(d, i), V) /\ l.scale = d.minRes + i - 2
            /\ ~l.second /\ Pending(l) = <<>> /\ l.shown = LayerNodes(d, i)
            /\ l.log = <<>> /\ l.writing = LayerNodes(d, i)
<1> DEFINE N == LayerNodes(d, i)
           s == d.minRes + i - 2
           saved == SavedOfLayer(d, i)
           pick(pi) == CHOOSE n \in saved.nodes : n.address[2] = pi
           nodes == [pi \in {n.address[2] : n \in saved.nodes} |-> LoadedNode(pick(pi))]
<1>1. Bare(N)
  BY NodesOfLayer
<1>2. saved.scale = s /\ saved.nodes = {SavedNode(N[pi]) : pi \in DOMAIN N}
  BY DEF SavedOfLayer
<1>3. ASSUME NEW pi \in DOMAIN N
      PROVE  SavedNode(N[pi]).address[2] = pi /\ LoadedNode(SavedNode(N[pi])) = N[pi]
  <2>1. PICK na \in NodesOn(d, i) : pi = PointIndex(na) /\ N[pi] = d.nodes[na]
    BY NodesOfLayer
  <2>2. na \in DOMAIN d.nodes /\ na \in Int /\ d.nodes[na].address = na
    BY NodesOfTree DEF NodesOn, WellBuilt
  <2>3. SavedNode(d.nodes[na]).address = Pair(na)
    BY <2>2 DEF SavedNode
  <2> HIDE DEF N
  <2> QED
    BY <2>1, <2>2, <2>3, PairOfAddress, LoadedOfSaved
<1>4. nodes = N
  <2>1. {n.address[2] : n \in saved.nodes} = DOMAIN N
    <3> DEFINE At(n) == n.address[2]
               Saves(pi) == SavedNode(N[pi])
    <3>1. saved.nodes = {Saves(pi) : pi \in DOMAIN N} /\ \A pi \in DOMAIN N : At(Saves(pi)) = pi
      BY <1>2, <1>3
    <3> HIDE DEF At, Saves, N, saved
    <3>2. {At(n) : n \in saved.nodes} = DOMAIN N
      BY <3>1
    <3> QED
      BY <3>2 DEF At
  <2>2. ASSUME NEW pi \in DOMAIN N PROVE pick(pi) = SavedNode(N[pi])
    <3>1. SavedNode(N[pi]) \in saved.nodes /\ SavedNode(N[pi]).address[2] = pi
      BY <1>2, <1>3
    <3>2. pick(pi) \in saved.nodes /\ pick(pi).address[2] = pi
      BY <3>1
    <3> HIDE DEF pick, N
    <3>3. PICK pj \in DOMAIN N : pick(pi) = SavedNode(N[pj])
      BY <1>2, <3>2
    <3> QED
      BY <1>3, <3>2, <3>3
  <2>3. nodes = [pi \in DOMAIN N |-> N[pi]]
    <3> HIDE DEF N, pick, saved
    <3> QED
      BY <1>3, <2>1, <2>2
  <2> QED
    BY <1>1, <2>3 DEF Bare
<1> DEFINE l == LoadedLayer(saved)
<1>5. l = RefreshLayer(RefreshLayer(InsertNodes(NewLayer(s), N)))
  <2>1. l = RefreshLayer(RefreshLayer(InsertNodes(NewLayer(saved.scale), nodes)))
    BY DEF LoadedLayer
  <2> HIDE DEF nodes, N, l, saved, s
  <2> QED
    BY <1>2, <1>4, <2>1
<1> HIDE DEF N, s, l
<1> DEFINE fresh == RefreshLayer(NewLayerWith(s, N))
<1>6. l = RefreshLayer(fresh)
  BY <1>1, <1>5, InsertsAll
<1>7. /\ Settled(fresh, N, V) /\ fresh.second /\ fresh.shown = N /\ fresh.scale = s
      /\ Pending(fresh) = <<>>
  BY <1>1, FirstRefresh
<1> HIDE DEF fresh
<1>8. /\ Settled(l, N, V) /\ ~l.second /\ Pending(l) = <<>> /\ l.scale = s
      /\ l.log = <<>> /\ l.writing = N
      /\ \A pi \in DOMAIN N : KindsAt(l.shown, pi) = KindsAt(N, pi) \cup KindsIn(<<>>, pi)
  BY <1>1, <1>6, <1>7, RefreshKeeps
<1>9. l.shown = N
  <2> DEFINE f == l.shown
  <2>1. f \in Plugged(N, V)
    BY <1>8 DEF Settled
  <2>2. NonePlugged(N, f)
    BY <1>1, <1>8, BareIsPlugged DEF KindsIn, NonePlugged
  <2> HIDE DEF f
  <2>3. f = N
    BY <1>1, <2>1, <2>2, NoPlugins
  <2> QED
    BY <2>3 DEF f
<1> QED
  BY <1>8, <1>9 DEF N, s, l

-----------------------------------------------------------------------------
(* The walk for the final addresses: the nodes of a layer are found no     *)
(* later than there are layers above it.                                   *)
Found(ls, d, nas) == {na \in nas : Finds(ls, d.minRes, na)}
BelowOf(ls, d, na) == ToSet(ChildrenOf(ShownBy(ls, d.minRes, na)))
Visits(ls, d, step) ==
  step = [k \in 0..Len(ls) |->
            IF k = 0 THEN {d.root}
            ELSE step[k-1] \cup UNION {BelowOf(ls, d, na) : na \in Found(ls, d, step[k-1])}]

LEMMA VisitedIs ==
  ASSUME NEW ls, NEW d
  PROVE  Visited(ls, d.minRes, d.root) = (CHOOSE step : Visits(ls, d, step))[Len(ls)]
BY DEF Visited, Visits, Found, BelowOf

LEMMA ChildrenOfTree ==
  ASSUME NEW d, WellBuilt(d), NEW na \in DOMAIN d.nodes
  PROVE  /\ ToSet(ChildrenOf(d.nodes[na])) \subseteq DOMAIN d.nodes
         /\ \A c \in ToSet(ChildrenOf(d.nodes[na])) :
              /\ LayerOf(d.minRes, c) < LayerOf(d.minRes, na)
              /\ d.nodes[c].count <= d.nodes[na].count
              /\ d.nodes[c].count \in Nat /\ d.nodes[na].count \in Nat
<1>1. /\ d.nodes[na].children = Leaf \/ d.nodes[na].children \in Seq(DOMAIN d.nodes)
      /\ \A nb \in DOMAIN d.nodes : d.nodes[nb].count \in Nat
      /\ \A c \in ToSet(ChildrenOf(d.nodes[na])) :
              /\ LayerOf(d.minRes, c) < LayerOf(d.minRes, na)
              /\ d.nodes[c].count <= d.nodes[na].count
  BY DEF WellBuilt
<1> DEFINE kids == ChildrenOf(d.nodes[na])
<1>2. kids \in Seq(DOMAIN d.nodes)
  <2> DEFINE those == d.nodes[na].children
             D == DOMAIN d.nodes
  <2>1. kids = IF those = Leaf THEN <<>> ELSE those
    BY DEF ChildrenOf, NodeIsLeaf
  <2>2. those = Leaf \/ those \in Seq(D)
    BY <1>1
  <2> HIDE DEF those, D, kids
  <2>3. kids \in Seq(D)
    BY <2>1, <2>2
  <2> QED
    BY <2>3 DEF D
<1> HIDE DEF kids
<1>3. ToSet(kids) \subseteq DOMAIN d.nodes
  BY <1>2 DEF ToSet
<1> QED
  BY <1>1, <1>3 DEF kids

(* The nodes that are found have the children they were built with.        *)
Shows(ls, d) ==
  \A na \in DOMAIN d.nodes :
    Finds(ls, d.minRes, na) => BelowOf(ls, d, na) = ToSet(ChildrenOf(d.nodes[na]))

LEMMA VisitsExist ==
  ASSUME NEW d, WellBuilt(d), NEW ls, Len(ls) \in Nat, Shows(ls, d)
  PROVE  \E step \in [0..Len(ls) -> SUBSET DOMAIN d.nodes] :
           /\ step[0] = {d.root}
           /\ \A k \in 1..Len(ls) :
                step[k] = step[k-1] \cup UNION {BelowOf(ls, d, na) : na \in Found(ls, d, step[k-1])}
           /\ Visited(ls, d.minRes, d.root) = step[Len(ls)]
<1> DEFINE n == Len(ls)
           X == SUBSET DOMAIN d.nodes
           more(nas) == nas \cup UNION {BelowOf(ls, d, na) : na \in Found(ls, d, nas)}
           g == [kx \in (1..n) \X X |-> more(kx[2])]
<1>1. \A nas \in X : more(nas) \in X
  BY ChildrenOfTree DEF Shows, Found
<1> HIDE DEF more
<1>2. \A k \in 1..n, x \in X : g[<<k, x>>] = more(x)
  OBVIOUS
<1> HIDE DEF g
<1>3. StepsIn(g, X, n)
  BY <1>1, <1>2 DEF StepsIn
<1>4. {d.root} \in X
  BY DEF WellBuilt
<1> HIDE DEF X, n
<1>5. n \in Nat
  BY DEF n
<1>6. PICK f : RecursionTo(n, f, X, {d.root}, g)
  BY <1>3, <1>4, <1>5, RecursionUpTo
<1>7. f \in [0..n -> X] /\ f[0] = {d.root} /\ \A k \in 1..n : f[k] = g[<<k, f[k - 1]>>]
  BY <1>6 DEF RecursionTo
<1>8. \A k \in 1..n : f[k - 1] \in X /\ f[k] = more(f[k - 1])
  <2> TAKE k \in 1..n
  <2>1. k - 1 \in 0..n
    BY <1>5
  <2> QED
    BY <1>2, <1>7, <2>1
<1>9. f = [k \in 0..n |-> IF k = 0 THEN {d.root} ELSE more(f[k - 1])]
  <2>1. f = [k \in 0..n |-> f[k]]
    BY <1>7
  <2>2. \A k \in 0..n : f[k] = IF k = 0 THEN {d.root} ELSE more(f[k - 1])
    <3> TAKE k \in 0..n
    <3>1. k = 0 \/ k \in 1..n
      BY <1>5
    <3> QED
      BY <1>7, <1>8, <3>1
  <2> QED
    BY <2>1, <2>2
<1>10. Visits(ls, d, f)
  BY <1>9 DEF Visits, more, n
<1> DEFINE s == CHOOSE step : Visits(ls, d, step)
<1>11. Visits(ls, d, s)
  BY <1>10
<1> HIDE DEF s
<1>12. s = [k \in 0..n |-> IF k = 0 THEN {d.root} ELSE more(s[k - 1])]
  BY <1>11 DEF Visits, more, n
<1>13. \A k \in 0..n : s[k] = IF k = 0 THEN {d.root} ELSE more(s[k - 1])
  BY <1>12
<1> DEFINE P == {k \in Nat : k <= n => s[k] = f[k]}
<1>14. 0 \in P
  <2>1. 0 \in 0..n
    BY <1>5
  <2>2. s[0] = {d.root}
    BY <1>13, <2>1
  <2> QED
    BY <1>7, <2>2
<1>15. ASSUME NEW k \in P PROVE k + 1 \in P
  <2> SUFFICES ASSUME k + 1 <= n PROVE s[k + 1] = f[k + 1]
    OBVIOUS
  <2>1. k \in Nat /\ k + 1 \in 1..n /\ k + 1 \in 0..n /\ (k + 1) - 1 = k /\ k + 1 # 0 /\ s[k] = f[k]
    BY <1>5
  <2>2. s[k + 1] = more(s[k])
    BY <1>13, <2>1
  <2>3. f[k + 1] = more(f[k])
    BY <1>8, <2>1
  <2> QED
    BY <2>1, <2>2, <2>3
<1>16. P = Nat
  <2>1. P \in SUBSET Nat
    OBVIOUS
  <2> HIDE DEF P
  <2> QED
    BY <1>14, <1>15, <2>1, AllNaturals
<1>17. s[n] = f[n]
  BY <1>5, <1>16
<1>18. Visited(ls, d.minRes, d.root) = f[n]
  BY <1>17, VisitedIs DEF s, n
<1> QED
  BY <1>7, <1>8, <1>18 DEF n, X, more

LEMMA VisitsGrow ==
  ASSUME NEW d, WellBuilt(d), NEW ls, Len(ls) \in Nat, Shows(ls, d)
  PROVE  /\ d.root \in Visited(ls, d.minRes, d.root)
         /\ Visited(ls, d.minRes, d.root) \subseteq DOMAIN d.nodes
<1>1. PICK step \in [0..Len(ls) -> SUBSET DOMAIN d.nodes] :
        /\ step[0] = {d.root}
        /\ \A k \in 1..Len(ls) :
             step[k] = step[k-1] \cup UNION {BelowOf(ls, d, na) : na \in Found(ls, d, step[k-1])}
        /\ Visited(ls, d.minRes, d.root) = step[Len(ls)]
  BY VisitsExist
<1> DEFINE P == {k \in Nat : k <= Len(ls) => d.root \in step[k]}
<1>2. 0 \in P
  BY <1>1
<1>3. ASSUME NEW k \in P PROVE k + 1 \in P
  <2> SUFFICES ASSUME k + 1 <= Len(ls) PROVE d.root \in step[k + 1]
    OBVIOUS
  <2>1. k \in Nat /\ k + 1 \in 1..Len(ls) /\ (k + 1) - 1 = k /\ d.root \in step[k]
    OBVIOUS
  <2> QED
    BY <1>1, <2>1
<1>4. P = Nat
  <2>1. P \in SUBSET Nat
    OBVIOUS
  <2> HIDE DEF P
  <2> QED
    BY <1>2, <1>3, <2>1, AllNaturals
<1>5. d.root \in step[Len(ls)]
  BY <1>4
<1> QED
  BY <1>1, <1>5

LEMMA WholeIsVisited ==
  ASSUME NEW d, WellBuilt(d), NEW V, NEW ls, Whole(ls, d, V)
  PROVE  Shows(ls, d) /\ Visited(ls, d.minRes, d.root) = DOMAIN d.nodes
<1> DEFINE top == Top(d)
           at(na) == LayerOf(d.minRes, na)
<1>1. top \in Nat \ {0} /\ Len(ls) = top /\ \A na \in DOMAIN d.nodes : at(na) \in 1..top
  BY NodesOfLayer, WholeShows
<1>2. \A na \in DOMAIN d.nodes :
        Finds(ls, d.minRes, na) /\ BelowOf(ls, d, na) = ToSet(ChildrenOf(d.nodes[na]))
  <2> TAKE na \in DOMAIN d.nodes
  <2>1. /\ Finds(ls, d.minRes, na) /\ BareNode(d.nodes[na])
        /\ ShownBy(ls, d.minRes, na) = WithMap(d.nodes[na], ShownBy(ls, d.minRes, na).plugins)
    BY WholeShows
  <2>2. ChildrenOf(ShownBy(ls, d.minRes, na)) = ChildrenOf(d.nodes[na])
    BY <2>1, SameFields
  <2> QED
    BY <2>1, <2>2 DEF BelowOf
<1>3. Shows(ls, d)
  BY <1>2 DEF Shows
<1>4. PICK step \in [0..Len(ls) -> SUBSET DOMAIN d.nodes] :
        /\ step[0] = {d.root}
        /\ \A k \in 1..Len(ls) :
             step[k] = step[k-1] \cup UNION {BelowOf(ls, d, na) : na \in Found(ls, d, step[k-1])}
        /\ Visited(ls, d.minRes, d.root) = step[Len(ls)]
  <2>1. Len(ls) \in Nat
    BY <1>1
  <2> QED
    BY <1>3, <2>1, VisitsExist
<1>5. \A na \in DOMAIN d.nodes :
        na # d.root => /\ at(na) < top
                       /\ \E up \in DOMAIN d.nodes : na \in ToSet(ChildrenOf(d.nodes[up])) /\ at(na) < at(up)
  BY ChildrenOfTree DEF WellBuilt, Top
<1> HIDE DEF top, at
<1> DEFINE P == {k \in Nat : k <= top => \A na \in DOMAIN d.nodes : at(na) >= top - k => na \in step[k]}
<1>6. 0 \in P
  <2>1. \A na \in DOMAIN d.nodes : at(na) >= top - 0 => na = d.root
    BY <1>1, <1>5
  <2> QED
    BY <1>4, <2>1
<1>7. ASSUME NEW k \in P PROVE k + 1 \in P
  <2> SUFFICES ASSUME k + 1 <= top, NEW na \in DOMAIN d.nodes, at(na) >= top - (k + 1)
               PROVE  na \in step[k + 1]
    OBVIOUS
  <2>1. k \in Nat /\ k + 1 \in 1..Len(ls) /\ (k + 1) - 1 = k /\ k <= top
    BY <1>1
  <2>2. \A nb \in DOMAIN d.nodes : at(nb) >= top - k => nb \in step[k]
    BY <2>1
  <2>3. step[k + 1] = step[k] \cup UNION {BelowOf(ls, d, nb) : nb \in Found(ls, d, step[k])}
    BY <1>4, <2>1
  <2>4. CASE na = d.root
    <3>1. at(d.root) = top /\ d.root \in DOMAIN d.nodes
      BY DEF Top, WellBuilt, at, top
    <3>2. top >= top - k
      BY <1>1, <2>1
    <3> QED
      BY <2>2, <2>3, <2>4, <3>1, <3>2
  <2>5. CASE na # d.root
    <3>1. PICK up \in DOMAIN d.nodes : na \in ToSet(ChildrenOf(d.nodes[up])) /\ at(na) < at(up)
      BY <1>5, <2>5
    <3>2. at(up) >= top - k
      BY <1>1, <2>1, <3>1
    <3>3. up \in Found(ls, d, step[k])
      BY <1>2, <2>2, <3>2 DEF Found
    <3> QED
      BY <1>2, <2>3, <3>1, <3>3
  <2> QED
    BY <2>4, <2>5
<1>8. P = Nat
  <2>1. P \in SUBSET Nat
    OBVIOUS
  <2> HIDE DEF P
  <2> QED
    BY <1>6, <1>7, <2>1, AllNaturals
<1>9. \A na \in DOMAIN d.nodes : na \in step[top]
  <2>1. top \in P /\ top \in Nat
    BY <1>1, <1>8
  <2>2. \A na \in DOMAIN d.nodes : at(na) >= top - top
    BY <1>1
  <2> QED
    BY <2>1, <2>2
<1>10. Visited(ls, d.minRes, d.root) = DOMAIN d.nodes
  <2>1. top \in 0..Len(ls)
    BY <1>1
  <2>2. step[top] \in SUBSET DOMAIN d.nodes
    BY <1>4, <2>1
  <2> QED
    BY <1>1, <1>4, <1>9, <2>2
<1> QED
  BY <1>3, <1>10

(* The final addresses of the tree of d.                                   *)
FinalOf(fin, d) ==
  /\ DOMAIN fin = UNION {FinalPoints(d.nodes[na]) : na \in DOMAIN d.nodes}
  /\ \A p \in DOMAIN fin : fin[p] \in DOMAIN d.nodes /\ p \in FinalPoints(d.nodes[fin[p]])

LEMMA WholeIsFinal ==
  ASSUME NEW d, WellBuilt(d), NEW V, NEW ls, Whole(ls, d, V)
  PROVE  FinalOf(FinalIndexes(ls, d.minRes, d.root), d)
<1> DEFINE D == DOMAIN d.nodes
           at(na) == ShownBy(ls, d.minRes, na)
           points(na) == FinalPoints(at(na))
           fin == FinalIndexes(ls, d.minRes, d.root)
           here(p) == CHOOSE na \in D : p \in points(na)
<1>1. Visited(ls, d.minRes, d.root) = D /\ \A na \in D : Finds(ls, d.minRes, na)
  BY WholeIsVisited, WholeShows
<1>2. \A na \in D : points(na) = FinalPoints(d.nodes[na])
  <2> TAKE na \in D
  <2>1. BareNode(d.nodes[na]) /\ at(na) = WithMap(d.nodes[na], at(na).plugins)
    BY WholeShows
  <2> QED
    BY <2>1, SameFields
<1>3. fin = [p \in UNION {points(na) : na \in D} |-> here(p)]
  <2>1. ~ \E na \in Visited(ls, d.minRes, d.root) : ~Finds(ls, d.minRes, na)
    BY <1>1
  <2> HIDE DEF D
  <2> QED
    BY <1>1, <2>1 DEF FinalIndexes
<1>4. \A p \in UNION {points(na) : na \in D} : here(p) \in D /\ p \in points(here(p))
  <2> HIDE DEF points, D
  <2> TAKE p \in UNION {points(na) : na \in D}
  <2>1. \E na \in D : p \in points(na)
    OBVIOUS
  <2> QED
    BY <2>1
<1> HIDE DEF points, here, fin, D
<1>5. DOMAIN fin = UNION {points(na) : na \in D} /\ \A p \in DOMAIN fin : fin[p] = here(p)
  BY <1>3
<1>6. UNION {points(na) : na \in D} = UNION {FinalPoints(d.nodes[na]) : na \in D}
  BY <1>2
<1>7. \A p \in DOMAIN fin : fin[p] \in D /\ p \in FinalPoints(d.nodes[fin[p]])
  BY <1>2, <1>4, <1>5
<1> QED
  BY <1>5, <1>6, <1>7 DEF FinalOf, fin, D

(* A file that was cut has no root, and is not loaded.                     *)
LoadedTo(d, n) == [i \in 1..n |-> LoadedLayer(SavedOfLayer(d, i))]

LEMMA LoadedIsWhole ==
  ASSUME NEW d, WellBuilt(d), NEW V, NEW n \in 0..Top(d),
         FinalIndexes(LoadedTo(d, n), d.minRes, d.root) # Panic
  PROVE  /\ n = Top(d) /\ Whole(LoadedTo(d, n), d, V)
         /\ \A i \in 1..Top(d) : /\ LoadedTo(d, n)[i].shown = LayerNodes(d, i)
                                 /\ Pending(LoadedTo(d, n)[i]) = <<>>
                                 /\ LoadedTo(d, n)[i].log = <<>>
                                 /\ LoadedTo(d, n)[i].writing = LayerNodes(d, i)
<1> DEFINE ls == LoadedTo(d, n)
<1>1. Top(d) \in Nat \ {0} /\ n \in Nat
  BY NodesOfLayer
<1>2. DOMAIN ls = 1..n /\ Len(ls) = n /\ ls = [i \in 1..n |-> ls[i]]
  BY <1>1 DEF LoadedTo
<1>3. \A i \in 1..n : /\ Settled(ls[i], LayerNodes(d, i), V) /\ ls[i].scale = d.minRes + i - 2
                      /\ Pending(ls[i]) = <<>> /\ ls[i].shown = LayerNodes(d, i)
                      /\ ls[i].log = <<>> /\ ls[i].writing = LayerNodes(d, i)
  <2> TAKE i \in 1..n
  <2>1. ls[i] = LoadedLayer(SavedOfLayer(d, i))
    BY DEF LoadedTo
  <2> HIDE DEF ls
  <2> QED
    BY <2>1, LoadedIs
<1> HIDE DEF ls
<1>4. Shows(ls, d)
  <2> SUFFICES ASSUME NEW na \in DOMAIN d.nodes, Finds(ls, d.minRes, na)
               PROVE  BelowOf(ls, d, na) = ToSet(ChildrenOf(d.nodes[na]))
    BY DEF Shows
  <2> DEFINE i == LayerOf(d.minRes, na)
  <2>1. i \in 1..n
    BY <1>1, <1>2, NodesOfLayer DEF Finds
  <2>2. LayerNodes(d, i)[PointIndex(na)] = d.nodes[na]
    BY NodesOfLayer
  <2>3. ShownBy(ls, d.minRes, na) = d.nodes[na]
    BY <1>3, <2>1, <2>2 DEF ShownBy
  <2> QED
    BY <2>3 DEF BelowOf
<1>5. n = Top(d)
  <2>1. d.root \in Visited(ls, d.minRes, d.root)
    BY <1>1, <1>2, <1>4, VisitsGrow
  <2>2. Finds(ls, d.minRes, d.root)
    BY <2>1 DEF FinalIndexes, ls
  <2> QED
    BY <1>1, <1>2, <2>2 DEF Finds, Top
<1>6. Whole(ls, d, V)
  BY <1>2, <1>3, <1>5 DEF Whole
<1> QED
  BY <1>3, <1>5, <1>6 DEF ls

(* The kinds of plugins that a node shows, and those that wait for the     *)
(* next refresh of its layer.                                              *)
ShownAt(ls, d, na) == DOMAIN ShownBy(ls, d.minRes, na).plugins
PendingAt(ls, d, na) == KindsIn(Pending(ls[LayerOf(d.minRes, na)]), PointIndex(na))
KindIf(kind, n) == IF HasComponent(kind, n) THEN {kind} ELSE {}

Enlarged(V, kind, components) == V \cup {kind} \cup {components[pi] : pi \in DOMAIN components}
Among(components, pis, N) == DOMAIN components = DOMAIN N /\ pis \subseteq DOMAIN N

LEMMA PublishKeeps ==
  ASSUME NEW N, Bare(N), NEW V, NEW layer, Settled(layer, N, V),
         NEW kind, NEW components, NEW pis, Among(components, pis, N)
  PROVE  LET W == Enlarged(V, kind, components)
             logged == WithPlugins(layer, kind, components, pis)
             fresh == RefreshLayer(logged)
         IN /\ Settled(logged, N, W) /\ Settled(fresh, N, W)
            /\ logged.shown = layer.shown /\ logged.second = layer.second /\ ~fresh.second
            /\ logged.scale = layer.scale /\ fresh.scale = layer.scale
            /\ Pending(fresh) = <<>>
            /\ \A pi \in DOMAIN N :
                 /\ KindsIn(Pending(logged), pi)
                      = KindsIn(Pending(layer), pi) \cup (IF pi \in pis THEN KindIf(kind, N[pi]) ELSE {})
                 /\ KindsAt(fresh.shown, pi) = KindsAt(layer.shown, pi) \cup KindsIn(Pending(logged), pi)
<1> DEFINE W == Enlarged(V, kind, components)
           logged == WithPlugins(layer, kind, components, pis)
           fresh == RefreshLayer(logged)
<1>1. V \subseteq W /\ kind \in W /\ Gives(components, N, W) /\ pis \in SUBSET DOMAIN N
  BY DEF Gives, Among, Enlarged
<1> HIDE DEF W
<1>2. Settled(layer, N, W)
  BY <1>1, MoreValues
<1>3. PICK ops \in Seq(Updates(N, W)) :
        /\ logged = Logged(layer, ops)
        /\ Lists(ops, layer, kind, components, pis)
  BY <1>1, <1>2, PluginsLogged
<1> DEFINE more == Logged(layer, ops)
<1>4. /\ Settled(more, N, W) /\ more.shown = layer.shown /\ more.second = layer.second
      /\ \A pi : KindsIn(Pending(more), pi) = KindsIn(Pending(layer), pi) \cup KindsIn(ops, pi)
  BY <1>2, LogKeeps
<1>5. more.scale = layer.scale
  BY DEF Logged, LayerRecord
<1>6. \A pi \in DOMAIN N : KindsIn(ops, pi) = IF pi \in pis THEN KindIf(kind, N[pi]) ELSE {}
  <2> TAKE pi \in DOMAIN N
  <2>1. \A x : x \in KindsIn(ops, pi) <=> \E op : (\E i \in DOMAIN ops : ops[i] = op) /\ op.pi = pi /\ op.kind = x
    BY DEF KindsIn
  <2>2. \A pj : PluginOp(pj, kind, components[pj]).pi = pj /\ PluginOp(pj, kind, components[pj]).kind = kind
    BY DEF PluginOp
  <2>3. \A x : x \in KindsIn(ops, pi) <=> \E pj \in Having(layer, kind, pis) : pj = pi /\ kind = x
    <3> DEFINE H == Having(layer, kind, pis)
               Op(pj) == PluginOp(pj, kind, components[pj])
               Listed(op) == \E i \in DOMAIN ops : ops[i] = op
    <3>1. \A op : Listed(op) <=> \E pj \in H : op = Op(pj)
      BY <1>3 DEF Lists
    <3>2. \A x : x \in KindsIn(ops, pi) <=> \E op : Listed(op) /\ op.pi = pi /\ op.kind = x
      BY <2>1
    <3> HIDE DEF H, Op, Listed
    <3>3. \A x : x \in KindsIn(ops, pi) <=> \E pj \in H : Op(pj).pi = pi /\ Op(pj).kind = x
      BY <3>1, <3>2
    <3> QED
      BY <2>2, <3>3 DEF H, Op
  <2>4. pi \in Having(layer, kind, pis) <=> pi \in pis /\ HasComponent(kind, N[pi])
    <3> DEFINE f == layer.shown
    <3>1. f \in Plugged(N, W)
      BY <1>2 DEF Settled
    <3> HIDE DEF f
    <3>2. f[pi] = WithMap(N[pi], f[pi].plugins) /\ BareNode(N[pi])
      BY <3>1, PluggedNode DEF Bare
    <3>3. HasComponent(kind, f[pi]) = HasComponent(kind, N[pi])
      BY <3>2, SameFields
    <3> QED
      BY <3>3 DEF Having, f
  <2> QED
    BY <2>3, <2>4 DEF KindIf
<1>7. logged = more
  BY <1>3
<1> HIDE DEF more, logged, fresh
<1>8. /\ Settled(fresh, N, W) /\ ~fresh.second /\ Pending(fresh) = <<>> /\ fresh.scale = logged.scale
      /\ \A pi \in DOMAIN N :
           KindsAt(fresh.shown, pi) = KindsAt(logged.shown, pi) \cup KindsIn(Pending(logged), pi)
  <2>1. Settled(logged, N, W)
    BY <1>4, <1>7
  <2> HIDE DEF W
  <2>2. LET new == RefreshLayer(logged)
        IN /\ Settled(new, N, W) /\ ~new.second /\ Pending(new) = <<>> /\ new.scale = logged.scale
           /\ \A pi \in DOMAIN N :
                KindsAt(new.shown, pi) = KindsAt(logged.shown, pi) \cup KindsIn(Pending(logged), pi)
    BY <2>1, RefreshKeeps
  <2> QED
    BY <2>2 DEF fresh
<1> QED
  BY <1>4, <1>5, <1>6, <1>7, <1>8 DEF W, logged, fresh

Within(V, W) == V \subseteq W

Replaced(ls, i, l) == [ls EXCEPT ![i] = l]

LEMMA ReplaceLayer ==
  ASSUME NEW d, WellBuilt(d), NEW V, NEW ls, Whole(ls, d, V), NEW i \in 1..Top(d),
         NEW W, Within(V, W), NEW l, Settled(l, LayerNodes(d, i), W), l.scale = ls[i].scale
  PROVE  LET to == Replaced(ls, i, l)
         IN /\ Whole(to, d, W) /\ to[i] = l
            /\ \A j \in 1..Top(d) \ {i} : to[j] = ls[j]
<1> DEFINE to == Replaced(ls, i, l)
<1>1. ls = [j \in 1..Top(d) |-> ls[j]] /\ DOMAIN ls = 1..Top(d)
  BY WholeShows DEF Whole
<1>2. to[i] = l /\ (\A j \in 1..Top(d) \ {i} : to[j] = ls[j]) /\ to = [j \in 1..Top(d) |-> to[j]]
  BY <1>1 DEF Replaced
<1> HIDE DEF to
<1>3. ASSUME NEW j \in 1..Top(d)
      PROVE  Settled(to[j], LayerNodes(d, j), W) /\ to[j].scale = d.minRes + j - 2
  <2>1. Settled(ls[j], LayerNodes(d, j), V) /\ ls[j].scale = d.minRes + j - 2
    BY DEF Whole
  <2>2. Settled(ls[j], LayerNodes(d, j), W)
    BY <2>1, MoreValues DEF Within
  <2> QED
    BY <1>2, <2>1, <2>2
<1> QED
  BY <1>2, <1>3 DEF Whole, to

(* Kinds of a tree in one layer of which plugins are logged, and shown.    *)
With(ls, d, i, kind, components, pis) ==
  [ls EXCEPT ![i] = WithPlugins(@, kind, components, pis)]
Published(ls, d, i, kind, components, pis) ==
  [ls EXCEPT ![i] = RefreshLayer(WithPlugins(@, kind, components, pis))]

LEMMA PublishTree ==
  ASSUME NEW d, WellBuilt(d), NEW V, NEW ls, Whole(ls, d, V), NEW i \in 1..Top(d),
         NEW kind, NEW components, NEW pis, Among(components, pis, LayerNodes(d, i))
  PROVE  LET half == With(ls, d, i, kind, components, pis)
             to == Published(ls, d, i, kind, components, pis)
         IN /\ \E W : Whole(half, d, W) /\ Whole(to, d, W)
            /\ \A na \in DOMAIN d.nodes :
                 /\ ShownAt(half, d, na) = ShownAt(ls, d, na)
                 /\ PendingAt(half, d, na) = PendingAt(ls, d, na) \cup
                      (IF LayerOf(d.minRes, na) = i /\ PointIndex(na) \in pis
                       THEN KindIf(kind, d.nodes[na]) ELSE {})
                 /\ ShownAt(to, d, na) = ShownAt(ls, d, na) \cup
                      (IF LayerOf(d.minRes, na) = i THEN PendingAt(half, d, na) ELSE {})
                 /\ PendingAt(to, d, na) \subseteq PendingAt(half, d, na)
<1> DEFINE N == LayerNodes(d, i)
           W == Enlarged(V, kind, components)
           logged == WithPlugins(ls[i], kind, components, pis)
           fresh == RefreshLayer(logged)
           half == With(ls, d, i, kind, components, pis)
           to == Published(ls, d, i, kind, components, pis)
<1>1. Bare(N) /\ Settled(ls[i], N, V)
  BY NodesOfLayer DEF Whole
<1>2. /\ Settled(logged, N, W) /\ Settled(fresh, N, W)
      /\ logged.shown = ls[i].shown
      /\ logged.scale = ls[i].scale /\ fresh.scale = ls[i].scale
      /\ Pending(fresh) = <<>>
      /\ \A pi \in DOMAIN N :
           /\ KindsIn(Pending(logged), pi)
                = KindsIn(Pending(ls[i]), pi) \cup (IF pi \in pis THEN KindIf(kind, N[pi]) ELSE {})
           /\ KindsAt(fresh.shown, pi) = KindsAt(ls[i].shown, pi) \cup KindsIn(Pending(logged), pi)
  <2> HIDE DEF N
  <2> QED
    BY <1>1, PublishKeeps DEF N
<1>3. half = Replaced(ls, i, logged) /\ to = Replaced(ls, i, fresh)
  BY DEF With, Published, Replaced
<1>4. Within(V, W)
  BY DEF Within, Enlarged
<1> HIDE DEF logged, fresh, W, half, to
<1>5. /\ Whole(half, d, W) /\ half[i] = logged
      /\ \A j \in 1..Top(d) \ {i} : half[j] = ls[j]
  BY <1>2, <1>3, <1>4, ReplaceLayer
<1>6. /\ Whole(to, d, W) /\ to[i] = fresh
      /\ \A j \in 1..Top(d) \ {i} : to[j] = ls[j]
  BY <1>2, <1>3, <1>4, ReplaceLayer
<1>7. ASSUME NEW na \in DOMAIN d.nodes
      PROVE  /\ ShownAt(half, d, na) = ShownAt(ls, d, na)
             /\ PendingAt(half, d, na) = PendingAt(ls, d, na) \cup
                  (IF LayerOf(d.minRes, na) = i /\ PointIndex(na) \in pis
                   THEN KindIf(kind, d.nodes[na]) ELSE {})
             /\ ShownAt(to, d, na) = ShownAt(ls, d, na) \cup
                  (IF LayerOf(d.minRes, na) = i THEN PendingAt(half, d, na) ELSE {})
             /\ PendingAt(to, d, na) \subseteq PendingAt(half, d, na)
  <2> DEFINE j == LayerOf(d.minRes, na)
             pi == PointIndex(na)
  <2>1. j \in 1..Top(d) /\ pi \in DOMAIN LayerNodes(d, j) /\ LayerNodes(d, j)[pi] = d.nodes[na]
    BY NodesOfLayer
  <2>2. \A l : ShownAt(l, d, na) = KindsAt(l[j].shown, pi) /\ PendingAt(l, d, na) = KindsIn(Pending(l[j]), pi)
    BY DEF ShownAt, ShownBy, PendingAt, KindsAt
  <2> HIDE DEF j, pi
  <2>3. CASE j # i
    <3>1. half[j] = ls[j] /\ to[j] = ls[j]
      BY <1>5, <1>6, <2>1, <2>3
    <3> QED
      BY <2>2, <2>3, <3>1 DEF j
  <2>4. CASE j = i
    <3>1. pi \in DOMAIN N /\ N[pi] = d.nodes[na]
      BY <2>1, <2>4
    <3>2. KindsIn(Pending(fresh), pi) = {}
      BY <1>2 DEF KindsIn
    <3> HIDE DEF N
    <3> QED
      BY <1>2, <1>5, <1>6, <2>2, <2>4, <3>1, <3>2 DEF j, pi
  <2> QED
    BY <2>3, <2>4
<1> QED
  BY <1>5, <1>6, <1>7 DEF half, to

(* What a node shows, or is going to, its children show.                   *)
Below(ls, d) ==
  \A na \in DOMAIN d.nodes : \A c \in ToSet(ChildrenOf(d.nodes[na])) :
    ShownAt(ls, d, na) \cup PendingAt(ls, d, na) \subseteq ShownAt(ls, d, c)

(* add_plugin has come to a layer: the ones below show the plugin.         *)
ShownUpTo(ls, d, kind, at) ==
  \A na \in DOMAIN d.nodes :
    LayerOf(d.minRes, na) < at /\ HasComponent(kind, d.nodes[na]) => kind \in ShownAt(ls, d, na)

LEMMA PublishBelow ==
  ASSUME NEW d, WellBuilt(d), NEW V, NEW ls, Whole(ls, d, V), NEW i \in 1..Top(d),
         NEW kind, NEW components, NEW pis, Among(components, pis, LayerNodes(d, i)),
         Below(ls, d), ShownUpTo(ls, d, kind, i)
  PROVE  LET half == With(ls, d, i, kind, components, pis)
             to == Published(ls, d, i, kind, components, pis)
         IN /\ Below(half, d) /\ Below(to, d)
            /\ pis = DOMAIN LayerNodes(d, i) => ShownUpTo(to, d, kind, i + 1)
<1> DEFINE half == With(ls, d, i, kind, components, pis)
           to == Published(ls, d, i, kind, components, pis)
           at(na) == LayerOf(d.minRes, na)
<1>1. \A na \in DOMAIN d.nodes :
        /\ ShownAt(half, d, na) = ShownAt(ls, d, na)
        /\ PendingAt(half, d, na) = PendingAt(ls, d, na) \cup
             (IF at(na) = i /\ PointIndex(na) \in pis THEN KindIf(kind, d.nodes[na]) ELSE {})
        /\ ShownAt(to, d, na) = ShownAt(ls, d, na) \cup
             (IF at(na) = i THEN PendingAt(half, d, na) ELSE {})
        /\ PendingAt(to, d, na) \subseteq PendingAt(half, d, na)
  BY PublishTree
<1>2. i \in Nat /\ \A na \in DOMAIN d.nodes : at(na) \in Nat /\ PointIndex(na) \in DOMAIN LayerNodes(d, at(na))
  BY NodesOfLayer
<1> HIDE DEF half, to, at
<1>3. ASSUME NEW na \in DOMAIN d.nodes, NEW c \in ToSet(ChildrenOf(d.nodes[na]))
      PROVE  /\ c \in DOMAIN d.nodes
             /\ ShownAt(half, d, na) \cup PendingAt(half, d, na) \subseteq ShownAt(ls, d, c)
  <2>1. /\ c \in DOMAIN d.nodes /\ at(c) < at(na) /\ d.nodes[c].count <= d.nodes[na].count
        /\ d.nodes[c].count \in Nat /\ d.nodes[na].count \in Nat
    BY ChildrenOfTree DEF at
  <2>2. HasComponent(kind, d.nodes[na]) => HasComponent(kind, d.nodes[c])
    BY <2>1, CoverageAssumption DEF HasComponent
  <2>3. at(na) = i => KindIf(kind, d.nodes[na]) \subseteq ShownAt(ls, d, c)
    BY <2>1, <2>2 DEF KindIf, ShownUpTo, at
  <2>4. ShownAt(ls, d, na) \cup PendingAt(ls, d, na) \subseteq ShownAt(ls, d, c)
    BY DEF Below
  <2> QED
    BY <1>1, <2>1, <2>3, <2>4
<1>4. Below(half, d)
  BY <1>1, <1>3 DEF Below
<1>5. Below(to, d)
  <2> SUFFICES ASSUME NEW na \in DOMAIN d.nodes, NEW c \in ToSet(ChildrenOf(d.nodes[na]))
               PROVE  ShownAt(to, d, na) \cup PendingAt(to, d, na) \subseteq ShownAt(to, d, c)
    BY DEF Below
  <2>1. c \in DOMAIN d.nodes
        /\ ShownAt(half, d, na) \cup PendingAt(half, d, na) \subseteq ShownAt(ls, d, c)
    BY <1>3
  <2> QED
    BY <1>1, <2>1
<1>6. ASSUME pis = DOMAIN LayerNodes(d, i) PROVE ShownUpTo(to, d, kind, i + 1)
  <2> SUFFICES ASSUME NEW na \in DOMAIN d.nodes, at(na) < i + 1, HasComponent(kind, d.nodes[na])
               PROVE  kind \in ShownAt(to, d, na)
    BY DEF ShownUpTo, at
  <2>1. CASE at(na) < i
    BY <1>1, <2>1 DEF ShownUpTo, at
  <2>2. CASE at(na) = i
    BY <1>1, <1>2, <1>6, <2>2 DEF KindIf
  <2> QED
    BY <1>2, <2>1, <2>2
<1> QED
  BY <1>4, <1>5, <1>6 DEF half, to

(* A tree that was built, or loaded, has no plugins.                       *)
LEMMA NoneBelow ==
  ASSUME NEW d, WellBuilt(d), NEW V, NEW ls, Whole(ls, d, V),
         \A i \in 1..Top(d) : ls[i].shown = LayerNodes(d, i) /\ Pending(ls[i]) = <<>>
  PROVE  Below(ls, d)
<1> SUFFICES ASSUME NEW na \in DOMAIN d.nodes
             PROVE  ShownAt(ls, d, na) = {} /\ PendingAt(ls, d, na) = {}
  BY DEF Below
<1> DEFINE i == LayerOf(d.minRes, na)
           pi == PointIndex(na)
<1>1. i \in 1..Top(d) /\ pi \in DOMAIN LayerNodes(d, i) /\ Bare(LayerNodes(d, i))
  BY NodesOfLayer
<1>2. ShownAt(ls, d, na) = KindsAt(LayerNodes(d, i), pi) /\ PendingAt(ls, d, na) = KindsIn(<<>>, pi)
  BY <1>1 DEF ShownAt, ShownBy, PendingAt, KindsAt
<1> HIDE DEF i, pi
<1>3. KindsIn(<<>>, pi) = {}
  BY DEF KindsIn
<1>4. KindsAt(LayerNodes(d, i), pi) = {}
  BY <1>1, BareIsPlugged
<1> QED
  BY <1>2, <1>3, <1>4

-----------------------------------------------------------------------------
(* What plugins say of the nodes of a layer: of the nodes, of operations   *)
(* in a row, and of everything that a layer holds.                         *)
AllFit(f, N, d) ==
  \A pi \in DOMAIN N : \A kind \in DOMAIN f[pi].plugins :
    Describes(f[pi].plugins[kind], kind, d, N[pi])
OpFits(op, N, d) == Describes(op.component, op.kind, d, N[op.pi])
OpsFit(ops, N, d) == \A j \in DOMAIN ops : OpFits(ops[j], N, d)
LayerFits(layer, N, d) ==
  /\ AllFit(layer.shown, N, d) /\ OpsFit(layer.log, N, d)
  /\ ~layer.second => AllFit(layer.writing, N, d)

LEMMA ApplyFits ==
  ASSUME NEW N, Bare(N), NEW V, NEW f \in Plugged(N, V), NEW op \in Updates(N, V),
         NEW d, AllFit(f, N, d), OpFits(op, N, d)
  PROVE  AllFit(Apply(f, op), N, d)
<1>1. PICK pj \in DOMAIN N, kind \in V, c \in V : op = PluginOp(pj, kind, c)
  BY DEF Updates
<1>2. op.type = "update" /\ op.pi = pj /\ op.kind = kind /\ op.component = c
  BY <1>1 DEF PluginOp
<1>3. DOMAIN f = DOMAIN N /\ f = [pi \in DOMAIN N |-> f[pi]]
  BY DEF Plugged
<1> DEFINE q == Put(f[pj].plugins, kind, c)
           g == [f EXCEPT ![pj] = WithMap(f[pj], q)]
<1>4. Apply(f, op) = g
  BY <1>2, <1>3 DEF Apply, InsertPlugin, WithMap
<1>5. DOMAIN q = {kind} \cup DOMAIN f[pj].plugins
      /\ \A x \in DOMAIN q : q[x] = IF x = kind THEN c ELSE f[pj].plugins[x]
  BY DEF Put
<1> HIDE DEF q
<1>6. g[pj].plugins = q /\ \A pi \in DOMAIN N \ {pj} : g[pi] = f[pi]
  <2>1. WithMap(f[pj], q).plugins = q
    BY PluggedNode
  <2> HIDE DEF Plugged, WithMap
  <2> QED
    BY <1>3, <2>1
<1> HIDE DEF g
<1> SUFFICES ASSUME NEW pi \in DOMAIN N, NEW x \in DOMAIN g[pi].plugins
             PROVE  Describes(g[pi].plugins[x], x, d, N[pi])
  BY <1>4 DEF AllFit
<1>7. CASE pi # pj
  BY <1>6, <1>7 DEF AllFit
<1>8. CASE pi = pj
  <2>1. CASE x = kind
    BY <1>2, <1>5, <1>6, <1>8, <2>1 DEF OpFits
  <2>2. CASE x # kind
    BY <1>5, <1>6, <1>8, <2>2 DEF AllFit
  <2> QED
    BY <2>1, <2>2
<1> QED
  BY <1>7, <1>8

LEMMA AppliedFits ==
  ASSUME NEW N, Bare(N), NEW V, NEW f \in Plugged(N, V), NEW ops \in Seq(Updates(N, V)),
         NEW d, AllFit(f, N, d), OpsFit(ops, N, d)
  PROVE  AllFit(Applied(f, ops), N, d)
<1> DEFINE n == Len(ops)
           X == Plugged(N, V)
<1>1. n \in Nat /\ DOMAIN ops = 1..n /\ \A i \in 1..n : ops[i] \in Updates(N, V)
  OBVIOUS
<1>2. PICK h : RecursionTo(n, h, X, f, ApplyStep(N, V, ops)) /\ Applied(f, ops) = h[n]
  BY ApplyAll DEF Applied
<1>3. /\ h \in [0..n -> X] /\ h[0] = f
      /\ \A i \in 1..n : h[i] = ApplyStep(N, V, ops)[<<i, h[i - 1]>>]
  BY <1>2 DEF RecursionTo
<1>4. ASSUME NEW i \in 1..n PROVE h[i - 1] \in X /\ h[i] = Apply(h[i - 1], ops[i])
  <2>1. i - 1 \in 0..n /\ h[i - 1] \in X
    BY <1>3
  <2> QED
    BY <1>3, <2>1 DEF ApplyStep
<1> DEFINE P == {i \in Nat : i <= n => AllFit(h[i], N, d)}
<1>5. 0 \in P
  BY <1>3
<1>6. ASSUME NEW i \in P PROVE i + 1 \in P
  <2> SUFFICES ASSUME i + 1 <= n PROVE AllFit(h[i + 1], N, d)
    OBVIOUS
  <2>1. i \in Nat /\ i + 1 \in 1..n /\ (i + 1) - 1 = i /\ i <= n
    OBVIOUS
  <2>2. h[i] \in X /\ h[i + 1] = Apply(h[i], ops[i + 1]) /\ AllFit(h[i], N, d)
    BY <1>4, <2>1
  <2>3. ops[i + 1] \in Updates(N, V) /\ OpFits(ops[i + 1], N, d)
    BY <1>1, <2>1 DEF OpsFit
  <2> QED
    BY <2>2, <2>3, ApplyFits
<1>7. P = Nat
  <2>1. P \in SUBSET Nat
    OBVIOUS
  <2> HIDE DEF P
  <2> QED
    BY <1>5, <1>6, <2>1, AllNaturals
<1> QED
  BY <1>1, <1>2, <1>7

(* Nodes without plugins say nothing. *)
LEMMA BareFits ==
  ASSUME NEW N, Bare(N), NEW d
  PROVE  AllFit(N, N, d) /\ OpsFit(<<>>, N, d)
<1>1. \A pi \in DOMAIN N : DOMAIN N[pi].plugins = {}
  <2>1. N \in Plugged(N, {}) /\ \A pi \in DOMAIN N : KindsAt(N, pi) = {}
    BY BareIsPlugged
  <2> QED
    BY <2>1 DEF KindsAt
<1> QED
  BY <1>1 DEF AllFit, OpsFit

LEMMA RefreshFits ==
  ASSUME NEW N, Bare(N), NEW V, NEW layer, Settled(layer, N, V), NEW d, LayerFits(layer, N, d)
  PROVE  LayerFits(RefreshLayer(layer), N, d)
<1> DEFINE fresh == RefreshLayer(layer)
           once == Pending(layer)
<1>1. /\ fresh.writing = layer.shown /\ fresh.log = once /\ fresh.shown = Applied(layer.shown, once)
  BY RefreshKeeps
<1>2. /\ layer.log \in Seq(Updates(N, V)) /\ layer.swap \in 0..Len(layer.log) /\ Len(layer.log) \in Nat
      /\ layer.shown \in Plugged(N, V)
  BY DEF Settled
<1>3. /\ once \in Seq(Updates(N, V)) /\ DOMAIN once = 1..(Len(layer.log) - layer.swap)
      /\ \A j \in DOMAIN once : once[j] = layer.log[layer.swap + j] /\ layer.swap + j \in DOMAIN layer.log
  <2> DEFINE log == layer.log
             swap == layer.swap
             T == Updates(N, V)
  <2>1. log \in Seq(T) /\ swap \in 0..Len(log) /\ Len(log) \in Nat
    BY <1>2
  <2> HIDE DEF log, swap, T
  <2>2. /\ SubSeq(log, swap + 1, Len(log)) \in Seq(T)
        /\ DOMAIN SubSeq(log, swap + 1, Len(log)) = 1..(Len(log) - swap)
        /\ \A j \in 1..(Len(log) - swap) :
             SubSeq(log, swap + 1, Len(log))[j] = log[swap + j] /\ swap + j \in DOMAIN log
    BY <2>1
  <2> QED
    BY <2>2 DEF Pending, log, swap, T
<1> HIDE DEF fresh, once
<1>4. OpsFit(once, N, d)
  BY <1>3 DEF OpsFit, LayerFits
<1>5. AllFit(layer.shown, N, d)
  BY DEF LayerFits
<1>6. AllFit(Applied(layer.shown, once), N, d)
  BY <1>2, <1>3, <1>4, <1>5, AppliedFits
<1> QED
  BY <1>1, <1>4, <1>5, <1>6 DEF LayerFits, fresh

LEMMA LogFits ==
  ASSUME NEW N, NEW V, NEW layer, Settled(layer, N, V), NEW ops \in Seq(Updates(N, V)),
         NEW d, LayerFits(layer, N, d), OpsFit(ops, N, d)
  PROVE  LayerFits(Logged(layer, ops), N, d)
<1> DEFINE more == Logged(layer, ops)
           log == layer.log
           all == log \o ops
<1>1. /\ more.shown = layer.shown /\ more.writing = layer.writing
      /\ more.log = all /\ more.second = layer.second
  BY DEF Logged, LayerRecord
<1>2. log \in Seq(Updates(N, V)) /\ Len(log) \in Nat /\ Len(ops) \in Nat
  BY DEF Settled
<1> HIDE DEF log, more
<1>3. ASSUME NEW j \in DOMAIN all PROVE OpFits(all[j], N, d)
  <2>1. j \in 1..(Len(log) + Len(ops)) /\ all[j] = IF j <= Len(log) THEN log[j] ELSE ops[j - Len(log)]
    BY <1>2
  <2>2. CASE j <= Len(log)
    <3>1. j \in DOMAIN log
      BY <1>2, <2>1, <2>2
    <3> QED
      BY <2>1, <2>2, <3>1 DEF LayerFits, OpsFit, log
  <2>3. CASE ~(j <= Len(log))
    <3>1. j - Len(log) \in DOMAIN ops
      BY <1>2, <2>1, <2>3
    <3> QED
      BY <2>1, <2>3, <3>1 DEF OpsFit
  <2> QED
    BY <2>2, <2>3
<1> HIDE DEF all
<1> QED
  BY <1>1, <1>3 DEF LayerFits, OpsFit, more

(* Plugins that are added say something true of every node they are for.   *)
ComponentsFit(components, layer, kind, pis, N, d) ==
  \A pi \in Having(layer, kind, pis) : Describes(components[pi], kind, d, N[pi])

LEMMA PublishFits ==
  ASSUME NEW N, Bare(N), NEW V, NEW layer, Settled(layer, N, V),
         NEW kind, NEW components, NEW pis, Among(components, pis, N),
         NEW d, LayerFits(layer, N, d), ComponentsFit(components, layer, kind, pis, N, d)
  PROVE  LET logged == WithPlugins(layer, kind, components, pis)
         IN LayerFits(logged, N, d) /\ LayerFits(RefreshLayer(logged), N, d)
<1> DEFINE W == Enlarged(V, kind, components)
           logged == WithPlugins(layer, kind, components, pis)
<1>1. V \subseteq W /\ kind \in W /\ Gives(components, N, W) /\ pis \in SUBSET DOMAIN N
  BY DEF Gives, Among, Enlarged
<1> HIDE DEF W
<1>2. Settled(layer, N, W)
  BY <1>1, MoreValues
<1>3. PICK ops \in Seq(Updates(N, W)) :
        /\ logged = Logged(layer, ops)
        /\ Lists(ops, layer, kind, components, pis)
  BY <1>1, <1>2, PluginsLogged
<1>4. OpsFit(ops, N, d)
  <2> SUFFICES ASSUME NEW j \in DOMAIN ops PROVE OpFits(ops[j], N, d)
    BY DEF OpsFit
  <2>1. PICK pi \in Having(layer, kind, pis) : ops[j] = PluginOp(pi, kind, components[pi])
    BY <1>3 DEF Lists
  <2>2. ops[j].pi = pi /\ ops[j].kind = kind /\ ops[j].component = components[pi]
    BY <2>1 DEF PluginOp
  <2> QED
    BY <2>2 DEF OpFits, ComponentsFit
<1> DEFINE more == Logged(layer, ops)
<1>5. Settled(more, N, W)
  BY <1>2, LogKeeps
<1>6. LayerFits(more, N, d)
  BY <1>2, <1>4, LogFits
<1> HIDE DEF more, logged
<1>7. LayerFits(RefreshLayer(more), N, d)
  BY <1>5, <1>6, RefreshFits
<1>8. logged = more
  BY <1>3 DEF more
<1> QED
  BY <1>6, <1>7, <1>8 DEF logged

(* Of all layers. *)
TreeFits(ls, d) == \A i \in 1..Top(d) : LayerFits(ls[i], LayerNodes(d, i), d)

LEMMA PublishTreeFits ==
  ASSUME NEW d, WellBuilt(d), NEW V, NEW ls, Whole(ls, d, V), NEW i \in 1..Top(d),
         NEW kind, NEW components, NEW pis, Among(components, pis, LayerNodes(d, i)),
         TreeFits(ls, d), ComponentsFit(components, ls[i], kind, pis, LayerNodes(d, i), d)
  PROVE  TreeFits(With(ls, d, i, kind, components, pis), d)
         /\ TreeFits(Published(ls, d, i, kind, components, pis), d)
<1> DEFINE N == LayerNodes(d, i)
           layer == ls[i]
           logged == WithPlugins(layer, kind, components, pis)
           fresh == RefreshLayer(logged)
           half == With(ls, d, i, kind, components, pis)
           to == Published(ls, d, i, kind, components, pis)
<1>1. Bare(N) /\ Settled(layer, N, V) /\ LayerFits(layer, N, d)
  BY NodesOfLayer DEF Whole, TreeFits
<1>2. DOMAIN ls = 1..Top(d)
  BY WholeShows
<1>3. /\ half[i] = logged /\ to[i] = fresh
      /\ \A j \in 1..Top(d) \ {i} : half[j] = ls[j] /\ to[j] = ls[j]
  BY <1>2 DEF With, Published
<1>4. LayerFits(logged, N, d) /\ LayerFits(fresh, N, d)
  <2> HIDE DEF N, layer
  <2> QED
    BY <1>1, PublishFits DEF N, layer
<1> HIDE DEF half, to, logged, fresh, layer
<1>5. \A j \in 1..Top(d) : LayerFits(half[j], LayerNodes(d, j), d) /\ LayerFits(to[j], LayerNodes(d, j), d)
  BY <1>3, <1>4 DEF TreeFits
<1> QED
  BY <1>5 DEF TreeFits, half, to

-----------------------------------------------------------------------------
(* The summary and the moments of a set of points, when a point comes or   *)
(* another set.                                                            *)

Seen(values, P) == {ValueOf(values, p) : p \in P} \ {NoLabel, LabelError}

Totals(values, P, Q) ==
  \A v : /\ CountOf(values, P, v) \in Nat /\ CountOf(values, Q, v) \in Nat
         /\ CountOf(values, P \cup Q, v) = CountOf(values, P, v) + CountOf(values, Q, v)

LEMMA CountsAdd ==
  ASSUME NEW values, NEW P, IsFiniteSet(P), NEW Q, IsFiniteSet(Q), NothingInCommon(P, Q)
  PROVE  Totals(values, P, Q)
<1> SUFFICES ASSUME NEW v
             PROVE  /\ CountOf(values, P, v) \in Nat /\ CountOf(values, Q, v) \in Nat
                    /\ CountOf(values, P \cup Q, v) = CountOf(values, P, v) + CountOf(values, Q, v)
  BY DEF Totals
<1> DEFINE A == {p \in P : ValueOf(values, p) = v}
           B == {p \in Q : ValueOf(values, p) = v}
<1>1. IsFiniteSet(A) /\ IsFiniteSet(B)
  BY FS_Subset
<1>2. A \cup B = {p \in P \cup Q : ValueOf(values, p) = v} /\ A \cap B = {}
  BY DEF NothingInCommon
<1>3. CountOf(values, P, v) = Cardinality(A) /\ CountOf(values, Q, v) = Cardinality(B)
      /\ CountOf(values, P \cup Q, v) = Cardinality(A \cup B)
  BY <1>2 DEF CountOf
<1>4. Cardinality(A) \in Nat /\ Cardinality(B) \in Nat
  BY <1>1, FS_CardinalityType
<1> HIDE DEF A, B
<1>5. Cardinality(A \cup B) = Cardinality(A) + Cardinality(B) - Cardinality(A \cap B)
  BY <1>1, FS_Union
<1>6. Cardinality(A \cap B) = 0
  BY <1>2, FS_EmptySet
<1> QED
  BY <1>3, <1>4, <1>5, <1>6

LEMMA CountsOfNone ==
  ASSUME NEW values, NEW P, NEW v, \A p \in P : ValueOf(values, p) # v
  PROVE  CountOf(values, P, v) = 0
<1>1. {p \in P : ValueOf(values, p) = v} = {}
  OBVIOUS
<1> QED
  BY <1>1, FS_EmptySet DEF CountOf

LEMMA SummaryOfNone ==
  ASSUME NEW values PROVE SummaryOf(values, {}) = EmptyCounter(EmptyBag)
<1>1. \A v : CountOf(values, {}, v) = 0
  BY CountsOfNone
<1>2. Seen(values, {}) = {}
  BY DEF Seen
<1>3. [v \in {} |-> CountOf(values, {}, v)] = [v \in {} |-> 1]
  OBVIOUS
<1> QED
  BY <1>1, <1>2, <1>3 DEF SummaryOf, Seen, EmptyCounter, EmptyBag, SetToBag

LEMMA SummaryOfBoth ==
  ASSUME NEW values, NEW P, IsFiniteSet(P), NEW Q, IsFiniteSet(Q), NothingInCommon(P, Q)
  PROVE  LET c == SummaryOf(values, P)
             o == SummaryOf(values, Q)
         IN CounterCombine(c, o, CategoryCombine(c.summary, o.summary)) = SummaryOf(values, P \cup Q)
<1> DEFINE a == [v \in Seen(values, P) |-> CountOf(values, P, v)]
           b == [v \in Seen(values, Q) |-> CountOf(values, Q, v)]
           ab == [v \in Seen(values, P \cup Q) |-> CountOf(values, P \cup Q, v)]
<1>1. \A v : /\ CountOf(values, P, v) \in Nat /\ CountOf(values, Q, v) \in Nat
             /\ CountOf(values, P \cup Q, v) = CountOf(values, P, v) + CountOf(values, Q, v)
  <2>1. Totals(values, P, Q)
    BY CountsAdd
  <2> QED
    BY <2>1 DEF Totals
<1>2. Seen(values, P \cup Q) = Seen(values, P) \cup Seen(values, Q)
  BY DEF Seen
<1>3. \A v \in Seen(values, P \cup Q) :
        /\ v \notin Seen(values, P) => CountOf(values, P, v) = 0
        /\ v \notin Seen(values, Q) => CountOf(values, Q, v) = 0
  BY CountsOfNone DEF Seen
<1>4. a (+) b = ab
  BY <1>1, <1>2, <1>3 DEF (+)
<1> HIDE DEF a, b, ab
<1>5. /\ SummaryOf(values, P) = [summary |-> a, nones |-> CountOf(values, P, NoLabel),
                                 errors |-> CountOf(values, P, LabelError)]
      /\ SummaryOf(values, Q) = [summary |-> b, nones |-> CountOf(values, Q, NoLabel),
                                 errors |-> CountOf(values, Q, LabelError)]
      /\ SummaryOf(values, P \cup Q)
           = [summary |-> ab, nones |-> CountOf(values, P \cup Q, NoLabel),
              errors |-> CountOf(values, P \cup Q, LabelError)]
  BY DEF SummaryOf, Seen, a, b, ab
<1>6. SummaryOf(values, P).summary = a /\ SummaryOf(values, Q).summary = b
  BY <1>5
<1>7. CategoryCombine(SummaryOf(values, P).summary, SummaryOf(values, Q).summary) = ab
  BY <1>4, <1>6 DEF CategoryCombine
<1> QED
  BY <1>1, <1>5, <1>7 DEF CounterCombine

LEMMA SummaryOfMore ==
  ASSUME NEW values, NEW P, IsFiniteSet(P), NEW p, p \notin P
  PROVE  LET c == SummaryOf(values, P)
             v == ValueOf(values, p)
         IN CounterAdd(c, v, CategoryAdd(c.summary, v)) = SummaryOf(values, P \cup {p})
<1> DEFINE v == ValueOf(values, p)
           a == [u \in Seen(values, P) |-> CountOf(values, P, u)]
           ap == [u \in Seen(values, P \cup {p}) |-> CountOf(values, P \cup {p}, u)]
<1>1. IsFiniteSet({p}) /\ NothingInCommon(P, {p})
  BY FS_Singleton DEF NothingInCommon
<1>2. CountOf(values, {p}, v) = 1
  <2>1. {q \in {p} : ValueOf(values, q) = v} = {p}
    OBVIOUS
  <2> QED
    BY <2>1, FS_Singleton DEF CountOf
<1>3. \A u : u # v => CountOf(values, {p}, u) = 0
  BY CountsOfNone
<1>4. \A u : CountOf(values, P, u) \in Nat
             /\ CountOf(values, P \cup {p}, u) = CountOf(values, P, u) + CountOf(values, {p}, u)
  <2>1. Totals(values, P, {p})
    BY <1>1, CountsAdd
  <2> QED
    BY <2>1 DEF Totals
<1>5. Seen(values, P \cup {p}) = Seen(values, P) \cup ({v} \ {NoLabel, LabelError})
  BY DEF Seen
<1>6. v \notin {NoLabel, LabelError} => a (+) SetToBag({v}) = ap
  <2> SUFFICES ASSUME v \notin {NoLabel, LabelError} PROVE a (+) SetToBag({v}) = ap
    OBVIOUS
  <2>1. v \notin Seen(values, P) => CountOf(values, P, v) = 0
    BY CountsOfNone DEF Seen
  <2> QED
    BY <1>2, <1>3, <1>4, <1>5, <2>1 DEF (+), SetToBag
<1>7. v \in {NoLabel, LabelError} => ap = a
  BY <1>3, <1>4, <1>5 DEF Seen
<1>8. LabelError # NoLabel
  BY LabelAssumption
<1> HIDE DEF a, ap
<1>9. /\ SummaryOf(values, P) = [summary |-> a, nones |-> CountOf(values, P, NoLabel),
                                 errors |-> CountOf(values, P, LabelError)]
      /\ SummaryOf(values, P \cup {p})
           = [summary |-> ap, nones |-> CountOf(values, P \cup {p}, NoLabel),
              errors |-> CountOf(values, P \cup {p}, LabelError)]
  BY DEF SummaryOf, Seen, a, ap
<1> DEFINE n(u) == CountOf(values, P, u)
           c == SummaryOf(values, P)
<1> HIDE DEF v
<1>10. /\ n(NoLabel) \in Nat /\ n(LabelError) \in Nat
       /\ CountOf(values, P \cup {p}, NoLabel) = n(NoLabel) + (IF v = NoLabel THEN 1 ELSE 0)
       /\ CountOf(values, P \cup {p}, LabelError) = n(LabelError) + (IF v = LabelError THEN 1 ELSE 0)
  BY <1>2, <1>3, <1>4
<1> HIDE DEF n
<1>11. /\ c = [summary |-> a, nones |-> n(NoLabel), errors |-> n(LabelError)]
       /\ SummaryOf(values, P \cup {p})
            = [summary |-> ap, nones |-> n(NoLabel) + (IF v = NoLabel THEN 1 ELSE 0),
               errors |-> n(LabelError) + (IF v = LabelError THEN 1 ELSE 0)]
  BY <1>9, <1>10 DEF n
<1> HIDE DEF c
<1>12. CounterAdd(c, v, CategoryAdd(c.summary, v)) = SummaryOf(values, P \cup {p})
  <2>1. CASE v = LabelError
    BY <1>7, <1>8, <1>10, <1>11, <2>1 DEF CounterAdd
  <2>2. CASE v = NoLabel
    BY <1>7, <1>8, <1>10, <1>11, <2>2 DEF CounterAdd
  <2>3. CASE v \notin {NoLabel, LabelError}
    BY <1>6, <1>8, <1>10, <1>11, <2>3 DEF CounterAdd, CategoryAdd
  <2> QED
    BY <2>1, <2>2, <2>3
<1> QED
  BY <1>12 DEF c, v

Moment1(position, P) == SumFunction([p \in P |-> position[p]])
Moment2(position, P) == SumFunction([p \in P |-> position[p] * position[p]])
Placed(position, P) == IsFiniteSet(P) /\ \A p \in P : position[p] \in Int

LEMMA MomentsAdd ==
  ASSUME NEW position, NEW P, Placed(position, P), NEW Q, Placed(position, Q), NothingInCommon(P, Q)
  PROVE  /\ Placed(position, P \cup Q)
         /\ Moment1(position, P) \in Int /\ Moment2(position, P) \in Int
         /\ Moment1(position, P \cup Q) = Moment1(position, P) + Moment1(position, Q)
         /\ Moment2(position, P \cup Q) = Moment2(position, P) + Moment2(position, Q)
<1> DEFINE U == P \cup Q
           f == [p \in U |-> position[p]]
           g == [p \in U |-> position[p] * position[p]]
           fOf(S) == [p \in S |-> position[p]]
           gOf(S) == [p \in S |-> position[p] * position[p]]
<1>1. IsFiniteSet(U) /\ IsFiniteSet(P) /\ IsFiniteSet(Q)
  BY FS_Union DEF Placed
<1>2. \A p \in U : position[p] \in Int /\ position[p] * position[p] \in Int
  BY DEF Placed
<1>3. \A p \in U : f[p] \in Int /\ g[p] \in Int
  BY <1>2
<1>4. ASSUME NEW S \in SUBSET U
      PROVE  /\ Moment1(position, S) = SumFunctionOnSet(f, S)
             /\ Moment2(position, S) = SumFunctionOnSet(g, S)
             /\ SumFunctionOnSet(f, S) \in Int /\ SumFunctionOnSet(g, S) \in Int
  <2>1. /\ Moment1(position, S) = SumFunctionOnSet(fOf(S), S)
        /\ Moment2(position, S) = SumFunctionOnSet(gOf(S), S)
    BY DEF Moment1, Moment2, SumFunction
  <2>2. \A p \in S : fOf(S)[p] = f[p] /\ gOf(S)[p] = g[p] /\ f[p] \in Int /\ g[p] \in Int
    BY <1>3
  <2>3. IsFiniteSet(S)
    BY <1>1, FS_Subset
  <2> HIDE DEF f, g, fOf, gOf
  <2>4. SumFunctionOnSet(fOf(S), S) = SumFunctionOnSet(f, S)
    BY <2>2, <2>3, SumOfSame
  <2>5. SumFunctionOnSet(gOf(S), S) = SumFunctionOnSet(g, S)
    BY <2>2, <2>3, SumOfSame
  <2>6. SumFunctionOnSet(f, S) \in Int
    BY <2>2, <2>3, SumType
  <2>7. SumFunctionOnSet(g, S) \in Int
    BY <2>2, <2>3, SumType
  <2> QED
    BY <2>1, <2>4, <2>5, <2>6, <2>7
<1> HIDE DEF f, g
<1>5. SumFunctionOnSet(f, P \cup Q) = SumFunctionOnSet(f, P) + SumFunctionOnSet(f, Q)
  BY <1>1, <1>3, SumOfUnion
<1>6. SumFunctionOnSet(g, P \cup Q) = SumFunctionOnSet(g, P) + SumFunctionOnSet(g, Q)
  BY <1>1, <1>3, SumOfUnion
<1> QED
  BY <1>1, <1>2, <1>4, <1>5, <1>6 DEF Placed

LEMMA MomentsOfOne ==
  ASSUME NEW position, NEW p, position[p] \in Int
  PROVE  /\ Placed(position, {p}) /\ Moment1(position, {p}) = position[p]
         /\ Moment2(position, {p}) = position[p] * position[p]
<1> DEFINE f == [q \in {p} |-> position[q]]
           g == [q \in {p} |-> position[q] * position[q]]
<1>1. /\ Moment1(position, {p}) = SumFunctionOnSet(f, {p})
      /\ Moment2(position, {p}) = SumFunctionOnSet(g, {p})
  BY DEF Moment1, Moment2, SumFunction
<1>2. IsFiniteSet({p}) /\ p \in {p} /\ {p} \ {p} = {}
  BY FS_Singleton
<1>3. /\ f[p] = position[p] /\ g[p] = position[p] * position[p]
      /\ \A q \in {p} : f[q] \in Int /\ g[q] \in Int
  OBVIOUS
<1> HIDE DEF f, g
<1>4. SumFunctionOnSet(f, {p}) = f[p] + SumFunctionOnSet(f, {p} \ {p})
  BY <1>2, <1>3, SumWithout
<1>5. SumFunctionOnSet(g, {p}) = g[p] + SumFunctionOnSet(g, {p} \ {p})
  BY <1>2, <1>3, SumWithout
<1>6. SumFunctionOnSet(f, {p} \ {p}) = 0 /\ SumFunctionOnSet(g, {p} \ {p}) = 0
  BY <1>2, SumOfNone
<1> QED
  BY <1>1, <1>2, <1>3, <1>4, <1>5, <1>6 DEF Placed

LEMMA MomentsOfNone ==
  ASSUME NEW position PROVE MomentsOf(position, {}) = NewGaussian
<1>1. Moment1(position, {}) = 0
  BY SumOfNone DEF Moment1, SumFunction
<1>2. Moment2(position, {}) = 0
  BY SumOfNone DEF Moment2, SumFunction
<1> QED
  BY <1>1, <1>2, FS_EmptySet DEF MomentsOf, NewGaussian, Moment1, Moment2

LEMMA MomentsOfBoth ==
  ASSUME NEW position, NEW P, Placed(position, P), NEW Q, Placed(position, Q), NothingInCommon(P, Q)
  PROVE  /\ Placed(position, P \cup Q)
         /\ Merge(MomentsOf(position, P), MomentsOf(position, Q)) = MomentsOf(position, P \cup Q)
<1>1. ASSUME NEW S
      PROVE  MomentsOf(position, S) = [moment1 |-> Moment1(position, S),
                                       moment2 |-> Moment2(position, S), count |-> Cardinality(S)]
  BY DEF MomentsOf, Moment1, Moment2
<1>2. Cardinality(P \cup Q) = Cardinality(P) + Cardinality(Q)
  <2>1. IsFiniteSet(P) /\ IsFiniteSet(Q) /\ P \cap Q = {}
    BY DEF Placed, NothingInCommon
  <2>2. Cardinality(P) \in Nat /\ Cardinality(Q) \in Nat
    BY <2>1, FS_CardinalityType
  <2>3. Cardinality(P \cup Q) = Cardinality(P) + Cardinality(Q) - Cardinality(P \cap Q)
    BY <2>1, FS_Union
  <2>4. Cardinality(P \cap Q) = 0
    BY <2>1, FS_EmptySet
  <2> QED
    BY <2>2, <2>3, <2>4
<1>3. /\ Placed(position, P \cup Q)
      /\ Moment1(position, P \cup Q) = Moment1(position, P) + Moment1(position, Q)
      /\ Moment2(position, P \cup Q) = Moment2(position, P) + Moment2(position, Q)
  BY MomentsAdd
<1> QED
  BY <1>1, <1>2, <1>3 DEF Merge

LEMMA MomentsOfMore ==
  ASSUME NEW position, NEW P, Placed(position, P), NEW p, p \notin P, position[p] \in Int
  PROVE  AddPoint(MomentsOf(position, P), position[p]) = MomentsOf(position, P \cup {p})
<1>1. Placed(position, {p}) /\ NothingInCommon(P, {p})
  BY MomentsOfOne DEF NothingInCommon
<1>2. Merge(MomentsOf(position, P), MomentsOf(position, {p})) = MomentsOf(position, P \cup {p})
  BY <1>1, MomentsOfBoth
<1>3. MomentsOf(position, {p}) = [moment1 |-> position[p],
                                  moment2 |-> position[p] * position[p], count |-> 1]
  BY MomentsOfOne, FS_Singleton DEF MomentsOf, Moment1, Moment2
<1> QED
  BY <1>2, <1>3 DEF Merge, AddPoint

LEMMA SetToSeqOnce ==
  ASSUME NEW S, IsFiniteSet(S), NEW i \in DOMAIN SetToSeq(S), NEW j \in DOMAIN SetToSeq(S),
         SetToSeq(S)[i] = SetToSeq(S)[j]
  PROVE  i = j
<1> DEFINE n == Cardinality(S)
           f == SetToSeq(S)
<1>1. n \in Nat /\ ExistsBijection(1..n, S)
  BY FS_CardinalityType
<1>2. PICK b \in Bijection(1..n, S) : TRUE
  BY <1>1 DEF ExistsBijection
<1>3. b \in [1..n -> S] /\ IsInjective(b)
  BY <1>2 DEF Bijection, Injection, IsInjective
<1>4. f \in [1..n -> S] /\ IsInjective(f)
  BY <1>3 DEF SetToSeq
<1> HIDE DEF f
<1> QED
  BY <1>4 DEF IsInjective, f

-----------------------------------------------------------------------------
(* Pieces, a set for each of the indices 1..n, that are put together with  *)
(* the set B, the last index first; and a fold that describes what it has. *)
Gathered(B, pieces, t) == B \cup UNION {pieces[i] : i \in t}
InPieces(n, B, pieces) ==
  /\ IsFiniteSet(B) /\ \A i \in 1..n : IsFiniteSet(pieces[i]) /\ NothingInCommon(B, pieces[i])
  /\ \A i, j \in 1..n : i # j => NothingInCommon(pieces[i], pieces[j])

GathersLast(n, B, pieces, t) ==
  /\ IsFiniteSet(Gathered(B, pieces, t))
  /\ t = {} => Gathered(B, pieces, t) = B
  /\ t # {} => /\ Max(t) \in 1..n /\ t \ {Max(t)} \in SUBSET (1..n)
               /\ Gathered(B, pieces, t) = Gathered(B, pieces, t \ {Max(t)}) \cup pieces[Max(t)]
               /\ NothingInCommon(Gathered(B, pieces, t \ {Max(t)}), pieces[Max(t)])

LEMMA Gathers ==
  ASSUME NEW n \in Nat, NEW B, NEW pieces, InPieces(n, B, pieces), NEW t \in SUBSET (1..n)
  PROVE  GathersLast(n, B, pieces, t)
<1>1. IsFiniteSet(Gathered(B, pieces, t))
  <2> DEFINE f == [i \in t |-> pieces[i]]
             all == {f[i] : i \in t}
  <2>1. IsFiniteSet(t)
    <3>1. IsFiniteSet(1..n)
      BY FS_Interval
    <3> QED
      BY <3>1, FS_Subset
  <2>2. all = {pieces[i] : i \in t} /\ \A U \in all : IsFiniteSet(U)
    BY DEF InPieces
  <2>3. IsFiniteSet(all)
    <3> HIDE DEF f
    <3> DOMAIN f = t
      BY DEF f
    <3> QED
      BY <2>1, FiniteImage
  <2> HIDE DEF all
  <2>4. IsFiniteSet(UNION all)
    BY <2>2, <2>3, FS_UNION
  <2>5. IsFiniteSet(B \cup UNION all)
    BY <2>4, FS_Union DEF InPieces
  <2> QED
    BY <2>2, <2>5 DEF Gathered
<1>2. t # {} => Max(t) \in 1..n /\ t \ {Max(t)} \in SUBSET (1..n) /\ Max(t) \in t
  <2>1. IsFiniteSet(1..n) /\ 1..n \subseteq Int
    BY FS_Interval
  <2>2. IsFiniteSet(t) /\ t \in SUBSET Int
    BY <2>1, FS_Subset
  <2> QED
    BY <2>2, MaxOfIndices, MaxOfIntegers
<1>3. ASSUME NEW m \in t
      PROVE  /\ Gathered(B, pieces, t) = Gathered(B, pieces, t \ {m}) \cup pieces[m]
             /\ NothingInCommon(Gathered(B, pieces, t \ {m}), pieces[m])
  BY DEF Gathered, InPieces, NothingInCommon
<1> QED
  BY <1>1, <1>2, <1>3 DEF Gathered, GathersLast

Tabled(n, it, T) ==
  /\ it[{}] = T[{}]
  /\ \A t \in SUBSET (1..n) :
       t # {} /\ it[t \ {Max(t)}] = T[t \ {Max(t)}] => it[t] = T[t]

LEMMA TableAlong ==
  ASSUME NEW n \in Nat, NEW it, NEW T, Tabled(n, it, T)
  PROVE  it[1..n] = T[1..n]
<1> DEFINE P == {i \in Nat : i <= n => it[1..i] = T[1..i]}
<1>1. 0 \in P
  <2>1. 1..0 = {}
    OBVIOUS
  <2> QED
    BY <2>1 DEF Tabled
<1>2. ASSUME NEW i \in P PROVE i + 1 \in P
  <2>1. SUFFICES ASSUME i + 1 <= n PROVE it[1..(i + 1)] = T[1..(i + 1)]
    OBVIOUS
  <2> DEFINE j == i + 1
             t == 1..j
  <2>2. j \in 1..n /\ j - 1 = i /\ it[1..i] = T[1..i]
    BY <2>1
  <2> HIDE DEF j
  <2>3. Max(t) = j /\ t \ {j} = 1..(j - 1) /\ t # {} /\ t \in SUBSET (1..n)
    BY <2>2, MaxOfPrefix
  <2> HIDE DEF t
  <2>4. it[t] = T[t]
    BY <2>2, <2>3 DEF Tabled
  <2> QED
    BY <2>4 DEF j, t
<1>3. P \in SUBSET Nat
  OBVIOUS
<1>4. P = Nat
  <2> HIDE DEF P
  <2> QED
    BY <1>1, <1>2, <1>3, AllNaturals
<1> QED
  BY <1>4

-----------------------------------------------------------------------------
(* The folds of the node components.                                       *)
CountsValue(values, c, p) ==
  CounterAdd(c, ValueOf(values, p), CategoryAdd(c.summary, ValueOf(values, p)))
CountsBoth(c, o) == CounterCombine(c, o, CategoryCombine(c.summary, o.summary))

CountsEach(values, s, it) ==
  it = [t \in SUBSET DOMAIN s |-> IF t = {} THEN EmptyCounter(EmptyBag)
                                  ELSE CountsValue(values, it[t \ {Max(t)}], s[Max(t)])]
CountsAll(bucket, s, it) ==
  it = [t \in SUBSET DOMAIN s |-> IF t = {} THEN bucket ELSE CountsBoth(it[t \ {Max(t)}], s[Max(t)])]
Counted(values, s) == (CHOOSE it : CountsEach(values, s, it))[DOMAIN s]
CountedAll(bucket, s) == (CHOOSE it : CountsAll(bucket, s, it))[DOMAIN s]

LEMMA SummaryComponentIs ==
  ASSUME NEW kind, NEW values, NEW n, NEW shown
  PROVE  SummaryComponent(kind, values, n, shown)
           = IF ~ (n.singletons \subseteq DOMAIN values) THEN Panic
             ELSE IF NodeIsLeaf(n)
                  THEN CountsValue(values, Counted(values, Singletons(n)), PointIndex(n.address))
             ELSE CountedAll(Counted(values, Singletons(n)),
                             ChildComponents(n, shown, kind, EmptyCounter(EmptyBag)))
BY DEF SummaryComponent, FoldLeft, MapThenFoldSet, CountsValue, CountsBoth, CountsEach, CountsAll,
       Counted, CountedAll

LEMMA CountedIs ==
  ASSUME NEW values, NEW S, IsFiniteSet(S)
  PROVE  Counted(values, SetToSeq(S)) = SummaryOf(values, S)
<1> DEFINE s == SetToSeq(S)
           n == Len(s)
           pieces == [i \in 1..n |-> {s[i]}]
           G(t) == Gathered({}, pieces, t)
           T == [t \in SUBSET (1..n) |-> SummaryOf(values, G(t))]
           it == CHOOSE it : CountsEach(values, s, it)
<1>1. n \in Nat /\ DOMAIN s = 1..n /\ {s[i] : i \in 1..n} = S
  BY SetToSeqLists
<1>2. \A i, j \in 1..n : i # j => s[i] # s[j]
  BY <1>1, SetToSeqOnce
<1> HIDE DEF s, n
<1>3. \A i \in 1..n : pieces[i] = {s[i]}
  OBVIOUS
<1>4. G(1..n) = S
  BY <1>1 DEF Gathered
<1> HIDE DEF pieces
<1>5. InPieces(n, {}, pieces)
  <2>1. ASSUME NEW i \in 1..n PROVE IsFiniteSet(pieces[i])
    <3>1. IsFiniteSet({s[i]})
      BY FS_Singleton
    <3> QED
      BY <1>3, <3>1
  <2>2. \A i, j \in 1..n : i # j => pieces[i] \cap pieces[j] = {}
    BY <1>2, <1>3
  <2> QED
    BY <2>1, <2>2, FS_EmptySet DEF InPieces, NothingInCommon
<1>6. ASSUME NEW t \in SUBSET (1..n)
      PROVE  /\ IsFiniteSet(G(t)) /\ (t = {} => G(t) = {})
             /\ t # {} => /\ Max(t) \in 1..n /\ t \ {Max(t)} \in SUBSET (1..n)
                          /\ G(t) = G(t \ {Max(t)}) \cup {s[Max(t)]}
                          /\ s[Max(t)] \notin G(t \ {Max(t)})
  <2>1. /\ IsFiniteSet(G(t)) /\ (t = {} => G(t) = {})
        /\ t # {} => /\ Max(t) \in 1..n /\ t \ {Max(t)} \in SUBSET (1..n)
                     /\ G(t) = G(t \ {Max(t)}) \cup pieces[Max(t)]
                     /\ NothingInCommon(G(t \ {Max(t)}), pieces[Max(t)])
    <3>1. GathersLast(n, {}, pieces, t)
      BY <1>1, <1>5, Gathers
    <3> QED
      BY <3>1 DEF GathersLast
  <2> HIDE DEF G
  <2> QED
    BY <1>3, <2>1 DEF NothingInCommon
<1> HIDE DEF G
<1>7. ASSUME NEW t \in SUBSET (1..n), t # {}
      PROVE  T[t] = CountsValue(values, T[t \ {Max(t)}], s[Max(t)])
  <2>1. IsFiniteSet(G(t \ {Max(t)})) /\ s[Max(t)] \notin G(t \ {Max(t)})
    BY <1>6, <1>7
  <2>2. T[t] = SummaryOf(values, G(t \ {Max(t)}) \cup {s[Max(t)]})
        /\ T[t \ {Max(t)}] = SummaryOf(values, G(t \ {Max(t)}))
    BY <1>6, <1>7
  <2>3. CountsValue(values, SummaryOf(values, G(t \ {Max(t)})), s[Max(t)])
          = SummaryOf(values, G(t \ {Max(t)}) \cup {s[Max(t)]})
    BY <2>1, SummaryOfMore DEF CountsValue
  <2> QED
    BY <2>2, <2>3
<1>8. T[{}] = EmptyCounter(EmptyBag) /\ T = [t \in SUBSET (1..n) |-> T[t]]
  BY <1>6, SummaryOfNone
<1>9. T[1..n] = SummaryOf(values, S)
  BY <1>4
<1> HIDE DEF T
<1>10. CountsEach(values, s, T)
  BY <1>1, <1>7, <1>8 DEF CountsEach
<1>11. CountsEach(values, s, it)
  BY <1>10
<1> HIDE DEF it
<1>12. Tabled(n, it, T)
  BY <1>1, <1>7, <1>8, <1>11 DEF CountsEach, Tabled
<1>13. it[1..n] = T[1..n]
  BY <1>1, <1>12, TableAlong
<1> QED
  BY <1>1, <1>9, <1>13 DEF Counted, it, s

LEMMA CountedAllIs ==
  ASSUME NEW values, NEW n \in Nat, NEW B, NEW pieces, InPieces(n, B, pieces),
         NEW s, s = [i \in 1..n |-> SummaryOf(values, pieces[i])]
  PROVE  CountedAll(SummaryOf(values, B), s) = SummaryOf(values, Gathered(B, pieces, 1..n))
<1> DEFINE G(t) == Gathered(B, pieces, t)
           T == [t \in SUBSET (1..n) |-> SummaryOf(values, G(t))]
           it == CHOOSE it : CountsAll(SummaryOf(values, B), s, it)
<1>1. DOMAIN s = 1..n /\ \A i \in 1..n : s[i] = SummaryOf(values, pieces[i])
  OBVIOUS
<1>2. ASSUME NEW t \in SUBSET (1..n)
      PROVE  /\ IsFiniteSet(G(t)) /\ (t = {} => G(t) = B)
             /\ t # {} => /\ Max(t) \in 1..n /\ t \ {Max(t)} \in SUBSET (1..n)
                          /\ G(t) = G(t \ {Max(t)}) \cup pieces[Max(t)]
                          /\ NothingInCommon(G(t \ {Max(t)}), pieces[Max(t)])
  <2>1. GathersLast(n, B, pieces, t)
    BY Gathers
  <2> QED
    BY <2>1 DEF GathersLast
<1> HIDE DEF G
<1>3. ASSUME NEW t \in SUBSET (1..n), t # {}
      PROVE  T[t] = CountsBoth(T[t \ {Max(t)}], s[Max(t)])
  <2> DEFINE m == Max(t)
             P == G(t \ {m})
  <2>1. m \in 1..n /\ t \ {m} \in SUBSET (1..n) /\ G(t) = P \cup pieces[m]
        /\ NothingInCommon(P, pieces[m])
    BY <1>2, <1>3
  <2>2. IsFiniteSet(P) /\ IsFiniteSet(pieces[m])
    BY <1>2, <2>1 DEF InPieces
  <2>3. T[t] = SummaryOf(values, P \cup pieces[m]) /\ T[t \ {m}] = SummaryOf(values, P)
    BY <2>1
  <2>4. s[m] = SummaryOf(values, pieces[m])
    BY <1>1, <2>1
  <2> HIDE DEF P, m, T
  <2>5. CountsBoth(SummaryOf(values, P), SummaryOf(values, pieces[m]))
          = SummaryOf(values, P \cup pieces[m])
    BY <2>1, <2>2, SummaryOfBoth DEF CountsBoth
  <2>6. T[t] = CountsBoth(T[t \ {m}], s[m])
    BY <2>3, <2>4, <2>5
  <2> QED
    BY <2>6 DEF m
<1>4. T[{}] = SummaryOf(values, B) /\ T = [t \in SUBSET (1..n) |-> T[t]]
  BY <1>2
<1>5. T[1..n] = SummaryOf(values, Gathered(B, pieces, 1..n))
  BY DEF G
<1> HIDE DEF T
<1> DEFINE base == SummaryOf(values, B)
<1> HIDE DEF base
<1>6. CountsAll(base, s, T)
  BY <1>1, <1>3, <1>4 DEF CountsAll, base
<1>7. CountsAll(base, s, it)
  BY <1>6 DEF base
<1>4a. T[{}] = base
  BY <1>4 DEF base
<1> HIDE DEF it
<1>8. Tabled(n, it, T)
  <2>1. \A t \in SUBSET (1..n) : it[t] = IF t = {} THEN base ELSE CountsBoth(it[t \ {Max(t)}], s[Max(t)])
    BY <1>1, <1>7 DEF CountsAll
  <2>2. it[{}] = base
    BY <2>1
  <2>3. ASSUME NEW t \in SUBSET (1..n), t # {}, it[t \ {Max(t)}] = T[t \ {Max(t)}]
        PROVE  it[t] = T[t]
    BY <1>3, <2>1, <2>3
  <2> QED
    BY <1>4a, <2>2, <2>3 DEF Tabled
<1>9. it[1..n] = T[1..n]
  BY <1>8, TableAlong
<1> QED
  BY <1>1, <1>5, <1>9 DEF CountedAll, it

-----------------------------------------------------------------------------
AddsPoint(position, g, p) == AddPoint(g, position[p])
AddsEach(position, s, it) ==
  it = [t \in SUBSET DOMAIN s |-> IF t = {} THEN NewGaussian
                                  ELSE AddsPoint(position, it[t \ {Max(t)}], s[Max(t)])]
MergesAll(singles, s, it) ==
  it = [t \in SUBSET DOMAIN s |-> IF t = {} THEN singles ELSE Merge(it[t \ {Max(t)}], s[Max(t)])]
Added(position, s) == (CHOOSE it : AddsEach(position, s, it))[DOMAIN s]
MergedAll(singles, s) == (CHOOSE it : MergesAll(singles, s, it))[DOMAIN s]

LEMMA GaussianComponentIs ==
  ASSUME NEW cloud, NEW n, NEW shown
  PROVE  GaussianComponent(cloud, n, shown)
           = IF NodeIsLeaf(n)
             THEN AddsPoint(cloud.position, Added(cloud.position, Singletons(n)), PointIndex(n.address))
             ELSE MergedAll(Added(cloud.position, Singletons(n)),
                            ChildComponents(n, shown, "gaussian", NewGaussian))
BY DEF GaussianComponent, FoldLeft, MapThenFoldSet, AddsPoint, AddsEach, MergesAll, Added, MergedAll

LEMMA AddedIs ==
  ASSUME NEW position, NEW S, Placed(position, S)
  PROVE  Added(position, SetToSeq(S)) = MomentsOf(position, S)
<1> DEFINE s == SetToSeq(S)
           n == Len(s)
           pieces == [i \in 1..n |-> {s[i]}]
           G(t) == Gathered({}, pieces, t)
           T == [t \in SUBSET (1..n) |-> MomentsOf(position, G(t))]
           it == CHOOSE it : AddsEach(position, s, it)
<1>0. IsFiniteSet(S) /\ \A p \in S : position[p] \in Int
  BY DEF Placed
<1>1. n \in Nat /\ DOMAIN s = 1..n /\ {s[i] : i \in 1..n} = S
  BY <1>0, SetToSeqLists
<1>2. \A i, j \in 1..n : i # j => s[i] # s[j]
  BY <1>0, <1>1, SetToSeqOnce
<1> HIDE DEF s, n
<1>3. \A i \in 1..n : pieces[i] = {s[i]}
  OBVIOUS
<1>4. G(1..n) = S /\ \A t \in SUBSET (1..n) : G(t) \subseteq S
  BY <1>1 DEF Gathered
<1> HIDE DEF pieces
<1>5. InPieces(n, {}, pieces)
  <2>1. ASSUME NEW i \in 1..n PROVE IsFiniteSet(pieces[i])
    <3>1. IsFiniteSet({s[i]})
      BY FS_Singleton
    <3> QED
      BY <1>3, <3>1
  <2>2. \A i, j \in 1..n : i # j => pieces[i] \cap pieces[j] = {}
    BY <1>2, <1>3
  <2> QED
    BY <2>1, <2>2, FS_EmptySet DEF InPieces, NothingInCommon
<1>6. ASSUME NEW t \in SUBSET (1..n)
      PROVE  /\ IsFiniteSet(G(t)) /\ (t = {} => G(t) = {})
             /\ t # {} => /\ Max(t) \in 1..n /\ t \ {Max(t)} \in SUBSET (1..n)
                          /\ G(t) = G(t \ {Max(t)}) \cup {s[Max(t)]}
                          /\ s[Max(t)] \notin G(t \ {Max(t)})
  <2>1. /\ IsFiniteSet(G(t)) /\ (t = {} => G(t) = {})
        /\ t # {} => /\ Max(t) \in 1..n /\ t \ {Max(t)} \in SUBSET (1..n)
                     /\ G(t) = G(t \ {Max(t)}) \cup pieces[Max(t)]
                     /\ NothingInCommon(G(t \ {Max(t)}), pieces[Max(t)])
    <3>1. GathersLast(n, {}, pieces, t)
      BY <1>1, <1>5, Gathers
    <3> QED
      BY <3>1 DEF GathersLast
  <2> HIDE DEF G
  <2> QED
    BY <1>3, <2>1 DEF NothingInCommon
<1> HIDE DEF G
<1>7. ASSUME NEW t \in SUBSET (1..n), t # {}
      PROVE  T[t] = AddsPoint(position, T[t \ {Max(t)}], s[Max(t)])
  <2> DEFINE m == Max(t)
             P == G(t \ {m})
  <2>1. IsFiniteSet(P) /\ s[m] \notin P /\ P \subseteq S /\ m \in 1..n
    BY <1>4, <1>6, <1>7
  <2>2. T[t] = MomentsOf(position, P \cup {s[m]}) /\ T[t \ {m}] = MomentsOf(position, P)
    BY <1>6, <1>7
  <2>3. Placed(position, P) /\ position[s[m]] \in Int
    BY <1>0, <1>1, <2>1 DEF Placed
  <2> HIDE DEF P, m, T
  <2>4. AddsPoint(position, MomentsOf(position, P), s[m]) = MomentsOf(position, P \cup {s[m]})
    BY <2>1, <2>3, MomentsOfMore DEF AddsPoint
  <2>5. T[t] = AddsPoint(position, T[t \ {m}], s[m])
    BY <2>2, <2>4
  <2> QED
    BY <2>5 DEF m
<1>8. T[{}] = NewGaussian /\ T = [t \in SUBSET (1..n) |-> T[t]]
  BY <1>6, MomentsOfNone
<1>9. T[1..n] = MomentsOf(position, S)
  BY <1>4
<1> HIDE DEF T
<1>10. AddsEach(position, s, T)
  BY <1>1, <1>7, <1>8 DEF AddsEach
<1>11. AddsEach(position, s, it)
  BY <1>10
<1> HIDE DEF it
<1>12. Tabled(n, it, T)
  BY <1>1, <1>7, <1>8, <1>11 DEF AddsEach, Tabled
<1>13. it[1..n] = T[1..n]
  BY <1>1, <1>12, TableAlong
<1> QED
  BY <1>1, <1>9, <1>13 DEF Added, it, s

LEMMA MergedAllIs ==
  ASSUME NEW position, NEW n \in Nat, NEW B, NEW pieces, InPieces(n, B, pieces),
         Placed(position, B), \A i \in 1..n : Placed(position, pieces[i]),
         NEW s, s = [i \in 1..n |-> MomentsOf(position, pieces[i])]
  PROVE  MergedAll(MomentsOf(position, B), s) = MomentsOf(position, Gathered(B, pieces, 1..n))
<1> DEFINE G(t) == Gathered(B, pieces, t)
           T == [t \in SUBSET (1..n) |-> MomentsOf(position, G(t))]
           it == CHOOSE it : MergesAll(MomentsOf(position, B), s, it)
<1>1. DOMAIN s = 1..n /\ \A i \in 1..n : s[i] = MomentsOf(position, pieces[i])
  OBVIOUS
<1>2. ASSUME NEW t \in SUBSET (1..n)
      PROVE  /\ IsFiniteSet(G(t)) /\ (t = {} => G(t) = B)
             /\ t # {} => /\ Max(t) \in 1..n /\ t \ {Max(t)} \in SUBSET (1..n)
                          /\ G(t) = G(t \ {Max(t)}) \cup pieces[Max(t)]
                          /\ NothingInCommon(G(t \ {Max(t)}), pieces[Max(t)])
  <2>1. GathersLast(n, B, pieces, t)
    BY Gathers
  <2> QED
    BY <2>1 DEF GathersLast
<1>0. ASSUME NEW t \in SUBSET (1..n) PROVE \A p \in G(t) : position[p] \in Int
  BY DEF Gathered, Placed
<1> HIDE DEF G
<1>3. ASSUME NEW t \in SUBSET (1..n), t # {}
      PROVE  T[t] = Merge(T[t \ {Max(t)}], s[Max(t)])
  <2> DEFINE m == Max(t)
             P == G(t \ {m})
  <2>1. m \in 1..n /\ t \ {m} \in SUBSET (1..n) /\ G(t) = P \cup pieces[m]
        /\ NothingInCommon(P, pieces[m])
    BY <1>2, <1>3
  <2>2. Placed(position, P) /\ Placed(position, pieces[m])
    BY <1>0, <1>2, <2>1 DEF Placed
  <2>3. T[t] = MomentsOf(position, P \cup pieces[m]) /\ T[t \ {m}] = MomentsOf(position, P)
    BY <2>1
  <2>4. s[m] = MomentsOf(position, pieces[m])
    BY <1>1, <2>1
  <2> HIDE DEF P, m, T
  <2>5. Merge(MomentsOf(position, P), MomentsOf(position, pieces[m]))
          = MomentsOf(position, P \cup pieces[m])
    BY <2>1, <2>2, MomentsOfBoth
  <2>6. T[t] = Merge(T[t \ {m}], s[m])
    BY <2>3, <2>4, <2>5
  <2> QED
    BY <2>6 DEF m
<1>4. T[{}] = MomentsOf(position, B) /\ T = [t \in SUBSET (1..n) |-> T[t]]
  BY <1>2
<1>5. T[1..n] = MomentsOf(position, Gathered(B, pieces, 1..n))
  BY DEF G
<1> HIDE DEF T
<1> DEFINE base == MomentsOf(position, B)
<1> HIDE DEF base
<1>6. MergesAll(base, s, T)
  BY <1>1, <1>3, <1>4 DEF MergesAll, base
<1>7. MergesAll(base, s, it)
  BY <1>6 DEF base
<1>4a. T[{}] = base
  BY <1>4 DEF base
<1> HIDE DEF it
<1>8. Tabled(n, it, T)
  <2>1. \A t \in SUBSET (1..n) : it[t] = IF t = {} THEN base ELSE Merge(it[t \ {Max(t)}], s[Max(t)])
    BY <1>1, <1>7 DEF MergesAll
  <2>2. it[{}] = base
    BY <2>1
  <2>3. ASSUME NEW t \in SUBSET (1..n), t # {}, it[t \ {Max(t)}] = T[t \ {Max(t)}]
        PROVE  it[t] = T[t]
    BY <1>3, <2>1, <2>3
  <2> QED
    BY <1>4a, <2>2, <2>3 DEF Tabled
<1>9. it[1..n] = T[1..n]
  BY <1>8, TableAlong
<1> QED
  BY <1>1, <1>5, <1>9 DEF MergedAll, it

-----------------------------------------------------------------------------
(* A sequence that has every point of a set once.                          *)
Enumerates(seq, P) == seq \in Seq(P) /\ ToSet(seq) = P /\ Len(seq) = Cardinality(P)

LEMMA EnumeratesSet ==
  ASSUME NEW S, IsFiniteSet(S) PROVE Enumerates(SetToSeq(S), S)
<1>1. /\ SetToSeq(S) \in Seq(S) /\ Len(SetToSeq(S)) = Cardinality(S)
      /\ {SetToSeq(S)[i] : i \in 1..Len(SetToSeq(S))} = S /\ DOMAIN SetToSeq(S) = 1..Len(SetToSeq(S))
  BY SetToSeqLists
<1> QED
  BY <1>1 DEF Enumerates, ToSet

LEMMA EnumeratesBoth ==
  ASSUME NEW P, IsFiniteSet(P), NEW Q, IsFiniteSet(Q), NothingInCommon(P, Q),
         NEW a, Enumerates(a, P), NEW b, Enumerates(b, Q)
  PROVE  Enumerates(a \o b, P \cup Q)
<1>1. a \in Seq(P) /\ b \in Seq(Q) /\ a \in Seq(P \cup Q) /\ b \in Seq(P \cup Q)
  BY DEF Enumerates
<1>2. a \o b \in Seq(P \cup Q) /\ Len(a \o b) = Len(a) + Len(b)
  BY <1>1
<1>3. ToSet(a \o b) = ToSet(a) \cup ToSet(b)
  <2>1. /\ DOMAIN a = 1..Len(a) /\ DOMAIN b = 1..Len(b) /\ DOMAIN (a \o b) = 1..(Len(a) + Len(b))
        /\ Len(a) \in Nat /\ Len(b) \in Nat
    BY <1>1, <1>2
  <2>2. \A i \in 1..Len(a) : i \in 1..(Len(a) + Len(b)) /\ (a \o b)[i] = a[i]
    BY <1>1, <2>1
  <2>3. \A i \in 1..Len(b) : i + Len(a) \in 1..(Len(a) + Len(b)) /\ (a \o b)[i + Len(a)] = b[i]
    BY <1>1, <2>1
  <2>4. \A i \in 1..(Len(a) + Len(b)) :
          i \in 1..Len(a) \/ (i - Len(a) \in 1..Len(b) /\ (i - Len(a)) + Len(a) = i)
    BY <2>1
  <2> DEFINE ab == a \o b
  <2> HIDE DEF ab
  <2>5. \A x : (\E i \in DOMAIN ab : ab[i] = x)
               <=> (\E i \in DOMAIN a : a[i] = x) \/ (\E i \in DOMAIN b : b[i] = x)
    BY <2>1, <2>2, <2>3, <2>4 DEF ab
  <2>6. ToSet(ab) = ToSet(a) \cup ToSet(b)
    BY <2>5 DEF ToSet
  <2> QED
    BY <2>6 DEF ab
<1>4. Cardinality(P \cup Q) = Cardinality(P) + Cardinality(Q)
  <2>1. Cardinality(P) \in Nat /\ Cardinality(Q) \in Nat
    BY FS_CardinalityType
  <2>2. Cardinality(P \cup Q) = Cardinality(P) + Cardinality(Q) - Cardinality(P \cap Q)
    BY FS_Union
  <2>3. Cardinality(P \cap Q) = 0
    BY FS_EmptySet DEF NothingInCommon
  <2> QED
    BY <2>1, <2>2, <2>3
<1> QED
  BY <1>2, <1>3, <1>4 DEF Enumerates

LEMMA EnumeratesMore ==
  ASSUME NEW P, IsFiniteSet(P), NEW p, p \notin P, NEW a, Enumerates(a, P)
  PROVE  Enumerates(Append(a, p), P \cup {p})
<1>1. IsFiniteSet({p}) /\ NothingInCommon(P, {p}) /\ Cardinality({p}) = 1
  BY FS_Singleton DEF NothingInCommon
<1>2. Enumerates(<<p>>, {p})
  <2>1. <<p>> \in Seq({p}) /\ Len(<<p>>) = 1 /\ DOMAIN <<p>> = {1} /\ <<p>>[1] = p
    OBVIOUS
  <2> QED
    BY <1>1, <2>1 DEF Enumerates, ToSet
<1>3. Enumerates(a \o <<p>>, P \cup {p})
  BY <1>1, <1>2, EnumeratesBoth
<1>4. a \o <<p>> = Append(a, p)
  <2>1. a \in Seq(P)
    BY DEF Enumerates
  <2> QED
    BY <2>1
<1> QED
  BY <1>3, <1>4

LEMMA EnumeratesAll ==
  ASSUME NEW n \in Nat, NEW pieces, InPieces(n, {}, pieces),
         NEW s, DOMAIN s = 1..n, s = [i \in 1..n |-> s[i]],
         \A i \in 1..n : Enumerates(s[i], pieces[i])
  PROVE  Enumerates(FlattenSeq(s), Gathered({}, pieces, 1..n))
<1> DEFINE U == Gathered({}, pieces, 1..n)
           pre(i) == [j \in 1..i |-> s[j]]
           G(i) == Gathered({}, pieces, 1..i)
           P == {i \in Nat : i <= n => Enumerates(FlattenSeq(pre(i)), G(i))}
<1>1. \A i \in 1..n : s[i] \in Seq(U)
  <2> SUFFICES ASSUME NEW i \in 1..n PROVE s[i] \in Seq(U)
    OBVIOUS
  <2>1. s[i] \in Seq(pieces[i])
    BY DEF Enumerates
  <2>2. pieces[i] \subseteq U
    BY DEF Gathered
  <2> QED
    BY <2>1, <2>2
<1> HIDE DEF U
<1>2. ASSUME NEW i \in Nat, i <= n
      PROVE  pre(i) \in Seq(Seq(U)) /\ Len(pre(i)) = i
  <2> DEFINE Z == Seq(U)
             q == pre(i)
  <2>1. \A j \in 1..i : j \in 1..n /\ s[j] \in Z
    BY <1>1, <1>2
  <2>2. q = [j \in 1..i |-> s[j]]
    OBVIOUS
  <2> HIDE DEF Z, q
  <2>3. q \in [1..i -> Z]
    BY <2>1, <2>2
  <2>4. q \in Seq(Z) /\ Len(q) = i
    BY <2>3
  <2> QED
    BY <2>4 DEF Z, q
<1>3. 0 \in P
  <2>1. pre(0) = <<>> /\ G(0) = {}
    BY DEF Gathered
  <2>2. Enumerates(<<>>, {})
    BY FS_EmptySet DEF Enumerates, ToSet
  <2> QED
    BY <2>1, <2>2, FlattenNone
<1>4. ASSUME NEW i \in P PROVE i + 1 \in P
  <2> SUFFICES ASSUME i + 1 <= n PROVE Enumerates(FlattenSeq(pre(i + 1)), G(i + 1))
    OBVIOUS
  <2> DEFINE j == i + 1
  <2>1. j \in 1..n /\ j - 1 = i /\ i \in Nat /\ i <= n /\ j \in Nat /\ j <= n
    OBVIOUS
  <2>2. Enumerates(FlattenSeq(pre(i)), G(i))
    BY <2>1
  <2>3. pre(j) = Append(pre(i), s[j])
    <3>1. pre(i) \in Seq(Seq(U)) /\ Len(pre(i)) = i
      BY <1>2, <2>1
    <3>2. Append(pre(i), s[j]) = [k \in 1..(i + 1) |-> IF k = i + 1 THEN s[j] ELSE pre(i)[k]]
      BY <3>1
    <3>3. \A k \in 1..(i + 1) : (IF k = i + 1 THEN s[j] ELSE pre(i)[k]) = s[k]
      BY <2>1
    <3> QED
      BY <3>2, <3>3
  <2>4. FlattenSeq(Append(pre(i), s[j])) = FlattenSeq(pre(i)) \o s[j]
    <3> DEFINE q == pre(i)
    <3>1. q \in Seq(Seq(U)) /\ s[j] \in Seq(U)
      BY <1>1, <1>2, <2>1
    <3> HIDE DEF q, pre, j
    <3>2. FlattenSeq(Append(q, s[j])) = FlattenSeq(q) \o s[j]
      BY <3>1, FlattenAppend
    <3> QED
      BY <3>2 DEF q
  <2>5. IsFiniteSet(G(i)) /\ IsFiniteSet(pieces[j]) /\ NothingInCommon(G(i), pieces[j]) /\ G(j) = G(i) \cup pieces[j]
    <3>1. GathersLast(n, {}, pieces, 1..j)
      <4>1. 1..j \in SUBSET (1..n)
        BY <2>1
      <4> HIDE DEF j
      <4> QED
        BY <4>1, Gathers
    <3>2. Max(1..j) = j /\ (1..j) \ {j} = 1..i /\ 1..j # {}
      <4> HIDE DEF j
      <4> QED
        BY <2>1, MaxOfPrefix
    <3>3. GathersLast(n, {}, pieces, 1..i)
      <4>1. 1..i \in SUBSET (1..n)
        BY <2>1
      <4> QED
        BY <4>1, Gathers
    <3> HIDE DEF j
    <3>4. IsFiniteSet(pieces[j])
      BY <2>1 DEF InPieces
    <3> QED
      BY <3>1, <3>2, <3>3, <3>4 DEF GathersLast
  <2> HIDE DEF G, pre, j
  <2>6. Enumerates(FlattenSeq(pre(i)) \o s[j], G(i) \cup pieces[j])
    BY <2>1, <2>2, <2>5, EnumeratesBoth
  <2>7. Enumerates(FlattenSeq(pre(j)), G(j))
    BY <2>3, <2>4, <2>5, <2>6
  <2> QED
    BY <2>7 DEF j
<1>5. P = Nat
  <2>1. P \in SUBSET Nat
    OBVIOUS
  <2> HIDE DEF P
  <2> QED
    BY <1>3, <1>4, <2>1, AllNaturals
<1>6. pre(n) = s
  OBVIOUS
<1> QED
  BY <1>5, <1>6

-----------------------------------------------------------------------------
(* The points that a node covers: the recursion down the tree has a        *)
(* solution, as many steps up from the leaves as there are layers.         *)
KidsOf(d, na) == ToSet(ChildrenOf(d.nodes[na]))
Covering(d, f) ==
  f = [na \in DOMAIN d.nodes |-> FinalPoints(d.nodes[na]) \cup UNION {f[c] : c \in KidsOf(d, na)}]

LEMMA CoveredByIs ==
  ASSUME NEW d PROVE CoveredBy(d) = CHOOSE f : Covering(d, f)
BY DEF CoveredBy, Covering, KidsOf

LEMMA CoveringExists ==
  ASSUME NEW d, WellBuilt(d) PROVE Covering(d, CoveredBy(d))
<1> DEFINE D == DOMAIN d.nodes
           own(na) == FinalPoints(d.nodes[na])
           L(na) == LayerOf(d.minRes, na)
           kids(na) == KidsOf(d, na)
           Pts == UNION {own(na) : na \in D}
           X == [D -> SUBSET Pts]
           once(f) == [na \in D |-> own(na) \cup UNION {f[c] : c \in kids(na)}]
           g == [nf \in Nat \X X |-> once(nf[2])]
           f0 == [na \in D |-> own(na)]
<1>1. \A na \in D : /\ kids(na) \subseteq D /\ \A c \in kids(na) : L(c) < L(na)
                    /\ L(na) \in 1..Top(d)
  BY ChildrenOfTree, NodesOfLayer DEF KidsOf
<1>2. Top(d) \in Nat
  BY NodesOfLayer
<1>3. \A na \in D : own(na) \subseteq Pts
  OBVIOUS
<1>4. f0 \in X
  BY <1>3
<1> HIDE DEF own, kids, L, Pts
<1>5. ASSUME NEW k \in Nat, NEW f \in X PROVE g[<<k, f>>] = once(f) /\ once(f) \in X
  <2>1. \A na \in D : own(na) \cup UNION {f[c] : c \in kids(na)} \subseteq Pts
    BY <1>1, <1>3
  <2> QED
    BY <2>1
<1>6. PICK h : Recursion(h, X, f0, g)
  <2>1. \A k \in Nat, f \in X : g[<<k, f>>] \in X
    BY <1>5
  <2> HIDE DEF X, f0, g
  <2> QED
    BY <1>4, <2>1, RecursionExists
<1>7. h \in [Nat -> X] /\ \A k \in Nat : h[k + 1] = once(h[k])
  <2>1. h \in [Nat -> X] /\ \A k \in Nat : h[k + 1] = g[<<k, h[k]>>]
    BY <1>6 DEF Recursion
  <2> HIDE DEF g, once, X
  <2>2. ASSUME NEW k \in Nat PROVE h[k + 1] = once(h[k])
    <3>1. h[k] \in X
      BY <2>1
    <3> QED
      BY <1>5, <2>1, <3>1
  <2> QED
    BY <2>1, <2>2
<1> DEFINE P == {k \in Nat : \A m \in Nat : m >= k => \A na \in D : L(na) <= k => h[m + 1][na] = h[m][na]}
<1>8. 0 \in P
  BY <1>1, <1>2
<1>9. ASSUME NEW k \in P PROVE k + 1 \in P
  <2> SUFFICES ASSUME NEW m \in Nat, m >= k + 1, NEW na \in D, L(na) <= k + 1
               PROVE  h[m + 1][na] = h[m][na]
    OBVIOUS
  <2> DEFINE j == m - 1
  <2>1. j \in Nat /\ j + 1 = m /\ j >= k /\ k \in Nat
    OBVIOUS
  <2>2. ASSUME NEW c \in kids(na) PROVE h[m][c] = h[j][c]
    <3>1. c \in D /\ L(c) \in Nat /\ L(na) \in Nat /\ L(c) < L(na)
      BY <1>1, <1>2
    <3>2. L(c) <= k
      BY <2>1, <3>1
    <3> HIDE DEF j
    <3>3. h[j + 1][c] = h[j][c]
      BY <2>1, <3>1, <3>2
    <3> QED
      BY <2>1, <3>3
  <2> HIDE DEF j
  <2>3. {h[m][c] : c \in kids(na)} = {h[j][c] : c \in kids(na)}
    BY <2>2
  <2>4. h[m + 1] = once(h[m]) /\ h[m] = once(h[j])
    BY <1>7, <2>1
  <2>5. once(h[m])[na] = own(na) \cup UNION {h[m][c] : c \in kids(na)}
        /\ once(h[j])[na] = own(na) \cup UNION {h[j][c] : c \in kids(na)}
    OBVIOUS
  <2> HIDE DEF once
  <2> QED
    BY <2>3, <2>4, <2>5
<1>10. P = Nat
  <2>1. P \in SUBSET Nat
    OBVIOUS
  <2> HIDE DEF P
  <2> QED
    BY <1>8, <1>9, <2>1, AllNaturals
<1> DEFINE f == h[Top(d)]
<1>11. once(f) = f
  <2>1. f \in X /\ once(f) \in X /\ h[Top(d) + 1] = once(f)
    BY <1>2, <1>5, <1>7
  <2>2. \A na \in D : once(f)[na] = f[na]
    <3>1. \A na \in D : L(na) <= Top(d)
      BY <1>1, <1>2
    <3>2. \A na \in D : h[Top(d) + 1][na] = h[Top(d)][na]
      BY <1>2, <1>10, <3>1
    <3> HIDE DEF once
    <3> QED
      BY <2>1, <3>2
  <2> HIDE DEF f, once
  <2> QED
    BY <2>1, <2>2
<1>12. Covering(d, f)
  BY <1>11 DEF Covering, own, kids
<1> HIDE DEF f
<1> QED
  BY <1>12, CoveredByIs

LEMMA CoveredIs ==
  ASSUME NEW d, WellBuilt(d), NEW na \in DOMAIN d.nodes
  PROVE  CoveredBy(d)[na] = FinalPoints(d.nodes[na]) \cup UNION {CoveredBy(d)[c] : c \in KidsOf(d, na)}
BY CoveringExists DEF Covering

-----------------------------------------------------------------------------
(* What the plugins make of a node whose children show the component.      *)
KidList(d, na) == ChildrenOf(d.nodes[na])
Pieces(d, na) == [i \in 1..Len(KidList(d, na)) |-> CoveredBy(d)[KidList(d, na)[i]]]
OwnPoints(d, na) == FinalPoints(d.nodes[na])
Sound(d) == WellBuilt(d) /\ WellCounted(d)

LEMMA NodePieces ==
  ASSUME NEW d, Sound(d), NEW na \in DOMAIN d.nodes
  PROVE  /\ Len(KidList(d, na)) \in Nat /\ DOMAIN KidList(d, na) = 1..Len(KidList(d, na))
         /\ KidsOf(d, na) = {KidList(d, na)[i] : i \in 1..Len(KidList(d, na))}
         /\ KidsOf(d, na) \subseteq DOMAIN d.nodes
         /\ InPieces(Len(KidList(d, na)), OwnPoints(d, na), Pieces(d, na))
         /\ Gathered(OwnPoints(d, na), Pieces(d, na), 1..Len(KidList(d, na))) = CoveredBy(d)[na]
         /\ NodeIsLeaf(d.nodes[na]) => CoveredBy(d)[na] = OwnPoints(d, na)
         /\ Placed(d.cloud.position, CoveredBy(d)[na])
         /\ d.nodes[na].count = Cardinality(CoveredBy(d)[na])
<1> DEFINE n == d.nodes[na]
           kids == KidList(d, na)
           cov == CoveredBy(d)
<1>1. kids \in Seq(DOMAIN d.nodes)
  <2>1. d.nodes[na].children = Leaf \/ d.nodes[na].children \in Seq(DOMAIN d.nodes)
    BY DEF Sound, WellBuilt
  <2>2. <<>> \in Seq(DOMAIN d.nodes)
    OBVIOUS
  <2> QED
    BY <2>1, <2>2 DEF KidList, ChildrenOf, NodeIsLeaf
<1>2. Len(kids) \in Nat /\ DOMAIN kids = 1..Len(kids) /\ \A i \in 1..Len(kids) : kids[i] \in DOMAIN d.nodes
  BY <1>1
<1>3. KidsOf(d, na) = {kids[i] : i \in 1..Len(kids)}
  BY <1>2 DEF KidsOf, KidList, ToSet
<1>4. /\ IsFiniteSet(cov[na]) /\ n.count = Cardinality(cov[na])
      /\ \A i \in DOMAIN kids : FinalPoints(n) \cap cov[kids[i]] = {}
      /\ \A i, j \in DOMAIN kids : i # j => cov[kids[i]] \cap cov[kids[j]] = {}
      /\ \A p \in cov[na] : d.cloud.position[p] \in Int
  BY DEF Sound, WellCounted, KidList
<1>5. \A c \in DOMAIN d.nodes : IsFiniteSet(cov[c])
  BY DEF Sound, WellCounted
<1>6. cov[na] = FinalPoints(n) \cup UNION {cov[c] : c \in KidsOf(d, na)}
  BY CoveredIs DEF Sound
<1> HIDE DEF n, kids, cov
<1>7. IsFiniteSet(FinalPoints(n))
  BY <1>4, <1>6, FS_Subset
<1> DEFINE pieces == [i \in 1..Len(kids) |-> cov[kids[i]]]
<1>8. InPieces(Len(kids), FinalPoints(n), pieces)
  BY <1>2, <1>4, <1>5, <1>7 DEF InPieces, NothingInCommon
<1>9. Gathered(FinalPoints(n), pieces, 1..Len(kids)) = cov[na]
  BY <1>3, <1>6 DEF Gathered
<1>10. NodeIsLeaf(n) => cov[na] = FinalPoints(n)
  <2>1. NodeIsLeaf(n) => kids = <<>>
    BY DEF kids, n, KidList, ChildrenOf
  <2>2. NodeIsLeaf(n) => KidsOf(d, na) = {}
    BY <1>3, <2>1
  <2> QED
    BY <1>6, <2>2
<1>11. pieces = Pieces(d, na)
  BY DEF Pieces, kids, cov
<1> HIDE DEF pieces
<1> QED
  BY <1>2, <1>3, <1>4, <1>8, <1>9, <1>10, <1>11 DEF OwnPoints, n, kids, cov, Placed

SameNode(m, n) == m.address = n.address /\ m.children = n.children /\ m.singletons = n.singletons
AllShow(shown, kind, d, na) ==
  \A c \in KidsOf(d, na) :
    /\ c \in DOMAIN shown /\ shown[c].count = d.nodes[c].count
    /\ kind \in DOMAIN shown[c].plugins
    /\ Describes(shown[c].plugins[kind], kind, d, d.nodes[c])

LEMMA SameNodeIs ==
  ASSUME NEW d, Sound(d), NEW na \in DOMAIN d.nodes, NEW m, SameNode(m, d.nodes[na])
  PROVE  /\ m.address = na /\ NodeIsLeaf(m) = NodeIsLeaf(d.nodes[na]) /\ ChildrenOf(m) = KidList(d, na)
         /\ Singletons(m) = SetToSeq(m.singletons) /\ IsFiniteSet(m.singletons)
         /\ NodeIsLeaf(m) => /\ OwnPoints(d, na) = m.singletons \cup {PointIndex(na)}
                             /\ PointIndex(na) \notin m.singletons
         /\ ~NodeIsLeaf(m) => OwnPoints(d, na) = m.singletons
<1>1. d.nodes[na].address = na
  BY NodesOfTree DEF Sound
<1>2. NodeIsLeaf(d.nodes[na]) => PointIndex(na) \notin d.nodes[na].singletons
  BY DEF Sound, WellCounted
<1>3. IsFiniteSet(OwnPoints(d, na))
  BY NodePieces DEF InPieces
<1>4. m.singletons \in SUBSET OwnPoints(d, na)
  BY DEF OwnPoints, FinalPoints, SameNode
<1>5. IsFiniteSet(m.singletons)
  BY <1>3, <1>4, FS_Subset
<1> QED
  BY <1>1, <1>2, <1>5 DEF SameNode, NodeIsLeaf, ChildrenOf, KidList, Singletons, OwnPoints, FinalPoints

LEMMA ChildComponentsAre ==
  ASSUME NEW d, Sound(d), NEW na \in DOMAIN d.nodes, NEW m, SameNode(m, d.nodes[na]),
         NEW shown, NEW kind, AllShow(shown, kind, d, na), NEW nothing
  PROVE  ChildComponents(m, shown, kind, nothing)
           = [i \in 1..Len(KidList(d, na)) |-> shown[KidList(d, na)[i]].plugins[kind]]
<1> DEFINE kids == KidList(d, na)
<1>1. ChildrenOf(m) = kids /\ DOMAIN kids = 1..Len(kids)
      /\ KidsOf(d, na) = {kids[i] : i \in 1..Len(kids)}
  BY SameNodeIs, NodePieces
<1> HIDE DEF kids
<1>2. \A i \in 1..Len(kids) : kids[i] \in DOMAIN shown /\ kind \in DOMAIN shown[kids[i]].plugins
  BY <1>1 DEF AllShow
<1>3. ChildComponents(m, shown, kind, nothing) = [i \in 1..Len(kids) |-> shown[kids[i]].plugins[kind]]
  BY <1>1, <1>2 DEF ChildComponents
<1> QED
  BY <1>3 DEF kids

SummariesShow(shown, kind, values, d, na) ==
  \A c \in KidsOf(d, na) : shown[c].plugins[kind] = SummaryOf(values, CoveredBy(d)[c])

LEMMA SummaryFits ==
  ASSUME NEW d, Sound(d), NEW na \in DOMAIN d.nodes, NEW m, SameNode(m, d.nodes[na]),
         NEW shown, NEW kind, NEW values,
         AllShow(shown, kind, d, na), SummariesShow(shown, kind, values, d, na),
         SummaryComponent(kind, values, m, shown) # Panic
  PROVE  SummaryComponent(kind, values, m, shown) = SummaryOf(values, CoveredBy(d)[na])
<1> DEFINE kids == KidList(d, na)
           s == ChildComponents(m, shown, kind, EmptyCounter(EmptyBag))
           S == m.singletons
<1>1. /\ m.address = na /\ NodeIsLeaf(m) = NodeIsLeaf(d.nodes[na])
      /\ Singletons(m) = SetToSeq(S) /\ IsFiniteSet(S)
      /\ NodeIsLeaf(m) => OwnPoints(d, na) = S \cup {PointIndex(na)} /\ PointIndex(na) \notin S
      /\ ~NodeIsLeaf(m) => OwnPoints(d, na) = S
  BY SameNodeIs
<1>2. /\ Len(kids) \in Nat /\ KidsOf(d, na) = {kids[i] : i \in 1..Len(kids)}
      /\ InPieces(Len(kids), OwnPoints(d, na), Pieces(d, na))
      /\ Gathered(OwnPoints(d, na), Pieces(d, na), 1..Len(kids)) = CoveredBy(d)[na]
      /\ NodeIsLeaf(d.nodes[na]) => CoveredBy(d)[na] = OwnPoints(d, na)
  BY NodePieces
<1>3. s = [i \in 1..Len(kids) |-> shown[kids[i]].plugins[kind]]
  BY ChildComponentsAre
<1>4. s = [i \in 1..Len(kids) |-> SummaryOf(values, Pieces(d, na)[i])]
  <2>1. ASSUME NEW i \in 1..Len(kids)
        PROVE  shown[kids[i]].plugins[kind] = SummaryOf(values, Pieces(d, na)[i])
    <3>1. kids[i] \in KidsOf(d, na)
      BY <1>2
    <3>2. Pieces(d, na)[i] = CoveredBy(d)[kids[i]]
      BY DEF Pieces
    <3> QED
      BY <3>1, <3>2 DEF SummariesShow
  <2> HIDE DEF kids, s
  <2> QED
    BY <1>3, <2>1
<1>5. SummaryComponent(kind, values, m, shown)
        = IF NodeIsLeaf(m) THEN CountsValue(values, Counted(values, Singletons(m)), PointIndex(na))
          ELSE CountedAll(Counted(values, Singletons(m)), s)
  BY <1>1, SummaryComponentIs
<1> HIDE DEF kids, s, S
<1>6. Counted(values, Singletons(m)) = SummaryOf(values, S)
  <2>1. Counted(values, SetToSeq(S)) = SummaryOf(values, S)
    BY <1>1, CountedIs
  <2> QED
    BY <1>1, <2>1
<1>7. CASE NodeIsLeaf(m)
  <2>1. CountsValue(values, SummaryOf(values, S), PointIndex(na)) = SummaryOf(values, S \cup {PointIndex(na)})
    BY <1>1, <1>7, SummaryOfMore DEF CountsValue
  <2> QED
    BY <1>1, <1>2, <1>5, <1>6, <1>7, <2>1
<1>8. CASE ~NodeIsLeaf(m)
  <2>1. CountedAll(SummaryOf(values, S), s) = SummaryOf(values, Gathered(S, Pieces(d, na), 1..Len(kids)))
    <3>1. InPieces(Len(kids), S, Pieces(d, na))
      BY <1>1, <1>2, <1>8
    <3> QED
      BY <1>2, <1>4, <3>1, CountedAllIs
  <2> QED
    BY <1>1, <1>2, <1>5, <1>6, <1>8, <2>1
<1> QED
  BY <1>7, <1>8

LEMMA GaussianFits ==
  ASSUME NEW d, Sound(d), NEW na \in DOMAIN d.nodes, NEW m, SameNode(m, d.nodes[na]),
         NEW shown, AllShow(shown, "gaussian", d, na),
         \A c \in KidsOf(d, na) :
           shown[c].plugins["gaussian"] = MomentsOf(d.cloud.position, CoveredBy(d)[c])
  PROVE  GaussianComponent(d.cloud, m, shown) = MomentsOf(d.cloud.position, CoveredBy(d)[na])
<1> DEFINE kids == KidList(d, na)
           s == ChildComponents(m, shown, "gaussian", NewGaussian)
           S == m.singletons
           position == d.cloud.position
           pieces == Pieces(d, na)
           cov == CoveredBy(d)
<1>1. /\ m.address = na /\ NodeIsLeaf(m) = NodeIsLeaf(d.nodes[na])
      /\ Singletons(m) = SetToSeq(S) /\ IsFiniteSet(S)
      /\ NodeIsLeaf(m) => OwnPoints(d, na) = S \cup {PointIndex(na)} /\ PointIndex(na) \notin S
      /\ ~NodeIsLeaf(m) => OwnPoints(d, na) = S
  BY SameNodeIs
<1>2. /\ Len(kids) \in Nat /\ KidsOf(d, na) = {kids[i] : i \in 1..Len(kids)}
      /\ KidsOf(d, na) \subseteq DOMAIN d.nodes
      /\ InPieces(Len(kids), OwnPoints(d, na), pieces)
      /\ Gathered(OwnPoints(d, na), pieces, 1..Len(kids)) = cov[na]
      /\ NodeIsLeaf(d.nodes[na]) => cov[na] = OwnPoints(d, na)
  BY NodePieces
<1>3. \A a \in DOMAIN d.nodes : Placed(position, cov[a])
  BY NodePieces
<1>4. s = [i \in 1..Len(kids) |-> shown[kids[i]].plugins["gaussian"]]
  BY ChildComponentsAre
<1>5. \A i \in 1..Len(kids) : kids[i] \in KidsOf(d, na) /\ pieces[i] = cov[kids[i]]
  BY <1>2 DEF Pieces
<1>6. GaussianComponent(d.cloud, m, shown)
        = IF NodeIsLeaf(m) THEN AddsPoint(position, Added(position, Singletons(m)), PointIndex(na))
          ELSE MergedAll(Added(position, Singletons(m)), s)
  BY <1>1, GaussianComponentIs
<1>7. \A c \in KidsOf(d, na) : shown[c].plugins["gaussian"] = MomentsOf(position, cov[c])
  OBVIOUS
<1> HIDE DEF kids, s, S, position, pieces, cov
<1>8. s = [i \in 1..Len(kids) |-> MomentsOf(position, pieces[i])]
  BY <1>4, <1>5, <1>7
<1>9. \A i \in 1..Len(kids) : Placed(position, pieces[i])
  BY <1>2, <1>3, <1>5
<1>10. OwnPoints(d, na) \subseteq cov[na]
  BY <1>2 DEF Gathered
<1>11. Placed(position, S) /\ (NodeIsLeaf(m) => position[PointIndex(na)] \in Int)
  <2>1. Placed(position, cov[na])
    BY <1>3
  <2> QED
    BY <1>1, <1>10, <2>1 DEF Placed
<1>12. Added(position, Singletons(m)) = MomentsOf(position, S)
  <2>1. Added(position, SetToSeq(S)) = MomentsOf(position, S)
    BY <1>11, AddedIs
  <2> QED
    BY <1>1, <2>1
<1>13. CASE NodeIsLeaf(m)
  <2>1. AddPoint(MomentsOf(position, S), position[PointIndex(na)]) = MomentsOf(position, S \cup {PointIndex(na)})
    BY <1>1, <1>11, <1>13, MomentsOfMore
  <2> QED
    BY <1>1, <1>2, <1>6, <1>12, <1>13, <2>1 DEF AddsPoint, cov, position
<1>14. CASE ~NodeIsLeaf(m)
  <2>1. InPieces(Len(kids), S, pieces)
    BY <1>1, <1>2, <1>14
  <2>2. MergedAll(MomentsOf(position, S), s) = MomentsOf(position, Gathered(S, pieces, 1..Len(kids)))
    BY <1>2, <1>8, <1>9, <1>11, <2>1, MergedAllIs
  <2> QED
    BY <1>1, <1>2, <1>6, <1>12, <1>14, <2>2 DEF cov, position
<1> QED
  BY <1>13, <1>14

LEMMA CoverageFits ==
  ASSUME NEW d, Sound(d), NEW na \in DOMAIN d.nodes, NEW m, SameNode(m, d.nodes[na]),
         NEW shown, AllShow(shown, "coverage", d, na),
         \A c \in KidsOf(d, na) : Enumerates(shown[c].plugins["coverage"], CoveredBy(d)[c])
  PROVE  Enumerates(CoverageComponent(m, shown), CoveredBy(d)[na])
<1> DEFINE kids == KidList(d, na)
           s == ChildComponents(m, shown, "coverage", <<>>)
           S == m.singletons
           pieces == Pieces(d, na)
           cov == CoveredBy(d)
<1>1. /\ m.address = na /\ NodeIsLeaf(m) = NodeIsLeaf(d.nodes[na])
      /\ Singletons(m) = SetToSeq(S) /\ IsFiniteSet(S)
      /\ NodeIsLeaf(m) => OwnPoints(d, na) = S \cup {PointIndex(na)} /\ PointIndex(na) \notin S
      /\ ~NodeIsLeaf(m) => OwnPoints(d, na) = S
  BY SameNodeIs
<1>2. /\ Len(kids) \in Nat /\ KidsOf(d, na) = {kids[i] : i \in 1..Len(kids)}
      /\ InPieces(Len(kids), OwnPoints(d, na), pieces)
      /\ Gathered(OwnPoints(d, na), pieces, 1..Len(kids)) = cov[na]
      /\ NodeIsLeaf(d.nodes[na]) => cov[na] = OwnPoints(d, na)
  BY NodePieces
<1>3. s = [i \in 1..Len(kids) |-> shown[kids[i]].plugins["coverage"]]
  BY ChildComponentsAre
<1>4. \A i \in 1..Len(kids) : kids[i] \in KidsOf(d, na) /\ pieces[i] = cov[kids[i]]
  BY <1>2 DEF Pieces
<1>5. CoverageComponent(m, shown)
        = IF NodeIsLeaf(m) THEN Append(SetToSeq(S), PointIndex(na)) ELSE SetToSeq(S) \o FlattenSeq(s)
  BY <1>1 DEF CoverageComponent
<1>6. \A c \in KidsOf(d, na) : Enumerates(shown[c].plugins["coverage"], cov[c])
  OBVIOUS
<1> HIDE DEF kids, s, S, pieces, cov
<1>7. Enumerates(SetToSeq(S), S)
  BY <1>1, EnumeratesSet
<1>8. CASE NodeIsLeaf(m)
  <2>1. Enumerates(Append(SetToSeq(S), PointIndex(na)), S \cup {PointIndex(na)})
    BY <1>1, <1>7, <1>8, EnumeratesMore
  <2> QED
    BY <1>1, <1>2, <1>5, <1>8, <2>1 DEF cov
<1>9. CASE ~NodeIsLeaf(m)
  <2> DEFINE G == Gathered({}, pieces, 1..Len(kids))
  <2>1. \A i \in 1..Len(kids) : Enumerates(s[i], pieces[i])
    BY <1>3, <1>4, <1>6
  <2>2. InPieces(Len(kids), S, pieces)
    BY <1>1, <1>2, <1>9
  <2>3. InPieces(Len(kids), {}, pieces)
    BY <2>2, FS_EmptySet DEF InPieces, NothingInCommon
  <2>4. DOMAIN s = 1..Len(kids) /\ s = [i \in 1..Len(kids) |-> s[i]]
    BY <1>3
  <2>5. Enumerates(FlattenSeq(s), G)
    BY <1>2, <2>1, <2>3, <2>4, EnumeratesAll
  <2>6. Gathered(S, pieces, 1..Len(kids)) = S \cup G
    BY DEF Gathered
  <2>7. NothingInCommon(S, G)
    BY <2>2 DEF Gathered, InPieces, NothingInCommon
  <2>8. IsFiniteSet(G)
    <3>1. 1..Len(kids) \in SUBSET (1..Len(kids))
      OBVIOUS
    <3>2. GathersLast(Len(kids), {}, pieces, 1..Len(kids))
      BY <1>2, <2>3, <3>1, Gathers
    <3> QED
      BY <3>2 DEF GathersLast
  <2> HIDE DEF G
  <2>9. Enumerates(SetToSeq(S) \o FlattenSeq(s), S \cup G)
    BY <1>1, <1>7, <2>5, <2>7, <2>8, EnumeratesBoth
  <2>10. S \cup G = cov[na]
    BY <1>1, <1>2, <1>9, <2>6
  <2> QED
    BY <1>5, <1>9, <2>9, <2>10 DEF cov
<1> QED
  BY <1>8, <1>9

Branches(d, na) == {SINGLETON} \cup KidsOf(d, na)
WeightOf(d, na, b) ==
  IF b = SINGLETON THEN Cardinality(d.nodes[na].singletons) ELSE Cardinality(CoveredBy(d)[b])

LEMMA DescribesIs ==
  ASSUME NEW d, Sound(d), NEW na \in DOMAIN d.nodes, NEW component
  PROVE  LET says(kind) == Describes(component, kind, d, d.nodes[na])
             points == CoveredBy(d)[na]
         IN /\ says("labels") <=> component = SummaryOf(d.cloud.labels, points)
            /\ says("meta") <=> component = SummaryOf(d.cloud.metadata, points)
            /\ says("coverage") <=> Enumerates(component, points)
            /\ says("dirichlet") <=> component = [b \in Branches(d, na) |-> WeightOf(d, na, b) + 1]
            /\ says("categorical") <=>
                 component = [b \in Branches(d, na) |->
                   WeightOf(d, na, b) + (IF b = SINGLETON /\ NodeIsLeaf(d.nodes[na]) THEN 1 ELSE 0)]
            /\ says("gaussian") <=> component = MomentsOf(d.cloud.position, points)
<1>1. d.nodes[na].address = na
  BY NodesOfTree DEF Sound
<1>2. Describes(component, "labels", d, d.nodes[na])
        <=> component = SummaryOf(d.cloud.labels, CoveredBy(d)[na])
  BY <1>1 DEF Describes
<1>3. Describes(component, "meta", d, d.nodes[na])
        <=> component = SummaryOf(d.cloud.metadata, CoveredBy(d)[na])
  BY <1>1 DEF Describes
<1>4. Describes(component, "coverage", d, d.nodes[na]) <=> Enumerates(component, CoveredBy(d)[na])
  BY <1>1 DEF Describes, Enumerates
<1>5. Describes(component, "dirichlet", d, d.nodes[na])
        <=> component = [b \in Branches(d, na) |-> WeightOf(d, na, b) + 1]
  BY <1>1 DEF Describes, Branches, WeightOf, KidsOf
<1>6. Describes(component, "categorical", d, d.nodes[na])
        <=> component = [b \in Branches(d, na) |->
              WeightOf(d, na, b) + (IF b = SINGLETON /\ NodeIsLeaf(d.nodes[na]) THEN 1 ELSE 0)]
  BY <1>1 DEF Describes, Branches, WeightOf, KidsOf
<1>7. Describes(component, "gaussian", d, d.nodes[na])
        <=> component = MomentsOf(d.cloud.position, CoveredBy(d)[na])
  BY <1>1 DEF Describes
<1> QED
  BY <1>2, <1>3, <1>4, <1>5, <1>6, <1>7

LEMMA WeightsFit ==
  ASSUME NEW d, Sound(d), NEW na \in DOMAIN d.nodes, NEW m, SameNode(m, d.nodes[na]),
         NEW shown, NEW kind, AllShow(shown, kind, d, na)
  PROVE  /\ DirichletComponent(m, shown) = [b \in Branches(d, na) |-> WeightOf(d, na, b) + 1]
         /\ CategoricalComponent(m, shown)
              = [b \in Branches(d, na) |->
                   WeightOf(d, na, b) + (IF b = SINGLETON /\ NodeIsLeaf(d.nodes[na]) THEN 1 ELSE 0)]
<1> DEFINE kids == KidsOf(d, na)
<1>1. ToSet(ChildrenOf(m)) = kids /\ NodeIsLeaf(m) = NodeIsLeaf(d.nodes[na])
      /\ m.singletons = d.nodes[na].singletons
  BY SameNodeIs DEF SameNode, KidsOf, KidList
<1>2. \A b \in kids : /\ b \in DOMAIN shown /\ shown[b].count = Cardinality(CoveredBy(d)[b])
                      /\ shown[b].count \in Nat
  <2> SUFFICES ASSUME NEW b \in kids
               PROVE  b \in DOMAIN shown /\ shown[b].count = Cardinality(CoveredBy(d)[b])
                      /\ shown[b].count \in Nat
    OBVIOUS
  <2>1. b \in DOMAIN shown /\ shown[b].count = d.nodes[b].count
    BY DEF AllShow
  <2>2. b \in DOMAIN d.nodes
    BY NodePieces
  <2>3. d.nodes[b].count = Cardinality(CoveredBy(d)[b])
    BY <2>2, NodePieces
  <2>4. d.nodes[b].count \in Nat
    BY <2>2 DEF Sound, WellBuilt
  <2> QED
    BY <2>1, <2>3, <2>4
<1>3. Branches(d, na) = {SINGLETON} \cup kids
  BY DEF Branches
<1> HIDE DEF kids
<1>4. \A b \in Branches(d, na) :
        WeightOf(d, na, b) = IF b = SINGLETON THEN Cardinality(m.singletons) ELSE shown[b].count
  BY <1>1, <1>2, <1>3 DEF WeightOf
<1>5. DirichletComponent(m, shown) = [b \in Branches(d, na) |-> WeightOf(d, na, b) + 1]
  <2>1. DirichletComponent(m, shown)
          = [b \in Branches(d, na) |->
               IF b = SINGLETON THEN Cardinality(m.singletons) + 1 ELSE shown[b].count + 1]
    BY <1>1, <1>2, <1>3 DEF DirichletComponent
  <2> QED
    BY <1>4, <2>1
<1>6. CategoricalComponent(m, shown)
        = [b \in Branches(d, na) |->
             WeightOf(d, na, b) + (IF b = SINGLETON /\ NodeIsLeaf(d.nodes[na]) THEN 1 ELSE 0)]
  <2>1. {SINGLETON} \cup (kids \cap DOMAIN shown) = Branches(d, na)
    BY <1>2, <1>3
  <2>2. CategoricalComponent(m, shown)
          = [b \in Branches(d, na) |->
               IF b = SINGLETON THEN Cardinality(m.singletons) + (IF NodeIsLeaf(m) THEN 1 ELSE 0)
               ELSE shown[b].count]
    BY <1>1, <2>1 DEF CategoricalComponent
  <2>3. \A b \in Branches(d, na) :
          (IF b = SINGLETON THEN Cardinality(m.singletons) + (IF NodeIsLeaf(m) THEN 1 ELSE 0)
           ELSE shown[b].count)
            = WeightOf(d, na, b) + (IF b = SINGLETON /\ NodeIsLeaf(d.nodes[na]) THEN 1 ELSE 0)
    BY <1>1, <1>2, <1>3, <1>4
  <2> QED
    BY <2>2, <2>3
<1> QED
  BY <1>5, <1>6

LEMMA NodeComponentFits ==
  ASSUME NEW d, Sound(d), NEW na \in DOMAIN d.nodes, NEW m, SameNode(m, d.nodes[na]),
         NEW shown, NEW kind \in Kinds, AllShow(shown, kind, d, na),
         NodeComponent(kind, d.cloud, m, shown) # Panic
  PROVE  Describes(NodeComponent(kind, d.cloud, m, shown), kind, d, d.nodes[na])
<1> DEFINE component == NodeComponent(kind, d.cloud, m, shown)
           shows(c) == shown[c].plugins[kind]
<1>1. \A c \in KidsOf(d, na) : c \in DOMAIN d.nodes /\ Describes(shows(c), kind, d, d.nodes[c])
  BY NodePieces DEF AllShow
<1> HIDE DEF shows
<1>2. CASE kind = "labels"
  <2>1. component = SummaryComponent(kind, d.cloud.labels, m, shown)
    BY <1>2 DEF NodeComponent
  <2>2. \A c \in KidsOf(d, na) : shows(c) = SummaryOf(d.cloud.labels, CoveredBy(d)[c])
    BY <1>1, <1>2, DescribesIs
  <2>3. SummariesShow(shown, kind, d.cloud.labels, d, na)
    BY <2>2 DEF SummariesShow, shows
  <2>4. SummaryComponent(kind, d.cloud.labels, m, shown) # Panic
    BY <2>1
  <2> HIDE DEF component
  <2>5. component = SummaryOf(d.cloud.labels, CoveredBy(d)[na])
    BY <2>1, <2>3, <2>4, SummaryFits
  <2>6. Describes(component, kind, d, d.nodes[na])
    BY <1>2, <2>5, DescribesIs
  <2> QED
    BY <2>6 DEF component
<1>3. CASE kind = "meta"
  <2>1. component = SummaryComponent(kind, d.cloud.metadata, m, shown)
    BY <1>3 DEF NodeComponent
  <2>2. \A c \in KidsOf(d, na) : shows(c) = SummaryOf(d.cloud.metadata, CoveredBy(d)[c])
    BY <1>1, <1>3, DescribesIs
  <2>3. SummariesShow(shown, kind, d.cloud.metadata, d, na)
    BY <2>2 DEF SummariesShow, shows
  <2>4. SummaryComponent(kind, d.cloud.metadata, m, shown) # Panic
    BY <2>1
  <2> HIDE DEF component
  <2>5. component = SummaryOf(d.cloud.metadata, CoveredBy(d)[na])
    BY <2>1, <2>3, <2>4, SummaryFits
  <2>6. Describes(component, kind, d, d.nodes[na])
    BY <1>3, <2>5, DescribesIs
  <2> QED
    BY <2>6 DEF component
<1>4. CASE kind = "coverage"
  <2>1. component = CoverageComponent(m, shown)
    BY <1>4 DEF NodeComponent
  <2>2. \A c \in KidsOf(d, na) : Enumerates(shown[c].plugins["coverage"], CoveredBy(d)[c])
    BY <1>1, <1>4, DescribesIs DEF shows
  <2>3. AllShow(shown, "coverage", d, na)
    BY <1>4
  <2> HIDE DEF component
  <2>4. Enumerates(component, CoveredBy(d)[na])
    BY <2>1, <2>2, <2>3, CoverageFits
  <2>5. Describes(component, kind, d, d.nodes[na])
    BY <1>4, <2>4, DescribesIs
  <2> QED
    BY <2>5 DEF component
<1>5. CASE kind = "dirichlet"
  <2>1. component = DirichletComponent(m, shown)
    BY <1>5 DEF NodeComponent
  <2> HIDE DEF component
  <2>2. component = [b \in Branches(d, na) |-> WeightOf(d, na, b) + 1]
    BY <2>1, WeightsFit
  <2>3. Describes(component, kind, d, d.nodes[na])
    BY <1>5, <2>2, DescribesIs
  <2> QED
    BY <2>3 DEF component
<1>6. CASE kind = "categorical"
  <2>1. component = CategoricalComponent(m, shown)
    BY <1>6 DEF NodeComponent
  <2> HIDE DEF component
  <2>2. component = [b \in Branches(d, na) |->
              WeightOf(d, na, b) + (IF b = SINGLETON /\ NodeIsLeaf(d.nodes[na]) THEN 1 ELSE 0)]
    BY <2>1, WeightsFit
  <2>3. Describes(component, kind, d, d.nodes[na])
    BY <1>6, <2>2, DescribesIs
  <2> QED
    BY <2>3 DEF component
<1>7. CASE kind = "gaussian"
  <2>1. component = GaussianComponent(d.cloud, m, shown)
    BY <1>7 DEF NodeComponent
  <2>2. \A c \in KidsOf(d, na) :
          shown[c].plugins["gaussian"] = MomentsOf(d.cloud.position, CoveredBy(d)[c])
    BY <1>1, <1>7, DescribesIs DEF shows
  <2>3. AllShow(shown, "gaussian", d, na)
    BY <1>7
  <2> HIDE DEF component
  <2>4. component = MomentsOf(d.cloud.position, CoveredBy(d)[na])
    BY <2>1, <2>2, <2>3, GaussianFits
  <2>5. Describes(component, kind, d, d.nodes[na])
    BY <1>7, <2>4, DescribesIs
  <2> QED
    BY <2>5 DEF component
<1> QED
  BY <1>2, <1>3, <1>4, <1>5, <1>6, <1>7 DEF Kinds

-----------------------------------------------------------------------------
(* A layer's components, when the layers below show theirs.                *)
NodesShown(ls, d) == Shown(ls, d.minRes)

LEMMA ShownIs ==
  ASSUME NEW d, WellBuilt(d), NEW V, NEW ls, Whole(ls, d, V)
  PROVE  /\ DOMAIN NodesShown(ls, d) = DOMAIN d.nodes
         /\ \A na \in DOMAIN d.nodes :
              /\ NodesShown(ls, d)[na] = ShownBy(ls, d.minRes, na)
              /\ SameNode(NodesShown(ls, d)[na], d.nodes[na])
              /\ NodesShown(ls, d)[na].count = d.nodes[na].count
              /\ \A kind : HasComponent(kind, NodesShown(ls, d)[na]) = HasComponent(kind, d.nodes[na])
<1>1. Addresses(ls) = DOMAIN d.nodes
  BY WholeShows
<1>2. NodesShown(ls, d) = [na \in DOMAIN d.nodes |-> ShownBy(ls, d.minRes, na)]
  BY <1>1 DEF NodesShown, Shown
<1>3. ASSUME NEW na \in DOMAIN d.nodes
      PROVE  /\ NodesShown(ls, d)[na] = ShownBy(ls, d.minRes, na)
             /\ SameNode(NodesShown(ls, d)[na], d.nodes[na])
             /\ NodesShown(ls, d)[na].count = d.nodes[na].count
             /\ \A kind : HasComponent(kind, NodesShown(ls, d)[na]) = HasComponent(kind, d.nodes[na])
  <2> DEFINE m == ShownBy(ls, d.minRes, na)
             n == d.nodes[na]
             q == m.plugins
  <2>1. m = WithMap(n, q) /\ BareNode(n)
    BY WholeShows
  <2>2. NodesShown(ls, d)[na] = m
    BY <1>2
  <2> HIDE DEF m, n, q
  <2>3. /\ WithMap(n, q).address = n.address /\ WithMap(n, q).count = n.count
        /\ WithMap(n, q).children = n.children /\ WithMap(n, q).singletons = n.singletons
        /\ \A kind : HasComponent(kind, WithMap(n, q)) = HasComponent(kind, n)
    BY <2>1, SameFields
  <2> QED
    BY <2>1, <2>2, <2>3 DEF SameNode, m, n
<1> QED
  BY <1>2, <1>3

LEMMA ShownFits ==
  ASSUME NEW d, WellBuilt(d), NEW V, NEW ls, Whole(ls, d, V), TreeFits(ls, d), NEW na \in DOMAIN d.nodes,
         NEW kind \in ShownAt(ls, d, na)
  PROVE  Describes(ShownBy(ls, d.minRes, na).plugins[kind], kind, d, d.nodes[na])
<1> DEFINE i == LayerOf(d.minRes, na)
           pi == PointIndex(na)
           N == LayerNodes(d, i)
<1>1. i \in 1..Top(d) /\ pi \in DOMAIN N /\ N[pi] = d.nodes[na]
  BY NodesOfLayer
<1>2. AllFit(ls[i].shown, N, d)
  <2> HIDE DEF i
  <2> QED
    BY <1>1 DEF TreeFits, LayerFits
<1>3. ShownBy(ls, d.minRes, na) = ls[i].shown[pi]
  BY DEF ShownBy
<1>4. kind \in DOMAIN ls[i].shown[pi].plugins
  BY <1>3 DEF ShownAt
<1> HIDE DEF i, pi, N
<1>5. Describes(ls[i].shown[pi].plugins[kind], kind, d, N[pi])
  BY <1>1, <1>2, <1>4 DEF AllFit
<1> QED
  BY <1>1, <1>3, <1>5

LEMMA LayerComponentsFit ==
  ASSUME NEW d, Sound(d), NEW V, NEW ls, Whole(ls, d, V), TreeFits(ls, d),
         NEW i \in 1..Top(d), NEW kind \in Kinds, ShownUpTo(ls, d, kind, i),
         NEW components,
         \A pi \in DOMAIN LayerNodes(d, i) :
           components[pi] = NodeComponent(kind, d.cloud, ls[i].shown[pi], NodesShown(ls, d)),
         NEW pis \in SUBSET DOMAIN LayerNodes(d, i), \A pi \in pis : components[pi] # Panic
  PROVE  ComponentsFit(components, ls[i], kind, pis, LayerNodes(d, i), d)
<1> SUFFICES ASSUME NEW pi \in Having(ls[i], kind, pis)
             PROVE  Describes(components[pi], kind, d, LayerNodes(d, i)[pi])
  BY DEF ComponentsFit
<1>0. WellBuilt(d)
  BY DEF Sound
<1>1. pi \in pis /\ HasComponent(kind, ls[i].shown[pi])
  BY DEF Having
<1>2. PICK na \in NodesOn(d, i) : pi = PointIndex(na) /\ LayerNodes(d, i)[pi] = d.nodes[na]
  BY <1>0, <1>1, NodesOfLayer
<1>3. na \in DOMAIN d.nodes /\ LayerOf(d.minRes, na) = i
  BY DEF NodesOn
<1> DEFINE shown == NodesShown(ls, d)
           m == ls[i].shown[pi]
<1>4. m = ShownBy(ls, d.minRes, na)
  BY <1>2, <1>3 DEF ShownBy
<1>5. /\ DOMAIN shown = DOMAIN d.nodes
      /\ \A a \in DOMAIN d.nodes : /\ shown[a] = ShownBy(ls, d.minRes, a)
                                   /\ SameNode(shown[a], d.nodes[a])
                                   /\ shown[a].count = d.nodes[a].count
                                   /\ HasComponent(kind, shown[a]) = HasComponent(kind, d.nodes[a])
  BY <1>0, ShownIs
<1>6. components[pi] = NodeComponent(kind, d.cloud, m, shown) /\ components[pi] # Panic
  BY <1>1
<1> HIDE DEF shown, m
<1>7. SameNode(m, d.nodes[na]) /\ HasComponent(kind, d.nodes[na])
  <2>1. HasComponent(kind, m)
    BY <1>1 DEF m
  <2> QED
    BY <1>3, <1>4, <1>5, <2>1
<1>8. AllShow(shown, kind, d, na)
  <2> SUFFICES ASSUME NEW c \in KidsOf(d, na)
               PROVE  /\ c \in DOMAIN shown /\ shown[c].count = d.nodes[c].count
                      /\ kind \in DOMAIN shown[c].plugins
                      /\ Describes(shown[c].plugins[kind], kind, d, d.nodes[c])
    BY DEF AllShow
  <2>1. /\ c \in DOMAIN d.nodes /\ LayerOf(d.minRes, c) < i
        /\ d.nodes[c].count <= d.nodes[na].count
        /\ d.nodes[c].count \in Nat /\ d.nodes[na].count \in Nat
    BY <1>0, <1>3, ChildrenOfTree DEF KidsOf
  <2>2. HasComponent(kind, d.nodes[c])
    BY <1>7, <2>1, CoverageAssumption DEF HasComponent
  <2>3. kind \in ShownAt(ls, d, c)
    BY <2>1, <2>2 DEF ShownUpTo
  <2>4. Describes(ShownBy(ls, d.minRes, c).plugins[kind], kind, d, d.nodes[c])
    BY <1>0, <2>1, <2>3, ShownFits
  <2> QED
    BY <1>5, <2>1, <2>3, <2>4 DEF ShownAt
<1>9. Describes(NodeComponent(kind, d.cloud, m, shown), kind, d, d.nodes[na])
  BY <1>3, <1>6, <1>7, <1>8, NodeComponentFits
<1> QED
  BY <1>2, <1>6, <1>9

-----------------------------------------------------------------------------
(* The invariant.                                                          *)
SavedTree(s, d, names) ==
  s = [of |-> d, proto |-> [minRes |-> d.minRes, root |-> Pair(d.root), names |-> names,
                            layers |-> [i \in 1..Top(d) |-> SavedOfLayer(d, i)]]]
IsSaved(s) == \E d \in Dataset : \E names : SavedTree(s, d, names)

TreeKept ==
  Alive => /\ dataset \in Dataset
           /\ \E V : Whole(layers, dataset, V)
           /\ FinalOf(final, dataset)
           /\ Below(layers, dataset)

AddingKept ==
  adding # None =>
    /\ Alive /\ adding = [kind |-> adding.kind, at |-> adding.at]
    /\ adding.at \in 1..(Len(layers) + 1)
    /\ ShownUpTo(layers, dataset, adding.kind, adding.at)

WalkKept(w) ==
  /\ walks[w] = [at |-> walks[w].at, seen |-> walks[w].seen, missed |-> {}]
  /\ walks[w].at = None => walks[w].seen = {}
  /\ walks[w].at # None => /\ Alive /\ walks[w].at \in DOMAIN dataset.nodes
                           /\ walks[w].seen \subseteq ShownAt(layers, dataset, walks[w].at)
WalksKept == walks = [w \in Walker |-> walks[w]] /\ \A w \in Walker : WalkKept(w)

FilesKept ==
  /\ saving # None => IsSaved(saving)
  /\ file # None => IsSaved(file.saved) /\ file.written \in Nat

ObjectKept ==
  /\ object = [python |-> object.python, builder |-> object.builder, temp |-> object.temp,
               plugins |-> object.plugins]
  /\ object.temp \in Dataset \cup {None}

LifeInvariant == TreeKept /\ AddingKept /\ WalksKept /\ FilesKept /\ ObjectKept

(* What the plugins say: everything that is shown, in a log or in the      *)
(* other copy of a layer is true of its node, and what the tree is told to *)
(* have is shown.                                                          *)
FitsKept == Alive => TreeFits(layers, dataset)

PlanKept ==
  /\ object.plugins \in Seq(Kinds) /\ pending \in Seq(Kinds)
  /\ adding # None => adding.kind \in Kinds /\ pending # <<>>

ToldKept ==
  /\ ~Alive => treePlugins = {}
  /\ Alive => \A kind \in treePlugins : ShownUpTo(layers, dataset, kind, Len(layers) + 1)

PlanInvariant == FitsKept /\ PlanKept /\ ToldKept

LEMMA NoWalks ==
  ASSUME NEW ws, ws = [w \in Walker |-> NoWalk]
  PROVE  ws = [w \in Walker |-> ws[w]] /\ \A w \in Walker :
           /\ ws[w] = [at |-> ws[w].at, seen |-> ws[w].seen, missed |-> {}]
           /\ ws[w].at = None /\ ws[w].seen = {}
BY DEF NoWalk

LEMMA LifeInit == PyInit => LifeInvariant
<1> SUFFICES ASSUME PyInit PROVE LifeInvariant
  OBVIOUS
<1>1. ~Alive /\ adding = None /\ saving = None /\ file = None
  BY DEF PyInit, Init, Alive
<1>2. WalksKept
  BY NoWalks DEF PyInit, Init, WalksKept, WalkKept
<1>3. ObjectKept
  BY DEF PyInit, New, Rust, ObjectKept
<1> QED
  BY <1>1, <1>2, <1>3 DEF LifeInvariant, TreeKept, AddingKept, FilesKept

LEMMA BuildKeeps ==
  ASSUME LifeInvariant, NEW d \in Dataset, Build(d)
  PROVE  TreeKept' /\ AddingKept' /\ WalksKept' /\ FilesKept'
<1>1. WellBuilt(d)
  BY DatasetAssumption
<1>2. /\ adding = None /\ dataset' = d /\ layers' = BuiltLayers(d)
      /\ final' = FinalIndexes(BuiltLayers(d), d.minRes, d.root)
      /\ walks' = [w \in Walker |-> NoWalk] /\ UNCHANGED <<adding, file, saving>>
  BY DEF Build, fileVars
<1>3. TreeKept'
  <2> DEFINE V == {}
             ls == BuiltLayers(d)
  <2>1. /\ Whole(ls, d, V)
        /\ \A i \in 1..Top(d) : ls[i].shown = LayerNodes(d, i) /\ Pending(ls[i]) = <<>>
    BY <1>1, BuiltIsWhole
  <2> HIDE DEF ls, V
  <2>2. FinalOf(FinalIndexes(ls, d.minRes, d.root), d) /\ Below(ls, d)
    BY <1>1, <2>1, WholeIsFinal, NoneBelow
  <2>3. dataset' = d /\ layers' = ls /\ final' = FinalIndexes(ls, d.minRes, d.root)
    BY <1>2 DEF ls
  <2> QED
    BY <2>1, <2>2, <2>3 DEF TreeKept
<1>4. AddingKept'
  BY <1>2 DEF AddingKept
<1>5. WalksKept'
  BY <1>2, NoWalks DEF WalksKept, WalkKept
<1>6. FilesKept'
  BY <1>2 DEF LifeInvariant, FilesKept
<1> QED
  BY <1>3, <1>4, <1>5, <1>6

(* The layers are as they were, or a layer has been published.             *)
SameTree == UNCHANGED <<dataset, layers, final>>

LEMMA SameTreeKeeps ==
  ASSUME LifeInvariant, SameTree
  PROVE  TreeKept' /\ Alive' = Alive
<1>1. dataset' = dataset /\ layers' = layers /\ final' = final
  BY DEF SameTree
<1>2. Alive' = Alive
  BY <1>1 DEF Alive
<1>3. TreeKept'
  BY <1>1, <1>2 DEF LifeInvariant, TreeKept
<1> QED
  BY <1>2, <1>3

LEMMA SameTreeWalks ==
  ASSUME LifeInvariant, SameTree, UNCHANGED walks
  PROVE  WalksKept'
<1>1. dataset' = dataset /\ layers' = layers /\ walks' = walks /\ Alive' = Alive
  BY SameTreeKeeps DEF SameTree
<1> QED
  BY <1>1 DEF LifeInvariant, WalksKept, WalkKept

LEMMA SameTreeAdding ==
  ASSUME LifeInvariant, SameTree, UNCHANGED adding
  PROVE  AddingKept'
<1>1. dataset' = dataset /\ layers' = layers /\ adding' = adding /\ Alive' = Alive
  BY SameTreeKeeps DEF SameTree
<1> QED
  BY <1>1 DEF LifeInvariant, AddingKept

LEMMA UnchangedKeeps ==
  ASSUME LifeInvariant, SameTree, UNCHANGED <<walks, adding, file, saving>>
  PROVE  TreeKept' /\ AddingKept' /\ WalksKept' /\ FilesKept'
<1>1. FilesKept'
  BY DEF LifeInvariant, FilesKept
<1>2. UNCHANGED walks /\ UNCHANGED adding
  OBVIOUS
<1> QED
  BY <1>1, <1>2, SameTreeKeeps, SameTreeWalks, SameTreeAdding

LEMMA LogOrPublish ==
  ASSUME LifeInvariant, adding # None, adding.at <= Len(layers)
  PROVE  /\ dataset \in Dataset /\ WellBuilt(dataset) /\ \E V : Whole(layers, dataset, V)
         /\ Below(layers, dataset) /\ adding.at \in 1..Top(dataset)
         /\ Len(layers) = Top(dataset)
         /\ ShownUpTo(layers, dataset, adding.kind, adding.at)
         /\ DOMAIN Components(adding.at) = DOMAIN LayerNodes(dataset, adding.at)
<1>1. /\ Alive /\ adding.at \in 1..(Len(layers) + 1)
      /\ ShownUpTo(layers, dataset, adding.kind, adding.at)
  BY DEF LifeInvariant, AddingKept
<1>2. dataset \in Dataset /\ (\E V : Whole(layers, dataset, V)) /\ Below(layers, dataset)
  BY <1>1 DEF LifeInvariant, TreeKept
<1>3. WellBuilt(dataset)
  BY <1>2, DatasetAssumption
<1>4. Len(layers) = Top(dataset) /\ Top(dataset) \in Nat
  BY <1>2, <1>3, WholeShows, NodesOfLayer
<1>5. adding.at \in 1..Top(dataset)
  BY <1>1, <1>4
<1>6. DOMAIN layers[adding.at].shown = DOMAIN LayerNodes(dataset, adding.at)
  BY <1>2, <1>3, <1>5, WholeShows
<1>7. DOMAIN Components(adding.at) = DOMAIN layers[adding.at].shown
  BY DEF Components
<1> QED
  BY <1>1, <1>2, <1>3, <1>4, <1>5, <1>6, <1>7

(* Nodes show no less than they did, so walks still have seen what is shown.*)
LEMMA MoreIsShown ==
  ASSUME LifeInvariant, Alive, Alive', UNCHANGED <<dataset, walks>>,
         \A na \in DOMAIN dataset.nodes : ShownAt(layers, dataset, na) \subseteq ShownAt(layers', dataset, na)
  PROVE  WalksKept'
<1>1. walks' = walks /\ dataset' = dataset
  OBVIOUS
<1>2. walks = [w \in Walker |-> walks[w]] /\ \A w \in Walker : WalkKept(w)
  BY DEF LifeInvariant, WalksKept
<1>3. ASSUME NEW w \in Walker PROVE WalkKept(w)'
  BY <1>1, <1>2 DEF WalkKept
<1> QED
  BY <1>1, <1>2, <1>3 DEF WalksKept

ShownStays(ls, to, d) == \A na \in DOMAIN d.nodes : ShownAt(ls, d, na) \subseteq ShownAt(to, d, na)

LEMMA PluginsKept ==
  ASSUME LifeInvariant, Alive, ShownStays(layers, layers', dataset)
  PROVE  KeepsPlugins
<1>1. dataset \in Dataset /\ \E V : Whole(layers, dataset, V)
  BY DEF LifeInvariant, TreeKept
<1>2. WellBuilt(dataset)
  BY <1>1, DatasetAssumption
<1>3. DOMAIN layers = 1..Top(dataset)
      /\ \A i \in 1..Top(dataset) : DOMAIN layers[i].shown = DOMAIN LayerNodes(dataset, i)
  BY <1>1, <1>2, WholeShows
<1>4. ASSUME NEW i \in 1..Top(dataset), NEW pi \in DOMAIN layers[i].shown
      PROVE  DOMAIN layers[i].shown[pi].plugins \subseteq DOMAIN layers'[i].shown[pi].plugins
  <2>1. PICK na \in NodesOn(dataset, i) : pi = PointIndex(na)
    BY <1>2, <1>3, NodesOfLayer
  <2>2. na \in DOMAIN dataset.nodes /\ LayerOf(dataset.minRes, na) = i
    BY DEF NodesOn
  <2> QED
    BY <2>1, <2>2 DEF ShownStays, ShownAt, ShownBy
<1> QED
  BY <1>3, <1>4 DEF KeepsPlugins

LEMMA PublishLayerKeeps ==
  ASSUME LifeInvariant, PublishLayer
  PROVE  /\ TreeKept' /\ AddingKept' /\ WalksKept' /\ FilesKept' /\ KeepsPlugins
         /\ Alive /\ Alive' /\ Len(layers') = Len(layers) /\ ShownStays(layers, layers', dataset)
<1> DEFINE i == adding.at
           d == dataset
           components == Components(i)
           pis == DOMAIN components
           to == Published(layers, d, i, adding.kind, components, pis)
           half == With(layers, d, i, adding.kind, components, pis)
<1>1. /\ adding # None /\ i <= Len(layers) /\ layers' = to /\ adding' = [adding EXCEPT !.at = i + 1]
      /\ UNCHANGED <<dataset, final, walks, file, saving>>
  BY DEF PublishLayer, Published, fileVars
<1>2. /\ d \in Dataset /\ WellBuilt(d) /\ (\E V : Whole(layers, d, V))
      /\ Below(layers, d) /\ i \in 1..Top(d) /\ Len(layers) = Top(d)
      /\ ShownUpTo(layers, d, adding.kind, i) /\ pis = DOMAIN LayerNodes(d, i)
  BY <1>1, LogOrPublish
<1>3. Among(components, pis, LayerNodes(d, i))
  BY <1>2 DEF Among
<1> HIDE DEF pis, components
<1>4. /\ \E W : Whole(to, d, W)
      /\ \A na \in DOMAIN d.nodes :
           ShownAt(to, d, na) = ShownAt(layers, d, na) \cup
             (IF LayerOf(d.minRes, na) = i THEN PendingAt(half, d, na) ELSE {})
  BY <1>2, <1>3, PublishTree
<1>5. Below(to, d) /\ ShownUpTo(to, d, adding.kind, i + 1)
  BY <1>2, <1>3, PublishBelow
<1>6. Alive' /\ Len(to) = Top(d)
  BY <1>1, <1>2, <1>4, WholeShows DEF Alive
<1>7. Alive /\ adding = [kind |-> adding.kind, at |-> adding.at]
  BY <1>1 DEF LifeInvariant, AddingKept
<1> HIDE DEF to, half
<1>8. TreeKept'
  <2>1. FinalOf(final, d)
    BY <1>7 DEF LifeInvariant, TreeKept
  <2> QED
    BY <1>1, <1>2, <1>4, <1>5, <2>1 DEF TreeKept
<1>9. AddingKept'
  <2>1. adding' = [kind |-> adding.kind, at |-> i + 1]
    BY <1>1, <1>7
  <2>2. adding'.kind = adding.kind /\ adding'.at = i + 1
    BY <2>1
  <2>3. i + 1 \in 1..(Len(to) + 1)
    BY <1>2, <1>6
  <2> HIDE DEF i, d
  <2> QED
    BY <1>1, <1>5, <1>6, <2>1, <2>2, <2>3 DEF AddingKept, d
<1>10. ShownStays(layers, layers', dataset)
  BY <1>1, <1>4 DEF ShownStays
<1>11. WalksKept'
  BY <1>1, <1>6, <1>7, <1>10, MoreIsShown DEF ShownStays
<1>12. FilesKept'
  BY <1>1 DEF LifeInvariant, FilesKept
<1> QED
  BY <1>1, <1>2, <1>6, <1>7, <1>8, <1>9, <1>10, <1>11, <1>12, PluginsKept

LEMMA AddPluginPanicsKeeps ==
  ASSUME LifeInvariant, AddPluginPanics
  PROVE  /\ TreeKept' /\ AddingKept' /\ WalksKept' /\ FilesKept' /\ KeepsPlugins
         /\ Alive /\ Alive' /\ Len(layers') = Len(layers) /\ ShownStays(layers, layers', dataset)
<1> DEFINE i == adding.at
           d == dataset
           components == Components(i)
<1>1. PICK pis \in SUBSET DOMAIN components :
        layers' = With(layers, d, i, adding.kind, components, pis)
  BY DEF AddPluginPanics, With
<1> DEFINE half == With(layers, d, i, adding.kind, components, pis)
<1>2. /\ adding # None /\ i <= Len(layers) /\ adding' = None
      /\ UNCHANGED <<dataset, final, walks, file, saving>>
  BY DEF AddPluginPanics, fileVars
<1>3. /\ d \in Dataset /\ WellBuilt(d) /\ (\E V : Whole(layers, d, V))
      /\ Below(layers, d) /\ i \in 1..Top(d) /\ Len(layers) = Top(d)
      /\ ShownUpTo(layers, d, adding.kind, i) /\ DOMAIN components = DOMAIN LayerNodes(d, i)
  BY <1>2, LogOrPublish
<1>4. Among(components, pis, LayerNodes(d, i))
  BY <1>1, <1>3 DEF Among
<1> HIDE DEF components
<1>5. /\ \E W : Whole(half, d, W)
      /\ \A na \in DOMAIN d.nodes : ShownAt(half, d, na) = ShownAt(layers, d, na)
  BY <1>3, <1>4, PublishTree
<1>6. Below(half, d)
  BY <1>3, <1>4, PublishBelow
<1>7. Alive' /\ Len(half) = Top(d)
  BY <1>1, <1>3, <1>5, WholeShows DEF Alive
<1>8. Alive
  BY <1>2 DEF LifeInvariant, AddingKept
<1> HIDE DEF half
<1>14. Len(layers') = Len(layers)
  BY <1>1, <1>3, <1>7 DEF half
<1>9. TreeKept'
  <2>1. FinalOf(final, d)
    BY <1>8 DEF LifeInvariant, TreeKept
  <2> QED
    BY <1>1, <1>2, <1>3, <1>5, <1>6, <2>1 DEF TreeKept, half
<1>10. AddingKept'
  BY <1>2 DEF AddingKept
<1>11. ShownStays(layers, layers', dataset)
  BY <1>1, <1>5 DEF ShownStays, half
<1>12. WalksKept'
  BY <1>2, <1>7, <1>8, <1>11, MoreIsShown DEF ShownStays
<1>13. FilesKept'
  BY <1>2 DEF LifeInvariant, FilesKept
<1> QED
  BY <1>7, <1>8, <1>9, <1>10, <1>11, <1>12, <1>13, <1>14, PluginsKept

LEMMA LoadKeeps ==
  ASSUME LifeInvariant, Load
  PROVE  TreeKept' /\ AddingKept' /\ WalksKept' /\ FilesKept' /\ FitsKept'
<1>1. /\ ~Alive /\ file # None
      /\ FinalIndexes(LoadedLayers, Decoded.minRes, LoadedRoot) # Panic
      /\ final' = FinalIndexes(LoadedLayers, Decoded.minRes, LoadedRoot)
      /\ layers' = LoadedLayers /\ dataset' = file.saved.of
      /\ UNCHANGED <<adding, walks, file, saving>>
  BY DEF Load, fileVars
<1>2. PICK d, names : d \in Dataset /\ SavedTree(file.saved, d, names)
  BY <1>1 DEF LifeInvariant, FilesKept, IsSaved
<1>3. WellBuilt(d) /\ file.written \in Nat
  BY <1>1, <1>2, DatasetAssumption DEF LifeInvariant, FilesKept
<1>4. Top(d) \in Nat /\ d.root \in Int
  BY <1>3, NodesOfLayer DEF WellBuilt
<1> DEFINE all == [i \in 1..Top(d) |-> SavedOfLayer(d, i)]
           n == LargerOf(0, SmallerOf(file.written - 1, Top(d)))
<1>5. /\ file.saved.of = d
      /\ file.saved.proto = [minRes |-> d.minRes, root |-> Pair(d.root), names |-> names, layers |-> all]
  BY <1>2 DEF SavedTree
<1>6. n \in 0..Top(d)
  BY <1>3, <1>4 DEF LargerOf, SmallerOf
<1>7. Len(all) = Top(d) /\ SubSeq(all, 1, n) = [i \in 1..n |-> SavedOfLayer(d, i)]
  <2>1. Len(all) = Top(d)
    BY <1>4
  <2>2. SubSeq(all, 1, n) = [i \in 1..n |-> all[i]]
    <3> HIDE DEF all, n
    <3>1. SubSeq(all, 1, n) = [i \in 1..(1 + n - 1) |-> all[1 + i - 1]]
      BY <1>4, <1>6 DEF SubSeq
    <3>2. 1 + n - 1 = n /\ \A i \in 1..n : 1 + i - 1 = i
      BY <1>4, <1>6
    <3> QED
      BY <3>1, <3>2
  <2>3. \A i \in 1..n : all[i] = SavedOfLayer(d, i)
    BY <1>4, <1>6
  <2> HIDE DEF all, n
  <2> QED
    BY <2>1, <2>2, <2>3
<1> HIDE DEF all
<1>8. /\ Decoded.minRes = d.minRes /\ Decoded.root = Pair(d.root)
      /\ Decoded.layers = SubSeq(all, 1, n)
  <2>1. LargerOf(0, SmallerOf(file.written - 1, Len(file.saved.proto.layers))) = n
    BY <1>5, <1>7
  <2> HIDE DEF n
  <2>2. Decoded = [file.saved.proto EXCEPT !.layers = SubSeq(@, 1, n)]
    BY <2>1 DEF Decoded
  <2>3. Decoded = [minRes |-> d.minRes, root |-> Pair(d.root), names |-> names,
                   layers |-> SubSeq(all, 1, n)]
    <3> DEFINE some == SubSeq(all, 1, n)
               name == Pair(d.root)
               proto == file.saved.proto
    <3>1. proto = [minRes |-> d.minRes, root |-> name, names |-> names, layers |-> all]
          /\ Decoded = [proto EXCEPT !.layers = some]
      <4>1. proto.layers = all
        BY <1>5
      <4>2. Decoded = [proto EXCEPT !.layers = SubSeq(proto.layers, 1, n)]
        BY <2>2
      <4> HIDE DEF proto
      <4>3. Decoded = [proto EXCEPT !.layers = SubSeq(all, 1, n)]
        BY <4>1, <4>2
      <4> QED
        BY <1>5, <4>3 DEF proto
    <3> HIDE DEF some, name, proto
    <3>2. Decoded = [minRes |-> d.minRes, root |-> name, names |-> names, layers |-> some]
      BY <3>1
    <3> QED
      BY <3>2 DEF some, name
  <2> QED
    BY <2>3
<1> HIDE DEF n
<1>9. LoadedLayers = LoadedTo(d, n)
  <2> DEFINE some == [i \in 1..n |-> SavedOfLayer(d, i)]
  <2>1. DOMAIN some = 1..n /\ \A i \in 1..n : some[i] = SavedOfLayer(d, i)
    OBVIOUS
  <2>2. Decoded.layers = some
    BY <1>7, <1>8
  <2> HIDE DEF some
  <2> QED
    BY <2>1, <2>2 DEF LoadedLayers, LoadedTo
<1>10. LoadedRoot = d.root
  BY <1>4, <1>8, PairOfAddress DEF LoadedRoot
<1> DEFINE ls == LoadedTo(d, n)
<1>11. /\ Whole(ls, d, {})
       /\ \A i \in 1..Top(d) : /\ ls[i].shown = LayerNodes(d, i) /\ Pending(ls[i]) = <<>>
                               /\ ls[i].log = <<>> /\ ls[i].writing = LayerNodes(d, i)
  <2>1. FinalIndexes(LoadedTo(d, n), d.minRes, d.root) # Panic
    BY <1>1, <1>8, <1>9, <1>10
  <2>2. n = Top(d)
    BY <1>3, <1>6, <2>1, LoadedIsWhole
  <2> QED
    BY <1>3, <1>6, <2>1, LoadedIsWhole
<1> HIDE DEF ls
<1>12. FinalOf(FinalIndexes(ls, d.minRes, d.root), d) /\ Below(ls, d)
  BY <1>3, <1>11, WholeIsFinal, NoneBelow
<1>13. TreeKept' /\ FitsKept'
  <2>1. layers' = ls /\ dataset' = d /\ final' = FinalIndexes(ls, d.minRes, d.root)
    BY <1>1, <1>5, <1>8, <1>9, <1>10 DEF ls
  <2>2. TreeFits(ls, d)
    BY <1>3, <1>11, NodesOfLayer, BareFits DEF TreeFits, LayerFits
  <2> QED
    BY <1>2, <1>11, <1>12, <2>1, <2>2 DEF TreeKept, FitsKept
<1>14. AddingKept'
  BY <1>1 DEF LifeInvariant, AddingKept
<1>15. WalksKept'
  <2>1. walks = [w \in Walker |-> walks[w]] /\ \A w \in Walker : WalkKept(w) /\ walks[w].at = None
    BY <1>1 DEF LifeInvariant, WalksKept, WalkKept
  <2> QED
    BY <1>1, <2>1 DEF WalksKept, WalkKept
<1>16. FilesKept'
  BY <1>1 DEF LifeInvariant, FilesKept
<1> QED
  BY <1>13, <1>14, <1>15, <1>16

LEMMA CrashKeeps ==
  ASSUME LifeInvariant, Crash
  PROVE  TreeKept' /\ AddingKept' /\ WalksKept' /\ FilesKept' /\ KeepsPlugins
<1>1. /\ layers' = <<>> /\ adding' = None /\ saving' = None /\ file' = file
      /\ walks' = [w \in Walker |-> NoWalk]
  BY DEF Crash
<1>2. ~Alive'
  BY <1>1 DEF Alive
<1>3. WalksKept'
  BY <1>1, NoWalks DEF WalksKept, WalkKept
<1>4. DOMAIN layers' = {}
  BY <1>1
<1> QED
  BY <1>1, <1>2, <1>3, <1>4 DEF LifeInvariant, TreeKept, AddingKept, FilesKept, KeepsPlugins

LEMMA SavesKeep ==
  ASSUME LifeInvariant, BeginSave \/ WriteFields \/ EndSave
  PROVE  SameTree /\ UNCHANGED <<adding, walks>> /\ FilesKept'
<1>1. SameTree /\ UNCHANGED <<adding, walks>>
  BY DEF BeginSave, WriteFields, EndSave, treeVars, SameTree
<1>2. CASE BeginSave
  <2>1. Alive /\ saving' = [of |-> dataset, proto |-> Proto] /\ file' = None
    BY <1>2 DEF BeginSave, Idle
  <2>2. dataset \in Dataset /\ WellBuilt(dataset) /\ \E V : Whole(layers, dataset, V)
    BY <2>1, DatasetAssumption DEF LifeInvariant, TreeKept
  <2>3. DOMAIN layers = 1..Top(dataset)
        /\ \A i \in 1..Top(dataset) : SavedLayer(layers[i]) = SavedOfLayer(dataset, i)
    BY <2>2, WholeShows, SavedIs
  <2>4. [i \in DOMAIN layers |-> SavedLayer(layers[i])] = [i \in 1..Top(dataset) |-> SavedOfLayer(dataset, i)]
    BY <2>3
  <2>5. SavedTree(saving', dataset, DOMAIN final)
    BY <2>1, <2>4 DEF SavedTree, Proto
  <2> QED
    BY <1>1, <2>1, <2>2, <2>5 DEF FilesKept, IsSaved
<1>3. CASE WriteFields
  <2>1. IsSaved(saving) /\ saving' = saving
    BY <1>3 DEF WriteFields, LifeInvariant, FilesKept
  <2>2. PICK d, names : d \in Dataset /\ SavedTree(saving, d, names)
    BY <2>1 DEF IsSaved
  <2>3. Top(d) \in Nat
    BY <2>2, DatasetAssumption, NodesOfLayer
  <2>4. Len(saving.proto.layers) = Top(d)
    BY <2>2, <2>3 DEF SavedTree
  <2>5. Fields(saving.proto) \in Nat
    BY <2>3, <2>4 DEF Fields
  <2>6. PICK n \in 0..Fields(saving.proto), torn \in BOOLEAN :
          file' = [saved |-> saving, written |-> n, torn |-> torn]
    BY <1>3 DEF WriteFields
  <2> QED
    BY <1>1, <2>1, <2>5, <2>6 DEF FilesKept
<1>4. CASE EndSave
  BY <1>1, <1>4 DEF EndSave, LifeInvariant, FilesKept
<1> QED
  BY <1>1, <1>2, <1>3, <1>4

LEMMA WalkSteps ==
  ASSUME LifeInvariant, NEW w \in Walker, NEW na, GoTo(w, na), Alive, na \in DOMAIN dataset.nodes,
         walks[w].seen \subseteq ShownAt(layers, dataset, na), SameTree
  PROVE  WalksKept'
<1>1. dataset \in Dataset /\ WellBuilt(dataset) /\ \E V : Whole(layers, dataset, V)
  BY DatasetAssumption DEF LifeInvariant, TreeKept
<1>2. PluginsAt(na) = ShownAt(layers, dataset, na)
  <2>1. Finds(layers, dataset.minRes, na)
    BY <1>1, WholeShows
  <2> QED
    BY <2>1 DEF PluginsAt, ShownAt
<1> DEFINE kinds == ShownAt(layers, dataset, na)
<1>3. walks = [x \in Walker |-> walks[x]] /\ \A x \in Walker : WalkKept(x)
  BY DEF LifeInvariant, WalksKept
<1>4. walks' = [walks EXCEPT ![w] = [at |-> na, seen |-> kinds, missed |-> walks[w].seen \ kinds]]
  BY <1>2 DEF GoTo
<1> HIDE DEF kinds
<1>5. walks[w].seen \ kinds = {}
  BY DEF kinds
<1>6. walks' = [walks EXCEPT ![w] = [at |-> na, seen |-> kinds, missed |-> {}]]
  BY <1>4, <1>5
<1>7. na # None
  <2>1. na \in Int
    BY <1>1 DEF WellBuilt
  <2> QED
    BY <2>1, OptionAssumption
<1>8. /\ walks' = [x \in Walker |-> walks'[x]]
      /\ walks'[w] = [at |-> na, seen |-> kinds, missed |-> {}]
      /\ \A x \in Walker \ {w} : walks'[x] = walks[x]
  BY <1>3, <1>6
<1>9. dataset' = dataset /\ layers' = layers /\ Alive' = Alive
  BY SameTreeKeeps DEF SameTree
<1>10. WalkKept(w)'
  <2>1. walks'[w].at = na /\ walks'[w].seen = kinds /\ walks'[w].missed = {}
    BY <1>8
  <2> QED
    BY <1>7, <1>8, <1>9, <2>1 DEF WalkKept, kinds
<1>11. \A x \in Walker \ {w} : WalkKept(x)'
  BY <1>3, <1>8, <1>9 DEF WalkKept
<1> QED
  BY <1>8, <1>10, <1>11 DEF WalksKept

LEMMA WalksStep ==
  ASSUME LifeInvariant, NEW w \in Walker, StartWalk(w) \/ StepWalk(w) \/ EndWalk(w)
  PROVE  WalksKept' /\ SameTree /\ UNCHANGED <<adding, file, saving>>
<1>1. SameTree /\ UNCHANGED <<adding, file, saving>>
  BY DEF StartWalk, StepWalk, EndWalk, treeVars, fileVars, SameTree
<1>2. WalkKept(w) /\ walks = [x \in Walker |-> walks[x]] /\ \A x \in Walker : WalkKept(x)
  BY DEF LifeInvariant, WalksKept
<1>3. CASE StartWalk(w)
  <2>1. Alive /\ walks[w].at = None /\ GoTo(w, dataset.root)
    BY <1>3 DEF StartWalk
  <2>2. dataset.root \in DOMAIN dataset.nodes
    BY <2>1, DatasetAssumption DEF LifeInvariant, TreeKept, WellBuilt
  <2>3. walks[w].seen = {}
    BY <1>2, <2>1 DEF WalkKept
  <2> QED
    BY <1>1, <2>1, <2>2, <2>3, WalkSteps
<1>4. CASE StepWalk(w)
  <2> DEFINE up == walks[w].at
  <2>1. up # None /\ Alive /\ up \in DOMAIN dataset.nodes
        /\ walks[w].seen \subseteq ShownAt(layers, dataset, up)
    BY <1>2, <1>4 DEF StepWalk, WalkKept
  <2>2. /\ dataset \in Dataset /\ WellBuilt(dataset) /\ (\E V : Whole(layers, dataset, V))
        /\ Below(layers, dataset)
    BY <2>1, DatasetAssumption DEF LifeInvariant, TreeKept
  <2>3. PICK na \in ToSet(ChildrenOf(ShownBy(layers, dataset.minRes, up))) : GoTo(w, na)
    BY <1>4 DEF StepWalk
  <2>4. BelowOf(layers, dataset, up) = ToSet(ChildrenOf(dataset.nodes[up]))
    <3>1. Shows(layers, dataset) /\ Finds(layers, dataset.minRes, up)
      BY <2>1, <2>2, WholeIsVisited, WholeShows
    <3> QED
      BY <2>1, <3>1 DEF Shows
  <2>5. na \in ToSet(ChildrenOf(dataset.nodes[up]))
    BY <2>3, <2>4 DEF BelowOf
  <2>6. na \in DOMAIN dataset.nodes
    BY <2>1, <2>2, <2>5, ChildrenOfTree
  <2>7. walks[w].seen \subseteq ShownAt(layers, dataset, na)
    BY <2>1, <2>2, <2>5 DEF Below
  <2> QED
    BY <1>1, <2>1, <2>3, <2>6, <2>7, WalkSteps
<1>5. CASE EndWalk(w)
  <2>1. walks' = [walks EXCEPT ![w] = NoWalk]
    BY <1>5 DEF EndWalk
  <2>2. /\ walks' = [x \in Walker |-> walks'[x]] /\ walks'[w] = NoWalk
        /\ \A x \in Walker \ {w} : walks'[x] = walks[x]
    BY <1>2, <2>1
  <2>3. dataset' = dataset /\ layers' = layers /\ Alive' = Alive
    BY <1>1, SameTreeKeeps DEF SameTree
  <2>4. WalkKept(w)'
    BY <2>2 DEF WalkKept, NoWalk
  <2>5. \A x \in Walker \ {w} : WalkKept(x)'
    BY <1>2, <2>2, <2>3 DEF WalkKept
  <2> QED
    BY <1>1, <2>2, <2>4, <2>5 DEF WalksKept
<1> QED
  BY <1>1, <1>3, <1>4, <1>5

(* No step but these changes the layers.                                   *)
LEMMA SameTreeKeepsPlugins ==
  ASSUME SameTree
  PROVE  KeepsPlugins
BY DEF SameTree, KeepsPlugins

LEMMA BuildKeepsPlugins ==
  ASSUME NEW d \in Dataset, Build(d)
  PROVE  KeepsPlugins
<1>1. layers' = BuiltLayers(d) /\ WellBuilt(d)
  BY DatasetAssumption DEF Build
<1>2. Whole(layers', d, {}) /\ \A i \in 1..Top(d) : layers'[i].second
  BY <1>1, BuiltIsWhole
<1>3. DOMAIN layers' = 1..Top(d)
  BY <1>1, <1>2, WholeShows
<1> QED
  BY <1>2, <1>3 DEF KeepsPlugins

LEMMA LoadKeepsPlugins ==
  ASSUME Load
  PROVE  KeepsPlugins
<1>1. layers = <<>>
  BY DEF Load, Alive
<1> QED
  BY <1>1 DEF KeepsPlugins

LEMMA LifeNext ==
  ASSUME LifeInvariant, Next
  PROVE  LifeInvariant' /\ KeepsPlugins
<1>1. CASE PyNext
  <2>1. CASE \E d \in Dataset : LoadYamlConfig(d)
    <3>1. PICK d \in Dataset : LoadYamlConfig(d)
      BY <2>1
    <3>2. SameTree /\ UNCHANGED <<walks, adding, file, saving>>
          /\ object' = [object EXCEPT !.builder = TRUE, !.temp = d]
      BY <3>1 DEF LoadYamlConfig, SameTree, treeVars, fileVars
    <3>3. ObjectKept'
      <4>1. object = [python |-> object.python, builder |-> object.builder, temp |-> object.temp,
                      plugins |-> object.plugins]
        BY DEF LifeInvariant, ObjectKept
      <4>2. object' = [python |-> object.python, builder |-> TRUE, temp |-> d, plugins |-> object.plugins]
        BY <3>2, <4>1
      <4> QED
        BY <4>2 DEF ObjectKept
    <3> QED
      BY <3>2, <3>3, UnchangedKeeps, SameTreeKeepsPlugins DEF LifeInvariant
  <2>2. CASE \E d \in Dataset \cup {None} : Fit(d)
    <3>1. PICK given \in Dataset \cup {None} : Fit(given)
      BY <2>2
    <3> DEFINE d == IF given # None THEN given ELSE object.temp
               temp == IF given # None THEN object.temp ELSE None
    <3>2. d # None /\ Build(d) /\ object' = [object EXCEPT !.builder = FALSE, !.temp = temp]
      BY <3>1 DEF Fit
    <3>3. d \in Dataset /\ temp \in Dataset \cup {None}
      BY <3>2 DEF LifeInvariant, ObjectKept
    <3> HIDE DEF d, temp
    <3>4. ObjectKept'
      <4>1. object = [python |-> object.python, builder |-> object.builder, temp |-> object.temp,
                      plugins |-> object.plugins]
        BY DEF LifeInvariant, ObjectKept
      <4>2. object' = [python |-> object.python, builder |-> FALSE, temp |-> temp,
                       plugins |-> object.plugins]
        BY <3>2, <4>1
      <4> QED
        BY <3>3, <4>2 DEF ObjectKept
    <3> QED
      BY <3>2, <3>3, <3>4, BuildKeeps, BuildKeepsPlugins DEF LifeInvariant
  <2>3. CASE FitPanics
    <3>1. SameTree /\ UNCHANGED <<walks, adding, file, saving>>
          /\ object' = [object EXCEPT !.temp = None]
      BY <2>3 DEF FitPanics, SameTree, treeVars, fileVars
    <3>2. ObjectKept'
      <4>1. object = [python |-> object.python, builder |-> object.builder, temp |-> object.temp,
                      plugins |-> object.plugins]
        BY DEF LifeInvariant, ObjectKept
      <4>2. object' = [python |-> object.python, builder |-> object.builder, temp |-> None,
                       plugins |-> object.plugins]
        BY <3>1, <4>1
      <4> QED
        BY <4>2 DEF ObjectKept
    <3> QED
      BY <3>1, <3>2, UnchangedKeeps, SameTreeKeepsPlugins DEF LifeInvariant
  <2> QED
    BY <1>1, <2>1, <2>2, <2>3 DEF PyNext
<1>2. CASE RustNext
  <2>1. ObjectKept'
    BY <1>2 DEF RustNext, LifeInvariant, ObjectKept
  <2>2. CASE \E d \in Dataset : Build(d)
    BY <2>1, <2>2, BuildKeeps, BuildKeepsPlugins DEF LifeInvariant
  <2>3. CASE Load
    BY <2>1, <2>3, LoadKeeps, LoadKeepsPlugins DEF LifeInvariant
  <2>4. CASE Crash
    BY <2>1, <2>4, CrashKeeps DEF LifeInvariant
  <2>5. CASE BeginSave \/ WriteFields \/ EndSave
    <3>1. SameTree /\ UNCHANGED <<adding, walks>> /\ FilesKept'
      BY <2>5, SavesKeep
    <3>2. TreeKept' /\ AddingKept' /\ WalksKept'
      BY <3>1, SameTreeKeeps, SameTreeWalks, SameTreeAdding
    <3> QED
      BY <2>1, <3>1, <3>2, SameTreeKeepsPlugins DEF LifeInvariant
  <2> QED
    BY <1>2, <2>2, <2>3, <2>4, <2>5 DEF RustNext
<1>3. CASE PluginNext
  <2>1. ObjectKept'
    BY <1>3 DEF PluginNext, AddNextPlugin, PluginAdded, PluginsPanic, pyVars, LifeInvariant, ObjectKept
  <2>2. CASE AddNextPlugin
    <3>1. /\ Alive /\ adding' = [kind |-> Head(pending), at |-> 1]
          /\ SameTree /\ UNCHANGED <<walks, file, saving>>
      BY <2>2 DEF AddNextPlugin, BeginAddPlugin, Idle, SameTree, fileVars
    <3>2. TreeKept' /\ WalksKept' /\ Alive'
      BY <3>1, SameTreeKeeps, SameTreeWalks
    <3>3. AddingKept'
      <4>1. adding'.kind = Head(pending) /\ adding'.at = 1
            /\ adding' = [kind |-> adding'.kind, at |-> adding'.at]
        BY <3>1
      <4>2. WellBuilt(dataset) /\ \E V : Whole(layers, dataset, V)
        BY <3>1, DatasetAssumption DEF LifeInvariant, TreeKept
      <4>3. Len(layers) = Top(dataset) /\ Top(dataset) \in Nat
            /\ \A na \in DOMAIN dataset.nodes : LayerOf(dataset.minRes, na) \in 1..Top(dataset)
        BY <4>2, WholeShows, NodesOfLayer
      <4>4. adding'.at \in 1..(Len(layers) + 1)
        BY <4>1, <4>3
      <4>5. ShownUpTo(layers, dataset, adding'.kind, adding'.at)
        BY <4>1, <4>3 DEF ShownUpTo
      <4>6. layers' = layers /\ dataset' = dataset
        BY <3>1 DEF SameTree
      <4> QED
        BY <3>2, <4>1, <4>4, <4>5, <4>6 DEF AddingKept
    <3>4. FilesKept'
      BY <3>1 DEF LifeInvariant, FilesKept
    <3> QED
      BY <2>1, <3>1, <3>2, <3>3, <3>4, SameTreeKeepsPlugins DEF LifeInvariant
  <2>3. CASE PublishLayer
    BY <2>1, <2>3, PublishLayerKeeps DEF LifeInvariant
  <2>4. CASE InsertTreePlugin
    <3>1. SameTree /\ UNCHANGED <<walks, file, saving>> /\ adding' = None
      BY <2>4 DEF InsertTreePlugin, SameTree, fileVars
    <3>2. TreeKept' /\ WalksKept'
      BY <3>1, SameTreeKeeps, SameTreeWalks
    <3>3. AddingKept' /\ FilesKept'
      BY <3>1 DEF AddingKept, LifeInvariant, FilesKept
    <3> QED
      BY <2>1, <3>1, <3>2, <3>3, SameTreeKeepsPlugins DEF LifeInvariant
  <2>5. CASE AddPluginPanics
    BY <2>1, <2>5, AddPluginPanicsKeeps DEF LifeInvariant
  <2> QED
    BY <1>3, <2>2, <2>3, <2>4, <2>5 DEF PluginNext, PluginAdded, PluginsPanic
<1>4. CASE WalkNext
  <2>1. ObjectKept'
    BY <1>4 DEF WalkNext, pyVars, LifeInvariant, ObjectKept
  <2>2. PICK w \in Walker : StartWalk(w) \/ StepWalk(w) \/ EndWalk(w)
    BY <1>4 DEF WalkNext
  <2>3. WalksKept' /\ SameTree /\ UNCHANGED <<adding, file, saving>>
    BY <2>2, WalksStep
  <2>4. TreeKept' /\ AddingKept'
    BY <2>3, SameTreeKeeps, SameTreeAdding
  <2>5. FilesKept'
    BY <2>3 DEF LifeInvariant, FilesKept
  <2> QED
    BY <2>1, <2>3, <2>4, <2>5, SameTreeKeepsPlugins DEF LifeInvariant
<1> QED
  BY <1>1, <1>2, <1>3, <1>4 DEF Next

LEMMA LifeStep ==
  LifeInvariant /\ [Next]_vars => LifeInvariant' /\ [KeepsPlugins]_<<treeVars, fileVars, walks>>
<1> SUFFICES ASSUME LifeInvariant, [Next]_vars
             PROVE  LifeInvariant' /\ [KeepsPlugins]_<<treeVars, fileVars, walks>>
  OBVIOUS
<1>1. CASE Next
  BY <1>1, LifeNext
<1>2. CASE UNCHANGED vars
  <2>1. SameTree /\ UNCHANGED <<walks, adding, file, saving, object>>
    BY <1>2 DEF vars, pyVars, treeVars, fileVars, SameTree
  <2>2. TreeKept' /\ AddingKept' /\ WalksKept' /\ FilesKept'
    BY <2>1, UnchangedKeeps
  <2>3. ObjectKept'
    BY <2>1 DEF LifeInvariant, ObjectKept
  <2>4. UNCHANGED <<treeVars, fileVars, walks>>
    BY <1>2 DEF vars
  <2> QED
    BY <2>2, <2>3, <2>4 DEF LifeInvariant
<1> QED
  BY <1>1, <1>2

LEMMA LifeOfTheTree == Spec => []LifeInvariant
BY LifeInit, LifeStep, PTL DEF Spec

(* The tree in use is the tree that the builder made, but for the plugins, *)
(* whatever fits, refreshes, panics, saves, crashes and loads lie between: *)
(* every tree that is well built, every order of plugins, every cut of the *)
(* file.                                                                   *)
THEOREM TreesStayWhole == Spec => []TreeIsWhole
<1>1. LifeInvariant => TreeIsWhole
  <2> SUFFICES ASSUME LifeInvariant, Alive PROVE TreeIsWhole
    BY DEF TreeIsWhole
  <2> DEFINE shown == Shown(layers, dataset.minRes)
             D == DOMAIN dataset.nodes
  <2>1. FinalOf(final, dataset) /\ WellBuilt(dataset)
    BY DatasetAssumption DEF LifeInvariant, TreeKept
  <2>2. PICK V : Whole(layers, dataset, V)
    BY DEF LifeInvariant, TreeKept
  <2>3. DOMAIN shown = D
    BY <2>1, <2>2, WholeShows DEF Shown
  <2>4. \A na \in D : /\ CloneNode(shown[na]) = dataset.nodes[na]
                      /\ FinalPoints(shown[na]) = FinalPoints(dataset.nodes[na])
    <3> TAKE na \in D
    <3>1. shown[na] = ShownBy(layers, dataset.minRes, na)
      BY <2>1, <2>2, WholeShows DEF Shown
    <3> HIDE DEF shown
    <3>2. /\ CloneNode(shown[na]) = dataset.nodes[na]
          /\ shown[na] = WithMap(dataset.nodes[na], shown[na].plugins) /\ BareNode(dataset.nodes[na])
      BY <2>1, <2>2, <3>1, WholeShows
    <3> QED
      BY <3>2, SameFields
  <2>5. ASSUME NEW i \in DOMAIN layers, ~layers[i].second
        PROVE  DOMAIN layers[i].writing = DOMAIN layers[i].shown
    <3>1. i \in 1..Top(dataset)
      BY <2>1, <2>2, WholeShows
    <3>2. Settled(layers[i], LayerNodes(dataset, i), V)
      BY <2>2, <3>1 DEF Whole
    <3> QED
      BY <2>5, <3>2 DEF Settled, Plugged
  <2> HIDE DEF shown, D
  <2>6. DOMAIN final = UNION {FinalPoints(shown[na]) : na \in DOMAIN shown}
    <3>1. {FinalPoints(shown[na]) : na \in D} = {FinalPoints(dataset.nodes[na]) : na \in D}
      BY <2>4
    <3> QED
      BY <2>1, <2>3, <3>1 DEF FinalOf, D
  <2>7. \A p \in DOMAIN final : p \in FinalPoints(shown[final[p]])
    BY <2>1, <2>4 DEF FinalOf, D
  <2> QED
    BY <2>3, <2>4, <2>5, <2>6, <2>7 DEF TreeIsWhole, shown, D
<1> QED
  BY <1>1, LifeOfTheTree, PTL

(* A reader that saw a plugin on a node on its way down sees it on every   *)
(* node below, though layers are published one by one while it walks, and  *)
(* a panic leaves operations in a log that a later refresh shows.          *)
THEOREM WalkersMissNothing == Spec => []WalksMissNothing
<1>1. LifeInvariant => WalksMissNothing
  <2> SUFFICES ASSUME LifeInvariant, NEW w \in Walker PROVE walks[w].missed = {}
    BY DEF WalksMissNothing
  <2>1. walks[w] = [at |-> walks[w].at, seen |-> walks[w].seen, missed |-> {}]
    BY DEF LifeInvariant, WalksKept, WalkKept
  <2> QED
    BY <2>1
<1> QED
  BY <1>1, LifeOfTheTree, PTL

(* No refresh takes a plugin from a node that showed it: the copy that is  *)
(* brought up to date gets the operations it missed, though the second     *)
(* refresh of a layer clones nodes, and clones have no plugins.            *)
THEOREM PluginsAreKept == Spec => PluginsStay
<1>1. LifeInvariant /\ [Next]_vars => [KeepsPlugins]_<<treeVars, fileVars, walks>>
  BY LifeStep
<1> QED
  BY <1>1, LifeOfTheTree, PTL DEF Spec, PluginsStay

-----------------------------------------------------------------------------
(* The plugins of the tree in use.                                         *)
LEMMA PlanInit == PyInit => PlanInvariant
<1> SUFFICES ASSUME PyInit PROVE PlanInvariant
  OBVIOUS
<1>1. ~Alive /\ adding = None /\ treePlugins = {} /\ pending = <<>>
  BY DEF PyInit, Init, Alive
<1>2. object.plugins \in Seq(Kinds)
  <2>1. <<"labels", "dirichlet">> \in Seq(Kinds)
    BY DEF Kinds
  <2>2. CASE object = New(<<"labels", "dirichlet">>)
    BY <2>1, <2>2 DEF New
  <2>3. CASE object \in {Rust(plugins) : plugins \in Program}
    BY <2>3, ProgramAssumption DEF Rust
  <2> QED
    BY <2>2, <2>3 DEF PyInit
<1>3. pending \in Seq(Kinds)
  BY <1>1
<1> QED
  BY <1>1, <1>2, <1>3 DEF PlanInvariant, FitsKept, PlanKept, ToldKept

LEMMA BuildFits ==
  ASSUME NEW d \in Dataset, Build(d)
  PROVE  FitsKept' /\ ToldKept' /\ adding' = None
<1>1. WellBuilt(d)
  BY DatasetAssumption
<1>2. dataset' = d /\ layers' = BuiltLayers(d) /\ treePlugins' = {} /\ adding' = None
  BY DEF Build
<1> DEFINE ls == BuiltLayers(d)
<1>3. /\ Whole(ls, d, {})
      /\ \A i \in 1..Top(d) : ls[i].second /\ ls[i].shown = LayerNodes(d, i) /\ Pending(ls[i]) = <<>>
  BY <1>1, BuiltIsWhole
<1> HIDE DEF ls
<1>4. ASSUME NEW i \in 1..Top(d) PROVE LayerFits(ls[i], LayerNodes(d, i), d)
  <2> DEFINE layer == ls[i]
             N == LayerNodes(d, i)
             log == layer.log
             T == Updates(N, {})
  <2>1. Settled(layer, N, {}) /\ layer.second /\ layer.shown = N /\ Pending(layer) = <<>> /\ Bare(N)
    BY <1>1, <1>3, NodesOfLayer DEF Whole
  <2>2. layer.swap = 0 /\ log \in Seq(T)
    BY <2>1 DEF Settled
  <2>3. log = <<>>
    <3>1. SubSeq(log, 0 + 1, Len(log)) = <<>>
      BY <2>1, <2>2 DEF Pending
    <3> HIDE DEF log, T
    <3>2. SubSeq(log, 0 + 1, Len(log)) = log
      BY <2>2
    <3> QED
      BY <3>1, <3>2
  <2> HIDE DEF layer, N, log, T
  <2> QED
    BY <2>1, <2>3, BareFits DEF LayerFits, layer, N, log
<1>5. FitsKept'
  BY <1>2, <1>4 DEF FitsKept, TreeFits, ls
<1>6. ToldKept'
  BY <1>2 DEF ToldKept
<1> QED
  BY <1>2, <1>5, <1>6

(* Every node of the layer shows what add_plugin made of the layers below. *)
LEMMA ComponentsOfLayer ==
  ASSUME LifeInvariant, PlanInvariant, adding # None, adding.at <= Len(layers),
         NEW pis \in SUBSET DOMAIN Components(adding.at),
         \A pi \in pis : Components(adding.at)[pi] # Panic
  PROVE  TreeFits(With(layers, dataset, adding.at, adding.kind, Components(adding.at), pis), dataset)
         /\ TreeFits(Published(layers, dataset, adding.at, adding.kind, Components(adding.at), pis), dataset)
<1> DEFINE i == adding.at
           d == dataset
           kind == adding.kind
           components == Components(i)
<1>1. /\ d \in Dataset /\ WellBuilt(d) /\ (\E V : Whole(layers, d, V)) /\ i \in 1..Top(d)
      /\ ShownUpTo(layers, d, kind, i) /\ DOMAIN components = DOMAIN LayerNodes(d, i)
  BY LogOrPublish
<1>2. Sound(d)
  BY <1>1, DatasetAssumption DEF Sound
<1>3. kind \in Kinds /\ TreeFits(layers, d)
  BY DEF LifeInvariant, AddingKept, PlanInvariant, PlanKept, FitsKept
<1>4. PICK V : Whole(layers, d, V)
  BY <1>1
<1>5. \A pi \in DOMAIN LayerNodes(d, i) :
        components[pi] = NodeComponent(kind, d.cloud, layers[i].shown[pi], NodesShown(layers, d))
  BY <1>1 DEF Components, NodesShown
<1> HIDE DEF i, d, kind, components
<1>6. pis \in SUBSET DOMAIN LayerNodes(d, i) /\ \A pi \in pis : components[pi] # Panic
  BY <1>1 DEF components, i
<1>7. ComponentsFit(components, layers[i], kind, pis, LayerNodes(d, i), d)
  BY <1>1, <1>2, <1>3, <1>4, <1>5, <1>6, LayerComponentsFit
<1>8. Among(components, pis, LayerNodes(d, i))
  BY <1>1, <1>6 DEF Among
<1>9. TreeFits(With(layers, d, i, kind, components, pis), d)
      /\ TreeFits(Published(layers, d, i, kind, components, pis), d)
  BY <1>1, <1>3, <1>4, <1>7, <1>8, PublishTreeFits
<1> QED
  BY <1>9 DEF i, d, kind, components

LEMMA PublishLayerFits ==
  ASSUME LifeInvariant, PlanInvariant, PublishLayer
  PROVE  FitsKept'
<1> DEFINE components == Components(adding.at)
           pis == DOMAIN components
<1>1. /\ adding # None /\ adding.at <= Len(layers) /\ dataset' = dataset
      /\ \A pi \in pis : components[pi] # Panic
      /\ layers' = Published(layers, dataset, adding.at, adding.kind, components, pis)
  BY DEF PublishLayer, Published
<1> HIDE DEF Published
<1>2. TreeFits(Published(layers, dataset, adding.at, adding.kind, components, pis), dataset)
  BY <1>1, ComponentsOfLayer
<1> QED
  BY <1>1, <1>2 DEF FitsKept

LEMMA AddPluginPanicsFits ==
  ASSUME LifeInvariant, PlanInvariant, AddPluginPanics
  PROVE  FitsKept'
<1> DEFINE components == Components(adding.at)
<1>1. PICK pis \in SUBSET DOMAIN components :
        /\ \A pi \in pis : components[pi] # Panic
        /\ layers' = With(layers, dataset, adding.at, adding.kind, components, pis)
  BY DEF AddPluginPanics, With
<1>2. adding # None /\ adding.at <= Len(layers) /\ dataset' = dataset
  BY DEF AddPluginPanics
<1>3. TreeFits(With(layers, dataset, adding.at, adding.kind, components, pis), dataset)
  BY <1>1, <1>2, ComponentsOfLayer
<1> QED
  BY <1>1, <1>2, <1>3 DEF FitsKept

(* What the tree is told to have stays shown when nodes show no less.      *)
LEMMA ToldStays ==
  ASSUME ToldKept, Alive, Alive', Len(layers') = Len(layers), ShownStays(layers, layers', dataset),
         UNCHANGED <<dataset, treePlugins>>
  PROVE  ToldKept'
<1> SUFFICES ASSUME NEW kind \in treePlugins, NEW na \in DOMAIN dataset.nodes,
                    LayerOf(dataset.minRes, na) < Len(layers) + 1, HasComponent(kind, dataset.nodes[na])
             PROVE  kind \in ShownAt(layers', dataset, na)
  BY DEF ToldKept, ShownUpTo
<1>1. ShownUpTo(layers, dataset, kind, Len(layers) + 1)
  BY DEF ToldKept
<1> QED
  BY <1>1 DEF ShownUpTo, ShownStays

LEMMA SameTreeTold ==
  ASSUME PlanInvariant, SameTree
  PROVE  FitsKept' /\ (UNCHANGED treePlugins => ToldKept')
<1>1. dataset' = dataset /\ layers' = layers /\ Alive' = Alive
  BY DEF SameTree, Alive
<1> QED
  BY <1>1 DEF PlanInvariant, FitsKept, ToldKept

LEMMA PlanNext ==
  ASSUME LifeInvariant, PlanInvariant, Next
  PROVE  PlanInvariant'
<1> USE DEF PlanInvariant
<1>0. /\ object = [python |-> object.python, builder |-> object.builder, temp |-> object.temp,
                   plugins |-> object.plugins]
      /\ object.plugins \in Seq(Kinds) /\ pending \in Seq(Kinds)
      /\ adding # None => adding.kind \in Kinds /\ pending # <<>>
  BY DEF LifeInvariant, ObjectKept, PlanKept
<1>1. CASE PyNext
  <2>1. CASE \E d \in Dataset : LoadYamlConfig(d)
    <3>1. PICK d \in Dataset : LoadYamlConfig(d)
      BY <2>1
    <3>2. SameTree /\ UNCHANGED <<treePlugins, adding, pending>>
          /\ object' = [object EXCEPT !.builder = TRUE, !.temp = d]
      BY <3>1 DEF LoadYamlConfig, SameTree, treeVars
    <3>3. object'.plugins = object.plugins
      BY <1>0, <3>2
    <3> QED
      BY <1>0, <3>2, <3>3, SameTreeTold DEF PlanKept
  <2>2. CASE \E d \in Dataset \cup {None} : Fit(d)
    <3>1. PICK given \in Dataset \cup {None} : Fit(given)
      BY <2>2
    <3> DEFINE d == IF given # None THEN given ELSE object.temp
               temp == IF given # None THEN object.temp ELSE None
    <3>2. /\ d # None /\ Build(d) /\ object' = [object EXCEPT !.builder = FALSE, !.temp = temp]
          /\ pending' = object.plugins
      BY <3>1 DEF Fit
    <3>3. d \in Dataset
      BY <3>2 DEF LifeInvariant, ObjectKept
    <3> HIDE DEF d, temp
    <3>4. object'.plugins = object.plugins
      BY <1>0, <3>2
    <3>5. FitsKept' /\ ToldKept' /\ adding' = None
      BY <3>2, <3>3, BuildFits
    <3> QED
      BY <1>0, <3>2, <3>4, <3>5 DEF PlanKept
  <2>3. CASE FitPanics
    <3>1. SameTree /\ UNCHANGED <<treePlugins, adding, pending>>
          /\ object' = [object EXCEPT !.temp = None]
      BY <2>3 DEF FitPanics, SameTree, treeVars
    <3>2. object'.plugins = object.plugins
      BY <1>0, <3>1
    <3> QED
      BY <1>0, <3>1, <3>2, SameTreeTold DEF PlanKept
  <2> QED
    BY <1>1, <2>1, <2>2, <2>3 DEF PyNext
<1>2. CASE RustNext
  <2>1. object' = object
    BY <1>2 DEF RustNext
  <2>2. CASE pending' = object.plugins /\ \E d \in Dataset : Build(d)
    <3>1. FitsKept' /\ ToldKept' /\ adding' = None
      BY <2>2, BuildFits
    <3> QED
      BY <1>0, <2>1, <2>2, <3>1 DEF PlanKept
  <2>3. CASE pending' = object.plugins /\ Load
    <3>1. FitsKept'
      BY <2>3, LoadKeeps
    <3>2. ~Alive /\ treePlugins' = treePlugins /\ adding' = adding
      BY <2>3 DEF Load
    <3>3. adding = None
      BY <3>2 DEF LifeInvariant, AddingKept
    <3>4. ToldKept'
      BY <3>2 DEF ToldKept
    <3> QED
      BY <1>0, <2>1, <2>3, <3>1, <3>2, <3>3, <3>4 DEF PlanKept
  <2>4. CASE pending' = <<>> /\ Crash
    <3>1. ~Alive' /\ treePlugins' = {} /\ adding' = None
      BY <2>4 DEF Crash, Alive
    <3>2. pending' \in Seq(Kinds)
      BY <2>4
    <3> QED
      BY <1>0, <2>1, <3>1, <3>2 DEF PlanKept, FitsKept, ToldKept
  <2>5. CASE (BeginSave \/ WriteFields \/ EndSave) /\ UNCHANGED pending
    <3>1. SameTree /\ UNCHANGED <<treePlugins, adding, pending>>
      BY <2>5 DEF BeginSave, WriteFields, EndSave, treeVars, SameTree
    <3> QED
      BY <1>0, <2>1, <3>1, SameTreeTold DEF PlanKept
  <2> QED
    BY <1>2, <2>2, <2>3, <2>4, <2>5 DEF RustNext
<1>3. CASE PluginNext
  <2>1. CASE AddNextPlugin
    <3>1. /\ pending # <<>> /\ adding' = [kind |-> Head(pending), at |-> 1]
          /\ SameTree /\ UNCHANGED <<treePlugins, object, pending>>
      BY <2>1 DEF AddNextPlugin, BeginAddPlugin, SameTree, pyVars
    <3>2. Head(pending) \in Kinds
      BY <1>0, <3>1
    <3> QED
      BY <1>0, <3>1, <3>2, SameTreeTold DEF PlanKept
  <2>2. CASE PublishLayer /\ UNCHANGED pyVars
    <3>1. /\ Alive /\ Alive' /\ Len(layers') = Len(layers) /\ ShownStays(layers, layers', dataset)
          /\ adding = [kind |-> adding.kind, at |-> adding.at]
      BY <2>2, PublishLayerKeeps DEF PublishLayer, LifeInvariant, AddingKept
    <3>2. /\ adding # None /\ UNCHANGED <<dataset, treePlugins, object, pending>>
          /\ adding' = [adding EXCEPT !.at = adding.at + 1]
      BY <2>2 DEF PublishLayer, pyVars
    <3>3. adding'.kind = adding.kind
      BY <3>1, <3>2
    <3>4. FitsKept'
      BY <2>2, PublishLayerFits
    <3>5. ToldKept'
      BY <3>1, <3>2, ToldStays
    <3> QED
      BY <1>0, <3>2, <3>3, <3>4, <3>5 DEF PlanKept
  <2>3. CASE PluginAdded
    <3>1. /\ adding # None /\ adding.at > Len(layers)
          /\ treePlugins' = treePlugins \cup {adding.kind} /\ adding' = None
          /\ SameTree /\ UNCHANGED object /\ pending' = Tail(pending)
      BY <2>3 DEF PluginAdded, InsertTreePlugin, SameTree
    <3>2. /\ Alive /\ adding.at \in 1..(Len(layers) + 1)
          /\ ShownUpTo(layers, dataset, adding.kind, adding.at)
      BY <3>1 DEF LifeInvariant, AddingKept
    <3>3. adding.at = Len(layers) + 1
      <4>1. Len(layers) \in Nat
        <5>1. Len(layers) = Top(dataset)
          BY <3>2, DatasetAssumption, WholeShows DEF LifeInvariant, TreeKept
        <5> QED
          BY <3>2, <5>1, DatasetAssumption, NodesOfLayer DEF LifeInvariant, TreeKept
      <4> QED
        BY <3>1, <3>2, <4>1
    <3>4. dataset' = dataset /\ layers' = layers /\ Alive'
      BY <3>1, <3>2 DEF SameTree, Alive
    <3>5. ToldKept'
      BY <3>1, <3>2, <3>3, <3>4 DEF ToldKept
    <3>6. pending' \in Seq(Kinds)
      BY <1>0, <3>1
    <3> QED
      BY <1>0, <3>1, <3>5, <3>6, SameTreeTold DEF PlanKept
  <2>4. CASE PluginsPanic
    <3>1. AddPluginPanics /\ pending' = <<>> /\ object' = object
      BY <2>4 DEF PluginsPanic
    <3>2. adding' = None /\ UNCHANGED <<dataset, treePlugins>>
      BY <3>1 DEF AddPluginPanics
    <3>3. FitsKept'
      BY <3>1, AddPluginPanicsFits
    <3>4. Alive /\ Alive' /\ Len(layers') = Len(layers) /\ ShownStays(layers, layers', dataset)
      BY <3>1, AddPluginPanicsKeeps
    <3>5. ToldKept'
      BY <3>2, <3>4, ToldStays
    <3>6. pending' \in Seq(Kinds)
      BY <3>1
    <3> QED
      BY <1>0, <3>1, <3>2, <3>3, <3>5, <3>6 DEF PlanKept
  <2> QED
    BY <1>3, <2>1, <2>2, <2>3, <2>4 DEF PluginNext
<1>4. CASE WalkNext
  <2>1. SameTree /\ UNCHANGED <<treePlugins, adding, object, pending>>
    BY <1>4 DEF WalkNext, StartWalk, StepWalk, EndWalk, treeVars, SameTree, pyVars
  <2> QED
    BY <1>0, <2>1, SameTreeTold DEF PlanKept
<1> QED
  BY <1>1, <1>2, <1>3, <1>4 DEF Next

LEMMA PlanStep ==
  LifeInvariant /\ PlanInvariant /\ [Next]_vars => PlanInvariant'
<1> SUFFICES ASSUME LifeInvariant, PlanInvariant, [Next]_vars PROVE PlanInvariant'
  OBVIOUS
<1>1. CASE Next
  BY <1>1, PlanNext
<1>2. CASE UNCHANGED vars
  <2>1. SameTree /\ UNCHANGED <<treePlugins, adding, object, pending>>
    BY <1>2 DEF vars, pyVars, treeVars, SameTree
  <2> QED
    BY <2>1, SameTreeTold DEF PlanInvariant, PlanKept
<1> QED
  BY <1>1, <1>2

LEMMA PlanOfTheTree == Spec => []PlanInvariant
BY PlanInit, PlanStep, LifeOfTheTree, PTL DEF Spec

(* Describes looks at the address, the singletons and the children of a    *)
(* node, which are those that the builder gave it.                         *)
LEMMA DescribesSame ==
  ASSUME NEW m, NEW n, SameNode(m, n), NEW c, NEW kind, NEW d
  PROVE  Describes(c, kind, d, m) = Describes(c, kind, d, n)
<1>1. /\ m.address = n.address /\ m.singletons = n.singletons /\ m.children = n.children
  BY DEF SameNode
<1>2. ChildrenOf(m) = ChildrenOf(n) /\ NodeIsLeaf(m) = NodeIsLeaf(n)
  BY <1>1 DEF ChildrenOf, NodeIsLeaf
<1> QED
  BY <1>1, <1>2 DEF Describes

(* What a node shows of a plugin is true of the whole subtree below it,    *)
(* though it was made of what its children showed at the time, and some of *)
(* it waited in a log, or was brought to the other copy, and once the tree *)
(* has a plugin every node shows it.                                       *)
THEOREM PluginsDescribe == Spec => []PluginsDescribeSubtree
<1>1. LifeInvariant /\ PlanInvariant => PluginsDescribeSubtree
  <2> SUFFICES ASSUME LifeInvariant, PlanInvariant, Alive PROVE PluginsDescribeSubtree
    BY DEF PluginsDescribeSubtree
  <2> DEFINE d == dataset
             shown == NodesShown(layers, d)
  <2>1. d \in Dataset /\ WellBuilt(d) /\ TreeFits(layers, d)
    BY DatasetAssumption DEF LifeInvariant, TreeKept, PlanInvariant, FitsKept
  <2>2. PICK V : Whole(layers, d, V)
    BY DEF LifeInvariant, TreeKept
  <2> HIDE DEF d
  <2>3. /\ DOMAIN shown = DOMAIN d.nodes
        /\ \A na \in DOMAIN d.nodes : /\ shown[na] = ShownBy(layers, d.minRes, na)
                                      /\ SameNode(shown[na], d.nodes[na])
                                      /\ shown[na].count = d.nodes[na].count
                                      /\ \A kind : HasComponent(kind, shown[na]) = HasComponent(kind, d.nodes[na])
    BY <2>1, <2>2, ShownIs
  <2>4. Len(layers) = Top(d) /\ Top(d) \in Nat
        /\ \A na \in DOMAIN d.nodes : LayerOf(d.minRes, na) \in 1..Top(d)
    BY <2>1, <2>2, WholeShows, NodesOfLayer
  <2> HIDE DEF shown
  <2>5. ASSUME NEW na \in DOMAIN d.nodes, NEW kind \in DOMAIN shown[na].plugins
        PROVE  Describes(shown[na].plugins[kind], kind, d, shown[na])
    <3>1. kind \in ShownAt(layers, d, na)
      BY <2>3 DEF ShownAt
    <3>2. Describes(shown[na].plugins[kind], kind, d, d.nodes[na])
      BY <2>1, <2>2, <2>3, <3>1, ShownFits
    <3>3. SameNode(shown[na], d.nodes[na])
      BY <2>3
    <3> QED
      BY <3>2, <3>3, DescribesSame
  <2>6. ASSUME NEW na \in DOMAIN d.nodes, NEW kind \in treePlugins
        PROVE  kind \in DOMAIN shown[na].plugins
                 \/ (kind = "coverage" /\ shown[na].count >= MaxCoverage)
    <3>1. ShownUpTo(layers, d, kind, Len(layers) + 1)
      BY DEF PlanInvariant, ToldKept, d
    <3>2. LayerOf(d.minRes, na) < Len(layers) + 1
      BY <2>4
    <3>3. CASE HasComponent(kind, d.nodes[na])
      <4>1. kind \in ShownAt(layers, d, na)
        BY <3>1, <3>2, <3>3 DEF ShownUpTo
      <4> QED
        BY <2>3, <4>1 DEF ShownAt
    <3>4. CASE ~HasComponent(kind, d.nodes[na])
      <4>1. d.nodes[na].count \in Nat
        BY <2>1 DEF WellBuilt
      <4> QED
        BY <2>3, <3>4, <4>1, CoverageAssumption DEF HasComponent
    <3> QED
      BY <3>3, <3>4
  <2> QED
    BY <2>3, <2>5, <2>6 DEF PluginsDescribeSubtree, NodesShown, shown, d
<1> QED
  BY <1>1, LifeOfTheTree, PlanOfTheTree, PTL
=============================================================================
