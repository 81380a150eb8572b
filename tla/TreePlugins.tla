----------------------------- MODULE TreePlugins -----------------------------
(***************************************************************************)
(* The node components of the plugins (goko/src/plugins): what             *)
(* GokoPlugin::node_component makes of a node and of what its children     *)
(* show at that moment.                                                    *)
(***************************************************************************)
EXTENDS CoverLayer, Summaries, FiniteSetsExt

CONSTANTS
  MaxCoverage,  \* GokoCoverageIndexes::max
  Panic         \* an unwrap or an index that fails

ASSUME CoverageAssumption == MaxCoverage \in Nat

(* A cloud as the plugins see it: functions of the points, of which the    *)
(* labels may be fewer.  [labels, metadata |-> values or NoLabel,          *)
(* position |-> the one coordinate]                                        *)

Singletons(n) == SetToSeq(n.singletons)

(* The components that the children of n show, where shown[na] is the node *)
(* at na; a child that shows none is passed over: nothing, to be combined. *)
ChildComponents(n, shown, kind, nothing) ==
  LET kids == ChildrenOf(n)
      has(na) == na \in DOMAIN shown /\ kind \in DOMAIN shown[na].plugins
  IN [i \in DOMAIN kids |-> IF has(kids[i]) THEN shown[kids[i]].plugins[kind] ELSE nothing]

(* LabelSummaryPlugin and MetaSummaryPlugin; the summary of the singletons *)
(* indexes the values, a single point is looked up.                        *)
ValueOf(values, p) == IF p \in DOMAIN values THEN values[p] ELSE NoLabel

SummaryComponent(kind, values, n, shown) ==
  LET add(c, p) == CounterAdd(c, ValueOf(values, p), CategoryAdd(c.summary, ValueOf(values, p)))
      combine(c, o) == CounterCombine(c, o, CategoryCombine(c.summary, o.summary))
      bucket == FoldLeft(add, EmptyCounter(EmptyBag), Singletons(n))
  IN IF ~ (n.singletons \subseteq DOMAIN values) THEN Panic
     ELSE IF NodeIsLeaf(n) THEN add(bucket, PointIndex(n.address))
     ELSE FoldLeft(combine, bucket, ChildComponents(n, shown, kind, EmptyCounter(EmptyBag)))

(* GokoCoverageIndexes.                                                    *)
CoverageComponent(n, shown) ==
  IF NodeIsLeaf(n) THEN Append(Singletons(n), PointIndex(n.address))
  ELSE Singletons(n) \o FlattenSeq(ChildComponents(n, shown, "coverage", <<>>))

(* GokoDirichlet and GokoCategorical: a weight for each child and one for  *)
(* the singletons.  The categorical skips a child it does not find.        *)
DirichletComponent(n, shown) ==
  LET kids == ToSet(ChildrenOf(n))
  IN IF ~ (kids \subseteq DOMAIN shown) THEN Panic
     ELSE [b \in {SINGLETON} \cup kids |->
             IF b = SINGLETON THEN Cardinality(n.singletons) + 1 ELSE shown[b].count + 1]

CategoricalComponent(n, shown) ==
  [b \in {SINGLETON} \cup (ToSet(ChildrenOf(n)) \cap DOMAIN shown) |->
     IF b = SINGLETON THEN Cardinality(n.singletons) + (IF NodeIsLeaf(n) THEN 1 ELSE 0)
     ELSE shown[b].count]

(* GokoDiagGaussian::recursive, for one coordinate.                        *)
NewGaussian == [moment1 |-> 0, moment2 |-> 0, count |-> 0]
AddPoint(g, x) ==
  [moment1 |-> g.moment1 + x, moment2 |-> g.moment2 + x * x, count |-> g.count + 1]
Merge(g, o) ==
  [moment1 |-> g.moment1 + o.moment1, moment2 |-> g.moment2 + o.moment2,
   count |-> g.count + o.count]

(* Mutant: the center is added on every node, though the nested child has it.*)
GaussianAddsCenter(cloud, n, shown) ==
  LET add(g, p) == AddPoint(g, cloud.position[p])
      singles == FoldLeft(add, NewGaussian, Singletons(n))
  IN FoldLeft(Merge, add(singles, PointIndex(n.address)), ChildComponents(n, shown, "gaussian", NewGaussian))

GaussianComponent(cloud, n, shown) ==
  LET add(g, p) == AddPoint(g, cloud.position[p])
      singles == FoldLeft(add, NewGaussian, Singletons(n))
  IN IF NodeIsLeaf(n) THEN add(singles, PointIndex(n.address))
     ELSE FoldLeft(Merge, singles, ChildComponents(n, shown, "gaussian", NewGaussian))

(* P::node_component is None where a node covers too many points for the   *)
(* coverage; elsewhere it is a component, or Panic.                        *)
HasComponent(kind, n) == kind = "coverage" => n.count < MaxCoverage

Kinds == {"labels", "meta", "coverage", "dirichlet", "categorical", "gaussian"}

NodeComponent(kind, cloud, n, shown) ==
  CASE kind = "labels"      -> SummaryComponent(kind, cloud.labels, n, shown)
    [] kind = "meta"        -> SummaryComponent(kind, cloud.metadata, n, shown)
    [] kind = "coverage"    -> CoverageComponent(n, shown)
    [] kind = "dirichlet"   -> DirichletComponent(n, shown)
    [] kind = "categorical" -> CategoricalComponent(n, shown)
    [] kind = "gaussian"    -> GaussianComponent(cloud, n, shown)
=============================================================================
