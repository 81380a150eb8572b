---------------------------- MODULE TrackerBaseline ----------------------------
(***************************************************************************)
(* What the counts of a tracker are turned into, and the baseline built    *)
(* from them (tracker.rs, small.rs, baseline.rs): a builder feeds paths to *)
(* a tracker, keeps what it says after every few of them, and tells by     *)
(* leaving one out which nodes stand out.  Divergences and likelihoods are *)
(* those of Dirichlet, of a node's counts at once.                         *)
(***************************************************************************)
EXTENDS TrackerWindow

CONSTANTS
  Alpha,            \* the prior of each bucket of Prior
  TotalOverall,     \* the overall tracker's prior total: points and nodes
  LnGamma, Digamma, \* at whole numbers
  Intervals,        \* observation intervals of a builder
  NoBuilder

ASSUME BaselineAssumption ==
  /\ Alpha \in [Prior -> Nat \ {0}] /\ Intervals \subseteq Nat \ {0}
  /\ \A n \in TreeNode : <<n, Singleton>> \in Prior

VARIABLE builder

bvars == <<vars, builder>>

SumOver(S, f(_)) == SumFunction([x \in S |-> f(x)])

(* kl_div and mll of a tracker with these observations of these buckets. *)
Divergence(buckets, alpha, total, obs) ==
  LET n == SumOver(buckets, LAMBDA b : obs[b])
      seen == {b \in buckets : obs[b] > 0}
      grown(b) == LnGamma[alpha[b] + obs[b]] - LnGamma[alpha[b]]
  IN [kl |-> LnGamma[total] - LnGamma[n + total]
             + SumOver(seen, LAMBDA b : grown(b) - obs[b] * (Digamma[alpha[b]] - Digamma[total])),
      mll |-> LnGamma[total] + LnGamma[n + 1] - LnGamma[n + total]
              + SumOver(seen, LAMBDA b : grown(b) - LnGamma[obs[b] + 1])]

BucketsOf(n) == {b \in Prior : b[1] = n}

DivergenceAt(n, obs) ==
  Divergence(BucketsOf(n), Alpha, SumOver(BucketsOf(n), LAMBDA b : Alpha[b]), obs)

(* Of the tables only that a prior diverges by no less than nothing from   *)
(* what any observations make of it, that a likelihood is one (no value of *)
(* mll is above that of certainty), and that values are whole: what        *)
(* rounding adds to a value is left out.                                   *)
ASSUME GammaAssumption ==
  \A n \in TreeNode : \A obs \in [BucketsOf(n) -> 0..MaxPaths] :
    DivergenceAt(n, obs).kl \in Nat /\ DivergenceAt(n, obs).mll \in Int /\ DivergenceAt(n, obs).mll <= 0

NodeDivergence(t, n) == DivergenceAt(n, [b \in BucketsOf(n) |-> t.observations[b]])

OverallDivergence(t) ==
  Divergence(TreeNode, [n \in TreeNode |-> Alpha[<<n, Singleton>>]], TotalOverall, t.overall)

(* BayesCovertree::small leaves out the nodes where nothing is to be said. *)
Small(t) ==
  LET moved == {n \in TreeNode : LET d == NodeDivergence(t, n) IN d.kl > 0 \/ d.mll < 0}
  IN [overall |-> OverallDivergence(t), nodes |-> [n \in moved |-> NodeDivergence(t, n)]]

(* BayesCovertree::stats, over the divergences of all the nodes. *)
KlStats(t) ==
  LET nonZero == {n \in TreeNode : NodeDivergence(t, n).kl > 0}
      kl(n) == NodeDivergence(t, n).kl
  IN [count |-> Cardinality(nonZero), moment1 |-> SumOver(nonZero, kl),
      moment2 |-> SumOver(nonZero, LAMBDA n : kl(n) * kl(n)),
      sequenceLen |-> SequenceLen(t)]

-----------------------------------------------------------------------------
(* BayesNodeMoments *)
NoMoments ==
  [kl1 |-> 0, mll1 |-> 0, kl2 |-> 0, mll2 |-> 0,
   max1 |-> 0, max2 |-> 0, min1 |-> 0, min2 |-> 0, count |-> 0]

(* Mutant: the second is set after the first. *)
UpdateFirstFirst(m, d) ==
  [kl1 |-> m.kl1 + d.kl, mll1 |-> m.mll1 + d.mll,
   kl2 |-> m.kl2 + d.kl * d.kl, mll2 |-> m.mll2 + d.mll * d.mll,
   max1 |-> IF d.kl > m.max1 THEN d.kl ELSE m.max1,
   max2 |-> IF d.kl > m.max1 THEN d.kl ELSE m.max2,
   min1 |-> IF d.mll < m.min1 THEN d.mll ELSE m.min1,
   min2 |-> IF d.mll < m.min1 THEN d.mll ELSE m.min2,
   count |-> m.count + 1]

(* Only a new extreme moves the second one: a value between the two is not *)
(* noticed, nor is one that equals the first.                              *)
Update(m, d) ==
  [kl1 |-> m.kl1 + d.kl, mll1 |-> m.mll1 + d.mll,
   kl2 |-> m.kl2 + d.kl * d.kl, mll2 |-> m.mll2 + d.mll * d.mll,
   max1 |-> IF d.kl > m.max1 THEN d.kl ELSE m.max1,
   max2 |-> IF d.kl > m.max1 THEN m.max1 ELSE m.max2,
   min1 |-> IF d.mll < m.min1 THEN d.mll ELSE m.min1,
   min2 |-> IF d.mll < m.min1 THEN m.min1 ELSE m.min2,
   count |-> m.count + 1]

(* Means are kept as a sum and a count; deviations are left out. *)
Stats(m) ==
  [klSum |-> m.kl1, mllSum |-> m.mll1, of |-> m.count, maxKl |-> m.max1, minMll |-> m.min1]

StatsSans(m, d) ==
  [klSum |-> m.kl1 - d.kl, mllSum |-> m.mll1 - d.mll, of |-> m.count - 1,
   maxKl |-> IF m.max1 = d.kl THEN m.max2 ELSE m.max1,
   minMll |-> IF m.min1 = d.mll THEN m.min2 ELSE m.min1]

NewBuilder(interval) ==
  [interval |-> interval, count |-> 0, points |-> <<>>, overall |-> NoMoments,
   nodes |-> [n \in {} |-> NoMoments]]

Observed(bl, d) ==
  [bl EXCEPT !.points = Append(@, d),
             !.overall = Update(@, d.overall),
             !.nodes = [n \in DOMAIN @ \cup DOMAIN d.nodes |->
                          LET m == IF n \in DOMAIN bl.nodes THEN bl.nodes[n] ELSE NoMoments
                          IN IF n \in DOMAIN d.nodes THEN Update(m, d.nodes[n]) ELSE m]]

(* BayesCovertreeBaselineBuilder::add_path, after its tracker's. *)
Counted(bl, t) ==
  LET counted == [bl EXCEPT !.count = @ + 1]
  IN IF counted.count % bl.interval = 0 THEN Observed(counted, Small(t)) ELSE counted

(* loo_violators: data points and nodes. It asserts of every divergence it *)
(* leaves out that its mll is not positive.                                *)
LooPanics(bl) == \E k \in DOMAIN bl.points : \E n \in DOMAIN bl.points[k].nodes : bl.points[k].nodes[n].mll > 0
Violators(bl) ==
  {v \in (DOMAIN bl.points) \X TreeNode :
     /\ v[2] \in DOMAIN bl.points[v[1]].nodes /\ bl.nodes[v[2]].count > 1
     /\ LET d == bl.points[v[1]].nodes[v[2]]
            sans == StatsSans(bl.nodes[v[2]], d)
        IN d.kl > sans.maxKl \/ d.mll < sans.minMll}

-----------------------------------------------------------------------------
BInit == Init /\ builder = NoBuilder

(* A tracker may have a past before a builder takes it. *)
BBefore ==
  /\ builder = NoBuilder
  /\ (\E p \in Paths : Add(p)) \/ (\E w \in NewWindows : NewWindow(w))
  /\ UNCHANGED builder

BNew(interval) ==
  /\ builder = NoBuilder
  /\ builder' = NewBuilder(interval)
  /\ UNCHANGED vars

BAddPath(p) ==
  /\ builder # NoBuilder
  /\ Add(p)
  /\ builder' = Counted(builder, tracker')

BNext == BBefore \/ (\E i \in Intervals : BNew(i)) \/ (\E p \in Paths : BAddPath(p))

BSpec == BInit /\ [][BNext]_bvars

-----------------------------------------------------------------------------
KlAt(d, n) == IF n \in DOMAIN d.nodes THEN d.nodes[n].kl ELSE 0
MllAt(d, n) == IF n \in DOMAIN d.nodes THEN d.nodes[n].mll ELSE 0

(* A baseline is that of its data points: as many as reported the node,    *)
(* with their largest divergence; and the statistics a client asks for     *)
(* when a point has just been taken are those the point reports.           *)
BaselineIsOfPoints ==
  /\ \A n \in DOMAIN builder.nodes :
       LET at == {k \in DOMAIN builder.points : n \in DOMAIN builder.points[k].nodes}
           stats == Stats(builder.nodes[n])
       IN /\ stats.of = Cardinality(at)
          /\ stats.klSum = SumOver(at, LAMBDA k : KlAt(builder.points[k], n))
          /\ stats.maxKl = Max({KlAt(builder.points[k], n) : k \in at})
  /\ builder.count > 0 /\ builder.count % builder.interval = 0 =>
       LET point == builder.points[Len(builder.points)]
       IN KlStats(tracker).moment1 = SumOver(TreeNode, LAMBDA n : KlAt(point, n))

(* Leave one out: a data point that diverges at a node more than all the   *)
(* others do is found, although of the others only the sums and the two    *)
(* extremes are kept, and one that another exceeds on both counts is not.  *)
(* (Of points that tie for the extreme nothing is said.) Asking for them   *)
(* does not panic.                                                         *)
LeaveOneOut ==
  /\ ~LooPanics(builder)
  /\ \A k \in DOMAIN builder.points : \A n \in DOMAIN builder.points[k].nodes :
       LET d == builder.points[k]
           others == {builder.points[j] : j \in DOMAIN builder.points \ {k}}
       IN /\ builder.nodes[n].count > 1 /\ (\A o \in others : KlAt(o, n) < KlAt(d, n))
               => <<k, n>> \in Violators(builder)
          /\ (\E o \in others : KlAt(o, n) > KlAt(d, n)) /\ (\E o \in others : MllAt(o, n) < MllAt(d, n))
               => <<k, n>> \notin Violators(builder)

(* What a builder keeps of its data points is enough to report them and to *)
(* find those that stand out.                                              *)
OutliersAreFound == builder # NoBuilder => BaselineIsOfPoints /\ LeaveOneOut
=============================================================================
