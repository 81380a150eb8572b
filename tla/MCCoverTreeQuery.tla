-------------------------- MODULE MCCoverTreeQuery --------------------------
(* Queries to the trees over one small cloud, for TLC. *)
EXTENDS CoverTreeQuery

CONSTANTS Cutoffs, MinRes, SingletonChoices, FirstChoices

AbsDiff(x, y) == IF x > y THEN x - y ELSE y - x

\* with ties; and a point alone on one side of the center, two together on the other
Places == {<<0, 2, 4, 5>>, <<8, 0, 0, 4>>}

MCClouds == {[pq \in Point \X Point |-> AbsDiff(xs[pq[1]], xs[pq[2]])] : xs \in Places}

MCSettings ==
  [cloud: MCClouds, first: FirstChoices, cutoff: Cutoffs, minRes: MinRes,
   singletons: SingletonChoices]
=============================================================================
