-------------------------- MODULE MCCoverTreeBuild --------------------------
(* Clouds on a line, or in the plane under the maximum norm, for TLC. *)
EXTENDS CoverTreeBuild, BuilderConfig

CONSTANTS
  Clouds       \* positions of the points

AbsDiff(x, y) == IF x > y THEN x - y ELSE y - x

MaxNorm(at) ==
  [pq \in Point \X Point |->
     LargerOf(AbsDiff(at[pq[1]][1], at[pq[2]][1]), AbsDiff(at[pq[1]][2], at[pq[2]][2]))]

OnLine(xs) == [p \in Point |-> <<xs[p], 0>>]

\* with ties, with duplicates, and all points the same, so that the root has no scale
MCLines == {OnLine(xs) : xs \in {<<0, 2, 3, 4>>, <<3, 3, 0, 0>>, <<7, 7, 7, 7>>}}

Yaml(partition, cutoff, minRes, singletons) ==
  [partition_type |-> partition, leaf_cutoff |-> cutoff, min_res_index |-> minRes,
   use_singletons |-> singletons]

\* a builder of its own, one from a file, and one from a file that is set afterwards; a cutoff below 0
MCBuilders ==
  {SetUseSingletons(SetLeafCutoff(SetMinResIndex(b, 0), cutoff), singletons) :
     b \in {FromYaml(Yaml("first", Absent, 0, Absent)), NewBuilder}, cutoff \in {0, 2},
     singletons \in BOOLEAN}
    \cup {FromYaml(Yaml(partition, cutoff, minRes, Absent)) :
            partition \in {Absent, "first"}, cutoff \in {Absent, -1}, minRes \in {Absent, 0}}
    \cup {FromYaml(Yaml(partition, Absent, 0, FALSE)) : partition \in {Absent, "first"}}

MCSettings == {ParametersOf(b, MaxNorm(at)) : b \in MCBuilders, at \in Clouds}
=============================================================================
