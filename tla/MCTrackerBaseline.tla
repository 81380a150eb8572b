-------------------------- MODULE MCTrackerBaseline --------------------------
(* A root with a leaf and a child that has a leaf of its own, for TLC;     *)
(* ln_gamma and digamma at whole numbers in thousandths.                   *)
EXTENDS TrackerBaseline

CONSTANTS a, b, c

MCPaths == {<<TreeRoot>>, <<TreeRoot, a>>, <<TreeRoot, a, c>>, <<TreeRoot, b>>}

MCPrior == {<<TreeRoot, a>>, <<TreeRoot, b>>, <<a, c>>} \cup (TreeNode \X {Singleton})

MCAlpha ==
  [bucket \in MCPrior |-> CASE bucket[2] = a -> 3 [] bucket[2] \in {b, c} -> 2 [] OTHER -> 1]

MCLnGamma ==
  <<0, 0, 693, 1792, 3178, 4787, 6579, 8525, 10605, 12802, 15104, 17502, 19987, 22552,
    25191, 27899, 30672, 33505, 36395, 39340, 42336>>
MCDigamma == <<-577, 423, 923, 1256, 1506, 1706, 1873, 2016, 2141, 2252, 2352, 2443>>
=============================================================================
