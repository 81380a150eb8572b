---------------------------- MODULE DiscreteCounts ----------------------------
(***************************************************************************)
(* What a DiscreteData promises: a count per address, zero for those it    *)
(* never saw, and the sum of the counts.                                   *)
(***************************************************************************)
EXTENDS Integers, Functions

CONSTANTS
  Loc,
  Amounts,  \* what may be added to a count, or taken from it
  Others    \* counts that may be merged into these

VARIABLES counts, total

vars == <<counts, total>>

Empty == [l \in Loc |-> 0]

Init == counts = Empty /\ total = 0

Add(l, n) == counts' = [counts EXCEPT ![l] = @ + n]

(* A count does not go below zero. *)
Remove(l, n) == counts' = [counts EXCEPT ![l] = IF @ > n THEN @ - n ELSE 0]

Merge(other) == counts' = [l \in Loc |-> counts[l] + other[l]]

MovedAway == counts' = Empty

Next ==
  /\ \/ \E l \in Loc, n \in Amounts : Add(l, n) \/ Remove(l, n)
     \/ \E other \in Others : Merge(other)
     \/ MovedAway
  /\ total' = SumFunction(counts')

Spec == Init /\ [][Next]_vars
=============================================================================
