------------------------------ MODULE Summaries ------------------------------
(***************************************************************************)
(* Summaries of labels (pointcloud/src/summaries and SummaryCounter of     *)
(* base_traits.rs), which combine as the sets of points they describe do.  *)
(***************************************************************************)
EXTENDS Integers, Sequences, Bags

CONSTANTS
  NoLabel,     \* Ok(None): the point has no label
  LabelError   \* Err: the label could not be read

ASSUME LabelAssumption == NoLabel # LabelError

(* CategorySummary and StringSummary: how often each value occurs. *)
CategoryAdd(s, v) == s (+) SetToBag({v})
CategoryCombine(s, o) == s (+) o

(* VecSummary: the first vector is not counted.                            *)
NoVecs == [m1 |-> <<>>, m2 |-> <<>>, count |-> 0]
AddEach(xs, ys) == [i \in DOMAIN xs |-> IF i \in DOMAIN ys THEN xs[i] + ys[i] ELSE xs[i]]
Squares(v) == [i \in DOMAIN v |-> v[i] * v[i]]
VecAdd(s, v) ==
  IF s.m1 = <<>> THEN [s EXCEPT !.m1 = v, !.m2 = Squares(v)]
  ELSE [m1 |-> AddEach(s.m1, v), m2 |-> AddEach(s.m2, Squares(v)), count |-> s.count + 1]

(* SummaryCounter, over any of them. *)
EmptyCounter(empty) == [summary |-> empty, nones |-> 0, errors |-> 0]

(* added, combined: the summary with the value, or with the other one. *)
CounterAdd(c, v, added) ==
  IF v = LabelError THEN [c EXCEPT !.errors = @ + 1]
  ELSE IF v = NoLabel THEN [c EXCEPT !.nones = @ + 1]
  ELSE [c EXCEPT !.summary = added]

CounterCombine(c, o, combined) ==
  [summary |-> combined, nones |-> c.nones + o.nones,
   errors |-> c.errors + o.errors]
=============================================================================
