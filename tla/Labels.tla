-------------------------------- MODULE Labels --------------------------------
(***************************************************************************)
(* The label sets of the pointcloud crate (label_sources and               *)
(* loaders/csv_loaders.rs): integers or vectors, with an optional mask     *)
(* that is FALSE where a point has no label.                               *)
(***************************************************************************)
EXTENDS PointSources, Summaries

CONSTANTS
  NoMask,  \* None, for a mask
  Missing  \* a record of a csv file without the column

(* What stands where there is no mask or no label is neither.              *)
ASSUME MaskAssumption == NoMask \notin Seq(BOOLEAN)
ASSUME NoLabelAssumption == NoLabel \notin Seq(Int) /\ LabelError \notin Int \cup Seq(Int)

(***************************************************************************)
(* SmallIntLabels.                                                         *)
(***************************************************************************)
IntLabels(labels, mask) == [kind |-> "int", labels |-> labels, mask |-> mask]

(* get: no label past the end.                                             *)
LabelAt(labels, i) == IF i < Len(labels) THEN labels[i + 1] ELSE NoLabel

IntLabel(L, i) ==
  IF L.mask = NoMask THEN Ok(LabelAt(L.labels, i))
  ELSE IF i >= Len(L.mask) THEN Panicked
  ELSE Ok(IF L.mask[i + 1] THEN LabelAt(L.labels, i) ELSE NoLabel)

(* The summary reads by index: what is past the end panics.                *)
AddsLabel(L, c, v) ==
  CounterAdd(c, v, IF L.kind = "int" THEN CategoryAdd(c.summary, v) ELSE VecAdd(c.summary, v))
Shown(L, i) == L.mask = NoMask \/ L.mask[i + 1]
SummaryOfAll(L, pns) ==
  IF \E k \in DOMAIN pns : Failed(IntLabel(L, pns[k])) \/ pns[k] >= Len(L.labels) THEN Panicked
  ELSE Ok(FoldLeft(LAMBDA c, i : AddsLabel(L, c, LabelAt(L.labels, i)), EmptyCounter(EmptyBag), pns))
IntLabelSummary(L, pns) ==
  IF \E k \in DOMAIN pns : \/ Failed(IntLabel(L, pns[k]))
                         \/ (Shown(L, pns[k]) /\ pns[k] >= Len(L.labels)) THEN Panicked
  ELSE Ok(FoldLeft(LAMBDA c, i : AddsLabel(L, c, IntLabel(L, i).val),
                   EmptyCounter(EmptyBag), pns))

IntMergeKeepsMask(L, o) ==
  [L EXCEPT !.labels = @ \o o.labels,
            !.mask = IF @ = NoMask THEN o.mask ELSE IF o.mask = NoMask THEN @ ELSE o.mask \o @]
IntMerge(L, o) ==
  LET labels == L.labels \o o.labels
      falses(n) == [k \in 1..n |-> FALSE]
  IN IntLabels(labels,
       IF L.mask # NoMask
       THEN L.mask \o (IF o.mask # NoMask THEN o.mask ELSE falses(Len(o.labels)))
       ELSE IF o.mask # NoMask THEN falses(Len(labels)) \o o.mask
       ELSE NoMask)

(***************************************************************************)
(* VecLabels: label_dim floats to a label, in a row. Its len() counts the  *)
(* floats.                                                                 *)
(***************************************************************************)
VecLabelsNew(labels, dim, mask) ==
  IF dim = 0 \/ Len(labels) % dim # 0 THEN Panicked
  ELSE Ok([kind |-> "vec", labels |-> labels, dim |-> dim, mask |-> mask])

ConvertToLabels(s) == VecLabelsNew(s.data, s.dim, NoMask)

VecLen(L) == Len(L.labels)
VecAt(L, i) ==
  IF L.dim * (i + 1) > Len(L.labels) THEN NoLabel
  ELSE SubSeq(L.labels, L.dim * i + 1, L.dim * (i + 1))

VecLabel(L, i) ==
  IF L.mask = NoMask THEN Ok(VecAt(L, i))
  ELSE IF i >= Len(L.mask) THEN Panicked
  ELSE Ok(IF L.mask[i + 1] THEN VecAt(L, i) ELSE NoLabel)

VecLabelSummary(L, pns) ==
  IF \E k \in DOMAIN pns : \/ Failed(VecLabel(L, pns[k]))
                         \/ (Shown(L, pns[k]) /\ VecAt(L, pns[k]) = NoLabel) THEN Panicked
  ELSE Ok(FoldLeft(LAMBDA c, i : AddsLabel(L, c, VecLabel(L, i).val),
                   EmptyCounter(NoVecs), pns))

(* A float above a half is hot; here floats are whole.                     *)
Hot(x) == x > 0
MaskOf(L) == IF L.mask = NoMask THEN [k \in 1..VecLen(L) |-> TRUE] ELSE L.mask

(* one_hot_to_int: the first hot coordinate, or none. It runs to len(),    *)
(* and unwraps what it finds there.                                        *)
OneHotToInt(L) ==
  LET rows == [k \in 1..VecLen(L) |-> VecAt(L, k - 1)]
      hots(k) == {d \in 1..L.dim : Hot(rows[k][d])}
      label(k) == IF hots(k) = {} THEN L.dim ELSE Min(hots(k)) - 1
  IN IF \E k \in DOMAIN rows : rows[k] = NoLabel THEN Panicked
     ELSE Ok(IntLabels([k \in DOMAIN rows |-> label(k)],
                       [k \in DOMAIN rows |-> MaskOf(L)[k] /\ label(k) # L.dim]))

(* binary_to_int: one float to a label, so len() is right.                 *)
BinaryToInt(L) ==
  IF L.dim # 1 THEN Panicked
  ELSE Ok(IntLabels([k \in 1..VecLen(L) |-> IF Hot(L.labels[k]) THEN 1 ELSE 0], MaskOf(L)))

(***************************************************************************)
(* open_int_csv: a column of a csv file. A value that is not positive, and *)
(* a record without the column, is masked; a file without any has no mask. *)
(***************************************************************************)
RowValue(row) == IF row = Missing THEN 0 ELSE row
RowIsLabel(row) == row # Missing /\ 0 < row
OpenIntCsv(rows) ==
  LET mask == [k \in DOMAIN rows |-> RowIsLabel(rows[k])]
  IN Ok(IntLabels([k \in DOMAIN rows |-> RowValue(rows[k])],
                  IF \E k \in DOMAIN rows : ~mask[k] THEN mask ELSE NoMask))
(***************************************************************************)
(* The two of them as LabelSet.                                            *)
(***************************************************************************)
LabelOf(L, i) == IF L.kind = "int" THEN IntLabel(L, i) ELSE VecLabel(L, i)
LabelSummaryOf(L, pns) ==
  IF L.kind = "int" THEN IntLabelSummary(L, pns) ELSE VecLabelSummary(L, pns)
=============================================================================
