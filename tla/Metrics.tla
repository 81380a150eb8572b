-------------------------------- MODULE Metrics --------------------------------
(***************************************************************************)
(* The metrics of the pointcloud crate (metrics/): L1 and L2 over dense    *)
(* slices, taken in lanes of sixteen, then eight, then one by one, and     *)
(* over sparse points, two sorted lists of indexes walked side by side.    *)
(* Coordinates are raw machine words of a base type; a sum stands for the  *)
(* f32 it is computed in, without rounding, and Sqrt for its square root.  *)
(***************************************************************************)
EXTENDS Integers, Sequences, Functions

CONSTANTS
  Wide,   \* lanes of the wide registers, 16 in the code
  Narrow, \* lanes of the narrow ones, 8 in the code
  SignBit \* the highest bit of the small integer types, 128 in the code

ASSUME LanesAssumption == Narrow \in Nat \ {0} /\ Wide = 2 * Narrow
ASSUME SignBitAssumption == SignBit \in Nat \ {0}

Bases == {"f32", "unsigned", "signed"}

(* What from_cast and "as f32" make of a word: the sign bit of a signed    *)
(* type counts down. An f32 is its own value.                              *)
AsF32(base, word) ==
  IF base = "signed" /\ word >= SignBit THEN word - 2 * SignBit ELSE word

DenseSlice(base, x) == [k \in DOMAIN x |-> AsF32(base, x[k])]

Abs(d) == IF d < 0 THEN -d ELSE d
Sqrt(total) == [sqrt |-> total]

(* What a coordinate's difference adds to the sum.                         *)
L2Term(d) == d * d
L1Term(d) == Abs(d)
Term(metric, d) == IF metric = "L2" THEN L2Term(d) ELSE L1Term(d)

SumOver(S, F(_)) == SumFunction([k \in S |-> F(k)])

(* The lanes a slice of n coordinates is cut into: wide registers while    *)
(* more than Wide are left, one narrow if more than Narrow are, the rest.  *)
WideSteps(n) == IF n > Wide THEN (n - 1) \div Wide ELSE 0
NarrowSteps(n) == IF n - Wide * WideSteps(n) > Narrow THEN 1 ELSE 0
WideLanes(n) == 1..(Wide * WideSteps(n))
NarrowLanes(n) == {Wide * WideSteps(n) + k : k \in 1..(Narrow * NarrowSteps(n))}
Leftover(n) == (Wide * WideSteps(n) + Narrow * NarrowSteps(n) + 1)..n

(* leftover + d_acc_8.sum() + d_acc_16.sum()                               *)
InLanes(terms) ==
  LET n == Len(terms)
      sum(lanes) == SumOver(lanes, LAMBDA k : terms[k])
  IN sum(Leftover(n)) + sum(NarrowLanes(n)) + sum(WideLanes(n))

SqL2DenseF32(x, y) == InLanes([k \in DOMAIN y |-> L2Term(x[k] - y[k])])
SqL2NormF32(x) == InLanes([k \in DOMAIN x |-> L2Term(x[k])])
L1DenseF32(x, y) == InLanes([k \in DOMAIN y |-> L1Term(x[k] - y[k])])
L1NormF32(x) == InLanes([k \in DOMAIN x |-> L1Term(x[k])])

(* The small integer types are converted before they are subtracted.       *)
SqL2DenseInt(base, x, y) ==
  InLanes([k \in DOMAIN y |-> L2Term(AsF32(base, x[k]) - AsF32(base, y[k]))])
SqL2NormInt(base, x) == InLanes([k \in DOMAIN x |-> L2Term(AsF32(base, x[k]))])
L1DenseInt(base, x, y) ==
  InLanes([k \in DOMAIN y |-> L1Term(AsF32(base, x[k]) - AsF32(base, y[k]))])
L1NormInt(base, x) == InLanes([k \in DOMAIN x |-> L1Term(AsF32(base, x[k]))])

(***************************************************************************)
(* A raw sparse point: dim, the indexes of its coordinates in increasing   *)
(* order and their values. The longer list is walked as the shorter is.    *)
(***************************************************************************)
Swaps(x, y) == Len(x.indexes) > Len(y.indexes)
Short(x, y) == IF Swaps(x, y) THEN y ELSE x
Long(x, y) == IF Swaps(x, y) THEN x ELSE y

(* Drops what is left of the long list when the short one has ended.       *)
MergedButTheTail(metric, s, l) ==
  LET walk[at \in (1..(Len(s.indexes) + 1)) \X (1..(Len(l.indexes) + 1))] ==
        LET i == at[1]
            j == at[2]
        IN IF i > Len(s.indexes) THEN 0
           ELSE IF j <= Len(l.indexes) /\ l.indexes[j] < s.indexes[i]
             THEN Term(metric, l.values[j]) + walk[<<i, j + 1>>]
           ELSE IF j <= Len(l.indexes) /\ l.indexes[j] = s.indexes[i]
             THEN Term(metric, s.values[i] - l.values[j]) + walk[<<i + 1, j + 1>>]
           ELSE Term(metric, s.values[i]) + walk[<<i + 1, j>>]
  IN walk[<<1, 1>>]

Merged(metric, s, l) ==
  LET walk[at \in (1..(Len(s.indexes) + 1)) \X (1..(Len(l.indexes) + 1))] ==
        LET i == at[1]
            j == at[2]
        IN IF i > Len(s.indexes)
             THEN SumOver(j..Len(l.indexes), LAMBDA k : Term(metric, l.values[k]))
           ELSE IF j <= Len(l.indexes) /\ l.indexes[j] < s.indexes[i]
             THEN Term(metric, l.values[j]) + walk[<<i, j + 1>>]
           ELSE IF j <= Len(l.indexes) /\ l.indexes[j] = s.indexes[i]
             THEN Term(metric, s.values[i] - l.values[j]) + walk[<<i + 1, j + 1>>]
           ELSE Term(metric, s.values[i]) + walk[<<i + 1, j>>]
  IN walk[<<1, 1>>]

(* Values are converted as they are met; an empty point is its own case:   *)
(* the norm of the other one.                                              *)
SparseSum(metric, base, x, y, normX, normY) ==
  LET converted(p) == [p EXCEPT !.values = DenseSlice(base, @)]
  IN IF x.values = <<>> /\ y.values = <<>> THEN 0
     ELSE IF y.values = <<>> THEN normX
     ELSE IF x.values = <<>> THEN normY
     ELSE Merged(metric, converted(Short(x, y)), converted(Long(x, y)))

SqL2SparseF32(x, y) ==
  SparseSum("L2", "f32", x, y, SqL2NormF32(x.values), SqL2NormF32(y.values))
L1SparseF32(x, y) ==
  SparseSum("L1", "f32", x, y, L1NormF32(x.values), L1NormF32(y.values))
SqL2SparseInt(base, x, y) ==
  SparseSum("L2", base, x, y, SqL2NormInt(base, x.values), SqL2NormInt(base, y.values))
L1SparseInt(base, x, y) ==
  SparseSum("L1", base, x, y, L1NormInt(base, x.values), L1NormInt(base, y.values))

(* Metric::dist, of L2 and of L1, for f32 and for the other base types.    *)
L2Dist(base, x, y) ==
  Sqrt(IF base = "f32" THEN SqL2DenseF32(x, y) ELSE SqL2DenseInt(base, x, y))
L1Dist(base, x, y) ==
  Sqrt(IF base = "f32" THEN L1DenseF32(x, y) ELSE L1DenseInt(base, x, y))
L2SparseDist(base, x, y) ==
  Sqrt(IF base = "f32" THEN SqL2SparseF32(x, y) ELSE SqL2SparseInt(base, x, y))
L1SparseDist(base, x, y) ==
  Sqrt(IF base = "f32" THEN L1SparseF32(x, y) ELSE L1SparseInt(base, x, y))

(* PointRef: a sparse point as a dense vector, and as the iterator over it *)
(* that ends with the last coordinate the point stores.                    *)
Dense(base, p) ==
  [k \in 1..p.dim |->
     IF \E s \in DOMAIN p.indexes : p.indexes[s] = k - 1
     THEN AsF32(base, p.values[CHOOSE s \in DOMAIN p.indexes : p.indexes[s] = k - 1])
     ELSE 0]
DenseIter(base, p) ==
  IF p.indexes = <<>> THEN <<>> ELSE SubSeq(Dense(base, p), 1, p.indexes[Len(p.indexes)] + 1)
=============================================================================
