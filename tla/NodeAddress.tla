----------------------------- MODULE NodeAddress -----------------------------
(***************************************************************************)
(* NodeAddress (core_goko/src/lib.rs): a scale and a point packed in one   *)
(* word, the scale shifted by an offset above the bits of the point.       *)
(* In the code the offset is 64, there are 2^9 scales and 2^55 points.     *)
(***************************************************************************)
EXTENDS Integers, Sequences, SequencesExt

CONSTANTS
  Offset,      \* what is added to the scale
  ScaleRange,  \* the number of scales
  PointRange,  \* the number of point indexes
  None         \* Option::None

ASSUME NodeAddressAssumption ==
  /\ Offset \in Nat
  /\ ScaleRange \in Nat /\ ScaleRange > Offset
  /\ PointRange \in Nat \ {0}

SINGLETON == PointRange - 1

(* What From asserts of the pair it packs. *)
Packable(s, p) ==
  /\ s >= -Offset /\ s + Offset < ScaleRange /\ p < PointRange
  /\ ~(s = -Offset /\ p = PointRange - 1)

Pack(s, p) == (s + Offset) * PointRange + p

ScaleIndex(na) == na \div PointRange - Offset
PointIndex(na) == na % PointRange

(* Mutant: off by one, the lowest scale and the next read as singletons.   *)
ToTupleOffByOne(na) ==
  IF ScaleIndex(na) <= 1 - Offset THEN None ELSE <<ScaleIndex(na), PointIndex(na)>>

(* Every address of the lowest scale reads as a singleton. *)
IsSingleton(na) == na % PointRange = na
ToTuple(na) == IF ScaleIndex(na) = -Offset THEN None ELSE <<ScaleIndex(na), PointIndex(na)>>

(* From<Option<(i32, usize)>> and the slices of addresses. *)
FromOption(t) == IF t = None THEN SINGLETON ELSE Pack(t[1], t[2])
ToTuples(nas) == [i \in DOMAIN nas |-> ToTuple(nas[i])]
ToValidTuples(nas) == SelectSeq(ToTuples(nas), LAMBDA t : t # None)
ToAddresses(ts) == [i \in DOMAIN ts |-> FromOption(ts[i])]
=============================================================================
