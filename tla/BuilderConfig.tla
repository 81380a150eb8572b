--------------------------- MODULE BuilderConfig ---------------------------
(***************************************************************************)
(* CoverTreeBuilder as data (goko/src/covertree/builders.rs): its          *)
(* defaults, its setters and the yaml file it may be read from.  Whole     *)
(* numbers of the file are i64 and are cast, so that they wrap.  The base  *)
(* of the scales is a constant of the tree, and the seed is in the choice  *)
(* of centers.                                                             *)
(***************************************************************************)
LOCAL INSTANCE Integers

CONSTANTS
  Absent,     \* a key the yaml file does not have
  UsizeRange, \* the number of values of a usize ...
  I32Range    \* ... and of an i32

AsUsize(i) == i % UsizeRange
AsI32(i) == ((i + I32Range \div 2) % I32Range) - I32Range \div 2

NewBuilder == [first |-> FALSE, cutoff |-> 1, minRes |-> -10, singletons |-> TRUE]

(* There is no setter for the partition type. *)
SetLeafCutoff(builder, x) == [builder EXCEPT !.cutoff = x]
SetMinResIndex(builder, x) == [builder EXCEPT !.minRes = x]
SetUseSingletons(builder, x) == [builder EXCEPT !.singletons = x]

FromYaml(yaml) ==
  LET unwrapOr(key, default) == IF yaml[key] = Absent THEN default ELSE yaml[key]
  IN [first |-> unwrapOr("partition_type", "nearest") = "first",
      cutoff |-> AsUsize(unwrapOr("leaf_cutoff", 1)),
      minRes |-> AsI32(unwrapOr("min_res_index", -10)),
      singletons |-> unwrapOr("use_singletons", TRUE)]

(* The settings that build makes of a builder and a cloud. *)
ParametersOf(builder, cloud) ==
  [cloud |-> cloud, first |-> builder.first, cutoff |-> builder.cutoff, minRes |-> builder.minRes,
   singletons |-> builder.singletons]
=============================================================================
