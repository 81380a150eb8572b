------------------------------ MODULE MCMonoMap ------------------------------
(* Values for TLC.  Updating is not idempotent, so that an operation that  *)
(* is applied twice, or not at all, shows in the data.                     *)
EXTENDS MonoMap

MCCopy(v) == v
MCNext(v) == (v + 1) % 2

MCUpdates == [type: {"update"}, k: Key]
MCAllWrites == Op
=============================================================================
