--------------------------- MODULE MonoMapHistory ---------------------------
(***************************************************************************)
(* MonoMap implements MonoMapSpec.  The mapping needs the versions of the  *)
(* map between the entries of the log, so MonoMap is run with a history    *)
(* variable that records them:                                             *)
(*   hist[1]      the version before the first operation in the log,       *)
(*   hist[j + 1]  the version after the j-th.                              *)
(* It restricts no step of MonoMap.                                        *)
(***************************************************************************)
EXTENDS MonoMap

VARIABLE hist

Latest == hist[Len(hist)]

HInit == Init /\ hist = <<EmptyMap>>

HWrite(op) ==
  \/ WriteDirect(op) /\ hist' = <<ApplySecond(hist[1], op)>>
  \/ WriteLogged(op) /\ hist' = Append(hist, ApplySecond(Latest, op))

HSwap == Swap /\ hist' = SubSeq(hist, swapIndex + 1, Len(hist))

HOther ==
  /\ \/ ReaderNext
     \/ \E m \in Meta : SetMeta(m)
     \/ BeginRefresh \/ WaitStep \/ WaitDone \/ CloneStale \/ ApplyOp \/ Record \/ EndRefresh
     \/ BeginDrop \/ DropRefresh \/ PublishNull \/ DropLock \/ Free
  /\ UNCHANGED hist

HNext == (\E op \in Writes : HWrite(op)) \/ HSwap \/ HOther

hvars == <<vars, hist>>
HSpec == HInit /\ [][HNext]_hvars

-----------------------------------------------------------------------------
(* The refinement mapping. *)

VersionIn(b) ==
  [kind |-> IF ready[b] THEN "ready" ELSE "unready", map |-> data[b], meta |-> bufMeta[b]]

PublishedVersion == IF ptr \in Buf THEN VersionIn(ptr) ELSE [kind |-> "closed"]

(* A read that holds a freed map sees no version at all. *)
ViewOf(h) ==
  CASE held[h] \in {"none", "begun"} -> [kind |-> "none"]
    [] held[h] = "null" -> [kind |-> "closed"]
    [] OTHER -> IF life = "freed" THEN [kind |-> "freed"] ELSE VersionIn(held[h])

Abstract == INSTANCE MonoMapSpec
  WITH Apply <- ApplySecond, current <- Latest, curMeta <- meta,
       published <- PublishedVersion, view <- [h \in Handle |-> ViewOf(h)]

(* While the writer is not dropped, the two copies, the log and the epochs *)
(* cannot be told apart from one map whose versions are published whole.   *)
AbstractSpec == Abstract!Spec

-----------------------------------------------------------------------------
(* The history records the log, the published copy has seen exactly the    *)
(* first swapIndex operations of it, and the writer's copy those before i  *)
(* during a replay and none otherwise: draining the log at a swap neither  *)
(* skips an operation nor applies it twice, on either copy.                *)
HistoryFollowsLog ==
  /\ Len(hist) = Len(oplog) + 1
  /\ \A j \in DOMAIN oplog : hist[j + 1] = ApplySecond(hist[j], oplog[j])

Swapped == ~first \/ wpc = "record"

CopiesFollowHistory ==
  life # "freed" =>
    /\ ptr \in Buf /\ Swapped => data[ptr] = hist[swapIndex + 1]
    /\ ~Swapped => data[wbuf] = hist[1]
    /\ ~first /\ wpc # "apply" /\ (second => wpc = "record") => data[wbuf] = hist[1]
    /\ wpc = "apply" => data[wbuf] = hist[i]

HistoryInv == HistoryFollowsLog /\ CopiesFollowHistory
=============================================================================
