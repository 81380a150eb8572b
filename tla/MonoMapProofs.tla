---------------------------- MODULE MonoMapProofs ----------------------------
(***************************************************************************)
(* Proofs about MonoMap, for every number of handles, reads and log        *)
(* entries: type correctness, exclusive access, what Drop finds in the     *)
(* log; and that it implements MonoMapSpec, as long as the writer is not   *)
(* dropped and Clone is a copy.                                            *)
(***************************************************************************)
EXTENDS MonoMapHistory, TLAPS

(* ExclusiveAccess is not inductive: it needs to know why a read that      *)
(* still holds the writer's copy is noticed.  Such a read was in progress  *)
(* when its epoch was recorded, its epoch has not moved since, and wait    *)
(* has not gone past its handle.                                           *)
Recorded(h) ==
  /\ wpc \notin {"clone", "apply", "drain"}
  /\ first => wpc = "record"
  /\ wpc \in {"idle", "wait"} => lastEpochs[h] = epoch[h]
  /\ wpc = "wait" => i <= h
  /\ wpc = "record" /\ h < i => lastEpochs[h] = epoch[h]

StaleReadsAreRecorded == \A h \in Handle : held[h] = wbuf => Recorded(h)

(* A handle that reads is registered and shows an epoch without MSB. *)
ReadersAnnounce ==
  \A h \in Handle : held[h] # "none" =>
    h <= handles /\ ~epoch[h].done /\ epoch[h].n # 0

(* The pointer is null from PublishNull on, and no refresh runs then.      *)
(* Loop indices start at 1.                                                *)
Stages ==
  /\ wpc = "apply" => i # 0
  /\ ptr # wbuf
  /\ life \in {"alive", "flushing"} => ptr \in Buf /\ wpc \notin {"drain", "gone"}
  /\ life = "nulled" => wpc \in {"idle", "wait", "drain"}
  /\ life = "freed" => wpc = "gone"

IInv == TypeOK /\ Stages /\ ReadersAnnounce /\ StaleReadsAreRecorded

-----------------------------------------------------------------------------
(* Applying an operation to a map gives a map. *)
LEMMA ApplySecondType ==
  ASSUME NEW m \in Map, NEW op \in Op
  PROVE  ApplySecond(m, op) \in Map
<1>1. CASE op.type = "insert"
  <2>1. op.k \in Key /\ op.v \in Val
    BY <1>1 DEF Op
  <2> QED
    BY <1>1, <2>1 DEF ApplySecond, Map
<1>2. CASE op.type = "update"
  <2>1. op.k \in Key
    BY <1>2 DEF Op
  <2>2. (IF m[op.k] = Absent THEN m[op.k] ELSE Updated(m[op.k])) \in Val \cup {Absent}
    BY <2>1, DataAssumption DEF Map
  <2>3. ApplySecond(m, op)
          = [m EXCEPT ![op.k] = IF m[op.k] = Absent THEN m[op.k] ELSE Updated(m[op.k])]
    BY <1>2 DEF ApplySecond
  <2> QED
    BY <2>1, <2>2, <2>3 DEF Map
<1>3. CASE op.type = "remove"
  BY <1>3 DEF ApplySecond, Map
<1>4. CASE op.type = "purge"
  BY <1>4 DEF ApplySecond, Map, EmptyMap
<1> QED
  BY <1>1, <1>2, <1>3, <1>4 DEF Op

LEMMA ApplyFirstType ==
  ASSUME NEW m \in Map, NEW op \in Op
  PROVE  ApplyFirst(m, op) \in Map
<1>1. CASE op.type = "insert"
  <2>1. [op EXCEPT !.v = Clone(@)] \in Op
    BY <1>1, DataAssumption DEF Op
  <2> QED
    BY <1>1, <2>1, ApplySecondType DEF ApplyFirst
<1>2. CASE op.type # "insert"
  BY <1>2, ApplySecondType DEF ApplyFirst
<1> QED
  BY <1>1, <1>2

LEMMA CloneMapType == ASSUME NEW m \in Map PROVE CloneMap(m) \in Map
  BY DataAssumption DEF CloneMap, Map

(* What is left of the log after the operations both copies have seen. *)
LEMMA DrainedLog ==
  ASSUME NEW s \in Seq(Op), NEW n \in 0..Len(s)
  PROVE  /\ SubSeq(s, n + 1, Len(s)) \in Seq(Op)
         /\ Len(SubSeq(s, n + 1, Len(s))) = Len(s) - n
  OBVIOUS

(* The count of a new read is not the recorded one, and not 0. *)
LEMMA NextCountIsNew ==
  \A h \in Handle : NextCount(h) \in {1, 2} /\ NextCount(h) # lastEpochs[h].n
<1> TAKE h \in Handle
<1>1. \E n \in {1, 2} : n # lastEpochs[h].n
  BY SMT
<1> QED
  BY <1>1 DEF NextCount

-----------------------------------------------------------------------------
LEMMA InitIInv == Init => IInv
<1> SUFFICES ASSUME Init PROVE IInv
  OBVIOUS
<1> USE DEF Init, Own, Buf, Handle
<1>1. TypeOK
  <2>1. EmptyMap \in Map /\ Unused \in Epoch
    BY DEF EmptyMap, Map, Unused, Epoch
  <2>2. data \in [Buf -> Map] /\ ready \in [Buf -> BOOLEAN] /\ bufMeta \in [Buf -> Meta]
    BY <2>1, DataAssumption
  <2>3. oplog \in Seq(Op) /\ swapIndex \in 0..Len(oplog)
    OBVIOUS
  <2>4. lastEpochs \in [Handle -> Epoch] /\ epoch \in [Handle -> Epoch]
    BY <2>1
  <2>5. handles \in Own..MaxHandles
    BY BoundsAssumption
  <2>6. held \in [Handle -> Buf \cup {"none", "begun", "null"}]
    OBVIOUS
  <2>7. meta \in Meta /\ first \in BOOLEAN /\ second \in BOOLEAN
    BY DataAssumption
  <2>8. ptr \in Buf \cup {"null"} /\ wbuf \in Buf
    OBVIOUS
  <2>9. /\ wpc \in {"idle", "wait", "clone", "apply", "record", "drain", "gone"} /\ i \in Nat
        /\ life \in {"alive", "flushing", "nulled", "freed"} /\ flushes \in 0..2
    OBVIOUS
  <2> HIDE DEF Init, Buf, Handle
  <2> QED
    BY <2>2, <2>3, <2>4, <2>5, <2>6, <2>7, <2>8, <2>9 DEF TypeOK
<1>2. Stages
  BY DEF Stages
<1>3. ReadersAnnounce
  BY DEF ReadersAnnounce
<1>4. StaleReadsAreRecorded
  BY DEF StaleReadsAreRecorded, Recorded
<1> QED
  BY <1>1, <1>2, <1>3, <1>4 DEF IInv

-----------------------------------------------------------------------------
LEMMA NextIInv == IInv /\ [Next]_vars => IInv'
<1> SUFFICES ASSUME IInv, [Next]_vars PROVE IInv'
  OBVIOUS
<1> USE DEF IInv, mapVars, logVars, readerVars, dropVars
<1>0. i \in Nat /\ handles \in Nat /\ \A h \in Handle : h \in Nat /\ h >= 1
  BY BoundsAssumption DEF TypeOK, Handle, Own
<1>1. CASE Register
  <2>1. TypeOK'
    <3>1. handles' \in Own..MaxHandles
      BY <1>1, BoundsAssumption DEF Register, TypeOK, Own
    <3> QED
      BY <1>1, <3>1 DEF Register, TypeOK
  <2>2. Stages'
    BY <1>1 DEF Locked, Register, Stages, TypeOK, Buf
  <2>3. ReadersAnnounce'
    BY <1>0, <1>1 DEF Locked, Register, ReadersAnnounce, TypeOK, Epoch
  <2>4. StaleReadsAreRecorded'
    <3> SUFFICES ASSUME NEW g \in Handle, (held[g] = wbuf)'
                 PROVE  Recorded(g)'
      BY DEF StaleReadsAreRecorded
    <3> QED
      BY <1>0, <1>1 DEF Locked, Register, StaleReadsAreRecorded, Recorded, ReadersAnnounce, Stages, TypeOK
  <2> QED
    BY <2>1, <2>2, <2>3, <2>4
<1>2. ASSUME NEW h \in Handle, BeginRead(h)
      PROVE  IInv'
  <2>1. TypeOK'
    <3>1. epoch' \in [Handle -> Epoch] /\ held' \in [Handle -> Buf \cup {"none", "begun", "null"}]
      BY <1>2, NextCountIsNew DEF BeginRead, TypeOK, Epoch
    <3> QED
      BY <1>2, <3>1 DEF BeginRead, TypeOK
  <2>2. Stages'
    BY <1>2 DEF WriterFree, BeginRead, Stages, TypeOK, Buf
  <2>3. ReadersAnnounce'
    BY <1>0, <1>2, NextCountIsNew DEF WriterFree, BeginRead, ReadersAnnounce, TypeOK, Epoch
  <2>4. StaleReadsAreRecorded'
    <3> SUFFICES ASSUME NEW g \in Handle, (held[g] = wbuf)'
                 PROVE  Recorded(g)'
      BY DEF StaleReadsAreRecorded
    <3>1. g # h /\ held[g] = wbuf
      BY <1>2 DEF BeginRead, TypeOK, Buf
    <3>2. Recorded(g)
      BY <3>1 DEF StaleReadsAreRecorded
    <3> QED
      BY <1>2, <3>1, <3>2 DEF BeginRead, Recorded, TypeOK
  <2> QED
    BY <2>1, <2>2, <2>3, <2>4
<1>3. ASSUME NEW h \in Handle, LoadPtr(h)
      PROVE  IInv'
  <2>1. TypeOK'
    BY <1>3 DEF LoadPtr, TypeOK
  <2>2. Stages'
    BY <1>3 DEF LoadPtr, Stages, TypeOK, Buf
  <2>3. ReadersAnnounce'
    BY <1>0, <1>3 DEF LoadPtr, ReadersAnnounce, TypeOK, Epoch
  <2>4. StaleReadsAreRecorded'
    <3> SUFFICES ASSUME NEW g \in Handle, (held[g] = wbuf)'
                 PROVE  Recorded(g)'
      BY DEF StaleReadsAreRecorded
    <3> QED
      BY <1>0, <1>3 DEF LoadPtr, StaleReadsAreRecorded, Recorded, ReadersAnnounce, Stages, TypeOK
  <2> QED
    BY <2>1, <2>2, <2>3, <2>4
<1>4. ASSUME NEW h \in Handle, EndRead(h)
      PROVE  IInv'
  <2>1. TypeOK'
    <3>1. epoch' \in [Handle -> Epoch] /\ held' \in [Handle -> Buf \cup {"none", "begun", "null"}]
      BY <1>4 DEF EndRead, TypeOK, Epoch
    <3> QED
      BY <1>4, <3>1 DEF EndRead, TypeOK
  <2>2. Stages'
    BY <1>4 DEF EndRead, Stages, TypeOK, Buf
  <2>3. ReadersAnnounce'
    BY <1>0, <1>4 DEF EndRead, ReadersAnnounce, TypeOK, Epoch
  <2>4. StaleReadsAreRecorded'
    <3> SUFFICES ASSUME NEW g \in Handle, (held[g] = wbuf)'
                 PROVE  Recorded(g)'
      BY DEF StaleReadsAreRecorded
    <3>1. g # h /\ held[g] = wbuf
      BY <1>4 DEF EndRead, TypeOK, Buf
    <3>2. Recorded(g)
      BY <3>1 DEF StaleReadsAreRecorded
    <3> QED
      BY <1>4, <3>1, <3>2 DEF EndRead, Recorded, TypeOK
  <2> QED
    BY <2>1, <2>2, <2>3, <2>4
<1>5. ASSUME NEW op \in Writes, WriteDirect(op)
      PROVE  IInv'
  <2>1. TypeOK'
    <3>1. data' \in [Buf -> Map]
      BY <1>5, ApplySecondType, DataAssumption DEF WriteDirect, TypeOK
    <3> QED
      BY <1>5, <3>1 DEF WriteDirect, TypeOK
  <2>2. Stages'
    BY <1>5 DEF WriterFree, WriteDirect, Stages, TypeOK, Buf
  <2>3. ReadersAnnounce'
    BY <1>0, <1>5 DEF WriterFree, WriteDirect, ReadersAnnounce, TypeOK, Epoch
  <2>4. StaleReadsAreRecorded'
    <3> SUFFICES ASSUME NEW g \in Handle, (held[g] = wbuf)'
                 PROVE  Recorded(g)'
      BY DEF StaleReadsAreRecorded
    <3> QED
      BY <1>0, <1>5 DEF WriterFree, WriteDirect, StaleReadsAreRecorded, Recorded, ReadersAnnounce, Stages, TypeOK
  <2> QED
    BY <2>1, <2>2, <2>3, <2>4
<1>6. ASSUME NEW op \in Writes, WriteLogged(op)
      PROVE  IInv'
  <2>1. TypeOK'
    <3>1. oplog' \in Seq(Op) /\ swapIndex' \in 0..Len(oplog')
      BY <1>6, DataAssumption DEF WriteLogged, TypeOK
    <3> QED
      BY <1>6, <3>1 DEF WriteLogged, TypeOK
  <2>2. Stages'
    BY <1>6 DEF WriterFree, WriteLogged, Stages, TypeOK, Buf
  <2>3. ReadersAnnounce'
    BY <1>0, <1>6 DEF WriterFree, WriteLogged, ReadersAnnounce, TypeOK, Epoch
  <2>4. StaleReadsAreRecorded'
    <3> SUFFICES ASSUME NEW g \in Handle, (held[g] = wbuf)'
                 PROVE  Recorded(g)'
      BY DEF StaleReadsAreRecorded
    <3> QED
      BY <1>0, <1>6 DEF WriterFree, WriteLogged, StaleReadsAreRecorded, Recorded, ReadersAnnounce, Stages, TypeOK
  <2> QED
    BY <2>1, <2>2, <2>3, <2>4
<1>7. ASSUME NEW m \in Meta, SetMeta(m)
      PROVE  IInv'
  <2>1. TypeOK'
    BY <1>7 DEF WriterFree, SetMeta, TypeOK
  <2>2. Stages'
    BY <1>7 DEF WriterFree, SetMeta, Stages, TypeOK, Buf
  <2>3. ReadersAnnounce'
    BY <1>0, <1>7 DEF WriterFree, SetMeta, ReadersAnnounce, TypeOK, Epoch
  <2>4. StaleReadsAreRecorded'
    <3> SUFFICES ASSUME NEW g \in Handle, (held[g] = wbuf)'
                 PROVE  Recorded(g)'
      BY DEF StaleReadsAreRecorded
    <3> QED
      BY <1>0, <1>7 DEF WriterFree, SetMeta, StaleReadsAreRecorded, Recorded, ReadersAnnounce, Stages, TypeOK
  <2> QED
    BY <2>1, <2>2, <2>3, <2>4
<1>8. CASE BeginRefresh
  <2>1. TypeOK'
    BY <1>8 DEF WriterFree, Lock, BeginRefresh, TypeOK
  <2>2. Stages'
    BY <1>8 DEF WriterFree, Lock, BeginRefresh, Stages, TypeOK, Buf
  <2>3. ReadersAnnounce'
    BY <1>0, <1>8 DEF WriterFree, Lock, BeginRefresh, ReadersAnnounce, TypeOK, Epoch
  <2>4. StaleReadsAreRecorded'
    <3> SUFFICES ASSUME NEW g \in Handle, (held[g] = wbuf)'
                 PROVE  Recorded(g)'
      BY DEF StaleReadsAreRecorded
    <3>1. Recorded(g)
      BY <1>8 DEF WriterFree, Lock, BeginRefresh, StaleReadsAreRecorded
    <3> QED
      BY <1>0, <1>8, <3>1 DEF WriterFree, Lock, BeginRefresh, Recorded
  <2> QED
    BY <2>1, <2>2, <2>3, <2>4
<1>9. CASE WaitStep
  <2>1. TypeOK'
    BY <1>9 DEF Departed, WaitStep, TypeOK
  <2>2. Stages'
    BY <1>9 DEF Departed, WaitStep, Stages, TypeOK, Buf
  <2>3. ReadersAnnounce'
    BY <1>0, <1>9 DEF Departed, WaitStep, ReadersAnnounce, TypeOK, Epoch
  <2>4. StaleReadsAreRecorded'
    <3> SUFFICES ASSUME NEW g \in Handle, (held[g] = wbuf)'
                 PROVE  Recorded(g)'
      BY DEF StaleReadsAreRecorded
    <3>1. held[g] # "none" /\ Recorded(g)
      BY <1>9 DEF WaitStep, StaleReadsAreRecorded, TypeOK, Buf
    <3>2. lastEpochs[g] = epoch[g] /\ ~epoch[g].done /\ epoch[g].n # 0
      BY <1>9, <3>1 DEF WaitStep, Recorded, ReadersAnnounce
    <3>3. i # g
      BY <1>9, <3>2 DEF WaitStep, Departed
    <3> QED
      BY <1>0, <1>9, <3>1, <3>3 DEF WaitStep, Recorded
  <2> QED
    BY <2>1, <2>2, <2>3, <2>4
<1>10. CASE WaitDone
  <2>1. TypeOK'
    BY <1>10 DEF WaitDone, TypeOK
  <2>2. Stages'
    BY <1>10 DEF WaitDone, Stages, TypeOK, Buf
  <2>3. ReadersAnnounce'
    BY <1>0, <1>10 DEF WaitDone, ReadersAnnounce, TypeOK, Epoch
  <2>4. StaleReadsAreRecorded'
    <3> SUFFICES ASSUME NEW g \in Handle, (held[g] = wbuf)'
                 PROVE  Recorded(g)'
      BY DEF StaleReadsAreRecorded
    <3>1. held[g] # "none" /\ Recorded(g)
      BY <1>10 DEF WaitDone, StaleReadsAreRecorded, TypeOK, Buf
    <3>2. g < i
      BY <1>0, <1>10, <3>1 DEF WaitDone, ReadersAnnounce
    <3> QED
      BY <1>0, <1>10, <3>1, <3>2 DEF WaitDone, Recorded
  <2> QED
    BY <2>1, <2>2, <2>3, <2>4
<1>11. CASE CloneStale
  <2>1. TypeOK'
    <3>1. data' \in [Buf -> Map]
      BY <1>11, CloneMapType DEF CloneStale, TypeOK, Stages
    <3> QED
      BY <1>11, <3>1 DEF CloneStale, TypeOK
  <2>2. Stages'
    BY <1>11 DEF CloneStale, Stages, TypeOK, Buf
  <2>3. ReadersAnnounce'
    BY <1>0, <1>11 DEF CloneStale, ReadersAnnounce, TypeOK, Epoch
  <2>4. StaleReadsAreRecorded'
    <3> SUFFICES ASSUME NEW g \in Handle, (held[g] = wbuf)'
                 PROVE  Recorded(g)'
      BY DEF StaleReadsAreRecorded
    <3> QED
      BY <1>0, <1>11 DEF CloneStale, StaleReadsAreRecorded, Recorded, ReadersAnnounce, Stages, TypeOK
  <2> QED
    BY <2>1, <2>2, <2>3, <2>4
<1>12. CASE ApplyOp
  <2>1. TypeOK'
    <3>1. data' \in [Buf -> Map]
      <4>1. oplog[i] \in Op /\ data[wbuf] \in Map
        BY <1>0, <1>12 DEF ApplyOp, TypeOK, Stages
      <4> QED
        BY <4>1, <1>12, ApplySecondType, ApplyFirstType DEF ApplyOp, TypeOK
    <3> QED
      BY <1>12, <3>1 DEF ApplyOp, TypeOK
  <2>2. Stages'
    BY <1>12 DEF ApplyOp, Stages, TypeOK, Buf
  <2>3. ReadersAnnounce'
    BY <1>0, <1>12 DEF ApplyOp, ReadersAnnounce, TypeOK, Epoch
  <2>4. StaleReadsAreRecorded'
    <3> SUFFICES ASSUME NEW g \in Handle, (held[g] = wbuf)'
                 PROVE  Recorded(g)'
      BY DEF StaleReadsAreRecorded
    <3> QED
      BY <1>0, <1>12 DEF ApplyOp, StaleReadsAreRecorded, Recorded, ReadersAnnounce, Stages, TypeOK
  <2> QED
    BY <2>1, <2>2, <2>3, <2>4
<1>13. CASE Swap
  <2>1. TypeOK'
    <3>1. oplog' \in Seq(Op) /\ swapIndex' \in 0..Len(oplog')
      BY <1>13, DrainedLog DEF Swap, TypeOK
    <3> QED
      BY <1>13, <3>1 DEF Swap, TypeOK, Stages
  <2>2. Stages'
    BY <1>13 DEF Swap, Stages, TypeOK, Buf
  <2>3. ReadersAnnounce'
    BY <1>0, <1>13 DEF Swap, ReadersAnnounce, TypeOK, Epoch
  <2>4. StaleReadsAreRecorded'
    <3> SUFFICES ASSUME NEW g \in Handle, (held[g] = wbuf)'
                 PROVE  Recorded(g)'
      BY DEF StaleReadsAreRecorded
    <3> QED
      BY <1>0, <1>13 DEF Swap, Recorded
  <2> QED
    BY <2>1, <2>2, <2>3, <2>4
<1>14. CASE Record
  <2>1. TypeOK'
    <3>1. lastEpochs' \in [Handle -> Epoch]
      BY <1>14 DEF Record, TypeOK
    <3> QED
      BY <1>14, <3>1 DEF Record, TypeOK
  <2>2. Stages'
    BY <1>14 DEF Record, Stages, TypeOK, Buf
  <2>3. ReadersAnnounce'
    BY <1>0, <1>14 DEF Record, ReadersAnnounce, TypeOK, Epoch
  <2>4. StaleReadsAreRecorded'
    <3> SUFFICES ASSUME NEW g \in Handle, (held[g] = wbuf)'
                 PROVE  Recorded(g)'
      BY DEF StaleReadsAreRecorded
    <3> QED
      BY <1>0, <1>14 DEF Record, StaleReadsAreRecorded, Recorded, ReadersAnnounce, Stages, TypeOK
  <2> QED
    BY <2>1, <2>2, <2>3, <2>4
<1>15. CASE EndRefresh
  <2>1. TypeOK'
    BY <1>15 DEF EndRefresh, TypeOK
  <2>2. Stages'
    BY <1>15 DEF EndRefresh, Stages, TypeOK, Buf
  <2>3. ReadersAnnounce'
    BY <1>0, <1>15 DEF EndRefresh, ReadersAnnounce, TypeOK, Epoch
  <2>4. StaleReadsAreRecorded'
    <3> SUFFICES ASSUME NEW g \in Handle, (held[g] = wbuf)'
                 PROVE  Recorded(g)'
      BY DEF StaleReadsAreRecorded
    <3>1. held[g] # "none" /\ Recorded(g)
      BY <1>15 DEF EndRefresh, StaleReadsAreRecorded, TypeOK, Buf
    <3>2. g < i
      BY <1>0, <1>15, <3>1 DEF EndRefresh, ReadersAnnounce
    <3> QED
      BY <1>0, <1>15, <3>1, <3>2 DEF EndRefresh, Recorded
  <2> QED
    BY <2>1, <2>2, <2>3, <2>4
<1>16. CASE BeginDrop
  <2>1. TypeOK'
    BY <1>16 DEF WriterFree, BeginDrop, TypeOK
  <2>2. Stages'
    BY <1>16 DEF WriterFree, BeginDrop, Stages, TypeOK, Buf
  <2>3. ReadersAnnounce'
    BY <1>0, <1>16 DEF WriterFree, BeginDrop, ReadersAnnounce, TypeOK, Epoch
  <2>4. StaleReadsAreRecorded'
    <3> SUFFICES ASSUME NEW g \in Handle, (held[g] = wbuf)'
                 PROVE  Recorded(g)'
      BY DEF StaleReadsAreRecorded
    <3> QED
      BY <1>0, <1>16 DEF WriterFree, BeginDrop, StaleReadsAreRecorded, Recorded, ReadersAnnounce, Stages, TypeOK
  <2> QED
    BY <2>1, <2>2, <2>3, <2>4
<1>17. CASE DropRefresh
  <2>1. TypeOK'
    BY <1>17 DEF Lock, DropRefresh, TypeOK
  <2>2. Stages'
    BY <1>17 DEF Lock, DropRefresh, Stages, TypeOK, Buf
  <2>3. ReadersAnnounce'
    BY <1>0, <1>17 DEF Lock, DropRefresh, ReadersAnnounce, TypeOK, Epoch
  <2>4. StaleReadsAreRecorded'
    <3> SUFFICES ASSUME NEW g \in Handle, (held[g] = wbuf)'
                 PROVE  Recorded(g)'
      BY DEF StaleReadsAreRecorded
    <3>1. Recorded(g)
      BY <1>17 DEF Lock, DropRefresh, StaleReadsAreRecorded
    <3> QED
      BY <1>0, <1>17, <3>1 DEF Lock, DropRefresh, Recorded
  <2> QED
    BY <2>1, <2>2, <2>3, <2>4
<1>18. CASE PublishNull
  <2>1. TypeOK'
    BY <1>18 DEF PublishNull, TypeOK
  <2>2. Stages'
    BY <1>18 DEF PublishNull, Stages, TypeOK, Buf
  <2>3. ReadersAnnounce'
    BY <1>0, <1>18 DEF PublishNull, ReadersAnnounce, TypeOK, Epoch
  <2>4. StaleReadsAreRecorded'
    <3> SUFFICES ASSUME NEW g \in Handle, (held[g] = wbuf)'
                 PROVE  Recorded(g)'
      BY DEF StaleReadsAreRecorded
    <3> QED
      BY <1>0, <1>18 DEF PublishNull, StaleReadsAreRecorded, Recorded, ReadersAnnounce, Stages, TypeOK
  <2> QED
    BY <2>1, <2>2, <2>3, <2>4
<1>19. CASE DropLock
  <2>1. TypeOK'
    BY <1>19 DEF Lock, DropLock, TypeOK
  <2>2. Stages'
    BY <1>19 DEF Lock, DropLock, Stages, TypeOK, Buf
  <2>3. ReadersAnnounce'
    BY <1>0, <1>19 DEF Lock, DropLock, ReadersAnnounce, TypeOK, Epoch
  <2>4. StaleReadsAreRecorded'
    <3> SUFFICES ASSUME NEW g \in Handle, (held[g] = wbuf)'
                 PROVE  Recorded(g)'
      BY DEF StaleReadsAreRecorded
    <3>1. Recorded(g)
      BY <1>19 DEF Lock, DropLock, StaleReadsAreRecorded
    <3> QED
      BY <1>0, <1>19, <3>1 DEF Lock, DropLock, Recorded
  <2> QED
    BY <2>1, <2>2, <2>3, <2>4
<1>20. CASE Free
  <2>1. TypeOK'
    <3>1. data' \in [Buf -> Map]
      BY <1>20 DEF Free, TypeOK, EmptyMap, Map
    <3> QED
      BY <1>20, <3>1 DEF Free, TypeOK
  <2>2. Stages'
    BY <1>20 DEF Free, Stages, TypeOK, Buf
  <2>3. ReadersAnnounce'
    BY <1>0, <1>20 DEF Free, ReadersAnnounce, TypeOK, Epoch
  <2>4. StaleReadsAreRecorded'
    <3> SUFFICES ASSUME NEW g \in Handle, (held[g] = wbuf)'
                 PROVE  Recorded(g)'
      BY DEF StaleReadsAreRecorded
    <3> QED
      BY <1>0, <1>20 DEF Free, StaleReadsAreRecorded, Recorded, ReadersAnnounce, Stages, TypeOK
  <2> QED
    BY <2>1, <2>2, <2>3, <2>4
<1>21. CASE UNCHANGED vars
  BY <1>21 DEF vars, TypeOK, Stages, ReadersAnnounce, StaleReadsAreRecorded, Recorded
<1> QED
  BY <1>1, <1>2, <1>3, <1>4, <1>5, <1>6, <1>7, <1>8, <1>9, <1>10, <1>11, <1>12, <1>13, <1>14, <1>15, <1>16, <1>17, <1>18, <1>19, <1>20, <1>21
     DEF Next, ReaderNext, WriterNext

(* Every variable of the map keeps its type. *)
THEOREM TypeCorrect == Spec => []TypeOK
<1>1. IInv => TypeOK
  BY DEF IInv
<1> QED
  BY InitIInv, NextIInv, <1>1, PTL DEF Spec

(* The writer never changes a copy that a reader is reading, however many  *)
(* readers there are and whenever they come.                               *)
THEOREM WriterIsAlone == Spec => []ExclusiveAccess
<1>1. IInv => ExclusiveAccess
  BY DEF IInv, ExclusiveAccess, MayMutate, StaleReadsAreRecorded, Recorded
<1> QED
  BY InitIInv, NextIInv, <1>1, PTL DEF Spec

-----------------------------------------------------------------------------
(* Why two refreshes are enough for Drop: a swap leaves exactly the        *)
(* operations that the other copy has still to see, nothing is written     *)
(* between two refreshes of Drop, and the second one drops what the first  *)
(* has left.                                                               *)
Flushing ==
  /\ life = "alive" => flushes = 0
  /\ life = "flushing" /\ flushes = 1 /\ wpc \in {"record", "idle"} => swapIndex = Len(oplog)
  /\ life = "flushing" /\ flushes = 2 /\ wpc \in {"wait", "clone", "apply"} =>
       swapIndex = Len(oplog)
  /\ life = "flushing" /\ flushes = 2 /\ wpc \in {"record", "idle"} => oplog = <<>>

LEMMA NextFlushing == IInv /\ Flushing /\ [Next]_vars => Flushing'
<1> SUFFICES ASSUME IInv, Flushing, [Next]_vars PROVE Flushing'
  OBVIOUS
<1> USE DEF mapVars, logVars, readerVars, dropVars
<1>t. oplog \in Seq(Op) /\ swapIndex \in 0..Len(oplog) /\ flushes \in 0..2
  BY DEF IInv, TypeOK
<1>1. CASE ReaderNext \/ UNCHANGED vars
  BY <1>1 DEF Flushing, ReaderNext, Register, BeginRead, LoadPtr, EndRead, vars
<1>2. CASE \/ \E op \in Writes : WriteDirect(op) \/ WriteLogged(op)
           \/ \E m \in Meta : SetMeta(m)
  BY <1>2 DEF Flushing, WriteDirect, WriteLogged, SetMeta, WriterFree
<1>3. CASE BeginRefresh \/ WaitStep \/ WaitDone \/ CloneStale \/ ApplyOp
  BY <1>3 DEF Flushing, BeginRefresh, WriterFree, Lock, WaitStep, WaitDone, CloneStale, ApplyOp
<1>4. CASE Swap
  <2>1. Len(oplog') = Len(oplog) - swapIndex /\ swapIndex' = Len(oplog')
    BY <1>4, <1>t, DrainedLog DEF Swap
  <2>2. swapIndex = Len(oplog) => oplog' = <<>>
    BY <2>1, <1>4, <1>t DEF Swap
  <2> QED
    BY <2>1, <2>2, <1>4, <1>t DEF Flushing, Swap
<1>5. CASE Record \/ EndRefresh
  BY <1>5 DEF Flushing, Record, EndRefresh
<1>6. CASE BeginDrop \/ DropRefresh \/ PublishNull \/ DropLock \/ Free
  BY <1>6, <1>t DEF Flushing, BeginDrop, WriterFree, DropRefresh, Lock, PublishNull, DropLock, Free
<1> QED
  BY <1>1, <1>2, <1>3, <1>4, <1>5, <1>6 DEF Next, WriterNext

(* The assertion of Drop holds for any number of handles and any log: when *)
(* the two refreshes that Drop runs at most are over, the log is empty.    *)
THEOREM TwoRefreshesFlush == Spec => []DropFlushesLog
<1>1. Init => Flushing
  BY DEF Init, Flushing
<1>2. Flushing => DropFlushesLog
  BY DEF Flushing, DropFlushesLog
<1> QED
  BY InitIInv, NextIInv, NextFlushing, <1>1, <1>2, PTL DEF Spec

-----------------------------------------------------------------------------
(* The history of writes, and the abstract map.                            *)

CloneIsACopy == \A v \in Val : Clone(v) = v

(* Before the first refresh the log is empty; the refresh that clones      *)
(* finds nothing in it that only one copy has seen; a replay does not run  *)
(* past the end of the log; only Drop leaves life.                         *)
LogStages ==
  /\ hist \in Seq(Map)
  /\ first => oplog = <<>> /\ swapIndex = 0 /\ ~second
  /\ second /\ wpc # "record" => swapIndex = 0
  /\ wpc = "apply" => i <= Len(oplog) + 1
  /\ ~WriterDrops => life = "alive"

HInv == IInv /\ LogStages /\ HistoryInv

-----------------------------------------------------------------------------
LEMMA CopyApplies ==
  ASSUME CloneIsACopy, NEW op \in Op, NEW m \in Map
  PROVE  ApplyFirst(m, op) = ApplySecond(m, op)
<1>1. CASE op.type = "insert"
  <2>1. op.v \in Val /\ op = [type |-> "insert", k |-> op.k, v |-> op.v]
    BY <1>1 DEF Op
  <2>2. [op EXCEPT !.v = Clone(@)] = op
    BY <2>1 DEF CloneIsACopy
  <2> QED
    BY <1>1, <2>2 DEF ApplyFirst
<1>2. CASE op.type # "insert"
  BY <1>2 DEF ApplyFirst
<1> QED
  BY <1>1, <1>2

LEMMA CopyOfMap ==
  ASSUME CloneIsACopy, NEW m \in Map
  PROVE  CloneMap(m) = m
BY DEF CloneIsACopy, CloneMap, Map

LEMMA SubSeqAt ==
  ASSUME NEW S, NEW s \in Seq(S), NEW n \in 0..Len(s)
  PROVE  /\ SubSeq(s, n + 1, Len(s)) \in Seq(S)
         /\ Len(SubSeq(s, n + 1, Len(s))) = Len(s) - n
         /\ \A j \in 1..(Len(s) - n) : SubSeq(s, n + 1, Len(s))[j] = s[n + j]
OBVIOUS

LEMMA InitHInv == HInit => HInv
<1> SUFFICES ASSUME HInit PROVE HInv
  OBVIOUS
<1>1. IInv
  BY InitIInv DEF HInit
<1>2. LogStages
  BY DEF HInit, Init, LogStages, EmptyMap, Map
<1>3. HistoryInv
  BY DEF HInit, Init, HistoryInv, HistoryFollowsLog, CopiesFollowHistory, Swapped, Buf
<1> QED
  BY <1>1, <1>2, <1>3 DEF HInv

(* The history variable constrains no step. *)
LEMMA HistoryIsAuxiliary == [HNext]_hvars => [Next]_vars
BY DEF HNext, HWrite, HSwap, HOther, hvars, Next, WriterNext

-----------------------------------------------------------------------------
LEMMA NextHInv ==
  ASSUME CloneIsACopy
  PROVE  HInv /\ [HNext]_hvars => HInv'
<1> SUFFICES ASSUME HInv, [HNext]_hvars PROVE HInv'
  OBVIOUS
<1> USE DEF mapVars, logVars, readerVars, dropVars
<1>a. IInv'
  BY NextIInv, HistoryIsAuxiliary DEF HInv
<1>b. /\ IInv /\ TypeOK /\ Stages /\ LogStages
      /\ HistoryFollowsLog /\ CopiesFollowHistory
      /\ IInv'
  BY <1>a DEF HInv, HistoryInv, IInv
<1>c. /\ i \in Nat /\ swapIndex \in 0..Len(oplog) /\ oplog \in Seq(Op) /\ hist \in Seq(Map)
      /\ Len(hist) = Len(oplog) + 1 /\ ptr # wbuf /\ wbuf \in Buf /\ data \in [Buf -> Map]
  BY <1>b DEF TypeOK, LogStages, HistoryFollowsLog, Stages
<1> SUFFICES LogStages' /\ HistoryFollowsLog' /\ CopiesFollowHistory'
  BY <1>a DEF HInv, HistoryInv
<1>1. ASSUME NEW op \in Writes, WriteDirect(op), hist' = <<ApplySecond(hist[1], op)>>
      PROVE  LogStages' /\ HistoryFollowsLog' /\ CopiesFollowHistory'
  <2>1. hist[1] = data[wbuf] /\ oplog = <<>> /\ swapIndex = 0 /\ hist[1] \in Map
    BY <1>1, <1>b, <1>c DEF WriteDirect, WriterFree, CopiesFollowHistory, Swapped, LogStages
  <2>2. hist' \in Seq(Map)
    BY <1>1, <2>1, ApplySecondType, DataAssumption
  <2>3. LogStages'
    BY <1>1, <2>2, <1>b DEF WriteDirect, WriterFree, LogStages
  <2>4. HistoryFollowsLog'
    BY <1>1, <2>1 DEF WriteDirect, HistoryFollowsLog
  <2>5. CopiesFollowHistory'
    BY <1>1, <2>1, <1>b, <1>c DEF WriteDirect, WriterFree, CopiesFollowHistory, Swapped
  <2> QED
    BY <2>3, <2>4, <2>5
<1>2. ASSUME NEW op \in Writes, WriteLogged(op), hist' = Append(hist, ApplySecond(Latest, op))
      PROVE  LogStages' /\ HistoryFollowsLog' /\ CopiesFollowHistory'
  <2>1. op \in Op /\ Latest \in Map /\ ApplySecond(Latest, op) \in Map
    BY <1>c, DataAssumption, ApplySecondType DEF Latest
  <2>2. /\ hist' \in Seq(Map) /\ Len(hist') = Len(hist) + 1
        /\ hist'[Len(hist) + 1] = ApplySecond(Latest, op)
        /\ \A j \in 1..Len(hist) : hist'[j] = hist[j]
    BY <1>2, <2>1, <1>c
  <2>3. /\ oplog' \in Seq(Op) /\ Len(oplog') = Len(oplog) + 1
        /\ oplog'[Len(oplog) + 1] = op
        /\ \A j \in 1..Len(oplog) : oplog'[j] = oplog[j]
    BY <1>2, <2>1, <1>c DEF WriteLogged
  <2>4. LogStages'
    BY <1>2, <2>2, <1>b DEF WriteLogged, WriterFree, LogStages
  <2>5. HistoryFollowsLog'
    <3>1. /\ DOMAIN oplog = 1..Len(oplog) /\ DOMAIN oplog' = 1..Len(oplog')
          /\ \A j \in 1..Len(oplog) : hist[j + 1] = ApplySecond(hist[j], oplog[j])
      BY <1>b, <1>c, <2>3 DEF HistoryFollowsLog
    <3>2. \A j \in 1..Len(oplog') : hist'[j + 1] = ApplySecond(hist'[j], oplog'[j])
      <4> TAKE j \in 1..Len(oplog')
      <4>1. CASE j \in 1..Len(oplog)
        BY <1>c, <2>2, <2>3, <3>1, <4>1
      <4>2. CASE j = Len(oplog) + 1
        BY <1>c, <2>2, <2>3, <4>2 DEF Latest
      <4> QED
        BY <1>c, <2>3, <4>1, <4>2
    <3> QED
      BY <1>c, <2>2, <2>3, <3>1, <3>2 DEF HistoryFollowsLog
  <2>6. hist'[1] = hist[1] /\ hist'[swapIndex + 1] = hist[swapIndex + 1]
    BY <2>2, <1>c
  <2>7. CopiesFollowHistory'
    BY <1>2, <2>6, <1>b DEF WriteLogged, WriterFree, CopiesFollowHistory, Swapped
  <2> QED
    BY <2>4, <2>5, <2>7
<1>3. CASE HSwap
  <2>1. /\ Swap /\ i = Len(hist) /\ data[wbuf] = hist[Len(hist)]
        /\ ptr \in Buf /\ life # "freed"
    BY <1>3, <1>b, <1>c DEF HSwap, Swap, LogStages, CopiesFollowHistory, Stages, TypeOK
  <2>2. /\ hist' \in Seq(Map) /\ Len(hist') = Len(hist) - swapIndex
        /\ \A j \in 1..Len(hist') : hist'[j] = hist[swapIndex + j]
    BY <1>3, <1>c, SubSeqAt DEF HSwap
  <2>3. /\ oplog' \in Seq(Op) /\ Len(oplog') = Len(oplog) - swapIndex
        /\ \A j \in 1..Len(oplog') : oplog'[j] = oplog[swapIndex + j]
    BY <2>1, <1>c, SubSeqAt DEF Swap
  <2>4. LogStages'
    BY <2>1, <2>2, <2>3, <1>b, <1>c DEF Swap, LogStages
  <2>5. HistoryFollowsLog'
    <3>0. Len(hist') = Len(oplog') + 1 /\ DOMAIN oplog' = 1..Len(oplog')
      BY <2>2, <2>3, <1>c
    <3> SUFFICES ASSUME NEW j \in 1..Len(oplog')
                 PROVE  hist'[j + 1] = ApplySecond(hist'[j], oplog'[j])
      BY <3>0 DEF HistoryFollowsLog
    <3>1. swapIndex + j \in 1..Len(oplog)
      BY <2>3, <1>c
    <3>2. hist[(swapIndex + j) + 1] = ApplySecond(hist[swapIndex + j], oplog[swapIndex + j])
      <4>1. \A l \in DOMAIN oplog : hist[l + 1] = ApplySecond(hist[l], oplog[l])
        BY <1>b DEF HistoryFollowsLog
      <4>2. swapIndex + j \in DOMAIN oplog
        BY <3>1, <1>c
      <4> QED
        BY <4>1, <4>2
    <3>3. j \in 1..Len(hist') /\ j + 1 \in 1..Len(hist')
      BY <2>2, <2>3, <1>c
    <3>4. hist'[j] = hist[swapIndex + j] /\ hist'[j + 1] = hist[swapIndex + (j + 1)]
      BY <2>2, <3>3
    <3>5. swapIndex + (j + 1) = (swapIndex + j) + 1
      BY <1>c, <3>3
    <3> QED
      BY <3>2, <3>4, <3>5, <2>3
  <2>6. CopiesFollowHistory'
    <3>1. hist'[swapIndex' + 1] = hist[Len(hist)]
      <4>1. swapIndex' + 1 = Len(hist') /\ swapIndex + Len(hist') = Len(hist) /\ Len(hist') \in 1..Len(hist')
        BY <2>1, <2>2, <1>c DEF Swap
      <4> QED
        BY <4>1, <2>2
    <3>2. ~first => data[ptr] = hist'[1]
      BY <2>1, <2>2, <1>b, <1>c DEF CopiesFollowHistory, Swapped
    <3> QED
      BY <2>1, <3>1, <3>2 DEF Swap, CopiesFollowHistory, Swapped
  <2> QED
    BY <2>4, <2>5, <2>6
<1>4. ASSUME Register, UNCHANGED hist
      PROVE  LogStages' /\ HistoryFollowsLog' /\ CopiesFollowHistory'
  BY <1>4, <1>b, <1>c DEF Register, LogStages, HistoryFollowsLog, CopiesFollowHistory, Swapped
<1>5. ASSUME NEW h \in Handle, BeginRead(h), UNCHANGED hist
      PROVE  LogStages' /\ HistoryFollowsLog' /\ CopiesFollowHistory'
  BY <1>5, <1>b, <1>c DEF BeginRead, LogStages, HistoryFollowsLog, CopiesFollowHistory, Swapped
<1>6. ASSUME NEW h \in Handle, LoadPtr(h), UNCHANGED hist
      PROVE  LogStages' /\ HistoryFollowsLog' /\ CopiesFollowHistory'
  BY <1>6, <1>b, <1>c DEF LoadPtr, LogStages, HistoryFollowsLog, CopiesFollowHistory, Swapped
<1>7. ASSUME NEW h \in Handle, EndRead(h), UNCHANGED hist
      PROVE  LogStages' /\ HistoryFollowsLog' /\ CopiesFollowHistory'
  BY <1>7, <1>b, <1>c DEF EndRead, LogStages, HistoryFollowsLog, CopiesFollowHistory, Swapped
<1>8. ASSUME NEW m \in Meta, SetMeta(m), UNCHANGED hist
      PROVE  LogStages' /\ HistoryFollowsLog' /\ CopiesFollowHistory'
  BY <1>8, <1>b, <1>c DEF SetMeta, LogStages, HistoryFollowsLog, CopiesFollowHistory, Swapped
<1>9. ASSUME BeginRefresh, UNCHANGED hist
      PROVE  LogStages' /\ HistoryFollowsLog' /\ CopiesFollowHistory'
  BY <1>9, <1>b, <1>c DEF BeginRefresh, Lock, WriterFree, LogStages, HistoryFollowsLog, CopiesFollowHistory, Swapped
<1>10. ASSUME WaitStep, UNCHANGED hist
      PROVE  LogStages' /\ HistoryFollowsLog' /\ CopiesFollowHistory'
  BY <1>10, <1>b, <1>c DEF WaitStep, LogStages, HistoryFollowsLog, CopiesFollowHistory, Swapped
<1>11. ASSUME WaitDone, UNCHANGED hist
      PROVE  LogStages' /\ HistoryFollowsLog' /\ CopiesFollowHistory'
  BY <1>11, <1>b, <1>c DEF WaitDone, LogStages, HistoryFollowsLog, CopiesFollowHistory, Swapped
<1>12. ASSUME CloneStale, UNCHANGED hist
      PROVE  LogStages' /\ HistoryFollowsLog' /\ CopiesFollowHistory'
  <2>1. ptr \in Buf /\ life # "freed"
    BY <1>12, <1>b DEF CloneStale, Stages, TypeOK
  <2>2. second => data' = [data EXCEPT ![wbuf] = data[ptr]] /\ data[ptr] = hist[1]
    <3> SUFFICES ASSUME second PROVE data' = [data EXCEPT ![wbuf] = data[ptr]] /\ data[ptr] = hist[1]
      OBVIOUS
    <3>1. CloneMap(data[ptr]) = data[ptr]
      BY <2>1, <1>c, CopyOfMap
    <3>2. swapIndex = 0 /\ ~first
      BY <1>12, <1>b DEF CloneStale, LogStages, TypeOK
    <3>3. data[ptr] = hist[1]
      BY <1>12, <2>1, <3>2, <1>b DEF CopiesFollowHistory, Swapped
    <3> QED
      BY <1>12, <3>1, <3>3 DEF CloneStale
  <2>3. ~second => data' = data /\ data[wbuf] = hist[1]
    BY <1>12, <2>1, <1>b DEF CloneStale, CopiesFollowHistory, Swapped
  <2>4. CopiesFollowHistory'
    BY <1>12, <2>1, <2>2, <2>3, <1>b, <1>c DEF CloneStale, CopiesFollowHistory, Swapped
  <2> QED
    BY <1>12, <2>4, <1>b, <1>c DEF CloneStale, LogStages, HistoryFollowsLog
<1>13. ASSUME ApplyOp, UNCHANGED hist
      PROVE  LogStages' /\ HistoryFollowsLog' /\ CopiesFollowHistory'
  <2>1. i \in 1..Len(oplog) /\ oplog[i] \in Op /\ life # "freed"
    BY <1>13, <1>b, <1>c DEF ApplyOp, Stages
  <2>2. data[wbuf] = hist[i] /\ hist[i] \in Map
    BY <1>13, <2>1, <1>b, <1>c DEF ApplyOp, CopiesFollowHistory
  <2>3. data' = [data EXCEPT ![wbuf] = ApplySecond(hist[i], oplog[i])]
    BY <1>13, <2>1, <2>2, CopyApplies DEF ApplyOp
  <2>4. ApplySecond(hist[i], oplog[i]) = hist[i + 1]
    BY <2>1, <1>b, <1>c DEF HistoryFollowsLog
  <2>5. CopiesFollowHistory'
    <3>1. data'[wbuf] = hist[i + 1] /\ (ptr \in Buf => data'[ptr] = data[ptr])
      BY <2>3, <2>4, <1>c
    <3>2. Swapped => first = FALSE
      BY <1>13 DEF ApplyOp, Swapped
    <3> QED
      BY <1>13, <2>1, <3>1, <3>2, <1>b DEF ApplyOp, CopiesFollowHistory, Swapped, LogStages
  <2> QED
    BY <1>13, <2>1, <2>5, <1>b, <1>c DEF ApplyOp, LogStages, HistoryFollowsLog
<1>14. ASSUME Record, UNCHANGED hist
      PROVE  LogStages' /\ HistoryFollowsLog' /\ CopiesFollowHistory'
  BY <1>14, <1>b, <1>c DEF Record, LogStages, HistoryFollowsLog, CopiesFollowHistory, Swapped
<1>15. ASSUME EndRefresh, UNCHANGED hist
      PROVE  LogStages' /\ HistoryFollowsLog' /\ CopiesFollowHistory'
  BY <1>15, <1>b, <1>c DEF EndRefresh, LogStages, HistoryFollowsLog, CopiesFollowHistory, Swapped
<1>16. ASSUME BeginDrop, UNCHANGED hist
      PROVE  LogStages' /\ HistoryFollowsLog' /\ CopiesFollowHistory'
  BY <1>16, <1>b, <1>c DEF BeginDrop, WriterFree, LogStages, HistoryFollowsLog, CopiesFollowHistory, Swapped
<1>17. ASSUME DropRefresh, UNCHANGED hist
      PROVE  LogStages' /\ HistoryFollowsLog' /\ CopiesFollowHistory'
  BY <1>17, <1>b, <1>c DEF DropRefresh, Lock, LogStages, HistoryFollowsLog, CopiesFollowHistory, Swapped
<1>18. ASSUME PublishNull, UNCHANGED hist
      PROVE  LogStages' /\ HistoryFollowsLog' /\ CopiesFollowHistory'
  BY <1>18, <1>b, <1>c DEF PublishNull, Buf, LogStages, HistoryFollowsLog, CopiesFollowHistory, Swapped
<1>19. ASSUME DropLock, UNCHANGED hist
      PROVE  LogStages' /\ HistoryFollowsLog' /\ CopiesFollowHistory'
  BY <1>19, <1>b, <1>c DEF DropLock, Lock, LogStages, HistoryFollowsLog, CopiesFollowHistory, Swapped
<1>20. ASSUME Free, UNCHANGED hist
      PROVE  LogStages' /\ HistoryFollowsLog' /\ CopiesFollowHistory'
  BY <1>20, <1>b, <1>c DEF Free, Stages, LogStages, HistoryFollowsLog, CopiesFollowHistory, Swapped
<1>21. CASE UNCHANGED hvars
  BY <1>21, <1>b DEF hvars, vars, LogStages, HistoryFollowsLog, CopiesFollowHistory, Swapped
<1> QED
  BY <1>1, <1>2, <1>3, <1>4, <1>5, <1>6, <1>7, <1>8, <1>9, <1>10, <1>11, <1>12,
     <1>13, <1>14, <1>15, <1>16, <1>17, <1>18, <1>19, <1>20, <1>21
     DEF HNext, HWrite, HOther, ReaderNext, hvars

-----------------------------------------------------------------------------
(* The mapped state.                                                       *)

Views == [h \in Handle |-> ViewOf(h)]

(* A read sees the same version as long as it holds its copy and the writer*)
(* changes only a copy that nobody holds.                                  *)
LEMMA ViewsStay ==
  ASSUME TypeOK, life' = life, held' = held,
         \A h \in Handle : held[h] \in Buf => VersionIn(held[h])' = VersionIn(held[h])
  PROVE  Views' = Views
<1>1. ASSUME NEW h \in Handle PROVE ViewOf(h)' = ViewOf(h)
  <2>1. held[h] \in Buf \cup {"none", "begun", "null"}
    BY DEF TypeOK
  <2> QED
    BY <2>1 DEF ViewOf
<1> QED
  BY <1>1 DEF Views

LEMMA AbstractInit == HInit => Abstract!Init
<1> SUFFICES ASSUME HInit PROVE Abstract!Init
  OBVIOUS
<1>1. Latest = EmptyMap /\ meta = InitMeta
  BY DEF HInit, Init, Latest
<1>2. PublishedVersion = [kind |-> "unready", map |-> EmptyMap, meta |-> InitMeta]
  BY DEF HInit, Init, PublishedVersion, VersionIn, Buf
<1>3. Views = [h \in Handle |-> [kind |-> "none"]]
  BY DEF HInit, Init, Views, ViewOf
<1> QED
  BY <1>1, <1>2, <1>3 DEF Abstract!Init, Abstract!NoView, Views

LEMMA AbstractStep ==
  ASSUME CloneIsACopy, ~WriterDrops
  PROVE  HInv /\ HInv' /\ [HNext]_hvars => [Abstract!Next]_(Abstract!vars)
<1> SUFFICES ASSUME HInv, HInv', [HNext]_hvars
             PROVE  [Abstract!Next]_(Abstract!vars)
  OBVIOUS
<1> USE DEF mapVars, logVars, readerVars, dropVars
<1>a. /\ TypeOK /\ Stages /\ LogStages /\ HistoryFollowsLog /\ CopiesFollowHistory
      /\ ExclusiveAccess
      /\ life = "alive" /\ life' = "alive"
  BY DEF HInv, HistoryInv, IInv, LogStages, ExclusiveAccess, MayMutate,
         StaleReadsAreRecorded, Recorded
<1>b. /\ ptr \in Buf /\ wbuf \in Buf /\ ptr # wbuf /\ ptr' \in Buf
      /\ data \in [Buf -> Map] /\ bufMeta \in [Buf -> Meta] /\ ready \in [Buf -> BOOLEAN]
      /\ hist \in Seq(Map) /\ Len(hist) = Len(oplog) + 1
      /\ oplog \in Seq(Op) /\ swapIndex \in 0..Len(oplog) /\ i \in Nat
  BY <1>a DEF HInv, IInv, TypeOK, Stages, LogStages, HistoryFollowsLog
<1>c. PublishedVersion = VersionIn(ptr) /\ PublishedVersion' = VersionIn(ptr)'
  BY <1>b DEF PublishedVersion
<1>w. ASSUME NEW op \in Writes, HWrite(op) PROVE Abstract!Write(op)
  <2>1. Latest' = ApplySecond(Latest, op)
    <3>1. CASE WriteDirect(op) /\ hist' = <<ApplySecond(hist[1], op)>>
      <4>1. oplog = <<>>
        BY <3>1, <1>a DEF WriteDirect, LogStages
      <4>2. Len(hist) = 1
        BY <4>1, <1>b
      <4> QED
        BY <3>1, <4>2 DEF Latest
    <3>2. CASE WriteLogged(op) /\ hist' = Append(hist, ApplySecond(Latest, op))
      <4>1. Latest \in Map /\ op \in Op
        BY <1>b, DataAssumption DEF Latest
      <4>2. ApplySecond(Latest, op) \in Map
        BY <4>1, ApplySecondType
      <4> QED
        BY <3>2, <4>2, <1>b DEF Latest
    <3> QED
      BY <1>w, <3>1, <3>2 DEF HWrite
  <2>2. \A b \in Buf : b # wbuf => VersionIn(b)' = VersionIn(b)
    BY <1>w, <1>b DEF HWrite, WriteDirect, WriteLogged, VersionIn
  <2>3. PublishedVersion' = PublishedVersion
    BY <1>w, <1>b, <1>c, <2>2 DEF HWrite, WriteDirect, WriteLogged
  <2>4. \A h \in Handle : held[h] \in Buf => VersionIn(held[h])' = VersionIn(held[h])
    <3>1. CASE WriteDirect(op)
      BY <3>1, <1>a, <2>2 DEF WriteDirect, WriterFree, ExclusiveAccess, MayMutate
    <3>2. CASE WriteLogged(op)
      BY <3>2 DEF WriteLogged, VersionIn
    <3> QED
      BY <1>w, <3>1, <3>2 DEF HWrite
  <2>5. Views' = Views
    BY <1>w, <1>a, <2>4, ViewsStay DEF HWrite, WriteDirect, WriteLogged
  <2>6. meta' = meta
    BY <1>w DEF HWrite, WriteDirect, WriteLogged
  <2> QED
    BY <2>1, <2>3, <2>5, <2>6 DEF Abstract!Write, Views
<1>m. ASSUME NEW m \in Meta, SetMeta(m), UNCHANGED hist PROVE Abstract!SetMeta(m)
  <2>1. Latest' = Latest /\ PublishedVersion' = PublishedVersion /\ meta' = m
    BY <1>m DEF SetMeta, Latest, PublishedVersion, VersionIn
  <2>2. Views' = Views
    BY <1>m, <1>a, ViewsStay DEF SetMeta, VersionIn
  <2> QED
    BY <2>1, <2>2 DEF Abstract!SetMeta, Views
<1>s. ASSUME HSwap PROVE Abstract!Refresh
  <2>1. Swap /\ data[wbuf] = Latest
    BY <1>s, <1>a, <1>b DEF HSwap, Swap, LogStages, CopiesFollowHistory, Latest
  <2>2. PublishedVersion' = [kind |-> "ready", map |-> Latest, meta |-> meta]
    BY <2>1, <1>b, <1>c DEF Swap, VersionIn
  <2>3. Latest' = Latest
    <3>1. /\ hist' \in Seq(Map) /\ Len(hist') = Len(hist) - swapIndex
          /\ \A j \in 1..Len(hist') : hist'[j] = hist[swapIndex + j]
      BY <1>s, <1>b, SubSeqAt DEF HSwap
    <3>2. Len(hist') \in 1..Len(hist') /\ swapIndex + Len(hist') = Len(hist)
      BY <3>1, <1>b
    <3> QED
      BY <3>1, <3>2 DEF Latest
  <2>4. \A b \in Buf : b # wbuf => VersionIn(b)' = VersionIn(b)
    BY <2>1, <1>b DEF Swap, VersionIn
  <2>5. Views' = Views
    BY <2>1, <2>4, <1>a, ViewsStay DEF Swap, ExclusiveAccess, MayMutate
  <2>6. PublishedVersion # [kind |-> "closed"]
    BY <1>c DEF VersionIn
  <2> QED
    BY <2>1, <2>2, <2>3, <2>5, <2>6 DEF Abstract!Refresh, Abstract!Closed, Views, Swap
<1>o. ASSUME NEW h \in Handle, LoadPtr(h), UNCHANGED hist PROVE Abstract!Open(h)
  <2>1. Latest' = Latest /\ meta' = meta /\ PublishedVersion' = PublishedVersion
    BY <1>o DEF LoadPtr, Latest, PublishedVersion, VersionIn
  <2>2. Views[h] = [kind |-> "none"]
    BY <1>o DEF LoadPtr, Views, ViewOf
  <2>3. ViewOf(h)' = PublishedVersion
    BY <1>o, <1>a, <1>b, <1>c DEF LoadPtr, ViewOf, TypeOK, Buf, VersionIn
  <2>4. \A g \in Handle \ {h} : ViewOf(g)' = ViewOf(g)
    BY <1>o, <1>a DEF LoadPtr, ViewOf, VersionIn, TypeOK
  <2>5. Views' = [Views EXCEPT ![h] = PublishedVersion]
    BY <2>3, <2>4 DEF Views
  <2> QED
    BY <2>1, <2>2, <2>5 DEF Abstract!Open, Abstract!NoView, Views
<1>e. ASSUME NEW h \in Handle, EndRead(h), UNCHANGED hist PROVE Abstract!Shut(h)
  <2>1. Latest' = Latest /\ meta' = meta /\ PublishedVersion' = PublishedVersion
    BY <1>e DEF EndRead, Latest, PublishedVersion, VersionIn
  <2>2. Views[h] # [kind |-> "none"]
    BY <1>e, <1>a DEF EndRead, Views, ViewOf, VersionIn, Buf
  <2>3. ViewOf(h)' = [kind |-> "none"]
    BY <1>e, <1>a DEF EndRead, ViewOf, TypeOK
  <2>4. \A g \in Handle \ {h} : ViewOf(g)' = ViewOf(g)
    BY <1>e, <1>a DEF EndRead, ViewOf, VersionIn, TypeOK
  <2>5. Views' = [Views EXCEPT ![h] = [kind |-> "none"]]
    BY <2>3, <2>4 DEF Views
  <2> QED
    BY <2>1, <2>2, <2>5 DEF Abstract!Shut, Abstract!NoView, Views
<1>b1. ASSUME NEW h \in Handle, BeginRead(h), UNCHANGED hist PROVE UNCHANGED Abstract!vars
  <2>1. Latest' = Latest /\ meta' = meta /\ PublishedVersion' = PublishedVersion
    BY <1>b1 DEF BeginRead, Latest, PublishedVersion, VersionIn
  <2>2. \A g \in Handle : ViewOf(g)' = ViewOf(g)
    BY <1>b1, <1>a DEF BeginRead, ViewOf, VersionIn, TypeOK
  <2> QED
    BY <2>1, <2>2 DEF Abstract!vars
<1>c1. ASSUME CloneStale \/ ApplyOp, UNCHANGED hist PROVE UNCHANGED Abstract!vars
  <2>1. \A b \in Buf : b # wbuf => VersionIn(b)' = VersionIn(b)
    BY <1>c1, <1>b DEF CloneStale, ApplyOp, VersionIn
  <2>2. /\ Latest' = Latest /\ meta' = meta /\ PublishedVersion' = PublishedVersion
    BY <1>c1, <2>1, <1>b, <1>c DEF CloneStale, ApplyOp, Latest
  <2>3. Views' = Views
    BY <1>c1, <2>1, <1>a, ViewsStay DEF CloneStale, ApplyOp, ExclusiveAccess, MayMutate
  <2> QED
    BY <2>2, <2>3 DEF Abstract!vars, Views
<1>q. ASSUME UNCHANGED <<ptr, mapVars, meta, life, held, hist>> PROVE UNCHANGED Abstract!vars
  <2>1. Latest' = Latest /\ PublishedVersion' = PublishedVersion
    BY <1>q DEF Latest, PublishedVersion, VersionIn
  <2>2. Views' = Views
    BY <1>q, <1>a, ViewsStay DEF VersionIn
  <2> QED
    BY <1>q, <2>1, <2>2 DEF Abstract!vars, Views
<1>r. ASSUME \/ Register \/ BeginRefresh \/ WaitStep \/ WaitDone \/ Record \/ EndRefresh
             \/ DropRefresh \/ DropLock \/ UNCHANGED vars,
             UNCHANGED hist
      PROVE  UNCHANGED Abstract!vars
  BY <1>r, <1>q DEF Register, BeginRefresh, WaitStep, WaitDone, Record, EndRefresh, DropRefresh,
                    DropLock, Lock, vars
<1>d. ~(BeginDrop \/ PublishNull \/ Free)
  BY <1>a DEF BeginDrop, PublishNull, Free
<1> QED
  BY <1>w, <1>m, <1>s, <1>o, <1>e, <1>b1, <1>c1, <1>r, <1>d
     DEF HNext, HOther, ReaderNext, hvars, Abstract!Next

(* Every behaviour of the map, with its copies, log and epochs, is one of  *)
(* the map that MonoMapSpec describes: a read sees one published version   *)
(* throughout, and a refresh publishes every operation before it, once.    *)
THEOREM Refinement ==
  ASSUME CloneIsACopy, ~WriterDrops
  PROVE  HSpec => AbstractSpec
<1>1. HInit => HInv
  BY InitHInv
<1>2. HInv /\ [HNext]_hvars => HInv'
  BY NextHInv
<1>3. HInv /\ HInv' /\ [HNext]_hvars => [Abstract!Next]_(Abstract!vars)
  BY AbstractStep
<1> QED
  BY <1>1, <1>2, <1>3, AbstractInit, PTL DEF HSpec, AbstractSpec, Abstract!Spec

(* Draining the log at a swap neither skips an operation nor applies one   *)
(* twice, on either copy.                                                  *)
THEOREM CopiesConverge ==
  ASSUME CloneIsACopy
  PROVE  HSpec => []HistoryInv
<1>1. HInv => HistoryInv
  BY DEF HInv
<1> QED
  BY <1>1, InitHInv, NextHInv, PTL DEF HSpec
==============================================================================
