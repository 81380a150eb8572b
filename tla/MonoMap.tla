------------------------------- MODULE MonoMap -------------------------------
(***************************************************************************)
(* The concurrent map behind every layer of a cover tree                   *)
(* (goko/src/monomap): one writer, many lock-free readers, two copies of   *)
(* the data.  Readers follow an atomic pointer to the published copy.  The *)
(* writer logs its operations, and a refresh                               *)
(*   - takes the lock on the vector of epochs, so that nobody registers,   *)
(*   - waits until no reader can still hold the stale copy,                *)
(*   - brings the stale copy up to date from the log,                      *)
(*   - swaps the pointer and records every reader's epoch.                 *)
(* An operation of the writer that other threads can observe half done is  *)
(* several actions here; memory is sequentially consistent, which is what  *)
(* the SeqCst fences of with_handle and refresh buy.                       *)
(***************************************************************************)
EXTENDS Naturals, Sequences

CONSTANTS
  Key, Val,      \* keys and values of the map
  Meta, InitMeta,\* meta values, and the one the map is built with
  Absent,        \* no value at a key
  Clone(_),      \* V::clone
  Updated(_),    \* the closure of update, applied to the stored value
  Writes,        \* the operations the writer may ask for
  MaxHandles,    \* read handles ever registered
  MaxOplog,      \* length of the log
  WriterDrops    \* whether the write handle may be dropped

Op == [type: {"insert"}, k: Key, v: Val] \cup [type: {"update", "remove"}, k: Key]
        \cup [type: {"purge"}]

ASSUME BoundsAssumption ==
  /\ MaxHandles \in Nat /\ MaxHandles >= 2
  /\ MaxOplog \in Nat
  /\ WriterDrops \in BOOLEAN

ASSUME DataAssumption ==
  /\ Absent \notin Val
  /\ \A v \in Val : Clone(v) \in Val /\ Updated(v) \in Val
  /\ Writes \subseteq Op
  /\ InitMeta \in Meta

VARIABLES
  ptr,        \* the copy readers are sent to, or "null" once the map is destroyed
  wbuf,       \* the copy the writer owns (w_handle)
  data, ready, bufMeta,          \* the contents of the two copies
  oplog, swapIndex,              \* the log, and how much of it ptr has seen
  meta, first, second,
  lastEpochs, \* per handle, the epoch recorded at the last swap
  wpc, i,     \* where the writer is in refresh or drop, and its loop index
  life,       \* "alive", or the stages of Drop
  flushes,    \* refreshes Drop has run
  handles,    \* epochs.len(): handles are numbered in order of registration
  epoch,      \* per handle, the shared epoch: a count and the MSB
  held        \* per handle: "none", "begun" (epoch stored, pointer not yet
              \* loaded), or the pointer the read in progress loaded

mapVars    == <<data, ready, bufMeta>>
logVars    == <<oplog, swapIndex, meta, first, second>>
readerVars == <<handles, epoch, held>>
dropVars   == <<life, flushes>>
vars == <<ptr, wbuf, mapVars, logVars, lastEpochs, wpc, i, dropVars, readerVars>>

Buf    == {"left", "right"}
Handle == 1..MaxHandles
Own    == 2     \* the handle inside the write handle: construct clones r
Map    == [Key -> Val \cup {Absent}]
Epoch  == [n: 0..2, done: BOOLEAN]

EmptyMap == [k \in Key |-> Absent]
Unused   == [n |-> 0, done |-> FALSE]

-----------------------------------------------------------------------------
(* The two ways an operation reaches a copy.  The first application clones *)
(* the inserted value, the second moves it.                                *)

ApplySecond(m, op) ==
  CASE op.type = "insert" -> [m EXCEPT ![op.k] = op.v]
    [] op.type = "update" -> [m EXCEPT ![op.k] = IF @ = Absent THEN @ ELSE Updated(@)]
    [] op.type = "remove" -> [m EXCEPT ![op.k] = Absent]
    [] op.type = "purge"  -> EmptyMap

ApplyFirst(m, op) ==
  ApplySecond(m, IF op.type = "insert" THEN [op EXCEPT !.v = Clone(@)] ELSE op)

CloneMap(m) == [k \in Key |-> IF m[k] = Absent THEN Absent ELSE Clone(m[k])]

-----------------------------------------------------------------------------
Init ==
  /\ ptr = "left" /\ wbuf = "right"
  /\ data = [b \in Buf |-> EmptyMap]
  /\ ready = [b \in Buf |-> b = "right"]
  /\ bufMeta = [b \in Buf |-> InitMeta]
  /\ oplog = <<>> /\ swapIndex = 0 /\ meta = InitMeta
  /\ first = TRUE /\ second = FALSE
  /\ lastEpochs = [h \in Handle |-> Unused]
  /\ wpc = "idle" /\ i = 0
  /\ life = "alive" /\ flushes = 0
  /\ handles = Own
  /\ epoch = [h \in Handle |-> Unused]
  /\ held = [h \in Handle |-> "none"]

(* The mutex on the vector of epochs, held by the writer. *)
Locked == wpc \in {"wait", "clone", "apply", "record", "drain"}

(* The writer's thread is between two operations: it is not inside a       *)
(* closure that reads through its own handle.                              *)
WriterFree == wpc = "idle" /\ life = "alive" /\ held[Own] = "none"

-----------------------------------------------------------------------------
(* Readers.                                                                *)

(* MonoReadHandle::new, by clone or by a factory: a fresh epoch is pushed  *)
(* under the lock.                                                         *)
Register ==
  /\ ~Locked
  /\ handles < MaxHandles
  /\ handles' = handles + 1
  /\ UNCHANGED <<ptr, wbuf, mapVars, logVars, lastEpochs, wpc, i, dropVars, epoch, held>>

(* my_epoch counts the reads of a handle without a bound.  All that is     *)
(* ever asked of a count is whether it is 0 and whether it is still the    *)
(* one recorded at the last swap, so two numbers stand for the counter: a  *)
(* read takes the one that is not recorded.  Handles can read for ever.    *)
NextCount(h) == CHOOSE n \in {1, 2} : n # lastEpochs[h].n

(* with_handle: store the next epoch ... *)
BeginRead(h) ==
  /\ h <= handles /\ held[h] = "none"
  /\ h = Own => WriterFree
  /\ epoch' = [epoch EXCEPT ![h] = [n |-> NextCount(h), done |-> FALSE]]
  /\ held' = [held EXCEPT ![h] = "begun"]
  /\ UNCHANGED <<ptr, wbuf, mapVars, logVars, lastEpochs, wpc, i, dropVars, handles>>

(* ... load the pointer and run the closure on it ... *)
LoadPtr(h) ==
  /\ held[h] = "begun"
  /\ held' = [held EXCEPT ![h] = ptr]
  /\ UNCHANGED <<ptr, wbuf, mapVars, logVars, lastEpochs, wpc, i, dropVars, handles, epoch>>

(* ... and the guard sets the MSB, also when the closure panics. *)
EndRead(h) ==
  /\ held[h] \in Buf \cup {"null"}
  /\ held' = [held EXCEPT ![h] = "none"]
  /\ epoch' = [epoch EXCEPT ![h].done = TRUE]
  /\ UNCHANGED <<ptr, wbuf, mapVars, logVars, lastEpochs, wpc, i, dropVars, handles>>

-----------------------------------------------------------------------------
(* The writer's operations.                                                *)

(* add_op: straight into the writer's copy before the first refresh, into  *)
(* the log after it.                                                       *)
WriteDirect(op) ==
  /\ WriterFree /\ first
  /\ data' = [data EXCEPT ![wbuf] = ApplySecond(@, op)]
  /\ UNCHANGED <<ptr, wbuf, ready, bufMeta, logVars, lastEpochs, wpc, i, dropVars, readerVars>>

WriteLogged(op) ==
  /\ WriterFree /\ ~first
  /\ Len(oplog) < MaxOplog
  /\ oplog' = Append(oplog, op)
  /\ UNCHANGED <<ptr, wbuf, mapVars, swapIndex, meta, first, second, lastEpochs, wpc, i,
                 dropVars, readerVars>>

SetMeta(m) ==
  /\ WriterFree
  /\ meta' = m
  /\ UNCHANGED <<ptr, wbuf, mapVars, oplog, swapIndex, first, second, lastEpochs, wpc, i,
                 dropVars, readerVars>>

-----------------------------------------------------------------------------
(* refresh, from the lock to its release.                                  *)

Lock ==
  /\ wpc' = "wait" /\ i' = 1
  /\ UNCHANGED <<ptr, wbuf, mapVars, logVars, lastEpochs, readerVars>>

BeginRefresh ==
  /\ WriterFree
  /\ Lock
  /\ UNCHANGED dropVars

(* Mutant: wait asks whether a handle reads, and not since when. *)
DepartedWhenIdle(h) == lastEpochs[h].done \/ epoch[h].done \/ epoch[h].n = 0

(* Whether wait may go past handle h: it was not reading at the last swap, *)
(* or its epoch has moved since, or it is not reading now, or it never did.*)
Departed(h) ==
  \/ lastEpochs[h].done
  \/ epoch[h] # lastEpochs[h]
  \/ epoch[h].done
  \/ epoch[h].n = 0

WaitStep ==
  /\ wpc = "wait"
  /\ i <= handles /\ Departed(i)
  /\ i' = i + 1
  /\ UNCHANGED <<ptr, wbuf, mapVars, logVars, lastEpochs, wpc, dropVars, readerVars>>

(* wait is also what Drop runs after it has published the null pointer. *)
WaitDone ==
  /\ wpc = "wait" /\ i > handles
  /\ wpc' = IF life = "nulled" THEN "drain" ELSE "clone"
  /\ UNCHANGED <<ptr, wbuf, mapVars, logVars, lastEpochs, i, dropVars, readerVars>>

(* Mutant: the second refresh replays the log onto an empty copy. *)
CloneStaleForgotten ==
  /\ wpc = "clone"
  /\ wpc' = "apply" /\ i' = 1
  /\ UNCHANGED <<ptr, wbuf, mapVars, logVars, lastEpochs, dropVars, readerVars>>

(* At the second refresh the stale copy has none of the direct writes.     *)
CloneStale ==
  /\ wpc = "clone"
  /\ data' = IF second THEN [data EXCEPT ![wbuf] = CloneMap(data[ptr])] ELSE data
  /\ wpc' = "apply" /\ i' = 1
  /\ UNCHANGED <<ptr, wbuf, ready, bufMeta, logVars, lastEpochs, dropVars, readerVars>>

ApplyOp ==
  /\ wpc = "apply" /\ i <= Len(oplog)
  /\ data' = [data EXCEPT ![wbuf] = IF i <= swapIndex THEN ApplySecond(@, oplog[i])
                                                      ELSE ApplyFirst(@, oplog[i])]
  /\ i' = i + 1
  /\ UNCHANGED <<ptr, wbuf, ready, bufMeta, logVars, lastEpochs, wpc, dropVars, readerVars>>

(* Mutants: the swap index is the length before the drain; the meta value  *)
(* is not carried over; the operations both copies have seen stay in the log.*)
SwapIndexBeforeDrain ==
  /\ wpc = "apply" /\ i > Len(oplog)
  /\ oplog' = SubSeq(oplog, swapIndex + 1, Len(oplog))
  /\ swapIndex' = Len(oplog)
  /\ bufMeta' = [bufMeta EXCEPT ![wbuf] = meta]
  /\ ready' = [ready EXCEPT ![wbuf] = TRUE]
  /\ ptr' = wbuf /\ wbuf' = ptr
  /\ wpc' = "record" /\ i' = 1
  /\ UNCHANGED <<data, meta, first, second, lastEpochs, dropVars, readerVars>>

SwapWithoutMeta ==
  /\ wpc = "apply" /\ i > Len(oplog)
  /\ oplog' = SubSeq(oplog, swapIndex + 1, Len(oplog))
  /\ swapIndex' = Len(oplog) - swapIndex
  /\ ready' = [ready EXCEPT ![wbuf] = TRUE]
  /\ ptr' = wbuf /\ wbuf' = ptr
  /\ wpc' = "record" /\ i' = 1
  /\ UNCHANGED <<data, bufMeta, meta, first, second, lastEpochs, dropVars, readerVars>>

SwapWithoutDrain ==
  /\ wpc = "apply" /\ i > Len(oplog)
  /\ swapIndex' = Len(oplog)
  /\ bufMeta' = [bufMeta EXCEPT ![wbuf] = meta]
  /\ ready' = [ready EXCEPT ![wbuf] = TRUE]
  /\ ptr' = wbuf /\ wbuf' = ptr
  /\ wpc' = "record" /\ i' = 1
  /\ UNCHANGED <<data, oplog, meta, first, second, lastEpochs, dropVars, readerVars>>

(* The operations both copies have seen leave the log, and the copies swap.*)
Swap ==
  /\ wpc = "apply" /\ i > Len(oplog)
  /\ oplog' = SubSeq(oplog, swapIndex + 1, Len(oplog))
  /\ swapIndex' = Len(oplog) - swapIndex
  /\ bufMeta' = [bufMeta EXCEPT ![wbuf] = meta]
  /\ ready' = [ready EXCEPT ![wbuf] = TRUE]
  /\ ptr' = wbuf /\ wbuf' = ptr
  /\ wpc' = "record" /\ i' = 1
  /\ UNCHANGED <<data, meta, first, second, lastEpochs, dropVars, readerVars>>

(* Mutant: the epochs at the swap are not recorded. *)
RecordForgotten ==
  /\ wpc = "record" /\ i <= handles
  /\ i' = i + 1
  /\ UNCHANGED <<ptr, wbuf, mapVars, logVars, lastEpochs, wpc, dropVars, readerVars>>

Record ==
  /\ wpc = "record" /\ i <= handles
  /\ lastEpochs' = [lastEpochs EXCEPT ![i] = epoch[i]]
  /\ i' = i + 1
  /\ UNCHANGED <<ptr, wbuf, mapVars, logVars, wpc, dropVars, readerVars>>

EndRefresh ==
  /\ wpc = "record" /\ i > handles
  /\ second' = first /\ first' = FALSE
  /\ wpc' = "idle"
  /\ UNCHANGED <<ptr, wbuf, mapVars, oplog, swapIndex, meta, lastEpochs, i, dropVars,
                 readerVars>>

-----------------------------------------------------------------------------
(* Drop for MonoWriteHandle: at most two refreshes empty the log, then the *)
(* pointer becomes null, the writer waits again and frees both copies.     *)

BeginDrop ==
  /\ WriterDrops
  /\ WriterFree
  /\ life' = "flushing"
  /\ UNCHANGED <<ptr, wbuf, mapVars, logVars, lastEpochs, wpc, i, flushes, readerVars>>

(* Mutant: Drop refreshes once. *)
DropRefreshOnce ==
  /\ life = "flushing" /\ wpc = "idle"
  /\ oplog # <<>> /\ flushes < 1
  /\ flushes' = flushes + 1
  /\ Lock
  /\ UNCHANGED life

DropRefresh ==
  /\ life = "flushing" /\ wpc = "idle"
  /\ oplog # <<>> /\ flushes < 2
  /\ flushes' = flushes + 1
  /\ Lock
  /\ UNCHANGED life

PublishNull ==
  /\ life = "flushing" /\ wpc = "idle"
  /\ oplog = <<>>
  /\ ptr' = "null"
  /\ life' = "nulled"
  /\ UNCHANGED <<wbuf, mapVars, logVars, lastEpochs, wpc, i, flushes, readerVars>>

DropLock ==
  /\ life = "nulled" /\ wpc = "idle"
  /\ Lock
  /\ UNCHANGED dropVars

Free ==
  /\ wpc = "drain"
  /\ data' = [data EXCEPT ![wbuf] = EmptyMap]
  /\ life' = "freed" /\ wpc' = "gone"
  /\ UNCHANGED <<ptr, wbuf, ready, bufMeta, logVars, lastEpochs, i, flushes, readerVars>>

-----------------------------------------------------------------------------
ReaderNext == Register \/ \E h \in Handle : BeginRead(h) \/ LoadPtr(h) \/ EndRead(h)

WriterNext ==
  \/ \E op \in Writes : WriteDirect(op) \/ WriteLogged(op)
  \/ \E m \in Meta : SetMeta(m)
  \/ BeginRefresh \/ WaitStep \/ WaitDone \/ CloneStale \/ ApplyOp \/ Swap \/ Record
  \/ EndRefresh
  \/ BeginDrop \/ DropRefresh \/ PublishNull \/ DropLock \/ Free

Next == ReaderNext \/ WriterNext

Spec == Init /\ [][Next]_vars

(* An operation of the writer, once begun, runs to its end, and closures   *)
(* passed to with_handle return.  Nobody is obliged to begin anything, and *)
(* a handle may begin reads without end: the steps of the writer are not   *)
(* promised a moment at which nobody reads (weak fairness, not strong).    *)
Fairness ==
  /\ WF_vars(WaitStep \/ WaitDone \/ CloneStale \/ ApplyOp \/ Swap \/ Record \/ EndRefresh)
  /\ WF_vars(DropRefresh \/ PublishNull \/ DropLock \/ Free)
  /\ \A h \in Handle : WF_vars(LoadPtr(h) \/ EndRead(h))

FairSpec == Spec /\ Fairness

-----------------------------------------------------------------------------
(* Every variable keeps to the values the code's types allow. *)
TypeOK ==
  /\ ptr \in Buf \cup {"null"} /\ wbuf \in Buf
  /\ data \in [Buf -> Map] /\ ready \in [Buf -> BOOLEAN] /\ bufMeta \in [Buf -> Meta]
  /\ oplog \in Seq(Op) /\ swapIndex \in 0..Len(oplog)
  /\ meta \in Meta /\ first \in BOOLEAN /\ second \in BOOLEAN
  /\ lastEpochs \in [Handle -> Epoch]
  /\ wpc \in {"idle", "wait", "clone", "apply", "record", "drain", "gone"} /\ i \in Nat
  /\ life \in {"alive", "flushing", "nulled", "freed"} /\ flushes \in 0..2
  /\ handles \in Own..MaxHandles
  /\ epoch \in [Handle -> Epoch]
  /\ held \in [Handle -> Buf \cup {"none", "begun", "null"}]

(* Whenever the writer may change its copy (a direct write before the      *)
(* first refresh, the clone and the replay of a refresh, the drain of      *)
(* Drop), no read in progress holds that copy: the safety argument in the  *)
(* comments of with_handle and refresh.                                    *)
MayMutate == wpc \in {"clone", "apply", "drain"} \/ (wpc = "idle" /\ first)

ExclusiveAccess == MayMutate => \A h \in Handle : held[h] # wbuf

(* Two refreshes always empty the log: the assertion of Drop. *)
DropFlushesLog == life = "flushing" /\ wpc = "idle" /\ flushes = 2 => oplog = <<>>

(* A read in progress never follows a pointer into a freed map: the claim  *)
(* of the comment at the end of Drop.                                      *)
NoReadAfterFree == life = "freed" => \A h \in Handle : held[h] \notin Buf

(* A refresh returns: it waits for the reads that were in progress when    *)
(* the epochs were recorded and for no later one, so it is not kept from   *)
(* its end by handles that read again and again without a pause, nor by a  *)
(* handle that registered since.                                           *)
RefreshReturns == (wpc = "wait") ~> (wpc \in {"idle", "gone"})

(* A dropped write handle is destroyed in the end. *)
DropCompletes == (life = "flushing") ~> (life = "freed")
=============================================================================
