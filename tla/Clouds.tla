-------------------------------- MODULE Clouds --------------------------------
(***************************************************************************)
(* Point clouds put together from files: the loaders of the pointcloud     *)
(* crate (loaders/), clouds with labels (SimpleLabeledCloud), clouds glued *)
(* from several sources (HashGluedCloud) and what they answer.             *)
(***************************************************************************)
EXTENDS Labels

CONSTANTS
  Files,        \* data files, [bytes, floats] by name
  LabelFiles    \* label files, [ext |-> "csv", rows] or [ext |-> "dat", bytes, floats]

(* A file of floats has as many of them as its bytes make.                 *)
HasFloats(file) == file.bytes \in Nat /\ file.floats \in Seq(Int) /\ Len(file.floats) = file.bytes \div 4
ASSUME FilesAssumption == \A f \in DOMAIN Files : HasFloats(Files[f])
ASSUME LabelFilesAssumption ==
  \A f \in DOMAIN LabelFiles :
    /\ LabelFiles[f].ext = "csv" => LabelFiles[f].rows \in Seq(Int \cup {Missing})
    /\ LabelFiles[f].ext = "dat" => HasFloats(LabelFiles[f])

-----------------------------------------------------------------------------
(* HashGluedCloud::new numbers the points of its sources in order.         *)
SourceLen(s) == IF s.kind = "labeled" THEN DenseLen(s.data) ELSE DenseLen(s)

GluedCloud(sources) ==
  LET before[k \in 0..Len(sources)] == IF k = 0 THEN 0 ELSE before[k - 1] + SourceLen(sources[k])
      owner(p) == Min({k \in DOMAIN sources : p < before[k]})
  IN [kind |-> "glued", sources |-> sources,
      addresses |-> [p \in 0..(before[Len(sources)] - 1) |-> <<owner(p), p - before[owner(p) - 1]>>]]

LabeledCloud(data, labels) == [kind |-> "labeled", data |-> data, labels |-> labels]

(* point() and label() of a source, and through the addresses.             *)
SourcePoint(s, i) ==
  CASE s.kind = "dense"   -> DensePoint(s, i)
    [] s.kind = "sparse"  -> SparsePoint(s, i)
    [] s.kind = "labeled" -> DensePoint(s.data, i)
SourceLabel(s, i) == IF s.kind = "labeled" THEN LabelOf(s.labels, i) ELSE Ok(NoLabel)

GetAddress(c, i) == IF i \in DOMAIN c.addresses THEN Ok(c.addresses[i]) ELSE Err(DataAccessError(i))

Point(c, i) ==
  IF c.kind # "glued" THEN SourcePoint(c, i)
  ELSE IF Failed(GetAddress(c, i)) THEN GetAddress(c, i)
  ELSE SourcePoint(c.sources[c.addresses[i][1]], c.addresses[i][2])

Label(c, i) ==
  IF c.kind # "glued" THEN SourceLabel(c, i)
  ELSE IF Failed(GetAddress(c, i)) THEN GetAddress(c, i)
  ELSE SourceLabel(c.sources[c.addresses[i][1]], c.addresses[i][2])

(* A glued cloud adds the labels one by one, and gives up at an index it   *)
(* does not know; a label it knows but cannot read counts as an error.     *)
EmptyOf(c) == IF \E k \in DOMAIN c.sources : c.sources[k].kind = "labeled" THEN NoVecs ELSE <<>>
GluedLabelSummary(c, pns) ==
  LET unknown == {k \in DOMAIN pns : pns[k] \notin DOMAIN c.addresses}
      value(i) == IF Failed(Label(c, i)) THEN LabelError ELSE Label(c, i).val
  IN IF unknown # {} THEN Err(DataAccessError(pns[Min(unknown)]))
     ELSE Ok(FoldLeft(LAMBDA s, i : CounterAdd(s, value(i), VecAdd(s.summary, value(i))),
                      EmptyCounter(EmptyOf(c)), pns))

LabelSummary(c, pns) ==
  CASE c.kind = "glued"   -> GluedLabelSummary(c, pns)
    [] c.kind = "labeled" -> LabelSummaryOf(c.labels, pns)
    [] OTHER              -> UnlabeledSummary(pns)

CloudLen(c) ==
  CASE c.kind = "glued"  -> SumOver(DOMAIN c.sources, LAMBDA k : SourceLen(c.sources[k]))
    [] c.kind = "sparse" -> SparseLen(c)
    [] OTHER             -> SourceLen(c)
ReferenceIndexes(c) ==
  CASE c.kind = "glued"   -> DOMAIN c.addresses
    [] c.kind = "sparse"  -> SparseReferences(c)
    [] c.kind = "dense"   -> DenseReferences(c)
    [] c.kind = "labeled" -> DenseReferences(c.data)
Dim(c) ==
  CASE c.kind = "glued"   -> IF c.sources[1].kind = "labeled" THEN c.sources[1].data.dim
                             ELSE c.sources[1].dim
    [] c.kind = "labeled" -> c.data.dim
    [] OTHER              -> c.dim
ShapeOf(c) == [dim |-> Dim(c), sparse |-> c.kind = "sparse"]

-----------------------------------------------------------------------------
(* The loaders. The first file that fails ends the load.                   *)
Collect(rs) ==
  LET bad == {k \in DOMAIN rs : Failed(rs[k])}
  IN IF bad # {} THEN rs[Min(bad)] ELSE Ok([k \in DOMAIN rs |-> rs[k].val])

(* When a file of a glued cloud fails, the maps made before it are dropped. *)
MapIn(s) == IF s.kind = "labeled" THEN s.data ELSE s
CollectMaps(rs) ==
  LET bad == {k \in DOMAIN rs : Failed(rs[k])}
  IN IF bad # {} /\ \E k \in 1..(Min(bad) - 1) : DropPanics(MapIn(rs[k].val)) THEN Panicked
     ELSE Collect(rs)

OpenMemmaps(dim, paths) ==
  LET opened == CollectMaps([k \in DOMAIN paths |-> DataMemmapNew(dim, Files[paths[k]])])
  IN IF Failed(opened) THEN opened ELSE Ok(GluedCloud(opened.val))

(* reduce: the sources after one another; nothing to unwrap without any.   *)
MergeOf(a, b) == IF a.kind = "int" THEN Ok(IntMerge(a, b)) ELSE DataRamMerge(a, b)
Reduce(rs) ==
  IF rs = <<>> THEN Panicked
  ELSE FoldLeft(LAMBDA a, b : IF Failed(a) THEN a ELSE MergeOf(a.val, b), Ok(rs[1]), Tail(rs))

CopyAll(sources) ==
  LET rams == Collect([k \in DOMAIN sources |-> ConvertToRam(sources[k])])
  IN IF Failed(rams) THEN rams ELSE Reduce(rams.val)

ConvertGluedMemmapToRam(glued) == CopyAll(glued.sources)

LoadedFloats(dim, paths) ==
  IF Failed(OpenMemmaps(dim, paths)) THEN OpenMemmaps(dim, paths)
  ELSE ConvertGluedMemmapToRam(OpenMemmaps(dim, paths).val)

RamFromYaml(cfg) == LoadedFloats(cfg.data_dim, cfg.data_path)

OpenLabels(file, cfg) ==
  CASE file.ext = "csv" /\ cfg.labels_index -> OpenIntCsv(file.rows)
    [] file.ext = "dat" /\ cfg.labels_dim > 0 ->
         LET floats == DataMemmapNew(cfg.labels_dim, file)
             labels == ConvertToLabels(floats.val)
         IN IF Failed(floats) THEN floats
            ELSE IF DropPanics(floats.val) THEN Panicked
            ELSE IF Failed(labels) THEN labels
            ELSE IF cfg.labels_dim > 1 THEN OneHotToInt(labels.val) ELSE BinaryToInt(labels.val)
    [] OTHER -> Panicked

LabelsFromYaml(cfg) ==
  LET sets == Collect([k \in DOMAIN cfg.labels_path |-> OpenLabels(LabelFiles[cfg.labels_path[k]], cfg)])
  IN IF Failed(sets) THEN sets ELSE Reduce(sets.val)

LabeledRamFromYaml(cfg) ==
  IF Failed(LabelsFromYaml(cfg)) THEN LabelsFromYaml(cfg)
  ELSE IF Failed(RamFromYaml(cfg)) THEN RamFromYaml(cfg)
  ELSE Ok(LabeledCloud(RamFromYaml(cfg).val, LabelsFromYaml(cfg).val))

(* The label files of the other loaders are files of floats as well.       *)
VecLabelsOf(dim, paths) ==
  LET floats == CollectMaps([k \in DOMAIN paths |-> DataMemmapNew(dim, LabelFiles[paths[k]])])
      ram == CopyAll(floats.val)
  IN IF Failed(floats) THEN floats ELSE IF Failed(ram) THEN ram ELSE ConvertToLabels(ram.val)

VecLabeledRamFromYaml(cfg) ==
  LET labels == VecLabelsOf(cfg.labels_dim, cfg.labels_path)
  IN IF Failed(labels) THEN labels
     ELSE IF Failed(RamFromYaml(cfg)) THEN RamFromYaml(cfg)
     ELSE Ok(LabeledCloud(RamFromYaml(cfg).val, labels.val))

OpenLabeledMemmaps(cfg) ==
  LET labeled(k) ==
        LET data == DataMemmapNew(cfg.data_dim, Files[cfg.data_path[k]])
            labels == VecLabelsOf(cfg.labels_dim, <<cfg.labels_path[k]>>)
        IN IF Failed(data) THEN data
           ELSE IF Failed(labels) THEN IF DropPanics(data.val) THEN Panicked ELSE labels
           ELSE Ok(LabeledCloud(data.val, labels.val))
      collection == CollectMaps([k \in DOMAIN cfg.data_path |-> labeled(k)])
  IN IF Len(cfg.data_path) # Len(cfg.labels_path) THEN Panicked
     ELSE IF Failed(collection) THEN collection
     ELSE Ok(GluedCloud(collection.val))
=============================================================================
