----------------------------- MODULE CloudSession -----------------------------
(***************************************************************************)
(* A program that opens, merges and reindexes point clouds, and what it    *)
(* then reads from them.                                                   *)
(***************************************************************************)
EXTENDS Clouds

CONSTANTS
  NoCloud,      \* nothing is open, or nothing is expected of it
  Configs,      \* yaml files: [data_path, labels_path, data_dim, labels_dim, labels_index]
  Matrices,     \* rows of words, for the sparse clouds
  Reindexings,  \* lists of pairs of an old and a new index
  Queries,      \* lists of indexes
  MaxFloatsHeld \* bound: merges stop there

(* A chunk of distances has room for a row.                                *)
ASSUME ConfigsAssumption ==
  \A cfg \in Configs : /\ cfg.data_path \in Seq(DOMAIN Files) /\ cfg.data_dim \in 1..MaxFloats
                       /\ cfg.labels_path \in Seq(DOMAIN LabelFiles) /\ cfg.labels_dim \in Nat

(* The rows of a matrix are as long as one another.                        *)
ASSUME MatricesAssumption ==
  \A matrix \in Matrices : /\ matrix \in Seq(Seq(Int)) /\ matrix # <<>>
                           /\ Len(matrix[1]) \in 1..MaxFloats
                           /\ \A k \in DOMAIN matrix : Len(matrix[k]) = Len(matrix[1])

ASSUME IndexesAssumption == Reindexings \subseteq Seq(Nat \X Nat) /\ Queries \subseteq Seq(Nat)

VARIABLES
  cloud,    \* the cloud that is open, or how opening it failed
  maps,     \* the memory maps it reads from, [file, map]
  expected  \* history: [rows, origin, doubts], a point and its label for every row of
            \* the files, the row every index stands for, and why the labels may not
            \* be what the files say; NoCloud where rows of the files are ragged or
            \* labels are missing

vars == <<cloud, maps, expected>>

IsOpen(c) == c # NoCloud /\ "kind" \in DOMAIN c
IsKind(c, kind) == IsOpen(c) /\ c.kind = kind

-----------------------------------------------------------------------------
(* The rows of the files, read one by one.                                 *)
Rows(floats, dim) == [k \in 1..(Len(floats) \div dim) |-> SubSeq(floats, dim * (k - 1) + 1, dim * k)]
AllRows(cfg) ==
  FlattenSeq([k \in DOMAIN cfg.data_path |-> Rows(Files[cfg.data_path[k]].floats, cfg.data_dim)])
Identity(n) == [p \in 0..(n - 1) |-> p]

Expect(points, labels) ==
  [rows |-> [k \in DOMAIN points |-> [point |-> points[k], label |-> labels[k]]],
   origin |-> Identity(Len(points)), doubts |-> {}]
Unlabeled(points) == [k \in DOMAIN points |-> NoLabel]

(* What the rows of a label file say: "negative labels are treated as      *)
(* unlabeled", and no other (csv_loaders.rs).                              *)
IntRow(row) == IF row = Missing THEN NoLabel ELSE IF row < 0 THEN NoLabel ELSE row
IntRows(file) ==
  IF file.ext = "csv" THEN [k \in DOMAIN file.rows |-> IntRow(file.rows[k])]
  ELSE [k \in DOMAIN file.floats |-> IF Hot(file.floats[k]) THEN 1 ELSE 0]
IntLabelRows(cfg) ==
  FlattenSeq([k \in DOMAIN cfg.labels_path |-> IntRows(LabelFiles[cfg.labels_path[k]])])
VecLabelRows(cfg) ==
  FlattenSeq([k \in DOMAIN cfg.labels_path |->
                Rows(LabelFiles[cfg.labels_path[k]].floats, cfg.labels_dim)])

(* Every data file holds whole points; each file has as many labels as     *)
(* points.                                                                 *)
WholePoints(cfg) ==
  \A k \in DOMAIN cfg.data_path : Len(Files[cfg.data_path[k]].floats) % cfg.data_dim = 0
WholeLabels(cfg) ==
  \A k \in DOMAIN cfg.labels_path : Len(LabelFiles[cfg.labels_path[k]].floats) % cfg.labels_dim = 0

FileByFile(cfg) ==
  \A k \in DOMAIN cfg.data_path \cap DOMAIN cfg.labels_path :
    Len(Files[cfg.data_path[k]].floats) * cfg.labels_dim
      = Len(LabelFiles[cfg.labels_path[k]].floats) * cfg.data_dim

(* What makes the labels of a load doubtful: files with a mask merged with *)
(* files without one, and rows that say 0.                                 *)
IsMasked(file) == file.ext = "dat" \/ \E k \in DOMAIN file.rows : ~RowIsLabel(file.rows[k])
SameMasks(cfg) ==
  \A j, k \in DOMAIN cfg.labels_path :
    IsMasked(LabelFiles[cfg.labels_path[j]]) = IsMasked(LabelFiles[cfg.labels_path[k]])
SaysZero(file) == file.ext = "csv" /\ \E k \in DOMAIN file.rows : file.rows[k] = 0
NoZeros(cfg) == \A k \in DOMAIN cfg.labels_path : ~SaysZero(LabelFiles[cfg.labels_path[k]])
Doubts(cfg) == (IF SameMasks(cfg) THEN {} ELSE {"masks"}) \cup (IF NoZeros(cfg) THEN {} ELSE {"zeros"})

ExpectPoints(cfg, whole) ==
  IF whole /\ ~WholePoints(cfg) THEN NoCloud ELSE Expect(AllRows(cfg), Unlabeled(AllRows(cfg)))
ExpectLabels(cfg, labels, doubts) ==
  IF ~WholePoints(cfg) \/ Len(labels) # Len(AllRows(cfg)) THEN NoCloud
  ELSE [Expect(AllRows(cfg), labels) EXCEPT !.doubts = doubts]

-----------------------------------------------------------------------------
Init == cloud = NoCloud /\ maps = {} /\ expected = NoCloud

Opened(cfg, r, open, want) ==
  /\ cloud' = IF Failed(r) THEN [failed |-> r] ELSE r.val
  /\ maps' = IF Failed(r) THEN {} ELSE open
  /\ expected' = IF Failed(r) THEN NoCloud ELSE want

MapsOf(paths) == {[file |-> Files[paths[k]], map |-> MapFile(Files[paths[k]]).val] : k \in DOMAIN paths}

OpenGlued(cfg) ==
  /\ cloud = NoCloud
  /\ Opened(cfg, OpenMemmaps(cfg.data_dim, cfg.data_path), MapsOf(cfg.data_path),
            ExpectPoints(cfg, FALSE))

OpenGluedLabeled(cfg) ==
  /\ cloud = NoCloud
  /\ \A k \in DOMAIN cfg.labels_path : LabelFiles[cfg.labels_path[k]].ext = "dat"
  /\ Opened(cfg, OpenLabeledMemmaps(cfg), MapsOf(cfg.data_path),
            IF FileByFile(cfg) THEN ExpectLabels(cfg, VecLabelRows(cfg), {}) ELSE NoCloud)

(* The maps of what is copied to memory are dropped at the end of the load. *)
LoadRam(cfg) ==
  /\ cloud = NoCloud
  /\ Opened(cfg, RamFromYaml(cfg), {}, ExpectPoints(cfg, TRUE))

LoadLabeledRam(cfg) ==
  /\ cloud = NoCloud
  /\ Opened(cfg, LabeledRamFromYaml(cfg), {},
            ExpectLabels(cfg, IntLabelRows(cfg), Doubts(cfg)))

LoadVecLabeledRam(cfg) ==
  /\ cloud = NoCloud
  /\ \A k \in DOMAIN cfg.labels_path : LabelFiles[cfg.labels_path[k]].ext = "dat"
  /\ Opened(cfg, VecLabeledRamFromYaml(cfg), {},
            IF WholeLabels(cfg) THEN ExpectLabels(cfg, VecLabelRows(cfg), {}) ELSE NoCloud)

(* new_simple: floats in a row and an integer for every point.             *)
NewSimple(matrix) ==
  LET data == DataRamNew(FlattenSeq(matrix), Len(matrix[1]))
      labels == [k \in DOMAIN matrix |-> matrix[k][1]]
  IN /\ cloud = NoCloud
     /\ Opened(NoCloud, Ok(LabeledCloud(data.val, IntLabels(labels, NoMask))), {},
               Expect(matrix, labels))

(* SparseDataRam::new, of the compressed rows of a matrix: the columns of  *)
(* the coordinates that are not zero, row by row, and what stands there.   *)
StoredUpTo(row) ==
  LET stored[n \in 0..Len(row)] ==
        IF n = 0 THEN <<>> ELSE IF row[n] = 0 THEN stored[n - 1] ELSE Append(stored[n - 1], n)
  IN stored
Stored(row) == StoredUpTo(row)[Len(row)]
StoredColumns(row) == [s \in DOMAIN Stored(row) |-> Stored(row)[s] - 1]
StoredValues(row) == [s \in DOMAIN Stored(row) |-> row[Stored(row)[s]]]

RowEnds(matrix) ==
  LET ends[k \in 0..Len(matrix)] == IF k = 0 THEN 0 ELSE ends[k - 1] + Len(Stored(matrix[k]))
  IN ends

Compressed(matrix) ==
  SparseDataNew(FlattenSeq([k \in DOMAIN matrix |-> StoredValues(matrix[k])]),
                FlattenSeq([k \in DOMAIN matrix |-> StoredColumns(matrix[k])]),
                [k \in 1..(Len(matrix) + 1) |-> RowEnds(matrix)[k - 1]], Len(matrix[1]))

NewSparse(matrix) ==
  /\ cloud = NoCloud
  /\ cloud' = Compressed(matrix)
  /\ maps' = {}
  /\ expected' = Expect(matrix, Unlabeled(matrix))

(* DataRam::merge, of a second load.                                       *)
MergeRam(cfg) ==
  LET other == RamFromYaml(cfg)
      merged == DataRamMerge(cloud, other.val)
  IN /\ IsKind(cloud, "dense")
     /\ ~Failed(other)
     /\ Len(cloud.data) + Len(other.val.data) <= MaxFloatsHeld
     /\ Opened(NoCloud, merged, {},
               IF expected = NoCloud \/ ~WholePoints(cfg) THEN NoCloud
               ELSE Expect([k \in DOMAIN expected.rows |-> expected.rows[k].point] \o AllRows(cfg),
                           Unlabeled(expected.rows \o AllRows(cfg))))

(* convert_glued_memmap_to_ram: the sources in their order, whatever the   *)
(* indexes were.                                                           *)
Convert ==
  /\ IsKind(cloud, "glued")
  /\ \A k \in DOMAIN cloud.sources : cloud.sources[k].kind = "dense"
  /\ Opened(NoCloud, ConvertGluedMemmapToRam(cloud), {},
            IF expected = NoCloud \/ \E k \in DOMAIN cloud.sources :
                 Len(cloud.sources[k].data) % cloud.sources[k].dim # 0 THEN NoCloud
            ELSE [expected EXCEPT !.origin = Identity(Len(expected.rows))])

(* HashGluedCloud::reindex: all pairs are looked up before the addresses   *)
(* are replaced; of two pairs with one new index the last one stays.       *)
LastWith(pairs, new) == Max({k \in DOMAIN pairs : pairs[k][2] = new})
NewIndexes(pairs) == {pairs[k][2] : k \in DOMAIN pairs}
OldIndexes(pairs) == {pairs[k][1] : k \in DOMAIN pairs}
Readdressed(c, pairs) ==
  [n \in NewIndexes(pairs) |-> c.addresses[pairs[LastWith(pairs, n)][1]]]

IsBijection(pairs) == Cardinality(NewIndexes(pairs)) = Len(pairs) /\ Cardinality(OldIndexes(pairs)) = Len(pairs)

Reindex(pairs) ==
  /\ IsKind(cloud, "glued")
  /\ IF Len(pairs) # Cardinality(DOMAIN cloud.addresses)
     THEN Opened(NoCloud, Panicked, {}, NoCloud)
     ELSE IF ~(OldIndexes(pairs) \subseteq DOMAIN cloud.addresses)
     THEN UNCHANGED vars
     ELSE /\ cloud' = [cloud EXCEPT !.addresses = Readdressed(cloud, pairs)]
          /\ maps' = maps
          /\ expected' =
               IF expected = NoCloud \/ ~IsBijection(pairs) THEN NoCloud
               ELSE [expected EXCEPT !.origin =
                       [n \in NewIndexes(pairs) |->
                          expected.origin[CHOOSE old \in OldIndexes(pairs) :
                            \E k \in DOMAIN pairs : pairs[k] = <<old, n>>]]]

(* The cloud is dropped with its maps, or what is left of a failure is.    *)
Close ==
  /\ cloud # NoCloud
  /\ cloud' = IF IsKind(cloud, "glued") /\ \E k \in DOMAIN cloud.sources : DropPanics(MapIn(cloud.sources[k]))
              THEN [failed |-> Panicked]
              ELSE NoCloud
  /\ maps' = {} /\ expected' = NoCloud

Next ==
  \/ \E cfg \in Configs : OpenGlued(cfg)
  \/ \E cfg \in Configs : OpenGluedLabeled(cfg)
  \/ \E cfg \in Configs : LoadRam(cfg)
  \/ \E cfg \in Configs : LoadLabeledRam(cfg)
  \/ \E cfg \in Configs : LoadVecLabeledRam(cfg)
  \/ \E matrix \in Matrices : NewSimple(matrix)
  \/ \E matrix \in Matrices : NewSparse(matrix)
  \/ \E cfg \in Configs : MergeRam(cfg)
  \/ Convert
  \/ \E pairs \in Reindexings : Reindex(pairs)
  \/ Close

Spec == Init /\ [][Next]_vars

-----------------------------------------------------------------------------
IsKnown == IsOpen(cloud) /\ expected # NoCloud
Want(i) == expected.rows[expected.origin[i] + 1]

LabelsKept == \A i \in DOMAIN expected.origin : Label(cloud, i) = Ok(Want(i).label)

(* Whatever way a cloud was put together, merged, glued or reindexed, its  *)
(* indexes are the rows of the data files, each with its own coordinates   *)
(* (loaders, DataRam::merge, HashGluedCloud::new and reindex): none is     *)
(* lost, doubled or shifted. Each has its own label too, but not where     *)
(* label files with and without a mask are merged (MixedMasksKeepLabels)   *)
(* nor where a file says 0, which the code masks although it is not        *)
(* negative: of such clouds this says that the points hold, and no more.   *)
CloudIsItsFiles ==
  IsKnown =>
    /\ ReferenceIndexes(cloud) = DOMAIN expected.origin
    /\ CloudLen(cloud) = Len(expected.rows)
    /\ Cardinality(ReferenceIndexes(cloud)) = CloudLen(cloud)
    /\ cloud.kind # "sparse" => \A i \in DOMAIN expected.origin : Point(cloud, i) = Ok(Want(i).point)
    /\ expected.doubts = {} => LabelsKept

(* "Merges 2 labels together": what was a label of one of the files is     *)
(* still that label after the merge, when only some of the files have a    *)
(* mask (SmallIntLabels::merge).                                           *)
MixedMasksKeepLabels == (IsKnown /\ expected.doubts = {"masks"}) => LabelsKept

(* The distance of two rows, with every coordinate counted once.           *)
Distance(base, metric, x, y) ==
  Sqrt(SumOver(DOMAIN y, LAMBDA d :
         IF metric = "L2" THEN L2Term(AsF32(base, x[d]) - AsF32(base, y[d]))
         ELSE L1Term(AsF32(base, x[d]) - AsF32(base, y[d]))))

UnknownOf(pns) == {pns[k] : k \in DOMAIN pns} \ DOMAIN expected.origin

(* A query over many points answers what the points answer one by one,     *)
(* however its chunks are scheduled, and fails with the index of a point   *)
(* that is not there, if there is one (distances_to_point, moment_1,       *)
(* moment_2 and points_dense_matrix).                                      *)
QueriesAgree ==
  (IsKnown /\ cloud.kind # "sparse" /\ expected.rows # <<>>) =>
    \A pns \in Queries :
      LET at == [i \in Range(pns) \cup ReferenceIndexes(cloud) |-> Point(cloud, i)]
          shape == ShapeOf(cloud)
          errors == {Err(DataAccessError(i)) : i \in UnknownOf(pns)}
      IN IF UnknownOf(pns) # {}
         THEN \A metric \in {"L1", "L2"} : \A i \in ReferenceIndexes(cloud) :
                /\ DistancesToPointIndex(i, shape, metric, pns, at) \subseteq errors
                /\ {PointsDenseMatrix(shape, pns, at), Moment1(shape, pns, at), Moment2(shape, pns, at)}
                     \subseteq errors
         ELSE /\ \A metric \in {"L1", "L2"} : \A i \in ReferenceIndexes(cloud) :
                   DistancesToPointIndex(i, shape, metric, pns, at)
                     = {Ok([k \in DOMAIN pns |->
                              Distance("f32", metric, Want(i).point, Want(pns[k]).point)])}
              /\ \A i \in ReferenceIndexes(cloud) : PointDenseArray(shape, i, at) = Ok(Want(i).point)
              /\ PointsDenseMatrix(shape, pns, at) = Ok([k \in DOMAIN pns |-> Want(pns[k]).point])
              /\ Moment1(shape, pns, at) =
                   Ok([d \in 1..shape.dim |-> SumOver(DOMAIN pns, LAMBDA k : Want(pns[k]).point[d])])
              /\ Moment2(shape, pns, at) =
                   Ok([d \in 1..shape.dim |-> SumOver(DOMAIN pns, LAMBDA k : Want(pns[k]).point[d] ^ 2)])

(* A summary of labels tells of the points of a query what they answer one *)
(* by one: how many have no label, and of those that have one how often    *)
(* each integer occurs, or the sums of the vectors and of their squares    *)
(* (label_summary of the label sets, of the sources and of                 *)
(* HashGluedCloud, SummaryCounter, CategorySummary and VecSummary). An     *)
(* index that is not there is the first error of a glued cloud. What the   *)
(* others answer to it is left open: integer and vector labels panic, and  *)
(* an unlabelled source counts a none. Nothing is said of the count of a   *)
(* summary of vectors, which leaves out the first of them.                 *)
LabelsOf(pns) == {k \in DOMAIN pns : Label(cloud, pns[k]).val # NoLabel}
HasIntLabels == cloud.kind = "labeled" /\ cloud.labels.kind = "int"
SummaryTells(pns, summary) ==
  LET label(k) == Label(cloud, pns[k]).val
      labeled == LabelsOf(pns)
  IN /\ summary.nones = Len(pns) - Cardinality(labeled)
     /\ summary.errors = 0
     /\ HasIntLabels =>
          summary.summary = [v \in {label(k) : k \in labeled} |-> Cardinality({k \in labeled : label(k) = v})]
     /\ ~HasIntLabels =>
          \A j \in labeled : \A d \in DOMAIN label(j) :
            /\ summary.summary.m1[d] = SumOver(labeled, LAMBDA k : label(k)[d])
            /\ summary.summary.m2[d] = SumOver(labeled, LAMBDA k : label(k)[d] ^ 2)

SummariesAgree ==
  IsKnown =>
    \A pns \in Queries :
      LET unknown == {k \in DOMAIN pns : pns[k] \notin ReferenceIndexes(cloud)}
          summary == LabelSummary(cloud, pns)
      IN IF unknown = {} THEN ~Failed(summary) /\ SummaryTells(pns, summary.val)
         ELSE cloud.kind = "glued" => summary = Err(DataAccessError(pns[Min(unknown)]))

(* A row of the compressed matrix, as words of any base type, lies as far  *)
(* from another as their dense rows do, whichever stores more and wherever *)
(* their coordinates fall in the lanes (metrics/), and spreads out to its  *)
(* dense row (SparseRef::dense, moment_1).                                 *)
SparseIsDense ==
  (IsKnown /\ cloud.kind = "sparse") =>
    \A i, j \in SparseReferences(cloud) : \A base \in Bases :
      LET x == SparsePoint(cloud, i).val
          y == SparsePoint(cloud, j).val
          p == expected.rows[i + 1].point
          q == expected.rows[j + 1].point
      IN /\ L2SparseDist(base, x, y) = Distance(base, "L2", p, q)
         /\ L2Dist(base, p, q) = Distance(base, "L2", p, q)
         /\ L1SparseDist(base, x, y) = Distance(base, "L1", p, q)
         /\ L1Dist(base, p, q) = Distance(base, "L1", p, q)
         /\ Dense(base, x) = DenseSlice(base, p)
         /\ Moment1(ShapeOf(cloud), <<i, j>>, [n \in {i, j} |-> SparsePoint(cloud, n)])
              = Ok([d \in 1..cloud.dim |-> p[d] + q[d]])

(* What a memory-mapped cloud reads as floats lies in the file and in the  *)
(* pages that were mapped, up to the last whole float, and dropping the    *)
(* map gives back no page but its own (MmapInner, Mmapf32::deref).         *)
MapsCoverTheFiles ==
  \A m \in maps :
    /\ \A b \in DerefBytes(m.map) : b < m.map.ptr + m.file.bytes /\ ByteIsMapped(m.map, b)
    /\ 4 * m.map.len + 4 > m.file.bytes
    /\ Unmapped(m.map) \subseteq m.map.pages
=============================================================================
