----------------------------- MODULE PointSources -----------------------------
(***************************************************************************)
(* Where points come from: memory maps of files of f32, copies in memory   *)
(* and compressed sparse rows (pointcloud/src/data_sources), and what the  *)
(* trait PointCloud computes over any of them (base_traits.rs).            *)
(***************************************************************************)
EXTENDS Metrics, SequencesExt

CONSTANTS
  PageSize,   \* bytes of a page
  MaxFloats,  \* 300000: the coordinates a chunk of distances may hold
  MaxChunk    \* 100: the points it may hold

ASSUME SourcesAssumption == {PageSize, MaxFloats, MaxChunk} \subseteq Nat \ {0}

Ok(v) == [res |-> "ok", val |-> v]
Err(e) == [res |-> "err", err |-> e]
Panicked == [res |-> "panic"]
Failed(r) == r.res # "ok"

DataAccessError(i) == <<"DataAccessError", i>>
InvalidInput == <<"InvalidInput">>

-----------------------------------------------------------------------------
(* MmapOptionsf32 and MmapInner. Pages are counted from the page the       *)
(* mapping starts in; ptr is the byte of the first float in them.          *)
GetLen(file, offset) == file.bytes - offset

KeepsBytes(len, offset) ==
  IF len + (offset % PageSize) = 0 THEN Err(InvalidInput)
  ELSE Ok([ptr |-> offset % PageSize, len |-> len,
           pages |-> 1..((len + (offset % PageSize) + PageSize - 1) \div PageSize)])
MapNew(len, offset) ==
  IF len + (offset % PageSize) = 0 THEN Err(InvalidInput)
  ELSE Ok([ptr |-> offset % PageSize, len |-> len \div 4,
           pages |-> 1..((len + (offset % PageSize) + PageSize - 1) \div PageSize)])

MapFile(file) == MapNew(GetLen(file, 0), 0)

(* The bytes Mmapf32::deref reads, and the pages drop() gives back: munmap *)
(* is told the number of floats where it expects the number of bytes.      *)
DerefBytes(m) == {m.ptr + k : k \in 0..(4 * m.len - 1)}
Unmapped(m) == 1..((m.len + (m.ptr % PageSize) + PageSize - 1) \div PageSize)
ByteIsMapped(m, b) == b \div PageSize + 1 \in m.pages

-----------------------------------------------------------------------------
(* DataMemmap and DataRam: floats in a row, dim to a point. What a map     *)
(* would read past the end of its file is not a float of the data.         *)
DataMemmapNew(dim, file) ==
  IF Failed(MapFile(file)) THEN MapFile(file)
  ELSE Ok([kind |-> "dense", dim |-> dim,
           data |-> SubSeq(file.floats, 1, Min({MapFile(file).val.len, Len(file.floats)}))])

DataRamNew(data, dim) ==
  IF Len(data) % dim # 0 THEN Panicked
  ELSE Ok([kind |-> "dense", dim |-> dim, data |-> data])

(* The floats are copied and the map is dropped: munmap refuses a length   *)
(* of nothing, which the map of a file of less than a float comes to.      *)
DropPanics(memmap) == memmap.data = <<>>
ConvertToRam(memmap) == IF DropPanics(memmap) THEN Panicked ELSE Ok(memmap)

DataRamMerge(a, b) ==
  IF a.dim # b.dim THEN Panicked ELSE Ok([a EXCEPT !.data = @ \o b.data])

DenseLen(s) == Len(s.data) \div s.dim
DenseReferences(s) == 0..(DenseLen(s) - 1)
DensePoint(s, i) ==
  IF s.dim * i + s.dim > Len(s.data) THEN Err(DataAccessError(i))
  ELSE Ok(SubSeq(s.data, s.dim * i + 1, s.dim * i + s.dim))

(* No label, no metadata: every point counts as a none.                    *)
UnlabeledSummary(pns) == Ok([summary |-> <<>>, nones |-> Len(pns), errors |-> 0])

-----------------------------------------------------------------------------
(* SparseDataRam: row i owns the values from rows[i] up to rows[i + 1].    *)
SparseDataNew(values, cols, rows, dim) ==
  [kind |-> "sparse", dim |-> dim, values |-> values, cols |-> cols, rows |-> rows]

SparseLen(s) == Len(s.rows) - 1
SparseReferences(s) == 0..(SparseLen(s) - 1)

SparsePoint(s, i) ==
  IF i + 2 > Len(s.rows) \/ s.rows[i + 2] > Len(s.values) THEN Panicked
  ELSE LET from == s.rows[i + 1] + 1
           to   == s.rows[i + 2]
       IN Ok([dim |-> s.dim, values |-> SubSeq(s.values, from, to),
              indexes |-> SubSeq(s.cols, from, to)])

-----------------------------------------------------------------------------
(* The trait's own methods, over what point() answers at the indexes of a   *)
(* query, the dimension of the points and whether they are sparse.         *)
IterOf(shape, p) == IF shape.sparse THEN DenseIter("f32", p) ELSE DenseSlice("f32", p)

DistOf(shape, metric, x, y) ==
  IF shape.sparse
  THEN IF metric = "L2" THEN L2SparseDist("f32", x, y) ELSE L1SparseDist("f32", x, y)
  ELSE IF metric = "L2" THEN L2Dist("f32", x, y) ELSE L1Dist("f32", x, y)

(* The first failure a sequential loop over the indexes meets, if any.     *)
FirstFailure(pns, at) ==
  LET bad == {k \in DOMAIN pns : Failed(at[pns[k]])}
  IN IF bad = {} THEN Ok(<<>>) ELSE at[pns[Min(bad)]]

PointDenseArray(shape, i, at) ==
  IF Failed(at[i]) THEN at[i]
  ELSE IF Len(IterOf(shape, at[i].val)) # shape.dim THEN Panicked
  ELSE Ok(IterOf(shape, at[i].val))

PointsDenseMatrix(shape, pns, at) ==
  LET rows == [k \in DOMAIN pns |-> IterOf(shape, at[pns[k]].val)]
  IN IF Failed(FirstFailure(pns, at)) THEN FirstFailure(pns, at)
     ELSE IF Len(FlattenSeq(rows)) # shape.dim * Len(pns) THEN Panicked
     ELSE Ok([k \in DOMAIN pns |->
                SubSeq(FlattenSeq(rows), shape.dim * (k - 1) + 1, shape.dim * k)])

(* moment_1 and moment_2 add what the iterator gives, coordinate by        *)
(* coordinate, to a vector of dim zeros.                                   *)
Coordinate(xs, d) == IF d \in DOMAIN xs THEN xs[d] ELSE 0
CoordinateAt(shape, at, i, d) == Coordinate(IterOf(shape, at[i].val), d)
MomentOf(pns, at, sums) == IF Failed(FirstFailure(pns, at)) THEN FirstFailure(pns, at) ELSE Ok(sums)

Moment1(shape, pns, at) ==
  MomentOf(pns, at, [d \in 1..shape.dim |-> SumOver(DOMAIN pns, LAMBDA k : CoordinateAt(shape, at, pns[k], d))])
Moment2(shape, pns, at) ==
  MomentOf(pns, at, [d \in 1..shape.dim |-> SumOver(DOMAIN pns, LAMBDA k : CoordinateAt(shape, at, pns[k], d) ^ 2)])

-----------------------------------------------------------------------------
(* distances_to_point: one loop for a few points, chunks of points in      *)
(* parallel for many. The result is the set of what a call may return, for *)
(* the chunk that fails last leaves its error.                             *)
Chunk(dim) == Min({MaxFloats \div dim, MaxChunk})
InParallel(dim, pns) == Len(pns) > 3 * Chunk(dim)

(* par_chunks: chunk c of the indexes and of the distances.                *)
ChunkOf(chunk, n, c) == ((c - 1) * chunk + 1)..Min({c * chunk, n})
WholeChunks(chunk, n) == {ChunkOf(chunk, n, c) : c \in 1..(n \div chunk)}
Chunks(chunk, n) == {ChunkOf(chunk, n, c) : c \in 1..((n + chunk - 1) \div chunk)}

DistancesFrom(x, shape, metric, pns, at) ==
  Ok([k \in DOMAIN pns |-> DistOf(shape, metric, x, at[pns[k]].val)])

(* Every chunk runs to its end and leaves its last error; the chunks end   *)
(* in any order. A panic of one is a panic of the call.                    *)
LastError(chunk, pns, at) ==
  LET bad == {k \in chunk : Failed(at[pns[k]])}
  IN IF bad = {} THEN {} ELSE {at[pns[Max(bad)]]}

ParallelDistances(x, shape, metric, pns, at) ==
  LET chunks == Chunks(Chunk(shape.dim), Len(pns))
      errors == UNION {LastError(c, pns, at) : c \in chunks}
  IN IF Chunk(shape.dim) = 0 \/ \E k \in DOMAIN pns : at[pns[k]].res = "panic" THEN {Panicked}
     ELSE IF errors # {} THEN errors
     ELSE {Ok([k \in DOMAIN pns |->
                 IF k \in UNION chunks THEN DistOf(shape, metric, x, at[pns[k]].val)
                 ELSE Sqrt(0)])}

SequentialDistances(x, shape, metric, pns, at) ==
  IF Failed(FirstFailure(pns, at)) THEN {FirstFailure(pns, at)}
  ELSE {DistancesFrom(x, shape, metric, pns, at)}

DistancesToPoint(x, shape, metric, pns, at) ==
  IF InParallel(shape.dim, pns)
  THEN ParallelDistances(x, shape, metric, pns, at)
  ELSE SequentialDistances(x, shape, metric, pns, at)

DistancesToPointIndex(i, shape, metric, pns, at) ==
  IF Failed(at[i]) THEN {at[i]}
  ELSE DistancesToPoint(at[i].val, shape, metric, pns, at)
=============================================================================
