----------------------------- MODULE CloudProofs -----------------------------
(***************************************************************************)
(* Proofs about point clouds, for any files, matrices and registers: that  *)
(* memory maps cover their files, that the lanes of the registers add      *)
(* every coordinate once, that sparse rows are as far apart as their dense *)
(* rows are, that every index of a cloud stands for a row of the files, and*)
(* that a query over many points answers what the points do.               *)
(***************************************************************************)
EXTENDS CloudSession, DataLemmas, FiniteSetTheorems, TLAPS

-----------------------------------------------------------------------------
(* Pages.                                                                  *)

LEMMA DivOf ==
  ASSUME NEW P \in Nat \ {0}, NEW a \in Nat
  PROVE  /\ a \div P \in Nat /\ P * (a \div P) <= a /\ a < P * (a \div P) + P
         /\ P * (a \div P) \in Nat
OBVIOUS

LEMMA DivUnique ==
  ASSUME NEW P \in Nat \ {0}, NEW a \in Int, NEW b \in Int, P * a < P * b + P
  PROVE  a <= b
<1> SUFFICES ASSUME a >= b + 1 PROVE FALSE
  OBVIOUS
<1>1. P * a >= P * (b + 1)
  <2>1. P * (a - (b + 1)) >= 0
    <3> DEFINE k == a - (b + 1)
    <3>1. k \in Nat
      OBVIOUS
    <3> HIDE DEF k
    <3> QED
      BY <3>1 DEF k
  <2>2. P * (a - (b + 1)) = P * a - P * (b + 1)
    OBVIOUS
  <2> QED
    BY <2>1, <2>2
<1>2. P * (b + 1) = P * b + P
  OBVIOUS
<1> QED
  BY <1>1, <1>2

LEMMA DivMonotone ==
  ASSUME NEW P \in Nat \ {0}, NEW a \in Nat, NEW b \in Nat, a <= b
  PROVE  a \div P <= b \div P
<1> DEFINE x == a \div P
           y == b \div P
<1>1. /\ x \in Nat /\ y \in Nat /\ P * x \in Nat /\ P * y \in Nat
      /\ P * x <= a /\ b < P * y + P
  BY DivOf
<1> HIDE DEF x, y
<1>2. P * x < P * y + P
  BY <1>1
<1> QED
  BY <1>1, <1>2, DivUnique DEF x, y

(* A byte before the end lies on one of the pages that hold that many.     *)
LEMMA ByteHasPage ==
  ASSUME NEW P \in Nat \ {0}, NEW n \in Nat, NEW b \in Nat, b < n
  PROVE  b \div P + 1 \in 1..((n + P - 1) \div P)
<1> DEFINE x == b \div P
           m == n + P - 1
           y == m \div P
<1>1. m \in Nat /\ b + P <= m
  OBVIOUS
<1> HIDE DEF m
<1>2. /\ x \in Nat /\ y \in Nat /\ P * x \in Nat /\ P * y \in Nat
      /\ P * x <= b /\ m < P * y + P
  BY <1>1, DivOf
<1> HIDE DEF x, y
<1>3. P * (x + 1) = P * x + P
  BY <1>2
<1>4. P * (x + 1) < P * y + P
  BY <1>1, <1>2, <1>3
<1>5. x + 1 <= y
  BY <1>2, <1>4, DivUnique
<1> QED
  BY <1>2, <1>5 DEF x, y, m

(* A map of a file covers it. *)
MapOf(f) == [file |-> f, map |-> MapFile(f).val]
Covers(m) ==
  /\ \A b \in DerefBytes(m.map) : b < m.map.ptr + m.file.bytes /\ ByteIsMapped(m.map, b)
  /\ 4 * m.map.len + 4 > m.file.bytes
  /\ Unmapped(m.map) \subseteq m.map.pages

LEMMA MapCovers ==
  ASSUME NEW f, f.bytes \in Nat, ~Failed(MapFile(f))
  PROVE  Covers(MapOf(f))
<1> DEFINE n == f.bytes
           P == PageSize
<1>1. P \in Nat \ {0} /\ n \in Nat
  BY SourcesAssumption
<1>2. 0 % P = 0
  BY <1>1
<1>3. MapFile(f) = Ok([ptr |-> 0, len |-> n \div 4, pages |-> 1..((n + P - 1) \div P)])
  <2>1. n - 0 + (0 % P) = n /\ n - 0 = n /\ n + (0 % P) = n
    BY <1>1, <1>2
  <2>2. MapFile(f) = IF n = 0 THEN Err(InvalidInput)
                     ELSE Ok([ptr |-> 0, len |-> n \div 4, pages |-> 1..((n + P - 1) \div P)])
    BY <2>1, <1>2 DEF MapFile, MapNew, GetLen
  <2> QED
    BY <2>2 DEF Failed, Err
<1> DEFINE len == n \div 4
           pages == 1..((n + P - 1) \div P)
           m == [ptr |-> 0, len |-> len, pages |-> pages]
<1>4. MapOf(f) = [file |-> f, map |-> m]
  BY <1>3 DEF MapOf, Ok
<1>5. len \in Nat /\ 4 * len <= n /\ n < 4 * len + 4
  BY <1>1
<1> HIDE DEF len
<1>6. \A b \in DerefBytes(m) : b \in Nat /\ b < n
  BY <1>1, <1>5 DEF DerefBytes
<1>7. \A b \in DerefBytes(m) : b < n /\ b \div P + 1 \in pages
  BY <1>1, <1>6, ByteHasPage
<1>8. Unmapped(m) \subseteq pages
  <2>1. Unmapped(m) = 1..((len + P - 1) \div P)
    BY <1>1, <1>2, <1>5 DEF Unmapped
  <2>2. (len + P - 1) \div P <= (n + P - 1) \div P
    <3>1. len + P - 1 \in Nat /\ n + P - 1 \in Nat /\ len + P - 1 <= n + P - 1
      BY <1>1, <1>5
    <3> QED
      BY <1>1, <3>1, DivMonotone
  <2>3. (len + P - 1) \div P \in Int /\ (n + P - 1) \div P \in Int
    <3>1. len + P - 1 \in Nat /\ n + P - 1 \in Nat
      BY <1>1, <1>5
    <3> QED
      BY <1>1, <3>1, DivOf
  <2> QED
    BY <2>1, <2>2, <2>3
<1> HIDE DEF m
<1>9. m.ptr = 0 /\ m.len = len /\ m.pages = pages
  BY DEF m
<1>10. MapOf(f).file = f /\ MapOf(f).map = m
  BY <1>4
<1>11. 0 + n = n
  BY <1>1
<1> HIDE DEF P, pages
<1>12. Covers(MapOf(f)) <=>
         /\ \A b \in DerefBytes(m) : b < m.ptr + n /\ ByteIsMapped(m, b)
         /\ 4 * m.len + 4 > n
         /\ Unmapped(m) \subseteq m.pages
  BY <1>10 DEF Covers
<1>13. \A b \in DerefBytes(m) : b < m.ptr + n /\ ByteIsMapped(m, b)
  BY <1>7, <1>9, <1>11 DEF ByteIsMapped, P
<1> QED
  BY <1>5, <1>8, <1>9, <1>12, <1>13

-----------------------------------------------------------------------------
(* Files that were opened were mapped.                                     *)

LEMMA CollectedAll ==
  ASSUME NEW n \in Nat, NEW rs, DOMAIN rs = 1..n, ~Failed(Collect(rs))
  PROVE  /\ \A k \in 1..n : ~Failed(rs[k])
         /\ Collect(rs).val = [k \in 1..n |-> rs[k].val]
<1> DEFINE bad == {k \in 1..n : Failed(rs[k])}
<1>1. Collect(rs) = IF bad # {} THEN rs[Min(bad)] ELSE Ok([k \in 1..n |-> rs[k].val])
  BY DEF Collect
<1>2. bad = {}
  <2> SUFFICES ASSUME bad # {} PROVE FALSE
    OBVIOUS
  <2>1. Min(bad) \in bad
    BY MinOfNaturals
  <2> QED
    BY <1>1, <2>1
<1> QED
  BY <1>1, <1>2 DEF Ok

LEMMA MapsCollected ==
  ASSUME NEW rs, ~Failed(CollectMaps(rs))
  PROVE  CollectMaps(rs) = Collect(rs) /\ ~Failed(Collect(rs))
BY DEF CollectMaps, Panicked, Failed

LEMMA CopiedAll ==
  ASSUME NEW n \in Nat, NEW ss, DOMAIN ss = 1..n, ~Failed(CopyAll(ss))
  PROVE  CopyAll(ss) = Reduce([k \in 1..n |-> ss[k]])
<1> DEFINE rs == [k \in DOMAIN ss |-> ConvertToRam(ss[k])]
<1>1. ~Failed(Collect(rs)) /\ CopyAll(ss) = Reduce(Collect(rs).val)
  BY DEF CopyAll
<1>2. DOMAIN rs = 1..n /\ \A k \in 1..n : rs[k] = ConvertToRam(ss[k])
  OBVIOUS
<1> HIDE DEF rs
<1>3. (\A k \in 1..n : ~Failed(rs[k])) /\ Collect(rs).val = [k \in 1..n |-> rs[k].val]
  BY <1>1, <1>2, CollectedAll
<1>4. \A k \in 1..n : rs[k].val = ss[k]
  <2> SUFFICES ASSUME NEW k \in 1..n PROVE rs[k].val = ss[k]
    OBVIOUS
  <2>1. ~Failed(ConvertToRam(ss[k]))
    BY <1>2, <1>3
  <2>2. ConvertToRam(ss[k]) = Ok(ss[k])
    BY <2>1 DEF ConvertToRam, Panicked, Failed
  <2> QED
    BY <2>2, <1>2 DEF Ok
<1>5. [k \in 1..n |-> rs[k].val] = [k \in 1..n |-> ss[k]]
  BY <1>4
<1> QED
  BY <1>1, <1>3, <1>5

MapsAreOfFiles ==
  \A m \in maps : \E f \in DOMAIN Files : m = MapOf(Files[f]) /\ ~Failed(MapFile(Files[f]))

LEMMA OpenedMapsAreOfFiles ==
  ASSUME NEW paths \in Seq(DOMAIN Files), \A k \in DOMAIN paths : ~Failed(MapFile(Files[paths[k]]))
  PROVE  \A m \in MapsOf(paths) : \E f \in DOMAIN Files : m = MapOf(Files[f]) /\ ~Failed(MapFile(Files[f]))
BY DEF MapsOf, MapOf

LEMMA MemmapIsOfMap ==
  ASSUME NEW dim, NEW f, ~Failed(DataMemmapNew(dim, f))
  PROVE  ~Failed(MapFile(f))
BY DEF DataMemmapNew

LEMMA OpenMapsFiles ==
  ASSUME NEW dim, NEW paths \in Seq(DOMAIN Files), ~Failed(OpenMemmaps(dim, paths))
  PROVE  \A k \in DOMAIN paths : ~Failed(MapFile(Files[paths[k]]))
<1> DEFINE rs == [k \in DOMAIN paths |-> DataMemmapNew(dim, Files[paths[k]])]
<1>1. Len(paths) \in Nat /\ DOMAIN paths = 1..Len(paths) /\ DOMAIN rs = DOMAIN paths
  OBVIOUS
<1>2. ~Failed(Collect(rs))
  <2>1. ~Failed(CollectMaps(rs))
    BY DEF OpenMemmaps
  <2> QED
    BY <2>1, MapsCollected
<1>3. \A k \in DOMAIN paths : ~Failed(rs[k])
  <2> HIDE DEF rs
  <2> QED
    BY <1>1, <1>2, CollectedAll
<1> QED
  BY <1>3, MemmapIsOfMap

LEMMA OpenLabeledMapsFiles ==
  ASSUME NEW cfg \in Configs, ~Failed(OpenLabeledMemmaps(cfg))
  PROVE  \A k \in DOMAIN cfg.data_path : ~Failed(MapFile(Files[cfg.data_path[k]]))
<1> DEFINE paths == cfg.data_path
           data(k) == DataMemmapNew(cfg.data_dim, Files[paths[k]])
           labels(k) == VecLabelsOf(cfg.labels_dim, <<cfg.labels_path[k]>>)
           labeled(k) == IF Failed(data(k)) THEN data(k)
                         ELSE IF Failed(labels(k)) THEN IF DropPanics(data(k).val) THEN Panicked ELSE labels(k)
                         ELSE Ok(LabeledCloud(data(k).val, labels(k).val))
           rs == [k \in DOMAIN paths |-> labeled(k)]
<1>1. Len(paths) \in Nat /\ DOMAIN paths = 1..Len(paths) /\ DOMAIN rs = DOMAIN paths
  BY ConfigsAssumption
<1>2. ~Failed(Collect(rs))
  <2>1. ~Failed(CollectMaps(rs))
    BY DEF OpenLabeledMemmaps, Panicked, Failed
  <2> QED
    BY <2>1, MapsCollected
<1>3. \A k \in DOMAIN paths : ~Failed(rs[k])
  <2> HIDE DEF rs
  <2> QED
    BY <1>1, <1>2, CollectedAll
<1>4. \A k \in DOMAIN paths : ~Failed(data(k))
  <2> HIDE DEF data, labels
  <2> QED
    BY <1>3 DEF Panicked, Failed
<1> QED
  BY <1>4, MemmapIsOfMap

LEMMA OpenedKeepsMaps ==
  ASSUME NEW cfg, NEW r, NEW open, NEW want, Opened(cfg, r, open, want),
         ~Failed(r) => \A m \in open : \E f \in DOMAIN Files : m = MapOf(Files[f]) /\ ~Failed(MapFile(Files[f]))
  PROVE  MapsAreOfFiles'
BY DEF Opened, MapsAreOfFiles

LEMMA MapsStep ==
  ASSUME MapsAreOfFiles, [Next]_vars
  PROVE  MapsAreOfFiles'
<1>1. ASSUME NEW cfg \in Configs, OpenGlued(cfg) PROVE MapsAreOfFiles'
  <2>1. cfg.data_path \in Seq(DOMAIN Files)
    BY ConfigsAssumption
  <2>2. Opened(cfg, OpenMemmaps(cfg.data_dim, cfg.data_path), MapsOf(cfg.data_path),
               ExpectPoints(cfg, FALSE))
    BY <1>1 DEF OpenGlued
  <2>3. ~Failed(OpenMemmaps(cfg.data_dim, cfg.data_path)) =>
          \A m \in MapsOf(cfg.data_path) : \E f \in DOMAIN Files :
            m = MapOf(Files[f]) /\ ~Failed(MapFile(Files[f]))
    BY <2>1, OpenMapsFiles, OpenedMapsAreOfFiles
  <2> QED
    BY <2>2, <2>3, OpenedKeepsMaps
<1>2. ASSUME NEW cfg \in Configs, OpenGluedLabeled(cfg) PROVE MapsAreOfFiles'
  <2>1. cfg.data_path \in Seq(DOMAIN Files)
    BY ConfigsAssumption
  <2> DEFINE want == IF FileByFile(cfg) THEN ExpectLabels(cfg, VecLabelRows(cfg), {}) ELSE NoCloud
  <2>2. Opened(cfg, OpenLabeledMemmaps(cfg), MapsOf(cfg.data_path), want)
    BY <1>2 DEF OpenGluedLabeled
  <2>3. ~Failed(OpenLabeledMemmaps(cfg)) =>
          \A m \in MapsOf(cfg.data_path) : \E f \in DOMAIN Files :
            m = MapOf(Files[f]) /\ ~Failed(MapFile(Files[f]))
    BY <2>1, OpenLabeledMapsFiles, OpenedMapsAreOfFiles
  <2> HIDE DEF want
  <2> QED
    BY <2>2, <2>3, OpenedKeepsMaps
<1>3. ASSUME NEW cfg, NEW r, NEW want, Opened(cfg, r, {}, want) PROVE MapsAreOfFiles'
  BY <1>3 DEF Opened, MapsAreOfFiles
<1>4. ASSUME NEW cfg \in Configs, LoadRam(cfg) PROVE MapsAreOfFiles'
  BY <1>3, <1>4 DEF LoadRam
<1>5. ASSUME NEW cfg \in Configs, LoadLabeledRam(cfg) PROVE MapsAreOfFiles'
  BY <1>3, <1>5 DEF LoadLabeledRam
<1>6. ASSUME NEW cfg \in Configs, LoadVecLabeledRam(cfg) PROVE MapsAreOfFiles'
  BY <1>3, <1>6 DEF LoadVecLabeledRam
<1>7. ASSUME NEW matrix \in Matrices, NewSimple(matrix) PROVE MapsAreOfFiles'
  BY <1>3, <1>7 DEF NewSimple
<1>8. ASSUME NEW matrix \in Matrices, NewSparse(matrix) PROVE MapsAreOfFiles'
  BY <1>8 DEF NewSparse, MapsAreOfFiles
<1>9. ASSUME NEW cfg \in Configs, MergeRam(cfg) PROVE MapsAreOfFiles'
  BY <1>3, <1>9 DEF MergeRam
<1>10. CASE Convert
  BY <1>3, <1>10 DEF Convert
<1>11. ASSUME NEW pairs \in Reindexings, Reindex(pairs) PROVE MapsAreOfFiles'
  BY <1>3, <1>11 DEF Reindex, MapsAreOfFiles, vars
<1>12. CASE Close
  BY <1>12 DEF Close, MapsAreOfFiles
<1>13. CASE UNCHANGED vars
  BY <1>13 DEF MapsAreOfFiles, vars
<1> QED
  BY <1>1, <1>2, <1>4, <1>5, <1>6, <1>7, <1>8, <1>9, <1>10, <1>11, <1>12, <1>13 DEF Next

(* A map that is open covers its file up to the last whole float, reads    *)
(* nothing beyond it and nothing that was not mapped, and gives back no    *)
(* page but its own (MmapInner, Mmapf32::deref).                           *)
THEOREM MapsCoverFiles == Spec => []MapsCoverTheFiles
<1>1. Init => MapsAreOfFiles
  BY DEF Init, MapsAreOfFiles
<1>2. MapsAreOfFiles /\ [Next]_vars => MapsAreOfFiles'
  BY MapsStep
<1>3. MapsAreOfFiles => MapsCoverTheFiles
  <2> SUFFICES ASSUME MapsAreOfFiles, NEW m \in maps PROVE Covers(m)
    BY DEF MapsCoverTheFiles, Covers
  <2>1. PICK f \in DOMAIN Files : m = MapOf(Files[f]) /\ ~Failed(MapFile(Files[f]))
    BY DEF MapsAreOfFiles
  <2>2. Files[f].bytes \in Nat
    BY FilesAssumption DEF HasFloats
  <2> QED
    BY <2>1, <2>2, MapCovers
<1> QED
  BY <1>1, <1>2, <1>3, PTL DEF Spec

-----------------------------------------------------------------------------
(* The lanes of a register and what is left over are all coordinates.      *)

LEMMA LanesCut ==
  ASSUME NEW n \in Nat
  PROVE  \E c, e \in Nat : /\ c + e <= n
                           /\ WideLanes(n) = 1..c
                           /\ NarrowLanes(n) = (c + 1)..(c + e)
                           /\ Leftover(n) = (c + e + 1)..n
<1> DEFINE c == Wide * WideSteps(n)
           e == Narrow * NarrowSteps(n)
<1>1. Wide \in Nat \ {0} /\ Narrow \in Nat \ {0}
  BY LanesAssumption
<1>2. c \in Nat /\ c <= n
  <2>1. CASE n > Wide
    <3> DEFINE q == (n - 1) \div Wide
    <3>1. n - 1 \in Nat
      BY <1>1, <2>1
    <3>2. q \in Nat /\ Wide * q <= n - 1 /\ Wide * q \in Nat
      BY <1>1, <3>1, DivOf
    <3>3. c = Wide * q
      BY <2>1 DEF WideSteps
    <3> HIDE DEF q, c
    <3> QED
      BY <3>2, <3>3
  <2>2. CASE ~(n > Wide)
    <3>1. c = Wide * 0
      BY <2>2 DEF WideSteps
    <3>2. Wide * 0 = 0
      BY <1>1
    <3> HIDE DEF c
    <3> QED
      BY <3>1, <3>2
  <2> QED
    BY <2>1, <2>2
<1>3. e \in Nat /\ c + e <= n
  <2>1. CASE n - c > Narrow
    <3>1. e = Narrow * 1 /\ Narrow * 1 = Narrow
      BY <1>1, <2>1 DEF NarrowSteps
    <3> HIDE DEF c, e
    <3> QED
      BY <1>1, <1>2, <2>1, <3>1
  <2>2. CASE ~(n - c > Narrow)
    <3>1. e = Narrow * 0 /\ Narrow * 0 = 0
      BY <1>1, <2>2 DEF NarrowSteps
    <3> HIDE DEF c, e
    <3> QED
      BY <1>2, <3>1
  <2> QED
    BY <2>1, <2>2
<1>4. /\ WideLanes(n) = 1..c /\ NarrowLanes(n) = {c + k : k \in 1..e}
      /\ Leftover(n) = (c + e + 1)..n
  BY DEF WideLanes, NarrowLanes, Leftover
<1> HIDE DEF c, e
<1>5. {c + k : k \in 1..e} = (c + 1)..(c + e)
  <2>1. ASSUME NEW x \in (c + 1)..(c + e) PROVE \E k \in 1..e : x = c + k
    <3>1. x - c \in 1..e /\ x = c + (x - c)
      BY <1>2, <1>3
    <3> QED
      BY <3>1
  <2>2. \A k \in 1..e : c + k \in (c + 1)..(c + e)
    BY <1>2, <1>3
  <2> QED
    BY <2>1, <2>2
<1> QED
  BY <1>2, <1>3, <1>4, <1>5

LEMMA SumOverIs ==
  ASSUME NEW S, NEW f
  PROVE  SumFunction([k \in S |-> f[k]]) = SumFunctionOnSet([k \in S |-> f[k]], S)
BY DEF SumFunction

LEMMA SumOverPart ==
  ASSUME NEW S, IsFiniteSet(S), NEW f
  PROVE  SumFunction([k \in S |-> f[k]]) = SumFunctionOnSet(f, S)
<1> DEFINE g == [k \in S |-> f[k]]
<1>1. \A k \in S : g[k] = f[k]
  OBVIOUS
<1> HIDE DEF g
<1>2. SumFunctionOnSet(g, S) = SumFunctionOnSet(f, S)
  BY <1>1, SumOfSame
<1> QED
  BY <1>2, SumOverIs DEF g

LEMMA LanesAddAll ==
  ASSUME NEW n \in Nat, NEW t \in [1..n -> Int]
  PROVE  InLanes(t) = SumFunctionOnSet(t, 1..n)
<1>1. Len(t) = n
  OBVIOUS
<1>2. PICK c \in Nat, e \in Nat : /\ c + e <= n
                                  /\ WideLanes(n) = 1..c
                                  /\ NarrowLanes(n) = (c + 1)..(c + e)
                                  /\ Leftover(n) = (c + e + 1)..n
  BY LanesCut
<1> DEFINE A == 1..c
           B == (c + 1)..(c + e)
           C == (c + e + 1)..n
           sum(S) == SumFunctionOnSet(t, S)
<1>3. IsFiniteSet(A) /\ IsFiniteSet(B) /\ IsFiniteSet(C) /\ IsFiniteSet(A \cup B)
  <2>1. IsFiniteSet(A) /\ IsFiniteSet(B) /\ IsFiniteSet(C)
    BY FS_Interval
  <2> HIDE DEF A, B, C
  <2> QED
    BY <2>1, FS_Union
<1>4. InLanes(t) = sum(C) + sum(B) + sum(A)
  <2>1. InLanes(t) = SumFunction([k \in C |-> t[k]]) + SumFunction([k \in B |-> t[k]])
                       + SumFunction([k \in A |-> t[k]])
    BY <1>1, <1>2 DEF InLanes, SumOver
  <2> HIDE DEF A, B, C
  <2> QED
    BY <1>3, <2>1, SumOverPart
<1>5. /\ NothingInCommon(A, B) /\ NothingInCommon(A \cup B, C) /\ (A \cup B) \cup C = 1..n
      /\ \A k \in (A \cup B) \cup C : t[k] \in Int
  BY <1>2 DEF NothingInCommon
<1> HIDE DEF A, B, C
<1>6. sum(A \cup B) = sum(A) + sum(B)
  <2>1. \A k \in A \cup B : t[k] \in Int
    BY <1>5
  <2> QED
    BY <2>1, <1>3, <1>5, SumOfUnion
<1>7. sum((A \cup B) \cup C) = sum(A \cup B) + sum(C)
  BY <1>3, <1>5, SumOfUnion
<1>8. sum(A) \in Int /\ sum(B) \in Int /\ sum(C) \in Int
  <2>1. /\ \A k \in A : t[k] \in Int
        /\ \A k \in B : t[k] \in Int
        /\ \A k \in C : t[k] \in Int
    BY <1>5
  <2> QED
    BY <2>1, <1>3, SumType
<1> HIDE DEF sum
<1>9. sum(1..n) = sum(A) + sum(B) + sum(C)
  BY <1>5, <1>6, <1>7
<1>10. InLanes(t) = sum(1..n)
  BY <1>4, <1>8, <1>9
<1> QED
  BY <1>10 DEF sum

-----------------------------------------------------------------------------
(* What the metrics add.                                                   *)
Metric == {"L1", "L2"}

LEMMA TermIs ==
  ASSUME NEW metric \in Metric, NEW v \in Int, NEW w \in Int
  PROVE  /\ Term(metric, v - w) \in Int /\ Term(metric, 0) = 0 /\ Term(metric, v) \in Int
         /\ Term(metric, v - w) = Term(metric, w - v)
         /\ Term(metric, v - 0) = Term(metric, v) /\ Term(metric, 0 - v) = Term(metric, v)
<1>1. \A x \in Int : /\ Term(metric, x) \in Int
                     /\ Term(metric, -x) = Term(metric, x)
  <2> SUFFICES ASSUME NEW x \in Int PROVE Term(metric, x) \in Int /\ Term(metric, -x) = Term(metric, x)
    OBVIOUS
  <2>1. CASE metric = "L2"
    <3>1. x * x \in Int /\ (-x) * (-x) = x * x
      OBVIOUS
    <3> QED
      BY <2>1, <3>1 DEF Term, L2Term
  <2>2. CASE metric = "L1"
    BY <2>2 DEF Term, L1Term, Abs
  <2> QED
    BY <2>1, <2>2 DEF Metric
<1>2. Term(metric, 0) = 0
  BY DEF Term, L1Term, L2Term, Abs
<1>3. v - w \in Int /\ w - v = -(v - w) /\ v - 0 = v /\ 0 - v = -v
  OBVIOUS
<1> QED
  BY <1>1, <1>2, <1>3

-----------------------------------------------------------------------------
(* A sparse point: its columns, from zero, go up.                          *)
SparseOf(n) ==
  {p \in [dim: {n}, indexes: Seq(0..(n - 1)), values: Seq(Int)] :
     /\ Len(p.indexes) = Len(p.values)
     /\ \A j, k \in 1..Len(p.indexes) : j < k => p.indexes[j] < p.indexes[k]}

(* The coordinates a point stores from a position on, zero elsewhere.      *)
StoredAt(p, i, d) == {k \in i..Len(p.indexes) : p.indexes[k] = d - 1}
Spread(n, p, i) ==
  [d \in 1..n |-> IF StoredAt(p, i, d) = {} THEN 0 ELSE p.values[CHOOSE k \in StoredAt(p, i, d) : TRUE]]

LEMMA SparseFields ==
  ASSUME NEW n \in Nat, NEW p \in SparseOf(n)
  PROVE  /\ Len(p.indexes) \in Nat
         /\ \A k \in 1..Len(p.indexes) : /\ p.indexes[k] \in Nat /\ p.indexes[k] + 1 \in 1..n
                                         /\ p.values[k] \in Int
         /\ \A j, k \in 1..Len(p.indexes) : j < k => p.indexes[j] < p.indexes[k]
         /\ \A j, k \in 1..Len(p.indexes) : p.indexes[j] = p.indexes[k] => j = k
<1> DEFINE xs == p.indexes
           vs == p.values
<1>1. /\ xs \in Seq(0..(n - 1)) /\ vs \in Seq(Int) /\ Len(xs) = Len(vs)
      /\ \A j, k \in 1..Len(xs) : j < k => xs[j] < xs[k]
  BY DEF SparseOf
<1> HIDE DEF xs, vs
<1>2. Len(xs) \in Nat /\ \A k \in 1..Len(xs) : xs[k] \in 0..(n - 1) /\ vs[k] \in Int
  BY <1>1
<1>3. \A k \in 1..Len(xs) : xs[k] \in Nat /\ xs[k] + 1 \in 1..n
  BY <1>2
<1>4. ASSUME NEW j \in 1..Len(xs), NEW k \in 1..Len(xs), xs[j] = xs[k] PROVE j = k
  <2>1. j < k \/ k < j \/ j = k
    BY <1>2
  <2>2. ~(xs[j] < xs[k]) /\ ~(xs[k] < xs[j])
    BY <1>3, <1>4
  <2> QED
    BY <2>1, <2>2, <1>1
<1> QED
  BY <1>1, <1>2, <1>3, <1>4 DEF xs, vs

LEMMA SpreadStores ==
  ASSUME NEW n \in Nat, NEW p \in SparseOf(n), NEW i \in 1..(Len(p.indexes) + 1)
  PROVE  /\ Spread(n, p, i) \in [1..n -> Int]
         /\ \A k \in i..Len(p.indexes) : Spread(n, p, i)[p.indexes[k] + 1] = p.values[k]
         /\ \A d \in 1..n : (\A k \in i..Len(p.indexes) : p.indexes[k] # d - 1) => Spread(n, p, i)[d] = 0
<1> DEFINE xs == p.indexes
           vs == p.values
           m == Len(xs)
           f == Spread(n, p, i)
<1>1. /\ m \in Nat
      /\ \A k \in 1..m : xs[k] \in Nat /\ xs[k] + 1 \in 1..n /\ vs[k] \in Int
      /\ \A j, k \in 1..m : xs[j] = xs[k] => j = k
  BY SparseFields
<1>2. i..m \subseteq 1..m
  BY <1>1
<1>3. f = [d \in 1..n |-> IF StoredAt(p, i, d) = {} THEN 0 ELSE vs[CHOOSE k \in StoredAt(p, i, d) : TRUE]]
      /\ \A d \in 1..n : StoredAt(p, i, d) = {k \in i..m : xs[k] = d - 1}
  BY DEF Spread, StoredAt
<1> HIDE DEF xs, vs, m, f
<1>4. ASSUME NEW d \in 1..n
      PROVE  /\ f[d] \in Int
             /\ \A k \in i..m : xs[k] = d - 1 => f[d] = vs[k]
             /\ (\A k \in i..m : xs[k] # d - 1) => f[d] = 0
  <2> DEFINE S == StoredAt(p, i, d)
  <2>1. S = {k \in i..m : xs[k] = d - 1} /\ f[d] = IF S = {} THEN 0 ELSE vs[CHOOSE k \in S : TRUE]
    BY <1>3
  <2> HIDE DEF S
  <2>2. CASE S = {}
    BY <2>1, <2>2
  <2>3. CASE S # {}
    <3> DEFINE c == CHOOSE k \in S : TRUE
    <3>1. c \in S
      BY <2>3
    <3>2. f[d] = vs[c]
      BY <2>1, <2>3
    <3> HIDE DEF c
    <3>3. c \in 1..m /\ xs[c] = d - 1 /\ c \in i..m
      BY <3>1, <2>1, <1>2
    <3>4. \A k \in i..m : xs[k] = d - 1 => k = c
      BY <3>3, <1>1, <1>2
    <3> QED
      BY <3>2, <3>3, <3>4, <1>1
  <2> QED
    BY <2>2, <2>3
<1>5. f \in [1..n -> Int]
  BY <1>3, <1>4
<1>6. ASSUME NEW k \in i..m PROVE f[xs[k] + 1] = vs[k]
  <2>1. xs[k] + 1 \in 1..n /\ xs[k] = (xs[k] + 1) - 1
    BY <1>1, <1>2
  <2> DEFINE d == xs[k] + 1
  <2>2. d \in 1..n /\ xs[k] = d - 1
    BY <2>1
  <2> HIDE DEF d
  <2>3. f[d] = vs[k]
    BY <1>4, <2>2
  <2> QED
    BY <2>3 DEF d
<1> QED
  BY <1>4, <1>5, <1>6 DEF xs, vs, m, f

(* A step over the coordinate a point stores at a position: there is none  *)
(* of it later, and what is stored elsewhere stays.                        *)
LEMMA SpreadStep ==
  ASSUME NEW n \in Nat, NEW p \in SparseOf(n), NEW i \in 1..Len(p.indexes)
  PROVE  LET c == p.indexes[i] + 1
         IN  /\ c \in 1..n
             /\ Spread(n, p, i)[c] = p.values[i] /\ Spread(n, p, i + 1)[c] = 0
             /\ \A d \in 1..n : d # c => Spread(n, p, i)[d] = Spread(n, p, i + 1)[d]
             /\ \A d \in 1..n : d < c => Spread(n, p, i)[d] = 0
<1> DEFINE xs == p.indexes
           vs == p.values
           m == Len(xs)
           f == Spread(n, p, i)
           g == Spread(n, p, i + 1)
           c == xs[i] + 1
<1>1. /\ m \in Nat
      /\ \A k \in 1..m : xs[k] \in Nat /\ xs[k] + 1 \in 1..n /\ vs[k] \in Int
      /\ \A j, k \in 1..m : j < k => xs[j] < xs[k]
  BY SparseFields
<1>2. i \in 1..(m + 1) /\ i + 1 \in 1..(m + 1)
  BY <1>1
<1>3. /\ \A k \in i..m : f[xs[k] + 1] = vs[k]
      /\ \A d \in 1..n : (\A k \in i..m : xs[k] # d - 1) => f[d] = 0
  BY <1>2, SpreadStores
<1>4. /\ \A k \in (i + 1)..m : g[xs[k] + 1] = vs[k]
      /\ \A d \in 1..n : (\A k \in (i + 1)..m : xs[k] # d - 1) => g[d] = 0
  BY <1>2, SpreadStores
<1> HIDE DEF vs, f, g
<1>5. /\ i \in 1..m /\ i \in i..m /\ \A k \in i..m : k = i \/ k \in (i + 1)..m
      /\ \A k \in (i + 1)..m : k \in i..m /\ k \in 1..m /\ i < k
  BY <1>1
<1> HIDE DEF xs, m
<1>6. c \in 1..n /\ f[c] = vs[i]
  BY <1>1, <1>3, <1>5
<1>7. g[c] = 0
  <2>1. \A k \in (i + 1)..m : xs[k] # c - 1
    <3> SUFFICES ASSUME NEW k \in (i + 1)..m PROVE xs[k] # c - 1
      OBVIOUS
    <3>1. xs[i] < xs[k] /\ xs[i] \in Nat /\ xs[k] \in Nat
      BY <1>1, <1>5
    <3> QED
      BY <3>1
  <2> HIDE DEF c
  <2> QED
    BY <2>1, <1>4, <1>6
<1>8. ASSUME NEW d \in 1..n, d # c PROVE f[d] = g[d]
  <2>1. CASE \E k \in (i + 1)..m : xs[k] = d - 1
    <3>1. PICK k \in (i + 1)..m : xs[k] = d - 1
      BY <2>1
    <3>2. xs[k] + 1 = d
      BY <3>1
    <3> QED
      BY <3>1, <3>2, <1>3, <1>4, <1>5
  <2>2. CASE \A k \in (i + 1)..m : xs[k] # d - 1
    <3>1. xs[i] # d - 1
      <4>1. xs[i] \in Nat
        BY <1>1, <1>5
      <4> QED
        BY <4>1, <1>8
    <3>2. \A k \in i..m : xs[k] # d - 1
      BY <3>1, <2>2, <1>5
    <3> QED
      BY <3>2, <2>2, <1>3, <1>4
  <2> QED
    BY <2>1, <2>2
<1>9. ASSUME NEW d \in 1..n, d < c PROVE f[d] = 0
  <2>1. \A k \in i..m : xs[k] # d - 1
    <3> SUFFICES ASSUME NEW k \in i..m PROVE xs[k] # d - 1
      OBVIOUS
    <3>1. xs[i] \in Nat /\ xs[k] \in Nat /\ (k = i \/ xs[i] < xs[k])
      BY <1>1, <1>5
    <3> QED
      BY <3>1, <1>9
  <2> QED
    BY <2>1, <1>3
<1> QED
  BY <1>6, <1>7, <1>8, <1>9 DEF xs, vs, m, f, g

-----------------------------------------------------------------------------
(* Two sorted lists of indexes walked side by side. *)
Corners(s, l) == (1..(Len(s.indexes) + 1)) \X (1..(Len(l.indexes) + 1))
Left(metric, l, j) == SumFunction([k \in j..Len(l.indexes) |-> Term(metric, l.values[k])])

(* What is added at a corner, and the corner that is next.                 *)
Passes(s, l, i, j) == j <= Len(l.indexes) /\ l.indexes[j] < s.indexes[i]
Meets(s, l, i, j) == j <= Len(l.indexes) /\ l.indexes[j] = s.indexes[i]
Added(metric, s, l, i, j) ==
  IF Passes(s, l, i, j) THEN Term(metric, l.values[j])
  ELSE IF Meets(s, l, i, j) THEN Term(metric, s.values[i] - l.values[j])
  ELSE Term(metric, s.values[i])
NextCorner(s, l, i, j) ==
  IF Passes(s, l, i, j) THEN <<i, j + 1>>
  ELSE IF Meets(s, l, i, j) THEN <<i + 1, j + 1>> ELSE <<i + 1, j>>

Steps(metric, s, l, walk) ==
  walk = [at \in Corners(s, l) |->
            IF at[1] > Len(s.indexes) THEN Left(metric, l, at[2])
            ELSE IF Passes(s, l, at[1], at[2]) THEN Term(metric, l.values[at[2]]) + walk[<<at[1], at[2] + 1>>]
            ELSE IF Meets(s, l, at[1], at[2])
              THEN Term(metric, s.values[at[1]] - l.values[at[2]]) + walk[<<at[1] + 1, at[2] + 1>>]
            ELSE Term(metric, s.values[at[1]]) + walk[<<at[1] + 1, at[2]>>]]
WalkOf(metric, s, l) == CHOOSE walk : Steps(metric, s, l, walk)

LEMMA MergedIsWalk ==
  ASSUME NEW metric, NEW s, NEW l PROVE Merged(metric, s, l) = WalkOf(metric, s, l)[<<1, 1>>]
BY DEF Merged, WalkOf, Steps, Corners, Left, Passes, Meets, SumOver

LEMMA StepsAre ==
  ASSUME NEW metric, NEW s, NEW l, NEW walk, Steps(metric, s, l, walk),
         NEW i \in 1..(Len(s.indexes) + 1), NEW j \in 1..(Len(l.indexes) + 1)
  PROVE  walk[<<i, j>>] = IF i > Len(s.indexes) THEN Left(metric, l, j)
                          ELSE Added(metric, s, l, i, j) + walk[NextCorner(s, l, i, j)]
<1>1. <<i, j>> \in Corners(s, l)
  BY DEF Corners
<1>2. walk[<<i, j>>] = 
            IF i > Len(s.indexes) THEN Left(metric, l, j)
            ELSE IF Passes(s, l, i, j) THEN Term(metric, l.values[j]) + walk[<<i, j + 1>>]
            ELSE IF Meets(s, l, i, j)
              THEN Term(metric, s.values[i] - l.values[j]) + walk[<<i + 1, j + 1>>]
            ELSE Term(metric, s.values[i]) + walk[<<i + 1, j>>]
  BY <1>1 DEF Steps
<1> QED
  BY <1>2 DEF Added, NextCorner

LEMMA LeftType ==
  ASSUME NEW metric \in Metric, NEW n \in Nat, NEW l \in SparseOf(n), NEW j \in 1..(Len(l.indexes) + 1)
  PROVE  Left(metric, l, j) \in Int
<1> DEFINE S == j..Len(l.indexes)
           f == [k \in S |-> Term(metric, l.values[k])]
<1>1. IsFiniteSet(S)
  BY SparseFields, FS_Interval
<1>2. \A k \in S : f[k] \in Int
  <2> SUFFICES ASSUME NEW k \in S PROVE f[k] \in Int
    OBVIOUS
  <2>1. k \in 1..Len(l.indexes)
    BY SparseFields
  <2>2. l.values[k] \in Int
    BY <2>1, SparseFields
  <2> QED
    BY <2>2, TermIs
<1>3. Left(metric, l, j) = SumFunctionOnSet(f, S)
  BY DEF Left, SumFunction
<1> HIDE DEF f, S
<1> QED
  BY <1>1, <1>2, <1>3, SumType

Onward(s, l, i, j) ==
  \E x \in 1..(Len(s.indexes) + 1), y \in 1..(Len(l.indexes) + 1) :
    NextCorner(s, l, i, j) = <<x, y>> /\ x + y > i + j

LEMMA CornerStep ==
  ASSUME NEW metric \in Metric, NEW n \in Nat, NEW s \in SparseOf(n), NEW l \in SparseOf(n),
         NEW i \in 1..Len(s.indexes), NEW j \in 1..(Len(l.indexes) + 1)
  PROVE  Added(metric, s, l, i, j) \in Int /\ Onward(s, l, i, j)
<1> DEFINE a == Len(s.indexes)
           b == Len(l.indexes)
<1>1. /\ a \in Nat /\ b \in Nat
      /\ \A k \in 1..a : s.values[k] \in Int
      /\ \A k \in 1..b : l.values[k] \in Int
  BY SparseFields
<1>2. (Passes(s, l, i, j) \/ Meets(s, l, i, j)) => j \in 1..b
  BY <1>1 DEF Passes, Meets
<1>3. Added(metric, s, l, i, j) \in Int
  <2>1. CASE Passes(s, l, i, j)
    <3>1. l.values[j] \in Int
      BY <1>1, <1>2, <2>1
    <3> QED
      BY <2>1, <3>1, TermIs DEF Added
  <2>2. CASE ~Passes(s, l, i, j) /\ Meets(s, l, i, j)
    <3>1. l.values[j] \in Int /\ s.values[i] \in Int
      BY <1>1, <1>2, <2>2
    <3> QED
      BY <2>2, <3>1, TermIs DEF Added
  <2>3. CASE ~Passes(s, l, i, j) /\ ~Meets(s, l, i, j)
    <3>1. s.values[i] \in Int
      BY <1>1
    <3> QED
      BY <2>3, <3>1, TermIs DEF Added
  <2> QED
    BY <2>1, <2>2, <2>3
<1>4. /\ i + 1 \in 1..(a + 1) /\ i \in 1..(a + 1)
      /\ (Passes(s, l, i, j) \/ Meets(s, l, i, j)) => j + 1 \in 1..(b + 1)
      /\ i + (j + 1) > i + j /\ (i + 1) + (j + 1) > i + j /\ (i + 1) + j > i + j
  BY <1>1, <1>2
<1> QED
  BY <1>3, <1>4 DEF NextCorner, Onward

LEMMA WalkExists ==
  ASSUME NEW metric \in Metric, NEW n \in Nat, NEW s \in SparseOf(n), NEW l \in SparseOf(n)
  PROVE  Steps(metric, s, l, WalkOf(metric, s, l))
<1> DEFINE a == Len(s.indexes)
           b == Len(l.indexes)
           D == Corners(s, l)
           stop == {at \in D : at[1] > a}
           base == [at \in D |-> Left(metric, l, at[2])]
           next == [at \in D |-> IF at[1] > a THEN at ELSE NextCorner(s, l, at[1], at[2])]
           step == [av \in D \X Int |-> IF av[1][1] > a THEN av[2]
                                        ELSE Added(metric, s, l, av[1][1], av[1][2]) + av[2]]
           rank == [at \in D |-> (a + 1 - at[1]) + (b + 1 - at[2])]
<1>1. a \in Nat /\ b \in Nat
  BY SparseFields
<1>2. \A at \in D : /\ at[1] \in 1..(a + 1) /\ at[2] \in 1..(b + 1) /\ at = <<at[1], at[2]>>
                    /\ ~(at[1] > a) => at[1] \in 1..a
  BY <1>1 DEF Corners
<1>3. base \in [D -> Int]
  BY <1>2, LeftType
<1>4. ASSUME NEW at \in D, ~(at[1] > a)
      PROVE  /\ Added(metric, s, l, at[1], at[2]) \in Int
             /\ next[at] \in D /\ next[at] = NextCorner(s, l, at[1], at[2])
             /\ next[at][1] + next[at][2] > at[1] + at[2]
  <2>1. at[1] \in 1..a /\ at[2] \in 1..(b + 1)
    BY <1>2, <1>4
  <2>2. next[at] = NextCorner(s, l, at[1], at[2])
    BY <1>4
  <2> DEFINE c == NextCorner(s, l, at[1], at[2])
  <2>3. Added(metric, s, l, at[1], at[2]) \in Int /\ Onward(s, l, at[1], at[2])
    BY <2>1, CornerStep
  <2> HIDE DEF c
  <2>4. c \in D /\ c[1] + c[2] > at[1] + at[2]
    BY <2>3 DEF Corners, Onward, c
  <2> QED
    BY <2>2, <2>3, <2>4 DEF c
<1>5. next \in [D -> D]
  <2>1. \A at \in D : next[at] \in D
    BY <1>4
  <2> QED
    BY <2>1
<1>6. \A at \in D, v \in Int : step[<<at, v>>] \in Int
  <2> SUFFICES ASSUME NEW at \in D, NEW v \in Int PROVE step[<<at, v>>] \in Int
    OBVIOUS
  <2>1. step[<<at, v>>] = IF at[1] > a THEN v ELSE Added(metric, s, l, at[1], at[2]) + v
    OBVIOUS
  <2> QED
    BY <2>1, <1>4
<1>7. rank \in [D -> Nat] /\ \A at \in D : at \notin stop => rank[next[at]] < rank[at]
  <2>1. \A at \in D : rank[at] = (a + 1 - at[1]) + (b + 1 - at[2]) /\ rank[at] \in Nat
    BY <1>1, <1>2
  <2>2. rank \in [D -> Nat]
    BY <2>1
  <2>3. ASSUME NEW at \in D, at \notin stop PROVE rank[next[at]] < rank[at]
    <3>1. next[at] \in D /\ next[at][1] + next[at][2] > at[1] + at[2]
      BY <1>4, <2>3
    <3>2. next[at][1] \in Int /\ next[at][2] \in Int /\ at[1] \in Int /\ at[2] \in Int
      BY <3>1, <1>2
    <3> DEFINE to == next[at]
    <3>3. rank[to] = (a + 1 - to[1]) + (b + 1 - to[2]) /\ rank[at] = (a + 1 - at[1]) + (b + 1 - at[2])
      BY <3>1, <2>1
    <3>4. to[1] \in Int /\ to[2] \in Int /\ at[1] \in Int /\ at[2] \in Int /\ to[1] + to[2] > at[1] + at[2]
      BY <3>1, <3>2
    <3> HIDE DEF to, rank, a, b
    <3>5. rank[to] < rank[at]
      BY <3>3, <3>4, <1>1
    <3> QED
      BY <3>5 DEF to
  <2> QED
    BY <2>2, <2>3
<1>8. PICK f \in [D -> Int] : Walk(f, D, stop, base, next, step)
  <2> HIDE DEF D, stop, base, next, step, rank
  <2> QED
    BY <1>3, <1>5, <1>6, <1>7, WalksExist
<1>9. Steps(metric, s, l, f)
  <2>1. ASSUME NEW at \in D
        PROVE  f[at] = IF at[1] > a THEN Left(metric, l, at[2])
                       ELSE IF Passes(s, l, at[1], at[2]) THEN Term(metric, l.values[at[2]]) + f[<<at[1], at[2] + 1>>]
                       ELSE IF Meets(s, l, at[1], at[2])
                         THEN Term(metric, s.values[at[1]] - l.values[at[2]]) + f[<<at[1] + 1, at[2] + 1>>]
                       ELSE Term(metric, s.values[at[1]]) + f[<<at[1] + 1, at[2]>>]
    <3>1. f[at] = IF at \in stop THEN base[at] ELSE step[<<at, f[next[at]]>>]
      BY <1>8 DEF Walk
    <3>2. CASE at[1] > a
      BY <3>1, <3>2
    <3>3. CASE ~(at[1] > a)
      <4>1. f[next[at]] \in Int /\ next[at] = NextCorner(s, l, at[1], at[2])
        BY <1>4, <1>8, <3>3
      <4>2. step[<<at, f[next[at]]>>] = Added(metric, s, l, at[1], at[2]) + f[next[at]]
        <5> DEFINE v == f[next[at]]
        <5>1. v \in Int
          BY <4>1
        <5> HIDE DEF v
        <5>2. step[<<at, v>>] = Added(metric, s, l, at[1], at[2]) + v
          BY <5>1, <3>3
        <5> QED
          BY <5>2 DEF v
      <4>3. f[at] = Added(metric, s, l, at[1], at[2]) + f[NextCorner(s, l, at[1], at[2])]
        BY <3>1, <3>3, <4>1, <4>2
      <4> QED
        BY <3>3, <4>3 DEF Added, NextCorner
    <3> QED
      BY <3>2, <3>3
  <2>2. f = [at \in D |-> f[at]]
    BY <1>8
  <2> HIDE DEF D
  <2> QED
    BY <2>1, <2>2 DEF Steps, D
<1> QED
  BY <1>9 DEF WalkOf

(* How far two spreads are apart. *)
Gaps(metric, n, u, v) == [d \in 1..n |-> Term(metric, u[d] - v[d])]
Gap(metric, n, u, v) == SumFunctionOnSet(Gaps(metric, n, u, v), 1..n)

LEMMA GapsType ==
  ASSUME NEW metric \in Metric, NEW n \in Nat, NEW u \in [1..n -> Int], NEW v \in [1..n -> Int]
  PROVE  /\ Gaps(metric, n, u, v) \in [1..n -> Int] /\ Gap(metric, n, u, v) \in Int
         /\ \A d \in 1..n : Gaps(metric, n, u, v)[d] = Term(metric, u[d] - v[d])
<1>1. ASSUME NEW d \in 1..n PROVE Term(metric, u[d] - v[d]) \in Int
  <2>1. u[d] \in Int /\ v[d] \in Int
    OBVIOUS
  <2> QED
    BY <2>1, TermIs
<1>2. Gaps(metric, n, u, v) \in [1..n -> Int]
  BY <1>1 DEF Gaps
<1>3. IsFiniteSet(1..n)
  BY FS_Interval
<1> DEFINE g == Gaps(metric, n, u, v)
<1>4. \A d \in 1..n : g[d] \in Int
  BY <1>2
<1> HIDE DEF g
<1>5. SumFunctionOnSet(g, 1..n) \in Int
  BY <1>3, <1>4, SumType
<1> QED
  BY <1>2, <1>5 DEF Gap, Gaps, g

Zeroed(n, u, x, c) == x[c] = 0 /\ \A d \in 1..n : d # c => u[d] = x[d]
Cleared(n, u, v, x, y, c) ==
  /\ c \in 1..n
  /\ {u, v, x, y} \subseteq [1..n -> Int]
  /\ Zeroed(n, u, x, c) /\ Zeroed(n, v, y, c)
Counts(metric, n, u, v, x, y, c) == Gap(metric, n, u, v) = Term(metric, u[c] - v[c]) + Gap(metric, n, x, y)

LEMMA GapStep ==
  ASSUME NEW metric \in Metric, NEW n \in Nat, NEW u, NEW v, NEW x, NEW y, NEW c,
         Cleared(n, u, v, x, y, c)
  PROVE  Counts(metric, n, u, v, x, y, c)
<1> DEFINE g == Gaps(metric, n, u, v)
           f == Gaps(metric, n, x, y)
           S == 1..n
<1>1. /\ u \in [1..n -> Int] /\ v \in [1..n -> Int] /\ x \in [1..n -> Int] /\ y \in [1..n -> Int]
      /\ c \in 1..n /\ Zeroed(n, u, x, c) /\ Zeroed(n, v, y, c)
  BY DEF Cleared
<1>2. /\ \A d \in S : f[d] \in Int /\ g[d] \in Int
      /\ \A d \in S : f[d] = Term(metric, x[d] - y[d]) /\ g[d] = Term(metric, u[d] - v[d])
  <2>1. f \in [S -> Int]
    BY <1>1, GapsType
  <2>2. g \in [S -> Int]
    BY <1>1, GapsType
  <2>3. \A d \in S : f[d] = Term(metric, x[d] - y[d]) /\ g[d] = Term(metric, u[d] - v[d])
    BY DEF Gaps
  <2> HIDE DEF f, g, S
  <2> QED
    BY <2>1, <2>2, <2>3
<1>3. \A d \in S \ {c} : f[d] = g[d]
  <2> SUFFICES ASSUME NEW d \in S, d # c PROVE f[d] = g[d]
    OBVIOUS
  <2>1. u[d] = x[d] /\ v[d] = y[d]
    BY <1>1 DEF Zeroed
  <2> HIDE DEF f, g
  <2> QED
    BY <1>2, <2>1
<1>4. f[c] = 0
  <2>1. x[c] - y[c] = 0 /\ Term(metric, 0) = 0
    BY <1>1, TermIs, 0 \in Int DEF Zeroed
  <2> HIDE DEF f, g
  <2> QED
    BY <2>1, <1>2, <1>1
<1>5. IsFiniteSet(S)
  BY FS_Interval
<1>6. c \in S
  BY <1>1
<1> HIDE DEF f, g, S
<1>7. SumFunctionOnSet(g, S) = SumFunctionOnSet(f, S) + g[c] - f[c]
  <2>1. \A d \in S : f[d] \in Int /\ g[d] \in Int
    BY <1>2
  <2> QED
    BY <2>1, <1>6, <1>3, <1>5, SumChanges
<1>8. SumFunctionOnSet(f, S) \in Int
  BY <1>2, <1>5, SumType
<1>9. g[c] = Term(metric, u[c] - v[c]) /\ g[c] \in Int
  BY <1>6, <1>2
<1>10. SumFunctionOnSet(g, S) = g[c] + SumFunctionOnSet(f, S)
  BY <1>4, <1>7, <1>8, <1>9
<1> QED
  BY <1>9, <1>10 DEF Counts, Gap, f, g, S

LEMMA GapSymmetric ==
  ASSUME NEW metric \in Metric, NEW n \in Nat, NEW u \in [1..n -> Int], NEW v \in [1..n -> Int]
  PROVE  Gap(metric, n, u, v) = Gap(metric, n, v, u)
<1> DEFINE g == Gaps(metric, n, u, v)
           f == Gaps(metric, n, v, u)
<1>1. ASSUME NEW d \in 1..n PROVE g[d] = f[d]
  <2>1. u[d] \in Int /\ v[d] \in Int
    OBVIOUS
  <2>2. Term(metric, u[d] - v[d]) = Term(metric, v[d] - u[d])
    BY <2>1, TermIs
  <2> QED
    BY <2>2 DEF Gaps
<1>2. g = f
  BY <1>1 DEF Gaps
<1> QED
  BY <1>2 DEF Gap

(* What is still to be walked from a corner.                               *)
Rest(metric, n, s, l, i, j) == Gap(metric, n, Spread(n, s, i), Spread(n, l, j))

LEMMA RestStep ==
  ASSUME NEW metric \in Metric, NEW n \in Nat, NEW s \in SparseOf(n), NEW l \in SparseOf(n),
         NEW i \in 1..Len(s.indexes), NEW j \in 1..(Len(l.indexes) + 1)
  PROVE  LET c == NextCorner(s, l, i, j)
         IN  Rest(metric, n, s, l, i, j) = Added(metric, s, l, i, j) + Rest(metric, n, s, l, c[1], c[2])
<1> DEFINE a == Len(s.indexes)
           b == Len(l.indexes)
           u == Spread(n, s, i)
           v == Spread(n, l, j)
           x == Spread(n, s, i + 1)
           y == Spread(n, l, j + 1)
<1>1. /\ a \in Nat /\ b \in Nat
      /\ \A k \in 1..a : s.values[k] \in Int /\ s.indexes[k] \in Nat
      /\ \A k \in 1..b : l.values[k] \in Int /\ l.indexes[k] \in Nat
  BY SparseFields
<1>2. u \in [1..n -> Int] /\ x \in [1..n -> Int]
  <2>1. i \in 1..(a + 1) /\ i + 1 \in 1..(a + 1)
    BY <1>1
  <2> QED
    BY <2>1, SpreadStores
<1>3. v \in [1..n -> Int]
  BY SpreadStores
<1>4. j \in 1..b => y \in [1..n -> Int]
  <2>1. j \in 1..b => j + 1 \in 1..(b + 1)
    BY <1>1
  <2> QED
    BY <2>1, SpreadStores
<1> DEFINE cs == s.indexes[i] + 1
           cl == l.indexes[j] + 1
<1>5. /\ cs \in 1..n /\ u[cs] = s.values[i] /\ x[cs] = 0
      /\ \A d \in 1..n : d # cs => u[d] = x[d]
      /\ \A d \in 1..n : d < cs => u[d] = 0
  BY SpreadStep
<1>6. j \in 1..b =>
      /\ cl \in 1..n /\ v[cl] = l.values[j] /\ y[cl] = 0
      /\ \A d \in 1..n : d # cl => v[d] = y[d]
      /\ \A d \in 1..n : d < cl => v[d] = 0
  BY SpreadStep
<1>7. j \notin 1..b => \A d \in 1..n : v[d] = 0
  <2> SUFFICES ASSUME j \notin 1..b, NEW d \in 1..n PROVE v[d] = 0
    OBVIOUS
  <2>1. \A k \in j..b : l.indexes[k] # d - 1
    BY <1>1
  <2> QED
    BY <2>1, SpreadStores
<1>8. /\ s.values[i] \in Int /\ s.indexes[i] \in Nat
      /\ j \in 1..b => l.values[j] \in Int /\ l.indexes[j] \in Nat
      /\ j <= b <=> j \in 1..b
  BY <1>1
<1> HIDE DEF u, v, x, y
<1>9. CASE Passes(s, l, i, j)
  <2>1. j \in 1..b /\ l.indexes[j] < s.indexes[i]
    BY <1>8, <1>9 DEF Passes
  <2>2. cl < cs
    BY <2>1, <1>8
  <2>3. cl \in 1..n /\ v[cl] = l.values[j] /\ y[cl] = 0 /\ (\A d \in 1..n : d # cl => v[d] = y[d])
    BY <2>1, <1>6
  <2>4. u[cl] = 0
    BY <2>2, <2>3, <1>5
  <2> HIDE DEF cl
  <2>5. Gap(metric, n, u, v) = Term(metric, u[cl] - v[cl]) + Gap(metric, n, u, y)
    <3>1. Zeroed(n, u, u, cl) /\ Zeroed(n, v, y, cl)
      BY <2>3, <2>4 DEF Zeroed
    <3>2. y \in [1..n -> Int] /\ cl \in 1..n
      BY <2>1, <2>3, <1>4
    <3>3. Cleared(n, u, v, u, y, cl)
      BY <3>1, <3>2, <1>2, <1>3 DEF Cleared
    <3>4. Counts(metric, n, u, v, u, y, cl)
      BY <3>3, GapStep
    <3> QED
      BY <3>4 DEF Counts
  <2>6. Term(metric, u[cl] - v[cl]) = Term(metric, l.values[j])
    <3>1. l.values[j] \in Int
      BY <2>1, <1>8
    <3>2. Term(metric, 0 - l.values[j]) = Term(metric, l.values[j])
      BY <3>1, TermIs
    <3> QED
      BY <3>2, <2>3, <2>4
  <2>7. NextCorner(s, l, i, j) = <<i, j + 1>> /\ Added(metric, s, l, i, j) = Term(metric, l.values[j])
    BY <1>9 DEF NextCorner, Added
  <2>8. Rest(metric, n, s, l, i, j) = Gap(metric, n, u, v) /\ Rest(metric, n, s, l, i, j + 1) = Gap(metric, n, u, y)
    BY DEF Rest, u, v, y
  <2>9. Rest(metric, n, s, l, i, j) = Added(metric, s, l, i, j) + Rest(metric, n, s, l, i, j + 1)
    BY <2>5, <2>6, <2>7, <2>8
  <2> QED
    BY <2>7, <2>9
<1>10. CASE ~Passes(s, l, i, j) /\ Meets(s, l, i, j)
  <2>1. j \in 1..b /\ l.indexes[j] = s.indexes[i]
    BY <1>8, <1>10 DEF Meets
  <2>2. cl = cs
    BY <2>1, <1>8
  <2>3. cl \in 1..n /\ v[cl] = l.values[j] /\ y[cl] = 0 /\ (\A d \in 1..n : d # cl => v[d] = y[d])
    BY <2>1, <1>6
  <2>4. u[cl] = s.values[i] /\ x[cl] = 0 /\ \A d \in 1..n : d # cl => u[d] = x[d]
    BY <2>2, <1>5
  <2> HIDE DEF cl
  <2>5. Gap(metric, n, u, v) = Term(metric, u[cl] - v[cl]) + Gap(metric, n, x, y)
    <3>1. Zeroed(n, u, x, cl) /\ Zeroed(n, v, y, cl)
      BY <2>3, <2>4 DEF Zeroed
    <3>2. y \in [1..n -> Int] /\ cl \in 1..n
      BY <2>1, <2>3, <1>4
    <3>3. Cleared(n, u, v, x, y, cl)
      BY <3>1, <3>2, <1>2, <1>3 DEF Cleared
    <3>4. Counts(metric, n, u, v, x, y, cl)
      BY <3>3, GapStep
    <3> QED
      BY <3>4 DEF Counts
  <2>7. NextCorner(s, l, i, j) = <<i + 1, j + 1>>
        /\ Added(metric, s, l, i, j) = Term(metric, s.values[i] - l.values[j])
    BY <1>10 DEF NextCorner, Added
  <2>8. /\ Rest(metric, n, s, l, i, j) = Gap(metric, n, u, v)
        /\ Rest(metric, n, s, l, i + 1, j + 1) = Gap(metric, n, x, y)
    BY DEF Rest, u, v, x, y
  <2>9. Rest(metric, n, s, l, i, j) = Added(metric, s, l, i, j) + Rest(metric, n, s, l, i + 1, j + 1)
    BY <2>3, <2>4, <2>5, <2>7, <2>8
  <2> QED
    BY <2>7, <2>9
<1>11. CASE ~Passes(s, l, i, j) /\ ~Meets(s, l, i, j)
  <2>1. v[cs] = 0
    <3>1. CASE j \in 1..b
      <4>1. s.indexes[i] < l.indexes[j]
        BY <3>1, <1>8, <1>11 DEF Passes, Meets
      <4>2. cs < cl
        BY <4>1, <3>1, <1>8
      <4> QED
        BY <3>1, <4>2, <1>5, <1>6
    <3>2. CASE j \notin 1..b
      BY <3>2, <1>5, <1>7
    <3> QED
      BY <3>1, <3>2
  <2>2. cs \in 1..n /\ u[cs] = s.values[i] /\ x[cs] = 0 /\ \A d \in 1..n : d # cs => u[d] = x[d]
    BY <1>5
  <2> HIDE DEF cs
  <2>5. Gap(metric, n, u, v) = Term(metric, u[cs] - v[cs]) + Gap(metric, n, x, v)
    <3>1. Zeroed(n, u, x, cs) /\ Zeroed(n, v, v, cs)
      BY <2>1, <2>2 DEF Zeroed
    <3>2. cs \in 1..n
      BY <2>2
    <3>3. Cleared(n, u, v, x, v, cs)
      BY <3>1, <3>2, <1>2, <1>3 DEF Cleared
    <3>4. Counts(metric, n, u, v, x, v, cs)
      BY <3>3, GapStep
    <3> QED
      BY <3>4 DEF Counts
  <2>6. Term(metric, u[cs] - v[cs]) = Term(metric, s.values[i])
    <3>1. Term(metric, s.values[i] - 0) = Term(metric, s.values[i])
      BY <1>8, TermIs
    <3> QED
      BY <3>1, <2>1, <2>2
  <2>7. NextCorner(s, l, i, j) = <<i + 1, j>> /\ Added(metric, s, l, i, j) = Term(metric, s.values[i])
    BY <1>11 DEF NextCorner, Added
  <2>8. Rest(metric, n, s, l, i, j) = Gap(metric, n, u, v) /\ Rest(metric, n, s, l, i + 1, j) = Gap(metric, n, x, v)
    BY DEF Rest, u, v, x
  <2>9. Rest(metric, n, s, l, i, j) = Added(metric, s, l, i, j) + Rest(metric, n, s, l, i + 1, j)
    BY <2>5, <2>6, <2>7, <2>8
  <2> QED
    BY <2>7, <2>9
<1> QED
  BY <1>9, <1>10, <1>11

(* When one list has ended, what is left of the other one is the distance  *)
(* to nothing.                                                             *)
LEMMA LeftIsGap ==
  ASSUME NEW metric \in Metric, NEW n \in Nat, NEW l \in SparseOf(n), NEW j \in 1..(Len(l.indexes) + 1),
         NEW u \in [1..n -> Int], \A d \in 1..n : u[d] = 0
  PROVE  Left(metric, l, j) = Gap(metric, n, u, Spread(n, l, j))
<1> DEFINE b == Len(l.indexes)
           S == j..b
           T == 1..n
           v == Spread(n, l, j)
           f == [k \in S |-> Term(metric, l.values[k])]
           e == [k \in S |-> l.indexes[k] + 1]
           g == Gaps(metric, n, u, v)
<1>1. /\ b \in Nat
      /\ \A k \in 1..b : l.indexes[k] \in Nat /\ l.indexes[k] + 1 \in T /\ l.values[k] \in Int
      /\ \A h, k \in 1..b : l.indexes[h] = l.indexes[k] => h = k
  BY SparseFields
<1>2. S \subseteq 1..b
  BY <1>1
<1>3. /\ v \in [T -> Int]
      /\ \A k \in S : v[l.indexes[k] + 1] = l.values[k]
      /\ \A d \in T : (\A k \in S : l.indexes[k] # d - 1) => v[d] = 0
  BY SpreadStores
<1> HIDE DEF v
<1>4. g \in [T -> Int]
  BY <1>3, GapsType
<1>5. \A d \in T : g[d] = Term(metric, u[d] - v[d])
  BY DEF Gaps
<1>6. IsFiniteSet(S) /\ IsFiniteSet(T)
  <2>1. j \in Int /\ b \in Int /\ 1 \in Int /\ n \in Int
    BY <1>1
  <2>2. IsFiniteSet(S)
    BY <2>1, FS_Interval
  <2>3. IsFiniteSet(T)
    BY <2>1, FS_Interval
  <2> QED
    BY <2>2, <2>3
<1> HIDE DEF S, T, g, b
<1>7. ASSUME NEW k \in S PROVE e[k] \in T /\ f[k] = g[e[k]]
  <2>1. e[k] \in T /\ l.values[k] \in Int /\ v[e[k]] = l.values[k]
    BY <1>1, <1>2, <1>3
  <2>2. u[e[k]] = 0
    BY <2>1 DEF T
  <2>3. g[e[k]] = Term(metric, 0 - l.values[k])
    BY <2>1, <2>2, <1>5
  <2>4. Term(metric, 0 - l.values[k]) = Term(metric, l.values[k])
    BY <2>1, TermIs
  <2> QED
    BY <2>1, <2>3, <2>4
<1>8. \A h, k \in S : e[h] = e[k] => h = k
  <2> SUFFICES ASSUME NEW h \in S, NEW k \in S, e[h] = e[k] PROVE h = k
    OBVIOUS
  <2>1. h \in 1..b /\ k \in 1..b /\ l.indexes[h] \in Nat /\ l.indexes[k] \in Nat
    BY <1>1, <1>2
  <2>2. l.indexes[h] = l.indexes[k]
    BY <2>1
  <2> QED
    BY <2>1, <2>2, <1>1
<1>9. ASSUME NEW d \in T, \A k \in S : e[k] # d PROVE g[d] = 0
  <2>1. d \in Int
    BY DEF T
  <2>2. \A k \in S : l.indexes[k] # d - 1
    <3> SUFFICES ASSUME NEW k \in S, l.indexes[k] = d - 1 PROVE FALSE
      OBVIOUS
    <3>1. e[k] = d
      BY <2>1
    <3> QED
      BY <3>1, <1>9
  <2>3. v[d] = 0 /\ u[d] = 0
    BY <2>2, <1>3 DEF T
  <2>4. Term(metric, 0) = 0 /\ 0 - 0 = 0
    BY TermIs, 0 \in Int
  <2> QED
    BY <2>3, <2>4, <1>5
<1> HIDE DEF e, f
<1>10. Along(f, S, e, g, T)
  BY <1>4, <1>7, <1>8, <1>9 DEF Along
<1>11. SumFunctionOnSet(f, S) = SumFunctionOnSet(g, T)
  BY <1>6, <1>10, SumAlong
<1>12. Left(metric, l, j) = SumFunctionOnSet(f, S)
  BY DEF Left, SumFunction, f, S, b
<1> QED
  BY <1>11, <1>12 DEF Gap, g, T, v

LEMMA WalkIsRest ==
  ASSUME NEW metric \in Metric, NEW n \in Nat, NEW s \in SparseOf(n), NEW l \in SparseOf(n)
  PROVE  Merged(metric, s, l) = Rest(metric, n, s, l, 1, 1)
<1> DEFINE a == Len(s.indexes)
           b == Len(l.indexes)
           walk == WalkOf(metric, s, l)
           rest(i, j) == Rest(metric, n, s, l, i, j)
           Corner(m) == \A i \in 1..(a + 1), j \in 1..(b + 1) :
                          i + j + m = a + b + 2 => walk[<<i, j>>] = rest(i, j)
           P == {m \in Nat : \A k \in 0..m : Corner(k)}
<1>1. a \in Nat /\ b \in Nat
  BY SparseFields
<1>2. Steps(metric, s, l, walk)
  BY WalkExists
<1>3. ASSUME NEW j \in 1..(b + 1) PROVE walk[<<a + 1, j>>] = rest(a + 1, j)
  <2>1. a + 1 \in 1..(a + 1) /\ a + 1 > a
    BY <1>1
  <2>2. walk[<<a + 1, j>>] = Left(metric, l, j)
    <3> HIDE DEF walk
    <3> QED
      BY <2>1, <1>2, StepsAre
  <2>3. Spread(n, s, a + 1) \in [1..n -> Int] /\ \A d \in 1..n : Spread(n, s, a + 1)[d] = 0
    <3>1. \A k \in (a + 1)..a : FALSE
      BY <1>1
    <3> QED
      BY <2>1, <3>1, SpreadStores
  <2> QED
    BY <2>2, <2>3, LeftIsGap DEF Rest
<1>4. ASSUME NEW i \in 1..a, NEW j \in 1..(b + 1)
      PROVE  \E x \in 1..(a + 1), y \in 1..(b + 1) :
               /\ x + y > i + j
               /\ walk[<<x, y>>] = rest(x, y) => walk[<<i, j>>] = rest(i, j)
  <2>1. i \in 1..(a + 1) /\ ~(i > a)
    BY <1>1
  <2> DEFINE c == NextCorner(s, l, i, j)
  <2>2. walk[<<i, j>>] = Added(metric, s, l, i, j) + walk[c]
    <3> HIDE DEF walk
    <3> QED
      BY <2>1, <1>2, StepsAre
  <2>3. rest(i, j) = Added(metric, s, l, i, j) + rest(c[1], c[2])
    BY RestStep
  <2>4. Onward(s, l, i, j)
    BY CornerStep
  <2>5. PICK x \in 1..(a + 1), y \in 1..(b + 1) : c = <<x, y>> /\ x + y > i + j
    BY <2>4 DEF Onward
  <2>6. c[1] = x /\ c[2] = y
    BY <2>5
  <2> HIDE DEF c, walk, rest
  <2>7. walk[<<x, y>>] = rest(x, y) => walk[<<i, j>>] = rest(i, j)
    BY <2>2, <2>3, <2>5, <2>6
  <2> QED
    BY <2>5, <2>7
<1> HIDE DEF walk, rest, a, b
<1>5. ASSUME NEW m \in Nat, \A k \in Nat : k < m => Corner(k)
      PROVE  Corner(m)
  <2> SUFFICES ASSUME NEW i \in 1..(a + 1), NEW j \in 1..(b + 1), i + j + m = a + b + 2
               PROVE  walk[<<i, j>>] = rest(i, j)
    OBVIOUS
  <2>1. CASE i = a + 1
    BY <2>1, <1>3
  <2>2. CASE i # a + 1
    <3>1. i \in 1..a
      BY <2>2, <1>1
    <3>2. PICK x \in 1..(a + 1), y \in 1..(b + 1) :
            /\ x + y > i + j
            /\ walk[<<x, y>>] = rest(x, y) => walk[<<i, j>>] = rest(i, j)
      BY <3>1, <1>4
    <3> DEFINE k == a + b + 2 - (x + y)
    <3>3. k \in Nat /\ k < m /\ x + y + k = a + b + 2
      BY <1>1, <3>2
    <3> HIDE DEF k
    <3>4. Corner(k)
      BY <3>3, <1>5
    <3> QED
      BY <3>2, <3>3, <3>4
  <2> QED
    BY <2>1, <2>2
<1> HIDE DEF Corner
<1>6. 0 \in P
  <2>1. Corner(0)
    <3>1. \A k \in Nat : ~(k < 0)
      OBVIOUS
    <3> QED
      BY <3>1, <1>5
  <2>2. \A k \in 0..0 : k = 0
    OBVIOUS
  <2> QED
    BY <2>1, <2>2
<1>7. ASSUME NEW m \in P PROVE m + 1 \in P
  <2>1. m \in Nat /\ \A k \in 0..m : Corner(k)
    OBVIOUS
  <2>2. \A k \in Nat : k < m + 1 => k \in 0..m
    BY <2>1
  <2>3. Corner(m + 1)
    BY <2>1, <2>2, <1>5
  <2>4. \A k \in 0..(m + 1) : k \in 0..m \/ k = m + 1
    BY <2>1
  <2> QED
    BY <2>1, <2>3, <2>4
<1>8. P = Nat
  <2>1. P \in SUBSET Nat
    OBVIOUS
  <2> HIDE DEF P
  <2> QED
    BY <2>1, <1>6, <1>7, AllNaturals
<1>9. Corner(a + b)
  <2>1. a + b \in P
    <3>1. a + b \in Nat
      BY <1>1
    <3> QED
      BY <3>1, <1>8
  <2>2. a + b \in 0..(a + b)
    BY <1>1
  <2> QED
    BY <2>1, <2>2
<1>10. 1 \in 1..(a + 1) /\ 1 \in 1..(b + 1) /\ 1 + 1 + (a + b) = a + b + 2
  BY <1>1
<1>11. walk[<<1, 1>>] = rest(1, 1)
  BY <1>9, <1>10 DEF Corner
<1>12. Merged(metric, s, l) = walk[<<1, 1>>]
  BY MergedIsWalk DEF walk
<1> QED
  BY <1>11, <1>12 DEF rest

-----------------------------------------------------------------------------
(* The columns of a row that are stored.                                   *)
Increasing(xs) == \A j, k \in 1..Len(xs) : j < k => xs[j] < xs[k]
Stores(row, n, xs) ==
  /\ xs \in Seq(1..n) /\ Increasing(xs)
  /\ \A k \in 1..Len(xs) : row[xs[k]] # 0
  /\ \A d \in 1..n : row[d] # 0 => \E k \in 1..Len(xs) : xs[k] = d

LEMMA StoredUpToIs ==
  ASSUME NEW row \in Seq(Int)
  PROVE  LET f == StoredUpTo(row)
         IN  /\ f[0] = <<>>
             /\ \A n \in 1..Len(row) : f[n] = IF row[n] = 0 THEN f[n - 1] ELSE Append(f[n - 1], n)
<1> DEFINE N == Len(row)
           X == Seq(Nat)
           g == [nx \in (1..N) \X X |-> IF row[nx[1]] = 0 THEN nx[2] ELSE Append(nx[2], nx[1])]
<1>1. N \in Nat /\ <<>> \in X
  OBVIOUS
<1>2. ASSUME NEW n \in 1..N, NEW x \in X
      PROVE  /\ g[<<n, x>>] = IF row[n] = 0 THEN x ELSE Append(x, n)
             /\ g[<<n, x>>] \in X
  <2>1. <<n, x>> \in (1..N) \X X /\ n \in Nat /\ Append(x, n) \in X
    OBVIOUS
  <2> QED
    BY <2>1
<1> HIDE DEF g, X
<1>3. StepsIn(g, X, N)
  BY <1>2 DEF StepsIn
<1>4. PICK f : RecursionTo(N, f, X, <<>>, g)
  BY <1>1, <1>3, RecursionUpTo
<1>5. f \in [0..N -> X] /\ f[0] = <<>> /\ \A n \in 1..N : f[n] = g[<<n, f[n - 1]>>]
  BY <1>4 DEF RecursionTo
<1> DEFINE Solves(h) == h = [n \in 0..N |-> IF n = 0 THEN <<>>
                                            ELSE IF row[n] = 0 THEN h[n - 1] ELSE Append(h[n - 1], n)]
<1>6. ASSUME NEW n \in 1..N PROVE f[n] = IF row[n] = 0 THEN f[n - 1] ELSE Append(f[n - 1], n)
  <2>1. n - 1 \in 0..N
    BY <1>1
  <2>2. f[n - 1] \in X
    BY <2>1, <1>5
  <2> QED
    BY <2>2, <1>2, <1>5
<1>7. Solves(f)
  <2>1. \A n \in 0..N : n = 0 \/ n \in 1..N
    BY <1>1
  <2>2. \A n \in 0..N : f[n] = IF n = 0 THEN <<>>
                               ELSE IF row[n] = 0 THEN f[n - 1] ELSE Append(f[n - 1], n)
    BY <2>1, <1>5, <1>6
  <2>3. f = [n \in 0..N |-> f[n]]
    BY <1>5
  <2> HIDE DEF N
  <2> QED
    BY <2>2, <2>3
<1>8. StoredUpTo(row) = CHOOSE h : Solves(h)
  BY DEF StoredUpTo
<1>9. Solves(StoredUpTo(row))
  BY <1>7, <1>8
<1> HIDE DEF Solves
<1>10. StoredUpTo(row)[0] = <<>>
       /\ \A n \in 1..N : StoredUpTo(row)[n]
            = IF row[n] = 0 THEN StoredUpTo(row)[n - 1] ELSE Append(StoredUpTo(row)[n - 1], n)
  <2> DEFINE h == StoredUpTo(row)
  <2>1. \A n \in 0..N : h[n] = IF n = 0 THEN <<>>
                               ELSE IF row[n] = 0 THEN h[n - 1] ELSE Append(h[n - 1], n)
    <3> HIDE DEF h
    <3>1. Solves(h)
      BY <1>9 DEF h
    <3> QED
      BY <3>1 DEF Solves
  <2>2. 0 \in 0..N /\ \A n \in 1..N : n \in 0..N /\ n # 0
    BY <1>1
  <2> HIDE DEF h, N
  <2>3. h[0] = <<>>
    BY <2>1, <2>2
  <2>4. \A n \in 1..N : h[n] = IF row[n] = 0 THEN h[n - 1] ELSE Append(h[n - 1], n)
    BY <2>1, <2>2
  <2> QED
    BY <2>3, <2>4 DEF h
<1> QED
  BY <1>10 DEF N

LEMMA StoresStep ==
  ASSUME NEW row, NEW n \in Nat, NEW xs, Stores(row, n, xs)
  PROVE  /\ row[n + 1] = 0 => Stores(row, n + 1, xs)
         /\ row[n + 1] # 0 => Stores(row, n + 1, Append(xs, n + 1))
<1> DEFINE m == Len(xs)
           ys == Append(xs, n + 1)
<1>1. /\ xs \in Seq(1..n) /\ m \in Nat
      /\ \A k \in 1..m : xs[k] \in 1..n /\ row[xs[k]] # 0
      /\ \A j, k \in 1..m : j < k => xs[j] < xs[k]
      /\ \A d \in 1..n : row[d] # 0 => \E k \in 1..m : xs[k] = d
  BY DEF Stores, Increasing
<1>2. 1..n \subseteq 1..(n + 1) /\ n + 1 \in 1..(n + 1) /\ \A d \in 1..(n + 1) : d \in 1..n \/ d = n + 1
  OBVIOUS
<1>3. xs \in Seq(1..(n + 1))
  BY <1>1, <1>2
<1>4. row[n + 1] = 0 => Stores(row, n + 1, xs)
  BY <1>1, <1>2, <1>3 DEF Stores, Increasing
<1>5. ASSUME row[n + 1] # 0 PROVE Stores(row, n + 1, ys)
  <2>1. ys \in Seq(1..(n + 1)) /\ Len(ys) = m + 1 /\ ys[m + 1] = n + 1 /\ \A k \in 1..m : ys[k] = xs[k]
    BY <1>2, <1>3
  <2>2. \A k \in 1..(m + 1) : k \in 1..m \/ k = m + 1
    BY <1>1
  <2>0. \A k \in 1..m : k \in 1..(m + 1) /\ k < m + 1 /\ m + 1 \in 1..(m + 1)
    BY <1>1
  <2> HIDE DEF ys, m
  <2>3. ASSUME NEW j \in 1..(m + 1), NEW k \in 1..(m + 1), j < k PROVE ys[j] < ys[k]
    <3>1. j \in 1..m
      BY <1>1, <2>3
    <3>2. CASE k \in 1..m
      BY <3>1, <3>2, <2>1, <2>3, <1>1
    <3>3. CASE k = m + 1
      <4>1. ys[j] \in 1..n /\ ys[k] = n + 1
        BY <3>1, <3>3, <2>1, <1>1
      <4> QED
        BY <4>1
    <3> QED
      BY <3>2, <3>3, <2>2
  <2>4. \A k \in 1..(m + 1) : row[ys[k]] # 0
    BY <2>1, <2>2, <1>1, <1>5
  <2>5. ASSUME NEW d \in 1..(n + 1), row[d] # 0 PROVE \E k \in 1..(m + 1) : ys[k] = d
    <3>1. CASE d \in 1..n
      <4>1. PICK k \in 1..m : xs[k] = d
        BY <3>1, <2>5, <1>1
      <4> QED
        BY <4>1, <2>0, <2>1
    <3>2. CASE d = n + 1
      <4>1. m + 1 \in 1..(m + 1)
        BY <1>1
      <4> QED
        BY <4>1, <3>2, <2>1
    <3> QED
      BY <3>1, <3>2, <1>2
  <2> QED
    BY <2>1, <2>3, <2>4, <2>5 DEF Stores, Increasing
<1> QED
  BY <1>4, <1>5

LEMMA StoredStores ==
  ASSUME NEW row \in Seq(Int)
  PROVE  Stores(row, Len(row), Stored(row))
<1> DEFINE N == Len(row)
           f == StoredUpTo(row)
           P == {n \in Nat : n <= N => Stores(row, n, f[n])}
<1>1. /\ f[0] = <<>>
      /\ \A n \in 1..N : f[n] = IF row[n] = 0 THEN f[n - 1] ELSE Append(f[n - 1], n)
  BY StoredUpToIs
<1> HIDE DEF f
<1>2. 0 \in P
  <2>1. Stores(row, 0, <<>>)
    <3>1. <<>> \in Seq(1..0) /\ Len(<<>>) = 0 /\ 1..0 = {}
      OBVIOUS
    <3> QED
      BY <3>1 DEF Stores, Increasing
  <2> QED
    BY <2>1, <1>1
<1>3. ASSUME NEW n \in P PROVE n + 1 \in P
  <2>1. n \in Nat /\ n + 1 \in Nat /\ (n <= N => Stores(row, n, f[n]))
    OBVIOUS
  <2>2. CASE n + 1 <= N
    <3>1. n + 1 \in 1..N /\ (n + 1) - 1 = n /\ n <= N
      BY <2>1, <2>2
    <3>2. f[n + 1] = IF row[n + 1] = 0 THEN f[n] ELSE Append(f[n], n + 1)
      BY <3>1, <1>1
    <3>3. Stores(row, n + 1, f[n + 1])
      BY <3>1, <3>2, <2>1, StoresStep
    <3> QED
      BY <3>3, <2>1
  <2>3. CASE ~(n + 1 <= N)
    BY <2>1, <2>3
  <2> QED
    BY <2>2, <2>3
<1>4. P = Nat
  <2>1. P \in SUBSET Nat
    OBVIOUS
  <2> HIDE DEF P
  <2> QED
    BY <2>1, <1>2, <1>3, AllNaturals
<1>5. N \in P /\ N <= N
  BY <1>4
<1>6. Stores(row, N, f[N])
  BY <1>5
<1> QED
  BY <1>6 DEF Stored, f

-----------------------------------------------------------------------------
(* The rows after one another, each from where the one before it ended.    *)
EndsOf(lens, n, ends) == ends[0] = 0 /\ \A k \in 1..n : ends[k] = ends[k - 1] + lens[k]

LEMMA RowEndsAre ==
  ASSUME NEW n \in Nat, NEW matrix, Len(matrix) = n, NEW lens \in [1..n -> Nat],
         \A k \in 1..n : lens[k] = Len(Stored(matrix[k]))
  PROVE  EndsOf(lens, n, RowEnds(matrix)) /\ \A k \in 0..n : RowEnds(matrix)[k] \in Nat
<1> DEFINE g == [nx \in (1..n) \X Nat |-> nx[2] + lens[nx[1]]]
<1>1. ASSUME NEW k \in 1..n, NEW x \in Nat
      PROVE  g[<<k, x>>] = x + lens[k] /\ g[<<k, x>>] \in Nat
  <2>1. <<k, x>> \in (1..n) \X Nat /\ lens[k] \in Nat
    OBVIOUS
  <2> QED
    BY <2>1
<1> HIDE DEF g
<1>2. StepsIn(g, Nat, n)
  BY <1>1 DEF StepsIn
<1>3. PICK f : RecursionTo(n, f, Nat, 0, g)
  BY <1>2, RecursionUpTo
<1>4. f \in [0..n -> Nat] /\ f[0] = 0 /\ \A k \in 1..n : f[k] = g[<<k, f[k - 1]>>]
  BY <1>3 DEF RecursionTo
<1> DEFINE Solves(h) == h = [k \in 0..n |-> IF k = 0 THEN 0 ELSE h[k - 1] + Len(Stored(matrix[k]))]
<1>5. ASSUME NEW k \in 1..n PROVE f[k] = f[k - 1] + lens[k]
  <2>1. k - 1 \in 0..n
    OBVIOUS
  <2>2. f[k - 1] \in Nat
    BY <2>1, <1>4
  <2> QED
    BY <2>2, <1>1, <1>4
<1>6. Solves(f)
  <2>1. \A k \in 0..n : k = 0 \/ k \in 1..n
    OBVIOUS
  <2>2. \A k \in 0..n : f[k] = IF k = 0 THEN 0 ELSE f[k - 1] + Len(Stored(matrix[k]))
    BY <2>1, <1>4, <1>5
  <2>3. f = [k \in 0..n |-> f[k]]
    BY <1>4
  <2> QED
    BY <2>2, <2>3
<1>7. RowEnds(matrix) = CHOOSE h : Solves(h)
  BY DEF RowEnds
<1> DEFINE h == RowEnds(matrix)
<1>8. Solves(h)
  <2> HIDE DEF Solves
  <2> QED
    BY <1>6, <1>7
<1> HIDE DEF h
<1>9. \A k \in 0..n : h[k] = IF k = 0 THEN 0 ELSE h[k - 1] + Len(Stored(matrix[k]))
  BY <1>8
<1> HIDE DEF Solves
<1>10. h[0] = 0 /\ \A k \in 1..n : h[k] = h[k - 1] + lens[k]
  <2>1. 0 \in 0..n /\ \A k \in 1..n : k \in 0..n /\ k # 0
    OBVIOUS
  <2> QED
    BY <2>1, <1>9
<1> DEFINE P == {k \in Nat : k <= n => h[k] \in Nat}
<1>11. P = Nat
  <2>1. 0 \in P
    BY <1>10
  <2>2. ASSUME NEW k \in P PROVE k + 1 \in P
    <3>1. CASE k + 1 <= n
      <4>1. k + 1 \in 1..n /\ (k + 1) - 1 = k /\ k <= n /\ k + 1 \in Nat
        BY <3>1
      <4>2. h[k + 1] = h[k] + lens[k + 1] /\ lens[k + 1] \in Nat /\ h[k] \in Nat
        BY <4>1, <1>10
      <4> QED
        BY <4>1, <4>2
    <3>2. CASE ~(k + 1 <= n)
      BY <3>2
    <3> QED
      BY <3>1, <3>2
  <2>3. P \in SUBSET Nat
    OBVIOUS
  <2> HIDE DEF P
  <2> QED
    BY <2>1, <2>2, <2>3, AllNaturals
<1>12. \A k \in 0..n : h[k] \in Nat
  BY <1>11
<1> QED
  BY <1>10, <1>12 DEF EndsOf, h

Piece(flat, ends, k) == SubSeq(flat, ends[k - 1] + 1, ends[k])
Laid(ss, ends, m, flat) ==
  /\ Len(flat) = ends[m]
  /\ \A k \in 1..m : /\ ends[k - 1] <= ends[k] /\ ends[k] <= ends[m]
                     /\ \A e \in 1..Len(ss[k]) : flat[ends[k - 1] + e] = ss[k][e]

LEMMA LaidStep ==
  ASSUME NEW B, NEW ss, NEW m \in Nat, NEW flat \in Seq(B), NEW x \in Seq(B), ss[m + 1] = x, NEW ends,
         \A k \in 0..(m + 1) : ends[k] \in Nat,
         ends[m + 1] = ends[m] + Len(x), Laid(ss, ends, m, flat),
         \A k \in 1..m : ends[k] = ends[k - 1] + Len(ss[k]) /\ Len(ss[k]) \in Nat
  PROVE  Laid(ss, ends, m + 1, flat \o x)
<1> DEFINE w == flat \o x
           a == Len(flat)
           b == Len(x)
<1>1. /\ w \in Seq(B) /\ a \in Nat /\ b \in Nat /\ Len(w) = a + b
      /\ \A e \in 1..a : w[e] = flat[e]
      /\ \A e \in 1..b : w[a + e] = x[e]
  OBVIOUS
<1> HIDE DEF w, a, b
<1>2. /\ a = ends[m] /\ ends[m + 1] = a + b
      /\ \A k \in 1..m : ends[k - 1] <= ends[k] /\ ends[k] <= ends[m]
      /\ \A k \in 1..m : \A e \in 1..Len(ss[k]) : flat[ends[k - 1] + e] = ss[k][e]
  BY DEF Laid, a, b
<1>3. \A k \in 1..(m + 1) : k \in 1..m \/ (k = m + 1 /\ k - 1 = m)
  OBVIOUS
<1>4. \A k \in 1..m : k \in 0..(m + 1) /\ k - 1 \in 0..(m + 1)
  OBVIOUS
<1>5. ASSUME NEW k \in 1..(m + 1) PROVE ends[k - 1] <= ends[k] /\ ends[k] <= ends[m + 1]
  <2>1. CASE k \in 1..m
    <3>1. ends[k - 1] <= ends[k] /\ ends[k] <= a /\ ends[k] \in Nat
      BY <2>1, <1>2, <1>4
    <3> QED
      BY <3>1, <1>1, <1>2
  <2>2. CASE k = m + 1 /\ k - 1 = m
    BY <2>2, <1>1, <1>2
  <2> QED
    BY <2>1, <2>2, <1>3
<1>6. ASSUME NEW k \in 1..(m + 1), NEW e \in 1..Len(ss[k]) PROVE w[ends[k - 1] + e] = ss[k][e]
  <2>1. CASE k \in 1..m
    <3>1. /\ ends[k] = ends[k - 1] + Len(ss[k]) /\ Len(ss[k]) \in Nat /\ ends[k] <= a
          /\ ends[k] \in Nat /\ ends[k - 1] \in Nat
      BY <2>1, <1>2, <1>4
    <3>2. ends[k - 1] + e \in 1..a
      <4> DEFINE q == Len(ss[k])
                 z == ends[k - 1]
      <4>1. e \in 1..q /\ q \in Nat /\ z \in Nat /\ z + q <= a /\ a \in Nat
        BY <3>1, <1>1
      <4> HIDE DEF q, z
      <4>2. z + e \in 1..a
        BY <4>1
      <4> QED
        BY <4>2 DEF z
    <3> QED
      BY <2>1, <3>2, <1>1, <1>2
  <2>2. CASE k = m + 1 /\ k - 1 = m
    <3>1. e \in 1..b /\ ends[k - 1] = a
      BY <2>2, <1>2 DEF b
    <3> QED
      BY <2>2, <3>1, <1>1
  <2> QED
    BY <2>1, <2>2, <1>3
<1> QED
  BY <1>1, <1>2, <1>5, <1>6 DEF Laid, w

Segments(B, n, ss, ends) ==
  /\ n \in Nat \ {0} /\ ss \in [1..n -> Seq(B)]
  /\ ends[0] = 0 /\ \A k \in 0..n : ends[k] \in Nat
  /\ \A k \in 1..n : ends[k] = ends[k - 1] + Len(ss[k])

LEMMA FlattenLays ==
  ASSUME NEW B, NEW n, NEW ss, NEW ends, Segments(B, n, ss, ends)
  PROVE  FlattenSeq(ss) \in Seq(B) /\ Laid(ss, ends, n, FlattenSeq(ss))
<1> USE DEF Segments
<1> DEFINE f == Flattening(ss)
<1>1. ss \in Seq(Seq(B)) /\ Len(ss) = n
  OBVIOUS
<1>2. Flattens(ss, f)
  BY <1>1, FlatteningExists
<1> HIDE DEF f
<1>3. \A i \in 1..n : f[i] = IF i = 1 THEN ss[i] ELSE f[i - 1] \o ss[i]
  BY <1>1, <1>2 DEF Flattens
<1>4. \A k \in 1..n : ss[k] \in Seq(B) /\ Len(ss[k]) \in Nat
  OBVIOUS
<1> DEFINE P == {m \in Nat : m + 1 <= n => f[m + 1] \in Seq(B) /\ Laid(ss, ends, m + 1, f[m + 1])}
<1>5. 0 \in P
  <2>1. 1 \in 1..n
    OBVIOUS
  <2>2. f[1] = ss[1] /\ ss[1] \in Seq(B) /\ ends[1] = Len(ss[1])
    <3>1. ends[1] = ends[1 - 1] + Len(ss[1]) /\ Len(ss[1]) \in Nat
      BY <2>1, <1>4
    <3> QED
      BY <2>1, <3>1, <1>3, <1>4
  <2>3. Laid(ss, ends, 1, ss[1])
    <3>1. \A k \in 1..1 : k = 1
      OBVIOUS
    <3>2. Len(ss[1]) \in Nat /\ 1 - 1 = 0 /\ \A e \in 1..Len(ss[1]) : 0 + e = e
      BY <2>1, <1>4
    <3> QED
      BY <2>2, <3>1, <3>2 DEF Laid
  <2> QED
    BY <2>2, <2>3
<1>6. ASSUME NEW m \in P PROVE m + 1 \in P
  <2>1. m \in Nat /\ (m + 1 <= n => f[m + 1] \in Seq(B) /\ Laid(ss, ends, m + 1, f[m + 1]))
    OBVIOUS
  <2>2. CASE (m + 1) + 1 <= n
    <3> DEFINE p == m + 1
    <3>1. p \in Nat /\ p \in 1..n /\ p + 1 \in 1..n /\ p + 1 # 1 /\ (p + 1) - 1 = p
          /\ f[p] \in Seq(B) /\ Laid(ss, ends, p, f[p])
      BY <2>1, <2>2
    <3> HIDE DEF p
    <3>2. f[p + 1] = f[p] \o ss[p + 1]
      BY <3>1, <1>3
    <3>3. \A k \in 0..(p + 1) : ends[k] \in Nat
      BY <3>1
    <3>4. \A k \in 1..p : ends[k] = ends[k - 1] + Len(ss[k]) /\ Len(ss[k]) \in Nat
      <4>1. \A k \in 1..p : k \in 1..n
        BY <3>1
      <4> QED
        BY <4>1, <1>4
    <3>5. ends[p + 1] = ends[p] + Len(ss[p + 1]) /\ ss[p + 1] \in Seq(B)
      BY <3>1, <1>4
    <3>6. Laid(ss, ends, p + 1, f[p] \o ss[p + 1])
      BY <3>1, <3>3, <3>4, <3>5, LaidStep
    <3>7. f[p] \o ss[p + 1] \in Seq(B)
      BY <3>1, <3>5
    <3> QED
      BY <3>1, <3>2, <3>6, <3>7 DEF p
  <2>3. CASE ~((m + 1) + 1 <= n)
    BY <2>1, <2>3
  <2> QED
    BY <2>2, <2>3
<1>7. P = Nat
  <2>1. P \in SUBSET Nat
    OBVIOUS
  <2> HIDE DEF P
  <2> QED
    BY <2>1, <1>5, <1>6, AllNaturals
<1>8. n - 1 \in Nat /\ (n - 1) + 1 = n /\ n <= n
  OBVIOUS
<1>9. f[n] \in Seq(B) /\ Laid(ss, ends, n, f[n])
  <2>1. n - 1 \in P
    <3> HIDE DEF P
    <3> QED
      BY <1>7, <1>8
  <2> QED
    BY <1>8, <2>1
<1>10. FlattenSeq(ss) = f[n]
  BY <1>1, FlattenSeqIs DEF f
<1> QED
  BY <1>9, <1>10

LEMMA PiecesAre ==
  ASSUME NEW B, NEW n, NEW ss, NEW ends, Segments(B, n, ss, ends), NEW k \in 1..n
  PROVE  Piece(FlattenSeq(ss), ends, k) = ss[k] /\ ends[k] <= Len(FlattenSeq(ss))
<1> DEFINE F == FlattenSeq(ss)
           a == ends[k - 1]
           b == ends[k]
           x == ss[k]
<1>1. F \in Seq(B) /\ Laid(ss, ends, n, F)
  BY FlattenLays
<1> HIDE DEF F
<1>2. k \in 0..n /\ k - 1 \in 0..n
  BY DEF Segments
<1>3. a \in Nat /\ b \in Nat /\ b = a + Len(x) /\ x \in Seq(B)
  BY <1>2 DEF Segments
<1>4. Len(F) = ends[n] /\ b <= ends[n] /\ \A e \in 1..Len(x) : F[a + e] = x[e]
  BY <1>1 DEF Laid
<1> HIDE DEF a, b, x
<1>5. SubSeq(F, a + 1, b) = x
  <2>1. \A i \in (a + 1)..b : F[i] \in B
    BY <1>1, <1>3, <1>4
  <2>2. SubSeq(F, a + 1, b) = [i \in 1..Len(x) |-> F[a + i]]
    <3>1. SubSeq(F, a + 1, b) = [i \in 1..(b - a) |-> F[(a + 1) + i - 1]]
      BY <1>1, <1>3, <1>4
    <3>2. b - a = Len(x) /\ \A i \in 1..Len(x) : (a + 1) + i - 1 = a + i
      BY <1>3
    <3> QED
      BY <3>1, <3>2
  <2>3. x = [i \in 1..Len(x) |-> x[i]]
    BY <1>3
  <2> QED
    BY <2>2, <2>3, <1>4
<1> QED
  BY <1>4, <1>5 DEF Piece, F, a, b, x

-----------------------------------------------------------------------------
(* A row of a compressed matrix.                                           *)
RowPoint(n, row) == [dim |-> n, values |-> StoredValues(row), indexes |-> StoredColumns(row)]

LEMMA RowLists ==
  ASSUME NEW row \in Seq(Int)
  PROVE  /\ Len(Stored(row)) \in Nat
         /\ StoredColumns(row) \in Seq(0..(Len(row) - 1)) /\ Len(StoredColumns(row)) = Len(Stored(row))
         /\ StoredValues(row) \in Seq(Int) /\ Len(StoredValues(row)) = Len(Stored(row))
         /\ \A k \in 1..Len(Stored(row)) :
              /\ Stored(row)[k] \in 1..Len(row) /\ row[Stored(row)[k]] # 0
              /\ StoredColumns(row)[k] = Stored(row)[k] - 1
              /\ StoredValues(row)[k] = row[Stored(row)[k]]
         /\ \A j, k \in 1..Len(Stored(row)) : j < k => Stored(row)[j] < Stored(row)[k]
         /\ \A d \in 1..Len(row) : row[d] # 0 => \E k \in 1..Len(Stored(row)) : Stored(row)[k] = d
<1> DEFINE xs == Stored(row)
           n == Len(row)
           m == Len(xs)
           cols == [s \in DOMAIN xs |-> xs[s] - 1]
           vals == [s \in DOMAIN xs |-> row[xs[s]]]
<1>1. Stores(row, n, xs)
  BY StoredStores
<1> HIDE DEF xs
<1>2. /\ xs \in Seq(1..n) /\ m \in Nat /\ DOMAIN xs = 1..m
      /\ \A k \in 1..m : xs[k] \in 1..n /\ row[xs[k]] # 0
      /\ \A j, k \in 1..m : j < k => xs[j] < xs[k]
      /\ \A d \in 1..n : row[d] # 0 => \E k \in 1..m : xs[k] = d
  BY <1>1 DEF Stores, Increasing
<1>3. n \in Nat /\ \A d \in 1..n : row[d] \in Int
  OBVIOUS
<1> HIDE DEF n, m
<1>4. \A k \in 1..m : xs[k] - 1 \in 0..(n - 1) /\ row[xs[k]] \in Int
  BY <1>2, <1>3
<1>5. cols = [s \in 1..m |-> xs[s] - 1] /\ vals = [s \in 1..m |-> row[xs[s]]]
  BY <1>2
<1>6. cols \in Seq(0..(n - 1)) /\ Len(cols) = m /\ \A k \in 1..m : cols[k] = xs[k] - 1
  BY <1>2, <1>4, <1>5
<1>7. vals \in Seq(Int) /\ Len(vals) = m /\ \A k \in 1..m : vals[k] = row[xs[k]]
  BY <1>2, <1>4, <1>5
<1>8. StoredColumns(row) = cols /\ StoredValues(row) = vals
  BY DEF StoredColumns, StoredValues, xs
<1> HIDE DEF cols, vals
<1> QED
  BY <1>2, <1>6, <1>7, <1>8 DEF xs, m, n

LEMMA CompressedPoint ==
  ASSUME NEW matrix \in Matrices, NEW i \in SparseReferences(Compressed(matrix))
  PROVE  /\ i + 1 \in 1..Len(matrix)
         /\ SparsePoint(Compressed(matrix), i) = Ok(RowPoint(Len(matrix[1]), matrix[i + 1]))
<1> DEFINE n == Len(matrix)
           dim == Len(matrix[1])
           ends == RowEnds(matrix)
           lens == [k \in 1..n |-> Len(Stored(matrix[k]))]
           values == [k \in 1..n |-> StoredValues(matrix[k])]
           columns == [k \in 1..n |-> StoredColumns(matrix[k])]
           starts == [k \in 1..(n + 1) |-> ends[k - 1]]
           c == Compressed(matrix)
<1>1. /\ n \in Nat \ {0} /\ DOMAIN matrix = 1..n
      /\ \A k \in 1..n : matrix[k] \in Seq(Int)
  <2>1. matrix \in Seq(Seq(Int)) /\ matrix # <<>>
    BY MatricesAssumption
  <2> QED
    BY <2>1
<1>2. \A k \in 1..n : /\ lens[k] \in Nat
                      /\ values[k] \in Seq(Int) /\ Len(values[k]) = lens[k]
                      /\ columns[k] \in Seq(Int) /\ Len(columns[k]) = lens[k]
  <2> SUFFICES ASSUME NEW k \in 1..n
               PROVE  /\ lens[k] \in Nat
                      /\ values[k] \in Seq(Int) /\ Len(values[k]) = lens[k]
                      /\ columns[k] \in Seq(Int) /\ Len(columns[k]) = lens[k]
    OBVIOUS
  <2> DEFINE row == matrix[k]
  <2>1. row \in Seq(Int) /\ lens[k] = Len(Stored(row)) /\ values[k] = StoredValues(row)
        /\ columns[k] = StoredColumns(row)
    BY <1>1
  <2> HIDE DEF row, lens, values, columns
  <2>2. /\ Len(Stored(row)) \in Nat
        /\ StoredColumns(row) \in Seq(0..(Len(row) - 1)) /\ Len(StoredColumns(row)) = Len(Stored(row))
        /\ StoredValues(row) \in Seq(Int) /\ Len(StoredValues(row)) = Len(Stored(row))
    BY <2>1, RowLists
  <2>3. StoredColumns(row) \in Seq(Int)
    <3>1. 0..(Len(row) - 1) \subseteq Int
      BY <2>1
    <3> QED
      BY <3>1, <2>2
  <2> QED
    BY <2>1, <2>2, <2>3
<1>3. EndsOf(lens, n, ends) /\ \A k \in 0..n : ends[k] \in Nat
  <2>1. lens \in [1..n -> Nat] /\ \A k \in 1..n : lens[k] = Len(Stored(matrix[k]))
    BY <1>2
  <2> HIDE DEF lens
  <2> QED
    BY <2>1, <1>1, RowEndsAre
<1>4. /\ c = SparseDataNew(FlattenSeq(values), FlattenSeq(columns), starts, dim)
  BY <1>1 DEF Compressed
<1>5. values \in [1..n -> Seq(Int)] /\ columns \in [1..n -> Seq(Int)]
  BY <1>2
<1>6. Len(starts) = n + 1 /\ \A k \in 1..(n + 1) : starts[k] = ends[k - 1]
  BY <1>1
<1> HIDE DEF n, ends, lens, values, columns, starts, c
<1>7. /\ c.values = FlattenSeq(values) /\ c.cols = FlattenSeq(columns) /\ c.rows = starts /\ c.dim = dim
  BY <1>4 DEF SparseDataNew
<1>8. i \in 0..(n - 1)
  <2>1. i \in 0..((Len(c.rows) - 1) - 1)
    BY DEF SparseReferences, SparseLen, c
  <2> QED
    BY <2>1, <1>1, <1>6, <1>7
<1> DEFINE k == i + 1
<1>9. k \in 1..n /\ i + 2 = k + 1 /\ k - 1 = i /\ (k + 1) - 1 = k /\ ~(i + 2 > n + 1) /\ k \in 1..(n + 1) /\ k + 1 \in 1..(n + 1)
  BY <1>1, <1>8
<1>10. ends[0] = 0 /\ \A j \in 1..n : ends[j] = ends[j - 1] + lens[j]
  BY <1>3 DEF EndsOf
<1>11. \A j \in 1..n : ends[j] = ends[j - 1] + Len(values[j]) /\ ends[j] = ends[j - 1] + Len(columns[j])
  BY <1>2, <1>10
<1>12. Segments(Int, n, values, ends)
  BY <1>1, <1>3, <1>5, <1>10, <1>11 DEF Segments
<1>13. Segments(Int, n, columns, ends)
  BY <1>1, <1>3, <1>5, <1>10, <1>11 DEF Segments
<1>14. Piece(FlattenSeq(values), ends, k) = values[k] /\ ends[k] <= Len(FlattenSeq(values))
  <2> HIDE DEF k
  <2> QED
    BY <1>9, <1>12, PiecesAre
<1>15. Piece(FlattenSeq(columns), ends, k) = columns[k]
  <2> HIDE DEF k
  <2> QED
    BY <1>9, <1>13, PiecesAre
<1>16. starts[i + 1] = ends[k - 1] /\ starts[i + 2] = ends[k]
  BY <1>6, <1>9
<1>17. ~(i + 2 > Len(c.rows) \/ c.rows[i + 2] > Len(c.values))
  <2>1. ends[k] \in Nat /\ Len(FlattenSeq(values)) \in Nat
    <3>1. FlattenSeq(values) \in Seq(Int)
      BY <1>12, FlattenLays
    <3> QED
      BY <3>1, <1>3, <1>9
  <2>2. ~(ends[k] > Len(FlattenSeq(values)))
    BY <2>1, <1>14
  <2> QED
    BY <2>2, <1>6, <1>7, <1>9, <1>16
<1>18. SparsePoint(c, i) = Ok([dim |-> dim, values |-> values[k], indexes |-> columns[k]])
  <2>1. SparsePoint(c, i) = Ok([dim |-> c.dim, values |-> SubSeq(c.values, c.rows[i + 1] + 1, c.rows[i + 2]),
                                indexes |-> SubSeq(c.cols, c.rows[i + 1] + 1, c.rows[i + 2])])
    BY <1>17 DEF SparsePoint
  <2> QED
    BY <2>1, <1>7, <1>14, <1>15, <1>16 DEF Piece
<1>19. values[k] = StoredValues(matrix[k]) /\ columns[k] = StoredColumns(matrix[k])
  BY <1>9 DEF values, columns
<1> QED
  BY <1>9, <1>18, <1>19 DEF RowPoint, c, n

-----------------------------------------------------------------------------
(* Values are converted as they are met: the spread of a row of the matrix *)
(* is the row.                                                             *)
Converted(base, p) == [p EXCEPT !.values = DenseSlice(base, @)]

LEMMA AsF32Is ==
  ASSUME NEW base, NEW word \in Int
  PROVE  AsF32(base, word) \in Int /\ AsF32(base, 0) = 0 /\ AsF32("f32", word) = word
BY SignBitAssumption DEF AsF32

LEMMA SliceIs ==
  ASSUME NEW base, NEW n \in Nat, NEW row \in Seq(Int), Len(row) = n
  PROVE  /\ DenseSlice(base, row) \in [1..n -> Int]
         /\ DenseSlice(base, row) \in Seq(Int) /\ Len(DenseSlice(base, row)) = n
         /\ \A d \in 1..n : DenseSlice(base, row)[d] = AsF32(base, row[d])
<1> DEFINE f == DenseSlice(base, row)
<1>1. DOMAIN row = 1..n /\ \A d \in 1..n : row[d] \in Int
  OBVIOUS
<1>2. f = [d \in 1..n |-> AsF32(base, row[d])]
  BY <1>1 DEF DenseSlice
<1>3. \A d \in 1..n : AsF32(base, row[d]) \in Int
  BY <1>1, AsF32Is
<1> HIDE DEF f
<1>4. f \in [1..n -> Int] /\ \A d \in 1..n : f[d] = AsF32(base, row[d])
  BY <1>2, <1>3
<1>5. f \in Seq(Int) /\ Len(f) = n
  BY <1>4
<1> QED
  BY <1>4, <1>5 DEF f

LEMMA ConvertedFields ==
  ASSUME NEW base, NEW n \in Nat, NEW row \in Seq(Int), Len(row) = n
  PROVE  LET c == Converted(base, RowPoint(n, row))
         IN  /\ c \in SparseOf(n)
             /\ c.indexes = StoredColumns(row) /\ c.values = DenseSlice(base, StoredValues(row))
             /\ Len(c.indexes) = Len(Stored(row))
             /\ \A k \in 1..Len(Stored(row)) : c.values[k] = AsF32(base, StoredValues(row)[k])
<1> DEFINE m == Len(Stored(row))
           cols == StoredColumns(row)
           vals == StoredValues(row)
           slice == DenseSlice(base, vals)
           c == Converted(base, RowPoint(n, row))
<1>1. /\ m \in Nat /\ cols \in Seq(0..(n - 1)) /\ Len(cols) = m /\ vals \in Seq(Int) /\ Len(vals) = m
      /\ \A k \in 1..m : Stored(row)[k] \in 1..n /\ cols[k] = Stored(row)[k] - 1
      /\ \A j, k \in 1..m : j < k => Stored(row)[j] < Stored(row)[k]
  BY RowLists
<1>2. slice \in Seq(Int) /\ Len(slice) = m /\ \A k \in 1..m : slice[k] = AsF32(base, vals[k])
  <2> HIDE DEF vals
  <2> QED
    BY <1>1, SliceIs
<1>3. c = [dim |-> n, values |-> slice, indexes |-> cols]
  BY DEF Converted, RowPoint
<1> HIDE DEF m, cols, vals, slice, c
<1>4. \A j, k \in 1..m : j < k => cols[j] < cols[k]
  <2> SUFFICES ASSUME NEW j \in 1..m, NEW k \in 1..m, j < k PROVE cols[j] < cols[k]
    OBVIOUS
  <2> DEFINE a == Stored(row)[j]
             b == Stored(row)[k]
  <2>1. a \in 1..n /\ b \in 1..n /\ a < b /\ cols[j] = a - 1 /\ cols[k] = b - 1
    BY <1>1
  <2> HIDE DEF a, b
  <2> QED
    BY <2>1
<1>5. c \in [dim: {n}, indexes: Seq(0..(n - 1)), values: Seq(Int)]
  BY <1>1, <1>2, <1>3
<1>6. c.indexes = cols /\ c.values = slice
  BY <1>3
<1>7. c \in SparseOf(n)
  BY <1>1, <1>2, <1>4, <1>5, <1>6 DEF SparseOf
<1> QED
  BY <1>1, <1>2, <1>6, <1>7 DEF m, cols, vals, slice, c

LEMMA SpreadIsRow ==
  ASSUME NEW base, NEW n \in Nat, NEW row \in Seq(Int), Len(row) = n
  PROVE  Spread(n, Converted(base, RowPoint(n, row)), 1) = DenseSlice(base, row)
<1> DEFINE c == Converted(base, RowPoint(n, row))
           m == Len(Stored(row))
           u == Spread(n, c, 1)
           v == DenseSlice(base, row)
<1>1. /\ c \in SparseOf(n) /\ Len(c.indexes) = m /\ c.indexes = StoredColumns(row)
      /\ \A k \in 1..m : c.values[k] = AsF32(base, StoredValues(row)[k])
  BY ConvertedFields
<1> HIDE DEF c
<1>2. /\ m \in Nat
      /\ \A k \in 1..m : /\ Stored(row)[k] \in 1..n /\ row[Stored(row)[k]] # 0
                         /\ StoredColumns(row)[k] = Stored(row)[k] - 1
                         /\ StoredValues(row)[k] = row[Stored(row)[k]]
      /\ \A d \in 1..n : row[d] # 0 => \E k \in 1..m : Stored(row)[k] = d
  BY RowLists
<1>3. 1 \in 1..(m + 1)
  BY <1>2
<1> HIDE DEF m
<1>4. /\ u \in [1..n -> Int]
      /\ \A k \in 1..m : u[c.indexes[k] + 1] = c.values[k]
      /\ \A d \in 1..n : (\A k \in 1..m : c.indexes[k] # d - 1) => u[d] = 0
  <2>1. 1 \in 1..(Len(c.indexes) + 1)
    BY <1>1, <1>3
  <2>2. /\ u \in [1..n -> Int]
        /\ \A k \in 1..Len(c.indexes) : u[c.indexes[k] + 1] = c.values[k]
        /\ \A d \in 1..n : (\A k \in 1..Len(c.indexes) : c.indexes[k] # d - 1) => u[d] = 0
    BY <1>1, <2>1, SpreadStores
  <2> QED
    BY <2>2, <1>1
<1>5. v \in [1..n -> Int] /\ \A d \in 1..n : v[d] = AsF32(base, row[d])
  BY SliceIs
<1> HIDE DEF u, v
<1>6. ASSUME NEW d \in 1..n PROVE u[d] = v[d]
  <2>1. CASE row[d] # 0
    <3>1. PICK k \in 1..m : Stored(row)[k] = d
      BY <2>1, <1>2
    <3>2. c.indexes[k] + 1 = d /\ c.values[k] = AsF32(base, row[d])
      BY <3>1, <1>1, <1>2
    <3> QED
      BY <3>2, <1>4, <1>5
  <2>2. CASE row[d] = 0
    <3>1. \A k \in 1..m : c.indexes[k] # d - 1
      <4> SUFFICES ASSUME NEW k \in 1..m, c.indexes[k] = d - 1 PROVE FALSE
        OBVIOUS
      <4> DEFINE a == Stored(row)[k]
      <4>1. a \in 1..n /\ row[a] # 0 /\ a - 1 = d - 1
        BY <1>1, <1>2
      <4> HIDE DEF a
      <4>2. a = d
        BY <4>1
      <4> QED
        BY <4>1, <4>2, <2>2
    <3>2. u[d] = 0
      BY <3>1, <1>4
    <3>3. AsF32(base, 0) = 0
      BY AsF32Is, 0 \in Int
    <3> QED
      BY <3>2, <3>3, <2>2, <1>5
  <2> QED
    BY <2>1, <2>2
<1>7. u = v
  BY <1>4, <1>5, <1>6
<1> QED
  BY <1>7 DEF u, v, c

-----------------------------------------------------------------------------
(* The cases of a sum over sparse points.                                  *)
Norm(metric, base, xs) == InLanes([k \in DOMAIN xs |-> Term(metric, AsF32(base, xs[k]))])
Zeros(n) == [d \in 1..n |-> 0]

LEMMA NormIsGap ==
  ASSUME NEW metric \in Metric, NEW base, NEW n \in Nat, NEW row \in Seq(Int), Len(row) = n
  PROVE  Norm(metric, base, StoredValues(row)) = Gap(metric, n, Zeros(n), DenseSlice(base, row))
<1> DEFINE c == Converted(base, RowPoint(n, row))
           m == Len(Stored(row))
           vals == StoredValues(row)
           t == [k \in 1..m |-> Term(metric, AsF32(base, vals[k]))]
<1>1. /\ c \in SparseOf(n) /\ Len(c.indexes) = m
      /\ \A k \in 1..m : c.values[k] = AsF32(base, vals[k])
  BY ConvertedFields
<1> HIDE DEF c
<1>2. m \in Nat /\ vals \in Seq(Int) /\ Len(vals) = m
  BY RowLists
<1> HIDE DEF m, vals
<1>3. DOMAIN vals = 1..m /\ \A k \in 1..m : vals[k] \in Int
  BY <1>2
<1>4. t \in [1..m -> Int]
  <2> SUFFICES ASSUME NEW k \in 1..m PROVE Term(metric, AsF32(base, vals[k])) \in Int
    OBVIOUS
  <2>1. AsF32(base, vals[k]) \in Int
    BY <1>3, AsF32Is
  <2> QED
    BY <2>1, TermIs
<1>5. Norm(metric, base, vals) = InLanes(t)
  BY <1>3 DEF Norm
<1>6. Left(metric, c, 1) = SumFunction(t)
  <2>1. [k \in 1..Len(c.indexes) |-> Term(metric, c.values[k])] = t
    BY <1>1
  <2> QED
    BY <2>1 DEF Left
<1>7. SumFunction(t) = SumFunctionOnSet(t, 1..m)
  BY DEF SumFunction
<1> HIDE DEF t
<1>8. InLanes(t) = SumFunctionOnSet(t, 1..m)
  BY <1>2, <1>4, LanesAddAll
<1>9. Left(metric, c, 1) = Gap(metric, n, Zeros(n), Spread(n, c, 1))
  <2>1. 1 \in 1..(Len(c.indexes) + 1)
    BY <1>1, <1>2
  <2>2. Zeros(n) \in [1..n -> Int] /\ \A d \in 1..n : Zeros(n)[d] = 0
    BY DEF Zeros
  <2> QED
    BY <1>1, <2>1, <2>2, LeftIsGap
<1>10. Spread(n, c, 1) = DenseSlice(base, row)
  BY SpreadIsRow DEF c
<1> QED
  BY <1>5, <1>6, <1>7, <1>8, <1>9, <1>10 DEF vals

LEMMA GapOfZeros ==
  ASSUME NEW metric \in Metric, NEW n \in Nat
  PROVE  Gap(metric, n, Zeros(n), Zeros(n)) = 0
<1> DEFINE g == Gaps(metric, n, Zeros(n), Zeros(n))
<1>1. Term(metric, 0) = 0
  BY TermIs, 0 \in Int
<1>2. \A d \in 1..n : g[d] = 0
  BY <1>1 DEF Gaps, Zeros
<1>3. IsFiniteSet(1..n)
  BY FS_Interval
<1> HIDE DEF g
<1>4. SumFunctionOnSet(g, 1..n) = 0
  BY <1>2, <1>3, SumOfZeros
<1> QED
  BY <1>4 DEF Gap, g

LEMMA EmptyRow ==
  ASSUME NEW base, NEW n \in Nat, NEW row \in Seq(Int), Len(row) = n
  PROVE  StoredValues(row) = <<>> => DenseSlice(base, row) = Zeros(n)
<1> SUFFICES ASSUME StoredValues(row) = <<>> PROVE DenseSlice(base, row) = Zeros(n)
  OBVIOUS
<1> DEFINE m == Len(Stored(row))
           v == DenseSlice(base, row)
<1>1. m = 0 /\ \A d \in 1..n : row[d] # 0 => \E k \in 1..m : Stored(row)[k] = d
  <2>1. m = Len(StoredValues(row)) /\ \A d \in 1..n : row[d] # 0 => \E k \in 1..m : Stored(row)[k] = d
    BY RowLists
  <2>2. Len(<<>>) = 0
    OBVIOUS
  <2> HIDE DEF m
  <2> QED
    BY <2>1, <2>2
<1>2. v \in [1..n -> Int] /\ \A d \in 1..n : v[d] = AsF32(base, row[d])
  BY SliceIs
<1>3. \A d \in 1..n : row[d] = 0
  BY <1>1
<1>4. AsF32(base, 0) = 0
  BY AsF32Is, 0 \in Int
<1> HIDE DEF v
<1>5. \A d \in 1..n : v[d] = 0
  BY <1>2, <1>3, <1>4
<1> QED
  BY <1>2, <1>5 DEF Zeros, v

LEMMA SparseSumIsGap ==
  ASSUME NEW metric \in Metric, NEW base, NEW n \in Nat,
         NEW p \in Seq(Int), Len(p) = n, NEW q \in Seq(Int), Len(q) = n
  PROVE  SparseSum(metric, base, RowPoint(n, p), RowPoint(n, q),
                   Norm(metric, base, StoredValues(p)), Norm(metric, base, StoredValues(q)))
           = Gap(metric, n, DenseSlice(base, p), DenseSlice(base, q))
<1> DEFINE x == RowPoint(n, p)
           y == RowPoint(n, q)
           u == DenseSlice(base, p)
           v == DenseSlice(base, q)
           normX == Norm(metric, base, StoredValues(p))
           normY == Norm(metric, base, StoredValues(q))
           both == Merged(metric, Converted(base, Short(x, y)), Converted(base, Long(x, y)))
<1>1. SparseSum(metric, base, x, y, normX, normY)
        = IF StoredValues(p) = <<>> /\ StoredValues(q) = <<>> THEN 0
          ELSE IF StoredValues(q) = <<>> THEN normX
          ELSE IF StoredValues(p) = <<>> THEN normY
          ELSE both
  <2>1. x.values = StoredValues(p) /\ y.values = StoredValues(q)
    BY DEF RowPoint
  <2> HIDE DEF x, y, normX, normY
  <2> QED
    BY <2>1 DEF SparseSum, Converted
<1>2. u \in [1..n -> Int] /\ v \in [1..n -> Int]
  BY SliceIs
<1>3. normX = Gap(metric, n, Zeros(n), u) /\ normY = Gap(metric, n, Zeros(n), v)
  BY NormIsGap
<1>4. (StoredValues(p) = <<>> => u = Zeros(n)) /\ (StoredValues(q) = <<>> => v = Zeros(n))
  BY EmptyRow
<1>5. Gap(metric, n, u, v) = Gap(metric, n, v, u)
  BY <1>2, GapSymmetric
<1>6. both = Gap(metric, n, u, v)
  <2>1. /\ Converted(base, x) \in SparseOf(n) /\ Converted(base, y) \in SparseOf(n)
        /\ Spread(n, Converted(base, x), 1) = u /\ Spread(n, Converted(base, y), 1) = v
    BY ConvertedFields, SpreadIsRow
  <2> HIDE DEF x, y, u, v
  <2>2. CASE Swaps(x, y)
    <3>1. both = Merged(metric, Converted(base, y), Converted(base, x))
      BY <2>2 DEF Short, Long
    <3>2. both = Gap(metric, n, v, u)
      BY <3>1, <2>1, WalkIsRest DEF Rest
    <3> QED
      BY <3>2, <1>5
  <2>3. CASE ~Swaps(x, y)
    <3>1. both = Merged(metric, Converted(base, x), Converted(base, y))
      BY <2>3 DEF Short, Long
    <3> QED
      BY <3>1, <2>1, WalkIsRest DEF Rest
  <2> QED
    BY <2>2, <2>3
<1>7. Gap(metric, n, Zeros(n), Zeros(n)) = 0
  BY GapOfZeros
<1> HIDE DEF x, y, u, v, normX, normY, both
<1>8. SparseSum(metric, base, x, y, normX, normY) = Gap(metric, n, u, v)
  <2>1. CASE StoredValues(p) = <<>> /\ StoredValues(q) = <<>>
    BY <2>1, <1>1, <1>4, <1>7
  <2>2. CASE StoredValues(p) # <<>> /\ StoredValues(q) = <<>>
    BY <2>2, <1>1, <1>3, <1>4, <1>5
  <2>3. CASE StoredValues(p) = <<>> /\ StoredValues(q) # <<>>
    BY <2>3, <1>1, <1>3, <1>4
  <2>4. CASE StoredValues(p) # <<>> /\ StoredValues(q) # <<>>
    BY <2>4, <1>1, <1>6
  <2> QED
    BY <2>1, <2>2, <2>3, <2>4
<1> QED
  BY <1>8 DEF x, y, u, v, normX, normY

-----------------------------------------------------------------------------
(* The distances are the gap between the rows.                             *)
LEMMA DistanceIsGap ==
  ASSUME NEW metric \in Metric, NEW base, NEW n \in Nat,
         NEW p \in Seq(Int), Len(p) = n, NEW q \in Seq(Int), Len(q) = n
  PROVE  Distance(base, metric, p, q) = Sqrt(Gap(metric, n, DenseSlice(base, p), DenseSlice(base, q)))
<1> DEFINE u == DenseSlice(base, p)
           v == DenseSlice(base, q)
           t == [d \in 1..n |-> Term(metric, AsF32(base, p[d]) - AsF32(base, q[d]))]
<1>1. DOMAIN q = 1..n
  OBVIOUS
<1>2. \A d \in 1..n : u[d] = AsF32(base, p[d]) /\ v[d] = AsF32(base, q[d])
  BY SliceIs
<1>3. Distance(base, metric, p, q) = Sqrt(SumFunction(t))
  BY <1>1 DEF Distance, SumOver, Term
<1> HIDE DEF u, v
<1>4. t = Gaps(metric, n, u, v)
  BY <1>2 DEF Gaps
<1>5. SumFunction(t) = SumFunctionOnSet(t, 1..n)
  BY DEF SumFunction
<1> HIDE DEF t
<1> QED
  BY <1>3, <1>4, <1>5 DEF Gap, u, v

LEMMA DenseDistances ==
  ASSUME NEW base, NEW n \in Nat, NEW p \in Seq(Int), Len(p) = n, NEW q \in Seq(Int), Len(q) = n
  PROVE  /\ L2Dist(base, p, q) = Distance(base, "L2", p, q)
         /\ L1Dist(base, p, q) = Distance(base, "L1", p, q)
<1> DEFINE t(metric) == [d \in 1..n |-> Term(metric, AsF32(base, p[d]) - AsF32(base, q[d]))]
<1>1. DOMAIN q = 1..n /\ \A d \in 1..n : p[d] \in Int /\ q[d] \in Int
  OBVIOUS
<1>2. ASSUME NEW metric \in Metric
      PROVE  t(metric) \in [1..n -> Int] /\ Distance(base, metric, p, q) = Sqrt(InLanes(t(metric)))
  <2>1. ASSUME NEW d \in 1..n PROVE Term(metric, AsF32(base, p[d]) - AsF32(base, q[d])) \in Int
    <3>1. AsF32(base, p[d]) \in Int /\ AsF32(base, q[d]) \in Int
      BY <1>1, AsF32Is
    <3> QED
      BY <3>1, TermIs
  <2>2. t(metric) \in [1..n -> Int]
    BY <2>1
  <2>3. Distance(base, metric, p, q) = Sqrt(SumFunction(t(metric)))
    BY <1>1 DEF Distance, SumOver, Term
  <2>4. SumFunction(t(metric)) = SumFunctionOnSet(t(metric), 1..n)
    BY DEF SumFunction
  <2> HIDE DEF t
  <2>5. InLanes(t(metric)) = SumFunctionOnSet(t(metric), 1..n)
    BY <2>2, LanesAddAll
  <2> QED
    BY <2>2, <2>3, <2>4, <2>5
<1>3. ASSUME base = "f32"
      PROVE  \A d \in 1..n : AsF32(base, p[d]) = p[d] /\ AsF32(base, q[d]) = q[d]
  BY <1>1, <1>3, AsF32Is
<1>4. L2Dist(base, p, q) = Sqrt(InLanes(t("L2")))
  <2>1. CASE base = "f32"
    <3>1. [k \in 1..n |-> L2Term(p[k] - q[k])] = t("L2")
      BY <2>1, <1>3 DEF Term
    <3> QED
      BY <3>1, <2>1, <1>1 DEF L2Dist, SqL2DenseF32
  <2>2. CASE base # "f32"
    BY <2>2, <1>1 DEF L2Dist, SqL2DenseInt, Term
  <2> QED
    BY <2>1, <2>2
<1>5. L1Dist(base, p, q) = Sqrt(InLanes(t("L1")))
  <2>1. CASE base = "f32"
    <3>1. [k \in 1..n |-> L1Term(p[k] - q[k])] = t("L1")
      BY <2>1, <1>3 DEF Term
    <3> QED
      BY <3>1, <2>1, <1>1 DEF L1Dist, L1DenseF32
  <2>2. CASE base # "f32"
    BY <2>2, <1>1 DEF L1Dist, L1DenseInt, Term
  <2> QED
    BY <2>1, <2>2
<1> HIDE DEF t
<1> QED
  BY <1>2, <1>4, <1>5 DEF Metric

LEMMA NormsAre ==
  ASSUME NEW base, NEW xs \in Seq(Int)
  PROVE  /\ SqL2NormInt(base, xs) = Norm("L2", base, xs) /\ L1NormInt(base, xs) = Norm("L1", base, xs)
         /\ SqL2NormF32(xs) = Norm("L2", "f32", xs) /\ L1NormF32(xs) = Norm("L1", "f32", xs)
<1>1. SqL2NormInt(base, xs) = Norm("L2", base, xs) /\ L1NormInt(base, xs) = Norm("L1", base, xs)
  BY DEF SqL2NormInt, L1NormInt, Norm, Term
<1>2. \A k \in DOMAIN xs : AsF32("f32", xs[k]) = xs[k]
  BY DEF AsF32
<1>3. /\ [k \in DOMAIN xs |-> Term("L2", AsF32("f32", xs[k]))] = [k \in DOMAIN xs |-> L2Term(xs[k])]
      /\ [k \in DOMAIN xs |-> Term("L1", AsF32("f32", xs[k]))] = [k \in DOMAIN xs |-> L1Term(xs[k])]
  BY <1>2 DEF Term
<1> QED
  BY <1>1, <1>3 DEF SqL2NormF32, L1NormF32, Norm

LEMMA SparseDistances ==
  ASSUME NEW base, NEW n \in Nat, NEW p \in Seq(Int), Len(p) = n, NEW q \in Seq(Int), Len(q) = n
  PROVE  /\ L2SparseDist(base, RowPoint(n, p), RowPoint(n, q)) = Distance(base, "L2", p, q)
         /\ L1SparseDist(base, RowPoint(n, p), RowPoint(n, q)) = Distance(base, "L1", p, q)
<1> DEFINE x == RowPoint(n, p)
           y == RowPoint(n, q)
           xs == StoredValues(p)
           ys == StoredValues(q)
           sum(metric) == SparseSum(metric, base, x, y, Norm(metric, base, xs), Norm(metric, base, ys))
<1>1. ASSUME NEW metric \in Metric PROVE Sqrt(sum(metric)) = Distance(base, metric, p, q)
  BY DistanceIsGap, SparseSumIsGap
<1>2. xs \in Seq(Int) /\ ys \in Seq(Int)
  BY RowLists
<1>3. x.values = xs /\ y.values = ys
  BY DEF RowPoint
<1> HIDE DEF x, y, xs, ys
<1>4. L2SparseDist(base, x, y) = Sqrt(sum("L2"))
  <2>1. CASE base = "f32"
    <3>1. SqL2NormF32(xs) = Norm("L2", "f32", xs) /\ SqL2NormF32(ys) = Norm("L2", "f32", ys)
      BY <1>2, NormsAre
    <3> QED
      BY <3>1, <2>1, <1>3 DEF L2SparseDist, SqL2SparseF32
  <2>2. CASE base # "f32"
    <3>1. SqL2NormInt(base, xs) = Norm("L2", base, xs) /\ SqL2NormInt(base, ys) = Norm("L2", base, ys)
      BY <1>2, NormsAre
    <3> QED
      BY <3>1, <2>2, <1>3 DEF L2SparseDist, SqL2SparseInt
  <2> QED
    BY <2>1, <2>2
<1>5. L1SparseDist(base, x, y) = Sqrt(sum("L1"))
  <2>1. CASE base = "f32"
    <3>1. L1NormF32(xs) = Norm("L1", "f32", xs) /\ L1NormF32(ys) = Norm("L1", "f32", ys)
      BY <1>2, NormsAre
    <3> QED
      BY <3>1, <2>1, <1>3 DEF L1SparseDist, L1SparseF32
  <2>2. CASE base # "f32"
    <3>1. L1NormInt(base, xs) = Norm("L1", base, xs) /\ L1NormInt(base, ys) = Norm("L1", base, ys)
      BY <1>2, NormsAre
    <3> QED
      BY <3>1, <2>2, <1>3 DEF L1SparseDist, L1SparseInt
  <2> QED
    BY <2>1, <2>2
<1> HIDE DEF sum
<1>6. Sqrt(sum("L2")) = Distance(base, "L2", p, q) /\ Sqrt(sum("L1")) = Distance(base, "L1", p, q)
  BY <1>1 DEF Metric
<1> QED
  BY <1>4, <1>5, <1>6 DEF x, y

-----------------------------------------------------------------------------
(* A sparse point as a dense vector, and as an iterator.                   *)
LEMMA DenseIsSlice ==
  ASSUME NEW base, NEW n \in Nat, NEW row \in Seq(Int), Len(row) = n
  PROVE  Dense(base, RowPoint(n, row)) = DenseSlice(base, row)
<1> DEFINE m == Len(Stored(row))
           cols == StoredColumns(row)
           vals == StoredValues(row)
           v == DenseSlice(base, row)
           At(d) == {s \in 1..m : cols[s] = d - 1}
           w == [d \in 1..n |-> IF \E s \in 1..m : cols[s] = d - 1
                                THEN AsF32(base, vals[CHOOSE s \in 1..m : cols[s] = d - 1]) ELSE 0]
<1>1. /\ m \in Nat /\ DOMAIN cols = 1..m
      /\ \A k \in 1..m : /\ Stored(row)[k] \in 1..n /\ row[Stored(row)[k]] # 0
                         /\ cols[k] = Stored(row)[k] - 1 /\ vals[k] = row[Stored(row)[k]]
      /\ \A d \in 1..n : row[d] # 0 => \E k \in 1..m : Stored(row)[k] = d
  <2>1. cols \in Seq(0..(n - 1)) /\ Len(cols) = m
    BY RowLists
  <2>2. DOMAIN cols = 1..m
    <3> HIDE DEF cols, m
    <3> QED
      BY <2>1
  <2>3. /\ m \in Nat
        /\ \A k \in 1..m : /\ Stored(row)[k] \in 1..n /\ row[Stored(row)[k]] # 0
                           /\ cols[k] = Stored(row)[k] - 1 /\ vals[k] = row[Stored(row)[k]]
        /\ \A d \in 1..n : row[d] # 0 => \E k \in 1..m : Stored(row)[k] = d
    BY RowLists
  <2> QED
    BY <2>2, <2>3
<1>2. Dense(base, RowPoint(n, row)) = w
  <2>1. RowPoint(n, row).dim = n /\ RowPoint(n, row).indexes = cols /\ RowPoint(n, row).values = vals
    BY DEF RowPoint
  <2> HIDE DEF cols, vals, m
  <2> QED
    BY <2>1, <1>1 DEF Dense
<1>3. v \in [1..n -> Int] /\ \A d \in 1..n : v[d] = AsF32(base, row[d])
  BY SliceIs
<1> HIDE DEF m, cols, vals, v
<1>4. ASSUME NEW d \in 1..n PROVE w[d] = v[d]
  <2>1. CASE \E s \in 1..m : cols[s] = d - 1
    <3> DEFINE c == CHOOSE s \in 1..m : cols[s] = d - 1
    <3>1. c \in 1..m /\ cols[c] = d - 1
      BY <2>1
    <3>2. w[d] = AsF32(base, vals[c])
      BY <2>1
    <3> HIDE DEF c, w
    <3>3. Stored(row)[c] = d
      <4> DEFINE a == Stored(row)[c]
      <4>1. a \in 1..n /\ a - 1 = d - 1
        BY <3>1, <1>1
      <4> HIDE DEF a
      <4>2. a = d
        BY <4>1
      <4> QED
        BY <4>2 DEF a
    <3> QED
      BY <3>1, <3>2, <3>3, <1>1, <1>3
  <2>2. CASE ~ \E s \in 1..m : cols[s] = d - 1
    <3>1. w[d] = 0
      BY <2>2
    <3>2. row[d] = 0
      <4> SUFFICES ASSUME row[d] # 0 PROVE FALSE
        OBVIOUS
      <4>1. PICK k \in 1..m : Stored(row)[k] = d
        BY <1>1
      <4>2. cols[k] = d - 1
        BY <4>1, <1>1
      <4> QED
        BY <4>2, <2>2
    <3>3. AsF32(base, 0) = 0
      BY AsF32Is, 0 \in Int
    <3> HIDE DEF w
    <3> QED
      BY <3>1, <3>2, <3>3, <1>3
  <2> QED
    BY <2>1, <2>2
<1>5. w = v
  <2>1. w = [d \in 1..n |-> w[d]]
    OBVIOUS
  <2>2. v = [d \in 1..n |-> v[d]]
    BY <1>3
  <2> HIDE DEF w
  <2> QED
    BY <2>1, <2>2, <1>4
<1> QED
  BY <1>2, <1>5 DEF v

LEMMA IterIsRow ==
  ASSUME NEW n \in Nat, NEW row \in Seq(Int), Len(row) = n, NEW d \in 1..n
  PROVE  Coordinate(DenseIter("f32", RowPoint(n, row)), d) = row[d]
<1> DEFINE m == Len(Stored(row))
           cols == StoredColumns(row)
           last == Stored(row)[m]
           v == DenseSlice("f32", row)
           iter == DenseIter("f32", RowPoint(n, row))
<1>1. /\ m \in Nat /\ cols \in Seq(0..(n - 1)) /\ Len(cols) = m
      /\ \A k \in 1..m : Stored(row)[k] \in 1..n /\ cols[k] = Stored(row)[k] - 1
      /\ \A j, k \in 1..m : j < k => Stored(row)[j] < Stored(row)[k]
      /\ \A c \in 1..n : row[c] # 0 => \E k \in 1..m : Stored(row)[k] = c
  BY RowLists
<1>2. v \in Seq(Int) /\ Len(v) = n /\ v[d] = row[d]
  <2>1. v \in Seq(Int) /\ Len(v) = n /\ v[d] = AsF32("f32", row[d])
    BY SliceIs
  <2>2. row[d] \in Int
    OBVIOUS
  <2>3. AsF32("f32", row[d]) = row[d]
    BY <2>2, AsF32Is
  <2> QED
    BY <2>1, <2>3
<1>3. iter = IF cols = <<>> THEN <<>> ELSE SubSeq(v, 1, cols[Len(cols)] + 1)
  <2>1. Dense("f32", RowPoint(n, row)) = v /\ RowPoint(n, row).indexes = cols
    <3>1. Dense("f32", RowPoint(n, row)) = v
      BY DenseIsSlice
    <3> QED
      BY <3>1 DEF RowPoint
  <2> HIDE DEF cols, v
  <2> QED
    BY <2>1 DEF DenseIter
<1> HIDE DEF m, cols, v, iter
<1>4. CASE m = 0
  <2>1. cols = <<>> /\ iter = <<>>
    BY <1>1, <1>3, <1>4
  <2>2. row[d] = 0
    BY <1>1, <1>4
  <2>3. d \notin DOMAIN iter
    BY <2>1
  <2> QED
    BY <2>2, <2>3 DEF Coordinate, iter
<1>5. CASE m # 0
  <2>1. m \in 1..m /\ last \in 1..n /\ cols # <<>> /\ cols[m] = last - 1
    BY <1>1, <1>5
  <2> HIDE DEF last
  <2>2. iter = SubSeq(v, 1, last)
    <3>1. (last - 1) + 1 = last
      BY <2>1
    <3> QED
      BY <3>1, <2>1, <1>1, <1>3
  <2>3. Len(iter) = last /\ DOMAIN iter = 1..last /\ \A c \in 1..last : iter[c] = v[c]
    BY <2>1, <2>2, <1>2
  <2>4. CASE d \in 1..last
    BY <2>3, <2>4, <1>2 DEF Coordinate, iter
  <2>5. CASE d \notin 1..last
    <3>1. row[d] = 0
      <4> SUFFICES ASSUME row[d] # 0 PROVE FALSE
        OBVIOUS
      <4>1. PICK k \in 1..m : Stored(row)[k] = d
        BY <1>1
      <4>2. k = m \/ k < m
        BY <1>1
      <4>3. Stored(row)[k] = last \/ Stored(row)[k] < last
        BY <4>2, <2>1, <1>1 DEF last
      <4> QED
        BY <4>1, <4>3, <2>1, <2>5
    <3> QED
      BY <3>1, <2>3, <2>5 DEF Coordinate, iter
  <2> QED
    BY <2>4, <2>5
<1> QED
  BY <1>4, <1>5

-----------------------------------------------------------------------------
(* A moment over two points adds what they store. *)
LEMMA SumOfTwo ==
  ASSUME NEW f, f[1] \in Int, f[2] \in Int
  PROVE  SumFunctionOnSet(f, 1..2) = f[1] + f[2]
<1>1. SumFunctionOnSet(f, {1}) = f[1]
  <2>1. SumFunctionOnSet(f, {} \cup {1}) = SumFunctionOnSet(f, {}) + f[1]
    BY FS_EmptySet, SumWith
  <2>2. SumFunctionOnSet(f, {}) = 0
    BY SumOfNone
  <2>3. {} \cup {1} = {1}
    OBVIOUS
  <2> QED
    BY <2>1, <2>2, <2>3
<1>2. SumFunctionOnSet(f, {1} \cup {2}) = SumFunctionOnSet(f, {1}) + f[2]
  <2>1. IsFiniteSet({1})
    BY FS_Singleton
  <2>2. 2 \notin {1} /\ \A y \in {1} \cup {2} : f[y] \in Int
    OBVIOUS
  <2> QED
    BY <2>1, <2>2, SumWith
<1>3. {1} \cup {2} = 1..2
  OBVIOUS
<1> QED
  BY <1>1, <1>2, <1>3

ReadsRows(at, i, j, n, p, q) == at[i] = Ok(RowPoint(n, p)) /\ at[j] = Ok(RowPoint(n, q))
AddsRows(r, n, p, q) == r = Ok([d \in 1..n |-> p[d] + q[d]])

LEMMA MomentOfTwo ==
  ASSUME NEW n \in Nat, NEW p \in Seq(Int), Len(p) = n, NEW q \in Seq(Int), Len(q) = n,
         NEW i, NEW j, NEW at, ReadsRows(at, i, j, n, p, q),
         NEW shape, shape.dim = n, shape.sparse
  PROVE  AddsRows(Moment1(shape, <<i, j>>, at), n, p, q)
<1> DEFINE pns == <<i, j>>
           x == RowPoint(n, p)
           y == RowPoint(n, q)
           t(d) == [k \in 1..2 |-> CoordinateAt(shape, at, pns[k], d)]
<1>1. DOMAIN pns = 1..2 /\ pns[1] = i /\ pns[2] = j /\ \A k \in 1..2 : k = 1 \/ k = 2
  OBVIOUS
<1> HIDE DEF pns, x, y
<1>2. at[i].val = x /\ at[j].val = y /\ at[i].res = "ok" /\ at[j].res = "ok"
  BY DEF ReadsRows, Ok, x, y
<1>3. ~Failed(FirstFailure(pns, at))
  <2>1. {k \in DOMAIN pns : Failed(at[pns[k]])} = {}
    BY <1>1, <1>2 DEF Failed
  <2>2. FirstFailure(pns, at) = Ok(<<>>)
    BY <2>1 DEF FirstFailure
  <2> QED
    BY <2>2 DEF Failed, Ok
<1>5. Moment1(shape, pns, at) = Ok([d \in 1..n |-> SumFunction(t(d))])
  BY <1>1, <1>3 DEF Moment1, MomentOf, SumOver
<1>6. ASSUME NEW d \in 1..n PROVE SumFunction(t(d)) = p[d] + q[d]
  <2>1. t(d)[1] = Coordinate(DenseIter("f32", x), d) /\ t(d)[2] = Coordinate(DenseIter("f32", y), d)
    BY <1>1, <1>2 DEF IterOf, CoordinateAt
  <2>2. Coordinate(DenseIter("f32", x), d) = p[d] /\ Coordinate(DenseIter("f32", y), d) = q[d]
    BY IterIsRow DEF x, y
  <2>3. SumFunction(t(d)) = SumFunctionOnSet(t(d), 1..2)
    BY DEF SumFunction
  <2>4. p[d] \in Int /\ q[d] \in Int
    OBVIOUS
  <2> HIDE DEF t
  <2>5. SumFunctionOnSet(t(d), 1..2) = t(d)[1] + t(d)[2]
    BY <2>1, <2>2, <2>4, SumOfTwo
  <2> QED
    BY <2>1, <2>2, <2>3, <2>5
<1> HIDE DEF t
<1>7. [d \in 1..n |-> SumFunction(t(d))] = [d \in 1..n |-> p[d] + q[d]]
  BY <1>6
<1> QED
  BY <1>5, <1>7 DEF pns, AddsRows

-----------------------------------------------------------------------------
(* A cloud of compressed rows answers what the rows do.                    *)
SparseAgrees(c, want) ==
  \A i, j \in SparseReferences(c) : \A base \in Bases :
    LET x == SparsePoint(c, i).val
        y == SparsePoint(c, j).val
        p == want.rows[i + 1].point
        q == want.rows[j + 1].point
    IN /\ L2SparseDist(base, x, y) = Distance(base, "L2", p, q)
       /\ L2Dist(base, p, q) = Distance(base, "L2", p, q)
       /\ L1SparseDist(base, x, y) = Distance(base, "L1", p, q)
       /\ L1Dist(base, p, q) = Distance(base, "L1", p, q)
       /\ Dense(base, x) = DenseSlice(base, p)
       /\ Moment1(ShapeOf(c), <<i, j>>, [n \in {i, j} |-> SparsePoint(c, n)])
            = Ok([d \in 1..c.dim |-> p[d] + q[d]])

LEMMA CompressedAgrees ==
  ASSUME NEW matrix \in Matrices
  PROVE  SparseAgrees(Compressed(matrix), Expect(matrix, Unlabeled(matrix)))
<1> DEFINE c == Compressed(matrix)
           want == Expect(matrix, Unlabeled(matrix))
           n == Len(matrix[1])
<1>1. /\ n \in Nat
      /\ DOMAIN matrix = 1..Len(matrix)
      /\ \A k \in 1..Len(matrix) : matrix[k] \in Seq(Int) /\ Len(matrix[k]) = n
  <2>1. /\ matrix \in Seq(Seq(Int)) /\ matrix # <<>>
        /\ \A k \in DOMAIN matrix : Len(matrix[k]) = n
    BY MatricesAssumption
  <2>2. DOMAIN matrix = 1..Len(matrix) /\ 1 \in 1..Len(matrix)
    BY <2>1
  <2>3. \A k \in 1..Len(matrix) : matrix[k] \in Seq(Int)
    BY <2>1
  <2>4. n \in Nat
    BY <2>2, <2>3
  <2> QED
    BY <2>1, <2>2, <2>3, <2>4
<1>2. \A k \in 1..Len(matrix) : want.rows[k].point = matrix[k]
  BY <1>1 DEF Expect
<1>3. c.dim = n /\ ShapeOf(c).dim = n /\ ShapeOf(c).sparse
  <2>1. c.dim = n /\ c.kind = "sparse"
    BY DEF Compressed, SparseDataNew
  <2> HIDE DEF c, n
  <2> QED
    BY <2>1 DEF ShapeOf, Dim
<1> HIDE DEF c, want, n
<1>4. ASSUME NEW i \in SparseReferences(c), NEW j \in SparseReferences(c), NEW base \in Bases
      PROVE  LET x == SparsePoint(c, i).val
                 y == SparsePoint(c, j).val
                 p == want.rows[i + 1].point
                 q == want.rows[j + 1].point
             IN /\ L2SparseDist(base, x, y) = Distance(base, "L2", p, q)
                /\ L2Dist(base, p, q) = Distance(base, "L2", p, q)
                /\ L1SparseDist(base, x, y) = Distance(base, "L1", p, q)
                /\ L1Dist(base, p, q) = Distance(base, "L1", p, q)
                /\ Dense(base, x) = DenseSlice(base, p)
                /\ Moment1(ShapeOf(c), <<i, j>>, [k \in {i, j} |-> SparsePoint(c, k)])
                     = Ok([d \in 1..c.dim |-> p[d] + q[d]])
  <2> DEFINE p == want.rows[i + 1].point
             q == want.rows[j + 1].point
             x == SparsePoint(c, i).val
             y == SparsePoint(c, j).val
             at == [k \in {i, j} |-> SparsePoint(c, k)]
  <2>1. i + 1 \in 1..Len(matrix) /\ SparsePoint(c, i) = Ok(RowPoint(n, matrix[i + 1]))
    BY CompressedPoint DEF c, n
  <2>2. j + 1 \in 1..Len(matrix) /\ SparsePoint(c, j) = Ok(RowPoint(n, matrix[j + 1]))
    BY CompressedPoint DEF c, n
  <2>3. /\ p = matrix[i + 1] /\ q = matrix[j + 1]
        /\ p \in Seq(Int) /\ Len(p) = n /\ q \in Seq(Int) /\ Len(q) = n
    BY <1>1, <1>2, <2>1, <2>2
  <2>4. x = RowPoint(n, p) /\ y = RowPoint(n, q)
    BY <2>1, <2>2, <2>3 DEF Ok
  <2>5. ReadsRows(at, i, j, n, p, q)
    BY <2>1, <2>2, <2>3 DEF ReadsRows
  <2> HIDE DEF p, q, x, y, at
  <2>6. /\ L2SparseDist(base, x, y) = Distance(base, "L2", p, q)
        /\ L1SparseDist(base, x, y) = Distance(base, "L1", p, q)
    BY <1>1, <2>3, <2>4, SparseDistances
  <2>7. /\ L2Dist(base, p, q) = Distance(base, "L2", p, q)
        /\ L1Dist(base, p, q) = Distance(base, "L1", p, q)
    BY <1>1, <2>3, DenseDistances
  <2>8. Dense(base, x) = DenseSlice(base, p)
    BY <1>1, <2>3, <2>4, DenseIsSlice
  <2>9. AddsRows(Moment1(ShapeOf(c), <<i, j>>, at), n, p, q)
    BY <1>1, <1>3, <2>3, <2>5, MomentOfTwo
  <2>10. Moment1(ShapeOf(c), <<i, j>>, at) = Ok([d \in 1..c.dim |-> p[d] + q[d]])
    BY <2>9, <1>3 DEF AddsRows
  <2> QED
    BY <2>6, <2>7, <2>8, <2>10 DEF p, q, x, y, at
<1> QED
  BY <1>4 DEF SparseAgrees, c, want

-----------------------------------------------------------------------------
(* Only compressed rows make a sparse cloud: what is read from files or    *)
(* merged is dense or labeled.                                             *)
DenseOf(dim) == [kind: {"dense"}, dim: {dim}, data: Seq(Int)]

LEMMA MemmapIsDense ==
  ASSUME NEW dim, NEW f \in DOMAIN Files, ~Failed(DataMemmapNew(dim, Files[f]))
  PROVE  DataMemmapNew(dim, Files[f]).val \in DenseOf(dim)
<1> DEFINE file == Files[f]
           len == MapFile(file).val.len
           m == Min({len, Len(file.floats)})
<1>1. file.bytes \in Nat /\ file.floats \in Seq(Int)
  BY FilesAssumption DEF HasFloats
<1>2. ~Failed(MapFile(file))
  BY MemmapIsOfMap
<1>3. DataMemmapNew(dim, file).val = [kind |-> "dense", dim |-> dim, data |-> SubSeq(file.floats, 1, m)]
  BY <1>2 DEF DataMemmapNew, Ok
<1>4. len \in Nat
  <2>1. len = (file.bytes - 0) \div 4
    BY <1>2 DEF MapFile, MapNew, GetLen, Ok, Err, Failed
  <2>2. file.bytes - 0 \in Nat
    BY <1>1
  <2> QED
    BY <2>1, <2>2
<1> HIDE DEF file, len
<1>5. m \in Nat /\ m <= Len(file.floats)
  <2> DEFINE T == {len, Len(file.floats)}
  <2>1. T \in SUBSET Nat /\ T # {} /\ Len(file.floats) \in T
    BY <1>1, <1>4
  <2> HIDE DEF T
  <2>2. Min(T) \in T /\ Min(T) <= Len(file.floats)
    BY <2>1, MinOfNaturals
  <2> QED
    BY <2>1, <2>2 DEF T
<1> HIDE DEF m
<1>6. SubSeq(file.floats, 1, m) \in Seq(Int)
  BY <1>1, <1>5
<1> QED
  BY <1>3, <1>6 DEF DenseOf, file

LEMMA OpenedDense ==
  ASSUME NEW dim, NEW paths \in Seq(DOMAIN Files), ~Failed(OpenMemmaps(dim, paths))
  PROVE  \E ss \in Seq(DenseOf(dim)) : OpenMemmaps(dim, paths).val = GluedCloud(ss)
<1> DEFINE n == Len(paths)
           rs == [k \in DOMAIN paths |-> DataMemmapNew(dim, Files[paths[k]])]
           ss == [k \in 1..n |-> rs[k].val]
<1>1. n \in Nat /\ DOMAIN paths = 1..n /\ DOMAIN rs = 1..n /\ \A k \in 1..n : paths[k] \in DOMAIN Files
  OBVIOUS
<1>2. OpenMemmaps(dim, paths) = IF Failed(CollectMaps(rs)) THEN CollectMaps(rs)
                                ELSE Ok(GluedCloud(CollectMaps(rs).val))
  BY DEF OpenMemmaps
<1>3. \A k \in 1..n : rs[k] = DataMemmapNew(dim, Files[paths[k]])
  BY <1>1
<1> HIDE DEF n, rs
<1>4. ~Failed(Collect(rs)) /\ OpenMemmaps(dim, paths).val = GluedCloud(Collect(rs).val)
  BY <1>2, MapsCollected DEF Ok
<1>5. Collect(rs).val = ss /\ \A k \in 1..n : ~Failed(rs[k])
  BY <1>1, <1>4, CollectedAll
<1>6. \A k \in 1..n : rs[k].val \in DenseOf(dim)
  BY <1>1, <1>3, <1>5, MemmapIsDense
<1>7. ss \in Seq(DenseOf(dim))
  BY <1>1, <1>6
<1> QED
  BY <1>4, <1>5, <1>7

Reduces(rs, it) ==
  it = [k \in SUBSET DOMAIN Tail(rs) |->
          IF k = {} THEN Ok(rs[1])
          ELSE IF Failed(it[k \ {Max(k)}]) THEN it[k \ {Max(k)}]
          ELSE MergeOf(it[k \ {Max(k)}].val, Tail(rs)[Max(k)])]

LEMMA ReducesFold ==
  ASSUME NEW rs, rs # <<>>
  PROVE  Reduce(rs) = (CHOOSE it : Reduces(rs, it))[DOMAIN Tail(rs)]
BY DEF Reduce, FoldLeft, MapThenFoldSet, Reduces

LEMMA MergedDense ==
  ASSUME NEW dim, NEW a \in DenseOf(dim), NEW b \in DenseOf(dim)
  PROVE  MergeOf(a, b) \in {Ok(c) : c \in DenseOf(dim)}
<1>1. a.kind = "dense" /\ a.dim = b.dim /\ a.data \in Seq(Int) /\ b.data \in Seq(Int)
  BY DEF DenseOf
<1>2. a.data \o b.data \in Seq(Int)
  BY <1>1
<1>3. [a EXCEPT !.data = a.data \o b.data] \in DenseOf(dim)
  BY <1>2 DEF DenseOf
<1>4. MergeOf(a, b) = Ok([a EXCEPT !.data = a.data \o b.data])
  BY <1>1 DEF MergeOf, DataRamMerge
<1> QED
  BY <1>3, <1>4

LEMMA ReducedDense ==
  ASSUME NEW dim, NEW rs \in Seq(DenseOf(dim)), ~Failed(Reduce(rs))
  PROVE  Reduce(rs).val \in DenseOf(dim)
<1> DEFINE q == Tail(rs)
           n == Len(q)
           X == {Ok(c) : c \in DenseOf(dim)}
           base == Ok(rs[1])
           next(x, i) == IF Failed(x) THEN x ELSE MergeOf(x.val, q[i])
           g == [ix \in (1..n) \X X |-> next(ix[2], ix[1])]
<1>0. rs # <<>>
  BY DEF Reduce, Panicked, Failed
<1>1. n \in Nat /\ DOMAIN q = 1..n /\ q \in Seq(DenseOf(dim)) /\ rs[1] \in DenseOf(dim)
  BY <1>0
<1>2. base \in X /\ \A x \in X : ~Failed(x) /\ x.val \in DenseOf(dim)
  BY <1>1 DEF Ok, Failed
<1>3. \A x \in X : \A i \in 1..n : next(x, i) \in X
  <2> SUFFICES ASSUME NEW x \in X, NEW i \in 1..n PROVE next(x, i) \in X
    OBVIOUS
  <2>1. x.val \in DenseOf(dim) /\ ~Failed(x)
    BY <1>2
  <2>2. q[i] \in DenseOf(dim)
    BY <1>1
  <2> QED
    BY <2>1, <2>2, MergedDense
<1> HIDE DEF q, n, X, base
<1>4. \A i \in 1..n, x \in X : g[<<i, x>>] = next(x, i)
  OBVIOUS
<1> HIDE DEF g
<1>5. StepsIn(g, X, n)
  BY <1>3, <1>4 DEF StepsIn
<1> DEFINE one == CHOOSE it : Reduces(rs, it)
<1>6. ASSUME NEW fold \in [SUBSET (1..n) -> X], Folding(n, fold, base, g)
      PROVE  FoldsIn(n, one, X, base, g)
  <2>1. \A k \in SUBSET (1..n) : k # {} => Max(k) \in 1..n /\ k \ {Max(k)} \in SUBSET (1..n)
    BY <1>1, MaxOfIndices
  <2>2. \A k \in SUBSET (1..n) :
          fold[k] = IF k = {} THEN base ELSE next(fold[k \ {Max(k)}], Max(k))
    <3> HIDE DEF next
    <3> QED
      BY <1>4, <1>6, <2>1 DEF Folding
  <2>3. Reduces(rs, fold)
    BY <1>1, <2>2 DEF Reduces, q, base
  <2>4. Reduces(rs, one)
    BY <2>3
  <2> HIDE DEF one
  <2>5. \A k \in SUBSET (1..n) :
          one[k] = IF k = {} THEN base ELSE next(one[k \ {Max(k)}], Max(k))
    BY <1>1, <2>4 DEF Reduces, q, base
  <2>6. one[{}] = base
    BY <2>5
  <2> HIDE DEF next
  <2> QED
    BY <1>4, <2>1, <2>5, <2>6 DEF FoldsIn
<1> HIDE DEF one
<1>7. PICK h : RecursionTo(n, h, X, base, g) /\ one[1..n] = h[n]
  <2>1. SolvedBy(n, one, X, base, g)
    BY <1>6 DEF SolvedBy
  <2> QED
    BY <1>1, <1>2, <1>5, <2>1, FoldAlong
<1>8. h[n] \in X
  BY <1>1, <1>7 DEF RecursionTo
<1>9. Reduce(rs) = h[n]
  BY <1>0, <1>1, <1>7, ReducesFold DEF one, q
<1> QED
  BY <1>2, <1>8, <1>9

LEMMA RamIsDense ==
  ASSUME NEW cfg \in Configs, ~Failed(RamFromYaml(cfg))
  PROVE  RamFromYaml(cfg).val.kind = "dense"
<1> DEFINE dim == cfg.data_dim
           paths == cfg.data_path
           opened == OpenMemmaps(dim, paths)
<1>1. paths \in Seq(DOMAIN Files)
  BY ConfigsAssumption
<1>2. RamFromYaml(cfg) = IF Failed(opened) THEN opened ELSE ConvertGluedMemmapToRam(opened.val)
  BY DEF RamFromYaml, LoadedFloats
<1>3. ~Failed(opened) /\ RamFromYaml(cfg) = ConvertGluedMemmapToRam(opened.val)
  BY <1>2
<1>4. PICK ss \in Seq(DenseOf(dim)) : opened.val = GluedCloud(ss)
  BY <1>1, <1>3, OpenedDense
<1>5. opened.val.sources = ss
  BY <1>4 DEF GluedCloud
<1>6. Len(ss) \in Nat /\ DOMAIN ss = 1..Len(ss) /\ [k \in 1..Len(ss) |-> ss[k]] = ss
  OBVIOUS
<1>7. RamFromYaml(cfg) = Reduce(ss)
  BY <1>3, <1>5, <1>6, CopiedAll DEF ConvertGluedMemmapToRam
<1> HIDE DEF dim
<1>8. Reduce(ss).val \in DenseOf(dim)
  BY <1>7, ReducedDense
<1> QED
  BY <1>7, <1>8 DEF DenseOf

AreSources(ss) ==
  \/ \E dim : ss \in Seq(DenseOf(dim))
  \/ \E n \in Nat : DOMAIN ss = 1..n /\ \A k \in 1..n : ss[k].kind = "labeled"
GluedOf(ss, as) == [kind |-> "glued", sources |-> ss, addresses |-> as]

Made(c, want) ==
  /\ IsKind(c, "glued") => \E ss : AreSources(ss) /\ c = GluedOf(ss, c.addresses)
  /\ IsKind(c, "sparse") => \E matrix \in Matrices :
                              c = Compressed(matrix) /\ want = Expect(matrix, Unlabeled(matrix))

(* A glued cloud has its sources from files; a sparse one is a matrix, of   *)
(* which the rows are expected.                                            *)
CloudsAreMade == Made(cloud, expected)

LEMMA OpenedMakes ==
  ASSUME NEW cfg, NEW r, NEW open, NEW want, Opened(cfg, r, open, want), ~Failed(r) => Made(r.val, want)
  PROVE  CloudsAreMade'
<1>1. CASE Failed(r)
  <2>1. cloud' = [failed |-> r]
    BY <1>1 DEF Opened
  <2>2. "kind" \notin DOMAIN cloud'
    BY <2>1
  <2> QED
    BY <2>2 DEF CloudsAreMade, Made, IsKind, IsOpen
<1>2. CASE ~Failed(r)
  <2>1. cloud' = r.val /\ expected' = want /\ Made(r.val, want)
    BY <1>2 DEF Opened
  <2> QED
    BY <2>1 DEF CloudsAreMade
<1> QED
  BY <1>1, <1>2

LEMMA PlainMakes ==
  ASSUME NEW c, NEW want, c.kind \in {"dense", "labeled"}
  PROVE  Made(c, want)
BY DEF Made, IsKind

LEMMA GluedMakes ==
  ASSUME NEW ss, NEW want, AreSources(ss)
  PROVE  Made(GluedCloud(ss), want)
<1> DEFINE c == GluedCloud(ss)
<1>1. c = GluedOf(ss, c.addresses) /\ c.kind = "glued"
  BY DEF GluedCloud, GluedOf
<1> HIDE DEF c
<1> QED
  BY <1>1 DEF Made, IsKind, c

LEMMA OpenedLabeled ==
  ASSUME NEW cfg \in Configs, ~Failed(OpenLabeledMemmaps(cfg))
  PROVE  \E ss : AreSources(ss) /\ OpenLabeledMemmaps(cfg).val = GluedCloud(ss)
<1> DEFINE paths == cfg.data_path
           n == Len(paths)
           data(k) == DataMemmapNew(cfg.data_dim, Files[paths[k]])
           labels(k) == VecLabelsOf(cfg.labels_dim, <<cfg.labels_path[k]>>)
           labeled(k) == IF Failed(data(k)) THEN data(k)
                         ELSE IF Failed(labels(k)) THEN IF DropPanics(data(k).val) THEN Panicked ELSE labels(k)
                         ELSE Ok(LabeledCloud(data(k).val, labels(k).val))
           rs == [k \in DOMAIN paths |-> labeled(k)]
           ss == [k \in 1..n |-> rs[k].val]
<1>1. n \in Nat /\ DOMAIN paths = 1..n /\ DOMAIN rs = 1..n
  BY ConfigsAssumption
<1>2. OpenLabeledMemmaps(cfg) = IF Len(paths) # Len(cfg.labels_path) THEN Panicked
                                ELSE IF Failed(CollectMaps(rs)) THEN CollectMaps(rs)
                                ELSE Ok(GluedCloud(CollectMaps(rs).val))
  BY DEF OpenLabeledMemmaps
<1>3. \A k \in 1..n : rs[k] = labeled(k)
  BY <1>1
<1> HIDE DEF rs, n
<1>4. ~Failed(Collect(rs)) /\ OpenLabeledMemmaps(cfg).val = GluedCloud(Collect(rs).val)
  BY <1>2, MapsCollected DEF Ok, Panicked, Failed
<1>5. Collect(rs).val = ss /\ \A k \in 1..n : ~Failed(rs[k])
  BY <1>1, <1>4, CollectedAll
<1>6. \A k \in 1..n : rs[k].val.kind = "labeled"
  <2> SUFFICES ASSUME NEW k \in 1..n PROVE rs[k].val.kind = "labeled"
    OBVIOUS
  <2> HIDE DEF data, labels
  <2>1. rs[k] = Ok(LabeledCloud(data(k).val, labels(k).val))
    BY <1>3, <1>5 DEF Panicked, Failed
  <2> QED
    BY <2>1 DEF Ok, LabeledCloud
<1>7. AreSources(ss)
  BY <1>1, <1>6 DEF AreSources
<1> QED
  BY <1>4, <1>5, <1>7

LEMMA ConvertedMakes ==
  ASSUME NEW c, NEW ss, AreSources(ss), c.sources = ss, \A k \in DOMAIN ss : ss[k].kind = "dense",
         ~Failed(ConvertGluedMemmapToRam(c))
  PROVE  ConvertGluedMemmapToRam(c).val.kind = "dense"
<1> DEFINE rs == [k \in DOMAIN ss |-> ss[k]]
<1>1. ConvertGluedMemmapToRam(c) = Reduce(rs)
  <2>1. PICK n \in Nat : DOMAIN ss = 1..n
    BY DEF AreSources
  <2> QED
    BY <2>1, CopiedAll DEF ConvertGluedMemmapToRam
<1>2. CASE \E dim : ss \in Seq(DenseOf(dim))
  <2>1. PICK dim : ss \in Seq(DenseOf(dim))
    BY <1>2
  <2>2. rs = ss
    BY <2>1
  <2>3. Reduce(ss).val \in DenseOf(dim)
    BY <1>1, <2>1, <2>2, ReducedDense
  <2> QED
    BY <1>1, <2>2, <2>3 DEF DenseOf
<1>3. CASE \E n \in Nat : DOMAIN ss = 1..n /\ \A k \in 1..n : ss[k].kind = "labeled"
  <2>1. PICK n \in Nat : DOMAIN ss = 1..n /\ \A k \in 1..n : ss[k].kind = "labeled"
    BY <1>3
  <2>2. n = 0
    <3> SUFFICES ASSUME n # 0 PROVE FALSE
      OBVIOUS
    <3>1. 1 \in 1..n
      OBVIOUS
    <3>2. ss[1].kind = "labeled" /\ ss[1].kind = "dense"
      BY <2>1, <3>1
    <3> QED
      BY <3>2
  <2>3. rs = <<>>
    BY <2>1, <2>2
  <2>4. Reduce(rs) = Panicked
    BY <2>3 DEF Reduce
  <2> QED
    BY <1>1, <2>4 DEF Panicked, Failed
<1> QED
  BY <1>2, <1>3 DEF AreSources

LEMMA MadeStep ==
  ASSUME CloudsAreMade, [Next]_vars
  PROVE  CloudsAreMade'
<1>1. ASSUME NEW cfg \in Configs, OpenGlued(cfg) PROVE CloudsAreMade'
  <2> DEFINE r == OpenMemmaps(cfg.data_dim, cfg.data_path)
             want == ExpectPoints(cfg, FALSE)
  <2>1. Opened(cfg, r, MapsOf(cfg.data_path), want)
    BY <1>1 DEF OpenGlued
  <2>2. ~Failed(r) => Made(r.val, want)
    <3> SUFFICES ASSUME ~Failed(r) PROVE Made(r.val, want)
      OBVIOUS
    <3>1. PICK ss \in Seq(DenseOf(cfg.data_dim)) : r.val = GluedCloud(ss)
      BY ConfigsAssumption, OpenedDense
    <3>2. AreSources(ss)
      BY DEF AreSources
    <3> HIDE DEF r, want
    <3> QED
      BY <3>1, <3>2, GluedMakes
  <2> HIDE DEF r, want
  <2> QED
    BY <2>1, <2>2, OpenedMakes
<1>2. ASSUME NEW cfg \in Configs, OpenGluedLabeled(cfg) PROVE CloudsAreMade'
  <2> DEFINE r == OpenLabeledMemmaps(cfg)
             want == IF FileByFile(cfg) THEN ExpectLabels(cfg, VecLabelRows(cfg), {}) ELSE NoCloud
  <2>1. Opened(cfg, r, MapsOf(cfg.data_path), want)
    BY <1>2 DEF OpenGluedLabeled
  <2>2. ~Failed(r) => Made(r.val, want)
    <3> SUFFICES ASSUME ~Failed(r) PROVE Made(r.val, want)
      OBVIOUS
    <3>1. PICK ss : AreSources(ss) /\ r.val = GluedCloud(ss)
      BY OpenedLabeled
    <3> HIDE DEF r, want
    <3> QED
      BY <3>1, GluedMakes
  <2> HIDE DEF r, want
  <2> QED
    BY <2>1, <2>2, OpenedMakes
<1>3. ASSUME NEW cfg, NEW r, NEW want, Opened(cfg, r, {}, want),
             ~Failed(r) => r.val.kind \in {"dense", "labeled"}
      PROVE  CloudsAreMade'
  <2>1. ~Failed(r) => Made(r.val, want)
    BY <1>3, PlainMakes
  <2> QED
    BY <1>3, <2>1, OpenedMakes
<1>4. ASSUME NEW cfg \in Configs, LoadRam(cfg) PROVE CloudsAreMade'
  <2>1. Opened(cfg, RamFromYaml(cfg), {}, ExpectPoints(cfg, TRUE))
    BY <1>4 DEF LoadRam
  <2>2. ~Failed(RamFromYaml(cfg)) => RamFromYaml(cfg).val.kind \in {"dense", "labeled"}
    BY RamIsDense
  <2> QED
    BY <2>1, <2>2, <1>3
<1>5. ASSUME NEW cfg \in Configs, LoadLabeledRam(cfg) PROVE CloudsAreMade'
  <2> DEFINE r == LabeledRamFromYaml(cfg)
             want == ExpectLabels(cfg, IntLabelRows(cfg), Doubts(cfg))
  <2>1. Opened(cfg, r, {}, want)
    BY <1>5 DEF LoadLabeledRam
  <2>2. ~Failed(r) => r.val.kind \in {"dense", "labeled"}
    BY DEF LabeledRamFromYaml, Ok, LabeledCloud
  <2> HIDE DEF r, want
  <2> QED
    BY <2>1, <2>2, <1>3
<1>6. ASSUME NEW cfg \in Configs, LoadVecLabeledRam(cfg) PROVE CloudsAreMade'
  <2> DEFINE r == VecLabeledRamFromYaml(cfg)
             want == IF WholeLabels(cfg) THEN ExpectLabels(cfg, VecLabelRows(cfg), {}) ELSE NoCloud
  <2>1. Opened(cfg, r, {}, want)
    BY <1>6 DEF LoadVecLabeledRam
  <2>2. ~Failed(r) => r.val.kind \in {"dense", "labeled"}
    BY DEF VecLabeledRamFromYaml, Ok, LabeledCloud
  <2> HIDE DEF r, want
  <2> QED
    BY <2>1, <2>2, <1>3
<1>7. ASSUME NEW matrix \in Matrices, NewSimple(matrix) PROVE CloudsAreMade'
  <2> DEFINE labels == [k \in DOMAIN matrix |-> matrix[k][1]]
             r == Ok(LabeledCloud(DataRamNew(FlattenSeq(matrix), Len(matrix[1])).val, IntLabels(labels, NoMask)))
             want == Expect(matrix, labels)
  <2>1. Opened(NoCloud, r, {}, want)
    BY <1>7 DEF NewSimple
  <2>2. ~Failed(r) => r.val.kind \in {"dense", "labeled"}
    BY DEF Ok, LabeledCloud
  <2> HIDE DEF r, want
  <2> QED
    BY <2>1, <2>2, <1>3
<1>8. ASSUME NEW matrix \in Matrices, NewSparse(matrix) PROVE CloudsAreMade'
  <2>1. cloud' = Compressed(matrix) /\ expected' = Expect(matrix, Unlabeled(matrix))
    BY <1>8 DEF NewSparse
  <2>2. cloud'.kind = "sparse"
    BY <2>1 DEF Compressed, SparseDataNew
  <2> QED
    BY <2>1, <2>2 DEF CloudsAreMade, Made, IsKind
<1>9. ASSUME NEW cfg \in Configs, MergeRam(cfg) PROVE CloudsAreMade'
  <2> DEFINE other == RamFromYaml(cfg)
             r == DataRamMerge(cloud, other.val)
             want == IF expected = NoCloud \/ ~WholePoints(cfg) THEN NoCloud
                     ELSE Expect([k \in DOMAIN expected.rows |-> expected.rows[k].point] \o AllRows(cfg),
                                 Unlabeled(expected.rows \o AllRows(cfg)))
  <2>1. Opened(NoCloud, r, {}, want) /\ "kind" \in DOMAIN cloud /\ cloud.kind = "dense"
    BY <1>9 DEF MergeRam, IsKind, IsOpen
  <2>2. ~Failed(r) => r.val.kind \in {"dense", "labeled"}
    <3> HIDE DEF other
    <3> QED
      BY <2>1 DEF DataRamMerge, Panicked, Failed, Ok
  <2> HIDE DEF r, want
  <2> QED
    BY <2>1, <2>2, <1>3
<1>10. CASE Convert
  <2> DEFINE r == ConvertGluedMemmapToRam(cloud)
             want == IF expected = NoCloud \/ \E k \in DOMAIN cloud.sources :
                        Len(cloud.sources[k].data) % cloud.sources[k].dim # 0 THEN NoCloud
                     ELSE [expected EXCEPT !.origin = Identity(Len(expected.rows))]
  <2>1. /\ IsKind(cloud, "glued") /\ \A k \in DOMAIN cloud.sources : cloud.sources[k].kind = "dense"
        /\ Opened(NoCloud, r, {}, want)
    BY <1>10 DEF Convert
  <2>2. PICK ss : AreSources(ss) /\ cloud = GluedOf(ss, cloud.addresses)
    BY <2>1 DEF CloudsAreMade, Made
  <2>3. cloud.sources = ss
    BY <2>2 DEF GluedOf
  <2>4. ~Failed(r) => r.val.kind \in {"dense", "labeled"}
    BY <2>1, <2>2, <2>3, ConvertedMakes
  <2> HIDE DEF r, want
  <2> QED
    BY <2>1, <2>4, <1>3
<1>11. ASSUME NEW pairs \in Reindexings, Reindex(pairs) PROVE CloudsAreMade'
  <2>1. CASE Opened(NoCloud, Panicked, {}, NoCloud)
    <3>1. Failed(Panicked)
      BY DEF Failed, Panicked
    <3> QED
      BY <2>1, <3>1, <1>3
  <2>2. CASE UNCHANGED vars
    BY <2>2 DEF vars, CloudsAreMade
  <2>3. CASE cloud' = [cloud EXCEPT !.addresses = Readdressed(cloud, pairs)]
    <3> DEFINE as == Readdressed(cloud, pairs)
    <3>1. IsKind(cloud, "glued")
      BY <1>11 DEF Reindex
    <3>2. PICK ss : AreSources(ss) /\ cloud = GluedOf(ss, cloud.addresses)
      BY <3>1 DEF CloudsAreMade, Made
    <3> HIDE DEF as
    <3>3. cloud' = [cloud EXCEPT !.addresses = as]
      BY <2>3 DEF as
    <3>4. cloud' = GluedOf(ss, as)
      <4> DEFINE old == cloud.addresses
      <4>1. cloud = [kind |-> "glued", sources |-> ss, addresses |-> old]
        BY <3>2 DEF GluedOf
      <4> HIDE DEF old
      <4>2. cloud' = [kind |-> "glued", sources |-> ss, addresses |-> as]
        BY <3>3, <4>1
      <4> QED
        BY <4>2 DEF GluedOf
    <3>5. cloud'.kind = "glued" /\ cloud'.addresses = as
      BY <3>4 DEF GluedOf
    <3> QED
      BY <3>2, <3>4, <3>5 DEF CloudsAreMade, Made, IsKind
  <2> QED
    BY <1>11, <2>1, <2>2, <2>3 DEF Reindex
<1>12. CASE Close
  <2>1. ~IsOpen(cloud')
    BY <1>12 DEF Close, IsOpen
  <2> QED
    BY <2>1 DEF CloudsAreMade, Made, IsKind
<1>13. CASE UNCHANGED vars
  BY <1>13 DEF CloudsAreMade, vars
<1> QED
  BY <1>1, <1>2, <1>4, <1>5, <1>6, <1>7, <1>8, <1>9, <1>10, <1>11, <1>12, <1>13 DEF Next

(* The rows of a compressed matrix lie as far apart as their dense rows,    *)
(* whichever stores more, whatever base type their words have and wherever *)
(* their coordinates fall in the lanes, and spread out to them             *)
(* (metrics/, SparseRef::dense, moment_1).                                 *)
THEOREM SparseRowsAreDense == Spec => []SparseIsDense
<1>1. Init => CloudsAreMade
  BY DEF Init, CloudsAreMade, Made, IsKind, IsOpen
<1>2. CloudsAreMade /\ [Next]_vars => CloudsAreMade'
  BY MadeStep
<1>3. CloudsAreMade => SparseIsDense
  <2> SUFFICES ASSUME CloudsAreMade, IsKnown, cloud.kind = "sparse" PROVE SparseAgrees(cloud, expected)
    BY DEF SparseIsDense, SparseAgrees
  <2>1. PICK matrix \in Matrices : cloud = Compressed(matrix) /\ expected = Expect(matrix, Unlabeled(matrix))
    BY DEF CloudsAreMade, Made, IsKind, IsKnown
  <2> QED
    BY <2>1, CompressedAgrees
<1> QED
  BY <1>1, <1>2, <1>3, PTL DEF Spec

-----------------------------------------------------------------------------
(* Pieces after one another, and where each begins.                        *)
SolvesEnds(n, lens, h) == h = [k \in 0..n |-> IF k = 0 THEN 0 ELSE h[k - 1] + lens[k]]

LEMMA EndsExist ==
  ASSUME NEW n \in Nat, NEW lens \in [1..n -> Nat]
  PROVE  \E h : SolvesEnds(n, lens, h)
<1> DEFINE g == [nx \in (1..n) \X Nat |-> nx[2] + lens[nx[1]]]
<1>1. ASSUME NEW k \in 1..n, NEW x \in Nat
      PROVE  g[<<k, x>>] = x + lens[k] /\ g[<<k, x>>] \in Nat
  <2>1. <<k, x>> \in (1..n) \X Nat /\ lens[k] \in Nat
    OBVIOUS
  <2> QED
    BY <2>1
<1> HIDE DEF g
<1>2. StepsIn(g, Nat, n)
  BY <1>1 DEF StepsIn
<1>3. PICK f : RecursionTo(n, f, Nat, 0, g)
  BY <1>2, RecursionUpTo
<1>4. f \in [0..n -> Nat] /\ f[0] = 0 /\ \A k \in 1..n : f[k] = g[<<k, f[k - 1]>>]
  BY <1>3 DEF RecursionTo
<1>5. ASSUME NEW k \in 1..n PROVE f[k] = f[k - 1] + lens[k]
  <2>1. k - 1 \in 0..n
    OBVIOUS
  <2>2. f[k - 1] \in Nat
    BY <2>1, <1>4
  <2> QED
    BY <2>2, <1>1, <1>4
<1>6. \A k \in 0..n : k = 0 \/ k \in 1..n
  OBVIOUS
<1>7. \A k \in 0..n : f[k] = IF k = 0 THEN 0 ELSE f[k - 1] + lens[k]
  BY <1>4, <1>5, <1>6
<1>8. f = [k \in 0..n |-> f[k]]
  BY <1>4
<1> QED
  BY <1>7, <1>8 DEF SolvesEnds

Ends(n, lens, h) ==
  /\ n \in Nat /\ lens \in [1..n -> Nat] /\ h[0] = 0
  /\ \A k \in 0..n : h[k] \in Nat
  /\ \A k \in 1..n : h[k] = h[k - 1] + lens[k]

LEMMA SolvedEnds ==
  ASSUME NEW n \in Nat, NEW lens \in [1..n -> Nat], NEW h, SolvesEnds(n, lens, h)
  PROVE  Ends(n, lens, h)
<1>1. \A k \in 0..n : h[k] = IF k = 0 THEN 0 ELSE h[k - 1] + lens[k]
  <2> DEFINE rhs(k) == IF k = 0 THEN 0 ELSE h[k - 1] + lens[k]
  <2>1. h = [k \in 0..n |-> rhs(k)]
    BY DEF SolvesEnds
  <2> HIDE DEF rhs
  <2>2. \A k \in 0..n : h[k] = rhs(k)
    BY <2>1
  <2> QED
    BY <2>2 DEF rhs
<1>2. h[0] = 0 /\ \A k \in 1..n : h[k] = h[k - 1] + lens[k]
  <2>1. 0 \in 0..n /\ \A k \in 1..n : k \in 0..n /\ k # 0
    OBVIOUS
  <2> QED
    BY <2>1, <1>1
<1> DEFINE P == {k \in Nat : k <= n => h[k] \in Nat}
<1>3. P = Nat
  <2>1. 0 \in P
    BY <1>2
  <2>2. ASSUME NEW k \in P PROVE k + 1 \in P
    <3>1. CASE k + 1 <= n
      <4>1. k + 1 \in 1..n /\ (k + 1) - 1 = k /\ k <= n /\ k + 1 \in Nat
        BY <3>1
      <4>2. h[k + 1] = h[k] + lens[k + 1] /\ lens[k + 1] \in Nat /\ h[k] \in Nat
        BY <4>1, <1>2
      <4> QED
        BY <4>1, <4>2
    <3>2. CASE ~(k + 1 <= n)
      BY <3>2
    <3> QED
      BY <3>1, <3>2
  <2>3. P \in SUBSET Nat
    OBVIOUS
  <2> HIDE DEF P
  <2> QED
    BY <2>1, <2>2, <2>3, AllNaturals
<1>4. \A k \in 0..n : h[k] \in Nat
  BY <1>3
<1> QED
  BY <1>2, <1>4 DEF Ends

(* Each number below the last end is in one piece.                         *)
LEMMA PlaceIn ==
  ASSUME NEW n, NEW lens, NEW ends, Ends(n, lens, ends), NEW p \in Nat, p < ends[n]
  PROVE  \E k \in 1..n : /\ ends[k - 1] <= p /\ p < ends[k]
                         /\ \A j \in 0..(k - 1) : ends[j] <= p
<1> DEFINE T == {k \in Nat : k <= n /\ p < ends[k]}
<1>1. n \in T
  BY DEF Ends
<1>2. PICK k \in T : \A m \in T : k <= m
  <2>1. T \in SUBSET Nat /\ T # {}
    BY <1>1
  <2> HIDE DEF T
  <2> QED
    BY <2>1, LeastNatural
<1>3. k \in Nat /\ k <= n /\ p < ends[k] /\ n \in Nat
  BY DEF Ends
<1>4. \A j \in 0..(k - 1) : ends[j] <= p
  <2> SUFFICES ASSUME NEW j \in 0..(k - 1) PROVE ends[j] <= p
    OBVIOUS
  <2>1. j \in Nat /\ j <= n /\ j \in 0..n /\ j < k
    BY <1>3
  <2>2. j \notin T
    BY <1>2, <2>1
  <2>3. ends[j] \in Nat
    BY <2>1 DEF Ends
  <2> QED
    BY <2>1, <2>2, <2>3
<1>5. k # 0
  BY <1>3 DEF Ends
<1>6. k \in 1..n /\ k - 1 \in 0..(k - 1)
  BY <1>3, <1>5
<1> QED
  BY <1>3, <1>4, <1>6

LEMMA EndsGrow ==
  ASSUME NEW n, NEW lens, NEW ends, Ends(n, lens, ends), NEW i \in 0..n, NEW j \in i..n
  PROVE  ends[i] <= ends[j]
<1> DEFINE P == {d \in Nat : i + d <= n => ends[i] <= ends[i + d]}
<1>0. n \in Nat /\ i \in Nat /\ j \in Nat /\ j - i \in Nat
  BY DEF Ends
<1>1. 0 \in P
  <2>1. i + 0 = i /\ ends[i] \in Nat
    BY <1>0 DEF Ends
  <2> QED
    BY <2>1
<1>2. ASSUME NEW d \in P PROVE d + 1 \in P
  <2>1. CASE i + (d + 1) <= n
    <3> DEFINE k == i + (d + 1)
    <3>1. k \in 1..n /\ k - 1 = i + d /\ i + d <= n /\ k - 1 \in 0..n /\ k \in 0..n /\ i \in 0..n
      BY <1>0, <2>1
    <3> HIDE DEF k
    <3>2. ends[k] = ends[k - 1] + lens[k] /\ lens[k] \in Nat /\ ends[k - 1] \in Nat /\ ends[i] \in Nat
      BY <3>1 DEF Ends
    <3>3. ends[i] <= ends[k - 1]
      BY <3>1
    <3>4. ends[i] <= ends[k]
      BY <3>2, <3>3
    <3> QED
      BY <3>4 DEF k
  <2>2. CASE ~(i + (d + 1) <= n)
    BY <2>2
  <2> QED
    BY <2>1, <2>2
<1>3. P = Nat
  <2>1. P \in SUBSET Nat
    OBVIOUS
  <2> HIDE DEF P
  <2> QED
    BY <1>1, <1>2, <2>1, AllNaturals
<1>4. j - i \in P
  <2> HIDE DEF P
  <2> QED
    BY <1>0, <1>3
<1>5. i + (j - i) = j /\ j <= n
  BY <1>0
<1> QED
  BY <1>4, <1>5

LEMMA SumIsEnd ==
  ASSUME NEW n, NEW lens, NEW ends, Ends(n, lens, ends)
  PROVE  SumFunctionOnSet(lens, 1..n) = ends[n]
<1> DEFINE P == {m \in Nat : m <= n => SumFunctionOnSet(lens, 1..m) = ends[m]}
<1>0. n \in Nat /\ \A k \in 1..n : lens[k] \in Nat
  BY DEF Ends
<1>1. 0 \in P
  <2>1. 1..0 = {}
    OBVIOUS
  <2> QED
    BY <2>1, SumOfNone DEF Ends
<1>2. ASSUME NEW m \in P PROVE m + 1 \in P
  <2>1. CASE m + 1 <= n
    <3>1. /\ m \in Nat /\ m + 1 \in 1..n /\ (m + 1) - 1 = m /\ m <= n
          /\ (1..m) \cup {m + 1} = 1..(m + 1) /\ m + 1 \notin 1..m
          /\ \A y \in (1..m) \cup {m + 1} : y \in 1..n
      BY <2>1, <1>0
    <3>2. IsFiniteSet(1..m)
      BY <3>1, FS_Interval
    <3>3. \A y \in (1..m) \cup {m + 1} : lens[y] \in Int
      BY <3>1, <1>0
    <3>4. SumFunctionOnSet(lens, (1..m) \cup {m + 1}) = SumFunctionOnSet(lens, 1..m) + lens[m + 1]
      BY <3>1, <3>2, <3>3, SumWith
    <3>5. ends[m + 1] = ends[m] + lens[m + 1]
      BY <3>1 DEF Ends
    <3>6. SumFunctionOnSet(lens, 1..(m + 1)) = ends[m + 1]
      <4>1. SumFunctionOnSet(lens, 1..m) = ends[m]
        BY <3>1
      <4> QED
        BY <3>1, <3>4, <3>5, <4>1
    <3> QED
      BY <3>1, <3>6
  <2>2. CASE ~(m + 1 <= n)
    BY <2>2
  <2> QED
    BY <2>1, <2>2
<1>3. P = Nat
  <2>1. P \in SUBSET Nat
    OBVIOUS
  <2> HIDE DEF P
  <2> QED
    BY <1>1, <1>2, <2>1, AllNaturals
<1> QED
  BY <1>0, <1>3

(* A sequence whose pieces are those of ss, one after another.             *)
LaidOut(ss, n, ends, flat) ==
  /\ Ends(n, [k \in 1..n |-> Len(ss[k])], ends) /\ DOMAIN ss = 1..n
  /\ Len(flat) = ends[n]
  /\ \A k \in 1..n : \A e \in 1..Len(ss[k]) : flat[ends[k - 1] + e] = ss[k][e]

LEMMA FlattenedIsLaidOut ==
  ASSUME NEW B, NEW n \in Nat, NEW ss \in [1..n -> Seq(B)], NEW ends, NEW lens,
         Ends(n, lens, ends), \A k \in 1..n : lens[k] = Len(ss[k])
  PROVE  FlattenSeq(ss) \in Seq(B) /\ LaidOut(ss, n, ends, FlattenSeq(ss))
<1>1. lens = [k \in 1..n |-> Len(ss[k])]
  BY DEF Ends
<1>2. CASE n = 0
  <2>1. ss = <<>>
    BY <1>2
  <2>2. FlattenSeq(ss) = <<>>
    BY <2>1, FlattenNone
  <2>3. 1..n = {} /\ ends[n] = 0
    BY <1>2 DEF Ends
  <2>4. Ends(n, [k \in 1..n |-> Len(ss[k])], ends)
    BY <1>1
  <2>5. DOMAIN ss = 1..n
    OBVIOUS
  <2>6. FlattenSeq(ss) \in Seq(B) /\ Len(FlattenSeq(ss)) = 0
    BY <2>2
  <2> QED
    BY <2>3, <2>4, <2>5, <2>6 DEF LaidOut
<1>3. CASE n # 0
  <2>1. Segments(B, n, ss, ends)
    BY <1>3 DEF Segments, Ends
  <2>2. FlattenSeq(ss) \in Seq(B) /\ Laid(ss, ends, n, FlattenSeq(ss))
    BY <2>1, FlattenLays
  <2> HIDE <1>1
  <2> QED
    BY <1>1, <2>2 DEF Laid, LaidOut
<1> QED
  BY <1>2, <1>3

(* A place in them is a place in one of them.                              *)
HasPlace(ss, n, ends, flat, p) ==
  \E k \in 1..n : \E e \in 1..Len(ss[k]) : p = ends[k - 1] + e /\ ends[k - 1] \in Nat /\ flat[p] = ss[k][e]

LEMMA PlaceOf ==
  ASSUME NEW ss, NEW n, NEW ends, NEW flat, LaidOut(ss, n, ends, flat), NEW p \in 1..Len(flat)
  PROVE  HasPlace(ss, n, ends, flat, p)
<1> DEFINE lens == [k \in 1..n |-> Len(ss[k])]
<1>1. Ends(n, lens, ends) /\ Len(flat) = ends[n] /\ \A k \in 1..n : lens[k] = Len(ss[k])
  BY DEF LaidOut
<1> HIDE DEF lens
<1>2. ends[n] \in Nat /\ p - 1 \in Nat /\ p - 1 < ends[n] /\ p \in Nat
  <2>1. n \in 0..n
    BY <1>1 DEF Ends
  <2>2. ends[n] \in Nat
    BY <1>1, <2>1 DEF Ends
  <2> QED
    BY <1>1, <2>2
<1>3. PICK k \in 1..n : ends[k - 1] <= p - 1 /\ p - 1 < ends[k]
  BY <1>1, <1>2, PlaceIn
<1>4. ends[k] = ends[k - 1] + Len(ss[k]) /\ ends[k - 1] \in Nat /\ Len(ss[k]) \in Nat
  <2>1. k - 1 \in 0..n
    BY <1>1 DEF Ends
  <2>2. ends[k] = ends[k - 1] + lens[k] /\ ends[k - 1] \in Nat /\ lens[k] \in Nat
    BY <1>1, <2>1 DEF Ends
  <2> QED
    BY <1>1, <2>2
<1> DEFINE e == p - ends[k - 1]
<1>5. e \in 1..Len(ss[k]) /\ p = ends[k - 1] + e
  BY <1>2, <1>3, <1>4
<1> HIDE DEF e
<1> QED
  BY <1>4, <1>5 DEF LaidOut, HasPlace

-----------------------------------------------------------------------------
(* Rows of floats.                                                         *)
Block(floats, dim, i) == SubSeq(floats, dim * i + 1, dim * i + dim)
Points(dim) == {x \in Seq(Int) : Len(x) = dim}

LEMMA TimesMonotone ==
  ASSUME NEW d \in Nat, NEW a \in Int, NEW b \in Int, a <= b
  PROVE  d * a <= d * b /\ d * a \in Int /\ d * b \in Int
<1> DEFINE k == b - a
<1>1. k \in Nat /\ b = a + k
  OBVIOUS
<1> HIDE DEF k
<1>2. d * (a + k) = d * a + d * k
  BY <1>1
<1>3. d * k \in Nat /\ d * a \in Int
  BY <1>1
<1>4. d * b = d * a + d * k
  BY <1>1, <1>2
<1> QED
  BY <1>3, <1>4

LEMMA BlocksFit ==
  ASSUME NEW d \in Nat \ {0}, NEW L \in Nat, NEW k \in Nat
  PROVE  /\ d * k \in Nat /\ L \div d \in Nat
         /\ k <= L \div d => d * k <= L
         /\ d * k <= L => k <= L \div d
<1> DEFINE q == L \div d
<1>1. q \in Nat /\ d * q <= L /\ L < d * q + d /\ d * q \in Nat
  BY DivOf
<1> HIDE DEF q
<1>2. d * k \in Nat
  OBVIOUS
<1>3. k <= q => d * k <= L
  <2> SUFFICES ASSUME k <= q PROVE d * k <= L
    OBVIOUS
  <2>1. d * k <= d * q
    BY <1>1, TimesMonotone
  <2> DEFINE x == d * k
             y == d * q
  <2> HIDE DEF x, y
  <2>2. x \in Nat /\ y \in Nat /\ x <= y /\ y <= L
    BY <1>1, <1>2, <2>1 DEF x, y
  <2>3. x <= L
    BY <2>2
  <2> QED
    BY <2>3 DEF x
<1>4. d * k <= L => k <= q
  <2> SUFFICES ASSUME d * k <= L PROVE k <= q
    OBVIOUS
  <2> DEFINE x == d * k
             y == d * q
  <2>1. x < y + d
    <3> HIDE DEF x, y
    <3>1. x \in Nat /\ y \in Nat /\ x <= L /\ L < y + d
      BY <1>1, <1>2 DEF x, y
    <3> QED
      BY <3>1
  <2> QED
    BY <1>1, <2>1, DivUnique
<1> QED
  BY <1>1, <1>2, <1>3, <1>4 DEF q

LEMMA NextBlock ==
  ASSUME NEW d \in Nat, NEW i \in Int
  PROVE  d * (i + 1) = d * i + d /\ d * i \in Int
OBVIOUS

LEMMA BlockIs ==
  ASSUME NEW floats \in Seq(Int), NEW d \in Nat, NEW i \in Nat, d * i + d <= Len(floats)
  PROVE  /\ Block(floats, d, i) \in Points(d)
         /\ \A e \in 1..d : Block(floats, d, i)[e] = floats[d * i + e]
<1> DEFINE a == d * i
           n == Len(floats)
<1>1. a \in Nat /\ n \in Nat /\ \A m \in 1..n : floats[m] \in Int
  OBVIOUS
<1>2. a + d <= n
  OBVIOUS
<1>3. Block(floats, d, i) = SubSeq(floats, a + 1, a + d)
  BY DEF Block
<1> HIDE DEF a, n
<1>4. SubSeq(floats, a + 1, a + d) = [m \in 1..d |-> floats[(a + 1) + m - 1]]
  <2> DEFINE b == a + d
  <2>1. b \in Nat /\ b <= Len(floats) /\ b - a = d
    BY <1>1, <1>2 DEF n
  <2> HIDE DEF b
  <2>2. SubSeq(floats, a + 1, b) = [m \in 1..(b - a) |-> floats[(a + 1) + m - 1]]
    BY <1>1, <2>1
  <2> QED
    BY <2>1, <2>2 DEF b
<1>5. \A m \in 1..d : (a + 1) + m - 1 = a + m /\ a + m \in 1..n
  BY <1>1, <1>2
<1>6. SubSeq(floats, a + 1, a + d) = [m \in 1..d |-> floats[a + m]]
  BY <1>4, <1>5
<1>7. [m \in 1..d |-> floats[a + m]] \in Points(d)
  BY <1>1, <1>5 DEF Points
<1> QED
  BY <1>3, <1>6, <1>7 DEF a

LEMMA RowsAre ==
  ASSUME NEW floats \in Seq(Int), NEW d \in Nat \ {0}
  PROVE  /\ Rows(floats, d) \in Seq(Points(d)) /\ Len(Rows(floats, d)) = Len(floats) \div d
         /\ Len(floats) \div d \in Nat
         /\ \A k \in 1..(Len(floats) \div d) : Rows(floats, d)[k] = Block(floats, d, k - 1)
<1> DEFINE n == Len(floats) \div d
<1>1. n \in Nat /\ Rows(floats, d) = [k \in 1..n |-> SubSeq(floats, d * (k - 1) + 1, d * k)]
  <2>1. Len(floats) \in Nat
    OBVIOUS
  <2> QED
    BY <2>1, DivOf DEF Rows
<1>2. ASSUME NEW k \in 1..n
      PROVE  SubSeq(floats, d * (k - 1) + 1, d * k) = Block(floats, d, k - 1) /\ Block(floats, d, k - 1) \in Points(d)
  <2> DEFINE i == k - 1
  <2>0. k \in Nat /\ i \in Nat /\ k = i + 1 /\ d * k <= Len(floats)
    <3>1. k \in Nat /\ k <= n /\ Len(floats) \in Nat
      BY <1>1
    <3>2. d * k <= Len(floats)
      BY <3>1, BlocksFit
    <3> QED
      BY <3>1, <3>2, <1>1
  <2> HIDE DEF i
  <2>1. d * (i + 1) = d * i + d
    BY <2>0, NextBlock
  <2>2. d * k = d * i + d
    BY <2>0, <2>1
  <2>3. Block(floats, d, i) \in Points(d)
    BY <2>0, <2>2, BlockIs
  <2>4. SubSeq(floats, d * i + 1, d * k) = Block(floats, d, i)
    BY <2>2 DEF Block
  <2> QED
    BY <2>3, <2>4 DEF i
<1> HIDE DEF n
<1>3. Rows(floats, d) = [k \in 1..n |-> Block(floats, d, k - 1)]
  BY <1>1, <1>2
<1>4. Rows(floats, d) \in Seq(Points(d)) /\ Len(Rows(floats, d)) = n
  <2> DEFINE P == Points(d)
             w == [k \in 1..n |-> Block(floats, d, k - 1)]
  <2>1. w \in [1..n -> P]
    BY <1>2
  <2> HIDE DEF P, w
  <2>2. w \in Seq(P) /\ Len(w) = n
    BY <1>1, <2>1
  <2> QED
    BY <1>3, <2>2 DEF P, w
<1> QED
  BY <1>1, <1>3, <1>4 DEF n

(* point(), within a dense source and past its end.                        *)
LEMMA DensePointIs ==
  ASSUME NEW dim \in Nat \ {0}, NEW s \in DenseOf(dim), NEW i \in Nat
  PROVE  /\ DenseLen(s) \in Nat
         /\ i < DenseLen(s) => DensePoint(s, i) = Ok(Block(s.data, dim, i)) /\ Block(s.data, dim, i) \in Points(dim)
         /\ i >= DenseLen(s) => DensePoint(s, i) = Err(DataAccessError(i))
<1> DEFINE n == Len(s.data)
           a == dim * i
<1>1. s.dim = dim /\ s.data \in Seq(Int) /\ n \in Nat
  BY DEF DenseOf
<1>2. DenseLen(s) = n \div dim
  BY <1>1 DEF DenseLen
<1>3. dim * (i + 1) = a + dim /\ a \in Nat
  BY NextBlock
<1>4. DensePoint(s, i) = IF a + dim > n THEN Err(DataAccessError(i)) ELSE Ok(Block(s.data, dim, i))
  BY <1>1 DEF DensePoint, Block
<1>5. n \div dim \in Nat /\ (i + 1 <= n \div dim => a + dim <= n) /\ (a + dim <= n => i + 1 <= n \div dim)
  <2> DEFINE k == i + 1
  <2>1. k \in Nat /\ dim * k = a + dim
    BY <1>3
  <2> HIDE DEF k
  <2>2. n \div dim \in Nat /\ (k <= n \div dim => dim * k <= n) /\ (dim * k <= n => k <= n \div dim)
    <3> HIDE DEF n, a
    <3> QED
      BY <1>1, <2>1, BlocksFit
  <2> QED
    BY <2>1, <2>2 DEF k
<1>6. a + dim <= n => Block(s.data, dim, i) \in Points(dim)
  BY <1>1, BlockIs
<1> HIDE DEF a, n
<1>7. \/ i < n \div dim /\ i + 1 <= n \div dim /\ ~(i >= n \div dim) /\ ~(a + dim > n)
      \/ i >= n \div dim /\ ~(i + 1 <= n \div dim) /\ ~(i < n \div dim) /\ a + dim > n
  BY <1>1, <1>3, <1>5
<1> QED
  BY <1>2, <1>4, <1>5, <1>6, <1>7

-----------------------------------------------------------------------------
(* What reduce makes of sources that merge with one another.               *)
Merging(X) == \A a \in X : \A b \in X : MergeOf(a, b) \in {Ok(c) : c \in X}
MergedSoFar(rs, h) ==
  /\ h[1] = rs[1]
  /\ \A i \in 2..Len(rs) : MergeOf(h[i - 1], rs[i]) = Ok(h[i])

LEMMA ReducesTo ==
  ASSUME NEW X, Merging(X), NEW rs \in Seq(X), rs # <<>>
  PROVE  \E h \in [1..Len(rs) -> X] : MergedSoFar(rs, h) /\ Reduce(rs) = Ok(h[Len(rs)])
<1> DEFINE q == Tail(rs)
           n == Len(q)
           Y == {Ok(c) : c \in X}
           base == Ok(rs[1])
           next(x, i) == IF Failed(x) THEN x ELSE MergeOf(x.val, q[i])
           g == [ix \in (1..n) \X Y |-> next(ix[2], ix[1])]
<1>1. n \in Nat /\ DOMAIN q = 1..n /\ q \in Seq(X) /\ rs[1] \in X
      /\ Len(rs) = n + 1 /\ \A i \in 1..n : q[i] = rs[i + 1]
  OBVIOUS
<1>2. base \in Y /\ \A x \in Y : ~Failed(x) /\ x.val \in X /\ x = Ok(x.val)
  BY <1>1 DEF Ok, Failed
<1>3. \A x \in Y : \A i \in 1..n : next(x, i) \in Y /\ next(x, i) = MergeOf(x.val, q[i])
  <2> SUFFICES ASSUME NEW x \in Y, NEW i \in 1..n
               PROVE  next(x, i) \in Y /\ next(x, i) = MergeOf(x.val, q[i])
    OBVIOUS
  <2>1. x.val \in X /\ ~Failed(x)
    BY <1>2
  <2>2. q[i] \in X
    BY <1>1
  <2>3. MergeOf(x.val, q[i]) \in Y
    BY <2>1, <2>2 DEF Merging
  <2> QED
    BY <2>1, <2>3
<1> HIDE DEF q, n, Y, base
<1>4. \A i \in 1..n, x \in Y : g[<<i, x>>] = next(x, i)
  OBVIOUS
<1> HIDE DEF g
<1>5. StepsIn(g, Y, n)
  BY <1>3, <1>4 DEF StepsIn
<1> DEFINE one == CHOOSE it : Reduces(rs, it)
<1>6. ASSUME NEW fold \in [SUBSET (1..n) -> Y], Folding(n, fold, base, g)
      PROVE  FoldsIn(n, one, Y, base, g)
  <2>1. \A k \in SUBSET (1..n) : k # {} => Max(k) \in 1..n /\ k \ {Max(k)} \in SUBSET (1..n)
    BY <1>1, MaxOfIndices
  <2>2. \A k \in SUBSET (1..n) :
          fold[k] = IF k = {} THEN base ELSE next(fold[k \ {Max(k)}], Max(k))
    <3> HIDE DEF next
    <3> QED
      BY <1>4, <1>6, <2>1 DEF Folding
  <2>3. Reduces(rs, fold)
    BY <1>1, <2>2 DEF Reduces, q, base
  <2>4. Reduces(rs, one)
    BY <2>3
  <2> HIDE DEF one
  <2>5. \A k \in SUBSET (1..n) :
          one[k] = IF k = {} THEN base ELSE next(one[k \ {Max(k)}], Max(k))
    BY <1>1, <2>4 DEF Reduces, q, base
  <2>6. one[{}] = base
    BY <2>5
  <2> HIDE DEF next
  <2> QED
    BY <1>4, <2>1, <2>5, <2>6 DEF FoldsIn
<1> HIDE DEF one
<1>7. PICK f : RecursionTo(n, f, Y, base, g) /\ one[1..n] = f[n]
  <2>1. SolvedBy(n, one, Y, base, g)
    BY <1>6 DEF SolvedBy
  <2> QED
    BY <1>1, <1>2, <1>5, <2>1, FoldAlong
<1>8. f \in [0..n -> Y] /\ f[0] = base /\ \A i \in 1..n : f[i] = g[<<i, f[i - 1]>>]
  BY <1>7 DEF RecursionTo
<1>9. Reduce(rs) = f[n]
  BY <1>1, <1>7, ReducesFold DEF one, q
<1> DEFINE h == [i \in 1..(n + 1) |-> f[i - 1].val]
<1>10. \A i \in 1..(n + 1) : i - 1 \in 0..n /\ h[i] = f[i - 1].val /\ h[i] \in X /\ f[i - 1] = Ok(h[i])
  <2> SUFFICES ASSUME NEW i \in 1..(n + 1)
               PROVE  i - 1 \in 0..n /\ h[i] = f[i - 1].val /\ h[i] \in X /\ f[i - 1] = Ok(h[i])
    OBVIOUS
  <2>1. i - 1 \in 0..n
    BY <1>1
  <2>2. f[i - 1] \in Y
    BY <1>8, <2>1
  <2> QED
    BY <1>2, <2>1, <2>2
<1>11. h \in [1..(n + 1) -> X]
  BY <1>10
<1> HIDE DEF h
<1>12. h[1] = rs[1]
  <2>1. 1 \in 1..(n + 1) /\ 1 - 1 = 0
    BY <1>1
  <2>2. Ok(h[1]) = Ok(rs[1])
    BY <1>8, <1>10, <2>1 DEF base
  <2> QED
    BY <2>2 DEF Ok
<1>13. ASSUME NEW i \in 2..(n + 1) PROVE MergeOf(h[i - 1], rs[i]) = Ok(h[i])
  <2> DEFINE j == i - 1
  <2>1. /\ j \in 1..n /\ j \in 1..(n + 1) /\ i \in 1..(n + 1) /\ j - 1 \in 0..n /\ j + 1 = i
    BY <1>1
  <2> HIDE DEF j
  <2>2. f[j] = next(f[j - 1], j) /\ f[j - 1] \in Y
    BY <1>4, <1>8, <2>1
  <2>3. f[j] = MergeOf(f[j - 1].val, q[j])
    BY <1>3, <2>1, <2>2
  <2>4. f[j - 1].val = h[j] /\ q[j] = rs[i]
    BY <1>1, <1>10, <2>1
  <2>5. f[j] = Ok(h[i])
    <3>1. i - 1 = j
      BY DEF j
    <3> QED
      BY <1>10, <2>1, <3>1
  <2> QED
    BY <2>3, <2>4, <2>5 DEF j
<1>14. Reduce(rs) = Ok(h[n + 1])
  <2>1. n + 1 \in 1..(n + 1) /\ (n + 1) - 1 = n
    BY <1>1
  <2> QED
    BY <1>9, <1>10, <2>1
<1> QED
  BY <1>1, <1>11, <1>12, <1>13, <1>14 DEF MergedSoFar

LEMMA FlattenedBy ==
  ASSUME NEW B, NEW s \in Seq(Seq(B)), s # <<>>, NEW f,
         f[1] = s[1], \A i \in 2..Len(s) : f[i] = f[i - 1] \o s[i]
  PROVE  f[Len(s)] = FlattenSeq(s) /\ FlattenSeq(s) \in Seq(B)
<1> DEFINE n == Len(s)
           h == Flattening(s)
           P == {m \in Nat : m + 1 <= n => f[m + 1] = h[m + 1] /\ f[m + 1] \in Seq(B)}
<1>1. n \in Nat /\ n # 0 /\ \A i \in 1..n : s[i] \in Seq(B)
  OBVIOUS
<1>2. \A i \in 1..n : h[i] = IF i = 1 THEN s[i] ELSE h[i - 1] \o s[i]
  <2>1. Flattens(s, h)
    BY FlatteningExists
  <2> HIDE DEF h
  <2> QED
    BY <2>1 DEF Flattens
<1> HIDE DEF h
<1>3. FlattenSeq(s) = h[n]
  BY <1>1, FlattenSeqIs DEF h
<1>4. \A i \in 2..n : f[i] = f[i - 1] \o s[i]
  OBVIOUS
<1> HIDE DEF n
<1>5. 0 \in P
  <2>1. 1 \in 1..n /\ 0 + 1 = 1
    BY <1>1
  <2> QED
    BY <2>1, <1>1, <1>2
<1>6. ASSUME NEW m \in P PROVE m + 1 \in P
  <2>1. CASE (m + 1) + 1 <= n
    <3> DEFINE j == m + 1
               i == j + 1
    <3>1. m + 1 <= n /\ j \in 1..n /\ i \in 1..n /\ i \in 2..n /\ i # 1 /\ i - 1 = j
      BY <1>1, <2>1
    <3>2. f[j] = h[j] /\ f[j] \in Seq(B)
      BY <3>1
    <3> HIDE DEF i, j
    <3>3. f[i] = f[j] \o s[i] /\ h[i] = h[j] \o s[i] /\ s[i] \in Seq(B)
      BY <1>1, <1>2, <1>4, <3>1
    <3>4. f[i] = h[i] /\ f[i] \in Seq(B)
      BY <3>2, <3>3
    <3> QED
      BY <3>4 DEF i, j
  <2>2. CASE ~((m + 1) + 1 <= n)
    BY <2>2
  <2> QED
    BY <2>1, <2>2
<1>7. P = Nat
  <2>1. P \in SUBSET Nat
    OBVIOUS
  <2> HIDE DEF P
  <2> QED
    BY <1>5, <1>6, <2>1, AllNaturals
<1>8. n - 1 \in P /\ (n - 1) + 1 = n /\ n <= n
  <2>1. n - 1 \in Nat /\ (n - 1) + 1 = n /\ n <= n
    BY <1>1
  <2> HIDE DEF P
  <2> QED
    BY <1>7, <2>1
<1>9. f[n] = h[n] /\ f[n] \in Seq(B)
  BY <1>8
<1> QED
  BY <1>3, <1>9 DEF n

LEMMA WholeLength ==
  ASSUME NEW d \in Nat \ {0}, NEW L \in Nat, L % d = 0
  PROVE  L = d * (L \div d) /\ L \div d \in Nat
OBVIOUS

LEMMA LengthOfWhole ==
  ASSUME NEW d \in Nat \ {0}, NEW m \in Nat
  PROVE  (d * m) \div d = m /\ (d * m) % d = 0 /\ d * m \in Nat
<1> DEFINE x == d * m
           q == x \div d
<1>1. x \in Nat
  OBVIOUS
<1>2. m <= q /\ q \in Nat
  <2>1. x \in Nat /\ d * m = x /\ x <= x
    BY <1>1
  <2> HIDE DEF x, q
  <2>2. x \div d \in Nat /\ (d * m <= x => m <= x \div d)
    BY <1>1, BlocksFit
  <2> QED
    BY <2>1, <2>2 DEF q
<1>3. q <= m
  <2>1. d * q <= x
    <3> HIDE DEF x
    <3> QED
      BY <1>1, DivOf DEF q
  <2> DEFINE y == d * q
  <2>2. y < x + d
    <3>1. y \in Int /\ y <= x
      BY <1>2, <2>1
    <3> HIDE DEF x, y
    <3> QED
      BY <1>1, <3>1
  <2> HIDE DEF q
  <2>3. d * q < d * m + d
    BY <2>2 DEF x, y
  <2> QED
    BY <1>2, <2>3, DivUnique
<1>4. q = m
  <2> HIDE DEF q
  <2> QED
    BY <1>2, <1>3
<1>5. x % d = 0
  <2>1. x = (d * q) + (x % d)
    <3> HIDE DEF x
    <3> QED
      BY <1>1 DEF q
  <2>2. d * q = x
    BY <1>4
  <2>3. x % d \in Int
    <3> HIDE DEF x
    <3> QED
      BY <1>1
  <2> DEFINE r == x % d
  <2> HIDE DEF x, q, r
  <2>4. x = x + r /\ r \in Int
    BY <2>1, <2>2, <2>3 DEF r
  <2> QED
    BY <1>1, <2>4 DEF r
<1> QED
  BY <1>1, <1>4, <1>5 DEF q, x

(* The blocks of whole pieces are those of the pieces after one another.   *)
AreWhole(fs, n, d) == \A k \in 1..n : Len(fs[k]) % d = 0
CountBlocks(fs, n, d, lens) == \A k \in 1..n : lens[k] = Len(fs[k]) \div d
HasBlocks(flat, fs, n, d, lens, ends) ==
  /\ flat \in Seq(Int) /\ Len(flat) = d * ends[n] /\ ends[n] \in Nat
  /\ \A k \in 1..n : \A e \in 1..lens[k] :
       Block(flat, d, ends[k - 1] + e - 1) = Block(fs[k], d, e - 1)

LEMMA BlocksOfFlattened ==
  ASSUME NEW d \in Nat \ {0}, NEW n \in Nat, NEW fs \in [1..n -> Seq(Int)], AreWhole(fs, n, d),
         NEW lens, NEW ends, Ends(n, lens, ends), CountBlocks(fs, n, d, lens)
  PROVE  HasBlocks(FlattenSeq(fs), fs, n, d, lens, ends)
<1> DEFINE flat == FlattenSeq(fs)
           floats == [k \in 1..n |-> d * lens[k]]
           at == [k \in 0..n |-> d * ends[k]]
<1>1. /\ \A k \in 1..n : lens[k] \in Nat /\ ends[k] = ends[k - 1] + lens[k]
      /\ \A k \in 0..n : ends[k] \in Nat
      /\ ends[0] = 0
  BY DEF Ends
<1>2. \A k \in 1..n : floats[k] = Len(fs[k]) /\ floats[k] \in Nat
  <2> SUFFICES ASSUME NEW k \in 1..n PROVE d * lens[k] = Len(fs[k]) /\ Len(fs[k]) \in Nat
    OBVIOUS
  <2>1. Len(fs[k]) \in Nat /\ Len(fs[k]) % d = 0 /\ lens[k] = Len(fs[k]) \div d
    BY DEF AreWhole, CountBlocks
  <2> QED
    BY <2>1, WholeLength
<1>3. Ends(n, floats, at)
  <2>1. floats \in [1..n -> Nat]
    BY <1>2
  <2>2. at[0] = 0
    <3>1. 0 \in 0..n /\ d * 0 = 0
      OBVIOUS
    <3> QED
      BY <1>1, <3>1
  <2>3. \A k \in 0..n : at[k] \in Nat
    BY <1>1
  <2>4. \A k \in 1..n : at[k] = at[k - 1] + floats[k]
    <3> SUFFICES ASSUME NEW k \in 1..n PROVE d * ends[k] = d * ends[k - 1] + d * lens[k]
      OBVIOUS
    <3>1. k - 1 \in 0..n
      OBVIOUS
    <3> DEFINE a == ends[k - 1]
               b == lens[k]
    <3>2. a \in Nat /\ b \in Nat /\ ends[k] = a + b
      BY <1>1, <3>1
    <3> HIDE DEF a, b
    <3>3. d * (a + b) = d * a + d * b
      BY <3>2
    <3> QED
      BY <3>2, <3>3 DEF a, b
  <2> HIDE DEF floats, at
  <2> QED
    BY <2>1, <2>2, <2>3, <2>4 DEF Ends
<1>4. at[n] = d * ends[n] /\ ends[n] \in Nat /\ \A k \in 1..n : at[k - 1] = d * ends[k - 1]
  <2>1. n \in 0..n /\ \A k \in 1..n : k - 1 \in 0..n
    OBVIOUS
  <2> QED
    BY <1>1, <2>1
<1> HIDE DEF floats, at
<1>5. flat \in Seq(Int) /\ LaidOut(fs, n, at, flat)
  BY <1>2, <1>3, FlattenedIsLaidOut
<1> HIDE DEF flat
<1>6. Len(flat) = d * ends[n] /\ \A k \in 1..n : \A e \in 1..Len(fs[k]) : flat[at[k - 1] + e] = fs[k][e]
  BY <1>4, <1>5 DEF LaidOut
<1>7. ASSUME NEW k \in 1..n, NEW e \in 1..lens[k]
      PROVE  Block(flat, d, ends[k - 1] + e - 1) = Block(fs[k], d, e - 1)
  <2> DEFINE a == ends[k - 1]
             i == e - 1
             f == fs[k]
             m == lens[k]
             p == a + i
             last == ends[n]
  <2>1. /\ a \in Nat /\ i \in Nat /\ p \in Nat /\ a + e - 1 = p /\ i + 1 = e /\ m \in Nat /\ e <= m
        /\ e \in Nat /\ p = a + i /\ last \in Nat
    <3>1. k - 1 \in 0..n
      OBVIOUS
    <3>2. a \in Nat /\ m \in Nat /\ e \in 1..m /\ last \in Nat
      BY <1>1, <1>4, <3>1
    <3> HIDE DEF a, m, last
    <3> QED
      BY <3>2
  <2>2. f \in Seq(Int) /\ Len(f) = d * m /\ Len(f) \in Nat /\ at[k - 1] = d * a /\ Len(flat) = d * last
        /\ \A z \in 1..Len(f) : flat[at[k - 1] + z] = f[z]
    BY <1>2, <1>4, <1>6 DEF floats
  <2>0. a + m <= last
    <3>1. ends[k] <= ends[n]
      <4>1. k \in 0..n /\ n \in k..n
        OBVIOUS
      <4> QED
        BY <4>1, EndsGrow
    <3> QED
      BY <1>1, <3>1
  <2> HIDE DEF a, i, f, m, p, last
  <2>3. d * i + d <= Len(f)
    <3>1. d * (i + 1) = d * i + d
      BY <2>1, NextBlock
    <3>2. d * e <= d * m
      BY <2>1, TimesMonotone
    <3> QED
      BY <2>1, <2>2, <3>1, <3>2
  <2>4. d * p + d <= Len(flat)
    <3> DEFINE w == p + 1
    <3>1. d * w = d * p + d
      BY <2>1, NextBlock
    <3>2. w <= last /\ w \in Nat
      BY <2>0, <2>1
    <3> HIDE DEF w
    <3>3. d * w <= d * last
      BY <2>1, <3>2, TimesMonotone
    <3> QED
      BY <2>2, <3>1, <3>3
  <2>5. d * p = d * a + d * i
    BY <2>1
  <2>6. \A x \in 1..d : flat[d * p + x] = f[d * i + x]
    <3> SUFFICES ASSUME NEW x \in 1..d PROVE flat[d * p + x] = f[d * i + x]
      OBVIOUS
    <3> DEFINE u == d * i
               v == d * a
    <3>1. u \in Nat /\ v \in Nat /\ u + d <= Len(f) /\ d * p = v + u /\ at[k - 1] = v
      BY <2>1, <2>2, <2>3, <2>5
    <3> HIDE DEF u, v
    <3> DEFINE L == Len(f)
    <3>4. L \in Nat /\ u + d <= L /\ u \in Nat /\ v \in Nat /\ x \in 1..d
      BY <2>2, <3>1
    <3> HIDE DEF L
    <3>2. u + x \in 1..Len(f) /\ (v + u) + x = v + (u + x)
      BY <3>4 DEF L
    <3>3. flat[at[k - 1] + (u + x)] = f[u + x]
      BY <2>2, <3>2
    <3> QED
      BY <3>1, <3>2, <3>3 DEF u
  <2>7. Block(flat, d, p) \in Points(d) /\ \A x \in 1..d : Block(flat, d, p)[x] = flat[d * p + x]
    BY <1>5, <2>1, <2>4, BlockIs
  <2>8. Block(f, d, i) \in Points(d) /\ \A x \in 1..d : Block(f, d, i)[x] = f[d * i + x]
    BY <2>1, <2>2, <2>3, BlockIs
  <2> DEFINE y == Block(flat, d, p)
             z == Block(f, d, i)
  <2>9. y \in Points(d) /\ z \in Points(d) /\ \A x \in 1..d : y[x] = z[x]
    BY <2>6, <2>7, <2>8
  <2> HIDE DEF y, z
  <2>10. y = z
    BY <2>9 DEF Points
  <2> QED
    BY <2>1, <2>10 DEF y, z, f, a, i
<1> QED
  BY <1>4, <1>5, <1>6, <1>7 DEF flat, HasBlocks

(* All rows of whole files are the blocks of their floats.                 *)
RowsOfAll(fs, n, d) == FlattenSeq([k \in 1..n |-> Rows(fs[k], d)])

LEMMA AllRowsAre ==
  ASSUME NEW d \in Nat \ {0}, NEW n \in Nat, NEW fs \in [1..n -> Seq(Int)], AreWhole(fs, n, d)
  PROVE  /\ RowsOfAll(fs, n, d) \in Seq(Points(d))
         /\ FlattenSeq(fs) \in Seq(Int) /\ Len(FlattenSeq(fs)) = d * Len(RowsOfAll(fs, n, d))
         /\ \A p \in 1..Len(RowsOfAll(fs, n, d)) :
              RowsOfAll(fs, n, d)[p] = Block(FlattenSeq(fs), d, p - 1)
<1> DEFINE all == RowsOfAll(fs, n, d)
           rs == [k \in 1..n |-> Rows(fs[k], d)]
           lens == [k \in 1..n |-> Len(fs[k]) \div d]
<1>1. \A k \in 1..n : /\ rs[k] \in Seq(Points(d)) /\ lens[k] = Len(rs[k])
                      /\ lens[k] = Len(fs[k]) \div d /\ lens[k] \in Nat
                      /\ \A e \in 1..lens[k] : rs[k][e] = Block(fs[k], d, e - 1)
  <2> SUFFICES ASSUME NEW k \in 1..n
               PROVE  /\ Rows(fs[k], d) \in Seq(Points(d)) /\ Len(fs[k]) \div d = Len(Rows(fs[k], d))
                      /\ Len(fs[k]) \div d \in Nat
                      /\ \A e \in 1..(Len(fs[k]) \div d) : Rows(fs[k], d)[e] = Block(fs[k], d, e - 1)
    OBVIOUS
  <2>1. fs[k] \in Seq(Int)
    OBVIOUS
  <2> QED
    BY <2>1, RowsAre
<1>2. lens \in [1..n -> Nat] /\ rs \in [1..n -> Seq(Points(d))]
  BY <1>1
<1>3. all = FlattenSeq(rs)
  BY DEF RowsOfAll
<1> HIDE DEF rs, lens, all
<1>4. PICK ends : SolvesEnds(n, lens, ends)
  BY <1>2, EndsExist
<1>5. Ends(n, lens, ends)
  BY <1>2, <1>4, SolvedEnds
<1>6. all \in Seq(Points(d)) /\ LaidOut(rs, n, ends, all)
  <2> DEFINE B == Points(d)
  <2>1. rs \in [1..n -> Seq(B)] /\ \A k \in 1..n : lens[k] = Len(rs[k])
    BY <1>1, <1>2
  <2> HIDE DEF B
  <2>2. FlattenSeq(rs) \in Seq(B) /\ LaidOut(rs, n, ends, FlattenSeq(rs))
    BY <1>5, <2>1, FlattenedIsLaidOut
  <2> QED
    BY <1>3, <2>2 DEF B
<1>7. /\ FlattenSeq(fs) \in Seq(Int) /\ Len(FlattenSeq(fs)) = d * ends[n]
      /\ \A k \in 1..n : \A e \in 1..lens[k] :
           Block(FlattenSeq(fs), d, ends[k - 1] + e - 1) = Block(fs[k], d, e - 1)
  <2>1. CountBlocks(fs, n, d, lens)
    BY <1>1 DEF CountBlocks
  <2>2. HasBlocks(FlattenSeq(fs), fs, n, d, lens, ends)
    BY <1>5, <2>1, BlocksOfFlattened
  <2> QED
    BY <2>2 DEF HasBlocks
<1>8. Len(all) = ends[n]
  BY <1>6 DEF LaidOut
<1>9. ASSUME NEW p \in 1..Len(all) PROVE all[p] = Block(FlattenSeq(fs), d, p - 1)
  <2>1. HasPlace(rs, n, ends, all, p)
    BY <1>6, PlaceOf
  <2>0. PICK k \in 1..n : \E e \in 1..Len(rs[k]) :
          p = ends[k - 1] + e /\ ends[k - 1] \in Nat /\ all[p] = rs[k][e]
    BY <2>1 DEF HasPlace
  <2>2. PICK e \in 1..lens[k] : p = ends[k - 1] + e /\ ends[k - 1] \in Nat /\ all[p] = rs[k][e]
    BY <1>1, <2>0
  <2>3. p - 1 = ends[k - 1] + e - 1
    BY <2>2
  <2> QED
    BY <1>1, <1>7, <2>2, <2>3
<1> QED
  BY <1>6, <1>7, <1>8, <1>9 DEF all

-----------------------------------------------------------------------------
(* Files that were opened, and what they are merged to.                    *)
FloatsIn(dim, floats) == [kind |-> "dense", dim |-> dim, data |-> floats]
OkOf(r, P) == \E c \in P : r = Ok(c)
DataOf(rs) == [k \in 1..Len(rs) |-> rs[k].data]

LEMMA FloatsAreDense ==
  ASSUME NEW dim
  PROVE  /\ \A floats \in Seq(Int) : FloatsIn(dim, floats) \in DenseOf(dim)
         /\ \A s \in DenseOf(dim) : s = FloatsIn(dim, s.data) /\ s.data \in Seq(Int)
BY DEF DenseOf, FloatsIn

LEMMA DenseMerge ==
  ASSUME NEW dim, NEW a \in DenseOf(dim), NEW b \in DenseOf(dim)
  PROVE  MergeOf(a, b) = Ok(FloatsIn(dim, a.data \o b.data)) /\ FloatsIn(dim, a.data \o b.data) \in DenseOf(dim)
<1>1. a.kind = "dense" /\ a.dim = dim /\ b.dim = dim /\ a.data \in Seq(Int) /\ b.data \in Seq(Int)
  BY DEF DenseOf
<1>2. MergeOf(a, b) = Ok([a EXCEPT !.data = a.data \o b.data])
  BY <1>1 DEF MergeOf, DataRamMerge
<1>3. [a EXCEPT !.data = a.data \o b.data] = FloatsIn(dim, a.data \o b.data)
  <2>1. a = FloatsIn(dim, a.data)
    BY FloatsAreDense
  <2> DEFINE x == a.data
             y == a.data \o b.data
  <2>2. a = [kind |-> "dense", dim |-> dim, data |-> x]
    BY <2>1 DEF FloatsIn
  <2> HIDE DEF x, y
  <2>3. [a EXCEPT !.data = y] = [kind |-> "dense", dim |-> dim, data |-> y]
    BY <2>2
  <2> QED
    BY <2>3 DEF FloatsIn, y
<1>4. a.data \o b.data \in Seq(Int)
  BY <1>1
<1> QED
  BY <1>2, <1>3, <1>4, FloatsAreDense

LEMMA MergedData ==
  ASSUME NEW dim, NEW rs \in Seq(DenseOf(dim)), rs # <<>>
  PROVE  Reduce(rs) = Ok(FloatsIn(dim, FlattenSeq(DataOf(rs)))) /\ FlattenSeq(DataOf(rs)) \in Seq(Int)
<1> DEFINE X == DenseOf(dim)
           n == Len(rs)
<1>1. Merging(X)
  BY DenseMerge DEF Merging
<1>2. n \in Nat /\ n # 0 /\ rs \in Seq(X) /\ \A i \in 1..n : rs[i] \in X
  OBVIOUS
<1>3. \A a \in X, b \in X : MergeOf(a, b) = Ok(FloatsIn(dim, a.data \o b.data))
  BY DenseMerge
<1>4. \A a \in X : a = FloatsIn(dim, a.data) /\ a.data \in Seq(Int)
  BY FloatsAreDense
<1> HIDE DEF X
<1>5. PICK h \in [1..n -> X] : MergedSoFar(rs, h) /\ Reduce(rs) = Ok(h[n])
  BY <1>1, <1>2, ReducesTo
<1> DEFINE s == DataOf(rs)
           f == [i \in 1..n |-> h[i].data]
<1>6. s \in Seq(Seq(Int)) /\ Len(s) = n /\ s # <<>> /\ \A i \in 1..n : s[i] = rs[i].data
  <2>1. s = [i \in 1..n |-> rs[i].data] /\ \A i \in 1..n : rs[i].data \in Seq(Int)
    BY <1>2, <1>4 DEF DataOf
  <2> HIDE DEF s
  <2> QED
    BY <1>2, <2>1
<1>7. \A i \in 1..n : f[i] = h[i].data /\ h[i] \in X
  OBVIOUS
<1> HIDE DEF s, f
<1>8. f[1] = s[1]
  <2>1. 1 \in 1..n
    BY <1>2
  <2> QED
    BY <1>5, <1>6, <1>7, <2>1 DEF MergedSoFar
<1>9. ASSUME NEW i \in 2..n PROVE f[i] = f[i - 1] \o s[i]
  <2>1. i \in 1..n /\ i - 1 \in 1..n
    BY <1>2
  <2>2. MergeOf(h[i - 1], rs[i]) = Ok(h[i])
    BY <1>5 DEF MergedSoFar
  <2>3. Ok(FloatsIn(dim, h[i - 1].data \o rs[i].data)) = Ok(h[i])
    BY <1>2, <1>3, <1>7, <2>1, <2>2
  <2> DEFINE x == h[i - 1].data \o rs[i].data
             y == h[i]
  <2> HIDE DEF x, y
  <2>5. Ok(FloatsIn(dim, x)) = Ok(y)
    BY <2>3 DEF x, y
  <2>6. FloatsIn(dim, x) = y
    BY <2>5 DEF Ok
  <2>7. y.data = x
    BY <2>6 DEF FloatsIn
  <2>4. h[i].data = h[i - 1].data \o rs[i].data
    BY <2>7 DEF x, y
  <2> QED
    BY <1>6, <1>7, <2>1, <2>4
<1>10. f[n] = FlattenSeq(s) /\ FlattenSeq(s) \in Seq(Int)
  <2>1. \A i \in 2..Len(s) : f[i] = f[i - 1] \o s[i]
    BY <1>6, <1>9
  <2> QED
    BY <1>6, <1>8, <2>1, FlattenedBy
<1>11. n \in 1..n
  BY <1>2
<1>12. h[n] = FloatsIn(dim, FlattenSeq(s))
  BY <1>4, <1>7, <1>10, <1>11
<1> QED
  BY <1>5, <1>10, <1>12 DEF s

Ints(masked) == [kind: {"int"}, labels: Seq(Int), mask: IF masked THEN Seq(BOOLEAN) ELSE {NoMask}]
LabelsIn(rs) == [k \in 1..Len(rs) |-> rs[k].labels]
MasksIn(rs) == [k \in 1..Len(rs) |-> rs[k].mask]

LEMMA IntMerges ==
  ASSUME NEW masked \in BOOLEAN, NEW a \in Ints(masked), NEW b \in Ints(masked)
  PROVE  \E c \in Ints(masked) : /\ MergeOf(a, b) = Ok(c) /\ c.labels = a.labels \o b.labels
                                 /\ masked => c.mask = a.mask \o b.mask
<1> DEFINE c == IntMerge(a, b)
<1>1. a.kind = "int" /\ a.labels \in Seq(Int) /\ b.labels \in Seq(Int)
  BY DEF Ints
<1>2. MergeOf(a, b) = Ok(c)
  BY <1>1 DEF MergeOf
<1>3. a.labels \o b.labels \in Seq(Int)
  BY <1>1
<1>4. CASE masked
  <2>1. a.mask \in Seq(BOOLEAN) /\ b.mask \in Seq(BOOLEAN)
    BY <1>4 DEF Ints
  <2>2. a.mask # NoMask /\ b.mask # NoMask
    BY <2>1, MaskAssumption
  <2>3. c = IntLabels(a.labels \o b.labels, a.mask \o b.mask)
    BY <2>2 DEF IntMerge
  <2>4. a.mask \o b.mask \in Seq(BOOLEAN)
    BY <2>1
  <2>5. c = [kind |-> "int", labels |-> a.labels \o b.labels, mask |-> a.mask \o b.mask]
    BY <2>3 DEF IntLabels
  <2> HIDE DEF c
  <2>6. c \in Ints(masked) /\ c.labels = a.labels \o b.labels /\ c.mask = a.mask \o b.mask
    BY <1>3, <1>4, <2>4, <2>5 DEF Ints
  <2> QED
    BY <1>2, <2>6
<1>5. CASE ~masked
  <2>1. a.mask = NoMask /\ b.mask = NoMask
    BY <1>5 DEF Ints
  <2>3. c = IntLabels(a.labels \o b.labels, NoMask)
    BY <2>1 DEF IntMerge
  <2>5. c = [kind |-> "int", labels |-> a.labels \o b.labels, mask |-> NoMask]
    BY <2>3 DEF IntLabels
  <2> HIDE DEF c
  <2>6. c \in Ints(masked) /\ c.labels = a.labels \o b.labels
    BY <1>3, <1>5, <2>5 DEF Ints
  <2> QED
    BY <1>2, <1>5, <2>6
<1> QED
  BY <1>4, <1>5

LEMMA MergedInts ==
  ASSUME NEW masked \in BOOLEAN, NEW rs \in Seq(Ints(masked)), rs # <<>>
  PROVE  \E c \in Ints(masked) : /\ Reduce(rs) = Ok(c) /\ c.labels = FlattenSeq(LabelsIn(rs))
                                 /\ masked => c.mask = FlattenSeq(MasksIn(rs))
<1> DEFINE X == Ints(masked)
           n == Len(rs)
<1>1. Merging(X)
  BY IntMerges DEF Merging
<1>2. n \in Nat /\ n # 0 /\ rs \in Seq(X) /\ \A i \in 1..n : rs[i] \in X
  OBVIOUS
<1>3. ASSUME NEW a \in X, NEW b \in X, NEW c, MergeOf(a, b) = Ok(c)
      PROVE  c.labels = a.labels \o b.labels /\ (masked => c.mask = a.mask \o b.mask)
  <2>1. PICK d \in X : /\ MergeOf(a, b) = Ok(d) /\ d.labels = a.labels \o b.labels
                       /\ masked => d.mask = a.mask \o b.mask
    BY IntMerges
  <2>2. d = c
    BY <1>3, <2>1 DEF Ok
  <2> QED
    BY <2>1, <2>2
<1>4. \A a \in X : a.labels \in Seq(Int) /\ (masked => a.mask \in Seq(BOOLEAN))
  BY DEF Ints
<1> HIDE DEF X
<1>5. PICK h \in [1..n -> X] : MergedSoFar(rs, h) /\ Reduce(rs) = Ok(h[n])
  BY <1>1, <1>2, ReducesTo
<1>6. 1 \in 1..n /\ n \in 1..n /\ \A i \in 1..n : h[i] \in X
  BY <1>2
<1>7. ASSUME NEW i \in 2..n
      PROVE  /\ h[i].labels = h[i - 1].labels \o rs[i].labels
             /\ masked => h[i].mask = h[i - 1].mask \o rs[i].mask
  <2>1. i \in 1..n /\ i - 1 \in 1..n
    BY <1>2
  <2>2. MergeOf(h[i - 1], rs[i]) = Ok(h[i])
    BY <1>5 DEF MergedSoFar
  <2>3. h[i - 1] \in X /\ rs[i] \in X
    BY <1>2, <1>6, <2>1
  <2> QED
    BY <1>3, <2>2, <2>3
<1>8. h[n].labels = FlattenSeq(LabelsIn(rs))
  <2> DEFINE s == LabelsIn(rs)
             f == [i \in 1..n |-> h[i].labels]
  <2>1. s \in Seq(Seq(Int)) /\ Len(s) = n /\ s # <<>> /\ \A i \in 1..n : s[i] = rs[i].labels
    <3>1. s = [i \in 1..n |-> rs[i].labels] /\ \A i \in 1..n : rs[i].labels \in Seq(Int)
      BY <1>2, <1>4 DEF LabelsIn
    <3> HIDE DEF s
    <3> QED
      BY <1>2, <3>1
  <2>2. \A i \in 1..n : f[i] = h[i].labels
    OBVIOUS
  <2> HIDE DEF s, f
  <2>3. f[1] = s[1]
    <3>1. h[1] = rs[1]
      BY <1>5 DEF MergedSoFar
    <3>2. f[1] = h[1].labels
      BY <1>6, <2>2
    <3>3. s[1] = rs[1].labels
      BY <1>6, <2>1
    <3> QED
      BY <3>1, <3>2, <3>3
  <2>4. \A i \in 2..Len(s) : f[i] = f[i - 1] \o s[i]
    <3>1. \A i \in 2..n : i \in 1..n /\ i - 1 \in 1..n
      BY <1>2
    <3> QED
      BY <1>7, <2>1, <2>2, <3>1
  <2>5. f[n] = FlattenSeq(s)
    BY <2>1, <2>3, <2>4, FlattenedBy
  <2> QED
    BY <1>6, <2>2, <2>5 DEF s
<1>9. masked => h[n].mask = FlattenSeq(MasksIn(rs))
  <2> SUFFICES ASSUME masked PROVE h[n].mask = FlattenSeq(MasksIn(rs))
    OBVIOUS
  <2> DEFINE s == MasksIn(rs)
             f == [i \in 1..n |-> h[i].mask]
  <2>1. s \in Seq(Seq(BOOLEAN)) /\ Len(s) = n /\ s # <<>> /\ \A i \in 1..n : s[i] = rs[i].mask
    <3>1. s = [i \in 1..n |-> rs[i].mask] /\ \A i \in 1..n : rs[i].mask \in Seq(BOOLEAN)
      BY <1>2, <1>4 DEF MasksIn
    <3> DEFINE B == Seq(BOOLEAN)
    <3> HIDE DEF s, B
    <3> QED
      BY <1>2, <3>1 DEF B
  <2>2. \A i \in 1..n : f[i] = h[i].mask
    OBVIOUS
  <2> HIDE DEF s, f
  <2>3. f[1] = s[1]
    <3>1. h[1] = rs[1]
      BY <1>5 DEF MergedSoFar
    <3>2. f[1] = h[1].mask
      BY <1>6, <2>2
    <3>3. s[1] = rs[1].mask
      BY <1>6, <2>1
    <3> QED
      BY <3>1, <3>2, <3>3
  <2>4. \A i \in 2..Len(s) : f[i] = f[i - 1] \o s[i]
    <3>1. \A i \in 2..n : i \in 1..n /\ i - 1 \in 1..n
      BY <1>2
    <3> QED
      BY <1>7, <2>1, <2>2, <3>1
  <2>5. f[n] = FlattenSeq(s)
    BY <2>1, <2>3, <2>4, FlattenedBy
  <2> QED
    BY <1>6, <2>2, <2>5 DEF s
<1> QED
  BY <1>5, <1>6, <1>8, <1>9 DEF X

-----------------------------------------------------------------------------
(* A map of a file holds its floats, and what is merged the floats of all. *)
LEMMA MemmapHasFloats ==
  ASSUME NEW dim, NEW file, HasFloats(file), ~Failed(DataMemmapNew(dim, file))
  PROVE  DataMemmapNew(dim, file) = Ok(FloatsIn(dim, file.floats))
<1> DEFINE len == MapFile(file).val.len
           floats == file.floats
           n == Len(floats)
<1>1. file.bytes \in Nat /\ floats \in Seq(Int) /\ n = file.bytes \div 4 /\ n \in Nat
  BY DEF HasFloats
<1>2. ~Failed(MapFile(file))
  BY MemmapIsOfMap
<1>3. len = n
  <2>1. len = (file.bytes - 0) \div 4
    BY <1>2 DEF MapFile, MapNew, GetLen, Ok, Err, Failed
  <2>2. file.bytes - 0 = file.bytes
    BY <1>1
  <2> QED
    BY <1>1, <2>1, <2>2
<1>4. DataMemmapNew(dim, file) = Ok([kind |-> "dense", dim |-> dim, data |-> SubSeq(floats, 1, Min({len, n}))])
  BY <1>2 DEF DataMemmapNew
<1> HIDE DEF len, n, floats
<1>5. Min({len, n}) = n
  <2> DEFINE T == {len, n}
  <2>1. T \in SUBSET Nat /\ T # {}
    BY <1>1, <1>3
  <2>2. \A t \in T : t = n
    BY <1>3
  <2> HIDE DEF T
  <2>3. Min(T) \in T
    BY <2>1, MinOfNaturals
  <2> QED
    BY <2>2, <2>3 DEF T
<1>6. SubSeq(floats, 1, n) = floats
  BY <1>1 DEF n
<1> QED
  BY <1>4, <1>5, <1>6 DEF FloatsIn, floats

LEMMA CollectedOk ==
  ASSUME NEW n \in Nat, NEW rs, DOMAIN rs = 1..n, ~Failed(Collect(rs))
  PROVE  Collect(rs) = Ok([k \in 1..n |-> rs[k].val])
<1> DEFINE bad == {k \in 1..n : Failed(rs[k])}
<1>1. Collect(rs) = IF bad # {} THEN rs[Min(bad)] ELSE Ok([k \in 1..n |-> rs[k].val])
  BY DEF Collect
<1>2. bad = {}
  <2> SUFFICES ASSUME bad # {} PROVE FALSE
    OBVIOUS
  <2>1. Min(bad) \in bad
    BY MinOfNaturals
  <2> QED
    BY <1>1, <2>1
<1> QED
  BY <1>1, <1>2

HoldFloats(fs, n) == \A k \in 1..n : HasFloats(fs[k])
SourcesFrom(dim, fs, n) == [k \in 1..n |-> FloatsIn(dim, fs[k].floats)]
FloatsFrom(fs, n) == [k \in 1..n |-> fs[k].floats]

LEMMA FloatsFromAre ==
  ASSUME NEW n \in Nat, NEW fs, HoldFloats(fs, n)
  PROVE  /\ FloatsFrom(fs, n) \in [1..n -> Seq(Int)] /\ FloatsFrom(fs, n) \in Seq(Seq(Int))
         /\ Len(FloatsFrom(fs, n)) = n /\ \A k \in 1..n : FloatsFrom(fs, n)[k] = fs[k].floats
<1>1. \A k \in 1..n : fs[k].floats \in Seq(Int)
  BY DEF HoldFloats, HasFloats
<1>2. FloatsFrom(fs, n) = [k \in 1..n |-> fs[k].floats]
  BY DEF FloatsFrom
<1> QED
  BY <1>1, <1>2

LEMMA CollectedFloats ==
  ASSUME NEW dim, NEW n \in Nat, NEW fs, HoldFloats(fs, n), NEW rs, DOMAIN rs = 1..n,
         \A k \in 1..n : rs[k] = DataMemmapNew(dim, fs[k]), ~Failed(Collect(rs))
  PROVE  Collect(rs) = Ok(SourcesFrom(dim, fs, n)) /\ SourcesFrom(dim, fs, n) \in Seq(DenseOf(dim))
<1>1. Collect(rs) = Ok([k \in 1..n |-> rs[k].val]) /\ \A k \in 1..n : ~Failed(rs[k])
  BY CollectedOk, CollectedAll
<1>2. \A k \in 1..n : rs[k].val = FloatsIn(dim, fs[k].floats) /\ rs[k].val \in DenseOf(dim)
  <2> SUFFICES ASSUME NEW k \in 1..n
               PROVE  rs[k].val = FloatsIn(dim, fs[k].floats) /\ FloatsIn(dim, fs[k].floats) \in DenseOf(dim)
    OBVIOUS
  <2>1. HasFloats(fs[k]) /\ ~Failed(DataMemmapNew(dim, fs[k]))
    BY <1>1 DEF HoldFloats
  <2>2. rs[k] = Ok(FloatsIn(dim, fs[k].floats))
    BY <2>1, MemmapHasFloats
  <2>3. fs[k].floats \in Seq(Int)
    BY <2>1 DEF HasFloats
  <2> QED
    BY <2>2, <2>3, FloatsAreDense DEF Ok
<1>3. SourcesFrom(dim, fs, n) = [k \in 1..n |-> rs[k].val]
  BY <1>2 DEF SourcesFrom
<1> DEFINE B == DenseOf(dim)
<1>4. [k \in 1..n |-> rs[k].val] \in [1..n -> B]
  BY <1>2
<1> HIDE DEF B
<1>5. [k \in 1..n |-> rs[k].val] \in Seq(B)
  BY <1>4
<1> QED
  BY <1>1, <1>3, <1>5 DEF B

LEMMA MergedFloats ==
  ASSUME NEW dim, NEW n \in Nat \ {0}, NEW fs, HoldFloats(fs, n)
  PROVE  /\ Reduce(SourcesFrom(dim, fs, n)) = Ok(FloatsIn(dim, FlattenSeq(FloatsFrom(fs, n))))
         /\ FlattenSeq(FloatsFrom(fs, n)) \in Seq(Int)
<1> DEFINE rs == SourcesFrom(dim, fs, n)
           B == DenseOf(dim)
<1>1. \A k \in 1..n : rs[k] = FloatsIn(dim, fs[k].floats) /\ rs[k] \in B /\ rs[k].data = fs[k].floats
  <2> SUFFICES ASSUME NEW k \in 1..n
               PROVE  /\ rs[k] = FloatsIn(dim, fs[k].floats) /\ FloatsIn(dim, fs[k].floats) \in B
                      /\ FloatsIn(dim, fs[k].floats).data = fs[k].floats
    OBVIOUS
  <2>1. fs[k].floats \in Seq(Int)
    BY DEF HoldFloats, HasFloats
  <2> QED
    BY <2>1, FloatsAreDense DEF SourcesFrom, FloatsIn
<1>2. rs = [k \in 1..n |-> rs[k]]
  BY DEF SourcesFrom
<1> HIDE DEF rs, B
<1>3. rs \in Seq(B) /\ Len(rs) = n /\ rs # <<>>
  BY <1>1, <1>2
<1>4. DataOf(rs) = FloatsFrom(fs, n)
  BY <1>1, <1>3 DEF DataOf, FloatsFrom
<1>5. Reduce(rs) = Ok(FloatsIn(dim, FlattenSeq(DataOf(rs)))) /\ FlattenSeq(DataOf(rs)) \in Seq(Int)
  BY <1>3, MergedData DEF B
<1> QED
  BY <1>4, <1>5 DEF rs

FilesAt(files, paths) == [k \in 1..Len(paths) |-> files[paths[k]]]

LEMMA DataFiles ==
  ASSUME NEW paths \in Seq(DOMAIN Files)
  PROVE  /\ HoldFloats(FilesAt(Files, paths), Len(paths)) /\ Len(paths) \in Nat /\ DOMAIN paths = 1..Len(paths)
         /\ \A k \in 1..Len(paths) : FilesAt(Files, paths)[k] = Files[paths[k]]
<1>1. /\ Len(paths) \in Nat /\ DOMAIN paths = 1..Len(paths)
      /\ \A k \in 1..Len(paths) : paths[k] \in DOMAIN Files
  OBVIOUS
<1>2. \A k \in 1..Len(paths) : FilesAt(Files, paths)[k] = Files[paths[k]]
  BY DEF FilesAt
<1> QED
  BY <1>1, <1>2, FilesAssumption DEF HoldFloats

LEMMA OpenedFloats ==
  ASSUME NEW dim, NEW paths \in Seq(DOMAIN Files), ~Failed(OpenMemmaps(dim, paths))
  PROVE  /\ OpenMemmaps(dim, paths) = Ok(GluedCloud(SourcesFrom(dim, FilesAt(Files, paths), Len(paths))))
         /\ SourcesFrom(dim, FilesAt(Files, paths), Len(paths)) \in Seq(DenseOf(dim))
<1> DEFINE n == Len(paths)
           fs == FilesAt(Files, paths)
           rs == [k \in DOMAIN paths |-> DataMemmapNew(dim, Files[paths[k]])]
<1>1. /\ HoldFloats(fs, n) /\ n \in Nat /\ DOMAIN rs = 1..n
      /\ \A k \in 1..n : rs[k] = DataMemmapNew(dim, fs[k])
  BY DataFiles
<1>2. OpenMemmaps(dim, paths) = IF Failed(CollectMaps(rs)) THEN CollectMaps(rs)
                                ELSE Ok(GluedCloud(CollectMaps(rs).val))
  BY DEF OpenMemmaps
<1> HIDE DEF n, rs, fs
<1>3. ~Failed(Collect(rs)) /\ OpenMemmaps(dim, paths) = Ok(GluedCloud(Collect(rs).val))
  BY <1>2, MapsCollected
<1>4. Collect(rs) = Ok(SourcesFrom(dim, fs, n)) /\ SourcesFrom(dim, fs, n) \in Seq(DenseOf(dim))
  BY <1>1, <1>3, CollectedFloats
<1>5. Collect(rs).val = SourcesFrom(dim, fs, n)
  BY <1>4 DEF Ok
<1> QED
  BY <1>3, <1>4, <1>5 DEF n, fs

LEMMA GluedFields ==
  ASSUME NEW ss
  PROVE  GluedCloud(ss).kind = "glued" /\ GluedCloud(ss).sources = ss
BY DEF GluedCloud

LEMMA RamHasFloats ==
  ASSUME NEW dim, NEW paths \in Seq(DOMAIN Files), ~Failed(LoadedFloats(dim, paths))
  PROVE  /\ LoadedFloats(dim, paths)
              = Ok(FloatsIn(dim, FlattenSeq(FloatsFrom(FilesAt(Files, paths), Len(paths)))))
         /\ FlattenSeq(FloatsFrom(FilesAt(Files, paths), Len(paths))) \in Seq(Int)
<1> DEFINE n == Len(paths)
           fs == FilesAt(Files, paths)
           ss == SourcesFrom(dim, fs, n)
           opened == OpenMemmaps(dim, paths)
<1>1. HoldFloats(fs, n) /\ n \in Nat
  BY DataFiles
<1>2. LoadedFloats(dim, paths) = IF Failed(opened) THEN opened ELSE ConvertGluedMemmapToRam(opened.val)
  BY DEF LoadedFloats
<1> HIDE DEF opened
<1>3. ~Failed(opened) /\ LoadedFloats(dim, paths) = ConvertGluedMemmapToRam(opened.val)
  BY <1>2
<1>4. opened = Ok(GluedCloud(ss)) /\ ss \in Seq(DenseOf(dim))
  BY <1>3, OpenedFloats DEF opened
<1>5. opened.val = GluedCloud(ss)
  BY <1>4 DEF Ok
<1>6. opened.val.sources = ss /\ DOMAIN ss = 1..n /\ [k \in 1..n |-> ss[k]] = ss
  <2>1. DOMAIN ss = 1..n /\ [k \in 1..n |-> ss[k]] = ss
    BY DEF SourcesFrom
  <2> HIDE DEF ss
  <2> QED
    BY <1>5, <2>1, GluedFields
<1>7. LoadedFloats(dim, paths) = Reduce(ss)
  <2>1. LoadedFloats(dim, paths) = CopyAll(ss) /\ ~Failed(CopyAll(ss))
    BY <1>3, <1>6 DEF ConvertGluedMemmapToRam
  <2> HIDE DEF ss, n
  <2> QED
    BY <2>1, <1>1, <1>6, CopiedAll
<1>8. n # 0
  <2> SUFFICES ASSUME n = 0 PROVE FALSE
    OBVIOUS
  <2>1. ss = <<>>
    BY DEF SourcesFrom
  <2>2. Reduce(ss) = Panicked
    BY <2>1 DEF Reduce
  <2> QED
    BY <1>7, <2>2 DEF Panicked, Failed
<1> HIDE DEF n, fs
<1>9. Reduce(ss) = Ok(FloatsIn(dim, FlattenSeq(FloatsFrom(fs, n)))) /\ FlattenSeq(FloatsFrom(fs, n)) \in Seq(Int)
  BY <1>1, <1>8, MergedFloats
<1> QED
  BY <1>7, <1>9 DEF fs, n

-----------------------------------------------------------------------------
(* A set of labels that has one for every point, or its mask says it has   *)
(* none.                                                                   *)
Seen == {NoLabel} \cup Int \cup Seq(Int)
MaskedInts(masked, L, n) == L \in Ints(masked) /\ Len(L.labels) = n /\ (masked => Len(L.mask) = n)
VecHolds(L, n) ==
  /\ L.kind = "vec" /\ L.mask = NoMask /\ L.dim \in Nat \ {0}
  /\ L.labels \in Seq(Int) /\ Len(L.labels) = L.dim * n
LabelsHold(L, n) == VecHolds(L, n) \/ \E masked \in BOOLEAN : MaskedInts(masked, L, n)

LEMMA IntsAnswer ==
  ASSUME NEW n \in Nat, NEW masked \in BOOLEAN, NEW L, MaskedInts(masked, L, n), NEW i \in Nat, i < n
  PROVE  /\ LabelOf(L, i) = Ok(IF masked /\ ~L.mask[i + 1] THEN NoLabel ELSE L.labels[i + 1])
         /\ L.labels[i + 1] \in Int
<1>1. /\ L.kind = "int" /\ L.labels \in Seq(Int) /\ Len(L.labels) = n
      /\ L.mask \in IF masked THEN Seq(BOOLEAN) ELSE {NoMask}
      /\ masked => Len(L.mask) = n
  BY DEF MaskedInts, Ints
<1>2. LabelOf(L, i) = IntLabel(L, i) /\ LabelAt(L.labels, i) = L.labels[i + 1]
  BY <1>1 DEF LabelOf, LabelAt
<1>3. i + 1 \in 1..n /\ ~(i >= n)
  OBVIOUS
<1>4. L.labels[i + 1] \in Int
  BY <1>1, <1>3
<1>5. CASE masked
  <2>1. L.mask \in Seq(BOOLEAN) /\ L.mask # NoMask
    BY <1>1, <1>5, MaskAssumption
  <2>2. L.mask[i + 1] \in BOOLEAN
    BY <1>1, <1>3, <1>5, <2>1
  <2>3. IntLabel(L, i) = Ok(IF L.mask[i + 1] THEN L.labels[i + 1] ELSE NoLabel)
    BY <1>1, <1>2, <1>3, <1>5, <2>1 DEF IntLabel
  <2> QED
    BY <1>2, <1>4, <1>5, <2>2, <2>3
<1>6. CASE ~masked
  BY <1>1, <1>2, <1>4, <1>6 DEF IntLabel
<1> QED
  BY <1>5, <1>6

LEMMA VecsAnswer ==
  ASSUME NEW n \in Nat, NEW L, VecHolds(L, n), NEW i \in Nat, i < n
  PROVE  /\ VecAt(L, i) = Block(L.labels, L.dim, i) /\ LabelOf(L, i) = Ok(Block(L.labels, L.dim, i))
         /\ Block(L.labels, L.dim, i) \in Seq(Int)
<1> DEFINE d == L.dim
           a == d * i
<1>1. L.kind = "vec" /\ L.mask = NoMask /\ d \in Nat \ {0} /\ L.labels \in Seq(Int) /\ Len(L.labels) = d * n
  BY DEF VecHolds
<1>2. d * (i + 1) = a + d /\ a \in Nat /\ d * (i + 1) <= d * n /\ d * n \in Nat
  <2> HIDE DEF d
  <2>1. i + 1 \in Int /\ n \in Int /\ i + 1 <= n
    OBVIOUS
  <2>2. d * (i + 1) <= d * n
    BY <1>1, <2>1, TimesMonotone
  <2>3. d * (i + 1) = d * i + d /\ d * i \in Nat /\ d * n \in Nat
    BY <1>1, NextBlock
  <2> QED
    BY <2>2, <2>3
<1>3. VecAt(L, i) = IF d * (i + 1) > Len(L.labels) THEN NoLabel ELSE SubSeq(L.labels, a + 1, d * (i + 1))
  BY DEF VecAt
<1>4. Block(L.labels, d, i) = SubSeq(L.labels, a + 1, a + d)
  BY DEF Block
<1>5. Block(L.labels, d, i) \in Seq(Int)
  <2>1. a + d <= Len(L.labels)
    BY <1>1, <1>2
  <2> HIDE DEF d
  <2>2. Block(L.labels, d, i) \in Points(d)
    BY <1>1, <2>1, BlockIs
  <2> QED
    BY <2>2 DEF Points
<1> HIDE DEF d, a
<1>6. ~(d * (i + 1) > Len(L.labels))
  <2> DEFINE x == d * (i + 1)
             y == d * n
  <2>1. x \in Nat /\ y \in Nat /\ x <= y /\ Len(L.labels) = y
    <3>1. d * (i + 1) \in Nat
      BY <1>1
    <3> QED
      BY <1>1, <1>2, <3>1
  <2> HIDE DEF x, y
  <2>2. ~(x > Len(L.labels))
    BY <2>1
  <2> QED
    BY <2>2 DEF x
<1>7. VecAt(L, i) = Block(L.labels, d, i)
  BY <1>2, <1>3, <1>4, <1>6
<1>8. LabelOf(L, i) = Ok(VecAt(L, i))
  BY <1>1 DEF LabelOf, VecLabel
<1> QED
  BY <1>5, <1>7, <1>8 DEF d

LEMMA HeldLabels ==
  ASSUME NEW n \in Nat, NEW L, LabelsHold(L, n), NEW i \in Nat, i < n
  PROVE  \E v \in Seen : LabelOf(L, i) = Ok(v)
<1>1. CASE VecHolds(L, n)
  BY <1>1, VecsAnswer DEF Seen
<1>2. CASE \E masked \in BOOLEAN : MaskedInts(masked, L, n)
  <2>1. PICK masked \in BOOLEAN : MaskedInts(masked, L, n)
    BY <1>2
  <2>2. /\ LabelOf(L, i) = Ok(IF masked /\ ~L.mask[i + 1] THEN NoLabel ELSE L.labels[i + 1])
        /\ L.labels[i + 1] \in Int
    BY <2>1, IntsAnswer
  <2> QED
    BY <2>2 DEF Seen
<1> QED
  BY <1>1, <1>2 DEF LabelsHold

(* What a source answers, row by row.                                      *)
Row(dim) == [point: Points(dim), label: Seen]
PointsHold(s, dim, rows) ==
  /\ s \in DenseOf(dim) /\ DenseLen(s) = Len(rows)
  /\ \A k \in 1..Len(rows) : rows[k].point = Block(s.data, dim, k - 1)
NothingSaid(rows) == \A k \in 1..Len(rows) : rows[k].label = NoLabel
SaidBy(L, rows) == LabelsHold(L, Len(rows)) /\ \A k \in 1..Len(rows) : LabelOf(L, k - 1) = Ok(rows[k].label)
PlainHolds(s, dim, rows) == PointsHold(s, dim, rows) /\ NothingSaid(rows)
LabeledHolds(s, dim, rows) ==
  s = LabeledCloud(s.data, s.labels) /\ PointsHold(s.data, dim, rows) /\ SaidBy(s.labels, rows)
SourceHolds(s, dim, rows) ==
  rows \in Seq(Row(dim)) /\ (PlainHolds(s, dim, rows) \/ LabeledHolds(s, dim, rows))

LEMMA PointsAnswer ==
  ASSUME NEW dim \in Nat \ {0}, NEW s, NEW rows, Len(rows) \in Nat, PointsHold(s, dim, rows), NEW i \in Nat
  PROVE  /\ i < Len(rows) => DensePoint(s, i) = Ok(rows[i + 1].point)
         /\ i >= Len(rows) => DensePoint(s, i) = Err(DataAccessError(i))
         /\ DenseLen(s) = Len(rows) /\ s.kind = "dense" /\ s.dim = dim
<1>1. s \in DenseOf(dim) /\ DenseLen(s) = Len(rows) /\ \A k \in 1..Len(rows) : rows[k].point = Block(s.data, dim, k - 1)
  BY DEF PointsHold
<1>2. i < Len(rows) => DensePoint(s, i) = Ok(Block(s.data, dim, i))
  BY <1>1, DensePointIs
<1>3. i >= Len(rows) => DensePoint(s, i) = Err(DataAccessError(i))
  BY <1>1, DensePointIs
<1>4. i < Len(rows) => i + 1 \in 1..Len(rows) /\ (i + 1) - 1 = i
  OBVIOUS
<1>5. i < Len(rows) => rows[i + 1].point = Block(s.data, dim, i)
  BY <1>1, <1>4
<1>6. s.kind = "dense" /\ s.dim = dim
  BY <1>1 DEF DenseOf
<1> QED
  BY <1>1, <1>2, <1>3, <1>5, <1>6

LEMMA SourceAnswers ==
  ASSUME NEW dim \in Nat \ {0}, NEW s, NEW rows, SourceHolds(s, dim, rows)
  PROVE  /\ SourceLen(s) = Len(rows) /\ s.kind \in {"dense", "labeled"}
         /\ \A i \in Nat : i < Len(rows) => /\ SourcePoint(s, i) = Ok(rows[i + 1].point)
                                            /\ SourceLabel(s, i) = Ok(rows[i + 1].label)
         /\ \A i \in Nat : i >= Len(rows) => SourcePoint(s, i) = Err(DataAccessError(i))
<1>0. Len(rows) \in Nat
  BY DEF SourceHolds
<1>1. CASE PlainHolds(s, dim, rows)
  <2>1. PointsHold(s, dim, rows) /\ NothingSaid(rows)
    BY <1>1 DEF PlainHolds
  <2>2. s.kind = "dense" /\ DenseLen(s) = Len(rows)
    BY <1>0, <2>1, PointsAnswer, 0 \in Nat
  <2>3. \A i \in Nat : SourcePoint(s, i) = DensePoint(s, i) /\ SourceLabel(s, i) = Ok(NoLabel)
    BY <2>2 DEF SourcePoint, SourceLabel
  <2>4. \A i \in Nat : i < Len(rows) => rows[i + 1].label = NoLabel
    BY <1>0, <2>1 DEF NothingSaid
  <2>5. SourceLen(s) = Len(rows)
    BY <2>2 DEF SourceLen
  <2>6. \A i \in Nat : /\ i < Len(rows) => DensePoint(s, i) = Ok(rows[i + 1].point)
                       /\ i >= Len(rows) => DensePoint(s, i) = Err(DataAccessError(i))
    BY <1>0, <2>1, PointsAnswer
  <2> QED
    BY <2>2, <2>3, <2>4, <2>5, <2>6
<1>2. CASE LabeledHolds(s, dim, rows)
  <2>1. PointsHold(s.data, dim, rows) /\ SaidBy(s.labels, rows) /\ s.kind = "labeled"
    BY <1>2 DEF LabeledHolds, LabeledCloud
  <2>2. DenseLen(s.data) = Len(rows)
    BY <1>0, <2>1, PointsAnswer, 0 \in Nat
  <2>3. \A i \in Nat : SourcePoint(s, i) = DensePoint(s.data, i) /\ SourceLabel(s, i) = LabelOf(s.labels, i)
    BY <2>1 DEF SourcePoint, SourceLabel
  <2>4. \A i \in Nat : i < Len(rows) => LabelOf(s.labels, i) = Ok(rows[i + 1].label)
    <3> SUFFICES ASSUME NEW i \in Nat, i < Len(rows) PROVE LabelOf(s.labels, i) = Ok(rows[i + 1].label)
      OBVIOUS
    <3>1. i + 1 \in 1..Len(rows) /\ (i + 1) - 1 = i
      BY <1>0
    <3> QED
      BY <2>1, <3>1 DEF SaidBy
  <2>5. SourceLen(s) = Len(rows)
    BY <2>1, <2>2 DEF SourceLen
  <2> QED
    BY <1>0, <2>1, <2>3, <2>4, <2>5, PointsAnswer
<1> QED
  BY <1>1, <1>2 DEF SourceHolds

-----------------------------------------------------------------------------
(* HashGluedCloud::new gives every point of every source an index.         *)
AddressedAt(as, p, n, lens, ends) ==
  \E k \in 1..n : \E o \in 0..(lens[k] - 1) : as[p] = <<k, o>> /\ p = ends[k - 1] + o
AddressesOf(as, n, lens, ends) ==
  DOMAIN as = 0..(ends[n] - 1) /\ \A p \in DOMAIN as : AddressedAt(as, p, n, lens, ends)

LEMMA GluedAddresses ==
  ASSUME NEW n \in Nat, NEW ss, DOMAIN ss = 1..n, Len(ss) = n, NEW lens \in [1..n -> Nat],
         \A k \in 1..n : SourceLen(ss[k]) = lens[k]
  PROVE  \E ends : Ends(n, lens, ends) /\ AddressesOf(GluedCloud(ss).addresses, n, lens, ends)
<1> DEFINE Solves(h) == h = [k \in 0..n |-> IF k = 0 THEN 0 ELSE h[k - 1] + SourceLen(ss[k])]
           before == CHOOSE h : Solves(h)
           owner(p) == Min({k \in 1..n : p < before[k]})
           as == [p \in 0..(before[n] - 1) |-> <<owner(p), p - before[owner(p) - 1]>>]
<1>1. GluedCloud(ss).addresses = as
  BY DEF GluedCloud
<1>2. ASSUME NEW h PROVE Solves(h) <=> SolvesEnds(n, lens, h)
  <2>1. \A k \in 0..n : k # 0 => k \in 1..n
    OBVIOUS
  <2>2. [k \in 0..n |-> IF k = 0 THEN 0 ELSE h[k - 1] + SourceLen(ss[k])]
          = [k \in 0..n |-> IF k = 0 THEN 0 ELSE h[k - 1] + lens[k]]
    BY <2>1
  <2> QED
    BY <2>2 DEF SolvesEnds
<1> HIDE DEF Solves
<1>3. Solves(before)
  <2>1. \E h : Solves(h)
    BY <1>2, EndsExist
  <2> QED
    BY <2>1
<1> HIDE DEF before
<1>4. Ends(n, lens, before)
  BY <1>2, <1>3, SolvedEnds
<1>5. ASSUME NEW p \in 0..(before[n] - 1) PROVE AddressedAt(as, p, n, lens, before)
  <2>1. before[n] \in Nat /\ \A k \in 0..n : before[k] \in Nat
    BY <1>4 DEF Ends
  <2>2. p \in Nat /\ p < before[n]
    BY <2>1
  <2>3. PICK k \in 1..n : /\ before[k - 1] <= p /\ p < before[k]
                          /\ \A j \in 0..(k - 1) : before[j] <= p
    BY <1>4, <2>2, PlaceIn
  <2> DEFINE T == {j \in 1..n : p < before[j]}
  <2>4. T \in SUBSET Nat /\ k \in T
    BY <2>3
  <2>5. \A j \in T : k <= j
    <3> SUFFICES ASSUME NEW j \in T, ~(k <= j) PROVE FALSE
      OBVIOUS
    <3>1. j \in 0..(k - 1) /\ j \in 0..n /\ p < before[j]
      OBVIOUS
    <3>2. before[j] <= p /\ before[j] \in Nat
      BY <2>1, <2>3, <3>1
    <3> QED
      BY <2>2, <3>1, <3>2
  <2>6. owner(p) = Min(T)
    OBVIOUS
  <2> HIDE DEF T
  <2>7. Min(T) \in T /\ \A x \in T : Min(T) <= x
    <3>1. T # {}
      BY <2>4
    <3> QED
      BY <2>4, <3>1, MinOfNaturals
  <2>8. Min(T) = k
    <3>1. Min(T) <= k /\ k <= Min(T) /\ Min(T) \in Nat /\ k \in Nat
      BY <2>4, <2>5, <2>7
    <3> QED
      BY <3>1
  <2>9. owner(p) = k
    BY <2>6, <2>8
  <2>10. as[p] = <<k, p - before[k - 1]>>
    BY <2>9
  <2> HIDE DEF as, owner
  <2> DEFINE o == p - before[k - 1]
  <2>11. before[k] = before[k - 1] + lens[k] /\ lens[k] \in Nat /\ before[k - 1] \in Nat
    <3>1. k - 1 \in 0..n
      OBVIOUS
    <3> QED
      BY <1>4, <2>1, <3>1 DEF Ends
  <2>12. o \in 0..(lens[k] - 1) /\ p = before[k - 1] + o
    BY <2>2, <2>3, <2>11
  <2> HIDE DEF o
  <2>13. as[p] = <<k, o>>
    BY <2>10 DEF o
  <2> QED
    BY <2>12, <2>13 DEF AddressedAt
<1>6. DOMAIN as = 0..(before[n] - 1)
  OBVIOUS
<1> HIDE DEF as
<1>7. AddressesOf(as, n, lens, before)
  BY <1>5, <1>6 DEF AddressesOf
<1> QED
  BY <1>1, <1>4, <1>7

(* Sources glued together, and the rows their indexes stand for.           *)
GluedHolds(ss, dim, n, rs, ends, rows) ==
  /\ n \in Nat /\ DOMAIN ss = 1..n /\ LaidOut(rs, n, ends, rows) /\ rows \in Seq(Row(dim))
  /\ \A k \in 1..n : SourceHolds(ss[k], dim, rs[k])
StandsFor(as, origin, i, n, rs, ends) ==
  \E k \in 1..n : \E o \in 0..(Len(rs[k]) - 1) : as[i] = <<k, o>> /\ origin[i] = ends[k - 1] + o
IndexesHold(as, origin, n, rs, ends) ==
  /\ DOMAIN as = DOMAIN origin /\ IsFiniteSet(DOMAIN as) /\ Cardinality(DOMAIN as) = ends[n]
  /\ \A i \in DOMAIN as : StandsFor(as, origin, i, n, rs, ends)

AnswersRow(c, i, rows, p) ==
  p \in 1..Len(rows) /\ Point(c, i) = Ok(rows[p].point) /\ Label(c, i) = Ok(rows[p].label)
Answers(c, rows, origin) ==
  /\ ReferenceIndexes(c) = DOMAIN origin /\ CloudLen(c) = Len(rows)
  /\ IsFiniteSet(ReferenceIndexes(c)) /\ Cardinality(ReferenceIndexes(c)) = CloudLen(c)
  /\ \A i \in DOMAIN origin : AnswersRow(c, i, rows, origin[i] + 1)

LEMMA LaidOutFields ==
  ASSUME NEW ss, NEW n, NEW ends, NEW flat, LaidOut(ss, n, ends, flat)
  PROVE  /\ n \in Nat /\ DOMAIN ss = 1..n /\ Len(flat) = ends[n] /\ ends[n] \in Nat
         /\ \A k \in 1..n : /\ ends[k - 1] \in Nat /\ Len(ss[k]) \in Nat /\ ends[k] \in Nat
                            /\ ends[k] = ends[k - 1] + Len(ss[k]) /\ ends[k] <= Len(flat)
         /\ \A k \in 1..n : \A e \in 1..Len(ss[k]) :
              ends[k - 1] + e \in 1..Len(flat) /\ flat[ends[k - 1] + e] = ss[k][e]
<1> DEFINE lens == [k \in 1..n |-> Len(ss[k])]
<1>1. /\ Ends(n, lens, ends) /\ DOMAIN ss = 1..n /\ Len(flat) = ends[n]
      /\ \A k \in 1..n : \A e \in 1..Len(ss[k]) : flat[ends[k - 1] + e] = ss[k][e]
      /\ \A k \in 1..n : lens[k] = Len(ss[k])
  BY DEF LaidOut
<1> HIDE DEF lens
<1>2. n \in Nat /\ lens \in [1..n -> Nat] /\ (\A k \in 0..n : ends[k] \in Nat)
      /\ \A k \in 1..n : ends[k] = ends[k - 1] + lens[k]
  BY <1>1 DEF Ends
<1>3. ends[n] \in Nat
  BY <1>2
<1>4. ASSUME NEW k \in 1..n
      PROVE  /\ ends[k - 1] \in Nat /\ Len(ss[k]) \in Nat /\ ends[k] \in Nat
             /\ ends[k] = ends[k - 1] + Len(ss[k]) /\ ends[k] <= Len(flat)
  <2>1. k \in 0..n /\ k - 1 \in 0..n /\ n \in k..n
    BY <1>2
  <2>2. ends[k] <= ends[n]
    BY <1>1, <2>1, EndsGrow
  <2> QED
    BY <1>1, <1>2, <2>1, <2>2
<1>5. ASSUME NEW k \in 1..n, NEW e \in 1..Len(ss[k])
      PROVE  ends[k - 1] + e \in 1..Len(flat) /\ flat[ends[k - 1] + e] = ss[k][e]
  <2>1. flat[ends[k - 1] + e] = ss[k][e]
    BY <1>1
  <2>2. /\ ends[k - 1] \in Nat /\ Len(ss[k]) \in Nat /\ ends[k] \in Nat /\ Len(flat) \in Nat
        /\ ends[k] = ends[k - 1] + Len(ss[k]) /\ ends[k] <= Len(flat)
    BY <1>1, <1>3, <1>4
  <2> QED
    BY <2>1, <2>2
<1> QED
  BY <1>1, <1>2, <1>3, <1>4, <1>5

LaidAt(ss, ends, flat, k, e) ==
  ends[k - 1] + e \in 1..Len(flat) /\ flat[ends[k - 1] + e] = ss[k][e] /\ ends[k - 1] \in Nat

LEMMA LaidOutAt ==
  ASSUME NEW ss, NEW n, NEW ends, NEW flat, LaidOut(ss, n, ends, flat), NEW k \in 1..n, NEW e \in 1..Len(ss[k])
  PROVE  LaidAt(ss, ends, flat, k, e)
<1>1. \A j \in 1..n : \A i \in 1..Len(ss[j]) : ends[j - 1] + i \in 1..Len(flat) /\ flat[ends[j - 1] + i] = ss[j][i]
  BY LaidOutFields
<1>2. \A j \in 1..n : ends[j - 1] \in Nat
  BY LaidOutFields
<1> QED
  BY <1>1, <1>2 DEF LaidAt

LEMMA GluedAnswers ==
  ASSUME NEW dim \in Nat \ {0}, NEW n, NEW ss, NEW rs, NEW ends, NEW rows, GluedHolds(ss, dim, n, rs, ends, rows),
         NEW as, NEW origin, IndexesHold(as, origin, n, rs, ends)
  PROVE  Answers(GluedOf(ss, as), rows, origin)
<1> DEFINE c == GluedOf(ss, as)
           lens == [k \in 1..n |-> Len(rs[k])]
<1>1. c.kind = "glued" /\ c.sources = ss /\ c.addresses = as
  BY DEF GluedOf
<1> HIDE DEF c
<1>2. /\ n \in Nat /\ DOMAIN ss = 1..n /\ LaidOut(rs, n, ends, rows)
      /\ \A k \in 1..n : SourceHolds(ss[k], dim, rs[k])
  BY DEF GluedHolds
<1>3. Ends(n, lens, ends) /\ \A k \in 1..n : lens[k] = Len(rs[k]) /\ SourceLen(ss[k]) = lens[k]
  BY <1>2, SourceAnswers DEF LaidOut
<1>4. /\ Len(rows) = ends[n]
      /\ \A k \in 1..n : ends[k - 1] \in Nat /\ Len(rs[k]) \in Nat
      /\ \A k \in 1..n : \A e \in 1..Len(rs[k]) :
           ends[k - 1] + e \in 1..Len(rows) /\ rows[ends[k - 1] + e] = rs[k][e]
  <2>1. LaidOut(rs, n, ends, rows)
    BY <1>2
  <2>2. Len(rows) = ends[n]
    BY <2>1, LaidOutFields
  <2>3. \A k \in 1..n : ends[k - 1] \in Nat /\ Len(rs[k]) \in Nat
    BY <2>1, LaidOutFields
  <2>4. \A k \in 1..n : \A e \in 1..Len(rs[k]) :
           ends[k - 1] + e \in 1..Len(rows) /\ rows[ends[k - 1] + e] = rs[k][e]
    BY <2>1, LaidOutFields
  <2> QED
    BY <2>2, <2>3, <2>4
<1>5. CloudLen(c) = Len(rows)
  <2> DEFINE f == [k \in 1..n |-> SourceLen(ss[k])]
  <2>1. CloudLen(c) = SumFunction(f)
    BY <1>1, <1>2 DEF CloudLen, SumOver
  <2>2. f = lens
    BY <1>3
  <2>3. lens = [k \in 1..n |-> lens[k]]
    OBVIOUS
  <2> HIDE DEF f, lens
  <2>4. SumFunction([k \in 1..n |-> lens[k]]) = SumFunctionOnSet([k \in 1..n |-> lens[k]], 1..n)
    BY SumOverIs
  <2>5. CloudLen(c) = SumFunctionOnSet(lens, 1..n)
    BY <2>1, <2>2, <2>3, <2>4
  <2>6. SumFunctionOnSet(lens, 1..n) = ends[n]
    BY <1>3, SumIsEnd
  <2> QED
    BY <2>5, <2>6, <1>4
<1> HIDE DEF lens
<1>6. /\ DOMAIN as = DOMAIN origin /\ IsFiniteSet(DOMAIN as) /\ Cardinality(DOMAIN as) = ends[n]
      /\ \A i \in DOMAIN as : StandsFor(as, origin, i, n, rs, ends)
  BY DEF IndexesHold
<1>7. ReferenceIndexes(c) = DOMAIN as
  BY <1>1 DEF ReferenceIndexes
<1>8. ASSUME NEW i \in DOMAIN origin PROVE AnswersRow(c, i, rows, origin[i] + 1)
  <2>1. PICK k \in 1..n : \E o \in 0..(Len(rs[k]) - 1) : as[i] = <<k, o>> /\ origin[i] = ends[k - 1] + o
    BY <1>6 DEF StandsFor
  <2>2. PICK o \in 0..(Len(rs[k]) - 1) : as[i] = <<k, o>> /\ origin[i] = ends[k - 1] + o
    BY <2>1
  <2>3. o \in Nat /\ o < Len(rs[k]) /\ o + 1 \in 1..Len(rs[k]) /\ origin[i] + 1 = ends[k - 1] + (o + 1)
    <3> DEFINE m == Len(rs[k])
               a == ends[k - 1]
    <3>1. a \in Nat /\ m \in Nat /\ o \in 0..(m - 1) /\ origin[i] = a + o
      BY <1>4, <2>2
    <3> HIDE DEF m, a
    <3>2. o \in Nat /\ o < m /\ o + 1 \in 1..m /\ origin[i] + 1 = a + (o + 1)
      BY <3>1
    <3> QED
      BY <3>2 DEF m, a
  <2>4. SourceHolds(ss[k], dim, rs[k])
    BY <1>2
  <2>5. SourcePoint(ss[k], o) = Ok(rs[k][o + 1].point) /\ SourceLabel(ss[k], o) = Ok(rs[k][o + 1].label)
    BY <2>3, <2>4, SourceAnswers
  <2>6. origin[i] + 1 \in 1..Len(rows) /\ rows[origin[i] + 1] = rs[k][o + 1]
    BY <1>4, <2>3
  <2>7. ~Failed(GetAddress(c, i)) /\ c.addresses[i][1] = k /\ c.addresses[i][2] = o
    BY <1>1, <1>6, <2>2 DEF GetAddress, Failed, Ok
  <2>8. Point(c, i) = SourcePoint(ss[k], o) /\ Label(c, i) = SourceLabel(ss[k], o)
    BY <1>1, <2>7 DEF Point, Label
  <2> QED
    BY <2>5, <2>6, <2>8 DEF AnswersRow
<1>9. Answers(c, rows, origin)
  BY <1>4, <1>5, <1>6, <1>7, <1>8 DEF Answers
<1> QED
  BY <1>9 DEF c

LEMMA SourceAnswersAll ==
  ASSUME NEW dim \in Nat \ {0}, NEW c, NEW rows, SourceHolds(c, dim, rows)
  PROVE  Answers(c, rows, Identity(Len(rows)))
<1> DEFINE n == Len(rows)
           origin == Identity(n)
<1>1. n \in Nat
  BY DEF SourceHolds
<1>2. DOMAIN origin = 0..(n - 1) /\ \A i \in 0..(n - 1) : origin[i] = i
  BY DEF Identity
<1>3. /\ SourceLen(c) = n /\ c.kind \in {"dense", "labeled"}
      /\ \A i \in Nat : i < n => SourcePoint(c, i) = Ok(rows[i + 1].point) /\ SourceLabel(c, i) = Ok(rows[i + 1].label)
  BY SourceAnswers
<1> HIDE DEF n, origin
<1>4. CloudLen(c) = n
  BY <1>3 DEF CloudLen
<1>5. ReferenceIndexes(c) = 0..(n - 1)
  BY <1>3 DEF ReferenceIndexes, DenseReferences, SourceLen
<1>6. IsFiniteSet(0..(n - 1)) /\ Cardinality(0..(n - 1)) = n
  <2>1. /\ IsFiniteSet(0..(n - 1))
        /\ Cardinality(0..(n - 1)) = IF 0 > n - 1 THEN 0 ELSE (n - 1) - 0 + 1
    BY <1>1, FS_Interval, 0 \in Int, n - 1 \in Int
  <2> QED
    BY <1>1, <2>1
<1>7. ASSUME NEW i \in 0..(n - 1) PROVE AnswersRow(c, i, rows, i + 1)
  <2>1. i \in Nat /\ i < n /\ i + 1 \in 1..n
    BY <1>1
  <2>2. Point(c, i) = SourcePoint(c, i) /\ Label(c, i) = SourceLabel(c, i)
    BY <1>3 DEF Point, Label
  <2> QED
    BY <1>3, <2>1, <2>2 DEF AnswersRow, n
<1>8. Answers(c, rows, origin)
  BY <1>2, <1>4, <1>5, <1>6, <1>7 DEF Answers, n
<1> QED
  BY <1>8 DEF origin, n

-----------------------------------------------------------------------------
(* What is open holds the rows that are expected of it.                    *)
RowsHold(c, e, dim) ==
  /\ e = [rows |-> e.rows, origin |-> e.origin, doubts |-> {}]
  /\ c.kind \in {"dense", "labeled"} => SourceHolds(c, dim, e.rows) /\ e.origin = Identity(Len(e.rows))
  /\ c.kind = "dense" => Len(c.data) % dim = 0
  /\ c.kind = "glued" => \E n, rs, ends : /\ GluedHolds(c.sources, dim, n, rs, ends, e.rows)
                                          /\ IndexesHold(c.addresses, e.origin, n, rs, ends)
FilesHold(c, e) ==
  (IsOpen(c) /\ e # NoCloud) => /\ c.kind \in {"dense", "labeled", "glued", "sparse"}
                                /\ \E dim \in 1..MaxFloats : RowsHold(c, e, dim)

(* Where the labels of a cloud are doubtful, it holds the points that are   *)
(* expected of it.                                                         *)
SamePoints(xs, ys) == Len(xs) = Len(ys) /\ \A k \in 1..Len(ys) : xs[k].point = ys[k].point
DoubtHolds(c, e) ==
  /\ c.kind = "labeled" /\ c.data.kind = "dense" /\ e.doubts # {}
  /\ \E dim \in 1..MaxFloats : \E rows : /\ SourceHolds(c.data, dim, rows)
                                         /\ e.origin = Identity(Len(rows)) /\ SamePoints(e.rows, rows)
CloudsHold == FilesHold(cloud, expected) \/ DoubtHolds(cloud, expected)

LEMMA WithoutDoubt ==
  ASSUME CloudsHold, ~IsKind(cloud, "labeled")
  PROVE  FilesHold(cloud, expected)
BY DEF CloudsHold, FilesHold, DoubtHolds, IsKind

LEMMA OpenedHolds ==
  ASSUME NEW cfg, NEW r, NEW open, NEW want, Opened(cfg, r, open, want),
         (~Failed(r) /\ want # NoCloud) => FilesHold(r.val, want) \/ DoubtHolds(r.val, want)
  PROVE  CloudsHold'
<1>1. CASE Failed(r)
  <2>1. expected' = NoCloud
    BY <1>1 DEF Opened
  <2> QED
    BY <2>1 DEF CloudsHold, FilesHold
<1>2. CASE ~Failed(r)
  <2>1. cloud' = r.val /\ expected' = want
    BY <1>2 DEF Opened
  <2>2. want = NoCloud => FilesHold(r.val, want)
    BY DEF FilesHold
  <2> QED
    BY <1>2, <2>1, <2>2 DEF CloudsHold
<1> QED
  BY <1>1, <1>2

Numbered(rows) == [rows |-> rows, origin |-> Identity(Len(rows)), doubts |-> {}]
LaysOut(ss, n, flat) ==
  \A ends : Ends(n, [k \in 1..n |-> Len(ss[k])], ends) => LaidOut(ss, n, ends, flat)

LEMMA GluedIsHeld ==
  ASSUME NEW dim \in 1..MaxFloats, NEW n \in Nat, NEW ss, DOMAIN ss = 1..n, Len(ss) = n,
         NEW rs, \A k \in 1..n : SourceHolds(ss[k], dim, rs[k]),
         NEW rows \in Seq(Row(dim)), LaysOut(rs, n, rows)
  PROVE  FilesHold(GluedCloud(ss), Numbered(rows))
<1> DEFINE lens == [k \in 1..n |-> Len(rs[k])]
           c == GluedCloud(ss)
           e == Numbered(rows)
<1>0. dim \in Nat \ {0}
  BY SourcesAssumption
<1>1. \A k \in 1..n : SourceLen(ss[k]) = lens[k] /\ lens[k] \in Nat
  <2> SUFFICES ASSUME NEW k \in 1..n PROVE SourceLen(ss[k]) = Len(rs[k]) /\ Len(rs[k]) \in Nat
    OBVIOUS
  <2>1. SourceHolds(ss[k], dim, rs[k])
    OBVIOUS
  <2>2. rs[k] \in Seq(Row(dim))
    BY <2>1 DEF SourceHolds
  <2> QED
    BY <1>0, <2>1, <2>2, SourceAnswers
<1>2. lens \in [1..n -> Nat]
  BY <1>1
<1>3. PICK ends : Ends(n, lens, ends) /\ AddressesOf(c.addresses, n, lens, ends)
  <2> HIDE DEF lens
  <2> QED
    BY <1>1, <1>2, GluedAddresses
<1>4. LaidOut(rs, n, ends, rows)
  BY <1>3 DEF LaysOut
<1>5. GluedHolds(ss, dim, n, rs, ends, rows)
  BY <1>4 DEF GluedHolds
<1>6. c.kind = "glued" /\ c.sources = ss
  BY GluedFields
<1>7. e.rows = rows /\ e.origin = Identity(Len(rows))
  BY DEF Numbered
<1> DEFINE as == c.addresses
           origin == e.origin
           m == ends[n]
<1>8. Len(rows) = m /\ m \in Nat
  BY <1>4, LaidOutFields
<1>9. DOMAIN origin = 0..(m - 1) /\ \A p \in 0..(m - 1) : origin[p] = p
  BY <1>7, <1>8 DEF Identity
<1>10. DOMAIN as = 0..(m - 1) /\ \A p \in DOMAIN as : AddressedAt(as, p, n, lens, ends)
  BY <1>3 DEF AddressesOf
<1>11. IsFiniteSet(0..(m - 1)) /\ Cardinality(0..(m - 1)) = m
  <2> HIDE DEF m
  <2>1. /\ IsFiniteSet(0..(m - 1))
        /\ Cardinality(0..(m - 1)) = IF 0 > m - 1 THEN 0 ELSE (m - 1) - 0 + 1
    BY <1>8, FS_Interval, 0 \in Int, m - 1 \in Int
  <2> QED
    BY <1>8, <2>1
<1> HIDE DEF as, origin
<1>12. ASSUME NEW p \in DOMAIN as PROVE StandsFor(as, origin, p, n, rs, ends)
  <2>1. AddressedAt(as, p, n, lens, ends) /\ origin[p] = p
    BY <1>9, <1>10
  <2> HIDE DEF lens
  <2>2. PICK k \in 1..n : \E o \in 0..(lens[k] - 1) : as[p] = <<k, o>> /\ p = ends[k - 1] + o
    BY <2>1 DEF AddressedAt
  <2>3. lens[k] = Len(rs[k])
    BY DEF lens
  <2>4. \E o \in 0..(Len(rs[k]) - 1) : as[p] = <<k, o>> /\ origin[p] = ends[k - 1] + o
    BY <2>1, <2>2, <2>3
  <2> QED
    BY <2>4 DEF StandsFor
<1> HIDE DEF lens
<1>13. IndexesHold(as, origin, n, rs, ends)
  BY <1>9, <1>10, <1>11, <1>12 DEF IndexesHold
<1> HIDE DEF c, e
<1>14. RowsHold(c, e, dim)
  <2>1. e = [rows |-> e.rows, origin |-> e.origin, doubts |-> {}]
    BY DEF e, Numbered
  <2> QED
    BY <2>1, <1>5, <1>6, <1>7, <1>13 DEF RowsHold, as, origin
<1>15. FilesHold(c, e)
  BY <1>6, <1>14 DEF FilesHold
<1> QED
  BY <1>15 DEF c, e

(* Points and labels side by side.                                         *)
Beside(ps, ls) == Expect(ps, ls).rows
AreLabels(ls, n) == \A k \in 1..n : ls[k] \in Seen

LEMMA ZipIs ==
  ASSUME NEW B, NEW ps \in Seq(B), NEW ls
  PROVE  /\ Len(Beside(ps, ls)) = Len(ps) /\ Expect(ps, ls) = Numbered(Beside(ps, ls))
         /\ \A k \in 1..Len(ps) : Beside(ps, ls)[k] = [point |-> ps[k], label |-> ls[k]]
         /\ \A C : AreLabels(ls, Len(ps)) /\ B = Points(C) => Beside(ps, ls) \in Seq(Row(C))
<1> DEFINE n == Len(ps)
           w == [k \in 1..n |-> [point |-> ps[k], label |-> ls[k]]]
<1>1. n \in Nat /\ DOMAIN ps = 1..n /\ \A k \in 1..n : ps[k] \in B
  OBVIOUS
<1>2. Beside(ps, ls) = w /\ Expect(ps, ls) = [rows |-> w, origin |-> Identity(n), doubts |-> {}]
  BY <1>1 DEF Beside, Expect
<1> HIDE DEF n
<1>3. Len(w) = n
  BY <1>1
<1>4. \A k \in 1..n : w[k] = [point |-> ps[k], label |-> ls[k]]
  OBVIOUS
<1>5. ASSUME NEW C, AreLabels(ls, n), B = Points(C) PROVE w \in Seq(Row(C))
  <2>1. \A k \in 1..n : w[k] \in Row(C)
    BY <1>1, <1>5 DEF Row, AreLabels
  <2> DEFINE R == Row(C)
  <2> HIDE DEF R
  <2>2. w \in [1..n -> R]
    BY <2>1 DEF R
  <2> HIDE DEF w
  <2>3. w \in Seq(R)
    BY <1>1, <2>2
  <2> QED
    BY <2>3 DEF R
<1> HIDE DEF w
<1> QED
  BY <1>2, <1>3, <1>4, <1>5 DEF Numbered, n

SameLabels(ps, ls, labels, n, ends) ==
  \A k \in 1..n : \A i \in 1..Len(ps[k]) : labels[ends[k - 1] + i] = ls[k][i]

LEMMA ZippedLays ==
  ASSUME NEW B, NEW n \in Nat, NEW ps \in [1..n -> Seq(B)], NEW points \in Seq(B), NEW ends,
         LaidOut(ps, n, ends, points), NEW ls, NEW labels, SameLabels(ps, ls, labels, n, ends)
  PROVE  LaidOut([k \in 1..n |-> Beside(ps[k], ls[k])], n, ends, Beside(points, labels))
<1> DEFINE rs == [k \in 1..n |-> Beside(ps[k], ls[k])]
           all == Beside(points, labels)
<1>1. \A k \in 1..n : /\ Len(rs[k]) = Len(ps[k])
                      /\ \A i \in 1..Len(ps[k]) : rs[k][i] = [point |-> ps[k][i], label |-> ls[k][i]]
  BY ZipIs
<1>2. Len(all) = Len(points) /\ \A i \in 1..Len(points) : all[i] = [point |-> points[i], label |-> labels[i]]
  BY ZipIs
<1>3. DOMAIN rs = 1..n
  OBVIOUS
<1> HIDE DEF rs, all
<1>4. Len(points) = ends[n]
  BY LaidOutFields
<1>5. Ends(n, [k \in 1..n |-> Len(rs[k])], ends)
  <2>1. [k \in 1..n |-> Len(rs[k])] = [k \in 1..n |-> Len(ps[k])]
    BY <1>1
  <2> QED
    BY <2>1 DEF LaidOut
<1>6. ASSUME NEW k \in 1..n, NEW i \in 1..Len(rs[k]) PROVE all[ends[k - 1] + i] = rs[k][i]
  <2>1. i \in 1..Len(ps[k])
    BY <1>1
  <2>4. LaidAt(ps, ends, points, k, i)
    BY <2>1, LaidOutAt
  <2>2. ends[k - 1] + i \in 1..Len(points) /\ points[ends[k - 1] + i] = ps[k][i]
    BY <2>4 DEF LaidAt
  <2>3. labels[ends[k - 1] + i] = ls[k][i]
    BY <2>1 DEF SameLabels
  <2> QED
    BY <1>1, <1>2, <2>1, <2>2, <2>3
<1>7. LaidOut(rs, n, ends, all)
  BY <1>2, <1>3, <1>4, <1>5, <1>6 DEF LaidOut
<1> QED
  BY <1>7 DEF rs, all

(* The rows of files, one file after another.                              *)
RowsOfEach(fs, n, d) == [k \in 1..n |-> Rows(fs[k], d)]

LEMMA RowsLayOut ==
  ASSUME NEW d \in Nat \ {0}, NEW n \in Nat, NEW fs \in [1..n -> Seq(Int)]
  PROVE  /\ RowsOfEach(fs, n, d) \in [1..n -> Seq(Points(d))]
         /\ RowsOfAll(fs, n, d) = FlattenSeq(RowsOfEach(fs, n, d))
         /\ RowsOfAll(fs, n, d) \in Seq(Points(d)) /\ LaysOut(RowsOfEach(fs, n, d), n, RowsOfAll(fs, n, d))
<1> DEFINE B == Points(d)
           rs == RowsOfEach(fs, n, d)
           lens == [k \in 1..n |-> Len(rs[k])]
           all == RowsOfAll(fs, n, d)
<1>1. rs \in [1..n -> Seq(B)]
  <2>1. \A k \in 1..n : Rows(fs[k], d) \in Seq(B)
    BY RowsAre
  <2> QED
    BY <2>1 DEF RowsOfEach
<1>2. all = FlattenSeq(rs)
  BY DEF RowsOfAll, RowsOfEach
<1>3. lens \in [1..n -> Nat] /\ \A k \in 1..n : lens[k] = Len(rs[k])
  BY <1>1
<1> HIDE DEF B, rs, lens, all
<1>4. PICK h : SolvesEnds(n, lens, h)
  BY <1>3, EndsExist
<1>5. Ends(n, lens, h)
  BY <1>3, <1>4, SolvedEnds
<1>6. all \in Seq(B)
  BY <1>1, <1>2, <1>3, <1>5, FlattenedIsLaidOut
<1>7. ASSUME NEW ends, Ends(n, [k \in 1..n |-> Len(rs[k])], ends) PROVE LaidOut(rs, n, ends, all)
  <2>1. Ends(n, lens, ends)
    BY <1>7 DEF lens
  <2> QED
    BY <1>1, <1>2, <1>3, <2>1, FlattenedIsLaidOut
<1>8. LaysOut(rs, n, all)
  BY <1>7 DEF LaysOut
<1> QED
  BY <1>1, <1>2, <1>6, <1>8 DEF B, rs, all

LEMMA FloatsHold ==
  ASSUME NEW d \in Nat \ {0}, NEW floats \in Seq(Int), NEW ls
  PROVE  PointsHold(FloatsIn(d, floats), d, Beside(Rows(floats, d), ls))
<1> DEFINE ps == Rows(floats, d)
           s == FloatsIn(d, floats)
           rows == Beside(ps, ls)
           m == Len(floats) \div d
<1>1. s \in DenseOf(d)
  BY FloatsAreDense
<1>2. s.data = floats /\ s.dim = d
  BY DEF FloatsIn
<1>3. ps \in Seq(Points(d)) /\ Len(ps) = m /\ \A k \in 1..m : ps[k] = Block(floats, d, k - 1)
  BY RowsAre
<1>4. Len(rows) = Len(ps) /\ \A k \in 1..Len(ps) : rows[k] = [point |-> ps[k], label |-> ls[k]]
  BY <1>3, ZipIs
<1>5. DenseLen(s) = m
  BY <1>2 DEF DenseLen
<1> HIDE DEF ps, s, rows, m
<1>6. \A k \in 1..m : rows[k].point = Block(s.data, d, k - 1)
  BY <1>2, <1>3, <1>4
<1> QED
  BY <1>1, <1>3, <1>4, <1>5, <1>6 DEF PointsHold, ps, s, rows

LEMMA PlainFloatsHold ==
  ASSUME NEW d \in Nat \ {0}, NEW floats \in Seq(Int)
  PROVE  SourceHolds(FloatsIn(d, floats), d, Beside(Rows(floats, d), Unlabeled(Rows(floats, d))))
<1> DEFINE ps == Rows(floats, d)
           ls == Unlabeled(ps)
           rows == Beside(ps, ls)
<1>1. ps \in Seq(Points(d))
  BY RowsAre
<1>2. \A k \in 1..Len(ps) : ls[k] = NoLabel
  BY <1>1 DEF Unlabeled
<1>3. PointsHold(FloatsIn(d, floats), d, rows)
  BY FloatsHold
<1> HIDE DEF ps, ls
<1>4. Len(rows) = Len(ps) /\ \A k \in 1..Len(ps) : rows[k] = [point |-> ps[k], label |-> ls[k]]
  BY <1>1, ZipIs
<1>5. rows \in Seq(Row(d))
  <2>1. AreLabels(ls, Len(ps))
    BY <1>2 DEF AreLabels, Seen
  <2> QED
    BY <1>1, <2>1, ZipIs
<1> HIDE DEF rows
<1>6. NothingSaid(rows)
  <2> SUFFICES ASSUME NEW k \in 1..Len(rows) PROVE rows[k].label = NoLabel
    BY DEF NothingSaid
  <2>1. k \in 1..Len(ps)
    BY <1>4
  <2>2. rows[k] = [point |-> ps[k], label |-> ls[k]]
    BY <1>4, <2>1
  <2>3. rows[k].label = ls[k]
    BY <2>2
  <2> QED
    BY <1>2, <2>1, <2>3
<1> QED
  BY <1>3, <1>5, <1>6 DEF SourceHolds, PlainHolds, rows, ps, ls

(* The data files of a configuration.                                      *)
DataFloats(cfg) == FloatsFrom(FilesAt(Files, cfg.data_path), Len(cfg.data_path))

LEMMA ConfigData ==
  ASSUME NEW cfg \in Configs
  PROVE  /\ cfg.data_dim \in 1..MaxFloats /\ cfg.data_dim \in Nat \ {0}
         /\ cfg.data_path \in Seq(DOMAIN Files) /\ Len(cfg.data_path) \in Nat
         /\ DataFloats(cfg) \in [1..Len(cfg.data_path) -> Seq(Int)]
         /\ \A k \in 1..Len(cfg.data_path) : DataFloats(cfg)[k] = Files[cfg.data_path[k]].floats
         /\ AllRows(cfg) = RowsOfAll(DataFloats(cfg), Len(cfg.data_path), cfg.data_dim)
         /\ WholePoints(cfg) => AreWhole(DataFloats(cfg), Len(cfg.data_path), cfg.data_dim)
<1> DEFINE paths == cfg.data_path
           n == Len(paths)
           fs == FilesAt(Files, paths)
           d == cfg.data_dim
           fls == DataFloats(cfg)
<1>1. d \in 1..MaxFloats /\ d \in Nat \ {0} /\ paths \in Seq(DOMAIN Files)
  BY ConfigsAssumption, SourcesAssumption
<1>2. HoldFloats(fs, n) /\ n \in Nat /\ DOMAIN paths = 1..n /\ \A k \in 1..n : fs[k] = Files[paths[k]]
  BY <1>1, DataFiles
<1> HIDE DEF n, fs
<1>3. FloatsFrom(fs, n) \in [1..n -> Seq(Int)] /\ \A k \in 1..n : FloatsFrom(fs, n)[k] = fs[k].floats
  BY <1>2, FloatsFromAre
<1>4. fls \in [1..n -> Seq(Int)] /\ \A k \in 1..n : fls[k] = Files[paths[k]].floats
  BY <1>2, <1>3 DEF DataFloats, n, fs
<1> HIDE DEF fls
<1>5. AllRows(cfg) = RowsOfAll(fls, n, d)
  <2>1. AllRows(cfg) = FlattenSeq([k \in 1..n |-> Rows(Files[paths[k]].floats, d)])
    BY <1>2 DEF AllRows
  <2>2. [k \in 1..n |-> Rows(Files[paths[k]].floats, d)] = [k \in 1..n |-> Rows(fls[k], d)]
    BY <1>4
  <2> QED
    BY <2>1, <2>2 DEF RowsOfAll
<1>6. WholePoints(cfg) => AreWhole(fls, n, d)
  BY <1>2, <1>4 DEF WholePoints, AreWhole
<1> QED
  BY <1>1, <1>2, <1>4, <1>5, <1>6 DEF n, fls

PlainRows(floats, d) == Beside(Rows(floats, d), Unlabeled(Rows(floats, d)))
PlainRowsOfEach(fs, n, d) == [k \in 1..n |-> PlainRows(fs[k], d)]
PlainRowsOfAll(fs, n, d) == Beside(RowsOfAll(fs, n, d), Unlabeled(RowsOfAll(fs, n, d)))

LEMMA PlainRowsAre ==
  ASSUME NEW d \in Nat \ {0}, NEW ps \in Seq(Points(d))
  PROVE  /\ Beside(ps, Unlabeled(ps)) \in Seq(Row(d)) /\ Len(Beside(ps, Unlabeled(ps))) = Len(ps)
         /\ \A k \in 1..Len(ps) : Beside(ps, Unlabeled(ps))[k] = [point |-> ps[k], label |-> NoLabel]
<1> DEFINE ls == Unlabeled(ps)
<1>1. \A k \in 1..Len(ps) : ls[k] = NoLabel
  BY DEF Unlabeled
<1> HIDE DEF ls
<1>2. AreLabels(ls, Len(ps))
  BY <1>1 DEF AreLabels, Seen
<1>3. /\ Beside(ps, ls) \in Seq(Row(d)) /\ Len(Beside(ps, ls)) = Len(ps)
      /\ \A k \in 1..Len(ps) : Beside(ps, ls)[k] = [point |-> ps[k], label |-> ls[k]]
  BY <1>2, ZipIs
<1> QED
  BY <1>1, <1>3 DEF ls

LEMMA PlainRowsLayOut ==
  ASSUME NEW d \in Nat \ {0}, NEW n \in Nat, NEW fs \in [1..n -> Seq(Int)]
  PROVE  /\ LaysOut(PlainRowsOfEach(fs, n, d), n, PlainRowsOfAll(fs, n, d))
         /\ PlainRowsOfAll(fs, n, d) \in Seq(Row(d))
         /\ \A k \in 1..n : PlainRowsOfEach(fs, n, d)[k] = PlainRows(fs[k], d)
<1> DEFINE B == Points(d)
           ps == RowsOfEach(fs, n, d)
           all == RowsOfAll(fs, n, d)
           ls == [k \in 1..n |-> Unlabeled(ps[k])]
           labels == Unlabeled(all)
           rs == PlainRowsOfEach(fs, n, d)
<1>1. ps \in [1..n -> Seq(B)] /\ all \in Seq(B) /\ LaysOut(ps, n, all)
  BY RowsLayOut
<1>2. rs = [k \in 1..n |-> Beside(ps[k], ls[k])]
  BY DEF PlainRowsOfEach, PlainRows, RowsOfEach
<1>3. \A k \in 1..n : rs[k] = Beside(ps[k], Unlabeled(ps[k])) /\ rs[k] = PlainRows(fs[k], d)
  BY <1>2 DEF PlainRowsOfEach
<1> HIDE DEF rs, ps, all
<1>4. ASSUME NEW ends, LaidOut(ps, n, ends, all) PROVE LaidOut(rs, n, ends, Beside(all, labels))
  <2>1. SameLabels(ps, ls, labels, n, ends)
    <3> SUFFICES ASSUME NEW k \in 1..n, NEW i \in 1..Len(ps[k])
                 PROVE  labels[ends[k - 1] + i] = ls[k][i]
      BY DEF SameLabels
    <3>1. LaidAt(ps, ends, all, k, i)
      BY <1>4, LaidOutAt
    <3>2. labels[ends[k - 1] + i] = NoLabel
      BY <1>1, <3>1 DEF LaidAt, Unlabeled
    <3>3. ls[k][i] = NoLabel
      <4>1. ps[k] \in Seq(B)
        BY <1>1
      <4> QED
        BY <4>1 DEF Unlabeled
    <3> QED
      BY <3>2, <3>3
  <2> HIDE DEF B, ls, labels
  <2> QED
    BY <1>1, <1>2, <1>4, <2>1, ZippedLays
<1>5. LaysOut(rs, n, Beside(all, labels))
  <2>1. \A k \in 1..n : Len(rs[k]) = Len(ps[k])
    <3> SUFFICES ASSUME NEW k \in 1..n PROVE Len(rs[k]) = Len(ps[k])
      OBVIOUS
    <3>1. ps[k] \in Seq(B)
      BY <1>1
    <3> QED
      BY <1>3, <3>1, PlainRowsAre
  <2>2. [k \in 1..n |-> Len(rs[k])] = [k \in 1..n |-> Len(ps[k])]
    BY <2>1
  <2> HIDE DEF labels
  <2> QED
    BY <1>1, <1>4, <2>2 DEF LaysOut
<1>6. Beside(all, labels) \in Seq(Row(d))
  BY <1>1, PlainRowsAre
<1> QED
  BY <1>3, <1>5, <1>6 DEF PlainRowsOfAll, all, rs

LEMMA GluedFilesHold ==
  ASSUME NEW cfg \in Configs, ~Failed(OpenMemmaps(cfg.data_dim, cfg.data_path))
  PROVE  FilesHold(OpenMemmaps(cfg.data_dim, cfg.data_path).val, ExpectPoints(cfg, FALSE))
<1> DEFINE paths == cfg.data_path
           n == Len(paths)
           d == cfg.data_dim
           fs == FilesAt(Files, paths)
           fls == DataFloats(cfg)
           ss == SourcesFrom(d, fs, n)
           rs == PlainRowsOfEach(fls, n, d)
           rows == PlainRowsOfAll(fls, n, d)
           all == AllRows(cfg)
<1>1. /\ d \in 1..MaxFloats /\ d \in Nat \ {0} /\ paths \in Seq(DOMAIN Files) /\ n \in Nat
      /\ fls \in [1..n -> Seq(Int)] /\ all = RowsOfAll(fls, n, d)
      /\ \A k \in 1..n : fls[k] = Files[paths[k]].floats
  BY ConfigData
<1>2. OpenMemmaps(d, paths) = Ok(GluedCloud(ss))
  BY <1>1, OpenedFloats
<1>3. \A k \in 1..n : ss[k] = FloatsIn(d, fls[k])
  BY <1>1 DEF SourcesFrom, FilesAt
<1>4. DOMAIN ss = 1..n /\ Len(ss) = n
  BY <1>1 DEF SourcesFrom
<1>5. ExpectPoints(cfg, FALSE) = Expect(all, Unlabeled(all)) /\ rows = Beside(all, Unlabeled(all))
  BY <1>1 DEF ExpectPoints, PlainRowsOfAll
<1> HIDE DEF n, fs, ss, fls, all, rs, rows
<1>6. LaysOut(rs, n, rows) /\ rows \in Seq(Row(d)) /\ \A k \in 1..n : rs[k] = PlainRows(fls[k], d)
  BY <1>1, PlainRowsLayOut DEF rs, rows
<1>7. \A k \in 1..n : SourceHolds(ss[k], d, rs[k])
  <2> SUFFICES ASSUME NEW k \in 1..n PROVE SourceHolds(ss[k], d, rs[k])
    OBVIOUS
  <2>1. fls[k] \in Seq(Int)
    BY <1>1
  <2>2. SourceHolds(FloatsIn(d, fls[k]), d, PlainRows(fls[k], d))
    BY <1>1, <2>1, PlainFloatsHold DEF PlainRows
  <2> QED
    BY <1>3, <1>6, <2>2
<1>8. ExpectPoints(cfg, FALSE) = Numbered(rows)
  <2>1. all \in Seq(Points(d))
    BY <1>1, RowsLayOut
  <2> DEFINE B == Points(d)
             labels == Unlabeled(all)
  <2> HIDE DEF B, labels
  <2> QED
    BY <1>5, <2>1, ZipIs DEF B, labels
<1>9. FilesHold(GluedCloud(ss), Numbered(rows))
  BY <1>1, <1>4, <1>6, <1>7, GluedIsHeld
<1>10. OpenMemmaps(d, paths).val = GluedCloud(ss)
  BY <1>2 DEF Ok
<1> QED
  BY <1>8, <1>9, <1>10

LEMMA SameFlat ==
  ASSUME NEW B, NEW ss, NEW n, NEW ends, NEW x \in Seq(B), NEW y \in Seq(B),
         LaidOut(ss, n, ends, x), LaidOut(ss, n, ends, y)
  PROVE  x = y
<1>1. Len(x) = Len(y)
  BY LaidOutFields
<1>2. ASSUME NEW p \in 1..Len(x) PROVE x[p] = y[p]
  <2>1. HasPlace(ss, n, ends, x, p)
    BY PlaceOf
  <2>2. PICK k \in 1..n : \E e \in 1..Len(ss[k]) : p = ends[k - 1] + e /\ ends[k - 1] \in Nat /\ x[p] = ss[k][e]
    BY <2>1 DEF HasPlace
  <2>3. PICK e \in 1..Len(ss[k]) : p = ends[k - 1] + e /\ x[p] = ss[k][e]
    BY <2>2
  <2>4. LaidAt(ss, ends, y, k, e)
    BY LaidOutAt
  <2> QED
    BY <2>3, <2>4 DEF LaidAt
<1> QED
  BY <1>1, <1>2

(* The rows of whole files are those of their floats after one another.    *)
LEMMA WholeRows ==
  ASSUME NEW d \in Nat \ {0}, NEW n \in Nat, NEW fs \in [1..n -> Seq(Int)], AreWhole(fs, n, d)
  PROVE  /\ RowsOfAll(fs, n, d) = Rows(FlattenSeq(fs), d)
         /\ FlattenSeq(fs) \in Seq(Int) /\ Len(FlattenSeq(fs)) % d = 0
         /\ Len(FlattenSeq(fs)) = d * Len(RowsOfAll(fs, n, d)) /\ Len(RowsOfAll(fs, n, d)) \in Nat
<1> DEFINE all == RowsOfAll(fs, n, d)
           flat == FlattenSeq(fs)
           m == Len(all)
           rows == Rows(flat, d)
<1>1. /\ all \in Seq(Points(d)) /\ flat \in Seq(Int) /\ Len(flat) = d * m
      /\ \A p \in 1..m : all[p] = Block(flat, d, p - 1)
  BY AllRowsAre
<1>2. m \in Nat
  BY <1>1
<1>3. (d * m) \div d = m /\ (d * m) % d = 0
  <2> HIDE DEF m
  <2> QED
    BY <1>2, LengthOfWhole
<1> HIDE DEF all, flat
<1>4. rows \in Seq(Points(d)) /\ Len(rows) = m /\ \A k \in 1..m : rows[k] = Block(flat, d, k - 1)
  <2>1. /\ rows \in Seq(Points(d)) /\ Len(rows) = Len(flat) \div d
        /\ \A k \in 1..(Len(flat) \div d) : rows[k] = Block(flat, d, k - 1)
    BY <1>1, RowsAre
  <2>2. Len(flat) \div d = m
    BY <1>1, <1>3
  <2> QED
    BY <2>1, <2>2
<1> HIDE DEF rows
<1>5. all = rows
  <2> DEFINE B == Points(d)
  <2>1. all \in Seq(B) /\ rows \in Seq(B) /\ Len(rows) = Len(all)
    BY <1>1, <1>4
  <2>2. \A k \in 1..Len(all) : rows[k] = all[k]
    BY <1>1, <1>4
  <2> HIDE DEF B
  <2> QED
    BY <2>1, <2>2
<1> QED
  BY <1>1, <1>2, <1>3, <1>5 DEF all, flat, rows

LEMMA DenseIsHeld ==
  ASSUME NEW d \in 1..MaxFloats, NEW floats \in Seq(Int), Len(floats) % d = 0
  PROVE  FilesHold(FloatsIn(d, floats), Numbered(PlainRows(floats, d)))
<1> DEFINE c == FloatsIn(d, floats)
           rows == PlainRows(floats, d)
<1>1. d \in Nat \ {0}
  BY SourcesAssumption
<1>2. SourceHolds(c, d, rows)
  BY <1>1, PlainFloatsHold DEF PlainRows
<1>3. c.kind = "dense" /\ c.data = floats
  BY DEF FloatsIn
<1> HIDE DEF c, rows
<1>4. RowsHold(c, Numbered(rows), d)
  BY <1>2, <1>3 DEF RowsHold, Numbered
<1> QED
  BY <1>3, <1>4 DEF FilesHold, c, rows

LEMMA RamFilesHold ==
  ASSUME NEW cfg \in Configs, ~Failed(RamFromYaml(cfg))
  PROVE  /\ RamFromYaml(cfg) = Ok(FloatsIn(cfg.data_dim, FlattenSeq(DataFloats(cfg))))
         /\ FlattenSeq(DataFloats(cfg)) \in Seq(Int)
         /\ WholePoints(cfg) => /\ AllRows(cfg) = Rows(FlattenSeq(DataFloats(cfg)), cfg.data_dim)
                                /\ Len(FlattenSeq(DataFloats(cfg))) % cfg.data_dim = 0
<1>1. RamFromYaml(cfg) = LoadedFloats(cfg.data_dim, cfg.data_path)
  BY DEF RamFromYaml
<1>2. /\ LoadedFloats(cfg.data_dim, cfg.data_path) = Ok(FloatsIn(cfg.data_dim, FlattenSeq(DataFloats(cfg))))
      /\ FlattenSeq(DataFloats(cfg)) \in Seq(Int)
  BY <1>1, ConfigData, RamHasFloats DEF DataFloats
<1>3. WholePoints(cfg) => /\ AllRows(cfg) = Rows(FlattenSeq(DataFloats(cfg)), cfg.data_dim)
                          /\ Len(FlattenSeq(DataFloats(cfg))) % cfg.data_dim = 0
  <2> DEFINE n == Len(cfg.data_path)
             fls == DataFloats(cfg)
             d == cfg.data_dim
  <2>1. /\ d \in Nat \ {0} /\ n \in Nat /\ fls \in [1..n -> Seq(Int)] /\ AllRows(cfg) = RowsOfAll(fls, n, d)
        /\ WholePoints(cfg) => AreWhole(fls, n, d)
    BY ConfigData
  <2> HIDE DEF n, fls, d
  <2>2. AreWhole(fls, n, d) => RowsOfAll(fls, n, d) = Rows(FlattenSeq(fls), d) /\ Len(FlattenSeq(fls)) % d = 0
    BY <2>1, WholeRows
  <2> QED
    BY <2>1, <2>2 DEF n, fls, d
<1> QED
  BY <1>1, <1>2, <1>3

LEMMA PlainWant ==
  ASSUME NEW d \in Nat \ {0}, NEW floats \in Seq(Int)
  PROVE  Expect(Rows(floats, d), Unlabeled(Rows(floats, d))) = Numbered(PlainRows(floats, d))
<1> DEFINE ps == Rows(floats, d)
           labels == Unlabeled(ps)
           B == Points(d)
<1>1. ps \in Seq(B)
  BY RowsAre
<1> HIDE DEF ps, labels, B
<1>2. Expect(ps, labels) = Numbered(Beside(ps, labels))
  BY <1>1, ZipIs
<1> QED
  BY <1>2 DEF PlainRows, ps, labels

LEMMA LoadedHolds ==
  ASSUME NEW cfg \in Configs, ~Failed(RamFromYaml(cfg)), ExpectPoints(cfg, TRUE) # NoCloud
  PROVE  FilesHold(RamFromYaml(cfg).val, ExpectPoints(cfg, TRUE))
<1> DEFINE d == cfg.data_dim
           flat == FlattenSeq(DataFloats(cfg))
<1>1. WholePoints(cfg) /\ ExpectPoints(cfg, TRUE) = Expect(AllRows(cfg), Unlabeled(AllRows(cfg)))
  BY DEF ExpectPoints
<1>2. d \in 1..MaxFloats /\ d \in Nat \ {0}
  BY ConfigData
<1>3. /\ RamFromYaml(cfg) = Ok(FloatsIn(d, flat)) /\ flat \in Seq(Int)
      /\ AllRows(cfg) = Rows(flat, d) /\ Len(flat) % d = 0
  BY <1>1, RamFilesHold
<1> HIDE DEF d, flat
<1>4. ExpectPoints(cfg, TRUE) = Numbered(PlainRows(flat, d))
  BY <1>1, <1>2, <1>3, PlainWant
<1>5. FilesHold(FloatsIn(d, flat), Numbered(PlainRows(flat, d)))
  BY <1>2, <1>3, DenseIsHeld
<1>6. RamFromYaml(cfg).val = FloatsIn(d, flat)
  BY <1>3 DEF Ok
<1> QED
  BY <1>4, <1>5, <1>6

(* Two lots of floats, and what they merge to.                             *)
LEMMA FlattenTwo ==
  ASSUME NEW B, NEW x \in Seq(B), NEW y \in Seq(B)
  PROVE  FlattenSeq(<<x, y>>) = x \o y
<1> DEFINE s == <<x, y>>
           f == <<x, x \o y>>
<1>1. s \in Seq(Seq(B)) /\ s # <<>> /\ Len(s) = 2 /\ f[1] = s[1] /\ f[2] = x \o y /\ s[2] = y /\ f[1] = x
  OBVIOUS
<1> HIDE DEF s, f
<1>2. \A i \in 2..Len(s) : f[i] = f[i - 1] \o s[i]
  <2>1. \A i \in 2..2 : i = 2 /\ i - 1 = 1
    OBVIOUS
  <2> QED
    BY <1>1, <2>1
<1>3. f[Len(s)] = FlattenSeq(s)
  BY <1>1, <1>2, FlattenedBy
<1> QED
  BY <1>1, <1>3 DEF s

LEMMA RowsOfTwo ==
  ASSUME NEW d \in Nat \ {0}, NEW x \in Seq(Int), NEW y \in Seq(Int), Len(x) % d = 0, Len(y) % d = 0
  PROVE  Rows(x \o y, d) = Rows(x, d) \o Rows(y, d) /\ Len(x \o y) % d = 0
<1> DEFINE fs == <<x, y>>
           B == Points(d)
           p == Rows(x, d)
           q == Rows(y, d)
<1>1. fs \in [1..2 -> Seq(Int)] /\ fs[1] = x /\ fs[2] = y
  OBVIOUS
<1>2. p \in Seq(B) /\ q \in Seq(B)
  BY RowsAre
<1>3. FlattenSeq(fs) = x \o y
  BY FlattenTwo
<1> HIDE DEF fs, p, q, B
<1>4. AreWhole(fs, 2, d)
  <2>1. \A k \in 1..2 : k = 1 \/ k = 2
    OBVIOUS
  <2> QED
    BY <1>1, <2>1 DEF AreWhole
<1>5. RowsOfAll(fs, 2, d) = Rows(FlattenSeq(fs), d) /\ Len(FlattenSeq(fs)) % d = 0
  BY <1>1, <1>4, WholeRows
<1>6. RowsOfAll(fs, 2, d) = FlattenSeq(<<p, q>>)
  <2>1. [k \in 1..2 |-> Rows(fs[k], d)] = <<p, q>>
    <3>1. \A k \in 1..2 : k = 1 \/ k = 2
      OBVIOUS
    <3>2. Rows(fs[1], d) = p /\ Rows(fs[2], d) = q
      BY <1>1 DEF p, q
    <3> QED
      BY <3>1, <3>2
  <2> QED
    BY <2>1 DEF RowsOfAll
<1>7. FlattenSeq(<<p, q>>) = p \o q
  BY <1>2, FlattenTwo
<1> QED
  BY <1>3, <1>5, <1>6, <1>7 DEF p, q

(* The rows a plain source holds are those of its floats.                  *)
LEMMA PlainIs ==
  ASSUME NEW d \in Nat \ {0}, NEW s, NEW rows, SourceHolds(s, d, rows), s.kind = "dense"
  PROVE  /\ s = FloatsIn(d, s.data) /\ s.data \in Seq(Int) /\ s \in DenseOf(d)
         /\ rows = PlainRows(s.data, d) /\ Len(rows) = Len(Rows(s.data, d))
<1> DEFINE R == Row(d)
           ps == Rows(s.data, d)
           m == Len(s.data) \div d
           want == PlainRows(s.data, d)
<1>1. PlainHolds(s, d, rows) /\ rows \in Seq(R)
  BY DEF SourceHolds, LabeledHolds, LabeledCloud
<1>2. /\ s \in DenseOf(d) /\ DenseLen(s) = Len(rows) /\ NothingSaid(rows)
      /\ \A k \in 1..Len(rows) : rows[k].point = Block(s.data, d, k - 1)
  BY <1>1 DEF PlainHolds, PointsHold
<1>3. s = FloatsIn(d, s.data) /\ s.data \in Seq(Int) /\ s.dim = d
  BY <1>2, FloatsAreDense DEF DenseOf
<1>4. Len(rows) = m
  BY <1>2, <1>3 DEF DenseLen
<1>5. ps \in Seq(Points(d)) /\ Len(ps) = m /\ \A k \in 1..m : ps[k] = Block(s.data, d, k - 1)
  BY <1>3, RowsAre
<1> HIDE DEF m, ps
<1>6. want \in Seq(R) /\ Len(want) = m /\ \A k \in 1..m : want[k] = [point |-> ps[k], label |-> NoLabel]
  <2>1. want = Beside(ps, Unlabeled(ps))
    BY DEF PlainRows, ps
  <2> HIDE DEF want
  <2> QED
    BY <1>5, <2>1, PlainRowsAre
<1> HIDE DEF want
<1>7. ASSUME NEW k \in 1..m PROVE rows[k] = want[k]
  <2>1. rows[k].point = ps[k] /\ rows[k].label = NoLabel
    BY <1>2, <1>4, <1>5 DEF NothingSaid
  <2>2. rows[k] \in R
    BY <1>1, <1>4
  <2>3. rows[k] = [point |-> ps[k], label |-> NoLabel]
    BY <2>1, <2>2 DEF Row
  <2> QED
    BY <1>6, <2>3
<1> HIDE DEF R
<1>8. rows = want
  BY <1>1, <1>4, <1>6, <1>7
<1> QED
  BY <1>2, <1>3, <1>4, <1>5, <1>8 DEF want, ps

LEMMA MergeHolds ==
  ASSUME NEW c, NEW e, e # NoCloud, IsKind(c, "dense"), FilesHold(c, e),
         NEW cfg \in Configs, ~Failed(RamFromYaml(cfg)), WholePoints(cfg),
         ~Failed(DataRamMerge(c, RamFromYaml(cfg).val))
  PROVE  FilesHold(DataRamMerge(c, RamFromYaml(cfg).val).val,
                   Expect([k \in DOMAIN e.rows |-> e.rows[k].point] \o AllRows(cfg),
                          Unlabeled(e.rows \o AllRows(cfg))))
<1> DEFINE d == cfg.data_dim
           y == FlattenSeq(DataFloats(cfg))
           x == c.data
           other == RamFromYaml(cfg).val
           r == DataRamMerge(c, other)
           points == [k \in DOMAIN e.rows |-> e.rows[k].point]
           all == Rows(x \o y, d)
           want == Expect(points \o AllRows(cfg), Unlabeled(e.rows \o AllRows(cfg)))
<1>1. d \in 1..MaxFloats /\ d \in Nat \ {0}
  BY ConfigData
<1>2. /\ other = FloatsIn(d, y) /\ y \in Seq(Int)
      /\ AllRows(cfg) = Rows(y, d) /\ Len(y) % d = 0
  BY RamFilesHold DEF Ok
<1>3. PICK dim \in 1..MaxFloats : RowsHold(c, e, dim)
  BY DEF FilesHold, IsKind
<1>4. c.kind = "dense" /\ SourceHolds(c, dim, e.rows) /\ Len(x) % dim = 0
  BY <1>3 DEF RowsHold, IsKind
<1>5. dim \in Nat \ {0}
  BY SourcesAssumption
<1>6. /\ c = FloatsIn(dim, x) /\ x \in Seq(Int) /\ c \in DenseOf(dim)
      /\ e.rows = PlainRows(x, dim) /\ Len(e.rows) = Len(Rows(x, dim))
  BY <1>4, <1>5, PlainIs
<1>7. dim = d /\ other \in DenseOf(d)
  <2>1. c.dim = other.dim
    BY DEF DataRamMerge, Panicked, Failed
  <2> QED
    BY <1>2, <1>6, <2>1, FloatsAreDense DEF FloatsIn
<1> HIDE DEF d, y, x, other
<1>8. r = Ok(FloatsIn(d, x \o y))
  <2>1. MergeOf(c, other) = Ok(FloatsIn(d, c.data \o other.data))
    BY <1>6, <1>7, DenseMerge
  <2>2. MergeOf(c, other) = r
    BY <1>4 DEF MergeOf
  <2>3. c.data = x /\ other.data = y
    BY <1>2 DEF x, FloatsIn
  <2> QED
    BY <2>1, <2>2, <2>3
<1>9. all = Rows(x, d) \o Rows(y, d) /\ Len(x \o y) % d = 0 /\ x \o y \in Seq(Int)
  <2>1. Len(x) % d = 0 /\ Len(y) % d = 0
    BY <1>2, <1>4, <1>7
  <2>2. x \in Seq(Int) /\ y \in Seq(Int)
    BY <1>2, <1>6
  <2>3. x \o y \in Seq(Int)
    BY <2>2
  <2>4. Rows(x \o y, d) = Rows(x, d) \o Rows(y, d) /\ Len(x \o y) % d = 0
    BY <1>1, <2>1, <2>2, RowsOfTwo
  <2> QED
    BY <2>3, <2>4
<1> DEFINE B == Points(d)
           p == Rows(x, d)
           q == Rows(y, d)
           mine == e.rows
<1>10. p \in Seq(B) /\ q \in Seq(B)
  BY <1>1, <1>2, <1>6, RowsAre
<1>11. mine \in Seq(Row(d)) /\ Len(mine) = Len(p) /\ \A k \in 1..Len(p) : mine[k] = [point |-> p[k], label |-> NoLabel]
  <2>1. mine = Beside(p, Unlabeled(p))
    BY <1>6, <1>7 DEF PlainRows
  <2> HIDE DEF mine, p
  <2> QED
    BY <1>1, <1>10, <2>1, PlainRowsAre DEF B
<1>12. points = [k \in DOMAIN mine |-> mine[k].point]
  OBVIOUS
<1> HIDE DEF p, q, B, mine, points
<1>13. points = p
  <2>1. DOMAIN mine = 1..Len(p)
    BY <1>10, <1>11
  <2>2. \A k \in 1..Len(p) : mine[k].point = p[k]
    <3> SUFFICES ASSUME NEW k \in 1..Len(p) PROVE mine[k].point = p[k]
      OBVIOUS
    <3>1. mine[k] = [point |-> p[k], label |-> NoLabel]
      BY <1>11
    <3> QED
      BY <3>1
  <2>3. points = [k \in 1..Len(p) |-> p[k]]
    BY <1>12, <2>1, <2>2
  <2> QED
    BY <1>10, <2>3
<1>14. Unlabeled(mine \o q) = Unlabeled(p \o q)
  <2> DEFINE R == Row(d)
  <2>0. mine \in Seq(R)
    BY <1>11
  <2> HIDE DEF R
  <2>1. Len(mine \o q) = Len(p \o q) /\ DOMAIN (mine \o q) = 1..Len(mine \o q) /\ DOMAIN (p \o q) = 1..Len(p \o q)
    <3>1. Len(mine) = Len(p)
      BY <1>11
    <3> QED
      BY <1>10, <2>0, <3>1
  <2> QED
    BY <2>1 DEF Unlabeled
<1>15. want = Expect(all, Unlabeled(all))
  <2>1. AllRows(cfg) = q /\ all = p \o q /\ mine = e.rows
    BY <1>2, <1>9 DEF p, q, mine
  <2>2. want = Expect(points \o q, Unlabeled(mine \o q))
    BY <2>1
  <2> QED
    BY <1>13, <1>14, <2>1, <2>2
<1>16. FilesHold(FloatsIn(d, x \o y), Numbered(PlainRows(x \o y, d)))
  BY <1>1, <1>9, DenseIsHeld
<1>17. Expect(all, Unlabeled(all)) = Numbered(PlainRows(x \o y, d))
  BY <1>1, <1>9, PlainWant
<1>18. r.val = FloatsIn(d, x \o y)
  BY <1>8 DEF Ok
<1> HIDE DEF r, want, all
<1>19. FilesHold(r.val, want)
  BY <1>15, <1>16, <1>17, <1>18
<1> QED
  BY <1>19 DEF r, want, other, points

LEMMA OriginReplaced ==
  ASSUME NEW rows, NEW old, NEW new
  PROVE  [[rows |-> rows, origin |-> old, doubts |-> {}] EXCEPT !.origin = new]
           = [rows |-> rows, origin |-> new, doubts |-> {}]
OBVIOUS

LEMMA ConvertHolds ==
  ASSUME NEW c, NEW e, e # NoCloud, IsKind(c, "glued"), FilesHold(c, e),
         \A k \in DOMAIN c.sources : c.sources[k].kind = "dense",
         \A k \in DOMAIN c.sources : Len(c.sources[k].data) % c.sources[k].dim = 0,
         ~Failed(ConvertGluedMemmapToRam(c))
  PROVE  FilesHold(ConvertGluedMemmapToRam(c).val, [e EXCEPT !.origin = Identity(Len(e.rows))])
<1> DEFINE ss == [k \in DOMAIN c.sources |-> c.sources[k]]
           rows == e.rows
<1>1. PICK d \in 1..MaxFloats : RowsHold(c, e, d)
  BY DEF FilesHold, IsKind
<1>2. d \in Nat \ {0} /\ e = [rows |-> rows, origin |-> e.origin, doubts |-> {}]
  BY <1>1, SourcesAssumption DEF RowsHold
<1>3. PICK n, rs, ends : GluedHolds(c.sources, d, n, rs, ends, rows)
  BY <1>1 DEF RowsHold, IsKind
<1>4. /\ n \in Nat /\ DOMAIN c.sources = 1..n /\ LaidOut(rs, n, ends, rows) /\ rows \in Seq(Row(d))
      /\ \A k \in 1..n : SourceHolds(c.sources[k], d, rs[k])
  BY <1>3 DEF GluedHolds
<1>5. ConvertGluedMemmapToRam(c) = Reduce(ss)
  BY <1>4, CopiedAll DEF ConvertGluedMemmapToRam
<1> DEFINE fls == DataOf(ss)
<1>6. DOMAIN ss = 1..n /\ \A k \in 1..n : ss[k] = c.sources[k]
  BY <1>4
<1>7. ss = [k \in 1..n |-> ss[k]]
  BY <1>4
<1> HIDE DEF ss
<1>8. \A k \in 1..n : /\ ss[k] \in DenseOf(d) /\ ss[k].data \in Seq(Int)
                      /\ rs[k] = PlainRows(ss[k].data, d) /\ Len(ss[k].data) % d = 0
  <2> SUFFICES ASSUME NEW k \in 1..n
               PROVE  /\ ss[k] \in DenseOf(d) /\ ss[k].data \in Seq(Int)
                      /\ rs[k] = PlainRows(ss[k].data, d) /\ Len(ss[k].data) % d = 0
    OBVIOUS
  <2>1. SourceHolds(ss[k], d, rs[k]) /\ ss[k].kind = "dense" /\ Len(ss[k].data) % ss[k].dim = 0
    BY <1>4, <1>6
  <2>2. ss[k] \in DenseOf(d) /\ ss[k].data \in Seq(Int) /\ rs[k] = PlainRows(ss[k].data, d)
    BY <1>2, <2>1, PlainIs
  <2>3. ss[k].dim = d
    BY <2>2 DEF DenseOf
  <2> QED
    BY <2>1, <2>2, <2>3
<1>9. ss \in Seq(DenseOf(d)) /\ Len(ss) = n
  <2> DEFINE B == DenseOf(d)
  <2>1. \A k \in 1..n : ss[k] \in B
    BY <1>8
  <2> HIDE DEF B
  <2>2. ss \in [1..n -> B]
    BY <1>7, <2>1
  <2>3. ss \in Seq(B) /\ Len(ss) = n
    BY <1>4, <2>2
  <2> QED
    BY <2>3 DEF B
<1>10. ss # <<>>
  <2> SUFFICES ASSUME ss = <<>> PROVE FALSE
    OBVIOUS
  <2>1. Reduce(ss) = Panicked
    BY DEF Reduce
  <2> QED
    BY <1>5, <2>1 DEF Panicked, Failed
<1>11. Reduce(ss) = Ok(FloatsIn(d, FlattenSeq(fls)))
  BY <1>9, <1>10, MergedData
<1>12. fls = [k \in 1..n |-> ss[k].data]
  BY <1>9 DEF DataOf
<1>13. fls \in [1..n -> Seq(Int)] /\ AreWhole(fls, n, d) /\ \A k \in 1..n : fls[k] = ss[k].data
  BY <1>8, <1>12 DEF AreWhole
<1> HIDE DEF fls
<1> DEFINE all == PlainRowsOfAll(fls, n, d)
           each == PlainRowsOfEach(fls, n, d)
<1>14. LaysOut(each, n, all) /\ all \in Seq(Row(d)) /\ \A k \in 1..n : each[k] = PlainRows(fls[k], d)
  BY <1>2, <1>4, <1>13, PlainRowsLayOut
<1>15. DOMAIN each = 1..n
  BY DEF PlainRowsOfEach
<1> HIDE DEF all, each, rows
<1>16. \A k \in 1..n : each[k] = rs[k]
  BY <1>8, <1>13, <1>14
<1>17. LaidOut(each, n, ends, rows)
  <2>1. [k \in 1..n |-> Len(each[k])] = [k \in 1..n |-> Len(rs[k])]
    BY <1>16
  <2> QED
    BY <1>4, <1>15, <1>16, <2>1 DEF LaidOut
<1>18. LaidOut(each, n, ends, all)
  <2>1. Ends(n, [k \in 1..n |-> Len(each[k])], ends)
    BY <1>17 DEF LaidOut
  <2> QED
    BY <1>14, <2>1 DEF LaysOut
<1>19. rows = all
  <2> DEFINE R == Row(d)
  <2>1. rows \in Seq(R) /\ all \in Seq(R)
    BY <1>4, <1>14
  <2> HIDE DEF R
  <2> QED
    BY <1>17, <1>18, <2>1, SameFlat
<1> DEFINE flat == FlattenSeq(fls)
<1>20. RowsOfAll(fls, n, d) = Rows(flat, d) /\ flat \in Seq(Int) /\ Len(flat) % d = 0
  BY <1>2, <1>4, <1>13, WholeRows
<1> HIDE DEF flat
<1>21. rows = PlainRows(flat, d)
  BY <1>19, <1>20 DEF all, PlainRowsOfAll, PlainRows
<1>22. FilesHold(FloatsIn(d, flat), Numbered(rows))
  BY <1>20, <1>21, DenseIsHeld
<1>23. [e EXCEPT !.origin = Identity(Len(rows))] = Numbered(rows)
  <2> DEFINE o == e.origin
             i == Identity(Len(rows))
  <2>1. e = [rows |-> rows, origin |-> o, doubts |-> {}]
    BY <1>2
  <2> HIDE DEF o, i
  <2>2. [e EXCEPT !.origin = i] = [rows |-> rows, origin |-> i, doubts |-> {}]
    BY <2>1, OriginReplaced
  <2> QED
    BY <2>2 DEF Numbered, i
<1>24. ConvertGluedMemmapToRam(c).val = FloatsIn(d, flat)
  BY <1>5, <1>11 DEF Ok, flat
<1> QED
  BY <1>22, <1>23, <1>24 DEF rows


LEMMA NewIndexesAre ==
  ASSUME NEW pairs \in Seq(Nat \X Nat)
  PROVE  IsFiniteSet(NewIndexes(pairs))
<1> DEFINE m == Len(pairs)
           S == 1..m
           N == NewIndexes(pairs)
           g == [i \in S |-> pairs[i][2]]
<1>1. m \in Nat /\ DOMAIN pairs = S
  OBVIOUS
<1>2. IsFiniteSet(S)
  BY <1>1, FS_Interval
<1>3. g \in Surjection(S, N)
  BY <1>1 DEF Surjection, NewIndexes
<1> HIDE DEF S, N, g
<1>4. IsFiniteSet(N)
  BY <1>2, <1>3, FS_Surjection
<1> QED
  BY <1>4 DEF N

(* Pairs with as many new indexes as there are pairs have one each.        *)
LEMMA OnePairEach ==
  ASSUME NEW pairs \in Seq(Nat \X Nat), Cardinality(NewIndexes(pairs)) = Len(pairs),
         NEW j \in 1..Len(pairs), NEW k \in 1..Len(pairs), pairs[j][2] = pairs[k][2]
  PROVE  j = k
<1> DEFINE m == Len(pairs)
           S == 1..m
           N == NewIndexes(pairs)
           f == [i \in S |-> pairs[i][2]]
<1>1. m \in Nat /\ DOMAIN pairs = S
  OBVIOUS
<1>2. IsFiniteSet(S) /\ Cardinality(S) = m
  <2>1. IF 1 > m THEN Cardinality(1..m) = 0 ELSE Cardinality(1..m) = m - 1 + 1
    BY <1>1, FS_Interval
  <2>2. IsFiniteSet(1..m)
    BY <1>1, FS_Interval
  <2> QED
    BY <1>1, <2>1, <2>2
<1>3. N = {pairs[i][2] : i \in S}
  BY <1>1 DEF NewIndexes
<1>4. f \in Surjection(S, N)
  BY <1>3 DEF Surjection
<1>5. Cardinality(N) = Cardinality(S)
  BY <1>2
<1> HIDE DEF S, N
<1>6. f \in Injection(S, N)
  BY <1>2, <1>4, <1>5, FS_Surjection
<1>7. j \in S /\ k \in S /\ f[j] = f[k]
  BY DEF S
<1> HIDE DEF f
<1> QED
  BY <1>6, <1>7 DEF Injection, IsInjective

(* A pair's new index takes the old one's address, and its row.            *)
OldOf(pairs, n) == CHOOSE old \in OldIndexes(pairs) : \E k \in DOMAIN pairs : pairs[k] = <<old, n>>

LEMMA PairIs ==
  ASSUME NEW pairs \in Seq(Nat \X Nat), Cardinality(NewIndexes(pairs)) = Len(pairs), NEW n \in NewIndexes(pairs)
  PROVE  OldOf(pairs, n) \in OldIndexes(pairs) /\ pairs[LastWith(pairs, n)][1] = OldOf(pairs, n)
<1> DEFINE m == Len(pairs)
           old == OldOf(pairs, n)
<1>1. m \in Nat /\ DOMAIN pairs = 1..m /\ \A i \in 1..m : pairs[i] \in Nat \X Nat
  OBVIOUS
<1>2. PICK k \in 1..m : pairs[k][2] = n
  BY <1>1 DEF NewIndexes
<1>3. pairs[k] = <<pairs[k][1], n>> /\ pairs[k][1] \in OldIndexes(pairs)
  <2>1. pairs[k] = <<pairs[k][1], pairs[k][2]>>
    BY <1>1
  <2> QED
    BY <1>1, <1>2, <2>1 DEF OldIndexes
<1>4. \E o \in OldIndexes(pairs) : \E i \in DOMAIN pairs : pairs[i] = <<o, n>>
  BY <1>1, <1>3
<1>5. old \in OldIndexes(pairs) /\ \E i \in DOMAIN pairs : pairs[i] = <<old, n>>
  BY <1>4 DEF OldOf
<1> HIDE DEF old
<1>6. PICK i \in 1..m : pairs[i] = <<old, n>>
  BY <1>1, <1>5
<1>7. \A j \in 1..m : pairs[j][2] = n => j = k
  BY <1>2, OnePairEach
<1>8. i = k
  BY <1>6, <1>7
<1>9. {j \in DOMAIN pairs : pairs[j][2] = n} = {k}
  BY <1>1, <1>2, <1>7
<1>10. LastWith(pairs, n) = k
  <2>1. Max({k}) = k
    BY DEF Max
  <2> QED
    BY <1>9, <2>1 DEF LastWith
<1> QED
  BY <1>5, <1>6, <1>8, <1>10 DEF old

LEMMA ReindexHolds ==
  ASSUME NEW ss, NEW as, NEW e, e # NoCloud, IsOpen(GluedOf(ss, as)), FilesHold(GluedOf(ss, as), e),
         NEW pairs \in Reindexings, Len(pairs) = Cardinality(DOMAIN as), OldIndexes(pairs) \subseteq DOMAIN as,
         IsBijection(pairs)
  PROVE  FilesHold(GluedOf(ss, Readdressed(GluedOf(ss, as), pairs)),
                   [e EXCEPT !.origin = [n \in NewIndexes(pairs) |-> e.origin[OldOf(pairs, n)]]])
<1> DEFINE c == GluedOf(ss, as)
           N == NewIndexes(pairs)
           bs == Readdressed(c, pairs)
           d == GluedOf(ss, bs)
           rows == e.rows
           old == e.origin
           new == [n \in N |-> old[OldOf(pairs, n)]]
           f == [e EXCEPT !.origin = new]
<1>1. pairs \in Seq(Nat \X Nat) /\ Cardinality(N) = Len(pairs)
  BY IndexesAssumption DEF IsBijection
<1>2. /\ c.kind = "glued" /\ c.sources = ss /\ c.addresses = as
      /\ d.kind = "glued" /\ d.sources = ss /\ d.addresses = bs
  BY DEF GluedOf
<1>3. bs = [n \in N |-> as[pairs[LastWith(pairs, n)][1]]]
  BY <1>2 DEF Readdressed
<1>4. PICK dim \in 1..MaxFloats : RowsHold(c, e, dim)
  BY DEF FilesHold
<1>5. e = [rows |-> rows, origin |-> old, doubts |-> {}]
  BY <1>4 DEF RowsHold
<1>6. PICK n, rs, ends : GluedHolds(ss, dim, n, rs, ends, rows) /\ IndexesHold(as, old, n, rs, ends)
  BY <1>2, <1>4 DEF RowsHold
<1>7. f = [rows |-> rows, origin |-> new, doubts |-> {}]
  <2> HIDE DEF rows, old, new
  <2> QED
    BY <1>5, OriginReplaced
<1>8. IndexesHold(bs, new, n, rs, ends)
  <2>1. DOMAIN bs = N /\ DOMAIN new = N
    BY <1>3
  <2>2. IsFiniteSet(N)
    BY <1>1, NewIndexesAre
  <2>3. Cardinality(N) = ends[n]
    BY <1>1, <1>6 DEF IndexesHold
  <2>4. ASSUME NEW i \in N PROVE StandsFor(bs, new, i, n, rs, ends)
    <3> DEFINE o == OldOf(pairs, i)
    <3>1. o \in DOMAIN as /\ pairs[LastWith(pairs, i)][1] = o
      BY <1>1, PairIs
    <3>2. bs[i] = as[o] /\ new[i] = old[o]
      BY <1>3, <3>1
    <3> HIDE DEF o
    <3>3. StandsFor(as, old, o, n, rs, ends)
      BY <1>6, <3>1 DEF IndexesHold
    <3> QED
      BY <3>2, <3>3 DEF StandsFor
  <2> QED
    BY <2>1, <2>2, <2>3, <2>4 DEF IndexesHold
<1> HIDE DEF c, d, bs, new, f, rows, old
<1>9. f.rows = rows /\ f.origin = new
  BY <1>7
<1>10. RowsHold(d, f, dim)
  BY <1>2, <1>6, <1>7, <1>8, <1>9 DEF RowsHold
<1> QED
  BY <1>2, <1>10 DEF FilesHold, d, f, bs, c, new, old




(* Labels that say, one by one, what is written beside the points.         *)
Says(L, labels, n) == LabelsHold(L, n) /\ \A k \in 1..n : LabelOf(L, k - 1) = Ok(labels[k])

LEMMA SaidLabels ==
  ASSUME NEW n \in Nat, NEW L, NEW labels, Says(L, labels, n)
  PROVE  AreLabels(labels, n)
<1> SUFFICES ASSUME NEW k \in 1..n PROVE labels[k] \in Seen
  BY DEF AreLabels
<1>1. LabelsHold(L, n) /\ LabelOf(L, k - 1) = Ok(labels[k])
  BY DEF Says
<1>2. k - 1 \in Nat /\ k - 1 < n
  OBVIOUS
<1>3. PICK v \in Seen : LabelOf(L, k - 1) = Ok(v)
  BY <1>1, <1>2, HeldLabels
<1>4. Ok(labels[k]).val = Ok(v).val
  BY <1>1, <1>3
<1> QED
  BY <1>4 DEF Ok

LEMMA SourceSays ==
  ASSUME NEW d \in Nat \ {0}, NEW floats \in Seq(Int), NEW L, NEW labels, Says(L, labels, Len(Rows(floats, d)))
  PROVE  /\ SourceHolds(LabeledCloud(FloatsIn(d, floats), L), d, Beside(Rows(floats, d), labels))
         /\ Beside(Rows(floats, d), labels) \in Seq(Row(d))
<1> DEFINE B == Points(d)
           ps == Rows(floats, d)
           s == FloatsIn(d, floats)
           c == LabeledCloud(s, L)
           rows == Beside(ps, labels)
           n == Len(ps)
<1>1. ps \in Seq(B)
  BY RowsAre
<1>2. PointsHold(s, d, rows)
  BY FloatsHold
<1> HIDE DEF s, ps, rows
<1>3. n \in Nat
  BY <1>1
<1>4. AreLabels(labels, n)
  BY <1>3, SaidLabels DEF ps
<1>5. Len(rows) = n /\ \A k \in 1..n : rows[k] = [point |-> ps[k], label |-> labels[k]]
  BY <1>1, ZipIs DEF rows
<1>6. rows \in Seq(Row(d))
  BY <1>1, <1>4, ZipIs DEF rows, B
<1>7. \A k \in 1..n : rows[k].label = labels[k]
  <2> SUFFICES ASSUME NEW k \in 1..n PROVE rows[k].label = labels[k]
    OBVIOUS
  <2>1. rows[k] = [point |-> ps[k], label |-> labels[k]]
    BY <1>5
  <2> QED
    BY <2>1
<1>8. SaidBy(L, rows)
  BY <1>5, <1>7 DEF SaidBy, Says, ps
<1>9. c.data = s /\ c.labels = L
  BY DEF LabeledCloud
<1> HIDE DEF c
<1>10. LabeledHolds(c, d, rows)
  BY <1>2, <1>8, <1>9 DEF LabeledHolds, c
<1> QED
  BY <1>6, <1>10 DEF SourceHolds, c, s, rows, ps

LEMMA LabeledIsHeld ==
  ASSUME NEW d \in 1..MaxFloats, NEW floats \in Seq(Int), NEW L, NEW labels, Says(L, labels, Len(Rows(floats, d)))
  PROVE  FilesHold(LabeledCloud(FloatsIn(d, floats), L), Expect(Rows(floats, d), labels))
<1> DEFINE B == Points(d)
           ps == Rows(floats, d)
           c == LabeledCloud(FloatsIn(d, floats), L)
           rows == Beside(ps, labels)
<1>1. d \in Nat \ {0}
  BY SourcesAssumption
<1>2. SourceHolds(c, d, rows)
  BY <1>1, SourceSays
<1>3. ps \in Seq(B)
  BY <1>1, RowsAre
<1>4. c.kind = "labeled"
  BY DEF LabeledCloud
<1> HIDE DEF c, ps, rows, B
<1>5. Expect(ps, labels) = Numbered(rows)
  BY <1>3, ZipIs DEF rows
<1>6. RowsHold(c, Numbered(rows), d)
  BY <1>2, <1>4 DEF RowsHold, Numbered
<1>7. FilesHold(c, Numbered(rows))
  BY <1>4, <1>6 DEF FilesHold
<1> QED
  BY <1>5, <1>7 DEF c, ps

(* Labels of several floats.                                               *)
VecsOf(d, floats) == [kind |-> "vec", labels |-> floats, dim |-> d, mask |-> NoMask]

LEMMA VecsSay ==
  ASSUME NEW d \in Nat \ {0}, NEW floats \in Seq(Int), Len(floats) % d = 0
  PROVE  Says(VecsOf(d, floats), Rows(floats, d), Len(Rows(floats, d)))
<1> DEFINE L == VecsOf(d, floats)
           ps == Rows(floats, d)
           n == Len(floats) \div d
<1>1. Len(ps) = n /\ n \in Nat /\ \A k \in 1..n : ps[k] = Block(floats, d, k - 1)
  BY RowsAre
<1>2. Len(floats) \in Nat
  OBVIOUS
<1>3. Len(floats) = d * n
  BY <1>2, WholeLength
<1>4. L.kind = "vec" /\ L.mask = NoMask /\ L.dim = d /\ L.labels = floats
  BY DEF VecsOf
<1> HIDE DEF L, ps, n
<1>5. VecHolds(L, n)
  BY <1>3, <1>4 DEF VecHolds
<1>6. ASSUME NEW k \in 1..n PROVE LabelOf(L, k - 1) = Ok(ps[k])
  <2>1. k - 1 \in Nat /\ k - 1 < n
    BY <1>1
  <2>2. LabelOf(L, k - 1) = Ok(Block(floats, d, k - 1))
    BY <1>1, <1>4, <1>5, <2>1, VecsAnswer
  <2> QED
    BY <1>1, <2>2
<1> QED
  BY <1>1, <1>5, <1>6 DEF Says, LabelsHold, L, ps

(* The floats of the label files.                                          *)
AllDat(paths) == \A k \in 1..Len(paths) : LabelFiles[paths[k]].ext = "dat"
LabelFloats(paths) == FloatsFrom(FilesAt(LabelFiles, paths), Len(paths))

LEMMA DatFiles ==
  ASSUME NEW paths \in Seq(DOMAIN LabelFiles), AllDat(paths)
  PROVE  /\ HoldFloats(FilesAt(LabelFiles, paths), Len(paths)) /\ Len(paths) \in Nat /\ DOMAIN paths = 1..Len(paths)
         /\ \A k \in 1..Len(paths) : FilesAt(LabelFiles, paths)[k] = LabelFiles[paths[k]]
<1>1. Len(paths) \in Nat /\ DOMAIN paths = 1..Len(paths) /\ \A k \in 1..Len(paths) : paths[k] \in DOMAIN LabelFiles
  OBVIOUS
<1>2. \A k \in 1..Len(paths) : FilesAt(LabelFiles, paths)[k] = LabelFiles[paths[k]]
  BY DEF FilesAt
<1>3. \A k \in 1..Len(paths) : HasFloats(LabelFiles[paths[k]])
  BY <1>1, LabelFilesAssumption DEF AllDat
<1> QED
  BY <1>1, <1>2, <1>3 DEF HoldFloats

LEMMA VecLabelsAre ==
  ASSUME NEW d \in Nat, NEW paths \in Seq(DOMAIN LabelFiles), AllDat(paths), ~Failed(VecLabelsOf(d, paths))
  PROVE  /\ VecLabelsOf(d, paths) = Ok(VecsOf(d, FlattenSeq(LabelFloats(paths))))
         /\ FlattenSeq(LabelFloats(paths)) \in Seq(Int)
         /\ d # 0 /\ Len(FlattenSeq(LabelFloats(paths))) % d = 0
<1> DEFINE n == Len(paths)
           fs == FilesAt(LabelFiles, paths)
           rs == [k \in DOMAIN paths |-> DataMemmapNew(d, LabelFiles[paths[k]])]
           collected == CollectMaps(rs)
           ss == SourcesFrom(d, fs, n)
           flat == FlattenSeq(LabelFloats(paths))
<1>1. /\ HoldFloats(fs, n) /\ n \in Nat /\ DOMAIN paths = 1..n
      /\ \A k \in 1..n : fs[k] = LabelFiles[paths[k]]
  BY DatFiles
<1>2. DOMAIN rs = 1..n /\ \A k \in 1..n : rs[k] = DataMemmapNew(d, fs[k])
  BY <1>1
<1>3. VecLabelsOf(d, paths) = IF Failed(collected) THEN collected
                              ELSE IF Failed(CopyAll(collected.val)) THEN CopyAll(collected.val)
                              ELSE ConvertToLabels(CopyAll(collected.val).val)
  BY DEF VecLabelsOf
<1> HIDE DEF n, fs, rs
<1>4. ~Failed(collected)
  BY <1>3
<1>5. collected = Ok(ss) /\ ss \in Seq(DenseOf(d))
  BY <1>1, <1>2, <1>4, MapsCollected, CollectedFloats
<1> HIDE DEF collected
<1>6. ~Failed(Reduce(ss)) /\ VecLabelsOf(d, paths) = ConvertToLabels(Reduce(ss).val)
  <2>1. collected.val = ss
    BY <1>5 DEF Ok
  <2>2. DOMAIN ss = 1..n /\ [k \in 1..n |-> ss[k]] = ss
    BY DEF SourcesFrom
  <2> HIDE DEF ss
  <2>3. ~Failed(CopyAll(ss)) /\ VecLabelsOf(d, paths) = ConvertToLabels(CopyAll(ss).val)
    BY <1>3, <1>4, <2>1
  <2>4. CopyAll(ss) = Reduce(ss)
    BY <1>1, <2>2, <2>3, CopiedAll
  <2> QED
    BY <2>3, <2>4
<1>7. n # 0
  <2> SUFFICES ASSUME n = 0 PROVE FALSE
    OBVIOUS
  <2>1. ss = <<>>
    BY DEF SourcesFrom
  <2>2. Reduce(ss) = Panicked
    BY <2>1 DEF Reduce
  <2> QED
    BY <1>6, <2>2 DEF Panicked, Failed
<1>8. Reduce(ss) = Ok(FloatsIn(d, flat)) /\ flat \in Seq(Int)
  BY <1>1, <1>7, MergedFloats DEF LabelFloats, n, fs
<1> HIDE DEF ss, flat
<1>9. Reduce(ss).val.data = flat /\ Reduce(ss).val.dim = d
  BY <1>8 DEF Ok, FloatsIn
<1>10. VecLabelsOf(d, paths) = VecLabelsNew(flat, d, NoMask)
  BY <1>6, <1>9 DEF ConvertToLabels
<1>11. ~Failed(VecLabelsNew(flat, d, NoMask))
  BY <1>10
<1>12. d # 0 /\ Len(flat) % d = 0
  BY <1>11 DEF VecLabelsNew, Panicked, Failed
<1>13. VecLabelsNew(flat, d, NoMask) = Ok(VecsOf(d, flat))
  BY <1>12 DEF VecLabelsNew, VecsOf
<1> QED
  BY <1>8, <1>10, <1>12, <1>13 DEF flat

LEMMA ConfigLabels ==
  ASSUME NEW cfg \in Configs, \A k \in DOMAIN cfg.labels_path : LabelFiles[cfg.labels_path[k]].ext = "dat"
  PROVE  /\ cfg.labels_dim \in Nat /\ cfg.labels_path \in Seq(DOMAIN LabelFiles) /\ AllDat(cfg.labels_path)
         /\ Len(cfg.labels_path) \in Nat
         /\ LabelFloats(cfg.labels_path) \in [1..Len(cfg.labels_path) -> Seq(Int)]
         /\ \A k \in 1..Len(cfg.labels_path) :
              LabelFloats(cfg.labels_path)[k] = LabelFiles[cfg.labels_path[k]].floats
         /\ VecLabelRows(cfg) = RowsOfAll(LabelFloats(cfg.labels_path), Len(cfg.labels_path), cfg.labels_dim)
         /\ WholeLabels(cfg) => AreWhole(LabelFloats(cfg.labels_path), Len(cfg.labels_path), cfg.labels_dim)
<1> DEFINE paths == cfg.labels_path
           n == Len(paths)
           d == cfg.labels_dim
           fs == FilesAt(LabelFiles, paths)
           fls == FloatsFrom(fs, n)
<1>1. d \in Nat /\ paths \in Seq(DOMAIN LabelFiles)
  BY ConfigsAssumption
<1>2. AllDat(paths)
  BY <1>1 DEF AllDat
<1>3. /\ HoldFloats(fs, n) /\ n \in Nat /\ DOMAIN paths = 1..n
      /\ \A k \in 1..n : fs[k] = LabelFiles[paths[k]]
  BY <1>1, <1>2, DatFiles
<1>4. LabelFloats(paths) = fls
  BY DEF LabelFloats
<1>5. VecLabelRows(cfg) = FlattenSeq([k \in DOMAIN paths |-> Rows(LabelFiles[paths[k]].floats, d)])
  BY DEF VecLabelRows
<1>6. WholeLabels(cfg) => \A k \in DOMAIN paths : Len(LabelFiles[paths[k]].floats) % d = 0
  BY DEF WholeLabels
<1> HIDE DEF n, d, fs
<1>7. fls \in [1..n -> Seq(Int)] /\ \A k \in 1..n : fls[k] = fs[k].floats
  BY <1>3, FloatsFromAre
<1> HIDE DEF fls
<1>8. \A k \in 1..n : fls[k] = LabelFiles[paths[k]].floats
  BY <1>3, <1>7
<1>9. VecLabelRows(cfg) = RowsOfAll(fls, n, d)
  <2>1. [k \in DOMAIN paths |-> Rows(LabelFiles[paths[k]].floats, d)] = [k \in 1..n |-> Rows(fls[k], d)]
    BY <1>3, <1>8
  <2> QED
    BY <1>5, <2>1 DEF RowsOfAll
<1>10. WholeLabels(cfg) => AreWhole(fls, n, d)
  BY <1>3, <1>6, <1>8 DEF AreWhole
<1> HIDE DEF paths
<1>11. /\ d \in Nat /\ paths \in Seq(DOMAIN LabelFiles) /\ AllDat(paths) /\ n \in Nat
       /\ LabelFloats(paths) \in [1..n -> Seq(Int)]
       /\ \A k \in 1..n : LabelFloats(paths)[k] = LabelFiles[paths[k]].floats
       /\ VecLabelRows(cfg) = RowsOfAll(LabelFloats(paths), n, d)
       /\ WholeLabels(cfg) => AreWhole(LabelFloats(paths), n, d)
  BY <1>1, <1>2, <1>3, <1>4, <1>7, <1>8, <1>9, <1>10
<1> QED
  BY <1>11 DEF paths, n, d

LEMMA NoDoubts ==
  ASSUME NEW cfg, NEW labels, ExpectLabels(cfg, labels, {}) # NoCloud
  PROVE  /\ WholePoints(cfg) /\ Len(labels) = Len(AllRows(cfg))
         /\ ExpectLabels(cfg, labels, {}) = Expect(AllRows(cfg), labels)
<1> DEFINE e == Expect(AllRows(cfg), labels)
<1>1. /\ WholePoints(cfg) /\ Len(labels) = Len(AllRows(cfg))
      /\ ExpectLabels(cfg, labels, {}) = [e EXCEPT !.doubts = {}]
  BY DEF ExpectLabels
<1>2. e = [rows |-> e.rows, origin |-> e.origin, doubts |-> {}]
  BY DEF Expect
<1> HIDE DEF e
<1>3. [e EXCEPT !.doubts = {}] = e
  BY <1>2
<1> QED
  BY <1>1, <1>3 DEF e

LEMMA VecLoadedHolds ==
  ASSUME NEW cfg \in Configs, \A k \in DOMAIN cfg.labels_path : LabelFiles[cfg.labels_path[k]].ext = "dat",
         ~Failed(VecLabeledRamFromYaml(cfg)), WholeLabels(cfg), ExpectLabels(cfg, VecLabelRows(cfg), {}) # NoCloud
  PROVE  FilesHold(VecLabeledRamFromYaml(cfg).val, ExpectLabels(cfg, VecLabelRows(cfg), {}))
<1> DEFINE d == cfg.data_dim
           ldim == cfg.labels_dim
           paths == cfg.labels_path
           flat == FlattenSeq(DataFloats(cfg))
           n == Len(paths)
           lfs == LabelFloats(paths)
           lflat == FlattenSeq(lfs)
           labels == VecLabelRows(cfg)
           L == VecLabelsOf(ldim, paths)
           ram == RamFromYaml(cfg)
<1>1. /\ ldim \in Nat /\ paths \in Seq(DOMAIN LabelFiles) /\ AllDat(paths) /\ n \in Nat
      /\ lfs \in [1..n -> Seq(Int)] /\ labels = RowsOfAll(lfs, n, ldim) /\ AreWhole(lfs, n, ldim)
  BY ConfigLabels
<1>2. VecLabeledRamFromYaml(cfg) = IF Failed(L) THEN L ELSE IF Failed(ram) THEN ram ELSE Ok(LabeledCloud(ram.val, L.val))
  BY DEF VecLabeledRamFromYaml
<1>3. WholePoints(cfg) /\ Len(labels) = Len(AllRows(cfg)) /\ ExpectLabels(cfg, labels, {}) = Expect(AllRows(cfg), labels)
  BY NoDoubts
<1>4. d \in 1..MaxFloats /\ d \in Nat \ {0}
  BY ConfigData
<1>5. ~Failed(L) /\ ~Failed(ram) /\ VecLabeledRamFromYaml(cfg).val = LabeledCloud(ram.val, L.val)
  <2> HIDE DEF L, ram
  <2>1. ~Failed(L) /\ ~Failed(ram)
    BY <1>2
  <2> QED
    BY <1>2, <2>1 DEF Ok
<1>6. ram = Ok(FloatsIn(d, flat)) /\ flat \in Seq(Int) /\ AllRows(cfg) = Rows(flat, d)
  BY <1>3, <1>5, RamFilesHold
<1>7. L = Ok(VecsOf(ldim, lflat)) /\ lflat \in Seq(Int) /\ ldim # 0 /\ Len(lflat) % ldim = 0
  BY <1>1, <1>5, VecLabelsAre
<1>8. labels = Rows(lflat, ldim)
  <2> HIDE DEF ldim, n, lfs, labels
  <2>1. ldim \in Nat \ {0}
    BY <1>1, <1>7
  <2> QED
    BY <1>1, <2>1, WholeRows
<1> HIDE DEF flat, lflat, d, ldim, labels, L, ram
<1>9. Says(VecsOf(ldim, lflat), labels, Len(labels))
  BY <1>1, <1>7, <1>8, VecsSay
<1>10. FilesHold(LabeledCloud(FloatsIn(d, flat), VecsOf(ldim, lflat)), Expect(Rows(flat, d), labels))
  BY <1>3, <1>4, <1>6, <1>9, LabeledIsHeld
<1>11. ram.val = FloatsIn(d, flat) /\ L.val = VecsOf(ldim, lflat)
  BY <1>6, <1>7 DEF Ok
<1> QED
  BY <1>3, <1>5, <1>6, <1>10, <1>11 DEF labels

LEMMA FlattenOne ==
  ASSUME NEW B, NEW x \in Seq(B)
  PROVE  FlattenSeq(<<x>>) = x
<1> DEFINE s == <<x>>
<1>1. s \in Seq(Seq(B)) /\ s # <<>> /\ Len(s) = 1 /\ s[1] = x
  OBVIOUS
<1> HIDE DEF s
<1>2. \A i \in 2..Len(s) : s[i] = s[i - 1] \o s[i]
  <2>1. 2..1 = {}
    OBVIOUS
  <2> QED
    BY <1>1, <2>1
<1>3. s[Len(s)] = FlattenSeq(s)
  BY <1>1, <1>2, FlattenedBy
<1> QED
  BY <1>1, <1>3 DEF s

LEMMA Cancel ==
  ASSUME NEW d \in Nat \ {0}, NEW l \in Nat \ {0}, NEW a \in Nat, NEW b \in Nat, (d * a) * l = (l * b) * d
  PROVE  a = b
<1> DEFINE P == d * l
<1>1. P * a = P * b
  OBVIOUS
<1>2. P \in Nat \ {0}
  OBVIOUS
<1>3. P * a \in Int /\ P * b \in Int
  OBVIOUS
<1> HIDE DEF P
<1>4. a <= b /\ b <= a
  <2>1. P * a < P * b + P /\ P * b < P * a + P
    BY <1>1, <1>2, <1>3
  <2> QED
    BY <1>2, <2>1, DivUnique
<1> QED
  BY <1>4

(* A file of labels beside a file of points.                               *)
PairedRows(F, LF, d, l, k) == Beside(Rows(F[k], d), Rows(LF[k], l))

PairOpens(d, l, x, y, path) ==
  /\ d \in Nat \ {0} /\ l \in Nat /\ x \in Seq(Int) /\ Len(x) % d = 0
  /\ path \in DOMAIN LabelFiles /\ LabelFiles[path].ext = "dat" /\ ~Failed(VecLabelsOf(l, <<path>>))
  /\ y = LabelFiles[path].floats /\ Len(x) * l = Len(y) * d

LEMMA PairHolds ==
  ASSUME NEW d, NEW l, NEW x, NEW y, NEW path, PairOpens(d, l, x, y, path)
  PROVE  /\ VecLabelsOf(l, <<path>>) = Ok(VecsOf(l, y)) /\ y \in Seq(Int) /\ l # 0
         /\ SourceHolds(LabeledCloud(FloatsIn(d, x), VecsOf(l, y)), d, Beside(Rows(x, d), Rows(y, l)))
         /\ Len(Rows(x, d)) = Len(Rows(y, l))
<1> DEFINE paths == <<path>>
           L == VecLabelsOf(l, paths)
           flat == FlattenSeq(LabelFloats(paths))
<1>0. /\ d \in Nat \ {0} /\ l \in Nat /\ x \in Seq(Int) /\ Len(x) % d = 0
      /\ path \in DOMAIN LabelFiles /\ LabelFiles[path].ext = "dat" /\ ~Failed(VecLabelsOf(l, <<path>>))
      /\ y = LabelFiles[path].floats /\ Len(x) * l = Len(y) * d
  BY DEF PairOpens
<1>1. paths \in Seq(DOMAIN LabelFiles) /\ Len(paths) = 1 /\ paths[1] = path
  BY <1>0
<1>2. AllDat(paths)
  <2>1. \A k \in 1..1 : k = 1
    OBVIOUS
  <2> QED
    BY <1>0, <1>1, <2>1 DEF AllDat
<1> HIDE DEF paths
<1>3. L = Ok(VecsOf(l, flat)) /\ flat \in Seq(Int) /\ l # 0 /\ Len(flat) % l = 0
  <2>1. ~Failed(VecLabelsOf(l, paths))
    BY <1>0 DEF paths
  <2> QED
    BY <1>0, <1>1, <1>2, <2>1, VecLabelsAre
<1>4. y \in Seq(Int)
  BY <1>0, LabelFilesAssumption DEF HasFloats
<1>5. flat = y
  <2>1. LabelFloats(paths) = [k \in 1..1 |-> FilesAt(LabelFiles, paths)[k].floats]
    BY <1>1 DEF LabelFloats, FloatsFrom
  <2>2. FilesAt(LabelFiles, paths)[1] = LabelFiles[path]
    BY <1>1 DEF FilesAt
  <2>3. \A k \in 1..1 : k = 1
    OBVIOUS
  <2>4. LabelFloats(paths) = [k \in 1..1 |-> y]
    BY <1>0, <2>1, <2>2, <2>3
  <2>5. [k \in 1..1 |-> y] = <<y>>
    BY <2>3
  <2> QED
    BY <1>0, <1>4, <2>4, <2>5, FlattenOne
<1> HIDE DEF L, flat
<1> DEFINE a == Len(x) \div d
           b == Len(y) \div l
<1>6. Len(x) \in Nat /\ Len(y) \in Nat /\ l \in Nat \ {0}
  BY <1>0, <1>3, <1>4
<1>7. Len(x) = d * a /\ a \in Nat
  BY <1>0, <1>6, WholeLength
<1>8. Len(y) = l * b /\ b \in Nat
  BY <1>0, <1>3, <1>5, <1>6, WholeLength
<1>9. Len(Rows(x, d)) = a /\ Len(Rows(y, l)) = b
  BY <1>0, <1>4, <1>6, RowsAre
<1> HIDE DEF a, b
<1>10. a = b
  <2>1. (d * a) * l = (l * b) * d
    BY <1>0, <1>7, <1>8
  <2> QED
    BY <1>0, <1>6, <1>7, <1>8, <2>1, Cancel
<1>11. Says(VecsOf(l, y), Rows(y, l), Len(Rows(x, d)))
  <2>1. Says(VecsOf(l, y), Rows(y, l), Len(Rows(y, l)))
    BY <1>0, <1>3, <1>4, <1>5, <1>6, VecsSay
  <2> QED
    BY <1>0, <1>9, <1>10, <2>1
<1>12. SourceHolds(LabeledCloud(FloatsIn(d, x), VecsOf(l, y)), d, Beside(Rows(x, d), Rows(y, l)))
  BY <1>0, <1>11, SourceSays
<1> QED
  BY <1>0, <1>3, <1>4, <1>5, <1>9, <1>10, <1>12 DEF L, paths

LEMMA PairsLayOut ==
  ASSUME NEW d \in Nat \ {0}, NEW l \in Nat \ {0}, NEW n \in Nat,
         NEW F \in [1..n -> Seq(Int)], NEW LF \in [1..n -> Seq(Int)],
         \A k \in 1..n : Len(Rows(F[k], d)) = Len(Rows(LF[k], l))
  PROVE  LaysOut([k \in 1..n |-> PairedRows(F, LF, d, l, k)], n, Beside(RowsOfAll(F, n, d), RowsOfAll(LF, n, l)))
<1> DEFINE ps == RowsOfEach(F, n, d)
           ls == RowsOfEach(LF, n, l)
           points == RowsOfAll(F, n, d)
           labels == RowsOfAll(LF, n, l)
           B == Points(d)
           rs == [k \in 1..n |-> Beside(ps[k], ls[k])]
<1>1. ps \in [1..n -> Seq(B)] /\ points \in Seq(B) /\ LaysOut(ps, n, points)
  BY RowsLayOut
<1>2. LaysOut(ls, n, labels)
  BY RowsLayOut
<1>3. \A k \in 1..n : ps[k] = Rows(F[k], d) /\ ls[k] = Rows(LF[k], l)
  BY DEF RowsOfEach
<1> HIDE DEF ps, ls, points, labels, B
<1>4. \A k \in 1..n : Len(rs[k]) = Len(ps[k]) /\ Len(ls[k]) = Len(ps[k])
  <2> SUFFICES ASSUME NEW k \in 1..n PROVE Len(rs[k]) = Len(ps[k]) /\ Len(ls[k]) = Len(ps[k])
    OBVIOUS
  <2>1. ps[k] \in Seq(B)
    BY <1>1
  <2>2. Len(Beside(ps[k], ls[k])) = Len(ps[k])
    BY <2>1, ZipIs
  <2> QED
    BY <1>3, <2>2
<1>5. rs = [k \in 1..n |-> PairedRows(F, LF, d, l, k)]
  BY <1>3 DEF PairedRows
<1>6. ASSUME NEW ends, Ends(n, [k \in 1..n |-> Len(rs[k])], ends) PROVE LaidOut(rs, n, ends, Beside(points, labels))
  <2>1. /\ [k \in 1..n |-> Len(rs[k])] = [k \in 1..n |-> Len(ps[k])]
        /\ [k \in 1..n |-> Len(rs[k])] = [k \in 1..n |-> Len(ls[k])]
    BY <1>4
  <2>2. Ends(n, [k \in 1..n |-> Len(ps[k])], ends) /\ Ends(n, [k \in 1..n |-> Len(ls[k])], ends)
    <3> HIDE DEF rs
    <3> QED
      BY <1>6, <2>1
  <2>3. LaidOut(ps, n, ends, points)
    BY <1>1, <2>2 DEF LaysOut
  <2>4. LaidOut(ls, n, ends, labels)
    BY <1>2, <2>2 DEF LaysOut
  <2>5. SameLabels(ps, ls, labels, n, ends)
    BY <1>4, <2>4 DEF LaidOut, SameLabels
  <2> QED
    BY <1>1, <2>3, <2>5, ZippedLays
<1> HIDE DEF rs
<1>7. LaysOut(rs, n, Beside(points, labels))
  BY <1>6 DEF LaysOut
<1> QED
  BY <1>5, <1>7 DEF points, labels

LEMMA LabeledGluedHolds ==
  ASSUME NEW cfg \in Configs, \A k \in DOMAIN cfg.labels_path : LabelFiles[cfg.labels_path[k]].ext = "dat",
         ~Failed(OpenLabeledMemmaps(cfg)), FileByFile(cfg), ExpectLabels(cfg, VecLabelRows(cfg), {}) # NoCloud
  PROVE  FilesHold(OpenLabeledMemmaps(cfg).val, ExpectLabels(cfg, VecLabelRows(cfg), {}))
<1> DEFINE d == cfg.data_dim
           l == cfg.labels_dim
           paths == cfg.data_path
           lpaths == cfg.labels_path
           n == Len(paths)
           F == DataFloats(cfg)
           LF == LabelFloats(lpaths)
           data(k) == DataMemmapNew(d, Files[paths[k]])
           labels(k) == VecLabelsOf(l, <<lpaths[k]>>)
           labeled(k) == IF Failed(data(k)) THEN data(k)
                         ELSE IF Failed(labels(k)) THEN IF DropPanics(data(k).val) THEN Panicked ELSE labels(k)
                         ELSE Ok(LabeledCloud(data(k).val, labels(k).val))
           rs == [k \in DOMAIN paths |-> labeled(k)]
           r == OpenLabeledMemmaps(cfg)
           want == ExpectLabels(cfg, VecLabelRows(cfg), {})
           source(k) == LabeledCloud(FloatsIn(d, F[k]), VecsOf(l, LF[k]))
           ss == [k \in 1..n |-> source(k)]
           held == [k \in 1..n |-> PairedRows(F, LF, d, l, k)]
           points == RowsOfAll(F, n, d)
           seen == RowsOfAll(LF, n, l)
<1>1. /\ d \in 1..MaxFloats /\ d \in Nat \ {0} /\ paths \in Seq(DOMAIN Files) /\ n \in Nat
      /\ F \in [1..n -> Seq(Int)] /\ \A k \in 1..n : F[k] = Files[paths[k]].floats
      /\ AllRows(cfg) = points /\ (WholePoints(cfg) => AreWhole(F, n, d))
  BY ConfigData
<1>2. r = IF Len(paths) # Len(lpaths) THEN Panicked
          ELSE IF Failed(CollectMaps(rs)) THEN CollectMaps(rs) ELSE Ok(GluedCloud(CollectMaps(rs).val))
  BY DEF OpenLabeledMemmaps
<1>3. n = Len(lpaths) /\ ~Failed(Collect(rs)) /\ r = Ok(GluedCloud(Collect(rs).val))
  <2> HIDE DEF rs, paths, lpaths, r
  <2>1. Failed(Panicked)
    BY DEF Failed, Panicked
  <2>2. ~Failed(r)
    BY DEF r
  <2>3. n = Len(lpaths) /\ ~Failed(CollectMaps(rs)) /\ r = Ok(GluedCloud(CollectMaps(rs).val))
    BY <1>2, <2>1, <2>2
  <2>4. ~Failed(Collect(rs)) /\ CollectMaps(rs) = Collect(rs)
    BY <2>3, MapsCollected
  <2> QED
    BY <2>3, <2>4
<1>4. /\ l \in Nat /\ lpaths \in Seq(DOMAIN LabelFiles) /\ LF \in [1..n -> Seq(Int)]
      /\ \A k \in 1..n : LF[k] = LabelFiles[lpaths[k]].floats
      /\ VecLabelRows(cfg) = seen
  <2>1. /\ l \in Nat /\ lpaths \in Seq(DOMAIN LabelFiles) /\ LF \in [1..Len(lpaths) -> Seq(Int)]
        /\ \A k \in 1..Len(lpaths) : LF[k] = LabelFiles[lpaths[k]].floats
        /\ VecLabelRows(cfg) = RowsOfAll(LF, Len(lpaths), l)
    BY ConfigLabels
  <2>2. Len(lpaths) = n
    BY <1>3
  <2> HIDE DEF l, lpaths, LF, n
  <2> QED
    BY <2>1, <2>2
<1>5. WholePoints(cfg) /\ Len(seen) = Len(points) /\ want = Expect(points, seen)
  <2> HIDE DEF seen, points
  <2> QED
    BY <1>1, <1>4, NoDoubts
<1>6. DOMAIN rs = 1..n /\ DOMAIN paths = 1..n /\ DOMAIN lpaths = 1..n /\ \A k \in 1..n : rs[k] = labeled(k)
  <2> HIDE DEF labeled
  <2>1. DOMAIN paths = 1..n /\ DOMAIN rs = DOMAIN paths /\ \A k \in DOMAIN paths : rs[k] = labeled(k)
    BY <1>1
  <2> HIDE DEF rs, n, paths, lpaths
  <2>2. DOMAIN lpaths = 1..Len(lpaths)
    BY <1>4
  <2> QED
    BY <1>3, <2>1, <2>2
<1>7. \A k \in 1..n : ~Failed(rs[k])
  <2> HIDE DEF rs, n
  <2> QED
    BY <1>1, <1>3, <1>6, CollectedAll
<1>8. Collect(rs) = Ok([k \in 1..n |-> rs[k].val])
  <2> HIDE DEF rs, n
  <2> QED
    BY <1>1, <1>3, <1>6, CollectedOk
<1>9. \A k \in 1..n : ~Failed(data(k)) /\ ~Failed(labels(k)) /\ rs[k] = Ok(LabeledCloud(data(k).val, labels(k).val))
  <2> HIDE DEF data, labels, rs
  <2> QED
    BY <1>6, <1>7 DEF Panicked, Failed
<1>10. \A k \in 1..n : /\ LabelFiles[lpaths[k]].ext = "dat" /\ lpaths[k] \in DOMAIN LabelFiles
                       /\ HasFloats(Files[paths[k]]) /\ Len(F[k]) % d = 0 /\ F[k] \in Seq(Int)
                       /\ Len(F[k]) * l = Len(LF[k]) * d
  <2> SUFFICES ASSUME NEW k \in 1..n
               PROVE  /\ LabelFiles[lpaths[k]].ext = "dat" /\ lpaths[k] \in DOMAIN LabelFiles
                      /\ HasFloats(Files[paths[k]]) /\ Len(F[k]) % d = 0 /\ F[k] \in Seq(Int)
                      /\ Len(F[k]) * l = Len(LF[k]) * d
    OBVIOUS
  <2>1. k \in DOMAIN paths /\ k \in DOMAIN lpaths
    BY <1>6
  <2>2. LabelFiles[lpaths[k]].ext = "dat" /\ lpaths[k] \in DOMAIN LabelFiles /\ paths[k] \in DOMAIN Files
    BY <1>1, <1>4, <2>1
  <2>3. HasFloats(Files[paths[k]])
    BY <2>2, FilesAssumption
  <2>4. Len(F[k]) % d = 0 /\ F[k] \in Seq(Int)
    <3> HIDE DEF n, F, d
    <3> QED
      BY <1>1, <1>5 DEF AreWhole
  <2>5. Len(Files[paths[k]].floats) * l = Len(LabelFiles[lpaths[k]].floats) * d
    BY <2>1 DEF FileByFile
  <2>6. F[k] = Files[paths[k]].floats /\ LF[k] = LabelFiles[lpaths[k]].floats
    <3> HIDE DEF n, F, LF
    <3> QED
      BY <1>1, <1>4
  <2> HIDE DEF F, LF, d, l, paths, lpaths
  <2> QED
    BY <2>2, <2>3, <2>4, <2>5, <2>6
<1> HIDE DEF d, l, paths, lpaths, n, F, LF, rs, r, want, points, seen
<1>11. ASSUME NEW k \in 1..n
       PROVE  /\ rs[k] = Ok(source(k)) /\ l # 0 /\ SourceHolds(source(k), d, PairedRows(F, LF, d, l, k))
              /\ Len(Rows(F[k], d)) = Len(Rows(LF[k], l))
  <2> DEFINE path == lpaths[k]
             x == F[k]
             y == LF[k]
  <2>1. /\ LabelFiles[path].ext = "dat" /\ path \in DOMAIN LabelFiles
        /\ HasFloats(Files[paths[k]]) /\ Len(x) % d = 0 /\ x \in Seq(Int) /\ Len(x) * l = Len(y) * d
    BY <1>10
  <2>2. y = LabelFiles[path].floats /\ x = Files[paths[k]].floats
    BY <1>1, <1>4
  <2>3. ~Failed(VecLabelsOf(l, <<path>>))
    BY <1>9
  <2>4. data(k) = Ok(FloatsIn(d, x))
    BY <1>9, <2>1, <2>2, MemmapHasFloats
  <2>5. rs[k] = Ok(LabeledCloud(data(k).val, VecLabelsOf(l, <<path>>).val))
    BY <1>9
  <2> HIDE DEF path, x, y, data
  <2>6. /\ VecLabelsOf(l, <<path>>) = Ok(VecsOf(l, y)) /\ y \in Seq(Int) /\ l # 0
        /\ SourceHolds(LabeledCloud(FloatsIn(d, x), VecsOf(l, y)), d, Beside(Rows(x, d), Rows(y, l)))
        /\ Len(Rows(x, d)) = Len(Rows(y, l))
    <3>1. d \in Nat \ {0} /\ l \in Nat
      BY <1>1, <1>4
    <3>2. x \in Seq(Int) /\ Len(x) % d = 0 /\ path \in DOMAIN LabelFiles /\ LabelFiles[path].ext = "dat"
      BY <2>1
    <3>3. y = LabelFiles[path].floats /\ Len(x) * l = Len(y) * d
      BY <2>1, <2>2
    <3>4. PairOpens(d, l, x, y, path)
      BY <2>3, <3>1, <3>2, <3>3 DEF PairOpens
    <3> QED
      BY <3>4, PairHolds
  <2>7. data(k).val = FloatsIn(d, x) /\ VecLabelsOf(l, <<path>>).val = VecsOf(l, y)
    BY <2>4, <2>6 DEF Ok
  <2>8. rs[k] = Ok(LabeledCloud(FloatsIn(d, x), VecsOf(l, y)))
    BY <2>5, <2>7
  <2> QED
    BY <2>6, <2>8 DEF PairedRows, x, y
<1> HIDE DEF source
<1>12. r.val = GluedCloud(ss)
  <2>1. ASSUME NEW k \in 1..n PROVE rs[k].val = source(k)
    <3>1. rs[k] = Ok(source(k))
      BY <1>11
    <3> QED
      BY <3>1 DEF Ok
  <2>2. [k \in 1..n |-> rs[k].val] = ss
    BY <2>1
  <2>3. Collect(rs).val = ss
    BY <1>8, <2>2 DEF Ok
  <2> QED
    BY <1>3, <2>3 DEF Ok
<1>13. DOMAIN ss = 1..n /\ Len(ss) = n /\ \A k \in 1..n : ss[k] = source(k)
  BY <1>1
<1>14. \A k \in 1..n : SourceHolds(ss[k], d, held[k])
  BY <1>11, <1>13
<1> HIDE DEF ss, held
<1> DEFINE m == IF l = 0 THEN 1 ELSE l
<1>15. m \in Nat \ {0} /\ \A k \in 1..n : m = l
  BY <1>4, <1>11
<1>16. held = [k \in 1..n |-> PairedRows(F, LF, d, m, k)] /\ seen = RowsOfAll(LF, n, m)
  <2> HIDE DEF m
  <2>1. [k \in 1..n |-> Rows(LF[k], l)] = [k \in 1..n |-> Rows(LF[k], m)]
    BY <1>15
  <2>2. [k \in 1..n |-> PairedRows(F, LF, d, l, k)] = [k \in 1..n |-> PairedRows(F, LF, d, m, k)]
    BY <1>15
  <2> QED
    BY <2>1, <2>2 DEF held, seen, RowsOfAll
<1> HIDE DEF m
<1> DEFINE rows == Beside(points, seen)
           B == Points(d)
<1>17. LaysOut(held, n, rows)
  <2>1. \A k \in 1..n : Len(Rows(F[k], d)) = Len(Rows(LF[k], m))
    BY <1>11, <1>15
  <2>2. LaysOut([k \in 1..n |-> PairedRows(F, LF, d, m, k)], n, Beside(RowsOfAll(F, n, d), RowsOfAll(LF, n, m)))
    BY <1>1, <1>4, <1>15, <2>1, PairsLayOut
  <2> QED
    BY <1>16, <2>2 DEF points
<1>18. points \in Seq(B)
  BY <1>1, RowsLayOut DEF points
<1>19. seen \in Seq(Points(m))
  BY <1>1, <1>4, <1>15, <1>16, RowsLayOut
<1>20. AreLabels(seen, Len(points))
  <2> DEFINE C == Points(m)
  <2>1. C \subseteq Seen
    BY DEF Points, Seen
  <2> HIDE DEF C
  <2>2. \A k \in 1..Len(seen) : seen[k] \in C
    BY <1>19 DEF C
  <2> QED
    BY <1>5, <2>1, <2>2 DEF AreLabels
<1> HIDE DEF B
<1>21. rows \in Seq(Row(d)) /\ Expect(points, seen) = Numbered(rows)
  BY <1>18, <1>20, ZipIs DEF B
<1> HIDE DEF rows
<1>22. FilesHold(GluedCloud(ss), Numbered(rows))
  BY <1>1, <1>13, <1>14, <1>17, <1>21, GluedIsHeld
<1>23. FilesHold(r.val, want)
  BY <1>5, <1>12, <1>21, <1>22
<1> QED
  BY <1>23 DEF r, want





(* Integer labels, with a mask or without.                                 *)
SaysRows(L, masked, rows) ==
  /\ MaskedInts(masked, L, Len(rows)) /\ rows \in Seq(Int \cup {NoLabel})
  /\ \A k \in 1..Len(rows) : rows[k] = IF masked /\ ~L.mask[k] THEN NoLabel ELSE L.labels[k]

LEMMA IntsSay ==
  ASSUME NEW masked \in BOOLEAN, NEW L, NEW rows, SaysRows(L, masked, rows)
  PROVE  Says(L, rows, Len(rows))
<1> DEFINE n == Len(rows)
<1>1. n \in Nat
  BY DEF SaysRows
<1> HIDE DEF n
<1>2. MaskedInts(masked, L, n) /\ \A k \in 1..n : rows[k] = IF masked /\ ~L.mask[k] THEN NoLabel ELSE L.labels[k]
  BY DEF SaysRows, n
<1>3. ASSUME NEW k \in 1..n PROVE LabelOf(L, k - 1) = Ok(rows[k])
  <2>1. k - 1 \in Nat /\ k - 1 < n /\ (k - 1) + 1 = k
    BY <1>1
  <2>2. LabelOf(L, k - 1) = Ok(IF masked /\ ~L.mask[(k - 1) + 1] THEN NoLabel ELSE L.labels[(k - 1) + 1])
    BY <1>1, <1>2, <2>1, IntsAnswer
  <2> QED
    BY <1>2, <2>1, <2>2
<1>4. LabelsHold(L, n)
  BY <1>2 DEF LabelsHold
<1> QED
  BY <1>3, <1>4 DEF Says, n

LEMMA IntLabelsAre ==
  ASSUME NEW labels, NEW mask
  PROVE  /\ IntLabels(labels, mask).kind = "int" /\ IntLabels(labels, mask).labels = labels
         /\ IntLabels(labels, mask).mask = mask
         /\ labels \in Seq(Int) /\ mask \in Seq(BOOLEAN) => IntLabels(labels, mask) \in Ints(TRUE)
         /\ labels \in Seq(Int) /\ mask = NoMask => IntLabels(labels, mask) \in Ints(FALSE)
BY DEF IntLabels, Ints

LEMMA CsvSays ==
  ASSUME NEW file, file.ext = "csv", file.rows \in Seq(Int \cup {Missing}), ~SaysZero(file)
  PROVE  \E L : OpenIntCsv(file.rows) = Ok(L) /\ SaysRows(L, IsMasked(file), IntRows(file))
<1> DEFINE rows == file.rows
           n == Len(rows)
           mask == [k \in DOMAIN rows |-> RowIsLabel(rows[k])]
           values == [k \in DOMAIN rows |-> RowValue(rows[k])]
           gap == \E k \in DOMAIN rows : ~RowIsLabel(rows[k])
           L == IntLabels(values, IF gap THEN mask ELSE NoMask)
           want == IntRows(file)
<1>1. n \in Nat /\ DOMAIN rows = 1..n /\ \A k \in 1..n : rows[k] \in Int \cup {Missing}
  OBVIOUS
<1>2. OpenIntCsv(rows) = Ok(L)
  <2>1. (\E k \in DOMAIN rows : ~mask[k]) <=> gap
    OBVIOUS
  <2> HIDE DEF gap
  <2> QED
    BY <2>1 DEF OpenIntCsv
<1>3. IsMasked(file) <=> gap
  BY DEF IsMasked
<1>4. want = [k \in DOMAIN rows |-> IF RowIsLabel(rows[k]) THEN rows[k] ELSE NoLabel]
  <2>1. \A k \in DOMAIN rows : rows[k] # 0
    BY DEF SaysZero
  <2>2. \A k \in DOMAIN rows : IntRow(rows[k]) = IF RowIsLabel(rows[k]) THEN rows[k] ELSE NoLabel
    BY <1>1, <2>1 DEF IntRow, RowIsLabel
  <2>3. want = [k \in DOMAIN rows |-> IntRow(rows[k])]
    BY DEF IntRows
  <2> HIDE DEF want, rows
  <2> QED
    BY <2>2, <2>3
<1> HIDE DEF rows, n, L
<1>5. \A k \in 1..n : /\ RowIsLabel(rows[k]) \in BOOLEAN /\ RowValue(rows[k]) \in Int
                      /\ RowIsLabel(rows[k]) => RowValue(rows[k]) = rows[k] /\ rows[k] \in Int
  BY <1>1 DEF RowIsLabel, RowValue
<1>6. mask \in Seq(BOOLEAN) /\ Len(mask) = n
  <2>1. mask \in [1..n -> BOOLEAN]
    BY <1>1, <1>5
  <2> HIDE DEF mask
  <2> QED
    BY <1>1, <2>1
<1>7. values \in Seq(Int) /\ Len(values) = n
  <2>1. values \in [1..n -> Int]
    BY <1>1, <1>5
  <2> HIDE DEF values
  <2> QED
    BY <1>1, <2>1
<1>8. want \in Seq(Int \cup {NoLabel}) /\ Len(want) = n
  <2>1. want \in [1..n -> Int \cup {NoLabel}]
    BY <1>1, <1>4, <1>5
  <2> HIDE DEF want
  <2> QED
    BY <1>1, <2>1
<1>9. \A k \in 1..n : /\ mask[k] = RowIsLabel(rows[k]) /\ values[k] = RowValue(rows[k])
                      /\ want[k] = IF RowIsLabel(rows[k]) THEN rows[k] ELSE NoLabel
  BY <1>1, <1>4
<1> HIDE DEF mask, values, want
<1>10. CASE gap
  <2>1. IsMasked(file) = TRUE
    BY <1>3, <1>10 DEF IsMasked
  <2>2. L = IntLabels(values, mask)
    BY <1>10 DEF L
  <2>3. L \in Ints(TRUE) /\ L.labels = values /\ L.mask = mask
    BY <1>6, <1>7, <2>2, IntLabelsAre
  <2>4. \A k \in 1..n : want[k] = IF ~mask[k] THEN NoLabel ELSE values[k]
    BY <1>5, <1>9
  <2>5. SaysRows(L, TRUE, want)
    BY <1>6, <1>7, <1>8, <2>3, <2>4 DEF SaysRows, MaskedInts
  <2> QED
    BY <1>2, <2>1, <2>5 DEF rows, want
<1>11. CASE ~gap
  <2>1. IsMasked(file) = FALSE
    BY <1>3, <1>11 DEF IsMasked
  <2>2. L = IntLabels(values, NoMask)
    BY <1>11 DEF L
  <2>3. L \in Ints(FALSE) /\ L.labels = values
    BY <1>7, <2>2, IntLabelsAre
  <2>4. \A k \in 1..n : want[k] = values[k]
    BY <1>1, <1>5, <1>9, <1>11
  <2>5. SaysRows(L, FALSE, want)
    BY <1>7, <1>8, <2>3, <2>4 DEF SaysRows, MaskedInts
  <2> QED
    BY <1>2, <2>1, <2>5 DEF rows, want
<1> QED
  BY <1>10, <1>11

LEMMA DatSays ==
  ASSUME NEW file, file.ext = "dat", HasFloats(file), NEW d \in Nat \ {0}, NEW r,
         LET floats == DataMemmapNew(d, file)
             labels == ConvertToLabels(floats.val)
         IN r = IF Failed(floats) THEN floats
                ELSE IF DropPanics(floats.val) THEN Panicked
                ELSE IF Failed(labels) THEN labels
                ELSE IF d > 1 THEN OneHotToInt(labels.val) ELSE BinaryToInt(labels.val),
         ~Failed(r)
  PROVE  \E L : r = Ok(L) /\ SaysRows(L, IsMasked(file), IntRows(file))
<1> DEFINE floats == DataMemmapNew(d, file)
           labels == ConvertToLabels(floats.val)
           xs == file.floats
           n == Len(xs)
           want == IntRows(file)
           V == VecsOf(d, xs)
           ones == [k \in 1..n |-> IF Hot(xs[k]) THEN 1 ELSE 0]
           all == [k \in 1..n |-> TRUE]
<1>1. /\ ~Failed(floats) /\ ~Failed(labels)
      /\ r = IF d > 1 THEN OneHotToInt(labels.val) ELSE BinaryToInt(labels.val)
  <2> HIDE DEF floats, labels
  <2>1. r = IF Failed(floats) THEN floats
                ELSE IF DropPanics(floats.val) THEN Panicked
                ELSE IF Failed(labels) THEN labels
                ELSE IF d > 1 THEN OneHotToInt(labels.val) ELSE BinaryToInt(labels.val)
    BY DEF floats, labels
  <2> QED
    BY <2>1 DEF Panicked, Failed
<1>2. xs \in Seq(Int) /\ n \in Nat
  BY DEF HasFloats
<1>3. floats.val.data = xs /\ floats.val.dim = d
  <2>1. floats = Ok(FloatsIn(d, xs))
    BY <1>1, MemmapHasFloats
  <2> QED
    BY <2>1 DEF Ok, FloatsIn
<1> HIDE DEF floats
<1>4. labels = VecLabelsNew(xs, d, NoMask)
  BY <1>3 DEF ConvertToLabels
<1> HIDE DEF labels
<1>5. labels.val = V
  BY <1>1, <1>4 DEF VecLabelsNew, VecsOf, Ok, Panicked, Failed
<1>6. V.labels = xs /\ V.dim = d /\ V.mask = NoMask
  BY DEF VecsOf
<1>7. IsMasked(file) = TRUE
  BY DEF IsMasked
<1>8. want = [k \in DOMAIN xs |-> IF Hot(xs[k]) THEN 1 ELSE 0]
  BY DEF IntRows
<1>9. want = ones
  BY <1>2, <1>8
<1>10. ones \in Seq(Int) /\ Len(ones) = n /\ ones \in Seq(Int \cup {NoLabel}) /\ all \in Seq(BOOLEAN) /\ Len(all) = n
  <2> DEFINE B == Int \cup {NoLabel}
  <2>1. ones \in [1..n -> Int] /\ ones \in [1..n -> B] /\ all \in [1..n -> BOOLEAN]
    OBVIOUS
  <2>2. n \in Nat
    BY <1>2
  <2> HIDE DEF ones, all, B, n
  <2>3. ones \in Seq(Int) /\ Len(ones) = n
    BY <2>1, <2>2
  <2>4. ones \in Seq(B)
    BY <2>1, <2>2
  <2>5. all \in Seq(BOOLEAN) /\ Len(all) = n
    BY <2>1, <2>2
  <2> QED
    BY <2>3, <2>4, <2>5 DEF B, n
<1>11. SaysRows(IntLabels(ones, all), TRUE, ones)
  <2> DEFINE L == IntLabels(ones, all)
  <2>1. \A k \in 1..n : all[k] = TRUE
    OBVIOUS
  <2> HIDE DEF ones, all
  <2>2. L \in Ints(TRUE) /\ L.labels = ones /\ L.mask = all
    BY <1>10, IntLabelsAre
  <2> HIDE DEF L
  <2>3. SaysRows(L, TRUE, ones)
    BY <1>10, <2>1, <2>2 DEF SaysRows, MaskedInts
  <2> QED
    BY <2>3 DEF L
<1>12. CASE d > 1
  <2>1. r = OneHotToInt(V)
    BY <1>1, <1>5, <1>12
  <2> DEFINE rows == [k \in 1..VecLen(V) |-> VecAt(V, k - 1)]
  <2>2. ~\E k \in DOMAIN rows : rows[k] = NoLabel
    <3> SUFFICES ASSUME NEW k \in DOMAIN rows, rows[k] = NoLabel PROVE FALSE
      OBVIOUS
    <3>1. r = Panicked
      BY <2>1 DEF OneHotToInt
    <3> QED
      BY <3>1 DEF Panicked, Failed
  <2>3. VecLen(V) = n
    BY <1>6 DEF VecLen
  <2>4. n = 0
    <3> SUFFICES ASSUME n # 0 PROVE FALSE
      OBVIOUS
    <3>1. n \in 1..n /\ n - 1 + 1 = n
      BY <1>2
    <3>2. rows[n] = VecAt(V, n - 1)
      BY <2>3, <3>1
    <3>3. d * n > n
      <4>1. d * n >= 2 * n
        <5>1. n * 2 <= n * d
          BY <1>2, <1>12, TimesMonotone
        <5> QED
          BY <1>2, <5>1
      <4>2. d * n \in Int
        BY <1>2
      <4> QED
        BY <1>2, <3>1, <4>1, <4>2
    <3>4. VecAt(V, n - 1) = NoLabel
      BY <1>6, <3>1, <3>3 DEF VecAt
    <3> QED
      BY <2>2, <2>3, <3>1, <3>2, <3>4
  <2>5. r = Ok(IntLabels(ones, all))
    <3> DEFINE hots(k) == {e \in 1..V.dim : Hot(rows[k][e])}
               label(k) == IF hots(k) = {} THEN V.dim ELSE Min(hots(k)) - 1
               found == [k \in DOMAIN rows |-> label(k)]
               mask == [k \in DOMAIN rows |-> MaskOf(V)[k] /\ label(k) # V.dim]
    <3>1. r = IF \E k \in DOMAIN rows : rows[k] = NoLabel THEN Panicked ELSE Ok(IntLabels(found, mask))
      BY <2>1 DEF OneHotToInt
    <3>2. DOMAIN rows = {}
      BY <2>3, <2>4
    <3> HIDE DEF rows, label
    <3>3. found = ones /\ mask = all
      BY <2>4, <3>2
    <3> HIDE DEF found, mask
    <3> QED
      BY <2>2, <3>1, <3>3
  <2> QED
    BY <1>7, <1>9, <1>11, <2>5
<1>13. CASE ~(d > 1)
  <2>1. r = BinaryToInt(V)
    BY <1>1, <1>5, <1>13
  <2>2. VecLen(V) = n /\ MaskOf(V) = all
    BY <1>6 DEF VecLen, MaskOf
  <2>3. r = IF d # 1 THEN Panicked ELSE Ok(IntLabels(ones, all))
    BY <1>6, <2>1, <2>2 DEF BinaryToInt
  <2>4. d = 1
    BY <1>13
  <2> HIDE DEF ones, all
  <2>5. r = Ok(IntLabels(ones, all))
    BY <2>3, <2>4
  <2> QED
    BY <1>7, <1>9, <1>11, <2>5
<1> QED
  BY <1>12, <1>13


LEMMA MergedSays ==
  ASSUME NEW masked \in BOOLEAN, NEW n \in Nat \ {0}, NEW Ls, DOMAIN Ls = 1..n, Ls = [k \in 1..n |-> Ls[k]],
         NEW rows \in [1..n -> Seq(Int \cup {NoLabel})], \A k \in 1..n : SaysRows(Ls[k], masked, rows[k])
  PROVE  \E c : Reduce(Ls) = Ok(c) /\ SaysRows(c, masked, FlattenSeq(rows))
<1> DEFINE C == Int \cup {NoLabel}
           X == Ints(masked)
           lens == [k \in 1..n |-> Len(rows[k])]
           all == FlattenSeq(rows)
           labels == LabelsIn(Ls)
           masks == MasksIn(Ls)
<1>1. \A k \in 1..n : /\ Ls[k] \in X /\ Len(Ls[k].labels) = Len(rows[k])
                      /\ masked => Len(Ls[k].mask) = Len(rows[k])
  BY DEF SaysRows, MaskedInts
<1>2. rows \in [1..n -> Seq(C)]
  OBVIOUS
<1> HIDE DEF X, C, all
<1>3. Ls \in Seq(X) /\ Len(Ls) = n /\ Ls # <<>>
  <2>1. Ls \in [1..n -> X]
    BY <1>1
  <2> QED
    BY <2>1
<1>4. PICK c \in X : Reduce(Ls) = Ok(c) /\ c.labels = FlattenSeq(labels) /\ (masked => c.mask = FlattenSeq(masks))
  BY <1>3, MergedInts DEF X
<1>5. /\ labels \in [1..n -> Seq(Int)] /\ \A k \in 1..n : labels[k] = Ls[k].labels
      /\ masked => masks \in [1..n -> Seq(BOOLEAN)] /\ \A k \in 1..n : masks[k] = Ls[k].mask
  <2>1. labels = [k \in 1..n |-> Ls[k].labels] /\ masks = [k \in 1..n |-> Ls[k].mask]
    BY <1>3 DEF LabelsIn, MasksIn
  <2>2. \A k \in 1..n : Ls[k].labels \in Seq(Int) /\ (masked => Ls[k].mask \in Seq(BOOLEAN))
    BY <1>1 DEF X, Ints
  <2> QED
    BY <2>1, <2>2
<1>6. lens \in [1..n -> Nat] /\ \A k \in 1..n : lens[k] = Len(rows[k])
  <2>1. \A k \in 1..n : Len(rows[k]) \in Nat
    BY <1>2
  <2> QED
    BY <2>1
<1> HIDE DEF lens, labels, masks
<1>7. PICK ends : Ends(n, lens, ends)
  <2>1. PICK h : SolvesEnds(n, lens, h)
    BY <1>6, EndsExist
  <2> QED
    BY <1>6, <2>1, SolvedEnds
<1>8. all \in Seq(C) /\ LaidOut(rows, n, ends, all)
  BY <1>2, <1>6, <1>7, FlattenedIsLaidOut DEF all
<1> DEFINE L == FlattenSeq(labels)
           M == FlattenSeq(masks)
<1>9. L \in Seq(Int) /\ LaidOut(labels, n, ends, L)
  <2>1. \A k \in 1..n : lens[k] = Len(labels[k])
    BY <1>1, <1>5, <1>6
  <2> QED
    BY <1>5, <1>7, <2>1, FlattenedIsLaidOut
<1>10. masked => M \in Seq(BOOLEAN) /\ LaidOut(masks, n, ends, M)
  <2> SUFFICES ASSUME masked PROVE M \in Seq(BOOLEAN) /\ LaidOut(masks, n, ends, M)
    OBVIOUS
  <2>1. \A k \in 1..n : lens[k] = Len(masks[k])
    BY <1>1, <1>5, <1>6
  <2>2. masks \in [1..n -> Seq(BOOLEAN)]
    BY <1>5
  <2> QED
    BY <1>7, <2>1, <2>2, FlattenedIsLaidOut
<1> HIDE DEF L, M
<1>11. Len(L) = Len(all) /\ (masked => Len(M) = Len(all)) /\ Len(all) \in Nat
  <2>1. Len(all) = ends[n] /\ Len(all) \in Nat
    BY <1>8, LaidOutFields
  <2>2. Len(L) = ends[n]
    BY <1>9, LaidOutFields
  <2>3. masked => Len(M) = ends[n]
    BY <1>10, LaidOutFields
  <2> QED
    BY <2>1, <2>2, <2>3
<1>12. ASSUME NEW p \in 1..Len(all) PROVE all[p] = IF masked /\ ~M[p] THEN NoLabel ELSE L[p]
  <2>1. HasPlace(rows, n, ends, all, p)
    BY <1>8, PlaceOf
  <2>0. PICK k \in 1..n : \E e \in 1..Len(rows[k]) : p = ends[k - 1] + e /\ all[p] = rows[k][e]
    BY <2>1 DEF HasPlace
  <2>2. PICK e \in 1..Len(rows[k]) : p = ends[k - 1] + e /\ all[p] = rows[k][e]
    BY <2>0
  <2>3. rows[k][e] = IF masked /\ ~Ls[k].mask[e] THEN NoLabel ELSE Ls[k].labels[e]
    BY DEF SaysRows
  <2>4. e \in 1..Len(labels[k]) /\ (masked => e \in 1..Len(masks[k]))
    BY <1>1, <1>5
  <2>5. LaidAt(labels, ends, L, k, e) /\ (masked => LaidAt(masks, ends, M, k, e))
    BY <1>9, <1>10, <2>4, LaidOutAt
  <2>6. L[p] = labels[k][e] /\ (masked => M[p] = masks[k][e])
    BY <2>2, <2>5 DEF LaidAt
  <2>7. labels[k] = Ls[k].labels /\ (masked => masks[k] = Ls[k].mask)
    BY <1>5
  <2> QED
    BY <2>2, <2>3, <2>6, <2>7
<1>13. MaskedInts(masked, c, Len(all))
  BY <1>4, <1>11 DEF MaskedInts, X, L, M
<1>14. SaysRows(c, masked, all)
  BY <1>4, <1>8, <1>12, <1>13 DEF SaysRows, C, L, M
<1> QED
  BY <1>4, <1>14 DEF all

LEMMA FileSays ==
  ASSUME NEW cfg \in Configs, NEW f \in DOMAIN LabelFiles, ~Failed(OpenLabels(LabelFiles[f], cfg)),
         ~SaysZero(LabelFiles[f])
  PROVE  \E L : OpenLabels(LabelFiles[f], cfg) = Ok(L) /\ SaysRows(L, IsMasked(LabelFiles[f]), IntRows(LabelFiles[f]))
<1> DEFINE file == LabelFiles[f]
           d == cfg.labels_dim
           r == OpenLabels(file, cfg)
<1>1. /\ file.ext = "csv" => file.rows \in Seq(Int \cup {Missing})
      /\ file.ext = "dat" => HasFloats(file)
  BY LabelFilesAssumption
<1>2. d \in Nat
  BY ConfigsAssumption
<1> HIDE DEF file
<1>3. CASE file.ext = "csv" /\ cfg.labels_index
  <2>1. r = OpenIntCsv(file.rows)
    BY <1>3 DEF OpenLabels
  <2> QED
    BY <1>1, <1>3, <2>1, CsvSays DEF file
<1>4. CASE file.ext = "dat" /\ d > 0
  <2> DEFINE floats == DataMemmapNew(d, file)
             labels == ConvertToLabels(floats.val)
  <2>1. r = IF Failed(floats) THEN floats
            ELSE IF DropPanics(floats.val) THEN Panicked
            ELSE IF Failed(labels) THEN labels
            ELSE IF d > 1 THEN OneHotToInt(labels.val) ELSE BinaryToInt(labels.val)
    BY <1>4 DEF OpenLabels
  <2>2. d \in Nat \ {0} /\ file.ext = "dat" /\ HasFloats(file) /\ ~Failed(r)
    BY <1>1, <1>2, <1>4 DEF file
  <2> HIDE DEF r
  <2>3. \E L : r = Ok(L) /\ SaysRows(L, IsMasked(file), IntRows(file))
    BY <2>1, <2>2, DatSays
  <2> QED
    BY <2>3 DEF r, file
<1>5. CASE ~(file.ext = "csv" /\ cfg.labels_index) /\ ~(file.ext = "dat" /\ d > 0)
  <2>1. r = Panicked
    BY <1>5 DEF OpenLabels
  <2> QED
    BY <2>1 DEF Panicked, Failed, file
<1> QED
  BY <1>3, <1>4, <1>5


LEMMA IntLabelsLoaded ==
  ASSUME NEW cfg \in Configs, Doubts(cfg) = {}, ~Failed(LabelsFromYaml(cfg))
  PROVE  \E c : LabelsFromYaml(cfg) = Ok(c) /\ Says(c, IntLabelRows(cfg), Len(IntLabelRows(cfg)))
<1> DEFINE paths == cfg.labels_path
           n == Len(paths)
           file(k) == LabelFiles[paths[k]]
           rs == [k \in DOMAIN paths |-> OpenLabels(file(k), cfg)]
           Ls == [k \in 1..n |-> rs[k].val]
           rows == [k \in 1..n |-> IntRows(file(k))]
           masked == IsMasked(file(1))
           all == IntLabelRows(cfg)
           r == LabelsFromYaml(cfg)
<1>1. paths \in Seq(DOMAIN LabelFiles)
  BY ConfigsAssumption
<1>2. n \in Nat /\ DOMAIN paths = 1..n /\ \A k \in 1..n : paths[k] \in DOMAIN LabelFiles
  BY <1>1
<1>3. r = IF Failed(Collect(rs)) THEN Collect(rs) ELSE Reduce(Collect(rs).val)
  BY DEF LabelsFromYaml
<1>4. ~Failed(Collect(rs)) /\ r = Reduce(Collect(rs).val) /\ ~Failed(r)
  BY <1>3
<1>5. DOMAIN rs = 1..n /\ \A k \in 1..n : rs[k] = OpenLabels(file(k), cfg)
  BY <1>2
<1>6. all = FlattenSeq(rows)
  BY <1>2 DEF IntLabelRows
<1>7. /\ \A j, k \in 1..n : IsMasked(file(j)) = IsMasked(file(k))
      /\ \A k \in 1..n : ~SaysZero(file(k))
  <2>1. SameMasks(cfg) /\ NoZeros(cfg)
    BY DEF Doubts
  <2> QED
    BY <1>2, <2>1 DEF SameMasks, NoZeros
<1> HIDE DEF n, paths, rs, all, r, file
<1>8. Collect(rs) = Ok(Ls) /\ \A k \in 1..n : ~Failed(rs[k])
  BY <1>2, <1>4, <1>5, CollectedOk, CollectedAll
<1>9. r = Reduce(Ls)
  BY <1>4, <1>8 DEF Ok
<1>10. n \in Nat \ {0}
  <2> SUFFICES ASSUME n = 0 PROVE FALSE
    BY <1>2
  <2>1. Ls = <<>>
    OBVIOUS
  <2>2. r = Panicked
    BY <1>9, <2>1 DEF Reduce
  <2> QED
    BY <1>4, <2>2 DEF Panicked, Failed
<1>11. masked \in BOOLEAN
  BY DEF IsMasked
<1>12. \A k \in 1..n : SaysRows(Ls[k], masked, rows[k])
  <2> SUFFICES ASSUME NEW k \in 1..n PROVE SaysRows(Ls[k], masked, rows[k])
    OBVIOUS
  <2>1. paths[k] \in DOMAIN LabelFiles /\ ~Failed(rs[k]) /\ rs[k] = OpenLabels(LabelFiles[paths[k]], cfg)
    BY <1>2, <1>5, <1>8 DEF file
  <2>2. PICK L : OpenLabels(LabelFiles[paths[k]], cfg) = Ok(L)
                 /\ SaysRows(L, IsMasked(LabelFiles[paths[k]]), IntRows(LabelFiles[paths[k]]))
    BY <1>7, <2>1, FileSays DEF file
  <2>3. Ls[k] = L
    BY <2>1, <2>2 DEF Ok
  <2>4. IsMasked(LabelFiles[paths[k]]) = masked
    <3>1. 1 \in 1..n
      BY <1>10
    <3> QED
      BY <1>7, <3>1 DEF file
  <2>5. rows[k] = IntRows(LabelFiles[paths[k]])
    BY DEF file
  <2> QED
    BY <2>2, <2>3, <2>4, <2>5
<1>13. rows \in [1..n -> Seq(Int \cup {NoLabel})]
  <2>1. \A k \in 1..n : rows[k] \in Seq(Int \cup {NoLabel})
    <3> HIDE DEF Ls, rows, masked
    <3> QED
      BY <1>12 DEF SaysRows
  <2> QED
    BY <2>1
<1>14. DOMAIN Ls = 1..n /\ Ls = [k \in 1..n |-> Ls[k]]
  OBVIOUS
<1> HIDE DEF Ls, rows, masked
<1>15. PICK c : Reduce(Ls) = Ok(c) /\ SaysRows(c, masked, all)
  BY <1>6, <1>10, <1>11, <1>12, <1>13, <1>14, MergedSays
<1>16. Says(c, all, Len(all))
  BY <1>11, <1>15, IntsSay
<1> QED
  BY <1>9, <1>15, <1>16 DEF r, all

LEMMA LabeledLoadedHolds ==
  ASSUME NEW cfg \in Configs, ~Failed(LabeledRamFromYaml(cfg)), Doubts(cfg) = {},
         ExpectLabels(cfg, IntLabelRows(cfg), {}) # NoCloud
  PROVE  FilesHold(LabeledRamFromYaml(cfg).val, ExpectLabels(cfg, IntLabelRows(cfg), {}))
<1> DEFINE d == cfg.data_dim
           flat == FlattenSeq(DataFloats(cfg))
           labels == IntLabelRows(cfg)
           L == LabelsFromYaml(cfg)
           ram == RamFromYaml(cfg)
<1>1. LabeledRamFromYaml(cfg) = IF Failed(L) THEN L ELSE IF Failed(ram) THEN ram ELSE Ok(LabeledCloud(ram.val, L.val))
  BY DEF LabeledRamFromYaml
<1>2. WholePoints(cfg) /\ Len(labels) = Len(AllRows(cfg)) /\ ExpectLabels(cfg, labels, {}) = Expect(AllRows(cfg), labels)
  BY NoDoubts
<1>3. d \in 1..MaxFloats
  BY ConfigData
<1>4. ~Failed(L) /\ ~Failed(ram) /\ LabeledRamFromYaml(cfg).val = LabeledCloud(ram.val, L.val)
  <2> HIDE DEF L, ram
  <2>1. ~Failed(L) /\ ~Failed(ram)
    BY <1>1
  <2> QED
    BY <1>1, <2>1 DEF Ok
<1>5. ram = Ok(FloatsIn(d, flat)) /\ flat \in Seq(Int) /\ AllRows(cfg) = Rows(flat, d)
  BY <1>2, <1>4, RamFilesHold
<1>6. PICK c : L = Ok(c) /\ Says(c, labels, Len(labels))
  BY <1>4, IntLabelsLoaded
<1> HIDE DEF flat, d, labels, L, ram
<1>7. FilesHold(LabeledCloud(FloatsIn(d, flat), c), Expect(Rows(flat, d), labels))
  BY <1>2, <1>3, <1>5, <1>6, LabeledIsHeld
<1>8. ram.val = FloatsIn(d, flat) /\ L.val = c
  BY <1>5, <1>6 DEF Ok
<1> QED
  BY <1>2, <1>4, <1>5, <1>7, <1>8 DEF labels

LEMMA DoubtedHolds ==
  ASSUME NEW cfg \in Configs, ~Failed(LabeledRamFromYaml(cfg)), Doubts(cfg) # {},
         ExpectLabels(cfg, IntLabelRows(cfg), Doubts(cfg)) # NoCloud
  PROVE  DoubtHolds(LabeledRamFromYaml(cfg).val, ExpectLabels(cfg, IntLabelRows(cfg), Doubts(cfg)))
<1> DEFINE labels == IntLabelRows(cfg)
           L == LabelsFromYaml(cfg)
           ram == RamFromYaml(cfg)
           doubts == Doubts(cfg)
           points == AllRows(cfg)
           e == ExpectLabels(cfg, labels, doubts)
           w == Expect(points, Unlabeled(points))
           c == LabeledRamFromYaml(cfg).val
<1>1. LabeledRamFromYaml(cfg) = IF Failed(L) THEN L ELSE IF Failed(ram) THEN ram ELSE Ok(LabeledCloud(ram.val, L.val))
  BY DEF LabeledRamFromYaml
<1>2. ~Failed(ram) /\ c = LabeledCloud(ram.val, L.val)
  <2> HIDE DEF L, ram
  <2> QED
    BY <1>1 DEF Ok
<1>3. WholePoints(cfg) /\ e = [Expect(points, labels) EXCEPT !.doubts = doubts]
  BY DEF ExpectLabels
<1>4. \E dim \in 1..MaxFloats : SourceHolds(ram.val, dim, w.rows) /\ ram.val.kind = "dense"
  <2> DEFINE d == cfg.data_dim
             flat == FlattenSeq(DataFloats(cfg))
  <2>1. ram = Ok(FloatsIn(d, flat)) /\ flat \in Seq(Int) /\ points = Rows(flat, d) /\ Len(flat) % d = 0
    BY <1>2, <1>3, RamFilesHold
  <2>2. d \in 1..MaxFloats /\ d \in Nat \ {0}
    BY ConfigData
  <2>3. w.rows = Beside(points, Unlabeled(points))
    BY DEF Beside
  <2> HIDE DEF ram, d, flat, w, points
  <2>4. w.rows = PlainRows(flat, d)
    BY <2>1, <2>3 DEF PlainRows
  <2>5. SourceHolds(FloatsIn(d, flat), d, PlainRows(flat, d))
    BY <2>1, <2>2, PlainFloatsHold DEF PlainRows
  <2>6. ram.val = FloatsIn(d, flat) /\ ram.val.kind = "dense"
    BY <2>1 DEF Ok, FloatsIn
  <2> QED
    BY <2>2, <2>4, <2>5, <2>6
<1>5. c.kind = "labeled" /\ c.data = ram.val
  BY <1>2 DEF LabeledCloud
<1>6. e.doubts = doubts /\ e.rows = Expect(points, labels).rows /\ e.origin = Expect(points, labels).origin
  <2> DEFINE x == Expect(points, labels)
  <2>1. x = [rows |-> x.rows, origin |-> x.origin, doubts |-> {}]
    BY DEF Expect
  <2> HIDE DEF x, doubts
  <2> QED
    BY <1>3, <2>1
<1> DEFINE xs == e.rows
           ys == w.rows
<1>7. xs = Beside(points, labels) /\ ys = Beside(points, Unlabeled(points))
  BY <1>6 DEF Beside
<1>8. points \in Seq(Points(cfg.data_dim))
  BY <1>2, <1>3, RamFilesHold, RowsAre, ConfigData
<1>9. Len(xs) = Len(points) /\ Len(ys) = Len(points) /\ e.origin = Identity(Len(points))
  BY <1>6, <1>7, <1>8, ZipIs DEF Expect
<1>10. \A k \in 1..Len(points) : xs[k].point = points[k] /\ ys[k].point = points[k]
  <2>1. ASSUME NEW k \in 1..Len(points)
        PROVE  /\ Beside(points, labels)[k] = [point |-> points[k], label |-> labels[k]]
               /\ Beside(points, Unlabeled(points))[k] = [point |-> points[k], label |-> Unlabeled(points)[k]]
    BY <1>8, ZipIs
  <2> HIDE DEF xs, ys, points, labels
  <2>2. ASSUME NEW k \in 1..Len(points) PROVE xs[k].point = points[k] /\ ys[k].point = points[k]
    <3>1. /\ xs[k] = [point |-> points[k], label |-> labels[k]]
          /\ ys[k] = [point |-> points[k], label |-> Unlabeled(points)[k]]
      BY <1>7, <2>1
    <3> QED
      BY <3>1
  <2> QED
    BY <2>2
<1> HIDE DEF xs, ys, points, labels
<1>11. SamePoints(xs, ys)
  BY <1>9, <1>10 DEF SamePoints
<1> HIDE DEF e, w, c, doubts, ram
<1>12. doubts # {}
  BY DEF doubts
<1>13. DoubtHolds(c, e)
  BY <1>4, <1>5, <1>6, <1>9, <1>11, <1>12 DEF DoubtHolds, xs, ys
<1> QED
  BY <1>13 DEF c, e, labels, doubts

(* new_simple: the matrix, row by row.                                     *)
LEMMA MatrixFlat ==
  ASSUME NEW n \in Nat, NEW d \in Nat \ {0}, NEW matrix \in [1..n -> Points(d)]
  PROVE  /\ FlattenSeq(matrix) \in Seq(Int) /\ Len(FlattenSeq(matrix)) % d = 0
         /\ Rows(FlattenSeq(matrix), d) = matrix
<1> DEFINE B == Points(d)
           flat == FlattenSeq(matrix)
           ss == [k \in 1..n |-> Rows(matrix[k], d)]
           ends == [k \in 0..n |-> k]
           lens == [k \in 1..n |-> 1]
<1>1. \A k \in 1..n : matrix[k] \in B /\ matrix[k] \in Seq(Int) /\ Len(matrix[k]) = d
  BY DEF Points
<1>2. matrix \in [1..n -> Seq(Int)]
  BY <1>1
<1>3. d \div d = 1 /\ d % d = 0
  <2>1. d * 1 = d
    OBVIOUS
  <2>2. (d * 1) \div d = 1 /\ (d * 1) % d = 0
    BY LengthOfWhole
  <2> QED
    BY <2>1, <2>2
<1>4. AreWhole(matrix, n, d)
  BY <1>1, <1>3 DEF AreWhole
<1>5. RowsOfAll(matrix, n, d) = Rows(flat, d) /\ flat \in Seq(Int) /\ Len(flat) % d = 0
  BY <1>2, <1>4, WholeRows
<1>6. RowsOfAll(matrix, n, d) = FlattenSeq(ss)
  BY DEF RowsOfAll
<1>7. \A k \in 1..n : ss[k] = <<matrix[k]>>
  <2> SUFFICES ASSUME NEW k \in 1..n PROVE ss[k] = <<matrix[k]>>
    OBVIOUS
  <2> DEFINE x == matrix[k]
             ps == Rows(x, d)
  <2>1. x \in Seq(Int) /\ Len(x) = d
    BY <1>1
  <2>2. ps \in Seq(B) /\ Len(ps) = 1
    BY <1>3, <2>1, RowsAre
  <2>3. ps[1] = Block(x, d, 0)
    <3>1. \A j \in 1..(Len(x) \div d) : ps[j] = Block(x, d, j - 1)
      BY <2>1, RowsAre
    <3>2. 1 \in 1..(Len(x) \div d) /\ 1 - 1 = 0
      BY <1>3, <2>1
    <3> HIDE DEF ps, x
    <3> QED
      BY <3>1, <3>2
  <2>4. Block(x, d, 0) = x
    <3>1. Block(x, d, 0) = SubSeq(x, d * 0 + 1, d * 0 + d)
      BY DEF Block
    <3>2. d * 0 + 1 = 1 /\ d * 0 + d = d
      OBVIOUS
    <3>3. SubSeq(x, 1, d) = x
      BY <2>1
    <3> QED
      BY <3>1, <3>2, <3>3
  <2> HIDE DEF x, B
  <2>5. ps = <<x>>
    BY <2>2, <2>3, <2>4
  <2> QED
    BY <2>5 DEF x
<1>8. ss \in [1..n -> Seq(B)]
  <2> HIDE DEF B
  <2>1. ASSUME NEW k \in 1..n PROVE ss[k] \in Seq(B)
    <3> HIDE DEF ss
    <3>1. matrix[k] \in B /\ ss[k] = <<matrix[k]>>
      BY <1>1, <1>7
    <3> QED
      BY <3>1
  <2> QED
    BY <2>1
<1>9. Ends(n, lens, ends)
  BY DEF Ends
<1>10. \A k \in 1..n : lens[k] = Len(ss[k])
  BY <1>7
<1> HIDE DEF B, ss, lens, flat
<1>11. FlattenSeq(ss) \in Seq(B) /\ LaidOut(ss, n, ends, FlattenSeq(ss))
  BY <1>8, <1>9, <1>10, FlattenedIsLaidOut
<1>12. LaidOut(ss, n, ends, matrix)
  <2>1. Ends(n, [k \in 1..n |-> Len(ss[k])], ends) /\ DOMAIN ss = 1..n
    BY <1>11 DEF LaidOut
  <2>2. Len(matrix) = ends[n]
    OBVIOUS
  <2>3. \A k \in 1..n : \A e \in 1..Len(ss[k]) : matrix[ends[k - 1] + e] = ss[k][e]
    <3> SUFFICES ASSUME NEW k \in 1..n, NEW e \in 1..Len(ss[k]) PROVE matrix[ends[k - 1] + e] = ss[k][e]
      OBVIOUS
    <3>1. e = 1 /\ ss[k][e] = matrix[k]
      BY <1>7
    <3>2. ends[k - 1] + e = k
      BY <3>1
    <3> QED
      BY <3>1, <3>2
  <2> QED
    BY <2>1, <2>2, <2>3 DEF LaidOut
<1>13. matrix \in Seq(B)
  <2>1. matrix \in [1..n -> B]
    BY DEF B
  <2> QED
    BY <2>1
<1>14. FlattenSeq(ss) = matrix
  <2> HIDE DEF ends
  <2> QED
    BY <1>11, <1>12, <1>13, SameFlat
<1> QED
  BY <1>5, <1>6, <1>14 DEF flat

MatrixLabels(matrix) == [k \in DOMAIN matrix |-> matrix[k][1]]

LEMMA SimpleHolds ==
  ASSUME NEW matrix \in Matrices
  PROVE  FilesHold(LabeledCloud(DataRamNew(FlattenSeq(matrix), Len(matrix[1])).val, IntLabels(MatrixLabels(matrix), NoMask)),
                   Expect(matrix, MatrixLabels(matrix)))
<1> DEFINE d == Len(matrix[1])
           n == Len(matrix)
           flat == FlattenSeq(matrix)
           labels == MatrixLabels(matrix)
           L == IntLabels(labels, NoMask)
           C == Int \cup {NoLabel}
<1>1. /\ matrix \in Seq(Seq(Int)) /\ matrix # <<>> /\ d \in 1..MaxFloats
      /\ \A k \in DOMAIN matrix : Len(matrix[k]) = d
  BY MatricesAssumption
<1>2. n \in Nat /\ DOMAIN matrix = 1..n /\ matrix \in [1..n -> Seq(Int)]
  BY <1>1
<1>3. d \in Nat \ {0}
  BY <1>1, SourcesAssumption
<1> HIDE DEF n, d
<1>4. matrix \in [1..n -> Points(d)]
  <2>1. \A k \in 1..n : matrix[k] \in Points(d)
    BY <1>1, <1>2 DEF Points
  <2> QED
    BY <1>2, <2>1
<1>5. flat \in Seq(Int) /\ Len(flat) % d = 0 /\ Rows(flat, d) = matrix
  BY <1>2, <1>3, <1>4, MatrixFlat
<1>6. DataRamNew(flat, d).val = FloatsIn(d, flat)
  BY <1>5 DEF DataRamNew, FloatsIn, Ok
<1> HIDE DEF flat
<1>7. labels \in Seq(Int) /\ labels \in Seq(C) /\ Len(labels) = n
  <2>1. ASSUME NEW k \in 1..n PROVE matrix[k][1] \in Int
    <3>1. matrix[k] \in Seq(Int) /\ Len(matrix[k]) = d
      BY <1>1, <1>2
    <3> QED
      BY <1>3, <3>1
  <2>2. labels = [k \in 1..n |-> matrix[k][1]]
    BY <1>2 DEF MatrixLabels
  <2>3. labels \in [1..n -> Int] /\ labels \in [1..n -> C]
    BY <2>1, <2>2
  <2> HIDE DEF labels, C
  <2>4. labels \in Seq(Int) /\ Len(labels) = n
    BY <1>2, <2>3
  <2>5. labels \in Seq(C)
    BY <1>2, <2>3
  <2> QED
    BY <2>4, <2>5
<1> HIDE DEF labels
<1>8. L \in Ints(FALSE) /\ L.labels = labels
  BY <1>7, IntLabelsAre
<1> HIDE DEF L, C
<1>9. SaysRows(L, FALSE, labels)
  BY <1>2, <1>7, <1>8 DEF SaysRows, MaskedInts, C
<1>10. Says(L, labels, n)
  BY <1>7, <1>9, IntsSay
<1>11. Len(Rows(flat, d)) = n
  BY <1>2, <1>5 DEF n
<1>12. FilesHold(LabeledCloud(FloatsIn(d, flat), L), Expect(Rows(flat, d), labels))
  BY <1>1, <1>5, <1>10, <1>11, LabeledIsHeld
<1> QED
  BY <1>5, <1>6, <1>12 DEF d, flat, L, labels

(* A compressed matrix has a point and no label for every row.             *)
LEMMA SparseHolds ==
  ASSUME NEW matrix \in Matrices
  PROVE  /\ FilesHold(Compressed(matrix), Expect(matrix, Unlabeled(matrix)))
         /\ Compressed(matrix).kind = "sparse" /\ Len(Compressed(matrix).rows) = Len(matrix) + 1
<1> DEFINE c == Compressed(matrix)
           e == Expect(matrix, Unlabeled(matrix))
<1>1. Len(matrix) \in Nat
  BY MatricesAssumption
<1>2. c.kind = "sparse" /\ c.rows = [k \in 1..(Len(matrix) + 1) |-> RowEnds(matrix)[k - 1]]
  BY DEF Compressed, SparseDataNew
<1>3. Len(c.rows) = Len(matrix) + 1
  <2> HIDE DEF c
  <2> QED
    BY <1>1, <1>2
<1>4. e = [rows |-> e.rows, origin |-> e.origin, doubts |-> {}]
  BY DEF Expect
<1> HIDE DEF c, e
<1>5. RowsHold(c, e, MaxFloats)
  BY <1>2, <1>4 DEF RowsHold
<1>6. MaxFloats \in 1..MaxFloats
  BY SourcesAssumption
<1>7. FilesHold(c, e)
  BY <1>2, <1>5, <1>6 DEF FilesHold
<1> QED
  BY <1>2, <1>3, <1>7 DEF c, e

-----------------------------------------------------------------------------
(* Every step keeps what the clouds hold.                                  *)
LEMMA ReindexKeeps ==
  ASSUME CloudsAreMade, CloudsHold, NEW pairs \in Reindexings, Reindex(pairs)
  PROVE  CloudsHold'
<1> DEFINE as == Readdressed(cloud, pairs)
           new == [n \in NewIndexes(pairs) |-> expected.origin[OldOf(pairs, n)]]
<1>1. IsKind(cloud, "glued")
  BY DEF Reindex
<1>2. CASE Opened(NoCloud, Panicked, {}, NoCloud)
  BY <1>2, OpenedHolds
<1>3. CASE UNCHANGED vars
  BY <1>3 DEF vars, CloudsHold
<1>4. CASE /\ Len(pairs) = Cardinality(DOMAIN cloud.addresses) /\ OldIndexes(pairs) \subseteq DOMAIN cloud.addresses
           /\ cloud' = [cloud EXCEPT !.addresses = as]
           /\ expected' = IF expected = NoCloud \/ ~IsBijection(pairs) THEN NoCloud
                          ELSE [expected EXCEPT !.origin = new]
  <2>1. CASE expected = NoCloud \/ ~IsBijection(pairs)
    BY <1>4, <2>1 DEF CloudsHold, FilesHold
  <2>0. FilesHold(cloud, expected)
    BY <1>1, WithoutDoubt DEF IsKind
  <2>2. CASE ~(expected = NoCloud \/ ~IsBijection(pairs))
    <3> DEFINE old == cloud.addresses
    <3>1. PICK ss : cloud = GluedOf(ss, old)
      BY <1>1 DEF CloudsAreMade, Made
    <3>2. cloud = [kind |-> "glued", sources |-> ss, addresses |-> old]
      BY <3>1 DEF GluedOf
    <3>3. /\ Len(pairs) = Cardinality(DOMAIN old) /\ OldIndexes(pairs) \subseteq DOMAIN old
          /\ cloud' = [cloud EXCEPT !.addresses = as] /\ expected' = [expected EXCEPT !.origin = new]
      BY <1>4, <2>2
    <3>4. IsOpen(cloud) /\ FilesHold(cloud, expected)
      BY <1>1, <2>0 DEF IsKind
    <3> HIDE DEF old, as
    <3>5. cloud' = [kind |-> "glued", sources |-> ss, addresses |-> as]
      BY <3>2, <3>3
    <3>6. as = Readdressed(GluedOf(ss, old), pairs)
      BY <3>1 DEF as
    <3>7. cloud' = GluedOf(ss, Readdressed(GluedOf(ss, old), pairs))
      BY <3>5, <3>6 DEF GluedOf
    <3>8. IsOpen(GluedOf(ss, old)) /\ FilesHold(GluedOf(ss, old), expected)
      BY <3>1, <3>4
    <3>9. FilesHold(GluedOf(ss, Readdressed(GluedOf(ss, old), pairs)), [expected EXCEPT !.origin = new])
      BY <2>2, <3>3, <3>8, ReindexHolds
    <3>10. FilesHold(cloud', expected')
      BY <3>3, <3>7, <3>9
    <3> QED
      BY <3>10 DEF CloudsHold
  <2> QED
    BY <2>1, <2>2
<1>5. \/ Opened(NoCloud, Panicked, {}, NoCloud)
      \/ UNCHANGED vars
      \/ /\ Len(pairs) = Cardinality(DOMAIN cloud.addresses) /\ OldIndexes(pairs) \subseteq DOMAIN cloud.addresses
         /\ cloud' = [cloud EXCEPT !.addresses = as]
         /\ expected' = IF expected = NoCloud \/ ~IsBijection(pairs) THEN NoCloud
                        ELSE [expected EXCEPT !.origin = new]
  <2>1. new = [n \in NewIndexes(pairs) |->
                 expected.origin[CHOOSE old \in OldIndexes(pairs) : \E k \in DOMAIN pairs : pairs[k] = <<old, n>>]]
    BY DEF OldOf
  <2> HIDE DEF new, as
  <2> QED
    BY <2>1 DEF Reindex, as
<1> QED
  BY <1>2, <1>3, <1>4, <1>5

LEMMA CloudsHoldStep ==
  ASSUME CloudsAreMade, CloudsHold, [Next]_vars
  PROVE  CloudsHold'
<1>1. ASSUME NEW cfg \in Configs, OpenGlued(cfg) PROVE CloudsHold'
  <2> DEFINE r == OpenMemmaps(cfg.data_dim, cfg.data_path)
             want == ExpectPoints(cfg, FALSE)
  <2>1. Opened(cfg, r, MapsOf(cfg.data_path), want)
    BY <1>1 DEF OpenGlued
  <2>2. ~Failed(r) => FilesHold(r.val, want)
    BY GluedFilesHold
  <2> HIDE DEF r, want
  <2> QED
    BY <2>1, <2>2, OpenedHolds
<1>2. ASSUME NEW cfg \in Configs, OpenGluedLabeled(cfg) PROVE CloudsHold'
  <2> DEFINE r == OpenLabeledMemmaps(cfg)
             all == ExpectLabels(cfg, VecLabelRows(cfg), {})
             want == IF FileByFile(cfg) THEN all ELSE NoCloud
  <2>1. /\ \A k \in DOMAIN cfg.labels_path : LabelFiles[cfg.labels_path[k]].ext = "dat"
        /\ Opened(cfg, r, MapsOf(cfg.data_path), want)
    BY <1>2 DEF OpenGluedLabeled
  <2>2. (~Failed(r) /\ FileByFile(cfg) /\ all # NoCloud) => FilesHold(r.val, all)
    BY <2>1, LabeledGluedHolds
  <2> HIDE DEF r, all
  <2>3. (~Failed(r) /\ want # NoCloud) => FilesHold(r.val, want)
    BY <2>2
  <2> HIDE DEF want
  <2> QED
    BY <2>1, <2>3, OpenedHolds
<1>3. ASSUME NEW cfg \in Configs, LoadRam(cfg) PROVE CloudsHold'
  <2> DEFINE r == RamFromYaml(cfg)
             want == ExpectPoints(cfg, TRUE)
  <2>1. Opened(cfg, r, {}, want)
    BY <1>3 DEF LoadRam
  <2>2. (~Failed(r) /\ want # NoCloud) => FilesHold(r.val, want)
    BY LoadedHolds
  <2> HIDE DEF r, want
  <2> QED
    BY <2>1, <2>2, OpenedHolds
<1>4. ASSUME NEW cfg \in Configs, LoadLabeledRam(cfg) PROVE CloudsHold'
  <2> DEFINE r == LabeledRamFromYaml(cfg)
             want == ExpectLabels(cfg, IntLabelRows(cfg), Doubts(cfg))
  <2>1. Opened(cfg, r, {}, want)
    BY <1>4 DEF LoadLabeledRam
  <2>2. (~Failed(r) /\ want # NoCloud /\ Doubts(cfg) = {}) => FilesHold(r.val, want)
    BY LabeledLoadedHolds
  <2>3. (~Failed(r) /\ want # NoCloud /\ Doubts(cfg) # {}) => DoubtHolds(r.val, want)
    BY DoubtedHolds
  <2> HIDE DEF r, want
  <2>4. (~Failed(r) /\ want # NoCloud) => FilesHold(r.val, want) \/ DoubtHolds(r.val, want)
    BY <2>2, <2>3
  <2> QED
    BY <2>1, <2>4, OpenedHolds
<1>5. ASSUME NEW cfg \in Configs, LoadVecLabeledRam(cfg) PROVE CloudsHold'
  <2> DEFINE r == VecLabeledRamFromYaml(cfg)
             all == ExpectLabels(cfg, VecLabelRows(cfg), {})
             want == IF WholeLabels(cfg) THEN all ELSE NoCloud
  <2>1. /\ \A k \in DOMAIN cfg.labels_path : LabelFiles[cfg.labels_path[k]].ext = "dat"
        /\ Opened(cfg, r, {}, want)
    BY <1>5 DEF LoadVecLabeledRam
  <2>2. (~Failed(r) /\ WholeLabels(cfg) /\ all # NoCloud) => FilesHold(r.val, all)
    BY <2>1, VecLoadedHolds
  <2> HIDE DEF r, all
  <2>3. (~Failed(r) /\ want # NoCloud) => FilesHold(r.val, want)
    BY <2>2
  <2> HIDE DEF want
  <2> QED
    BY <2>1, <2>3, OpenedHolds
<1>6. ASSUME NEW matrix \in Matrices, NewSimple(matrix) PROVE CloudsHold'
  <2> DEFINE labels == MatrixLabels(matrix)
             c == LabeledCloud(DataRamNew(FlattenSeq(matrix), Len(matrix[1])).val, IntLabels(labels, NoMask))
             r == Ok(c)
             want == Expect(matrix, labels)
  <2>1. Opened(NoCloud, r, {}, want)
    BY <1>6 DEF NewSimple, MatrixLabels
  <2>2. FilesHold(c, want)
    BY SimpleHolds
  <2> HIDE DEF c, want
  <2>3. r.val = c
    BY DEF Ok
  <2> HIDE DEF r
  <2> QED
    BY <2>1, <2>2, <2>3, OpenedHolds
<1>7. ASSUME NEW matrix \in Matrices, NewSparse(matrix) PROVE CloudsHold'
  <2>1. cloud' = Compressed(matrix) /\ expected' = Expect(matrix, Unlabeled(matrix))
    BY <1>7 DEF NewSparse
  <2>2. FilesHold(Compressed(matrix), Expect(matrix, Unlabeled(matrix)))
    BY SparseHolds
  <2> QED
    BY <2>1, <2>2 DEF CloudsHold
<1>8. ASSUME NEW cfg \in Configs, MergeRam(cfg) PROVE CloudsHold'
  <2> DEFINE other == RamFromYaml(cfg)
             r == DataRamMerge(cloud, other.val)
             all == Expect([k \in DOMAIN expected.rows |-> expected.rows[k].point] \o AllRows(cfg),
                           Unlabeled(expected.rows \o AllRows(cfg)))
             want == IF expected = NoCloud \/ ~WholePoints(cfg) THEN NoCloud ELSE all
  <2>1. Opened(NoCloud, r, {}, want) /\ IsKind(cloud, "dense") /\ ~Failed(other)
    BY <1>8 DEF MergeRam
  <2>2. FilesHold(cloud, expected)
    BY <2>1, WithoutDoubt DEF IsKind
  <2>3. (~Failed(r) /\ expected # NoCloud /\ WholePoints(cfg)) => FilesHold(r.val, all)
    BY <2>1, <2>2, MergeHolds
  <2> HIDE DEF r, all
  <2>4. (~Failed(r) /\ want # NoCloud) => FilesHold(r.val, want)
    BY <2>3
  <2> HIDE DEF want
  <2> QED
    BY <2>1, <2>4, OpenedHolds
<1>9. CASE Convert
  <2> DEFINE r == ConvertGluedMemmapToRam(cloud)
             ragged == \E k \in DOMAIN cloud.sources : Len(cloud.sources[k].data) % cloud.sources[k].dim # 0
             all == [expected EXCEPT !.origin = Identity(Len(expected.rows))]
             want == IF expected = NoCloud \/ ragged THEN NoCloud ELSE all
  <2>1. /\ IsKind(cloud, "glued") /\ \A k \in DOMAIN cloud.sources : cloud.sources[k].kind = "dense"
        /\ Opened(NoCloud, r, {}, want)
    BY <1>9 DEF Convert
  <2>2. FilesHold(cloud, expected)
    BY <2>1, WithoutDoubt DEF IsKind
  <2>3. (~Failed(r) /\ expected # NoCloud /\ ~ragged) => FilesHold(r.val, all)
    BY <2>1, <2>2, ConvertHolds
  <2> HIDE DEF r, all, ragged
  <2>4. (~Failed(r) /\ want # NoCloud) => FilesHold(r.val, want)
    BY <2>3
  <2> HIDE DEF want
  <2> QED
    BY <2>1, <2>4, OpenedHolds
<1>10. ASSUME NEW pairs \in Reindexings, Reindex(pairs) PROVE CloudsHold'
  BY <1>10, ReindexKeeps
<1>11. CASE Close
  BY <1>11 DEF Close, CloudsHold, FilesHold
<1>12. CASE UNCHANGED vars
  BY <1>12 DEF CloudsHold, vars
<1> QED
  BY <1>1, <1>2, <1>3, <1>4, <1>5, <1>6, <1>7, <1>8, <1>9, <1>10, <1>11, <1>12 DEF Next

LEMMA SparseIsItsMatrix ==
  ASSUME NEW c, NEW e, NEW matrix \in Matrices, c = Compressed(matrix), e = Expect(matrix, Unlabeled(matrix))
  PROVE  /\ ReferenceIndexes(c) = DOMAIN e.origin /\ CloudLen(c) = Len(e.rows)
         /\ Cardinality(ReferenceIndexes(c)) = CloudLen(c)
         /\ \A i \in DOMAIN e.origin : Label(c, i) = Ok(e.rows[e.origin[i] + 1].label)
<1> DEFINE n == Len(matrix)
<1>1. n \in Nat /\ matrix \in Seq(Seq(Int))
  BY MatricesAssumption
<1>2. c.kind = "sparse" /\ Len(c.rows) = n + 1
  BY SparseHolds
<1> DEFINE rows == e.rows
           origin == e.origin
<1>3. rows = [k \in DOMAIN matrix |-> [point |-> matrix[k], label |-> Unlabeled(matrix)[k]]] /\ origin = Identity(n)
  BY DEF Expect
<1>4. DOMAIN matrix = 1..n
  BY <1>1
<1> HIDE DEF rows, origin, n
<1>5. Len(rows) = n /\ \A k \in 1..n : rows[k].label = NoLabel
  <2>1. \A k \in 1..n : Unlabeled(matrix)[k] = NoLabel
    BY <1>4 DEF Unlabeled
  <2>2. ASSUME NEW k \in 1..n PROVE rows[k].label = NoLabel
    <3>1. rows[k] = [point |-> matrix[k], label |-> Unlabeled(matrix)[k]]
      BY <1>3, <1>4
    <3> QED
      BY <2>1, <3>1
  <2>3. Len(rows) = n
    BY <1>1, <1>3, <1>4
  <2> QED
    BY <2>2, <2>3
<1>6. SparseLen(c) = n /\ SparseReferences(c) = 0..(n - 1)
  BY <1>1, <1>2 DEF SparseLen, SparseReferences
<1>7. ReferenceIndexes(c) = 0..(n - 1) /\ CloudLen(c) = n
  BY <1>2, <1>6 DEF ReferenceIndexes, CloudLen
<1>8. Cardinality(0..(n - 1)) = n
  <2>1. Cardinality(0..(n - 1)) = IF 0 > n - 1 THEN 0 ELSE n - 1 - 0 + 1
    BY <1>1, FS_Interval
  <2> QED
    BY <1>1, <2>1
<1>9. DOMAIN origin = 0..(n - 1) /\ \A i \in 0..(n - 1) : origin[i] = i
  BY <1>3 DEF Identity
<1>10. ASSUME NEW i \in 0..(n - 1) PROVE Label(c, i) = Ok(rows[origin[i] + 1].label)
  <2>1. i + 1 \in 1..n /\ origin[i] = i
    BY <1>1, <1>9
  <2>2. Label(c, i) = Ok(NoLabel)
    BY <1>2 DEF Label, SourceLabel
  <2>3. rows[i + 1].label = NoLabel
    BY <1>5, <2>1
  <2> QED
    BY <2>1, <2>2, <2>3
<1> QED
  BY <1>5, <1>7, <1>8, <1>9, <1>10 DEF rows, origin

LEMMA HeldAnswers ==
  ASSUME NEW c, NEW e, IsOpen(c), e # NoCloud, Made(c, e), FilesHold(c, e), c.kind # "sparse"
  PROVE  Answers(c, e.rows, e.origin)
<1>1. PICK dim \in 1..MaxFloats : RowsHold(c, e, dim)
  BY DEF FilesHold
<1>2. dim \in Nat \ {0} /\ c.kind \in {"dense", "labeled", "glued"}
  BY SourcesAssumption DEF FilesHold
<1>3. CASE c.kind \in {"dense", "labeled"}
  <2>1. SourceHolds(c, dim, e.rows) /\ e.origin = Identity(Len(e.rows))
    BY <1>1, <1>3 DEF RowsHold
  <2>2. Answers(c, e.rows, Identity(Len(e.rows)))
    BY <1>2, <2>1, SourceAnswersAll
  <2> QED
    BY <2>1, <2>2
<1>4. CASE c.kind = "glued"
  <2>1. PICK ss : c = GluedOf(ss, c.addresses)
    BY <1>4 DEF Made, IsKind
  <2>2. c.sources = ss
    BY <2>1 DEF GluedOf
  <2>3. PICK n, rs, ends : /\ GluedHolds(c.sources, dim, n, rs, ends, e.rows)
                           /\ IndexesHold(c.addresses, e.origin, n, rs, ends)
    BY <1>1, <1>4 DEF RowsHold
  <2> DEFINE as == c.addresses
  <2>4. GluedHolds(ss, dim, n, rs, ends, e.rows) /\ IndexesHold(as, e.origin, n, rs, ends) /\ c = GluedOf(ss, as)
    BY <2>1, <2>2, <2>3
  <2> HIDE DEF as
  <2>5. Answers(GluedOf(ss, as), e.rows, e.origin)
    BY <1>2, <2>4, GluedAnswers
  <2> QED
    BY <2>4, <2>5
<1> QED
  BY <1>2, <1>3, <1>4

(* A cloud whose labels are doubtful answers the points of its files.      *)
AnswersPoints(c, rows, origin) ==
  /\ ReferenceIndexes(c) = DOMAIN origin /\ CloudLen(c) = Len(rows)
  /\ IsFiniteSet(ReferenceIndexes(c)) /\ Cardinality(ReferenceIndexes(c)) = CloudLen(c)
  /\ \A i \in DOMAIN origin : origin[i] + 1 \in 1..Len(rows) /\ Point(c, i) = Ok(rows[origin[i] + 1].point)

LEMMA AnswersAll ==
  ASSUME NEW c, NEW rows, NEW origin, Answers(c, rows, origin)
  PROVE  AnswersPoints(c, rows, origin)
BY DEF Answers, AnswersRow, AnswersPoints

LEMMA DoubtAnswers ==
  ASSUME NEW c, NEW e, DoubtHolds(c, e)
  PROVE  AnswersPoints(c, e.rows, e.origin)
<1>1. /\ c.kind = "labeled" /\ c.data.kind = "dense"
      /\ \E dim \in 1..MaxFloats : \E rows : /\ SourceHolds(c.data, dim, rows)
                                             /\ e.origin = Identity(Len(rows)) /\ SamePoints(e.rows, rows)
  BY DEF DoubtHolds
<1>2. PICK dim \in 1..MaxFloats : \E rows : /\ SourceHolds(c.data, dim, rows)
                                           /\ e.origin = Identity(Len(rows)) /\ SamePoints(e.rows, rows)
  BY <1>1
<1>3. PICK rows : /\ SourceHolds(c.data, dim, rows)
                  /\ e.origin = Identity(Len(rows)) /\ SamePoints(e.rows, rows)
  BY <1>2
<1>4. dim \in Nat \ {0}
  BY SourcesAssumption
<1>5. Answers(c.data, rows, Identity(Len(rows)))
  BY <1>3, <1>4, SourceAnswersAll
<1>6. AnswersPoints(c.data, rows, e.origin)
  BY <1>3, <1>5, AnswersAll
<1>7. /\ ReferenceIndexes(c) = ReferenceIndexes(c.data) /\ CloudLen(c) = CloudLen(c.data)
      /\ \A i : Point(c, i) = Point(c.data, i)
  BY <1>1 DEF ReferenceIndexes, CloudLen, SourceLen, Point, SourcePoint
<1>8. Len(e.rows) = Len(rows) /\ \A k \in 1..Len(rows) : e.rows[k].point = rows[k].point
  BY <1>3 DEF SamePoints
<1> QED
  BY <1>6, <1>7, <1>8 DEF AnswersPoints

LEMMA KnownPoints ==
  ASSUME CloudsAreMade, CloudsHold, IsKnown, cloud.kind # "sparse"
  PROVE  AnswersPoints(cloud, expected.rows, expected.origin)
<1>1. IsOpen(cloud) /\ expected # NoCloud /\ Made(cloud, expected)
  BY DEF IsKnown, CloudsAreMade
<1>2. CASE FilesHold(cloud, expected)
  BY <1>1, <1>2, HeldAnswers, AnswersAll
<1>3. CASE DoubtHolds(cloud, expected)
  BY <1>3, DoubtAnswers
<1> QED
  BY <1>2, <1>3 DEF CloudsHold

LEMMA HeldIsItsFiles ==
  ASSUME CloudsAreMade, CloudsHold
  PROVE  CloudIsItsFiles
<1> SUFFICES ASSUME IsKnown
             PROVE  /\ ReferenceIndexes(cloud) = DOMAIN expected.origin
                    /\ CloudLen(cloud) = Len(expected.rows)
                    /\ Cardinality(ReferenceIndexes(cloud)) = CloudLen(cloud)
                    /\ cloud.kind # "sparse" => \A i \in DOMAIN expected.origin : Point(cloud, i) = Ok(Want(i).point)
                    /\ expected.doubts = {} => LabelsKept
  BY DEF CloudIsItsFiles
<1>1. IsOpen(cloud) /\ expected # NoCloud /\ Made(cloud, expected)
  BY DEF IsKnown, CloudsAreMade
<1>2. CASE cloud.kind = "sparse"
  <2>1. PICK matrix \in Matrices : cloud = Compressed(matrix) /\ expected = Expect(matrix, Unlabeled(matrix))
    BY <1>1, <1>2 DEF Made, IsKind
  <2>2. /\ ReferenceIndexes(cloud) = DOMAIN expected.origin /\ CloudLen(cloud) = Len(expected.rows)
        /\ Cardinality(ReferenceIndexes(cloud)) = CloudLen(cloud)
        /\ \A i \in DOMAIN expected.origin : Label(cloud, i) = Ok(expected.rows[expected.origin[i] + 1].label)
    BY <2>1, SparseIsItsMatrix
  <2> QED
    BY <1>2, <2>2 DEF Want, LabelsKept
<1>3. CASE cloud.kind # "sparse"
  <2>1. AnswersPoints(cloud, expected.rows, expected.origin)
    BY <1>3, KnownPoints
  <2>2. ASSUME expected.doubts = {} PROVE LabelsKept
    <3>1. FilesHold(cloud, expected)
      BY <2>2 DEF CloudsHold, DoubtHolds
    <3>2. Answers(cloud, expected.rows, expected.origin)
      BY <1>1, <1>3, <3>1, HeldAnswers
    <3> QED
      BY <3>2 DEF Answers, AnswersRow, Want, LabelsKept
  <2> QED
    BY <2>1, <2>2 DEF AnswersPoints, Want
<1> QED
  BY <1>2, <1>3

(* Whatever way a cloud was put together, merged, glued or reindexed, its  *)
(* indexes are the rows of the data files, each with its own coordinates:  *)
(* none is lost, doubled or shifted (loaders, DataRam::merge,              *)
(* HashGluedCloud::new and reindex). Each has its own label too, but where *)
(* label files with and without a mask are merged or a file says 0         *)
(* (SmallIntLabels::merge, open_int_csv).                                  *)
THEOREM CloudsAreTheirFiles == Spec => []CloudIsItsFiles
<1>1. Init => CloudsAreMade /\ CloudsHold
  BY DEF Init, CloudsAreMade, Made, CloudsHold, FilesHold, IsKind, IsOpen
<1>2. CloudsAreMade /\ CloudsHold /\ [Next]_vars => (CloudsAreMade /\ CloudsHold)'
  BY MadeStep, CloudsHoldStep
<1>3. CloudsAreMade /\ CloudsHold => CloudIsItsFiles
  BY HeldIsItsFiles
<1> QED
  BY <1>1, <1>2, <1>3, PTL DEF Spec

-----------------------------------------------------------------------------
(* A glued cloud has a source when it has a row.                           *)
LEMMA GluedHasSource ==
  ASSUME NEW ss, NEW dim, NEW n, NEW rs, NEW ends, NEW rows, GluedHolds(ss, dim, n, rs, ends, rows), rows # <<>>
  PROVE  n \in Nat /\ 1 \in 1..n /\ DOMAIN ss = 1..n /\ SourceHolds(ss[1], dim, rs[1])
<1>1. n \in Nat /\ LaidOut(rs, n, ends, rows) /\ rows \in Seq(Row(dim)) /\ DOMAIN ss = 1..n
      /\ \A k \in 1..n : SourceHolds(ss[k], dim, rs[k])
  BY DEF GluedHolds
<1>2. Len(rows) # 0
  BY <1>1
<1>3. Len(rows) = ends[n] /\ ends[0] = 0
  BY <1>1 DEF LaidOut, Ends
<1>4. n # 0
  BY <1>2, <1>3
<1> QED
  BY <1>1, <1>4

(* What a query reads: a point of dim floats at every index that is known, *)
(* and the failure of every one that is not.                               *)
Reads(at, dim, known, w) ==
  \A i \in DOMAIN at : IF i \in known THEN at[i] = Ok(w[i]) /\ w[i] \in Points(dim)
                       ELSE at[i] = Err(DataAccessError(i))
PointsOf(rows, origin) == [i \in DOMAIN origin |-> rows[origin[i] + 1].point]

HasShape(c, e, dim) ==
  /\ Dim(c) = dim
  /\ \A i \in DOMAIN e.origin : PointsOf(e.rows, e.origin)[i] \in Points(dim)
  /\ \A i \in DOMAIN e.origin : Point(c, i) = Ok(PointsOf(e.rows, e.origin)[i])
  /\ \A i \in Nat \ DOMAIN e.origin : Point(c, i) = Err(DataAccessError(i))

LEMMA SourceDim ==
  ASSUME NEW dim \in Nat \ {0}, NEW s, NEW rows, SourceHolds(s, dim, rows)
  PROVE  /\ s.kind \in {"dense", "labeled"}
         /\ s.kind = "labeled" => s.data.dim = dim
         /\ s.kind # "labeled" => s.dim = dim
<1>1. CASE PlainHolds(s, dim, rows)
  BY <1>1 DEF PlainHolds, PointsHold, DenseOf
<1>2. CASE LabeledHolds(s, dim, rows)
  <2>1. s.data \in DenseOf(dim) /\ s.kind = "labeled"
    BY <1>2 DEF LabeledHolds, PointsHold, LabeledCloud
  <2>2. s.data.dim = dim
    BY <2>1 DEF DenseOf
  <2> QED
    BY <2>1, <2>2
<1> QED
  BY <1>1, <1>2 DEF SourceHolds

LEMMA HeldShape ==
  ASSUME NEW c, NEW e, IsOpen(c), e # NoCloud, Made(c, e), FilesHold(c, e), c.kind # "sparse", e.rows # <<>>
  PROVE  \E dim \in 1..MaxFloats : HasShape(c, e, dim)
<1> DEFINE rows == e.rows
           origin == e.origin
           w == PointsOf(rows, origin)
<1>1. PICK dim \in 1..MaxFloats : RowsHold(c, e, dim)
  BY DEF FilesHold
<1>2. dim \in Nat \ {0} /\ c.kind \in {"dense", "labeled", "glued"}
  BY SourcesAssumption DEF FilesHold
<1>3. Answers(c, rows, origin) /\ rows # <<>>
  BY HeldAnswers
<1>4. \A i \in DOMAIN origin : w[i] = rows[origin[i] + 1].point
  BY DEF PointsOf
<1>5. /\ c.kind \in {"dense", "labeled"} => SourceHolds(c, dim, rows) /\ origin = Identity(Len(rows))
      /\ c.kind = "glued" => \E n, rs, ends : /\ GluedHolds(c.sources, dim, n, rs, ends, rows)
                                              /\ IndexesHold(c.addresses, origin, n, rs, ends)
  BY <1>1 DEF RowsHold
<1> HIDE DEF rows, origin, w
<1>6. rows \in Seq(Row(dim))
  BY <1>2, <1>5 DEF SourceHolds, GluedHolds
<1>7. \A i \in DOMAIN origin : w[i] \in Points(dim) /\ Point(c, i) = Ok(w[i])
  <2> SUFFICES ASSUME NEW i \in DOMAIN origin PROVE w[i] \in Points(dim) /\ Point(c, i) = Ok(w[i])
    OBVIOUS
  <2> DEFINE p == origin[i] + 1
  <2>1. AnswersRow(c, i, rows, origin[i] + 1)
    BY <1>3 DEF Answers
  <2>2. p \in 1..Len(rows) /\ Point(c, i) = Ok(rows[p].point)
    BY <2>1 DEF AnswersRow
  <2>3. w[i] = rows[p].point
    BY <1>4
  <2> HIDE DEF p
  <2>4. rows[p] \in Row(dim)
    BY <1>6, <2>2
  <2>5. rows[p].point \in Points(dim)
    BY <2>4 DEF Row
  <2> QED
    BY <2>2, <2>3, <2>5
<1>8. CASE c.kind \in {"dense", "labeled"}
  <2>1. SourceHolds(c, dim, rows) /\ origin = Identity(Len(rows)) /\ Len(rows) \in Nat
    BY <1>5, <1>8 DEF SourceHolds
  <2>2. c.kind = "labeled" => c.data.dim = dim
    BY <1>2, <2>1, SourceDim
  <2>3. c.kind # "labeled" => c.dim = dim
    BY <1>2, <2>1, SourceDim
  <2>4. Dim(c) = dim
    BY <1>8, <2>2, <2>3 DEF Dim
  <2>5. DOMAIN origin = 0..(Len(rows) - 1)
    BY <2>1 DEF Identity
  <2>6. \A i \in Nat \ DOMAIN origin : SourcePoint(c, i) = Err(DataAccessError(i))
    <3>1. \A i \in Nat \ DOMAIN origin : i >= Len(rows)
      BY <2>1, <2>5
    <3> QED
      BY <1>2, <2>1, <3>1, SourceAnswers
  <2>7. \A i \in Nat \ DOMAIN origin : Point(c, i) = Err(DataAccessError(i))
    BY <1>8, <2>6 DEF Point
  <2>8. HasShape(c, e, dim)
    BY <1>3, <1>7, <2>4, <2>7 DEF HasShape, w, origin, rows
  <2> QED
    BY <2>8
<1>9. CASE c.kind = "glued"
  <2>1. PICK q, rs, ends : GluedHolds(c.sources, dim, q, rs, ends, rows) /\ IndexesHold(c.addresses, origin, q, rs, ends)
    BY <1>5, <1>9
  <2> DEFINE ss == c.sources
             s == ss[1]
  <2>2. GluedHolds(ss, dim, q, rs, ends, rows) /\ DOMAIN c.addresses = DOMAIN origin
    BY <2>1 DEF IndexesHold
  <2>3. Dim(c) = IF s.kind = "labeled" THEN s.data.dim ELSE s.dim
    BY <1>9 DEF Dim
  <2> HIDE DEF ss
  <2>4. SourceHolds(s, dim, rs[1])
    BY <1>3, <2>2, GluedHasSource
  <2> HIDE DEF s
  <2>5. s.kind = "labeled" => s.data.dim = dim
    BY <1>2, <2>4, SourceDim
  <2>6. s.kind # "labeled" => s.dim = dim
    BY <1>2, <2>4, SourceDim
  <2>7. Dim(c) = dim
    BY <2>3, <2>5, <2>6
  <2>8. \A i \in Nat \ DOMAIN origin : Point(c, i) = Err(DataAccessError(i))
    <3> SUFFICES ASSUME NEW i \in Nat \ DOMAIN origin PROVE Point(c, i) = Err(DataAccessError(i))
      OBVIOUS
    <3>1. GetAddress(c, i) = Err(DataAccessError(i))
      BY <2>2 DEF GetAddress
    <3>2. Failed(GetAddress(c, i))
      BY <3>1 DEF Failed, Err
    <3> QED
      BY <1>9, <3>1, <3>2 DEF Point
  <2>9. HasShape(c, e, dim)
    BY <1>3, <1>7, <2>7, <2>8 DEF HasShape, w, origin, rows
  <2> QED
    BY <2>9
<1> QED
  BY <1>2, <1>8, <1>9

LEMMA DoubtShape ==
  ASSUME NEW c, NEW e, DoubtHolds(c, e)
  PROVE  \E dim \in 1..MaxFloats : HasShape(c, e, dim)
<1> DEFINE origin == e.origin
           s == c.data
<1>1. /\ c.kind = "labeled" /\ s.kind = "dense"
      /\ \E dim \in 1..MaxFloats : \E rows : /\ SourceHolds(s, dim, rows)
                                             /\ origin = Identity(Len(rows)) /\ SamePoints(e.rows, rows)
  BY DEF DoubtHolds
<1>2. PICK dim \in 1..MaxFloats : \E rows : /\ SourceHolds(s, dim, rows)
                                           /\ origin = Identity(Len(rows)) /\ SamePoints(e.rows, rows)
  BY <1>1
<1>3. PICK rows : /\ SourceHolds(s, dim, rows)
                  /\ origin = Identity(Len(rows)) /\ SamePoints(e.rows, rows)
  BY <1>2
<1> DEFINE w == PointsOf(e.rows, origin)
<1>4. dim \in Nat \ {0} /\ rows \in Seq(Row(dim)) /\ Len(rows) \in Nat
  BY <1>3, SourcesAssumption DEF SourceHolds
<1>5. DOMAIN origin = 0..(Len(rows) - 1) /\ \A i \in DOMAIN origin : origin[i] = i
  BY <1>3 DEF Identity
<1>6. \A i \in DOMAIN origin : w[i] = e.rows[origin[i] + 1].point
  BY DEF PointsOf
<1>7. Dim(c) = s.dim
  BY <1>1 DEF Dim
<1>8. \A i : Point(c, i) = DensePoint(s, i) /\ SourcePoint(s, i) = DensePoint(s, i)
  BY <1>1 DEF Point, SourcePoint
<1> HIDE DEF origin, s, w
<1>9. s.dim = dim
  BY <1>1, <1>3, <1>4, SourceDim
<1>10. /\ \A i \in Nat : i < Len(rows) => SourcePoint(s, i) = Ok(rows[i + 1].point)
       /\ \A i \in Nat : i >= Len(rows) => SourcePoint(s, i) = Err(DataAccessError(i))
  BY <1>3, <1>4, SourceAnswers
<1>11. ASSUME NEW i \in DOMAIN origin PROVE w[i] \in Points(dim) /\ Point(c, i) = Ok(w[i])
  <2>1. i \in Nat /\ i < Len(rows) /\ i + 1 \in 1..Len(rows) /\ origin[i] = i
    BY <1>4, <1>5
  <2>2. w[i] = rows[i + 1].point
    BY <1>3, <1>6, <2>1 DEF SamePoints
  <2>3. rows[i + 1].point \in Points(dim)
    <3>1. rows[i + 1] \in Row(dim)
      BY <1>4, <2>1
    <3> QED
      BY <3>1 DEF Row
  <2> QED
    BY <1>8, <1>10, <2>1, <2>2, <2>3
<1>12. ASSUME NEW i \in Nat \ DOMAIN origin PROVE Point(c, i) = Err(DataAccessError(i))
  <2>1. i >= Len(rows)
    BY <1>4, <1>5
  <2> QED
    BY <1>8, <1>10, <2>1
<1>13. HasShape(c, e, dim)
  BY <1>7, <1>9, <1>11, <1>12 DEF HasShape, w, origin
<1> QED
  BY <1>13

LEMMA KnownShape ==
  ASSUME CloudsAreMade, CloudsHold, IsKnown, cloud.kind # "sparse", expected.rows # <<>>
  PROVE  \E dim \in 1..MaxFloats : HasShape(cloud, expected, dim)
<1>1. IsOpen(cloud) /\ expected # NoCloud /\ Made(cloud, expected)
  BY DEF IsKnown, CloudsAreMade
<1>2. CASE FilesHold(cloud, expected)
  BY <1>1, <1>2, HeldShape
<1>3. CASE DoubtHolds(cloud, expected)
  BY <1>3, DoubtShape
<1> QED
  BY <1>2, <1>3 DEF CloudsHold

(* The chunks of a query are its indexes, and are within them.             *)
LEMMA ChunksCover ==
  ASSUME NEW chunk \in Nat \ {0}, NEW n \in Nat
  PROVE  UNION Chunks(chunk, n) = 1..n
<1> DEFINE m == (n + chunk - 1) \div chunk
<1>1. m \in Nat /\ chunk * m <= n + chunk - 1 /\ n + chunk - 1 < chunk * m + chunk
  <2>1. n + chunk - 1 \in Nat
    OBVIOUS
  <2> QED
    BY <2>1, DivOf
<1> HIDE DEF m
<1>2. Chunks(chunk, n) = {ChunkOf(chunk, n, c) : c \in 1..m}
  BY DEF Chunks, m
<1>3. \A c \in 1..m : ChunkOf(chunk, n, c) \subseteq 1..n
  <2> SUFFICES ASSUME NEW c \in 1..m, NEW x \in ChunkOf(chunk, n, c) PROVE x \in 1..n
    OBVIOUS
  <2> DEFINE a == (c - 1) * chunk
             b == c * chunk
             T == {b, n}
  <2>1. a \in Nat /\ b \in Nat
    OBVIOUS
  <2>2. ChunkOf(chunk, n, c) = (a + 1)..Min(T)
    BY DEF ChunkOf
  <2> HIDE DEF a, b
  <2>3. T \in SUBSET Nat /\ T # {} /\ n \in T
    BY <2>1
  <2> HIDE DEF T
  <2>4. Min(T) \in Nat /\ Min(T) <= n
    BY <2>3, MinOfNaturals
  <2> DEFINE y == Min(T)
  <2> HIDE DEF y
  <2>5. x \in (a + 1)..y /\ y \in Nat /\ y <= n
    BY <2>2, <2>4 DEF y
  <2> QED
    BY <2>1, <2>5
<1>4. ASSUME NEW k \in 1..n PROVE \E c \in 1..m : k \in ChunkOf(chunk, n, c)
  <2> DEFINE q == (k - 1) \div chunk
             c == q + 1
             a == chunk * q
  <2>1. q \in Nat /\ a <= k - 1 /\ k - 1 < a + chunk /\ a \in Nat
    <3>1. k - 1 \in Nat
      OBVIOUS
    <3> QED
      BY <3>1, DivOf
  <2> HIDE DEF q
  <2>2. (c - 1) * chunk = a /\ c * chunk = a + chunk
    BY <2>1
  <2>3. c \in 1..m
    <3>1. chunk * q < chunk * m
      <4>1. k <= n
        OBVIOUS
      <4>2. a < chunk * m
        <5> DEFINE z == chunk * m
        <5>1. z \in Nat /\ n - 1 < z
          BY <1>1
        <5> HIDE DEF z, a
        <5>2. a <= k - 1 /\ a \in Nat /\ k \in 1..n
          BY <2>1
        <5>3. a < z
          BY <5>1, <5>2
        <5> QED
          BY <5>3 DEF z
      <4> QED
        BY <4>2
    <3>2. q < m
      <4> SUFFICES ASSUME m <= q PROVE FALSE
        BY <1>1, <2>1
      <4>1. chunk * m <= chunk * q /\ chunk * m \in Int /\ chunk * q \in Int
        BY <1>1, <2>1, TimesMonotone
      <4> QED
        BY <3>1, <4>1
    <3> QED
      BY <1>1, <2>1, <3>2
  <2>4. k \in ChunkOf(chunk, n, c)
    <3> DEFINE T == {a + chunk, n}
    <3>1. ChunkOf(chunk, n, c) = (a + 1)..Min(T)
      BY <2>2 DEF ChunkOf
    <3> HIDE DEF a
    <3>2. T \in SUBSET Nat /\ T # {} /\ \A t \in T : k <= t
      BY <2>1
    <3> HIDE DEF T
    <3>3. Min(T) \in Nat /\ k <= Min(T)
      BY <3>2, MinOfNaturals
    <3> DEFINE y == Min(T)
    <3> HIDE DEF y
    <3>4. y \in Nat /\ k <= y /\ a \in Nat /\ a <= k - 1
      BY <2>1, <3>3 DEF y
    <3>5. k \in (a + 1)..y
      BY <3>4
    <3> QED
      BY <3>1, <3>5 DEF y
  <2> QED
    BY <2>3, <2>4
<1>5. UNION Chunks(chunk, n) \subseteq 1..n
  BY <1>2, <1>3
<1>6. 1..n \subseteq UNION Chunks(chunk, n)
  BY <1>2, <1>4
<1> QED
  BY <1>5, <1>6

LEMMA ChunkIs ==
  ASSUME NEW dim \in 1..MaxFloats
  PROVE  Chunk(dim) \in Nat \ {0}
<1> DEFINE q == MaxFloats \div dim
           T == {q, MaxChunk}
<1>1. MaxFloats \in Nat \ {0} /\ MaxChunk \in Nat \ {0} /\ dim \in Nat \ {0} /\ dim <= MaxFloats
  BY SourcesAssumption
<1>2. q \in Nat /\ q # 0
  <2>1. q \in Nat /\ MaxFloats < dim * q + dim
    BY <1>1, DivOf
  <2> HIDE DEF q
  <2>2. q # 0
    BY <1>1, <2>1
  <2> QED
    BY <2>1, <2>2
<1> HIDE DEF q
<1>3. T \in SUBSET Nat /\ T # {} /\ \A t \in T : t # 0
  BY <1>1, <1>2
<1>4. Min(T) \in T
  BY <1>3, MinOfNaturals
<1> QED
  BY <1>3, <1>4 DEF Chunk, q

-----------------------------------------------------------------------------
(* A query that meets an index it does not know fails with one of them.    *)
Asks(pns, at) == pns \in Seq(Nat) /\ \A k \in DOMAIN pns : pns[k] \in DOMAIN at
AllKnown(pns, known) == \A k \in DOMAIN pns : pns[k] \in known
Failures(pns, known) == {Err(DataAccessError(i)) : i \in {pns[k] : k \in DOMAIN pns} \ known}

LEMMA ReadsOne ==
  ASSUME NEW at, NEW dim, NEW known, NEW w, Reads(at, dim, known, w), NEW i \in DOMAIN at
  PROVE  /\ Failed(at[i]) <=> i \notin known
         /\ at[i].res # "panic"
         /\ i \in known => at[i].val = w[i] /\ w[i] \in Points(dim)
         /\ i \notin known => at[i] = Err(DataAccessError(i))
<1> DEFINE r == at[i]
<1>1. IF i \in known THEN r = Ok(w[i]) /\ w[i] \in Points(dim) ELSE r = Err(DataAccessError(i))
  BY DEF Reads
<1> HIDE DEF r
<1>2. CASE i \in known
  <2>1. ~Failed(r) /\ r.val = w[i] /\ r.res # "panic"
    BY <1>1, <1>2 DEF Ok, Failed
  <2> QED
    BY <1>1, <1>2, <2>1 DEF r
<1>3. CASE i \notin known
  <2>1. Failed(r) /\ r.res # "panic"
    BY <1>1, <1>3 DEF Err, Failed
  <2> QED
    BY <1>1, <1>3, <2>1 DEF r
<1> QED
  BY <1>2, <1>3

LEMMA FailureIs ==
  ASSUME NEW at, NEW dim, NEW known, NEW w, Reads(at, dim, known, w), NEW pns, Asks(pns, at),
         NEW k \in DOMAIN pns, pns[k] \notin known
  PROVE  at[pns[k]] \in Failures(pns, known)
<1> DEFINE i == pns[k]
<1>1. i \in DOMAIN at /\ i \notin known
  BY DEF Asks
<1>2. i \in {pns[j] : j \in DOMAIN pns} \ known
  OBVIOUS
<1> HIDE DEF i
<1>3. at[i] = Err(DataAccessError(i))
  BY <1>1, ReadsOne
<1> QED
  BY <1>2, <1>3 DEF Failures, i

LEMMA FirstFailureIs ==
  ASSUME NEW at, NEW dim, NEW known, NEW w, Reads(at, dim, known, w), NEW pns, Asks(pns, at)
  PROVE  /\ AllKnown(pns, known) => ~Failed(FirstFailure(pns, at))
         /\ ~AllKnown(pns, known) => /\ Failed(FirstFailure(pns, at))
                                     /\ FirstFailure(pns, at) \in Failures(pns, known)
<1> DEFINE bad == {k \in DOMAIN pns : Failed(at[pns[k]])}
<1>1. \A k \in DOMAIN pns : pns[k] \in DOMAIN at /\ k \in Nat
  BY DEF Asks
<1>2. \A k \in DOMAIN pns : Failed(at[pns[k]]) <=> pns[k] \notin known
  BY <1>1, ReadsOne
<1>3. FirstFailure(pns, at) = IF bad = {} THEN Ok(<<>>) ELSE at[pns[Min(bad)]]
  BY DEF FirstFailure
<1>4. AllKnown(pns, known) <=> bad = {}
  BY <1>2 DEF AllKnown
<1>5. bad \in SUBSET Nat /\ bad \in SUBSET DOMAIN pns /\ \A k \in bad : Failed(at[pns[k]]) /\ pns[k] \notin known
  BY <1>1, <1>2
<1> HIDE DEF bad
<1>6. CASE bad = {}
  <2>1. FirstFailure(pns, at) = Ok(<<>>)
    BY <1>3, <1>6
  <2>2. ~Failed(Ok(<<>>))
    BY DEF Ok, Failed
  <2> QED
    BY <1>4, <1>6, <2>1, <2>2
<1>7. CASE bad # {}
  <2> DEFINE k == Min(bad)
  <2>1. k \in bad
    BY <1>5, <1>7, MinOfNaturals
  <2> HIDE DEF k
  <2>2. at[pns[k]] \in Failures(pns, known)
    BY <1>5, <2>1, FailureIs
  <2>3. FirstFailure(pns, at) = at[pns[k]]
    BY <1>3, <1>7 DEF k
  <2> QED
    BY <1>4, <1>5, <1>7, <2>1, <2>2, <2>3
<1> QED
  BY <1>6, <1>7

LEMMA LastErrors ==
  ASSUME NEW at, NEW dim, NEW known, NEW w, Reads(at, dim, known, w), NEW pns, Asks(pns, at),
         NEW chunk, chunk \subseteq DOMAIN pns
  PROVE  /\ LastError(chunk, pns, at) \subseteq Failures(pns, known)
         /\ LastError(chunk, pns, at) = {} <=> \A k \in chunk : pns[k] \in known
<1> DEFINE bad == {k \in chunk : Failed(at[pns[k]])}
<1>1. pns \in Seq(Nat) /\ \A k \in DOMAIN pns : pns[k] \in DOMAIN at
  BY DEF Asks
<1>2. \A k \in DOMAIN pns : Failed(at[pns[k]]) <=> pns[k] \notin known
  BY <1>1, ReadsOne
<1>3. LastError(chunk, pns, at) = IF bad = {} THEN {} ELSE {at[pns[Max(bad)]]}
  BY DEF LastError
<1>4. (bad = {}) <=> \A k \in chunk : pns[k] \in known
  BY <1>2
<1>5. bad \in SUBSET DOMAIN pns /\ \A k \in bad : pns[k] \notin known
  BY <1>2
<1> HIDE DEF bad
<1>6. CASE bad # {}
  <2> DEFINE n == Len(pns)
             k == Max(bad)
  <2>1. n \in Nat /\ DOMAIN pns = 1..n
    BY <1>1
  <2>2. bad \in SUBSET (1..n)
    BY <1>5, <2>1
  <2>3. IsFiniteSet(bad) /\ bad \in SUBSET Int
    <3> DEFINE S == 1..n
    <3>1. IsFiniteSet(S) /\ S \subseteq Int /\ bad \subseteq S
      BY <2>1, <2>2, FS_Interval
    <3> HIDE DEF S
    <3> QED
      BY <3>1, FS_Subset
  <2>4. k \in bad
    BY <1>6, <2>3, MaxOfIntegers
  <2> HIDE DEF k
  <2>5. at[pns[k]] \in Failures(pns, known)
    BY <1>5, <2>4, FailureIs
  <2>6. LastError(chunk, pns, at) = {at[pns[k]]}
    BY <1>3, <1>6 DEF k
  <2> QED
    BY <1>4, <1>6, <2>5, <2>6
<1> QED
  BY <1>3, <1>4, <1>6

(* However the chunks are scheduled.                                       *)
LEMMA ParallelIs ==
  ASSUME NEW at, NEW dim \in 1..MaxFloats, NEW known, NEW w, Reads(at, dim, known, w), NEW pns, Asks(pns, at),
         NEW x, NEW shape, shape.dim = dim, NEW metric
  PROVE  /\ ~AllKnown(pns, known) => ParallelDistances(x, shape, metric, pns, at) \subseteq Failures(pns, known)
         /\ AllKnown(pns, known) => ParallelDistances(x, shape, metric, pns, at)
                                      = {DistancesFrom(x, shape, metric, pns, at)}
<1> DEFINE n == Len(pns)
           chunks == Chunks(Chunk(dim), n)
           errors == UNION {LastError(c, pns, at) : c \in chunks}
           D == DOMAIN pns
<1>1. n \in Nat /\ D = 1..n /\ \A k \in D : pns[k] \in DOMAIN at
  BY DEF Asks
<1>2. Chunk(dim) \in Nat \ {0}
  BY ChunkIs
<1>3. UNION chunks = D
  BY <1>1, <1>2, ChunksCover
<1> HIDE DEF chunks, n
<1>4. \A c \in chunks : c \subseteq D
  BY <1>3
<1>5. \A c \in chunks : /\ LastError(c, pns, at) \subseteq Failures(pns, known)
                        /\ LastError(c, pns, at) = {} <=> \A k \in c : pns[k] \in known
  BY <1>4, LastErrors
<1>6. \A k \in D : at[pns[k]].res # "panic"
  BY <1>1, ReadsOne
<1>7. ParallelDistances(x, shape, metric, pns, at)
        = IF Chunk(dim) = 0 \/ \E k \in D : at[pns[k]].res = "panic" THEN {Panicked}
          ELSE IF errors # {} THEN errors
          ELSE {Ok([k \in D |-> IF k \in UNION chunks THEN DistOf(shape, metric, x, at[pns[k]].val) ELSE Sqrt(0)])}
  BY DEF ParallelDistances, chunks, n
<1>8. errors \subseteq Failures(pns, known) /\ (errors = {} <=> AllKnown(pns, known))
  <2>1. errors \subseteq Failures(pns, known)
    BY <1>5
  <2>2. ASSUME AllKnown(pns, known) PROVE errors = {}
    <3>1. \A c \in chunks : LastError(c, pns, at) = {}
      BY <1>4, <1>5, <2>2 DEF AllKnown
    <3> QED
      BY <3>1
  <2>3. ASSUME errors = {} PROVE AllKnown(pns, known)
    <3> SUFFICES ASSUME NEW k \in D PROVE pns[k] \in known
      BY DEF AllKnown
    <3>1. PICK c \in chunks : k \in c
      BY <1>3
    <3>2. LastError(c, pns, at) = {}
      BY <2>3
    <3> QED
      BY <1>5, <3>1, <3>2
  <2> QED
    BY <2>1, <2>2, <2>3
<1> HIDE DEF errors
<1>9. ASSUME AllKnown(pns, known)
      PROVE  ParallelDistances(x, shape, metric, pns, at) = {DistancesFrom(x, shape, metric, pns, at)}
  <2>1. errors = {}
    BY <1>8, <1>9
  <2>2. ParallelDistances(x, shape, metric, pns, at)
          = {Ok([k \in D |-> IF k \in UNION chunks THEN DistOf(shape, metric, x, at[pns[k]].val) ELSE Sqrt(0)])}
    BY <1>2, <1>6, <1>7, <2>1
  <2>3. [k \in D |-> IF k \in UNION chunks THEN DistOf(shape, metric, x, at[pns[k]].val) ELSE Sqrt(0)]
          = [k \in D |-> DistOf(shape, metric, x, at[pns[k]].val)]
    BY <1>3
  <2> QED
    BY <2>2, <2>3 DEF DistancesFrom
<1>10. ASSUME ~AllKnown(pns, known)
       PROVE  ParallelDistances(x, shape, metric, pns, at) \subseteq Failures(pns, known)
  <2>1. errors # {}
    BY <1>8, <1>10
  <2>2. ParallelDistances(x, shape, metric, pns, at) = errors
    BY <1>2, <1>6, <1>7, <2>1
  <2> QED
    BY <1>8, <2>2
<1> QED
  BY <1>9, <1>10

LEMMA DistancesAre ==
  ASSUME NEW at, NEW dim \in 1..MaxFloats, NEW known, NEW w, Reads(at, dim, known, w), NEW pns, Asks(pns, at),
         NEW x, NEW shape, shape.dim = dim, NEW metric
  PROVE  /\ ~AllKnown(pns, known) => DistancesToPoint(x, shape, metric, pns, at) \subseteq Failures(pns, known)
         /\ AllKnown(pns, known) => DistancesToPoint(x, shape, metric, pns, at)
                                      = {DistancesFrom(x, shape, metric, pns, at)}
<1>1. /\ AllKnown(pns, known) => ~Failed(FirstFailure(pns, at))
      /\ ~AllKnown(pns, known) => Failed(FirstFailure(pns, at)) /\ FirstFailure(pns, at) \in Failures(pns, known)
  BY FirstFailureIs
<1>2. CASE InParallel(shape.dim, pns)
  <2>1. DistancesToPoint(x, shape, metric, pns, at) = ParallelDistances(x, shape, metric, pns, at)
    BY <1>2 DEF DistancesToPoint
  <2> QED
    BY <2>1, ParallelIs
<1>3. CASE ~InParallel(shape.dim, pns)
  <2>1. DistancesToPoint(x, shape, metric, pns, at) = SequentialDistances(x, shape, metric, pns, at)
    BY <1>3 DEF DistancesToPoint
  <2> QED
    BY <1>1, <2>1 DEF SequentialDistances
<1> QED
  BY <1>2, <1>3


(* A query that knows all its indexes answers what the points answer.      *)
Plain(dim) == [dim |-> dim, sparse |-> FALSE]

LEMMA PlainPoints ==
  ASSUME NEW dim \in Nat \ {0}, NEW p \in Points(dim)
  PROVE  /\ IterOf(Plain(dim), p) = p /\ Len(p) = dim /\ p \in Seq(Int) /\ DOMAIN p = 1..dim
         /\ \A q \in Points(dim) : \A metric \in {"L1", "L2"} :
              DistOf(Plain(dim), metric, p, q) = Distance("f32", metric, p, q)
<1>1. p \in Seq(Int) /\ Len(p) = dim /\ DOMAIN p = 1..dim /\ p = [d \in 1..dim |-> p[d]]
  BY DEF Points
<1>2. DenseSlice("f32", p) = p
  <2>1. \A d \in 1..dim : AsF32("f32", p[d]) = p[d]
    BY DEF AsF32
  <2>2. DenseSlice("f32", p) = [d \in 1..dim |-> AsF32("f32", p[d])]
    BY <1>1 DEF DenseSlice
  <2> QED
    BY <1>1, <2>1, <2>2
<1>3. ASSUME NEW q \in Points(dim), NEW metric \in {"L1", "L2"}
      PROVE  DistOf(Plain(dim), metric, p, q) = Distance("f32", metric, p, q)
  <2>1. q \in Seq(Int) /\ Len(q) = dim
    BY DEF Points
  <2>2. L2Dist("f32", p, q) = Distance("f32", "L2", p, q) /\ L1Dist("f32", p, q) = Distance("f32", "L1", p, q)
    BY <1>1, <2>1, DenseDistances
  <2> QED
    BY <2>2 DEF DistOf, Plain
<1> QED
  BY <1>1, <1>2, <1>3 DEF IterOf, Plain

LEMMA DistancesAgree ==
  ASSUME NEW at, NEW dim \in 1..MaxFloats, NEW known, NEW w, Reads(at, dim, known, w), NEW pns, Asks(pns, at),
         NEW i \in DOMAIN at, i \in known, NEW metric \in {"L1", "L2"}
  PROVE  /\ ~AllKnown(pns, known) => DistancesToPointIndex(i, Plain(dim), metric, pns, at) \subseteq Failures(pns, known)
         /\ AllKnown(pns, known) => DistancesToPointIndex(i, Plain(dim), metric, pns, at)
                                      = {Ok([k \in DOMAIN pns |-> Distance("f32", metric, w[i], w[pns[k]])])}
<1> DEFINE x == w[i]
           shape == Plain(dim)
           D == DOMAIN pns
<1>1. dim \in Nat \ {0} /\ shape.dim = dim
  BY SourcesAssumption DEF Plain
<1>2. ~Failed(at[i]) /\ at[i].val = x /\ x \in Points(dim)
  BY ReadsOne
<1>3. DistancesToPointIndex(i, shape, metric, pns, at) = DistancesToPoint(x, shape, metric, pns, at)
  BY <1>2 DEF DistancesToPointIndex
<1> HIDE DEF x
<1>4. /\ ~AllKnown(pns, known) => DistancesToPoint(x, shape, metric, pns, at) \subseteq Failures(pns, known)
      /\ AllKnown(pns, known) => DistancesToPoint(x, shape, metric, pns, at)
                                   = {DistancesFrom(x, shape, metric, pns, at)}
  <2> HIDE DEF shape
  <2> QED
    BY <1>1, DistancesAre
<1>5. ASSUME AllKnown(pns, known)
      PROVE  DistancesFrom(x, shape, metric, pns, at) = Ok([k \in D |-> Distance("f32", metric, x, w[pns[k]])])
  <2>1. ASSUME NEW k \in D PROVE DistOf(shape, metric, x, at[pns[k]].val) = Distance("f32", metric, x, w[pns[k]])
    <3> DEFINE j == pns[k]
               y == w[j]
    <3>1. j \in DOMAIN at /\ j \in known
      BY <1>5 DEF Asks, AllKnown
    <3> HIDE DEF j
    <3>2. at[j].val = y /\ y \in Points(dim)
      BY <3>1, ReadsOne
    <3> HIDE DEF y
    <3>3. DistOf(shape, metric, x, y) = Distance("f32", metric, x, y)
      BY <1>1, <1>2, <3>2, PlainPoints
    <3> QED
      BY <3>2, <3>3 DEF j, y
  <2> HIDE DEF shape
  <2>2. [k \in D |-> DistOf(shape, metric, x, at[pns[k]].val)] = [k \in D |-> Distance("f32", metric, x, w[pns[k]])]
    BY <2>1
  <2> QED
    BY <2>2 DEF DistancesFrom
<1> QED
  BY <1>3, <1>4, <1>5 DEF x

LEMMA ArrayAgrees ==
  ASSUME NEW at, NEW dim \in 1..MaxFloats, NEW known, NEW w, Reads(at, dim, known, w),
         NEW i \in DOMAIN at, i \in known
  PROVE  PointDenseArray(Plain(dim), i, at) = Ok(w[i])
<1> DEFINE x == w[i]
<1>1. dim \in Nat \ {0} /\ Plain(dim).dim = dim
  BY SourcesAssumption DEF Plain
<1>2. ~Failed(at[i]) /\ at[i].val = x /\ x \in Points(dim)
  BY ReadsOne
<1> HIDE DEF x
<1>3. IterOf(Plain(dim), x) = x /\ Len(x) = dim
  BY <1>1, <1>2, PlainPoints
<1> QED
  BY <1>1, <1>2, <1>3 DEF PointDenseArray, x

MatrixIn(pns, w) == [k \in DOMAIN pns |-> w[pns[k]]]
FirstMomentIn(dim, pns, w) == [d \in 1..dim |-> SumOver(DOMAIN pns, LAMBDA k : w[pns[k]][d])]
SecondMomentIn(dim, pns, w) == [d \in 1..dim |-> SumOver(DOMAIN pns, LAMBDA k : w[pns[k]][d] ^ 2)]

LEMMA MatrixAgrees ==
  ASSUME NEW at, NEW dim \in 1..MaxFloats, NEW known, NEW w, Reads(at, dim, known, w), NEW pns, Asks(pns, at)
  PROVE  /\ ~AllKnown(pns, known) => PointsDenseMatrix(Plain(dim), pns, at) \in Failures(pns, known)
         /\ AllKnown(pns, known) => PointsDenseMatrix(Plain(dim), pns, at) = Ok(MatrixIn(pns, w))
<1> DEFINE shape == Plain(dim)
           D == DOMAIN pns
           n == Len(pns)
           rows == [k \in D |-> IterOf(shape, at[pns[k]].val)]
           flat == FlattenSeq(rows)
           matrix == [k \in D |-> w[pns[k]]]
           cut == [k \in D |-> SubSeq(flat, dim * (k - 1) + 1, dim * k)]
<1>1. dim \in Nat \ {0} /\ shape.dim = dim /\ n \in Nat /\ D = 1..n
  BY SourcesAssumption DEF Plain, Asks
<1>2. PointsDenseMatrix(shape, pns, at)
        = IF Failed(FirstFailure(pns, at)) THEN FirstFailure(pns, at)
          ELSE IF Len(flat) # dim * n THEN Panicked ELSE Ok(cut)
  BY <1>1 DEF PointsDenseMatrix
<1>3. /\ AllKnown(pns, known) => ~Failed(FirstFailure(pns, at))
      /\ ~AllKnown(pns, known) => Failed(FirstFailure(pns, at)) /\ FirstFailure(pns, at) \in Failures(pns, known)
  BY FirstFailureIs
<1>4. ASSUME AllKnown(pns, known) PROVE Len(flat) = dim * n /\ cut = matrix
  <2>1. ASSUME NEW k \in D PROVE IterOf(shape, at[pns[k]].val) = w[pns[k]] /\ w[pns[k]] \in Points(dim)
    <3> DEFINE j == pns[k]
               y == w[j]
    <3>1. j \in DOMAIN at /\ j \in known
      BY <1>4 DEF Asks, AllKnown
    <3> HIDE DEF j
    <3>2. at[j].val = y /\ y \in Points(dim)
      BY <3>1, ReadsOne
    <3> HIDE DEF y
    <3>3. IterOf(shape, y) = y
      BY <1>1, <3>2, PlainPoints
    <3> QED
      BY <3>2, <3>3 DEF j, y
  <2> HIDE DEF shape, D, n
  <2>2. rows = matrix /\ matrix \in [D -> Points(dim)]
    BY <2>1
  <2>3. flat = FlattenSeq(matrix)
    BY <2>2
  <2>4. matrix \in [1..n -> Points(dim)]
    BY <1>1, <2>2
  <2> HIDE DEF rows, flat, matrix
  <2>5. flat \in Seq(Int) /\ Len(flat) % dim = 0 /\ Rows(flat, dim) = matrix
    BY <1>1, <2>3, <2>4, MatrixFlat
  <2> DEFINE l == Len(flat)
             q == l \div dim
  <2>6. l \in Nat /\ l % dim = 0
    BY <2>5
  <2>7. Rows(flat, dim) = [k \in 1..q |-> SubSeq(flat, dim * (k - 1) + 1, dim * k)]
    BY DEF Rows
  <2>8. l = dim * q /\ q \in Nat
    <3> HIDE DEF l
    <3> QED
      BY <1>1, <2>6, WholeLength
  <2>9. Len(Rows(flat, dim)) = q
    BY <1>1, <2>5, RowsAre
  <2> HIDE DEF l, q
  <2>10. Len(matrix) = n
    BY <1>1, <2>4
  <2>11. q = n
    BY <2>5, <2>9, <2>10
  <2>12. cut = Rows(flat, dim)
    BY <1>1, <2>7, <2>11
  <2> QED
    BY <2>5, <2>8, <2>11, <2>12 DEF l
<1> HIDE DEF shape, flat, cut, n
<1>5. CASE AllKnown(pns, known)
  BY <1>2, <1>3, <1>4, <1>5 DEF shape, MatrixIn
<1>6. CASE ~AllKnown(pns, known)
  BY <1>2, <1>3, <1>6 DEF shape
<1> QED
  BY <1>5, <1>6

LEMMA MomentsAgree ==
  ASSUME NEW at, NEW dim \in 1..MaxFloats, NEW known, NEW w, Reads(at, dim, known, w), NEW pns, Asks(pns, at)
  PROVE  /\ ~AllKnown(pns, known) => /\ Moment1(Plain(dim), pns, at) \in Failures(pns, known)
                                     /\ Moment2(Plain(dim), pns, at) \in Failures(pns, known)
         /\ AllKnown(pns, known) =>
              /\ Moment1(Plain(dim), pns, at) = Ok(FirstMomentIn(dim, pns, w))
              /\ Moment2(Plain(dim), pns, at) = Ok(SecondMomentIn(dim, pns, w))
<1> DEFINE shape == Plain(dim)
           D == DOMAIN pns
           c(k, d) == CoordinateAt(shape, at, pns[k], d)
           v(k, d) == w[pns[k]][d]
           one == [d \in 1..dim |-> SumOver(D, LAMBDA k : c(k, d))]
           two == [d \in 1..dim |-> SumOver(D, LAMBDA k : c(k, d) ^ 2)]
<1>1. dim \in Nat \ {0} /\ shape.dim = dim
  BY SourcesAssumption DEF Plain
<1>2. /\ Moment1(shape, pns, at) = IF Failed(FirstFailure(pns, at)) THEN FirstFailure(pns, at) ELSE Ok(one)
      /\ Moment2(shape, pns, at) = IF Failed(FirstFailure(pns, at)) THEN FirstFailure(pns, at) ELSE Ok(two)
  BY <1>1 DEF Moment1, Moment2, MomentOf
<1>3. /\ AllKnown(pns, known) => ~Failed(FirstFailure(pns, at))
      /\ ~AllKnown(pns, known) => Failed(FirstFailure(pns, at)) /\ FirstFailure(pns, at) \in Failures(pns, known)
  BY FirstFailureIs
<1>4. ASSUME AllKnown(pns, known)
      PROVE  /\ one = [d \in 1..dim |-> SumOver(D, LAMBDA k : v(k, d))]
             /\ two = [d \in 1..dim |-> SumOver(D, LAMBDA k : v(k, d) ^ 2)]
  <2>1. ASSUME NEW k \in D, NEW d \in 1..dim PROVE c(k, d) = v(k, d)
    <3> DEFINE j == pns[k]
               y == w[j]
    <3>1. j \in DOMAIN at /\ j \in known
      BY <1>4 DEF Asks, AllKnown
    <3> HIDE DEF j
    <3>2. at[j].val = y /\ y \in Points(dim)
      BY <3>1, ReadsOne
    <3> HIDE DEF y
    <3>3. IterOf(shape, y) = y /\ DOMAIN y = 1..dim
      BY <1>1, <3>2, PlainPoints
    <3>4. CoordinateAt(shape, at, j, d) = y[d]
      BY <3>2, <3>3 DEF CoordinateAt, Coordinate
    <3> QED
      BY <3>4 DEF j, y
  <2> HIDE DEF c, v, shape
  <2>2. ASSUME NEW d \in 1..dim
        PROVE  /\ SumOver(D, LAMBDA k : c(k, d)) = SumOver(D, LAMBDA k : v(k, d))
               /\ SumOver(D, LAMBDA k : c(k, d) ^ 2) = SumOver(D, LAMBDA k : v(k, d) ^ 2)
    <3>1. [k \in D |-> c(k, d)] = [k \in D |-> v(k, d)] /\ [k \in D |-> c(k, d) ^ 2] = [k \in D |-> v(k, d) ^ 2]
      BY <2>1
    <3> QED
      BY <3>1 DEF SumOver
  <2> QED
    BY <2>2
<1> HIDE DEF shape, one, two
<1>5. CASE AllKnown(pns, known)
  BY <1>2, <1>3, <1>4, <1>5 DEF shape, FirstMomentIn, SecondMomentIn
<1>6. CASE ~AllKnown(pns, known)
  BY <1>2, <1>3, <1>6 DEF shape
<1> QED
  BY <1>5, <1>6

LEMMA FirstMomentAgrees ==
  ASSUME NEW at, NEW dim \in 1..MaxFloats, NEW known, NEW w, Reads(at, dim, known, w), NEW pns, Asks(pns, at)
  PROVE  AllKnown(pns, known) => Moment1(Plain(dim), pns, at) = Ok(FirstMomentIn(dim, pns, w))
BY MomentsAgree

LEMMA SecondMomentAgrees ==
  ASSUME NEW at, NEW dim \in 1..MaxFloats, NEW known, NEW w, Reads(at, dim, known, w), NEW pns, Asks(pns, at)
  PROVE  AllKnown(pns, known) => Moment2(Plain(dim), pns, at) = Ok(SecondMomentIn(dim, pns, w))
BY MomentsAgree

LEMMA HeldQueriesAgree ==
  ASSUME CloudsAreMade, CloudsHold
  PROVE  QueriesAgree
<1> SUFFICES ASSUME IsKnown, cloud.kind # "sparse", expected.rows # <<>>, NEW pns \in Queries
             PROVE  LET at == [i \in Range(pns) \cup ReferenceIndexes(cloud) |-> Point(cloud, i)]
                        shape == ShapeOf(cloud)
                        errors == {Err(DataAccessError(i)) : i \in UnknownOf(pns)}
                    IN IF UnknownOf(pns) # {}
                       THEN \A metric \in {"L1", "L2"} : \A i \in ReferenceIndexes(cloud) :
                              /\ DistancesToPointIndex(i, shape, metric, pns, at) \subseteq errors
                              /\ {PointsDenseMatrix(shape, pns, at), Moment1(shape, pns, at), Moment2(shape, pns, at)}
                                   \subseteq errors
                       ELSE /\ \A metric \in {"L1", "L2"} : \A i \in ReferenceIndexes(cloud) :
                                 DistancesToPointIndex(i, shape, metric, pns, at)
                                   = {Ok([k \in DOMAIN pns |->
                                            Distance("f32", metric, Want(i).point, Want(pns[k]).point)])}
                            /\ \A i \in ReferenceIndexes(cloud) : PointDenseArray(shape, i, at) = Ok(Want(i).point)
                            /\ PointsDenseMatrix(shape, pns, at) = Ok([k \in DOMAIN pns |-> Want(pns[k]).point])
                            /\ Moment1(shape, pns, at) =
                                 Ok([d \in 1..shape.dim |-> SumOver(DOMAIN pns, LAMBDA k : Want(pns[k]).point[d])])
                            /\ Moment2(shape, pns, at) =
                                 Ok([d \in 1..shape.dim |-> SumOver(DOMAIN pns, LAMBDA k : Want(pns[k]).point[d] ^ 2)])
  BY DEF QueriesAgree
<1> DEFINE known == ReferenceIndexes(cloud)
           at == [i \in Range(pns) \cup known |-> Point(cloud, i)]
           shape == ShapeOf(cloud)
           errors == {Err(DataAccessError(i)) : i \in UnknownOf(pns)}
           w == PointsOf(expected.rows, expected.origin)
           D == DOMAIN pns
<1>1. AnswersPoints(cloud, expected.rows, expected.origin)
  BY KnownPoints
<1>2. pns \in Seq(Nat) /\ Len(pns) \in Nat /\ D = 1..Len(pns)
  <2>1. pns \in Seq(Nat)
    BY IndexesAssumption
  <2> QED
    BY <2>1
<1>3. PICK dim \in 1..MaxFloats : HasShape(cloud, expected, dim)
  BY KnownShape
<1>4. known = DOMAIN expected.origin
  BY <1>1 DEF AnswersPoints
<1>5. \A i \in known : Want(i).point = w[i]
  BY <1>4 DEF Want, PointsOf
<1>6. shape = Plain(dim) /\ shape.dim = dim
  BY <1>3 DEF ShapeOf, HasShape, Plain
<1>7. Asks(pns, at) /\ \A i \in known : i \in DOMAIN at
  <2>1. \A k \in D : pns[k] \in Range(pns)
    BY DEF Range
  <2> QED
    BY <1>2, <2>1 DEF Asks
<1>8. Reads(at, dim, known, w)
  <2>1. Range(pns) \subseteq Nat
    BY <1>2 DEF Range
  <2>2. ASSUME NEW i \in DOMAIN at
        PROVE  IF i \in known THEN at[i] = Ok(w[i]) /\ w[i] \in Points(dim) ELSE at[i] = Err(DataAccessError(i))
    <3>1. at[i] = Point(cloud, i) /\ (i \notin known => i \in Nat)
      BY <2>1
    <3> HIDE DEF at
    <3> QED
      BY <1>3, <1>4, <3>1 DEF HasShape
  <2> HIDE DEF at
  <2> QED
    BY <2>2 DEF Reads
<1>9. UnknownOf(pns) = {pns[k] : k \in D} \ known
  BY <1>4 DEF UnknownOf
<1>10. errors = Failures(pns, known) /\ (UnknownOf(pns) = {} <=> AllKnown(pns, known))
  BY <1>9 DEF Failures, AllKnown
<1> HIDE DEF at, shape, errors, known, w
<1>11. CASE UnknownOf(pns) # {}
  <2>1. ~AllKnown(pns, known)
    BY <1>10, <1>11
  <2>2. ASSUME NEW metric \in {"L1", "L2"}, NEW i \in known
        PROVE  DistancesToPointIndex(i, shape, metric, pns, at) \subseteq errors
    <3>1. i \in DOMAIN at
      BY <1>7
    <3>2. DistancesToPointIndex(i, Plain(dim), metric, pns, at) \subseteq Failures(pns, known)
      BY <1>7, <1>8, <2>1, <3>1, DistancesAgree
    <3> QED
      BY <1>6, <1>10, <3>2
  <2>3. /\ PointsDenseMatrix(shape, pns, at) \in errors
        /\ Moment1(shape, pns, at) \in errors /\ Moment2(shape, pns, at) \in errors
    <3>1. PointsDenseMatrix(Plain(dim), pns, at) \in Failures(pns, known)
      BY <1>7, <1>8, <2>1, MatrixAgrees
    <3>2. Moment1(Plain(dim), pns, at) \in Failures(pns, known) /\ Moment2(Plain(dim), pns, at) \in Failures(pns, known)
      BY <1>7, <1>8, <2>1, MomentsAgree
    <3> QED
      BY <1>6, <1>10, <3>1, <3>2
  <2> QED
    BY <1>11, <2>2, <2>3 DEF at, shape, errors, known
<1>12. CASE UnknownOf(pns) = {}
  <2>1. AllKnown(pns, known)
    BY <1>10, <1>12
  <2>2. \A k \in D : pns[k] \in known /\ Want(pns[k]).point = w[pns[k]]
    BY <1>5, <2>1 DEF AllKnown
  <2>3. ASSUME NEW metric \in {"L1", "L2"}, NEW i \in known
        PROVE  DistancesToPointIndex(i, shape, metric, pns, at)
                 = {Ok([k \in D |-> Distance("f32", metric, Want(i).point, Want(pns[k]).point)])}
    <3>1. i \in DOMAIN at
      BY <1>7
    <3>2. DistancesToPointIndex(i, Plain(dim), metric, pns, at)
            = {Ok([k \in D |-> Distance("f32", metric, w[i], w[pns[k]])])}
      BY <1>7, <1>8, <2>1, <3>1, DistancesAgree
    <3>3. [k \in D |-> Distance("f32", metric, w[i], w[pns[k]])]
            = [k \in D |-> Distance("f32", metric, Want(i).point, Want(pns[k]).point)]
      BY <1>5, <2>2
    <3> QED
      BY <1>6, <3>2, <3>3
  <2>4. ASSUME NEW i \in known PROVE PointDenseArray(shape, i, at) = Ok(Want(i).point)
    <3>1. i \in DOMAIN at
      BY <1>7
    <3>2. PointDenseArray(Plain(dim), i, at) = Ok(w[i])
      BY <1>8, <3>1, ArrayAgrees
    <3> QED
      BY <1>5, <1>6, <3>2
  <2>5. PointsDenseMatrix(shape, pns, at) = Ok([k \in D |-> Want(pns[k]).point])
    <3>1. PointsDenseMatrix(Plain(dim), pns, at) = Ok(MatrixIn(pns, w))
      BY <1>7, <1>8, <2>1, MatrixAgrees
    <3>2. MatrixIn(pns, w) = [k \in D |-> Want(pns[k]).point]
      BY <2>2 DEF MatrixIn
    <3> QED
      BY <1>6, <3>1, <3>2
  <2>6. /\ Moment1(shape, pns, at) = Ok([d \in 1..shape.dim |-> SumOver(D, LAMBDA k : Want(pns[k]).point[d])])
        /\ Moment2(shape, pns, at) = Ok([d \in 1..shape.dim |-> SumOver(D, LAMBDA k : Want(pns[k]).point[d] ^ 2)])
    <3>1. /\ Moment1(Plain(dim), pns, at) = Ok(FirstMomentIn(dim, pns, w))
          /\ Moment2(Plain(dim), pns, at) = Ok(SecondMomentIn(dim, pns, w))
      <4>1. Asks(pns, at)
        BY <1>7
      <4>2. Moment1(Plain(dim), pns, at) = Ok(FirstMomentIn(dim, pns, w))
        BY <1>8, <2>1, <4>1, FirstMomentAgrees
      <4>3. Moment2(Plain(dim), pns, at) = Ok(SecondMomentIn(dim, pns, w))
        BY <1>8, <2>1, <4>1, SecondMomentAgrees
      <4> QED
        BY <4>2, <4>3
    <3>2. ASSUME NEW d \in 1..dim
          PROVE  /\ SumOver(D, LAMBDA k : w[pns[k]][d]) = SumOver(D, LAMBDA k : Want(pns[k]).point[d])
                 /\ SumOver(D, LAMBDA k : w[pns[k]][d] ^ 2) = SumOver(D, LAMBDA k : Want(pns[k]).point[d] ^ 2)
      <4>1. /\ [k \in D |-> w[pns[k]][d]] = [k \in D |-> Want(pns[k]).point[d]]
            /\ [k \in D |-> w[pns[k]][d] ^ 2] = [k \in D |-> Want(pns[k]).point[d] ^ 2]
        BY <2>2
      <4> QED
        BY <4>1 DEF SumOver
    <3>3. /\ FirstMomentIn(dim, pns, w) = [d \in 1..dim |-> SumOver(D, LAMBDA k : Want(pns[k]).point[d])]
          /\ SecondMomentIn(dim, pns, w) = [d \in 1..dim |-> SumOver(D, LAMBDA k : Want(pns[k]).point[d] ^ 2)]
      BY <3>2 DEF FirstMomentIn, SecondMomentIn
    <3> QED
      BY <1>6, <3>1, <3>3
  <2> QED
    BY <1>12, <2>3, <2>4, <2>5, <2>6 DEF at, shape, known
<1> QED
  BY <1>11, <1>12

(* A query over many points answers what the points answer one by one,     *)
(* however its chunks are scheduled, and fails with the index of a point   *)
(* that is not there, if there is one (distances_to_point, moment_1,       *)
(* moment_2 and points_dense_matrix).                                      *)
THEOREM QueriesAreOfPoints == Spec => []QueriesAgree
<1>1. Init => CloudsAreMade /\ CloudsHold
  BY DEF Init, CloudsAreMade, Made, CloudsHold, FilesHold, IsKind, IsOpen
<1>2. CloudsAreMade /\ CloudsHold /\ [Next]_vars => (CloudsAreMade /\ CloudsHold)'
  BY MadeStep, CloudsHoldStep
<1>3. CloudsAreMade /\ CloudsHold => QueriesAgree
  BY HeldQueriesAgree
<1> QED
  BY <1>1, <1>2, <1>3, PTL DEF Spec
=============================================================================
