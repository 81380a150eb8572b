\* Two trees, with labels and without, one reader that walks down; a fit and three orders of plugins.
\* The widths of an address are the least that hold the trees: its extremes are in use.
SPECIFICATION Spec
CONSTANTS
  Offset = 2
  ScaleRange = 7
  PointRange = 5
  None = None
  Leaf = Leaf
  NoParent = NoParent
  Panic = Panic
  NoLabel = NoLabel
  LabelError = LabelError
  MaxCoverage = 4
  BulkChunk = 2
  Walker = {w1}
  Program <- MCPrograms
  Dataset <- MCDatasets
INVARIANTS TreeIsWhole WalksMissNothing PluginsDescribeSubtree QueriesAnswer
PROPERTY PluginsStay
CHECK_DEADLOCK FALSE
