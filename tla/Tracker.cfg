\* A tracker with and without a window, whose window may be changed before a builder takes it.
SPECIFICATION BSpec
CONSTANTS
  TreeRoot = r
  a = a
  b = b
  c = c
  TreeNode = {r, a, b, c}
  Singleton = Singleton
  Prior <- MCPrior
  Paths <- MCPaths
  Windows = {0, 1, 2, 3}
  NewWindows = {0, 2}
  MaxPaths = 5
  Alpha <- MCAlpha
  TotalOverall = 8
  LnGamma <- MCLnGamma
  Digamma <- MCDigamma
  Intervals = {1, 2}
  NoBuilder = NoBuilder
INVARIANTS PosteriorIsWindow FlowIsConserved OutliersAreFound
CHECK_DEADLOCK FALSE
