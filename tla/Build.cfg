\* Four points on a line; the partitions, cutoffs and settings a build may combine, and distances that may fail.
SPECIFICATION FairSpec
CONSTANTS
  Point = {1, 2, 3, 4}
  LastIndex = 4
  Base = 2
  None = None
  SplitError = SplitError
  MayFail = TRUE
  Clouds <- MCLines
  Absent = Absent
  UsizeRange = 1000
  I32Range = 200
  Settings <- MCSettings
INVARIANTS TypeOK Accounting EveryPointOnce TreeIsConnected CoveringAndSeparation CountsAreExact PathIsKnownPath
PROPERTIES BuildEnds FailurePanics
