\* Every tree over four points on a line, and every query up to a distance of eight.
SPECIFICATION QSpec
CONSTANTS
  Point = {1, 2, 3, 4}
  LastIndex = 4
  Base = 2
  None = None
  SplitError = SplitError
  MayFail = FALSE
  Cutoffs = {0, 1, 2}
  MinRes = {0}
  SingletonChoices = {TRUE, FALSE}
  FirstChoices = {TRUE, FALSE}
  Settings <- MCSettings
  Ks = {1, 2, 3}
  Farthest = 8
INVARIANTS NothingOverlooked KnnIsExact
