\* Three addresses, totals up to five; a table would come with the second address.
SPECIFICATION Spec
CONSTANTS
  Loc = {0, 5, 7}
  HashLimit = 1
  NoTable = NoTable
  None = None
  LnGamma <- MCLnGamma
  Digamma <- MCDigamma
  Ln <- MCLn
  MaxTotal = 5
  Merged <- MCMerged
INVARIANTS IncrementalIsBatch DivergencesAgree SampleFollowsCounts
PROPERTY DataIsCounts
CHECK_DEADLOCK FALSE
