\* Lanes of four and two, words of two bits, pages of two floats, chunks of one or two points.
SPECIFICATION Spec
CONSTANTS
  Wide = 4
  Narrow = 2
  SignBit = 2
  PageSize = 8
  MaxFloats = 9
  MaxChunk = 2
  NoLabel = NoLabel
  LabelError = LabelError
  NoMask = NoMask
  Missing = Missing
  NoCloud = NoCloud
  Files <- MCFiles
  LabelFiles <- MCLabelFiles
  Configs <- MCConfigs
  Matrices <- MCMatrices
  Reindexings <- MCReindexings
  Queries <- MCQueries
  MaxFloatsHeld = 12
INVARIANT MixedMasksKeepLabels
