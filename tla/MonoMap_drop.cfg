\* A reader outlives the writer.
SPECIFICATION Spec
CONSTANTS
  Key = {k1}
  Val = {0, 1}
  Meta = {m0}
  InitMeta = m0
  Absent = Absent
  Clone <- MCCopy
  Updated <- MCNext
  Writes <- MCUpdates
  MaxHandles = 2
  MaxOplog = 1
  WriterDrops = TRUE
INVARIANT NoReadAfterFree
