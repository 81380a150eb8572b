\* Refreshes and the drop of the writer, with readers that return from their
\* closures; a third handle registers at any time.
SPECIFICATION FairSpec
CONSTANTS
  Key = {k1}
  Val = {0, 1}
  Meta = {m0}
  InitMeta = m0
  Absent = Absent
  Clone <- MCCopy
  Updated <- MCNext
  Writes <- MCUpdates
  MaxHandles = 3
  MaxOplog = 1
  WriterDrops = TRUE
INVARIANT DropFlushesLog
PROPERTIES RefreshReturns DropCompletes
