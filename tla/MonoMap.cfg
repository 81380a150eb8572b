\* Two readers, two reads each, every operation of the writer, logs of two entries.
SPECIFICATION HSpec
CONSTANTS
  Key = {k1}
  Val = {0, 1}
  Meta = {m0, m1}
  InitMeta = m0
  Absent = Absent
  Clone <- MCCopy
  Updated <- MCNext
  Writes <- MCAllWrites
  MaxHandles = 2
  MaxOplog = 2
  WriterDrops = FALSE
INVARIANTS TypeOK ExclusiveAccess HistoryInv
PROPERTY AbstractSpec
