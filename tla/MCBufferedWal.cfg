SPECIFICATION FairSpec
CONSTANTS
  l1 = l1
  l2 = l2
  Line <- MCLine
  MaxWrites = 3
  MaxFaults = 2
  MaxCrashes = 1
INVARIANT TypeOK
PROPERTIES
  ImplementsDurableLog
  ExportKeepsLines
  RecoveryIsComplete
  BufferDrains
  AcceptedBecomesDurable
