SPECIFICATION Spec
CONSTANTS
  c1 = c1
  i1 = i1
  i2 = i2
  v1 = v1
  NoInstance = NoInstance
  Client = {c1}
  Instance = {i1, i2}
  Value = {v1}
  MaxInstances = 2
  MaxCommands = 3
  MaxTxs = 2
  MaxSnapshots = 1
  MaxCrashes = 2
INVARIANTS
  TypeOK
  RecoveryIsExact
PROPERTIES
  ExecIsAlone
  BlockIsContiguous
CONSTRAINT NoCauseYet
SYMMETRY Symmetry
CHECK_DEADLOCK FALSE
