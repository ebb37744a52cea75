SPECIFICATION Spec
CONSTANTS
  k1 = k1
  k2 = k2
  v1 = v1
  v2 = v2
  Absent = Absent
  Never = Never
  Collection = {"list"}
  Key = {k1, k2}
  Value = {v1, v2}
  TTL = {1}
  Second = 2
  MaxTime = 3
  MaxCommands = 3
  MaxTxs = 2
INVARIANTS
  TypeOK
  RollbackRestores
  MemoryMatchesLog
SYMMETRY Symmetry
CHECK_DEADLOCK FALSE
