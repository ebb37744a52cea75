SPECIFICATION Spec
CONSTANTS
  k1 = k1
  k2 = k2
  r1 = r1
  Text = Text
  Never = Never
  Key = {k1, k2}
  Reader = {r1}
  Half = 1
  TTL = {1}
  Second = 2
  MaxTime = 3
  MaxCommands = 3
  MaxSnapshots = 1
  MaxRestarts = 1
INVARIANTS
  TypeOK
  HeapMatchesData
  ReplayMatchesLive
PROPERTY ServedValuesStay
SYMMETRY Symmetry
CHECK_DEADLOCK FALSE
