SPECIFICATION Spec
CONSTANTS
  k1 = k1
  k2 = k2
  k3 = k3
  z1 = z1
  v1 = v1
  v2 = v2
  Absent = Absent
  None = None
  Panic = Panic
  Key = {k1, k2, k3}
  Value = {v1, v2}
  ZKey = {z1}
  Member = {1, 2, 3}
  Score <- MCScore
  FloatSum <- MCSum
  NaN = NaN
  MaxLen = 3
  MaxLevel = 3
  MaxBatch = 2
  MaxBatchLevel = 1
INVARIANTS
  TypeOK
  ReplayMatchesLive
  ListsMeetReference
  StoreReplyIsExact
  SpansAreExact
  ReadsMeetReference
SYMMETRY Symmetry
CONSTRAINT NotMisled
