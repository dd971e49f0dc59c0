SPECIFICATION Spec

CONSTANTS
  Unit = 1
  Caller = {c1, c2}
  Key = {k1}
  None = None
  Address = {1, 2, 3, 4, 5}
  Configs <- AllConfigs
  IdleTimeout = 1
  MaxCapacity = 2
  MaxRate = 1

SYMMETRY CallerSymmetry

INVARIANTS
  TypeOK
  OneBucketPerKey
  KeyBound
  GlobalBound
