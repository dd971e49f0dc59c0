SPECIFICATION Spec

CONSTANTS
  Slot = {s1, s2, s3}
  Configs <- OneConfig
  MaxThreshold = 2
  MaxAge = 2

INVARIANTS
  LimitedProbes
