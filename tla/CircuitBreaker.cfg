SPECIFICATION FairSpec

CONSTANTS
  Slot = {s1, s2, s3}
  Configs <- ThreeConfigs
  MaxThreshold = 3
  MaxAge = 3

INVARIANTS
  TypeOK
  Exposure

PROPERTIES
  FullTimeout
  ProbesAgain
