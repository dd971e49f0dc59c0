SPECIFICATION FairSpec

CONSTANTS
  MaxLoads = 4

PROPERTIES
  ReloadTakesEffect

CHECK_DEADLOCK FALSE
