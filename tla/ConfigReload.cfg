SPECIFICATION FairSpec

CONSTANTS
  MaxLoads = 5

INVARIANTS
  TypeOK
  SpacedReloadsTakeEffect

PROPERTIES
  NoRollback
  DeliveredIsApplied

CHECK_DEADLOCK FALSE
