SPECIFICATION FairSpec
CONSTANTS
  Caller = {k1, k2}
  Request <- MCRequest
  Config <- MCConfig
  None = None
INVARIANTS
  TypeOK
PROPERTIES
  ImplementsAtomic
  EveryoneReturns
