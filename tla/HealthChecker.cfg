SPECIFICATION FairCheckerSpec

CONSTANTS
  a1 = a1
  Node = {n1, n2}
  Address = {a1}
  AddressOf <- OneAddress
  None = None
  Checker = {1, 2, 3}
  UnhealthyThreshold = 3
  HealthyThreshold = 2

PROPERTIES
  Hysteresis
  FollowsBackend
  StopEnds

CHECK_DEADLOCK FALSE
