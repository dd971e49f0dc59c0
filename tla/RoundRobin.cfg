SPECIFICATION FairRoundRobinSpec

CONSTANTS
  Node = {n1, n2, n3}
  None = None
  InitialNodes <- ThreeNodes
  MaxRemovals = 3
  n1 = n1
  n2 = n2
  n3 = n3

PROPERTIES
  Rotation
  ImplementsChoice
  NoStarvation
