SPECIFICATION BalancerSpec

CONSTANTS
  Node = {n1, n2}
  None = None
  Handler = {h1, h2, h3}
  InitialNodes <- TwoNodes
  n1 = n1
  n2 = n2

SYMMETRY HandlerSymmetry

INVARIANTS
  ConnsMatchHandlers

PROPERTIES
  ImplementsSharedChoice
  ChoiceStaleness
