SPECIFICATION Spec
CONSTANTS
  Request = {q1, q2}
  Address = {a1}
  None = None
  MaxTables = 1
INVARIANTS
  GracefulStop
CHECK_DEADLOCK FALSE
