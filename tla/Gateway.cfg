SPECIFICATION FairSpec
CONSTANTS
  Request = {q1, q2}
  Address = {a1, a2}
  None = None
  MaxTables = 2
INVARIANTS
  ConnsMatchHandlers
  RecordsMatchAnswers
  CheckedUntilDrained
PROPERTIES
  OldTablesDrain
  StopsAndServes
\* The process may exit.
CHECK_DEADLOCK FALSE
