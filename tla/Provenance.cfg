SPECIFICATION Spec
CONSTANTS
  q1 = q1
  q2 = q2
  A = A
  B = B
  None = None
  Runs = {1, 2}
  Agents = {"a"}
  Daemons = {"d"}
  Requests <- TwoRequests
  Sources <- TwoSources
  MaxEdits = 1
  MaxUpserts = 1
  MaxFaults = 1
INVARIANTS
  TypeOK
  CacheCurrent
  RotationEffective
  ReceiptMatchesRow
  WrongRecallExplained
  VerdictTrue
SYMMETRY Alike
CHECK_DEADLOCK FALSE
