CONSTANTS
  Session = {u1, u2}
  NoSession = NoSession
  TableCount = 1
SPECIFICATION Spec
INVARIANT TableMeansSeated
CHECK_DEADLOCK FALSE
