\* Two ranks are enough for a triple with a pair.
CONSTANTS
  RankPool = {7, 8, 9}
  SizeBound = 6
SPECIFICATION Spec
INVARIANT TripleDecides
CHECK_DEADLOCK FALSE
