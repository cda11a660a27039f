\* Ranks 10..2 and both jokers: the largest chains, the ace boundary, the 2.
CONSTANTS
  RankPool = {7, 8, 9, 10, 11, 12}
  SizeBound = 12
SPECIFICATION Spec
INVARIANTS
  OrderIrrelevant
  AnalyseSound
  BeatsIsStrictOrder
CHECK_DEADLOCK FALSE
