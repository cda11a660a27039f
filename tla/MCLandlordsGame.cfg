\* The host fires the timers it is asked for.
CONSTANTS
  Deals <- AllDeals
  Grades <- AllGrades
  TimersFire = TRUE
SPECIFICATION LiveSpec
INVARIANTS
  TypeOK
  NoSharedCard
  TopCall
  ClientsKnowTurn
  CurCanAct
PROPERTIES
  TrickRefinement
  GrabPhaseEnds
  RoundEnds
