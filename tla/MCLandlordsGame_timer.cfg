\* GameTable as it is: SetTimeout returns an id and never calls back.
CONSTANTS
  Deals <- OneDeal
  Grades <- AllGrades
  TimersFire = FALSE
SPECIFICATION LiveSpec
PROPERTY GrabPhaseEnds
