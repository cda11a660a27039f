CONSTANTS
  Deals <- OneDeal
  Grades <- AllGrades
  TimersFire = FALSE
SPECIFICATION Spec
PROPERTY ExtraGoesToLandlord
