\* GameTable as it is: no timer fires.
CONSTANTS
  Deals <- TinyDeals
  Grades <- ButtonGrades
  TimersFire = FALSE
  Leavers = {0}
  Laggers = {0}
  MaxRequests = 2
  MaxFlight = 2
VIEW TableView
SPECIFICATION TableSpec
INVARIANTS
  TableTypeOK
  ButtonsFollowTurn
  HandShown
  NoGameTooEarly
  ReadyTablePlays
  TableNotStuck
