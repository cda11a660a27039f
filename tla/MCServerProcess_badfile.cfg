\* The settings are read, no more.
CONSTANTS
  LevelOrder <- LevelsUsed
  FileNames <- Names
  DefaultFile = "main"
  BadFiles = {"bad"}
  Files <- ManyFiles
  MaxConns = 0
  MaxLines = 0
  MaxRuns = 1
SPECIFICATION Spec
INVARIANTS
  BadFileTurnsOff
CHECK_DEADLOCK FALSE
