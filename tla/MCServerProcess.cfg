\* Three lines reach a threshold of three, a fatal one can be among them, and a
\* second process finds the files of the first.
CONSTANTS
  LevelOrder <- LevelsUsed
  FileNames <- Names
  DefaultFile = "main"
  BadFiles = {"bad"}
  Files <- ManyFiles
  MaxConns = 2
  MaxLines = 4
  MaxRuns = 2
SPECIFICATION LiveSpec
INVARIANTS
  SettingsApply
  LinesKept
  LossBounded
PROPERTIES
  ServesOrEnds
CHECK_DEADLOCK FALSE
