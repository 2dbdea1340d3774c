SPECIFICATION Spec
CONSTANTS
  Thread = {t1, t2}
  Rival = {q}
  Levels <- MCLevels
  Category <- MCCategory
  Texts <- MCTexts
  LogLevels = {40}
  Sizes = {1, 2}
  Hole = Hole
  MaxRecords = 4
  MaxReloads = 2
  MaxTrouble = 1
INVARIANTS EnvSound LogsKept
CHECK_DEADLOCK FALSE
SYMMETRY Symmetry
