SPECIFICATION Spec
CONSTANTS
  Objects = {a, b}
  Names = {1, 2, 3, 4}
  Temps = {5, 6, 7, 8, 9}
  Customised = {a}
  Outcomes = {TRUE}
INVARIANTS
  TypeOK
  HistoryKept
  NeverBothEnabled
PROPERTIES
  Reclaimed
  RollbackRestores
CHECK_DEADLOCK FALSE
