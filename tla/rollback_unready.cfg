SPECIFICATION Spec
CONSTANTS
  Objects = {a}
  Names = {1, 2}
  Temps = {3, 4, 5}
  Customised = {a}
  Outcomes = {TRUE, FALSE}
PROPERTIES
  RollbackRestores
CHECK_DEADLOCK FALSE
