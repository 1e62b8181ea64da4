SPECIFICATION Spec
CONSTANTS
  Objects <- AllObjects
  Refs <- AllRefs
  Slug <- Lowercase
  Lower <- Lowercase
  NoCommon = none
  None = none
  MaxOld = 2
PROPERTIES MigrationKeepsHistory StaysIdentified
CHECK_DEADLOCK FALSE
