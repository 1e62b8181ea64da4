\* Two set-ups, one fault, two passes or batches under way.
SPECIFICATION FairSpec
CONSTANTS
  Pools = {p}
  Apps = {a}
  AppStates = {"absent", "stopped", "running"}
  MaxGen = 2
  MaxFaults = 1
  MaxTasks = 2
INVARIANTS TypeOK NoneLeftBehind AddedOnce
PROPERTIES Kept Served
CHECK_DEADLOCK FALSE
