\* One path of each kind; refreshes and pushes do not overlap.
SPECIFICATION FairSpec
CONSTANTS
  Sys = system_info
  Pool = pool
  Gathered = {vm}
  Pushed = {pool}
  Poll = poll
  Directs = {}
  Interval = 1
  MaxFaults = 1
  Overlap = FALSE
  None = none
  system_info = system_info  pool = pool  vm = vm
  poll = poll  none = none
INVARIANTS TypeOK ShownIsAvailable
PROPERTIES FaultShown OutageShown RecoveryShown UpdateChecked
