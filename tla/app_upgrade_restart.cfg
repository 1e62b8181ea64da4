\* app.upgrade is answered while a refresh is under way.
SPECIFICATION Spec
CONSTANTS
  MaxJobs = 1
  MaxRestarts = 0
  Refreshers = {poll}
  OneInstall = TRUE
  Overtaken = TRUE
  poll = poll
INVARIANTS RestartOnlyAfterFailure
