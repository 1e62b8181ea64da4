\* Two upgrade jobs, the poll as the only refresh, replies not overtaken.
SPECIFICATION Spec
CONSTANTS
  MaxJobs = 2
  MaxRestarts = 0
  Refreshers = {poll}
  OneInstall = TRUE
  Overtaken = FALSE
  poll = poll
INVARIANTS WatchOutcomeIsOwn EndRecordedOnce LookedAfterOnce
