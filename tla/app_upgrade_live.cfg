\* One job, over a restart of Home Assistant.
SPECIFICATION FairSpec
CONSTANTS
  MaxJobs = 1
  MaxRestarts = 1
  Refreshers = {poll}
  OneInstall = TRUE
  Overtaken = FALSE
  poll = poll
PROPERTIES InProgressEnds FailureNotified
