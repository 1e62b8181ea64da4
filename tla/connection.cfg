\* Two refreshes, two targets, two causes.
SPECIFICATION FairSpec
CONSTANTS
  Targets = {nas1, nas2}
  Causes = {refused, timeout}
  Auth = auth
  Up = up
  Refreshers = {poll, direct}
  InOrder = TRUE
  ReconfigureWaits = TRUE
  None = none
  nas1 = nas1  nas2 = nas2  refused = refused  timeout = timeout
  auth = auth  up = up  poll = poll  direct = direct  none = none
INVARIANTS TypeOK MarkerAgrees
PROPERTIES ImplementsOutageLog RequestedIsNoError OutageEnds
