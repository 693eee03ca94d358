CONSTANTS
  Runs = {r1}
  Sessions = {s1, s2}
  Managers = {}
  Daily = {daily}
  Accepted = {"DISPATCHED", "CANCELLED"}
  MaxFailures = 0
  None = None
SPECIFICATION FairSpec
PROPERTIES OverdueGetsClosed
CHECK_DEADLOCK FALSE
