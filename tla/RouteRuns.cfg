CONSTANTS
  Runs = {r1, r2}
  Sessions = {s1}
  Managers = {manager}
  Daily = {daily}
  Accepted = {"DISPATCHED", "IN_PROGRESS", "COMPLETED", "CANCELLED"}
  MaxFailures = 1
  None = None
SPECIFICATION FairSpec
INVARIANTS TypeOK OnlyOverdueRegulated OncePerRegulator
PROPERTIES FollowsLifecycle EligibleGetsClosed
CHECK_DEADLOCK FALSE
