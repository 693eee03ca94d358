CONSTANTS
  Entities = {driver}
  Types = {permis}
  Blocking = {permis}
  Expiries = {1, None}
  Ahead <- MCAhead
  Soon = 1
  Sessions = {s1}
  Scanners = {g1}
  MaxDocs = 3
  MaxCalls = 3
  MaxDay = 2
  MaxFailures = 0
  None = None
SPECIFICATION Spec
INVARIANTS PresentAndValidIsOk
CHECK_DEADLOCK FALSE
