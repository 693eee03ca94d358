CONSTANTS
  Entities = {driver}
  Types = {permis}
  Blocking = {permis}
  Expiries = {0, 1}
  Ahead <- MCAhead
  Soon = 1
  Sessions = {s1, s2}
  Scanners = {g1, g2}
  MaxDocs = 2
  MaxDay = 1
  MaxCalls = 2
  MaxFailures = 1
  None = None
SYMMETRY MCSymmetry
SPECIFICATION Spec
INVARIANTS TypeOK AlertsMatchFlags ArchivedIsReplaced ExpiredIsAlerted
PROPERTIES ModificationIsCounted
CHECK_DEADLOCK FALSE
