CONSTANTS
  Drivers = {"ana", "bob"}
  Types = {"hours", "km", "bonus"}
  Computed = {"hours", "km"}
  Files <- MCFiles
  Imports = {i1, i2}
  Computations = {c1, c2}
  None = None
  Untouched = Untouched
SYMMETRY Symmetry
SPECIFICATION Spec
INVARIANTS TypeOK ComputedTogether
PROPERTIES ImportAddsItsFile RecomputationReplaces
CHECK_DEADLOCK FALSE
