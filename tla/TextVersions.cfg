SPECIFICATION Spec
CONSTANTS
  Runs = {r1, r2}
  Admins = {a1}
  MaxVersions = 3
  MaxFaults = 1
SYMMETRY Symmetry
INVARIANTS
  VersionState
  OneCurrent
  RunningIsReal
PROPERTIES
  StaysReadable
  CurrentIsCompleted
CHECK_DEADLOCK FALSE
