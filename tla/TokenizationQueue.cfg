SPECIFICATION Spec
CONSTANTS
  Texts = {t1, t2}
  Lists <- ShortLists
  Clients = {c1}
  Drains = {d1, d2}
  MaxConcurrency = 2
  MaxJobs = 3
  MaxCrashes = 1
SYMMETRY Symmetry
INVARIANTS
  QueueState
  NoStrandedJob
  RunningIsWorked
  RunsBounded
CHECK_DEADLOCK FALSE
