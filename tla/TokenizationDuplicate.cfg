SPECIFICATION Spec
CONSTANTS
  Texts = {t1, t2}
  Lists <- OneText
  Clients = {c1, c2}
  Drains = {d1, d2}
  MaxConcurrency = 2
  MaxJobs = 3
  MaxCrashes = 1
INVARIANTS
  NoDuplicateJob
CHECK_DEADLOCK FALSE
