SPECIFICATION FairSpec
CONSTANTS
  Texts = {t1}
  Lists <- ShortLists
  Clients = {c1, c2}
  Drains = {d1, d2}
  MaxConcurrency = 1
  MaxJobs = 2
  MaxCrashes = 1
PROPERTIES
  EveryJobSettles
CHECK_DEADLOCK FALSE
