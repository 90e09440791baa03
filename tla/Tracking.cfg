SPECIFICATION AggSpec
CONSTANTS
  Events = {e1, e2}
  Servers = {s1}
  QueueMaxLen = 1
  BatchSize = 1
  MaxFaults = 1
INVARIANTS
  RowPerPush
  StatsAreOfRows
PROPERTIES
  DecidedOnce
  EventsSettle
  StatsCatchUp
CHECK_DEADLOCK FALSE
