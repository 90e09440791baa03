SPECIFICATION FairSpec
CONSTANTS
  Callers = {c1, c2, c3}
  Free = Free
INVARIANTS
  Ownership
  MutualExclusion
PROPERTIES
  LeaseSpec
  OnlyOwnerReleases
  EveryCallEnds
  KeyComesFree
CHECK_DEADLOCK FALSE
