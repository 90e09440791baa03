SPECIFICATION Spec
CONSTANTS
  Callers = {c1, c2}
  Free = Free
INVARIANTS
  NoPhantomLock
CHECK_DEADLOCK FALSE
