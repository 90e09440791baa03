SPECIFICATION Spec
CONSTANTS
  Words = {w1, w2, w3}
  Requests = {r1, r2}
  DefaultLimit = 2
  Limits = {1}
SYMMETRY Symmetry
INVARIANTS
  CardState
  SettledWithinLimit
PROPERTIES
  KeepsCards
