SPECIFICATION Spec
CONSTANTS
  Requests = {r1, r2}
  Sessions = {s1, s2}
  MaxTokens = 3
SYMMETRY Symmetry
INVARIANTS
  Sections
  SingleUse
  RevokedSessionStaysOut
  ReuseShutsOut
PROPERTIES
  NoUnrevocation
  RotationExchanges
