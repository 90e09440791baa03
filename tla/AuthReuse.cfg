SPECIFICATION ReuseSpec
CONSTANTS
  Requests = {r1, r2}
  Sessions = {s1}
  MaxTokens = 3
INVARIANTS
  NoFalseReuse
