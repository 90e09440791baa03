SPECIFICATION Spec
CONSTANTS
  Users = {u1, u2}
  Requests = {r1, r2}
  Limits = {1, 2}
  Price = 2
  Off = 2
  MaxSubscriptions = 3
  Subscribers = {u1}
  Refundable = {3}
SYMMETRY Symmetry
INVARIANTS
  CountIsExact
  WithinLimit
  OneDiscount
  RefundedInFull
PROPERTIES
  CouponIsVoucher
CHECK_DEADLOCK FALSE
