------------------------------- MODULE Voucher -------------------------------
(***************************************************************************)
(* What a coupon promises while it is open: a user redeems it once, spends *)
(* the redemption once, and gets the discount then or never.               *)
(***************************************************************************)
EXTENDS Naturals

CONSTANT Users

VARIABLES
  open,             \* the coupon exists
  state,            \* of each user's redemption; "void": nothing is promised to the user
  given             \* discounts each user got

States == {"none", "pending", "used", "void"}

Init ==
  /\ open = TRUE
  /\ state = [u \in Users |-> "none"]
  /\ given = [u \in Users |-> 0]

\* Redeemed to be spent later, or on a payment that an administrator names.
Redeem(u) ==
  /\ open /\ state[u] = "none"
  /\ \E s \in {"pending", "used"} : state' = [state EXCEPT ![u] = s]
  /\ UNCHANGED <<open, given>>

Spend(u) ==
  /\ open /\ state[u] = "pending"
  /\ state' = [state EXCEPT ![u] = "used"]
  /\ \E n \in {0, 1} : given' = [given EXCEPT ![u] = @ + n]
  /\ UNCHANGED open

Close ==
  /\ open' = FALSE
  /\ state' = [u \in Users |-> IF state[u] = "void" THEN "void" ELSE "none"]
  /\ UNCHANGED given

Void(u) ==
  /\ state' = [state EXCEPT ![u] = "void"]
  /\ given' = [given EXCEPT ![u] = 0]
  /\ UNCHANGED open

Next == Close \/ \E u \in Users : Redeem(u) \/ Spend(u) \/ Void(u)

Spec == Init /\ [][Next]_<<open, state, given>>
=============================================================================
