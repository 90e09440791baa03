-------------------------------- MODULE Billing --------------------------------
(***************************************************************************)
(* One coupon, the subscriptions it is spent on and their payments:        *)
(* SubscriptionService (src/src/subscription/subscription.service.ts),     *)
(* AdminBillingService (src/src/admin/billing/admin-billing.service.ts)    *)
(* and applyCoupon of AdminUsersService                                    *)
(* (src/src/admin/users/admin-users.service.ts).                           *)
(*                                                                         *)
(* Every handler reads what its checks need and then runs one transaction. *)
(* Transactions are READ COMMITTED: one that updates a row waits for the   *)
(* transaction that has updated it before, and then sees what that did.    *)
(* A transaction that locks the coupon from its first statement on is one  *)
(* step here; that of subscribeToPlan, whose lock is the subscription it   *)
(* replaces, is two.                                                       *)
(*                                                                         *)
(* Left out: trials, the subscriptions an administrator creates or extends,*)
(* end dates and events; validity dates and maxPerUser, which refuse more; *)
(* coupons without a limit; users that are purged with their redemptions.  *)
(***************************************************************************)
EXTENDS Naturals, FiniteSets

CONSTANTS
  Users,
  Requests,         \* calls that may be under way at the same time
  Limits,           \* values of maxRedemptions
  Price, Off,       \* priceCents of a plan and the amount of the coupon
  MaxSubscriptions, \* bound: subscriptions that are ever made
  Subscribers,      \* bound: the users who subscribe
  Refundable        \* bound: the subscriptions whose payment may be refunded

ASSUME UsersAssumption == IsFiniteSet(Users)
ASSUME AmountsAssumption == Limits \subseteq Nat /\ Price \in Nat /\ Off \in Nat /\ MaxSubscriptions \in Nat

VARIABLES
  coupon,           \* the Coupon row
  redemption,       \* the CouponRedemption of each user; "used": it has a paymentId
  live,             \* the ACTIVE subscriptions of each user, numbered by startDate
  made,             \* how many transactions have drawn a startDate
  payment,          \* the Payment of each subscription that has one
  req,              \* what each request is doing
  peak,             \* history: the largest maxRedemptions so far
  granted,          \* history: redemptions that administrators made
  discounts,        \* history: payments of each user made with the discount
  split             \* history: users who sent subscribe calls that overlap although
                    \* they do not replace the same subscription

vars == <<coupon, redemption, live, made, payment, req, peak, granted, discounts, split>>

Subscriptions == 1..MaxSubscriptions
None == 0

Coupon == [exists : BOOLEAN, isActive : BOOLEAN, maxRedemptions : Nat, redeemedCount : Nat]
NoCoupon == [exists |-> FALSE, isActive |-> FALSE, maxRedemptions |-> 0, redeemedCount |-> 0]
Payment == [status : {"SUCCEEDED", "REFUNDED"}, amountCents : Nat, refundedCents : Nat]
NoPayment == [status |-> "NONE", amountCents |-> 0, refundedCents |-> 0]

(***************************************************************************)
(* redeemCoupon and the two handlers by which an administrator redeems     *)
(* ("redeeming", "granting"), deleteCoupon ("deleting") and refundPayment  *)
(* ("refunding") have passed their checks.  subscribeToPlan has read the   *)
(* subscription it will replace ("subscribing"), and in its transaction    *)
(* has cancelled that and looked for a redemption to spend ("paying").     *)
(***************************************************************************)
Request == [at : {"idle", "redeeming", "granting", "deleting", "subscribing", "paying", "refunding"},
            user : Users \cup {None}, limit : Nat, current : Subscriptions \cup {None},
            new : Subscriptions \cup {None}, downgrade : BOOLEAN, found : BOOLEAN,
            cents : Nat, remaining : Nat, status : {"SUCCEEDED", "REFUNDED"}]
IdleRequest == [at |-> "idle", user |-> None, limit |-> 0, current |-> None, new |-> None,
                downgrade |-> FALSE, found |-> FALSE,
                cents |-> 0, remaining |-> 0, status |-> "SUCCEEDED"]

Redeemers == {u \in Users : redemption[u] # "none"}

Init ==
  /\ \E n \in Limits : /\ coupon = [exists |-> TRUE, isActive |-> TRUE, maxRedemptions |-> n,
                                    redeemedCount |-> 0]
                       /\ peak = n
  /\ redemption = [u \in Users |-> "none"]
  /\ live = [u \in Users |-> {}] /\ made = 0
  /\ payment = [s \in Subscriptions |-> NoPayment]
  /\ req = [r \in Requests |-> IdleRequest]
  /\ granted = 0 /\ discounts = [u \in Users |-> 0] /\ split = {}
-----------------------------------------------------------------------------
Goto(r, rec) == req' = [req EXCEPT ![r] = rec]
End(r) == Goto(r, IdleRequest)

subscriptionVars == <<live, made, payment, discounts, split>>
couponVars == <<coupon, redemption, peak, granted>>

(* Redeeming *)

Redeemable(u) ==
  /\ coupon.exists /\ coupon.isActive /\ coupon.redeemedCount < coupon.maxRedemptions
  /\ redemption[u] = "none"

RedeemRead(r, u, a) ==
  /\ req[r].at = "idle"
  /\ Redeemable(u)
  /\ Goto(r, [IdleRequest EXCEPT !.at = a, !.user = u, !.limit = IF a = "redeeming" THEN coupon.maxRedemptions ELSE 0])
  /\ UNCHANGED <<subscriptionVars, couponVars>>

\* The redemption of u and the count of it.
Counted(u, paid) ==
  /\ coupon' = [coupon EXCEPT !.redeemedCount = @ + 1]
  /\ redemption' = [redemption EXCEPT ![u] = IF paid THEN "used" ELSE "pending"]

\* The transaction whose insert fails on @@unique([couponId, userId]) but does not roll
\* the count back.
RedeemUnrolled(r) ==
  /\ req[r].at = "redeeming"
  /\ LET u == req[r].user
     IN  IF coupon.exists /\ coupon.isActive /\ coupon.redeemedCount < req[r].limit
         THEN Counted(u, redemption[u] = "used") ELSE UNCHANGED <<coupon, redemption>>
  /\ End(r)
  /\ UNCHANGED <<subscriptionVars, peak, granted>>

\* The transaction that trusts the limit checked before.
RedeemUnchecked(r) ==
  /\ req[r].at = "redeeming"
  /\ LET u == req[r].user
     IN  IF coupon.exists /\ redemption[u] = "none"
         THEN Counted(u, FALSE) ELSE UNCHANGED <<coupon, redemption>>
  /\ End(r)
  /\ UNCHANGED <<subscriptionVars, peak, granted>>

\* The increment is conditional on the limit as it was read; the insert fails, and rolls
\* it back, if there is a redemption of u by now.
Redeem(r) ==
  /\ req[r].at = "redeeming"
  /\ LET u == req[r].user
     IN  IF /\ coupon.exists /\ coupon.isActive /\ coupon.redeemedCount < req[r].limit
            /\ redemption[u] = "none"
         THEN Counted(u, FALSE) ELSE UNCHANGED <<coupon, redemption>>
  /\ End(r)
  /\ UNCHANGED <<subscriptionVars, peak, granted>>

\* An administrator's increment is not conditional; he may name a payment.
Grant(r) ==
  /\ req[r].at = "granting"
  /\ LET u == req[r].user
     IN  IF coupon.exists /\ redemption[u] = "none"
         THEN granted' = granted + 1 /\ \E paid \in BOOLEAN : Counted(u, paid)
         ELSE UNCHANGED <<coupon, redemption, granted>>
  /\ End(r)
  /\ UNCHANGED <<subscriptionVars, peak>>

\* updateCoupon, activateCoupon, deactivateCoupon
UpdateCoupon ==
  /\ coupon.exists
  /\ \E n \in Limits, b \in BOOLEAN :
       /\ coupon' = [coupon EXCEPT !.maxRedemptions = n, !.isActive = b]
       /\ peak' = IF n > peak THEN n ELSE peak
  /\ UNCHANGED <<redemption, granted, req, subscriptionVars>>

DeleteRead(r) ==
  /\ req[r].at = "idle"
  /\ coupon.exists /\ coupon.redeemedCount = 0
  /\ Goto(r, [IdleRequest EXCEPT !.at = "deleting"])
  /\ UNCHANGED <<subscriptionVars, couponVars>>

\* The redemptions go with the coupon, those made since the check too.
Delete(r) ==
  /\ req[r].at = "deleting"
  /\ coupon' = NoCoupon
  /\ redemption' = [u \in Users |-> "none"]
  /\ End(r)
  /\ UNCHANGED <<subscriptionVars, peak, granted>>
-----------------------------------------------------------------------------
(* Subscribing *)

\* getMySubscription: the last one live, or None.
Current(u) == {c \in live[u] \cup {None} : \A s \in live[u] : s <= c}

\* A call of u is under way that does not replace the same subscription c.
Apart(u, c) ==
  \E q \in Requests : /\ req[q].at \in {"subscribing", "paying"} /\ req[q].user = u
                      /\ c = None \/ req[q].current # c

\* The change to a cheaper plan is a downgrade.
SubscribeRead(r, u) ==
  /\ req[r].at = "idle"
  /\ \E c \in Current(u), d \in BOOLEAN :
       /\ d => c # None
       /\ Goto(r, [IdleRequest EXCEPT !.at = "subscribing", !.user = u, !.current = c,
                     !.downgrade = d])
       /\ split' = IF Apart(u, c) THEN split \cup {u} ELSE split
  /\ UNCHANGED <<couponVars, live, made, payment, discounts>>

\* The subscription to replace is locked by a transaction that has cancelled it.
Locked(s) == s # None /\ \E q \in Requests : req[q].at = "paying" /\ req[q].current = s

\* The transaction that only inserts the new subscription waits for nobody.
BeginUnlocked(r) ==
  /\ req[r].at = "subscribing"
  /\ made < MaxSubscriptions
  /\ made' = made + 1
  /\ Goto(r, [req[r] EXCEPT !.at = "paying", !.new = made + 1,
                !.found = ~req[r].downgrade /\ redemption[req[r].user] = "pending"])
  /\ UNCHANGED <<couponVars, live, payment, discounts, split>>

\* It waits for the lock, draws the startDate and looks for a redemption to spend.
Begin(r) ==
  /\ req[r].at = "subscribing"
  /\ ~Locked(req[r].current)
  /\ made < MaxSubscriptions
  /\ made' = made + 1
  /\ Goto(r, [req[r] EXCEPT !.at = "paying", !.new = made + 1,
                !.found = ~req[r].downgrade /\ redemption[req[r].user] = "pending"])
  /\ UNCHANGED <<couponVars, live, payment, discounts, split>>

Reduced == IF Off < Price THEN Price - Off ELSE 0

\* The redemption found is marked used, whether or not the coupon applies to the plan; if
\* it went with the coupon meanwhile, the transaction is rolled back.
Commit(r) ==
  /\ req[r].at = "paying"
  /\ LET u == req[r].user
         s == req[r].new
     IN  IF req[r].found /\ redemption[u] = "none"
         THEN UNCHANGED <<redemption, live, payment, discounts>>
         ELSE /\ live' = [live EXCEPT ![u] = (@ \ {req[r].current}) \cup {s}]
              /\ redemption' = [redemption EXCEPT ![u] = IF req[r].found THEN "used" ELSE @]
              /\ \E applies \in {FALSE} \cup {req[r].found} :
                   /\ discounts' = [discounts EXCEPT ![u] = IF applies THEN @ + 1 ELSE @]
                   /\ payment' =
                        IF req[r].downgrade THEN payment
                        ELSE [payment EXCEPT ![s] =
                               [status |-> "SUCCEEDED",
                                amountCents |-> IF applies THEN Reduced ELSE Price, refundedCents |-> 0]]
  /\ End(r)
  /\ UNCHANGED <<coupon, made, peak, granted, split>>

\* cancelSubscription, of the user or an administrator
Cancel(u) ==
  /\ \E s \in live[u] : live' = [live EXCEPT ![u] = @ \ {s}]
  /\ UNCHANGED <<couponVars, req, made, payment, discounts, split>>
-----------------------------------------------------------------------------
(* Refunding *)

RefundRead(r, s) ==
  /\ req[r].at = "idle"
  /\ payment[s].refundedCents < payment[s].amountCents
  /\ LET remaining == payment[s].amountCents - payment[s].refundedCents
     IN  \E n \in 1..remaining :
           Goto(r, [IdleRequest EXCEPT !.at = "refunding", !.current = s, !.cents = n,
                      !.remaining = remaining, !.status = payment[s].status])
  /\ UNCHANGED <<subscriptionVars, couponVars>>

\* The handler that takes any refund for a full one.
RefundWhole(r) ==
  /\ req[r].at = "refunding"
  /\ payment' = [payment EXCEPT ![req[r].current] =
       [status |-> "REFUNDED", amountCents |-> @.amountCents,
        refundedCents |-> @.refundedCents + req[r].cents]]
  /\ End(r)
  /\ UNCHANGED <<couponVars, live, made, discounts, split>>

\* What is added is exact, the status is the one read.
Refund(r) ==
  /\ req[r].at = "refunding"
  /\ payment' = [payment EXCEPT ![req[r].current] =
       [status |-> IF req[r].cents = req[r].remaining THEN "REFUNDED" ELSE req[r].status,
        amountCents |-> @.amountCents, refundedCents |-> @.refundedCents + req[r].cents]]
  /\ End(r)
  /\ UNCHANGED <<couponVars, live, made, discounts, split>>

\* A statement fails, or the server dies: what was not committed is not done.
Fail(r) ==
  /\ req[r].at # "idle"
  /\ End(r)
  /\ UNCHANGED <<subscriptionVars, couponVars>>

Next ==
  \/ \E r \in Requests :
       \/ \E u \in Users : \/ RedeemRead(r, u, "redeeming") \/ RedeemRead(r, u, "granting")
       \/ Redeem(r) \/ Grant(r) \/ DeleteRead(r) \/ Delete(r) \/ Begin(r) \/ Commit(r)
       \/ \E u \in Subscribers \cap Users : SubscribeRead(r, u)
       \/ \E s \in Refundable \cap Subscriptions : RefundRead(r, s)
       \/ Refund(r) \/ Fail(r)
  \/ UpdateCoupon
  \/ \E u \in Users : Cancel(u)

Spec == Init /\ [][Next]_vars
-----------------------------------------------------------------------------
TypeOK ==
  /\ coupon \in Coupon
  /\ redemption \in [Users -> {"none", "pending", "used"}]
  /\ live \in [Users -> SUBSET Subscriptions] /\ made \in 0..MaxSubscriptions
  /\ payment \in [Subscriptions -> Payment \cup {NoPayment}]
  /\ req \in [Requests -> Request]
  /\ peak \in Nat /\ granted \in Nat
  /\ discounts \in [Users -> Nat] /\ split \subseteq Users

(* redeemedCount is the number of redemptions, through redemptions that are rolled back,
   overlap or meet a deletion. *)
CountIsExact == TypeOK /\ coupon.redeemedCount = Cardinality(Redeemers)

(* Users who redeem at the same time, on limits an administrator has changed since, never
   take the coupon past the largest limit it has had, but for redemptions that an
   administrator made. *)
WithinLimit == coupon.redeemedCount <= peak + granted

(* A redemption buys one discount, in subscribe calls of one user that overlap too, if they
   replace the same subscription; if they do not, both find it unspent. *)
OneDiscount == \A u \in Users \ split : discounts[u] <= 1

Ticket == INSTANCE Voucher WITH
  open <- coupon.exists,
  state <- [u \in Users |-> IF u \in split THEN "void" ELSE redemption[u]],
  given <- [u \in Users |-> IF u \in split THEN 0 ELSE discounts[u]]

(* The coupon is a Voucher to the users who do not send such calls: whatever redemptions,
   subscribe calls, grants and deletions overlap, a redemption is made while there is a
   coupon, is spent once and not undone, and a discount is given at the moment it is spent. *)
CouponIsVoucher == Ticket!Spec

(* A payment is REFUNDED only when all of it has been refunded, although overlapping
   refunds write a status that was read before. *)
RefundedInFull ==
  \A s \in Subscriptions :
    payment[s].status = "REFUNDED" => payment[s].refundedCents >= payment[s].amountCents
=============================================================================
