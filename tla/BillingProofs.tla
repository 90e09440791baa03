---------------------------- MODULE BillingProofs ----------------------------
(***************************************************************************)
(* Safety of Billing for any users, requests, limits and prices.           *)
(***************************************************************************)
EXTENDS Billing, FiniteSetTheorems, TLAPS

USE DEF None

\* What redemptions under way have read is no more than the largest limit.
LimitsRead ==
  /\ coupon.maxRedemptions <= peak
  /\ \A r \in Requests : req[r].at = "redeeming" => req[r].limit <= peak

\* A redemption that can still be spent has not been, and calls that replace the same
\* subscription wait for each other.
Subscribing(r) == req[r].at \in {"subscribing", "paying"}
Open(u) == redemption[u] = "pending" \/ (redemption[u] = "none" /\ coupon.exists)
Unspent(u) ==
  /\ discounts[u] <= 1
  /\ Open(u) => discounts[u] = 0
  /\ \A r \in Requests : req[r].at = "paying" /\ req[r].user = u /\ req[r].found => discounts[u] = 0
InTurn(u) ==
  \A q, r \in Requests :
    q # r /\ Subscribing(q) /\ Subscribing(r) /\ req[q].user = u /\ req[r].user = u =>
      /\ req[q].current = req[r].current /\ req[r].current # None
      /\ ~(req[q].at = "paying" /\ req[r].at = "paying")
Spent == \A u \in Users \ split : Unspent(u) /\ InTurn(u)

\* A transaction has the number of its subscription to itself, and nothing is paid for it yet.
Numbered ==
  /\ \A s \in Subscriptions : s > made => payment[s] = NoPayment
  /\ \A r \in Requests : req[r].at = "paying" =>
       req[r].new \in 1..made /\ payment[req[r].new] = NoPayment
  /\ \A q, r \in Requests :
       q # r /\ req[q].at = "paying" /\ req[r].at = "paying" => req[q].new # req[r].new

\* A refund that takes what remained when it read the payment leaves nothing.
Covered(s) == payment[s].refundedCents >= payment[s].amountCents
Refunding(r) ==
  req[r].at = "refunding" =>
    /\ req[r].current \in Subscriptions /\ payment[req[r].current] # NoPayment
    /\ payment[req[r].current].amountCents <= payment[req[r].current].refundedCents + req[r].remaining
    /\ req[r].status = "REFUNDED" => Covered(req[r].current)
Refunds == RefundedInFull /\ \A r \in Requests : Refunding(r)

\* The calls of users.
Callers ==
  \A r \in Requests : req[r].at \in {"redeeming", "granting", "subscribing", "paying"} => req[r].user \in Users

Inv == CountIsExact /\ Callers /\ WithinLimit /\ LimitsRead /\ Spent /\ Numbered /\ Refunds
-----------------------------------------------------------------------------
(* Steps of requests *)

\* Only the request that goes on changes.
LEMMA Gone ==
  ASSUME TypeOK, NEW r \in Requests, NEW rec, Goto(r, rec)
  PROVE  req'[r] = rec /\ \A q \in Requests : q # r => req'[q] = req[q]
BY DEF Goto, TypeOK

LEMMA GoneTyped ==
  ASSUME TypeOK, NEW r \in Requests, NEW rec \in Request, Goto(r, rec)
  PROVE  req' \in [Requests -> Request]
BY DEF Goto, TypeOK

LEMMA IdleTyped == IdleRequest \in Request /\ IdleRequest.at = "idle"
BY DEF IdleRequest, Request, Subscriptions

\* What the requests hold, one by one.
LEMMA Fields ==
  ASSUME TypeOK, NEW r \in Requests
  PROVE  /\ req[r] \in Request /\ req[r].user \in Users \cup {None} /\ req[r].limit \in Nat
         /\ req[r].current \in Subscriptions \cup {None} /\ req[r].new \in Subscriptions \cup {None}
         /\ req[r].downgrade \in BOOLEAN /\ req[r].found \in BOOLEAN
         /\ req[r].cents \in Nat /\ req[r].remaining \in Nat
         /\ req[r].status \in {"SUCCEEDED", "REFUNDED"}
<1>1. req[r] \in Request
  BY DEF TypeOK
<1> QED BY <1>1 DEF Request
\* A transaction of subscribeToPlan is rolled back or makes the subscription.
Paid(r, applies) ==
  LET u == req[r].user
      s == req[r].new
  IN  /\ applies => req[r].found
      /\ req[r].found => redemption[u] # "none"
      /\ live' = [live EXCEPT ![u] = (@ \ {req[r].current}) \cup {s}]
      /\ redemption' = [redemption EXCEPT ![u] = IF req[r].found THEN "used" ELSE @]
      /\ discounts' = [discounts EXCEPT ![u] = IF applies THEN @ + 1 ELSE @]
      /\ payment' =
           IF req[r].downgrade THEN payment
           ELSE [payment EXCEPT ![s] =
                  [status |-> "SUCCEEDED",
                   amountCents |-> IF applies THEN Reduced ELSE Price, refundedCents |-> 0]]

LEMMA Committed ==
  ASSUME TypeOK, NEW r \in Requests, Commit(r)
  PROVE  UNCHANGED <<redemption, live, payment, discounts>> \/ \E applies \in BOOLEAN : Paid(r, applies)
BY Fields DEF Commit, Paid

\* A redemption is one more.
LEMMA CountedAdds ==
  ASSUME TypeOK, NEW u \in Users, NEW paid \in BOOLEAN, redemption[u] = "none", Counted(u, paid)
  PROVE  /\ Cardinality(Redeemers') = Cardinality(Redeemers) + 1
         /\ coupon'.redeemedCount = coupon.redeemedCount + 1
         /\ coupon'.maxRedemptions = coupon.maxRedemptions /\ coupon'.exists = coupon.exists
         /\ \A v \in Users : v # u => redemption'[v] = redemption[v]
         /\ redemption'[u] # "none" /\ (paid => redemption'[u] # "pending")
<1>1. Redeemers' = Redeemers \cup {u} /\ u \notin Redeemers
  BY DEF Counted, Redeemers, TypeOK
<1>2. IsFiniteSet(Redeemers)
  BY UsersAssumption, FS_Subset DEF Redeemers
<1>3. Cardinality(Redeemers') = Cardinality(Redeemers) + 1
  BY <1>1, <1>2, FS_AddElement
<1>4. /\ coupon'.redeemedCount = coupon.redeemedCount + 1
      /\ coupon'.maxRedemptions = coupon.maxRedemptions
  BY DEF Counted, TypeOK, Coupon
<1>6. coupon'.exists = coupon.exists
  BY DEF Counted, TypeOK, Coupon
<1>5. /\ \A v \in Users : v # u => redemption'[v] = redemption[v]
      /\ redemption'[u] # "none" /\ (paid => redemption'[u] # "pending")
  BY DEF Counted, TypeOK
<1> QED BY <1>3, <1>4, <1>5, <1>6

\* What redeemCoupon and an administrator do to the coupon and the redemptions.
LEMMA Redeemed ==
  ASSUME TypeOK, Callers, NEW r \in Requests, Redeem(r)
  PROVE  /\ req[r].user \in Users
         /\ \/ UNCHANGED <<coupon, redemption>>
            \/ /\ Counted(req[r].user, FALSE) /\ redemption[req[r].user] = "none" /\ coupon.exists
               /\ coupon.redeemedCount < req[r].limit
BY DEF Redeem, Callers

LEMMA Granted ==
  ASSUME TypeOK, Callers, NEW r \in Requests, Grant(r)
  PROVE  /\ req[r].user \in Users
         /\ \/ UNCHANGED <<coupon, redemption, granted>>
            \/ /\ granted' = granted + 1 /\ redemption[req[r].user] = "none" /\ coupon.exists
               /\ \E paid \in BOOLEAN : Counted(req[r].user, paid)
BY DEF Grant, Callers

\* The actions that leave the coupon and the redemptions alone.
LEMMA CouponKept ==
  ASSUME NEW r \in Requests, \/ \E u \in Users, a \in {"redeeming", "granting"} : RedeemRead(r, u, a)
                            \/ DeleteRead(r) \/ (\E u \in Users : SubscribeRead(r, u)) \/ Begin(r)
                            \/ (\E s \in Subscriptions : RefundRead(r, s)) \/ Refund(r) \/ Fail(r)
  PROVE  UNCHANGED couponVars
BY DEF RedeemRead, DeleteRead, SubscribeRead, Begin, RefundRead, Refund, Fail, couponVars
-----------------------------------------------------------------------------
(* Types *)

LEMMA TypeInit == Init => TypeOK /\ Callers
<1> SUFFICES ASSUME Init PROVE TypeOK /\ Callers
  OBVIOUS
<1>1. coupon \in Coupon /\ peak \in Nat
  BY AmountsAssumption DEF Init, Coupon
<1>2. req \in [Requests -> Request] /\ Callers
  BY IdleTyped DEF Init, Callers
<1> QED BY <1>1, <1>2, AmountsAssumption DEF Init, TypeOK

LEMMA TypeStep ==
  ASSUME TypeOK, Callers, Numbered, Next
  PROVE  TypeOK' /\ Callers'
<1> USE DEF Subscriptions
<1>1. ASSUME NEW r \in Requests, NEW u \in Users, NEW a \in {"redeeming", "granting"}, RedeemRead(r, u, a)
      PROVE  TypeOK' /\ Callers'
  <2> DEFINE rec == [IdleRequest EXCEPT !.at = a, !.user = u,
                       !.limit = IF a = "redeeming" THEN coupon.maxRedemptions ELSE 0]
  <2>1. coupon.maxRedemptions \in Nat
    BY DEF TypeOK, Coupon
  <2>2. rec \in Request /\ rec.user \in Users
    BY <2>1 DEF IdleRequest, Request
  <2>3. Goto(r, rec)
    BY <1>1 DEF RedeemRead
  <2> HIDE DEF rec
  <2>4. req' \in [Requests -> Request] /\ Callers'
    BY <2>2, <2>3, Gone, GoneTyped DEF Callers
  <2> QED BY <1>1, <2>4 DEF RedeemRead, TypeOK, couponVars, subscriptionVars
<1>2. ASSUME NEW r \in Requests, End(r)
      PROVE  req' \in [Requests -> Request] /\ Callers'
  BY <1>2, IdleTyped, Gone, GoneTyped DEF End, Callers
<1>3. ASSUME NEW u, NEW paid \in BOOLEAN, Counted(u, paid)
      PROVE  coupon' \in Coupon /\ redemption' \in [Users -> {"none", "pending", "used"}]
  <2>1. coupon' \in Coupon
    <3>1. coupon.exists \in BOOLEAN /\ coupon.isActive \in BOOLEAN /\ coupon.redeemedCount + 1 \in Nat
          /\ coupon.maxRedemptions \in Nat
      BY DEF TypeOK, Coupon
    <3>2. coupon' = [exists |-> coupon.exists, isActive |-> coupon.isActive,
                     maxRedemptions |-> coupon.maxRedemptions, redeemedCount |-> coupon.redeemedCount + 1]
      BY <1>3 DEF Counted, TypeOK, Coupon
    <3> QED BY <3>1, <3>2 DEF Coupon
  <2>2. redemption' \in [Users -> {"none", "pending", "used"}]
    BY <1>3 DEF Counted, TypeOK
  <2> QED BY <2>1, <2>2
<1>4. ASSUME NEW r \in Requests, Redeem(r)  PROVE TypeOK' /\ Callers'
  <2>1. coupon' \in Coupon /\ redemption' \in [Users -> {"none", "pending", "used"}]
    BY <1>3, <1>4 DEF Redeem, TypeOK
  <2> QED BY <1>2, <1>4, <2>1 DEF Redeem, TypeOK, subscriptionVars
<1>5. ASSUME NEW r \in Requests, Grant(r)  PROVE TypeOK' /\ Callers'
  <2>1. coupon' \in Coupon /\ redemption' \in [Users -> {"none", "pending", "used"}] /\ granted' \in Nat
    BY <1>3, <1>5 DEF Grant, TypeOK
  <2> QED BY <1>2, <1>5, <2>1 DEF Grant, TypeOK, subscriptionVars
<1>6. CASE UpdateCoupon
  <2>1. PICK n \in Limits, b \in BOOLEAN :
          /\ coupon' = [coupon EXCEPT !.maxRedemptions = n, !.isActive = b]
          /\ peak' = IF n > peak THEN n ELSE peak
    BY <1>6 DEF UpdateCoupon
  <2>2. coupon' \in Coupon /\ peak' \in Nat
    BY <2>1, AmountsAssumption DEF TypeOK, Coupon
  <2> QED BY <1>6, <2>2 DEF UpdateCoupon, TypeOK, Callers, subscriptionVars
<1>7. ASSUME NEW r \in Requests, DeleteRead(r)  PROVE TypeOK' /\ Callers'
  <2> DEFINE rec == [IdleRequest EXCEPT !.at = "deleting"]
  <2>1. rec \in Request /\ rec.at = "deleting"
    BY DEF IdleRequest, Request
  <2>2. Goto(r, rec)
    BY <1>7 DEF DeleteRead
  <2> HIDE DEF rec
  <2>3. req' \in [Requests -> Request] /\ Callers'
    BY <2>1, <2>2, Gone, GoneTyped DEF Callers
  <2> QED BY <1>7, <2>3 DEF DeleteRead, TypeOK, couponVars, subscriptionVars
<1>8. ASSUME NEW r \in Requests, Delete(r)  PROVE TypeOK' /\ Callers'
  <2>1. coupon' \in Coupon /\ redemption' \in [Users -> {"none", "pending", "used"}]
    BY <1>8 DEF Delete, Coupon, NoCoupon
  <2> QED BY <1>2, <1>8, <2>1 DEF Delete, TypeOK, subscriptionVars
<1>9. ASSUME NEW r \in Requests, NEW u \in Users, SubscribeRead(r, u)  PROVE TypeOK' /\ Callers'
  <2>1. PICK c \in Current(u), d \in BOOLEAN :
          /\ Goto(r, [IdleRequest EXCEPT !.at = "subscribing", !.user = u, !.current = c,
                        !.downgrade = d])
          /\ split' = IF Apart(u, c) THEN split \cup {u} ELSE split
    BY <1>9 DEF SubscribeRead
  <2> DEFINE rec == [IdleRequest EXCEPT !.at = "subscribing", !.user = u, !.current = c, !.downgrade = d]
  <2>2. c \in Subscriptions \cup {None}
    BY <2>1 DEF Current, TypeOK
  <2>3. rec \in Request /\ rec.user \in Users
    BY <2>2 DEF IdleRequest, Request
  <2>4. Goto(r, rec)
    BY <2>1
  <2> HIDE DEF rec
  <2>5. req' \in [Requests -> Request] /\ Callers'
    BY <2>3, <2>4, Gone, GoneTyped DEF Callers
  <2>6. split' \subseteq Users
    BY <2>1 DEF TypeOK
  <2> QED BY <1>9, <2>5, <2>6 DEF SubscribeRead, TypeOK, couponVars
<1>10. ASSUME NEW r \in Requests, Begin(r)  PROVE TypeOK' /\ Callers'
  <2> DEFINE rec == [req[r] EXCEPT !.at = "paying", !.new = made + 1,
                       !.found = ~req[r].downgrade /\ redemption[req[r].user] = "pending"]
  <2>1. made' = made + 1 /\ made' \in 0..MaxSubscriptions /\ made + 1 \in Subscriptions
    BY <1>10, AmountsAssumption DEF Begin, TypeOK
  <2>2. rec \in Request /\ rec.user \in Users
    <3>1. req[r] \in Request /\ req[r].user \in Users
      BY <1>10, Fields DEF Begin, Callers
    <3>2. (~req[r].downgrade /\ redemption[req[r].user] = "pending") \in BOOLEAN
      OBVIOUS
    <3> QED BY <2>1, <3>1, <3>2 DEF Request
  <2>3. Goto(r, rec)
    BY <1>10 DEF Begin
  <2> HIDE DEF rec
  <2>4. req' \in [Requests -> Request] /\ Callers'
    BY <2>2, <2>3, Gone, GoneTyped DEF Callers
  <2> QED BY <1>10, <2>1, <2>4 DEF Begin, TypeOK, couponVars
<1>11. ASSUME NEW r \in Requests, Commit(r)  PROVE TypeOK' /\ Callers'
  <2>1. CASE UNCHANGED <<redemption, live, payment, discounts>>
    BY <1>2, <1>11, <2>1 DEF Commit, TypeOK
  <2>2. CASE \E applies \in BOOLEAN : Paid(r, applies)
    <3> PICK applies \in BOOLEAN : Paid(r, applies)
      BY <2>2
    <3> DEFINE u == req[r].user
               s == req[r].new
               paid == [status |-> "SUCCEEDED",
                        amountCents |-> IF applies THEN Reduced ELSE Price, refundedCents |-> 0]
               all == (live[u] \ {req[r].current}) \cup {s}
    <3>1. paid \in Payment
      BY AmountsAssumption DEF Payment, Reduced
    <3>2. u \in Users /\ s \in Subscriptions
      BY <1>11, AmountsAssumption DEF Commit, Callers, Numbered, TypeOK
    <3>3. all \in SUBSET Subscriptions
      BY <3>2 DEF TypeOK
    <3>4. /\ live' = [live EXCEPT ![u] = all]
          /\ payment' = payment \/ payment' = [payment EXCEPT ![s] = paid]
      BY DEF Paid
    <3> HIDE DEF paid, all
    <3>5. live' \in [Users -> SUBSET Subscriptions] /\ payment' \in [Subscriptions -> Payment \cup {NoPayment}]
      BY <3>1, <3>3, <3>4 DEF TypeOK
    <3>6. discounts' \in [Users -> Nat]
      BY <3>2 DEF Paid, TypeOK
    <3>7. redemption' \in [Users -> {"none", "pending", "used"}]
      BY <3>2 DEF Paid, TypeOK
    <3> QED BY <1>2, <1>11, <3>5, <3>6, <3>7 DEF Commit, TypeOK
  <2> QED BY <1>11, <2>1, <2>2, Committed
<1>12. ASSUME NEW u \in Users, Cancel(u)  PROVE TypeOK' /\ Callers'
  BY <1>12 DEF Cancel, TypeOK, Callers, couponVars
<1>13. ASSUME NEW r \in Requests, NEW s \in Subscriptions, RefundRead(r, s)  PROVE TypeOK' /\ Callers'
  <2> DEFINE remaining == payment[s].amountCents - payment[s].refundedCents
  <2>1. PICK n \in 1..remaining :
          Goto(r, [IdleRequest EXCEPT !.at = "refunding", !.current = s, !.cents = n,
                     !.remaining = remaining, !.status = payment[s].status])
    BY <1>13 DEF RefundRead
  <2> DEFINE rec == [IdleRequest EXCEPT !.at = "refunding", !.current = s, !.cents = n,
                       !.remaining = remaining, !.status = payment[s].status]
  <2>2. payment[s] \in Payment
    BY <1>13 DEF RefundRead, TypeOK, NoPayment
  <2>3. remaining \in Nat /\ n \in Nat /\ payment[s].status \in {"SUCCEEDED", "REFUNDED"}
    BY <1>13, <2>1, <2>2 DEF RefundRead, Payment
  <2>4. rec \in Request /\ rec.at = "refunding"
    BY <2>3 DEF IdleRequest, Request
  <2>5. Goto(r, rec)
    BY <2>1
  <2> HIDE DEF rec, remaining
  <2>6. req' \in [Requests -> Request] /\ Callers'
    BY <2>4, <2>5, Gone, GoneTyped DEF Callers
  <2> QED BY <1>13, <2>6 DEF RefundRead, TypeOK, couponVars, subscriptionVars
<1>14. ASSUME NEW r \in Requests, Refund(r)  PROVE TypeOK' /\ Callers'
  <2> DEFINE s == req[r].current
         rec == [status |-> IF req[r].cents = req[r].remaining THEN "REFUNDED" ELSE req[r].status,
                 amountCents |-> payment[s].amountCents,
                 refundedCents |-> payment[s].refundedCents + req[r].cents]
  <2>1. s \in Subscriptions => payment[s].refundedCents \in Nat /\ payment[s].amountCents \in Nat
    BY DEF TypeOK, Payment, NoPayment
  <2>3. s \in Subscriptions => rec \in Payment
    BY <2>1, Fields DEF Payment
  <2>4. payment' = [payment EXCEPT ![s] = rec]
    BY <1>14 DEF Refund
  <2> HIDE DEF rec, s
  <2>2. payment' \in [Subscriptions -> Payment \cup {NoPayment}]
    BY <2>3, <2>4 DEF TypeOK
  <2> QED BY <1>2, <1>14, <2>2 DEF Refund, TypeOK, couponVars
<1>15. ASSUME NEW r \in Requests, Fail(r)  PROVE TypeOK' /\ Callers'
  BY <1>2, <1>15 DEF Fail, TypeOK, couponVars, subscriptionVars
<1> QED BY <1>1, <1>4, <1>5, <1>6, <1>7, <1>8, <1>9, <1>10, <1>11, <1>12, <1>13, <1>14, <1>15 DEF Next
-----------------------------------------------------------------------------
(* What the steps of subscribeToPlan and refundPayment leave in the request *)

LEMMA SubscribeReads ==
  ASSUME TypeOK, NEW r \in Requests, NEW u \in Users, SubscribeRead(r, u)
  PROVE  /\ req[r].at = "idle" /\ req'[r].at = "subscribing" /\ req'[r].user = u
         /\ \A q \in Requests : q # r => req'[q] = req[q]
         /\ split' = IF Apart(u, req'[r].current) THEN split \cup {u} ELSE split
         /\ UNCHANGED <<couponVars, live, made, payment, discounts>>
<1>1. PICK c \in Current(u), d \in BOOLEAN :
        /\ Goto(r, [IdleRequest EXCEPT !.at = "subscribing", !.user = u, !.current = c, !.downgrade = d])
        /\ split' = IF Apart(u, c) THEN split \cup {u} ELSE split
  BY DEF SubscribeRead
<1> DEFINE rec == [IdleRequest EXCEPT !.at = "subscribing", !.user = u, !.current = c, !.downgrade = d]
<1>2. rec.at = "subscribing" /\ rec.user = u /\ rec.current = c
  BY DEF IdleRequest
<1>3. Goto(r, rec)
  BY <1>1
<1> HIDE DEF rec
<1>4. req'[r] = rec /\ \A q \in Requests : q # r => req'[q] = req[q]
  BY <1>3, Gone
<1> QED BY <1>1, <1>2, <1>4 DEF SubscribeRead

LEMMA Begins ==
  ASSUME TypeOK, NEW r \in Requests, Begin(r)
  PROVE  /\ req[r].at = "subscribing" /\ req'[r].at = "paying" /\ req'[r].user = req[r].user
         /\ req'[r].current = req[r].current /\ ~Locked(req[r].current)
         /\ req'[r].new = made + 1 /\ made' = made + 1 /\ made < MaxSubscriptions
         /\ req'[r].found => redemption[req[r].user] = "pending"
         /\ \A q \in Requests : q # r => req'[q] = req[q]
         /\ UNCHANGED <<couponVars, live, payment, discounts, split>>
<1> DEFINE rec == [req[r] EXCEPT !.at = "paying", !.new = made + 1,
                     !.found = ~req[r].downgrade /\ redemption[req[r].user] = "pending"]
<1>1. /\ rec.at = "paying" /\ rec.user = req[r].user /\ rec.current = req[r].current /\ rec.new = made + 1
      /\ rec.found = (~req[r].downgrade /\ redemption[req[r].user] = "pending")
  BY Fields DEF Request
<1>2. Goto(r, rec)
  BY DEF Begin
<1> HIDE DEF rec
<1>3. req'[r] = rec /\ \A q \in Requests : q # r => req'[q] = req[q]
  BY <1>2, Gone
<1> QED BY <1>1, <1>3 DEF Begin

LEMMA RefundReads ==
  ASSUME TypeOK, NEW r \in Requests, NEW s \in Subscriptions, RefundRead(r, s)
  PROVE  /\ req'[r].at = "refunding" /\ req'[r].current = s
         /\ req'[r].remaining = payment[s].amountCents - payment[s].refundedCents
         /\ req'[r].status = payment[s].status
         /\ payment[s].refundedCents < payment[s].amountCents
         /\ \A q \in Requests : q # r => req'[q] = req[q]
         /\ UNCHANGED <<couponVars, subscriptionVars>>
<1>1. PICK n : Goto(r, [IdleRequest EXCEPT !.at = "refunding", !.current = s, !.cents = n,
                          !.remaining = payment[s].amountCents - payment[s].refundedCents,
                          !.status = payment[s].status])
  BY DEF RefundRead
<1> DEFINE rec == [IdleRequest EXCEPT !.at = "refunding", !.current = s, !.cents = n,
                     !.remaining = payment[s].amountCents - payment[s].refundedCents,
                     !.status = payment[s].status]
<1>2. /\ rec.at = "refunding" /\ rec.current = s /\ rec.status = payment[s].status
      /\ rec.remaining = payment[s].amountCents - payment[s].refundedCents
  BY DEF IdleRequest
<1>3. Goto(r, rec)
  BY <1>1
<1> HIDE DEF rec
<1>4. req'[r] = rec /\ \A q \in Requests : q # r => req'[q] = req[q]
  BY <1>3, Gone
<1> QED BY <1>2, <1>4 DEF RefundRead
-----------------------------------------------------------------------------
(* The count and the limit *)

LEMMA CountStep ==
  ASSUME TypeOK, Callers, Next, coupon.redeemedCount = Cardinality(Redeemers)
  PROVE  coupon'.redeemedCount = Cardinality(Redeemers')
<1>1. ASSUME UNCHANGED <<coupon, redemption>>
      PROVE  coupon'.redeemedCount = Cardinality(Redeemers')
  BY <1>1 DEF Redeemers
<1>2. ASSUME NEW r \in Requests, Redeem(r)  PROVE coupon'.redeemedCount = Cardinality(Redeemers')
  BY <1>1, <1>2, Redeemed, CountedAdds
<1>3. ASSUME NEW r \in Requests, Grant(r)  PROVE coupon'.redeemedCount = Cardinality(Redeemers')
  BY <1>1, <1>3, Granted, CountedAdds
<1>4. CASE UpdateCoupon
  <2>1. coupon'.redeemedCount = coupon.redeemedCount /\ redemption' = redemption
    BY <1>4 DEF UpdateCoupon, TypeOK, Coupon
  <2> QED BY <2>1 DEF Redeemers
<1>5. ASSUME NEW r \in Requests, Delete(r)  PROVE coupon'.redeemedCount = Cardinality(Redeemers')
  <2>1. Redeemers' = {} /\ coupon'.redeemedCount = 0
    BY <1>5 DEF Delete, Redeemers, NoCoupon
  <2> QED BY <2>1, FS_EmptySet
<1>6. ASSUME NEW r \in Requests, Commit(r)  PROVE coupon'.redeemedCount = Cardinality(Redeemers')
  <2>1. Redeemers' = Redeemers /\ coupon' = coupon
    BY <1>6, Committed DEF Commit, Paid, Redeemers, TypeOK
  <2> QED BY <2>1
<1>7. ASSUME NEW u \in Users, Cancel(u)  PROVE coupon'.redeemedCount = Cardinality(Redeemers')
  BY <1>1, <1>7 DEF Cancel, couponVars
<1> QED BY <1>1, <1>2, <1>3, <1>4, <1>5, <1>6, <1>7, CouponKept DEF Next, couponVars

LEMMA LimitStep ==
  ASSUME TypeOK, Callers, Next, WithinLimit, LimitsRead
  PROVE  WithinLimit' /\ LimitsRead'
<1> DEFINE Good == WithinLimit' /\ LimitsRead'
<1>0. coupon.redeemedCount \in Nat /\ coupon.maxRedemptions \in Nat /\ peak \in Nat /\ granted \in Nat
  BY DEF TypeOK, Coupon
<1>1. ASSUME UNCHANGED couponVars, NEW r \in Requests,
             \A q \in Requests : q # r => req'[q] = req[q],
             req'[r].at = "redeeming" => req'[r].limit = coupon.maxRedemptions
      PROVE  Good
  BY <1>1 DEF WithinLimit, LimitsRead, couponVars
<1>2. ASSUME NEW r \in Requests, End(r)
      PROVE  req'[r].at = "idle" /\ \A q \in Requests : q # r => req'[q] = req[q]
  BY <1>2, Gone, IdleTyped DEF End
<1>3. ASSUME NEW r \in Requests, NEW u \in Users, NEW a \in {"redeeming", "granting"}, RedeemRead(r, u, a)
      PROVE  Good
  <2> DEFINE rec == [IdleRequest EXCEPT !.at = a, !.user = u,
                       !.limit = IF a = "redeeming" THEN coupon.maxRedemptions ELSE 0]
  <2>1. rec.at = a /\ (a = "redeeming" => rec.limit = coupon.maxRedemptions)
    BY DEF IdleRequest
  <2>2. Goto(r, rec)
    BY <1>3 DEF RedeemRead
  <2> HIDE DEF rec
  <2> QED BY <1>1, <1>3, <2>1, <2>2, Gone, CouponKept
<1>4. ASSUME NEW r \in Requests, Redeem(r)  PROVE Good
  <2>1. req'[r].at = "idle" /\ (\A q \in Requests : q # r => req'[q] = req[q]) /\ UNCHANGED <<peak, granted>>
    BY <1>2, <1>4 DEF Redeem
  <2>2. LimitsRead'
    BY <1>4, <2>1, Redeemed, CountedAdds DEF LimitsRead
  <2>3. coupon'.redeemedCount <= peak + granted
    <3>1. CASE UNCHANGED coupon
      BY <3>1 DEF WithinLimit
    <3>2. CASE /\ coupon'.redeemedCount = coupon.redeemedCount + 1 /\ coupon.redeemedCount < req[r].limit
      <4>1. req[r].limit <= peak /\ req[r].limit \in Nat
        BY <1>4, Fields DEF Redeem, LimitsRead
      <4> QED BY <1>0, <3>2, <4>1
    <3> QED BY <1>4, <3>1, <3>2, Redeemed, CountedAdds
  <2> QED BY <2>1, <2>2, <2>3 DEF WithinLimit
<1>5. ASSUME NEW r \in Requests, Grant(r)  PROVE Good
  <2>1. req'[r].at = "idle" /\ (\A q \in Requests : q # r => req'[q] = req[q]) /\ peak' = peak
    BY <1>2, <1>5 DEF Grant
  <2>2. LimitsRead'
    BY <1>5, <2>1, Granted, CountedAdds DEF LimitsRead
  <2>3. \/ UNCHANGED <<coupon, granted>>
        \/ granted' = granted + 1 /\ coupon'.redeemedCount = coupon.redeemedCount + 1
    BY <1>5, Granted, CountedAdds
  <2> QED BY <1>0, <2>1, <2>2, <2>3 DEF WithinLimit
<1>6. CASE UpdateCoupon
  <2>1. PICK n \in Limits, b \in BOOLEAN :
          /\ coupon' = [coupon EXCEPT !.maxRedemptions = n, !.isActive = b]
          /\ peak' = IF n > peak THEN n ELSE peak
    BY <1>6 DEF UpdateCoupon
  <2>2. coupon'.redeemedCount = coupon.redeemedCount /\ coupon'.maxRedemptions = n /\ n \in Nat
    BY <2>1, AmountsAssumption DEF TypeOK, Coupon
  <2>3. peak' \in Nat /\ peak <= peak' /\ n <= peak' /\ UNCHANGED <<req, granted>>
    BY <1>0, <1>6, <2>1, <2>2 DEF UpdateCoupon
  <2>4. WithinLimit'
    BY <1>0, <2>2, <2>3 DEF WithinLimit
  <2>5. \A r \in Requests : req[r].at = "redeeming" => req[r].limit <= peak'
    BY <1>0, <2>3, Fields DEF LimitsRead
  <2> QED BY <2>2, <2>3, <2>4, <2>5 DEF LimitsRead
<1>7. ASSUME NEW r \in Requests, DeleteRead(r)  PROVE Good
  BY <1>1, <1>7, Gone, CouponKept DEF DeleteRead, IdleRequest
<1>8. ASSUME NEW r \in Requests, Delete(r)  PROVE Good
  <2>1. req'[r].at = "idle" /\ (\A q \in Requests : q # r => req'[q] = req[q]) /\ UNCHANGED <<peak, granted>>
    BY <1>2, <1>8 DEF Delete
  <2>2. coupon'.redeemedCount = 0 /\ coupon'.maxRedemptions = 0
    BY <1>8 DEF Delete, NoCoupon
  <2> QED BY <1>0, <2>1, <2>2 DEF WithinLimit, LimitsRead
<1>9. ASSUME NEW r \in Requests, NEW u \in Users, SubscribeRead(r, u)  PROVE Good
  BY <1>1, <1>9, SubscribeReads, CouponKept
<1>10. ASSUME NEW r \in Requests, Begin(r)  PROVE Good
  BY <1>1, <1>10, Begins, CouponKept
<1>11. ASSUME NEW r \in Requests, Commit(r)  PROVE Good
  BY <1>2, <1>11 DEF Commit, WithinLimit, LimitsRead
<1>12. ASSUME NEW u \in Users, Cancel(u)  PROVE Good
  BY <1>12 DEF Cancel, WithinLimit, LimitsRead, couponVars
<1>13. ASSUME NEW r \in Requests, NEW s \in Subscriptions, RefundRead(r, s)  PROVE Good
  BY <1>1, <1>13, RefundReads, CouponKept
<1>14. ASSUME NEW r \in Requests, Refund(r) \/ Fail(r)  PROVE Good
  BY <1>1, <1>2, <1>14, CouponKept DEF Refund, Fail
<1> QED BY <1>3, <1>4, <1>5, <1>6, <1>7, <1>8, <1>9, <1>10, <1>11, <1>12, <1>13, <1>14 DEF Next
-----------------------------------------------------------------------------
(* One discount *)

LEMMA SpentKept ==
  ASSUME Spent, UNCHANGED <<split, discounts>>,
         \A r \in Requests : Subscribing(r)' => req'[r] = req[r],
         \A u \in Users : Open(u)' => Open(u)
  PROVE  Spent'
<1> SUFFICES ASSUME NEW u \in Users \ split  PROVE Unspent(u)' /\ InTurn(u)'
  BY DEF Spent
<1>1. Unspent(u) /\ InTurn(u)
  BY DEF Spent
<1>2. Unspent(u)'
  BY <1>1 DEF Unspent, Subscribing
<1>3. InTurn(u)'
  BY <1>1 DEF InTurn, Subscribing
<1> QED BY <1>2, <1>3

LEMMA SpentStep ==
  ASSUME TypeOK, Callers, Next, Spent
  PROVE  Spent'
<1>1. ASSUME NEW r \in Requests, End(r)
      PROVE  req'[r].at = "idle" /\ \A q \in Requests : Subscribing(q)' => req'[q] = req[q]
  BY <1>1, Gone, IdleTyped DEF End, Subscribing
<1>2. ASSUME UNCHANGED couponVars  PROVE \A u \in Users : Open(u)' => Open(u)
  BY <1>2 DEF couponVars, Open
<1>3. ASSUME NEW u \in Users, redemption[u] = "none", coupon.exists,
             NEW paid \in BOOLEAN, Counted(u, paid)
      PROVE  \A v \in Users : Open(v)' => Open(v)
  BY <1>3, CountedAdds DEF Open
<1>4. ASSUME NEW r \in Requests, NEW u \in Users, NEW a \in {"redeeming", "granting"}, RedeemRead(r, u, a)
      PROVE  Spent'
  <2> DEFINE rec == [IdleRequest EXCEPT !.at = a, !.user = u,
                       !.limit = IF a = "redeeming" THEN coupon.maxRedemptions ELSE 0]
  <2>1. rec.at = a
    BY DEF IdleRequest
  <2>2. Goto(r, rec)
    BY <1>4 DEF RedeemRead
  <2> HIDE DEF rec
  <2>3. \A q \in Requests : Subscribing(q)' => req'[q] = req[q]
    BY <2>1, <2>2, Gone DEF Subscribing
  <2> QED BY <1>2, <1>4, <2>3, SpentKept, CouponKept DEF RedeemRead, subscriptionVars
<1>5. ASSUME NEW r \in Requests, Redeem(r)  PROVE Spent'
  <2>1. \A u \in Users : Open(u)' => Open(u)
    <3>1. CASE UNCHANGED <<coupon, redemption>>
      BY <3>1 DEF Open
    <3> QED BY <1>3, <1>5, <3>1, Redeemed
  <2> QED BY <1>1, <1>5, <2>1, SpentKept DEF Redeem, subscriptionVars
<1>6. ASSUME NEW r \in Requests, Grant(r)  PROVE Spent'
  <2>1. \A u \in Users : Open(u)' => Open(u)
    <3>1. CASE UNCHANGED <<coupon, redemption>>
      BY <3>1 DEF Open
    <3> QED BY <1>3, <1>6, <3>1, Granted
  <2> QED BY <1>1, <1>6, <2>1, SpentKept DEF Grant, subscriptionVars
<1>7. CASE UpdateCoupon
  <2>1. PICK n \in Limits, b \in BOOLEAN : coupon' = [coupon EXCEPT !.maxRedemptions = n, !.isActive = b]
    BY <1>7 DEF UpdateCoupon
  <2>2. coupon'.exists = coupon.exists
    BY <2>1 DEF TypeOK, Coupon
  <2>3. \A u \in Users : Open(u)' => Open(u)
    BY <1>7, <2>2 DEF UpdateCoupon, Open
  <2> QED BY <1>7, <2>3, SpentKept DEF UpdateCoupon, subscriptionVars
<1>8. ASSUME NEW r \in Requests, DeleteRead(r)  PROVE Spent'
  <2>1. \A q \in Requests : Subscribing(q)' => req'[q] = req[q]
    BY <1>8, Gone DEF DeleteRead, IdleRequest, Subscribing
  <2> QED BY <1>2, <1>8, <2>1, SpentKept, CouponKept DEF DeleteRead, subscriptionVars
<1>9. ASSUME NEW r \in Requests, Delete(r)  PROVE Spent'
  <2>1. \A u \in Users : Open(u)' => Open(u)
    BY <1>9 DEF Delete, Open, NoCoupon
  <2> QED BY <1>1, <1>9, <2>1, SpentKept DEF Delete, subscriptionVars
<1>10. ASSUME NEW r \in Requests, NEW u \in Users, SubscribeRead(r, u)  PROVE Spent'
  <2> SUFFICES ASSUME NEW v \in Users \ split'  PROVE Unspent(v)' /\ InTurn(v)'
    BY DEF Spent
  <2>1. v \notin split /\ Unspent(v) /\ InTurn(v)
    BY <1>10, SubscribeReads DEF Spent
  <2>2. Unspent(v)'
    BY <1>10, <2>1, SubscribeReads DEF Unspent, Open, couponVars
  <2>3. InTurn(v)'
    <3>1. ASSUME v = u, NEW q \in Requests, q # r, Subscribing(q), req[q].user = u
          PROVE  req[q].current = req'[r].current /\ req'[r].current # None
      BY <1>10, <3>1, SubscribeReads DEF Apart, Subscribing
    <3> QED BY <1>10, <2>1, <3>1, SubscribeReads DEF InTurn, Subscribing
  <2> QED BY <2>2, <2>3
<1>11. ASSUME NEW r \in Requests, Begin(r)  PROVE Spent'
  <2> SUFFICES ASSUME NEW v \in Users \ split  PROVE Unspent(v)' /\ InTurn(v)'
    BY <1>11, Begins DEF Spent
  <2>1. Unspent(v) /\ InTurn(v)
    BY DEF Spent
  <2>2. Unspent(v)'
    BY <1>11, <2>1, Begins DEF Unspent, Open, couponVars
  <2>3. ASSUME NEW q \in Requests, q # r, req[q].at = "paying", req[q].user = v, req[r].user = v
        PROVE  FALSE
    BY <1>11, <2>1, <2>3, Begins DEF InTurn, Subscribing, Locked
  <2>4. InTurn(v)'
    BY <1>11, <2>1, <2>3, Begins DEF InTurn, Subscribing
  <2> QED BY <2>2, <2>4
<1>12. ASSUME NEW r \in Requests, Commit(r)  PROVE Spent'
  <2>1. CASE UNCHANGED <<redemption, live, payment, discounts>>
    BY <1>1, <1>12, <2>1, SpentKept DEF Commit, Open
  <2>2. CASE \E applies \in BOOLEAN : Paid(r, applies)
    <3> PICK applies \in BOOLEAN : Paid(r, applies)
      BY <2>2
    <3>1. CASE ~req[r].found
      <4>1. discounts' = discounts /\ redemption' = redemption
        BY <3>1 DEF Paid, TypeOK
      <4> QED BY <1>1, <1>12, <4>1, SpentKept DEF Commit, Open
    <3>2. CASE req[r].found
      <4> SUFFICES ASSUME NEW v \in Users \ split  PROVE Unspent(v)' /\ InTurn(v)'
        BY <1>12 DEF Spent, Commit
      <4>1. Unspent(v) /\ InTurn(v)
        BY DEF Spent
      <4>2. InTurn(v)'
        BY <1>1, <1>12, <4>1 DEF InTurn, Subscribing, Commit
      <4>3. CASE v # req[r].user
        <5>1. discounts'[v] = discounts[v] /\ redemption'[v] = redemption[v] /\ coupon' = coupon
          BY <1>12, <4>3 DEF Paid, Commit, TypeOK
        <5> QED BY <1>1, <1>12, <4>1, <4>2, <5>1 DEF Unspent, Open, Subscribing, Commit
      <4>4. CASE v = req[r].user
        <5>1. discounts[v] = 0
          BY <1>12, <3>2, <4>1, <4>4 DEF Unspent, Commit
        <5>2. discounts'[v] <= 1 /\ redemption'[v] = "used"
          BY <3>2, <4>4, <5>1 DEF Paid, TypeOK
        <5>3. \A q \in Requests : ~(req'[q].at = "paying" /\ req'[q].user = v)
          BY <1>1, <1>12, <4>1, <4>4 DEF InTurn, Subscribing, Commit
        <5> QED BY <4>2, <5>2, <5>3 DEF Unspent, Open
      <4> QED BY <4>3, <4>4
    <3> QED BY <3>1, <3>2
  <2> QED BY <1>12, <2>1, <2>2, Committed
<1>13. ASSUME NEW u \in Users, Cancel(u)  PROVE Spent'
  BY <1>2, <1>13, SpentKept DEF Cancel
<1>14. ASSUME NEW r \in Requests, NEW s \in Subscriptions, RefundRead(r, s)  PROVE Spent'
  <2>1. \A q \in Requests : Subscribing(q)' => req'[q] = req[q]
    BY <1>14, RefundReads DEF Subscribing
  <2> QED BY <1>2, <1>14, <2>1, SpentKept, CouponKept DEF RefundRead, subscriptionVars
<1>15. ASSUME NEW r \in Requests, Refund(r) \/ Fail(r)  PROVE Spent'
  BY <1>1, <1>2, <1>15, SpentKept, CouponKept DEF Refund, Fail, subscriptionVars
<1> QED BY <1>4, <1>5, <1>6, <1>7, <1>8, <1>9, <1>10, <1>11, <1>12, <1>13, <1>14, <1>15 DEF Next
-----------------------------------------------------------------------------
(* Payments *)

\* Steps that pay and refund nothing, and start no transaction.
LEMMA PaymentsKept ==
  ASSUME Numbered, Refunds, UNCHANGED <<made, payment>>,
         \A r \in Requests : req'[r].at \in {"paying", "refunding"} => req'[r] = req[r]
  PROVE  Numbered' /\ Refunds'
BY DEF Numbered, Refunds, RefundedInFull, Refunding, Covered, Subscriptions

\* What a payment is when it has been made.
LEMMA Made ==
  ASSUME TypeOK, NEW s \in Subscriptions
  PROVE  /\ payment[s].refundedCents \in Nat /\ payment[s].amountCents \in Nat
         /\ payment[s].status = "NONE" <=> payment[s] = NoPayment
BY DEF TypeOK, Payment, NoPayment

LEMMA CommitPays ==
  ASSUME TypeOK, Numbered, Refunds, NEW r \in Requests, Commit(r)
  PROVE  Numbered' /\ Refunds'
<1> DEFINE n == req[r].new
<1>1. /\ n \in 1..made /\ payment[n] = NoPayment /\ n \in Subscriptions
      /\ made \in Nat /\ made' = made /\ made <= MaxSubscriptions
  BY AmountsAssumption DEF Commit, Numbered, TypeOK, Subscriptions
<1>2. req'[r].at = "idle" /\ \A q \in Requests : q # r => req'[q] = req[q]
  BY Gone, IdleTyped DEF Commit, End
<1>3. CASE payment' = payment
  BY <1>1, <1>2, <1>3, PaymentsKept
<1>4. CASE payment' # payment
  <2>1. PICK cents \in Nat :
          payment' = [payment EXCEPT ![n] = [status |-> "SUCCEEDED", amountCents |-> cents, refundedCents |-> 0]]
    BY <1>4, Committed, AmountsAssumption DEF Paid, Reduced
  <2>2. /\ \A s \in Subscriptions : s # n => payment'[s] = payment[s]
        /\ payment'[n].status = "SUCCEEDED"
    BY <1>1, <2>1 DEF TypeOK
  <2>3. ASSUME NEW q \in Requests, q # r, req[q].at = "paying"  PROVE req[q].new # n
    BY <2>3 DEF Numbered, Commit
  <2>4. Numbered'
    <3>1. \A s \in Subscriptions : s > made' => payment'[s] = NoPayment
      BY <1>1, <2>2 DEF Numbered
    <3>2. ASSUME NEW q \in Requests, req'[q].at = "paying"
          PROVE  req'[q].new \in 1..made' /\ payment'[req'[q].new] = NoPayment
      <4>1. q # r /\ req'[q] = req[q] /\ req[q].at = "paying"
        BY <1>2, <3>2
      <4>2. req[q].new \in 1..made /\ payment[req[q].new] = NoPayment /\ req[q].new # n
        BY <2>3, <4>1 DEF Numbered
      <4>3. req[q].new \in Subscriptions
        BY <1>1, <4>2, AmountsAssumption DEF Subscriptions
      <4> QED BY <1>1, <2>2, <4>1, <4>2, <4>3
    <3>3. \A p, q \in Requests :
            p # q /\ req'[p].at = "paying" /\ req'[q].at = "paying" => req'[p].new # req'[q].new
      BY <1>2 DEF Numbered
    <3> QED BY <3>1, <3>2, <3>3 DEF Numbered, Subscriptions
  <2>5. RefundedInFull'
    BY <2>2 DEF Refunds, RefundedInFull, Subscriptions
  <2>6. ASSUME NEW q \in Requests, req'[q].at = "refunding"  PROVE Refunding(q)'
    <3>1. req'[q] = req[q] /\ req[q].at = "refunding" /\ Refunding(q)
      BY <1>2, <2>6 DEF Refunds
    <3>2. req[q].current # n /\ payment'[req[q].current] = payment[req[q].current]
      BY <1>1, <2>2, <3>1 DEF Refunding
    <3> QED BY <3>1, <3>2 DEF Refunding, Covered, Subscriptions
  <2> QED BY <2>4, <2>5, <2>6 DEF Refunds, Refunding
<1> QED BY <1>3, <1>4

LEMMA RefundPays ==
  ASSUME TypeOK, Numbered, Refunds, NEW r \in Requests, Refund(r)
  PROVE  Numbered' /\ Refunds'
<1> DEFINE c == req[r].current
           rec == [status |-> IF req[r].cents = req[r].remaining THEN "REFUNDED" ELSE req[r].status,
                   amountCents |-> payment[c].amountCents,
                   refundedCents |-> payment[c].refundedCents + req[r].cents]
<1>1. /\ c \in Subscriptions /\ payment[c] # NoPayment
      /\ payment[c].amountCents <= payment[c].refundedCents + req[r].remaining
      /\ req[r].status = "REFUNDED" => Covered(c)
  BY DEF Refund, Refunds, Refunding
<1>2. req'[r].at = "idle" /\ \A q \in Requests : q # r => req'[q] = req[q]
  BY Gone, IdleTyped DEF Refund, End
<1>3. payment' = [payment EXCEPT ![c] = rec]
  BY DEF Refund
<1>4. /\ rec.amountCents = payment[c].amountCents
      /\ rec.refundedCents = payment[c].refundedCents + req[r].cents
      /\ rec.status = IF req[r].cents = req[r].remaining THEN "REFUNDED" ELSE req[r].status
  OBVIOUS
<1>5. rec.status # "NONE"
  BY <1>4, Fields
<1>6. rec # NoPayment
  BY <1>5 DEF NoPayment
<1> HIDE DEF rec, c
<1>7. payment'[c] = rec /\ \A s \in Subscriptions : s # c => payment'[s] = payment[s]
  BY <1>1, <1>3 DEF TypeOK
<1>8. /\ payment[c].refundedCents \in Nat /\ payment[c].amountCents \in Nat
      /\ req[r].cents \in Nat /\ req[r].remaining \in Nat
  BY <1>1, Made, Fields
<1>9. rec.status = "REFUNDED" => rec.refundedCents >= rec.amountCents
  BY <1>1, <1>4, <1>8 DEF Covered
<1>10. Numbered'
  <2>1. \A s \in Subscriptions : payment[s] = NoPayment => payment'[s] = NoPayment
    BY <1>1, <1>7
  <2>2. made' = made /\ made \in Nat /\ made <= MaxSubscriptions
    BY AmountsAssumption DEF Refund, TypeOK
  <2>3. ASSUME NEW q \in Requests, req'[q].at = "paying"
        PROVE  req'[q].new \in 1..made' /\ payment'[req'[q].new] = NoPayment
    <3>1. req[q].at = "paying" /\ req'[q] = req[q] /\ req[q].new \in 1..made /\ payment[req[q].new] = NoPayment
      BY <1>2, <2>3 DEF Numbered
    <3>2. req[q].new \in Subscriptions
      BY <2>2, <3>1, AmountsAssumption DEF Subscriptions
    <3> QED BY <2>1, <2>2, <3>1, <3>2
  <2>4. \A p, q \in Requests :
          p # q /\ req'[p].at = "paying" /\ req'[q].at = "paying" => req'[p].new # req'[q].new
    BY <1>2 DEF Numbered
  <2>5. \A s \in Subscriptions : s > made' => payment'[s] = NoPayment
    BY <2>1, <2>2 DEF Numbered
  <2> QED BY <2>3, <2>4, <2>5 DEF Numbered, Subscriptions
<1>11. RefundedInFull'
  BY <1>7, <1>9 DEF Refunds, RefundedInFull, Subscriptions
<1>12. ASSUME NEW q \in Requests, req'[q].at = "refunding"  PROVE Refunding(q)'
  <2>1. q # r /\ req'[q] = req[q] /\ req[q].at = "refunding" /\ Refunding(q)
    BY <1>2, <1>12 DEF Refunds
  <2>2. CASE req[q].current # c
    BY <1>7, <2>1, <2>2 DEF Refunding, Covered, Subscriptions
  <2>3. CASE req[q].current = c
    <3>1. req[q].remaining \in Nat
      BY Fields
    <3>2. payment[c].amountCents <= payment[c].refundedCents + req[q].remaining
      BY <2>1, <2>3 DEF Refunding
    <3>3. rec.amountCents <= rec.refundedCents + req[q].remaining
      BY <1>4, <1>8, <3>1, <3>2
    <3>4. req[q].status = "REFUNDED" => rec.refundedCents >= rec.amountCents
      BY <1>4, <1>8, <2>1, <2>3 DEF Refunding, Covered
    <3> QED BY <1>1, <1>6, <1>7, <2>1, <2>3, <3>3, <3>4 DEF Refunding, Covered, Subscriptions
  <2> QED BY <2>2, <2>3
<1> QED BY <1>10, <1>11, <1>12 DEF Refunds, Refunding

LEMMA PaymentStep ==
  ASSUME TypeOK, Numbered, Refunds, Next
  PROVE  Numbered' /\ Refunds'
<1> DEFINE Good == Numbered' /\ Refunds'
<1>1. ASSUME NEW r \in Requests, End(r)
      PROVE  \A q \in Requests : req'[q].at \in {"paying", "refunding"} => req'[q] = req[q]
  BY <1>1, Gone, IdleTyped DEF End
<1>2. ASSUME NEW r \in Requests, NEW u \in Users, NEW a \in {"redeeming", "granting"}, RedeemRead(r, u, a)
      PROVE  Good
  <2> DEFINE rec == [IdleRequest EXCEPT !.at = a, !.user = u,
                       !.limit = IF a = "redeeming" THEN coupon.maxRedemptions ELSE 0]
  <2>1. rec.at = a
    BY DEF IdleRequest
  <2>2. Goto(r, rec)
    BY <1>2 DEF RedeemRead
  <2> HIDE DEF rec
  <2>3. \A q \in Requests : req'[q].at \in {"paying", "refunding"} => req'[q] = req[q]
    BY <2>1, <2>2, Gone
  <2> QED BY <1>2, <2>3, PaymentsKept DEF RedeemRead, subscriptionVars
<1>3. ASSUME NEW r \in Requests, Redeem(r) \/ Grant(r) \/ Delete(r) \/ Fail(r)  PROVE Good
  <2>1. End(r) /\ UNCHANGED <<made, payment>>
    BY <1>3 DEF Redeem, Grant, Delete, Fail, subscriptionVars
  <2> QED BY <1>1, <2>1, PaymentsKept
<1>4. ASSUME UpdateCoupon \/ \E u \in Users : Cancel(u)  PROVE Good
  BY <1>4, PaymentsKept DEF UpdateCoupon, Cancel, subscriptionVars
<1>5. ASSUME NEW r \in Requests, DeleteRead(r)  PROVE Good
  <2>1. \A q \in Requests : req'[q].at \in {"paying", "refunding"} => req'[q] = req[q]
    BY <1>5, Gone DEF DeleteRead, IdleRequest
  <2> QED BY <1>5, <2>1, PaymentsKept DEF DeleteRead, subscriptionVars
<1>6. ASSUME NEW r \in Requests, NEW u \in Users, SubscribeRead(r, u)  PROVE Good
  <2>1. \A q \in Requests : req'[q].at \in {"paying", "refunding"} => req'[q] = req[q]
    BY <1>6, SubscribeReads
  <2> QED BY <1>6, <2>1, PaymentsKept, SubscribeReads
<1>7. ASSUME NEW r \in Requests, Begin(r)  PROVE Good
  <2>1. made \in Nat /\ made + 1 \in Subscriptions /\ made' = made + 1 /\ payment' = payment
    BY <1>7, Begins, AmountsAssumption DEF TypeOK, Subscriptions
  <2>2. payment[made + 1] = NoPayment
    BY <2>1 DEF Numbered
  <2>3. Numbered'
    <3>1. ASSUME NEW q \in Requests, req'[q].at = "paying"
          PROVE  /\ req'[q].new \in 1..made' /\ payment'[req'[q].new] = NoPayment
                 /\ q # r => req'[q].new \in 1..made
      <4>1. CASE q = r
        BY <1>7, <2>1, <2>2, <4>1, Begins
      <4>2. CASE q # r
        <5>1. req'[q] = req[q] /\ req[q].new \in 1..made /\ payment[req[q].new] = NoPayment
          BY <1>7, <3>1, <4>2, Begins DEF Numbered
        <5> QED BY <2>1, <5>1
      <4> QED BY <4>1, <4>2
    <3>2. ASSUME NEW p \in Requests, NEW q \in Requests, p # q, req'[p].at = "paying", req'[q].at = "paying"
          PROVE  req'[p].new # req'[q].new
      <4>1. CASE p # r /\ q # r
        BY <1>7, <3>2, <4>1, Begins DEF Numbered
      <4>2. CASE p = r \/ q = r
        BY <1>7, <2>1, <3>1, <3>2, <4>2, Begins
      <4> QED BY <4>1, <4>2
    <3>3. \A s \in Subscriptions : s > made' => payment'[s] = NoPayment
      BY <2>1 DEF Numbered, Subscriptions
    <3> QED BY <3>1, <3>2, <3>3 DEF Numbered, Subscriptions
  <2>4. Refunds'
    BY <1>7, <2>1, Begins DEF Refunds, RefundedInFull, Refunding, Covered, Subscriptions
  <2> QED BY <2>3, <2>4
<1>8. ASSUME NEW r \in Requests, NEW s \in Subscriptions, RefundRead(r, s)  PROVE Good
  <2>1. /\ payment[s].refundedCents \in Nat /\ payment[s].amountCents \in Nat
        /\ payment[s].refundedCents < payment[s].amountCents /\ payment' = payment /\ made' = made
    BY <1>8, Made, RefundReads DEF subscriptionVars
  <2>2. payment[s] # NoPayment
    BY <2>1 DEF NoPayment
  <2>3. Numbered'
    BY <1>8, <2>1, RefundReads DEF Numbered, Subscriptions
  <2>4. payment[s].status # "REFUNDED"
    BY <2>1 DEF Refunds, RefundedInFull
  <2>5. Refunding(r)'
    BY <1>8, <2>1, <2>2, <2>4, RefundReads DEF Refunding, Covered, Subscriptions
  <2>6. ASSUME NEW q \in Requests, q # r  PROVE Refunding(q)'
    BY <1>8, <2>1, <2>6, RefundReads DEF Refunds, Refunding, Covered, Subscriptions
  <2> QED BY <2>1, <2>3, <2>5, <2>6 DEF Refunds, RefundedInFull, Subscriptions
<1> QED BY <1>2, <1>3, <1>4, <1>5, <1>6, <1>7, <1>8, CommitPays, RefundPays DEF Next
-----------------------------------------------------------------------------
(* The invariant *)

LEMMA InvInit == Init => Inv
<1> SUFFICES ASSUME Init PROVE Inv
  OBVIOUS
<1>1. TypeOK /\ Callers
  BY TypeInit
<1>2. \A r \in Requests : req[r].at = "idle"
  BY IdleTyped DEF Init
<1>3. CountIsExact
  <2>1. Redeemers = {} /\ coupon.redeemedCount = 0
    BY DEF Init, Redeemers
  <2> QED BY <1>1, <2>1, FS_EmptySet DEF CountIsExact
<1>4. WithinLimit /\ LimitsRead
  <2>1. coupon.redeemedCount = 0 /\ coupon.maxRedemptions = peak /\ peak \in Nat /\ granted = 0
    BY AmountsAssumption DEF Init
  <2> QED BY <1>2, <2>1 DEF WithinLimit, LimitsRead
<1>5. Spent
  BY <1>2 DEF Init, Spent, Unspent, InTurn, Subscribing
<1>6. Numbered /\ Refunds
  BY <1>2 DEF Init, Numbered, Refunds, RefundedInFull, Refunding, NoPayment
<1> QED BY <1>1, <1>3, <1>4, <1>5, <1>6 DEF Inv

LEMMA InvNext == Inv /\ [Next]_vars => Inv'
<1> SUFFICES ASSUME Inv, [Next]_vars  PROVE Inv'
  OBVIOUS
<1>1. CASE Next
  <2>1. CountIsExact'
    BY <1>1, TypeStep, CountStep DEF Inv, CountIsExact
  <2> QED BY <1>1, <2>1, TypeStep, LimitStep, SpentStep, PaymentStep DEF Inv, CountIsExact
<1>2. CASE UNCHANGED vars
  <2>1. TypeOK' /\ Callers' /\ LimitsRead' /\ WithinLimit'
    BY <1>2 DEF vars, Inv, CountIsExact, TypeOK, Callers, LimitsRead, WithinLimit
  <2>2. CountIsExact'
    BY <1>2, <2>1 DEF vars, Inv, CountIsExact, Redeemers
  <2>3. Spent'
    BY <1>2, SpentKept DEF vars, Inv, Open
  <2>4. Numbered' /\ Refunds'
    BY <1>2, PaymentsKept DEF vars, Inv
  <2> QED BY <2>1, <2>2, <2>3, <2>4 DEF Inv
<1> QED BY <1>1, <1>2

THEOREM Invariance == Spec => []Inv
BY InvInit, InvNext, PTL DEF Spec

\* redeemedCount of the Coupon row is the number of its CouponRedemption rows.
THEOREM CountsAreExact == Spec => []CountIsExact
BY Invariance, PTL DEF Inv

\* updateMany of redeemCoupon keeps users within the largest limit the coupon has had.
THEOREM LimitIsKept == Spec => []WithinLimit
BY Invariance, PTL DEF Inv

\* Overlapping subscribeToPlan calls that replace the same subscription spend a redemption once.
THEOREM DiscountOnce == Spec => []OneDiscount
<1>1. Inv => OneDiscount
  BY DEF Inv, Spent, Unspent, OneDiscount
<1> QED BY <1>1, Invariance, PTL

\* Overlapping refundPayment calls make a payment REFUNDED only when it is.
THEOREM RefundsAreFull == Spec => []RefundedInFull
<1>1. Inv => RefundedInFull
  BY DEF Inv, Refunds
<1> QED BY <1>1, Invariance, PTL
-----------------------------------------------------------------------------
(* The coupon is a Voucher *)

\* The redemption and the discounts as the voucher sees them.
Seen == [u \in Users |-> IF u \in split THEN "void" ELSE redemption[u]]
Got == [u \in Users |-> IF u \in split THEN 0 ELSE discounts[u]]
ticketVars == <<coupon.exists, Seen, Got>>

\* Redemptions go with the coupon; one that a transaction is going to spend is pending.
Backed ==
  /\ ~coupon.exists => \A u \in Users : redemption[u] = "none"
  /\ \A r \in Requests :
       req[r].at = "paying" /\ req[r].found /\ req[r].user \notin split =>
         redemption[req[r].user] = "pending" \/ ~coupon.exists

\* A function of users that a step changes for one of them.
LEMMA ChangedFor ==
  ASSUME NEW f, NEW g, NEW u \in Users, NEW x,
         f = [v \in Users |-> f[v]], g = [v \in Users |-> g[v]],
         \A v \in Users : g[v] = IF v = u THEN x ELSE f[v]
  PROVE  g = [f EXCEPT ![u] = x]
OBVIOUS

LEMMA SeenFor ==
  /\ Seen = [v \in Users |-> Seen[v]] /\ Got = [v \in Users |-> Got[v]]
  /\ \A u \in Users \ split : Seen[u] = redemption[u] /\ Got[u] = discounts[u]
  /\ \A u \in Users \cap split : Seen[u] = "void" /\ Got[u] = 0
BY DEF Seen, Got

LEMMA NoTicket ==
  ASSUME coupon'.exists = coupon.exists, UNCHANGED <<redemption, discounts, split>>
  PROVE  UNCHANGED ticketVars
BY DEF ticketVars, Seen, Got

\* Steps that leave the coupon alone and start or end no spending.
LEMMA BackedKept ==
  ASSUME Backed, coupon'.exists = coupon.exists, UNCHANGED <<redemption, split>>,
         \A r \in Requests : req'[r].at = "paying" => req'[r] = req[r]
  PROVE  Backed'
BY DEF Backed

\* One more redemption, for a user who had none.
LEMMA TicketRedeemed ==
  ASSUME TypeOK, Backed, NEW u \in Users, redemption[u] = "none", coupon.exists,
         NEW paid \in BOOLEAN, Counted(u, paid), UNCHANGED <<discounts, split>>,
         \A r \in Requests : req'[r].at = "paying" => req'[r] = req[r]
  PROVE  Backed' /\ [Ticket!Next]_ticketVars
<1> DEFINE s == IF paid THEN "used" ELSE "pending"
<1>1. /\ coupon'.exists = coupon.exists
      /\ \A v \in Users : redemption'[v] = IF v = u THEN s ELSE redemption[v]
  BY CountedAdds DEF Counted, TypeOK
<1> HIDE DEF s
<1>2. Backed'
  <2>1. \A r \in Requests : req'[r].at = "paying" /\ req'[r].found /\ req'[r].user \notin split
                             => req'[r].user # u /\ req'[r].user \in Users \cup {None}
    BY Fields DEF Backed
  <2>2. ASSUME NEW r \in Requests, req'[r].at = "paying", req'[r].found, req'[r].user \notin split
        PROVE  redemption'[req'[r].user] = "pending"
    <3>1. req'[r] = req[r] /\ redemption[req[r].user] = "pending" /\ req[r].user # u
      BY <2>1, <2>2 DEF Backed
    <3>2. req[r].user \in Users => redemption'[req[r].user] = redemption[req[r].user]
      BY <1>1, <3>1
    <3>3. DOMAIN redemption = Users /\ redemption' = [redemption EXCEPT ![u] = IF paid THEN "used" ELSE "pending"]
      BY DEF Counted, TypeOK
    <3> QED BY <3>1, <3>3
  <2> QED BY <1>1, <2>2 DEF Backed
<1>3. CASE u \in split
  <2>1. Seen' = Seen /\ Got' = Got
    BY <1>1, <1>3 DEF Seen, Got
  <2> QED BY <1>1, <1>2, <2>1 DEF ticketVars
<1>4. CASE u \notin split
  <2>1. Got' = Got
    BY DEF Got
  <2>2. \A v \in Users : Seen'[v] = IF v = u THEN s ELSE Seen[v]
    BY <1>1, <1>4 DEF Seen
  <2>3. Seen' = [Seen EXCEPT ![u] = s]
    <3>1. Seen' = [v \in Users |-> Seen'[v]]
      BY DEF Seen
    <3> QED BY <2>2, <3>1, SeenFor, ChangedFor
  <2>4. Seen[u] = "none" /\ s \in {"pending", "used"}
    BY <1>4, SeenFor DEF s
  <2>5. Ticket!Redeem(u)
    BY <1>1, <2>1, <2>3, <2>4 DEF Ticket!Redeem, Seen, Got
  <2> QED BY <1>2, <2>5 DEF Ticket!Next
<1> QED BY <1>3, <1>4

\* The deletion closes the voucher.
LEMMA TicketClosed ==
  ASSUME TypeOK, NEW r \in Requests, Delete(r)
  PROVE  Backed' /\ Ticket!Next
<1>1. /\ coupon'.exists = FALSE /\ redemption' = [u \in Users |-> "none"] /\ UNCHANGED <<discounts, split>>
  BY DEF Delete, NoCoupon, subscriptionVars
<1>2. Backed'
  BY <1>1 DEF Backed
<1>3. Got' = Got /\ Seen' = [u \in Users |-> IF Seen[u] = "void" THEN "void" ELSE "none"]
  <2>1. \A u \in Users : redemption[u] # "void"
    BY DEF TypeOK
  <2> QED BY <1>1, <2>1 DEF Seen, Got
<1> QED BY <1>1, <1>2, <1>3 DEF Ticket!Next, Ticket!Close, Seen, Got

\* A subscribe call that runs beside one it is not in turn with: nothing is promised any more.
LEMMA TicketVoided ==
  ASSUME TypeOK, Backed, NEW r \in Requests, NEW u \in Users, SubscribeRead(r, u)
  PROVE  Backed' /\ [Ticket!Next]_ticketVars
<1>1. /\ UNCHANGED <<coupon, redemption, discounts>> /\ split' \in {split, split \cup {u}}
      /\ \A q \in Requests : req'[q].at = "paying" => req'[q] = req[q]
  <2>1. UNCHANGED <<coupon, redemption, discounts>> /\ split' \in {split, split \cup {u}}
    BY DEF SubscribeRead, couponVars
  <2> QED BY <2>1, SubscribeReads
<1>2. Backed'
  BY <1>1 DEF Backed
<1>3. CASE split' = split
  BY <1>1, <1>2, <1>3, NoTicket
<1>4. CASE split' = split \cup {u}
  <2>1. \A v \in Users : /\ Seen'[v] = IF v = u THEN "void" ELSE Seen[v]
                        /\ Got'[v] = IF v = u THEN 0 ELSE Got[v]
    BY <1>1, <1>4 DEF Seen, Got
  <2>2. Seen' = [v \in Users |-> Seen'[v]] /\ Got' = [v \in Users |-> Got'[v]]
    BY DEF Seen, Got
  <2>3. Seen' = [Seen EXCEPT ![u] = "void"] /\ Got' = [Got EXCEPT ![u] = 0]
    BY <2>1, <2>2, SeenFor, ChangedFor
  <2> QED BY <1>1, <1>2, <2>3 DEF Ticket!Next, Ticket!Void, Seen, Got
<1> QED BY <1>1, <1>3, <1>4

\* The transaction of subscribeToPlan spends what it found, once.
LEMMA TicketSpent ==
  ASSUME TypeOK, Callers, Spent, Backed, NEW r \in Requests, Commit(r)
  PROVE  Backed' /\ [Ticket!Next]_ticketVars
<1> DEFINE u == req[r].user
<1>1. /\ u \in Users /\ UNCHANGED <<coupon, split>> /\ req[r].at = "paying"
      /\ req'[r].at = "idle" /\ \A q \in Requests : q # r => req'[q] = req[q]
  BY Gone, IdleTyped DEF Commit, Callers, End
<1>2. CASE UNCHANGED <<redemption, discounts>>
  BY <1>1, <1>2, BackedKept, NoTicket
<1>3. CASE \E applies \in BOOLEAN : Paid(r, applies) /\ req[r].found
  <2>1. PICK applies \in BOOLEAN : Paid(r, applies)
    BY <1>3
  <2>2. /\ redemption' = [redemption EXCEPT ![u] = "used"] /\ redemption[u] # "none"
        /\ discounts' = [discounts EXCEPT ![u] = IF applies THEN @ + 1 ELSE @]
    BY <1>3, <2>1 DEF Paid
  <2>3. coupon.exists
    BY <1>1, <2>2 DEF Backed
  <2>4. \A v \in Users : redemption'[v] = IF v = u THEN "used" ELSE redemption[v]
    BY <1>1, <2>2 DEF TypeOK
  <2>5. \A v \in Users : discounts'[v] = IF v = u /\ applies THEN discounts[v] + 1 ELSE discounts[v]
    BY <1>1, <2>2 DEF TypeOK
  <2>6. \A q \in Requests : q # r /\ req[q].at = "paying" /\ u \notin split => req[q].user # u
    BY <1>1 DEF Spent, InTurn, Subscribing
  <2>7. Backed'
    <3>1. ASSUME NEW q \in Requests, req'[q].at = "paying", req'[q].found, req'[q].user \notin split'
          PROVE  redemption'[req'[q].user] = "pending"
      <4>1. q # r /\ req'[q] = req[q] /\ req[q].user \notin split
        BY <1>1, <3>1
      <4>2. redemption[req[q].user] = "pending" /\ req[q].user \in Users
        BY <2>3, <3>1, <4>1 DEF Backed, Callers
      <4>3. req[q].user # u
        BY <2>6, <3>1, <4>1
      <4> QED BY <2>4, <4>1, <4>2, <4>3
    <3> QED BY <1>1, <2>3, <3>1 DEF Backed
  <2>8. CASE u \in split
    <3>1. Seen' = Seen /\ Got' = Got
      BY <1>1, <2>4, <2>5, <2>8 DEF Seen, Got
    <3> QED BY <1>1, <2>7, <3>1 DEF ticketVars
  <2>9. CASE u \notin split
    <3> DEFINE n == IF applies THEN 1 ELSE 0
    <3>1. redemption[u] = "pending" /\ discounts[u] \in Nat
      BY <1>1, <1>3, <2>3, <2>9 DEF Backed, TypeOK
    <3>2. \A v \in Users : /\ Seen'[v] = IF v = u THEN "used" ELSE Seen[v]
                          /\ Got'[v] = IF v = u THEN Got[u] + n ELSE Got[v]
      BY <1>1, <2>4, <2>5, <2>9, <3>1 DEF Seen, Got
    <3>3. Seen' = [v \in Users |-> Seen'[v]] /\ Got' = [v \in Users |-> Got'[v]]
      BY DEF Seen, Got
    <3>4. n \in {0, 1}
      OBVIOUS
    <3> HIDE DEF n
    <3>5. Seen' = [Seen EXCEPT ![u] = "used"] /\ Got' = [Got EXCEPT ![u] = Got[u] + n]
      BY <1>1, <3>2, <3>3, SeenFor, ChangedFor
    <3>6. Seen[u] = "pending" /\ Got' = [Got EXCEPT ![u] = @ + n]
      BY <1>1, <2>9, <3>1, <3>5, SeenFor
    <3>7. PICK v \in Users : v = u
      BY <1>1
    <3>8. Ticket!Spend(v)
      BY <1>1, <2>3, <3>4, <3>5, <3>6, <3>7 DEF Ticket!Spend, Seen, Got
    <3> QED BY <2>7, <3>8 DEF Ticket!Next
  <2> QED BY <2>8, <2>9
<1>4. CASE \E applies \in BOOLEAN : Paid(r, applies) /\ ~req[r].found
  <2>1. redemption' = redemption /\ discounts' = discounts
    BY <1>1, <1>4 DEF Paid, TypeOK
  <2> QED BY <1>2, <2>1
<1> QED BY <1>2, <1>3, <1>4, Committed

LEMMA TicketNext ==
  ASSUME Inv, Backed, [Next]_vars
  PROVE  Backed' /\ [Ticket!Next]_ticketVars
<1>i. TypeOK /\ Callers /\ Spent
  BY DEF Inv, CountIsExact
<1>1. CASE UNCHANGED vars
  BY <1>1, BackedKept, NoTicket DEF vars
<1>2. ASSUME NEW r \in Requests, End(r)  PROVE \A q \in Requests : req'[q].at = "paying" => req'[q] = req[q]
  BY <1>i, <1>2, Gone, IdleTyped DEF End
<1>3. ASSUME NEW r \in Requests, Redeem(r)  PROVE Backed' /\ [Ticket!Next]_ticketVars
  <2>1. UNCHANGED <<discounts, split>> /\ \A q \in Requests : req'[q].at = "paying" => req'[q] = req[q]
    BY <1>2, <1>3 DEF Redeem, subscriptionVars
  <2>2. CASE UNCHANGED <<coupon, redemption>>
    BY <2>1, <2>2, BackedKept, NoTicket
  <2> QED BY <1>i, <1>3, <2>1, <2>2, Redeemed, TicketRedeemed
<1>4. ASSUME NEW r \in Requests, Grant(r)  PROVE Backed' /\ [Ticket!Next]_ticketVars
  <2>1. UNCHANGED <<discounts, split>> /\ \A q \in Requests : req'[q].at = "paying" => req'[q] = req[q]
    BY <1>2, <1>4 DEF Grant, subscriptionVars
  <2>2. CASE UNCHANGED <<coupon, redemption>>
    BY <2>1, <2>2, BackedKept, NoTicket
  <2> QED BY <1>i, <1>4, <2>1, <2>2, Granted, TicketRedeemed
<1>5. CASE UpdateCoupon
  <2>1. coupon'.exists = coupon.exists /\ UNCHANGED <<redemption, discounts, split, req>>
    BY <1>i, <1>5 DEF UpdateCoupon, TypeOK, Coupon, subscriptionVars
  <2> QED BY <2>1, BackedKept, NoTicket
<1>6. ASSUME NEW r \in Requests,
             \/ \E u \in Users, a \in {"redeeming", "granting"} : RedeemRead(r, u, a)
             \/ DeleteRead(r) \/ (\E s \in Subscriptions : RefundRead(r, s))
      PROVE  Backed' /\ [Ticket!Next]_ticketVars
  <2>1. UNCHANGED <<coupon, redemption, discounts, split>>
    BY <1>6 DEF RedeemRead, DeleteRead, RefundRead, couponVars, subscriptionVars
  <2>2. \A q \in Requests : req'[q].at = "paying" => req'[q] = req[q]
    <3>1. ASSUME NEW u \in Users, NEW a \in {"redeeming", "granting"}, RedeemRead(r, u, a)
          PROVE  req'[r].at = a /\ \A q \in Requests : q # r => req'[q] = req[q]
      <4> DEFINE rec == [IdleRequest EXCEPT !.at = a, !.user = u,
                           !.limit = IF a = "redeeming" THEN coupon.maxRedemptions ELSE 0]
      <4>1. rec.at = a
        BY DEF IdleRequest
      <4>2. Goto(r, rec)
        BY <3>1 DEF RedeemRead
      <4> HIDE DEF rec
      <4> QED BY <1>i, <4>1, <4>2, Gone
    <3>2. ASSUME DeleteRead(r)
          PROVE  req'[r].at = "deleting" /\ \A q \in Requests : q # r => req'[q] = req[q]
      <4> DEFINE rec == [IdleRequest EXCEPT !.at = "deleting"]
      <4>1. rec.at = "deleting" /\ Goto(r, rec)
        BY <3>2 DEF IdleRequest, DeleteRead
      <4> HIDE DEF rec
      <4> QED BY <1>i, <4>1, Gone
    <3> QED BY <1>i, <1>6, <3>1, <3>2, RefundReads
  <2> QED BY <2>1, <2>2, BackedKept, NoTicket
<1>7. ASSUME NEW r \in Requests, Begin(r)  PROVE Backed' /\ [Ticket!Next]_ticketVars
  <2>1. UNCHANGED <<coupon, redemption, discounts, split>>
    BY <1>7 DEF Begin, couponVars
  <2>2. /\ req'[r].user = req[r].user /\ (req'[r].found => redemption[req[r].user] = "pending")
        /\ \A q \in Requests : q # r => req'[q] = req[q]
    BY <1>i, <1>7, Begins
  <2>3. Backed'
    BY <2>1, <2>2 DEF Backed
  <2> QED BY <2>1, <2>3, NoTicket
<1>8. ASSUME NEW r \in Requests, Refund(r) \/ Fail(r)  PROVE Backed' /\ [Ticket!Next]_ticketVars
  <2>1. UNCHANGED <<coupon, redemption, discounts, split>>
    BY <1>8 DEF Refund, Fail, couponVars, subscriptionVars
  <2> QED BY <1>2, <1>8, <2>1, BackedKept, NoTicket DEF Refund, Fail
<1>9. ASSUME NEW u \in Users, Cancel(u)  PROVE Backed' /\ [Ticket!Next]_ticketVars
  BY <1>9, BackedKept, NoTicket DEF Cancel, couponVars
<1> QED BY <1>i, <1>1, <1>3, <1>4, <1>5, <1>6, <1>7, <1>8, <1>9, TicketClosed, TicketVoided, TicketSpent DEF Next

\* To users whose calls are in turn, the coupon is a Voucher.
THEOREM ImplementsVoucher == Spec => CouponIsVoucher
<1>1. Init => Backed /\ Ticket!Init
  <2> SUFFICES ASSUME Init PROVE Backed /\ Ticket!Init
    OBVIOUS
  <2>1. coupon.exists = TRUE
    BY DEF Init
  <2>2. Backed
    BY <2>1, IdleTyped DEF Init, Backed
  <2> QED BY <2>1, <2>2 DEF Init, Ticket!Init
<1>2. Inv /\ Backed /\ [Next]_vars => Backed'
  BY TicketNext
<1>3. Inv /\ Backed /\ [Next]_vars =>
        [Ticket!Next]_<<coupon.exists,
                        [u \in Users |-> IF u \in split THEN "void" ELSE redemption[u]],
                        [u \in Users |-> IF u \in split THEN 0 ELSE discounts[u]]>>
  BY TicketNext DEF ticketVars, Seen, Got
<1> QED BY <1>1, <1>2, <1>3, Invariance, PTL DEF Spec, CouponIsVoucher, Ticket!Spec
=============================================================================
