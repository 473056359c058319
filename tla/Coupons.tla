------------------------------ MODULE Coupons ------------------------------
(***************************************************************************)
(* A coupon's usage limit during checkout.  createOrder validates the      *)
(* coupon, creates the discounted order, and only then redeems the coupon: *)
(* redeeming validates again, saves a redemption and increments usedCount. *)
(* A refused redemption is a warning; the order keeps its discount.        *)
(***************************************************************************)
EXTENDS Integers, FiniteSets

CONSTANTS
  CouponCodes,
  FirstOrderOnly,   \* the coupons for a customer's first order
  UsageLimit,       \* of each coupon, 0 when it has none
  Customers,
  Checkouts,        \* executions of createOrder at the same time
  MaxDiscounts,     \* validations of a coupon stop when so many orders have it
  MaxDropped,       \* executions that fail, crash or find the coupon withdrawn
  NoCoupon, NoCustomer

ASSUME CouponConstants ==
  /\ FirstOrderOnly \subseteq CouponCodes
  /\ UsageLimit \in [CouponCodes -> Nat]
  /\ IsFiniteSet(Checkouts)
  /\ MaxDiscounts \in Nat /\ MaxDropped \in Nat
  /\ NoCoupon \notin CouponCodes /\ NoCustomer \notin Customers

VARIABLES
  usedCount, redemptions,
  discounted,     \* orders created with the coupon's discount
  hasOrder,       \* the customer has an order that is not cancelled
  step, coupon, customer,   \* an execution's position and its request
  offers,         \* who may use which coupon: it is active, in date, and the customer's
  dropped         \* orders whose coupon was withdrawn, or their execution died, uncounted

couponVars ==
  <<usedCount, redemptions, discounted, hasOrder, step, coupon, customer, offers, dropped>>

CouponsInit ==
  /\ usedCount = [c \in CouponCodes |-> 0]
  /\ redemptions = [c \in CouponCodes |-> 0]
  /\ discounted = [c \in CouponCodes |-> 0]
  /\ hasOrder \in [Customers -> BOOLEAN]
  /\ step = [k \in Checkouts |-> "idle"]
  /\ coupon = [k \in Checkouts |-> NoCoupon]
  /\ customer = [k \in Checkouts |-> NoCustomer]
  /\ offers = CouponCodes \X Customers
  /\ dropped = [c \in CouponCodes |-> 0]

Goes(k, s) == step' = [step EXCEPT ![k] = s]

Finishes(k) ==
  /\ Goes(k, "idle")
  /\ coupon' = [coupon EXCEPT ![k] = NoCoupon]
  /\ customer' = [customer EXCEPT ![k] = NoCustomer]

Eligible(c, u) ==
  /\ <<c, u>> \in offers
  /\ UsageLimit[c] # 0 => usedCount[c] < UsageLimit[c]
  /\ c \in FirstOrderOnly => ~hasOrder[u]

Validate(k, c, u) ==
  /\ step[k] = "idle"
  /\ discounted[c] < MaxDiscounts
  /\ Eligible(c, u)
  /\ Goes(k, "priced")
  /\ coupon' = [coupon EXCEPT ![k] = c]
  /\ customer' = [customer EXCEPT ![k] = u]
  /\ UNCHANGED <<usedCount, redemptions, discounted, hasOrder, offers, dropped>>

CreateOrder(k) ==
  /\ step[k] = "priced"
  /\ discounted' = [discounted EXCEPT ![coupon[k]] = @ + 1]
  /\ hasOrder' = [hasOrder EXCEPT ![customer[k]] = TRUE]
  /\ Goes(k, "ordered")
  /\ UNCHANGED <<usedCount, redemptions, coupon, customer, offers, dropped>>

Revalidate(k) ==
  /\ step[k] = "ordered"
  /\ Eligible(coupon[k], customer[k])
  /\ Goes(k, "eligible")
  /\ UNCHANGED <<usedCount, redemptions, discounted, hasOrder, coupon, customer, offers, dropped>>

\* The refusal is caught and logged, and the order answered as usual.
Refused(k) ==
  /\ step[k] = "ordered"
  /\ ~Eligible(coupon[k], customer[k])
  /\ \/ /\ <<coupon[k], customer[k]>> \in offers
        /\ UNCHANGED dropped
     \/ /\ <<coupon[k], customer[k]>> \notin offers
        /\ dropped[coupon[k]] < MaxDropped
        /\ dropped' = [dropped EXCEPT ![coupon[k]] = @ + 1]
  /\ Finishes(k)
  /\ UNCHANGED <<usedCount, redemptions, discounted, hasOrder, offers>>

\* Fault seeded for UsesAreBounded: the use is recorded and never counted.
SaveRedemptionOnly(k) ==
  /\ step[k] = "eligible"
  /\ redemptions' = [redemptions EXCEPT ![coupon[k]] = @ + 1]
  /\ Finishes(k)
  /\ UNCHANGED <<usedCount, discounted, hasOrder, offers, dropped>>

SaveRedemption(k) ==
  /\ step[k] = "eligible"
  /\ redemptions' = [redemptions EXCEPT ![coupon[k]] = @ + 1]
  /\ Goes(k, "saved")
  /\ UNCHANGED <<usedCount, discounted, hasOrder, coupon, customer, offers, dropped>>

CountUse(k) ==
  /\ step[k] = "saved"
  /\ usedCount' = [usedCount EXCEPT ![coupon[k]] = @ + 1]
  /\ Finishes(k)
  /\ UNCHANGED <<redemptions, discounted, hasOrder, offers, dropped>>

\* A write that fails, or a crash, anywhere after the validation.
Drop(k) ==
  /\ step[k] # "idle"
  /\ \/ step[k] = "priced" /\ UNCHANGED dropped
     \/ /\ step[k] # "priced"
        /\ dropped[coupon[k]] < MaxDropped
        /\ dropped' = [dropped EXCEPT ![coupon[k]] = @ + 1]
  /\ Finishes(k)
  /\ UNCHANGED <<usedCount, redemptions, discounted, hasOrder, offers>>

\* The customer's last order that counted is cancelled.
CancelOrders(u) ==
  /\ hasOrder[u]
  /\ hasOrder' = [hasOrder EXCEPT ![u] = FALSE]
  /\ UNCHANGED <<usedCount, redemptions, discounted, step, coupon, customer, offers, dropped>>

\* Coupons are paused, edited, resumed and expire.
Reoffer ==
  /\ offers' \in SUBSET (CouponCodes \X Customers)
  /\ UNCHANGED <<usedCount, redemptions, discounted, hasOrder, step, coupon, customer, dropped>>

CouponsNext ==
  \/ \E k \in Checkouts :
       \/ \E c \in CouponCodes, u \in Customers : Validate(k, c, u)
       \/ CreateOrder(k) \/ Revalidate(k) \/ Refused(k)
       \/ SaveRedemption(k) \/ CountUse(k) \/ Drop(k)
  \/ \E u \in Customers : CancelOrders(u)
  \/ Reoffer

CouponsSpec == CouponsInit /\ [][CouponsNext]_couponVars

----------------------------------------------------------------------------

Positions == {"idle", "priced", "ordered", "eligible", "saved"}

\* The type of each variable; an execution names a coupon and a customer
\* exactly while it is at work.
CouponsTypeOK ==
  /\ usedCount \in [CouponCodes -> Nat]
  /\ redemptions \in [CouponCodes -> Nat]
  /\ discounted \in [CouponCodes -> Nat]
  /\ hasOrder \in [Customers -> BOOLEAN]
  /\ step \in [Checkouts -> Positions]
  /\ coupon \in [Checkouts -> CouponCodes \cup {NoCoupon}]
  /\ customer \in [Checkouts -> Customers \cup {NoCustomer}]
  /\ offers \subseteq CouponCodes \X Customers
  /\ dropped \in [CouponCodes -> Nat]
  /\ \A k \in Checkouts : step[k] # "idle" => coupon[k] \in CouponCodes /\ customer[k] \in Customers

\* The limit is read before the order is created and counted after it, so
\* orders overshoot it.  By how much: every other checkout under way may have
\* passed the same check, and every one that died, or found the coupon
\* withdrawn when it came to redeem it, left a discount uncounted.
\* A coupon for first orders is left out: its redemption is always refused,
\* because the order just created is the customer's first, and nothing counts.
UsesAreBounded ==
  \A c \in CouponCodes \ FirstOrderOnly : UsageLimit[c] # 0 =>
    discounted[c] <= UsageLimit[c] + Cardinality(Checkouts) - 1 + dropped[c]
=============================================================================
