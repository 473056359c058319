-------------------------- MODULE Checkout_proofs --------------------------
(***************************************************************************)
(* The limits of a checkout's two rewards, for any number of executions:   *)
(* by how much the orders with a coupon overshoot its limit, and that a    *)
(* friend is paid at most once for a referral.                             *)
(***************************************************************************)
EXTENDS Coupons, Referrals, FiniteSetTheorems, TLAPS

(***************************************************************************)
(* Coupons.  Below the limit a coupon on offer is not refused, so a        *)
(* discount has been counted, is under way or was dropped, by a withdrawal *)
(* if it was refused; once the limit is reached only executions that were  *)
(* validated before add discounts.                                         *)
(***************************************************************************)
Taken(c) == {k \in Checkouts : step[k] \in {"ordered", "eligible", "saved"} /\ coupon[k] = c}
Priced(c) == {k \in Checkouts : step[k] = "priced" /\ coupon[k] = c}

Below(c) ==
  usedCount[c] < UsageLimit[c] =>
    discounted[c] <= usedCount[c] + Cardinality(Taken(c)) + dropped[c]
Beyond(c) ==
  usedCount[c] >= UsageLimit[c] =>
    discounted[c] + Cardinality(Priced(c)) <= UsageLimit[c] + Cardinality(Checkouts) - 1 + dropped[c]

Limited == {c \in CouponCodes \ FirstOrderOnly : UsageLimit[c] # 0}

CouponsInv == CouponsTypeOK /\ \A c \in Limited : Below(c) /\ Beyond(c)

\* The executions with a coupon are finitely many, and no more than all.
LEMMA Sizes ==
  ASSUME NEW c
  PROVE  /\ IsFiniteSet(Taken(c)) /\ IsFiniteSet(Priced(c))
         /\ Cardinality(Taken(c)) \in Nat /\ Cardinality(Priced(c)) \in Nat
         /\ Cardinality(Checkouts) \in Nat
         /\ Cardinality(Taken(c)) + Cardinality(Priced(c)) <= Cardinality(Checkouts)
<1>1. IsFiniteSet(Checkouts)
  BY CouponConstants
<1>2. /\ Taken(c) \in SUBSET Checkouts /\ Priced(c) \in SUBSET Checkouts
      /\ Taken(c) \cap Priced(c) = {} /\ Taken(c) \cup Priced(c) \in SUBSET Checkouts
  BY DEF Taken, Priced
<1>3. IsFiniteSet(Taken(c)) /\ IsFiniteSet(Priced(c))
  BY <1>1, <1>2, FS_Subset
<1>4. /\ Cardinality(Taken(c)) \in Nat /\ Cardinality(Priced(c)) \in Nat
      /\ Cardinality(Checkouts) \in Nat
  BY <1>1, <1>3, FS_CardinalityType
<1>5. Cardinality(Taken(c) \cup Priced(c)) = Cardinality(Taken(c)) + Cardinality(Priced(c))
  <2> DEFINE both == Taken(c) \cap Priced(c)
  <2>1. both = {}
    BY <1>2
  <2> HIDE DEF both
  <2>2. Cardinality(both) = 0
    BY <2>1, FS_EmptySet
  <2>3. Cardinality(Taken(c) \cup Priced(c)) = Cardinality(Taken(c)) + Cardinality(Priced(c)) - Cardinality(both)
    BY <1>3, FS_Union DEF both
  <2>4. QED BY <1>4, <2>2, <2>3
<1>6. Cardinality(Taken(c) \cup Priced(c)) <= Cardinality(Checkouts)
  BY <1>1, <1>2, FS_Subset
<1>7. QED BY <1>3, <1>4, <1>5, <1>6

\* A step keeps the types.
LEMMA CouponsTypeStep ==
  ASSUME CouponsTypeOK, [CouponsNext]_couponVars
  PROVE CouponsTypeOK'
<1> USE CouponConstants DEF CouponsTypeOK, Positions
<1>1. ASSUME NEW k \in Checkouts, NEW c \in CouponCodes, NEW u \in Customers, Validate(k, c, u)
      PROVE CouponsTypeOK'
  BY <1>1 DEF Validate, Goes
<1>2. ASSUME NEW k \in Checkouts, CreateOrder(k) PROVE CouponsTypeOK'
  BY <1>2 DEF CreateOrder, Goes
<1>3. ASSUME NEW k \in Checkouts, Revalidate(k) PROVE CouponsTypeOK'
  BY <1>3 DEF Revalidate, Goes
<1>4. ASSUME NEW k \in Checkouts, Refused(k) PROVE CouponsTypeOK'
  BY <1>4 DEF Refused, Eligible, Finishes, Goes
<1>5. ASSUME NEW k \in Checkouts, SaveRedemption(k) PROVE CouponsTypeOK'
  BY <1>5 DEF SaveRedemption, Goes
<1>6. ASSUME NEW k \in Checkouts, CountUse(k) PROVE CouponsTypeOK'
  BY <1>6 DEF CountUse, Finishes, Goes
<1>7. ASSUME NEW k \in Checkouts, Drop(k) PROVE CouponsTypeOK'
  BY <1>7 DEF Drop, Finishes, Goes
<1>8. ASSUME NEW u \in Customers, CancelOrders(u) PROVE CouponsTypeOK'
  BY <1>8 DEF CancelOrders
<1>9. CASE Reoffer \/ UNCHANGED couponVars
  BY <1>9 DEF Reoffer, couponVars
<1>10. QED
  BY <1>1, <1>2, <1>3, <1>4, <1>5, <1>6, <1>7, <1>8, <1>9 DEF CouponsNext

\* A step of one execution keeps both bounds for every limited coupon.
LEMMA CouponsBoundStep ==
  ASSUME CouponsInv, [CouponsNext]_couponVars, NEW c \in Limited
  PROVE Below(c)' /\ Beyond(c)'
<1> DEFINE L == UsageLimit[c]
           T == Cardinality(Taken(c))
           P == Cardinality(Priced(c))
           K == Cardinality(Checkouts)
<1>1. /\ c \in CouponCodes /\ c \notin FirstOrderOnly /\ L \in Nat \ {0}
      /\ usedCount[c] \in Nat /\ discounted[c] \in Nat /\ dropped[c] \in Nat
  BY CouponConstants DEF Limited, CouponsInv, CouponsTypeOK
<1>2. T \in Nat /\ P \in Nat /\ K \in Nat /\ T + P <= K
  BY Sizes
<1>3. IsFiniteSet(Taken(c)) /\ IsFiniteSet(Priced(c))
  BY Sizes
<1>4. Below(c) /\ Beyond(c) /\ CouponsTypeOK
  BY DEF CouponsInv
<1>5. CouponsTypeOK'
  BY <1>4, CouponsTypeStep
<1>6. ASSUME UNCHANGED <<usedCount[c], discounted[c], dropped[c], Taken(c), Priced(c)>>
      PROVE Below(c)' /\ Beyond(c)'
  BY <1>4, <1>6 DEF Below, Beyond
<1>7. ASSUME NEW k \in Checkouts, NEW b \in CouponCodes, NEW u \in Customers, Validate(k, b, u)
      PROVE Below(c)' /\ Beyond(c)'
  <2>1. UNCHANGED <<usedCount, discounted, dropped>>
    BY <1>7 DEF Validate
  <2>2. UNCHANGED Taken(c)
    BY <1>7, <1>4 DEF Validate, Goes, Taken, CouponsTypeOK
  <2>3. CASE b = c
    <3>1. usedCount[c] < L
      BY <1>1, <1>7, <2>3 DEF Validate, Eligible
    <3>2. QED BY <1>1, <1>4, <2>1, <2>2, <3>1 DEF Below, Beyond
  <2>4. CASE b # c
    <3>1. UNCHANGED Priced(c)
      BY <1>7, <1>4, <2>4 DEF Validate, Goes, Priced, CouponsTypeOK
    <3>2. QED BY <1>6, <2>1, <2>2, <3>1
  <2>5. QED BY <2>3, <2>4
<1>8. ASSUME NEW k \in Checkouts, CreateOrder(k)
      PROVE Below(c)' /\ Beyond(c)'
  <2>1. UNCHANGED <<usedCount, dropped>>
    BY <1>8 DEF CreateOrder
  <2>2. CASE coupon[k] = c
    <3>1. Taken(c)' = Taken(c) \cup {k} /\ Priced(c)' = Priced(c) \ {k} /\ k \notin Taken(c) /\ k \in Priced(c)
      BY <1>8, <1>4, <2>2 DEF CreateOrder, Goes, Taken, Priced, CouponsTypeOK
    <3>2. Cardinality(Taken(c)') = T + 1 /\ Cardinality(Priced(c)') = P - 1
      BY <1>3, <3>1, FS_AddElement, FS_RemoveElement
    <3>3. discounted'[c] = discounted[c] + 1
      BY <1>1, <1>4, <1>8, <2>2 DEF CreateOrder, CouponsTypeOK
    <3>4. QED BY <1>1, <1>2, <1>4, <2>1, <3>2, <3>3 DEF Below, Beyond
  <2>3. CASE coupon[k] # c
    <3>1. UNCHANGED <<Taken(c), Priced(c), discounted[c]>>
      BY <1>1, <1>4, <1>8, <2>3 DEF CreateOrder, Goes, Taken, Priced, CouponsTypeOK
    <3>2. QED BY <1>6, <2>1, <3>1
  <2>4. QED BY <2>2, <2>3
<1>9. ASSUME NEW k \in Checkouts, Revalidate(k) \/ SaveRedemption(k)
      PROVE Below(c)' /\ Beyond(c)'
  <2>1. UNCHANGED <<Taken(c), Priced(c)>>
    BY <1>9, <1>4 DEF Revalidate, SaveRedemption, Goes, Taken, Priced, CouponsTypeOK
  <2>2. QED BY <1>6, <1>9, <2>1 DEF Revalidate, SaveRedemption
<1>10. ASSUME NEW k \in Checkouts, Finishes(k), step[k] \in {"ordered", "eligible", "saved"}, coupon[k] = c
       PROVE UNCHANGED Priced(c) /\ Cardinality(Taken(c)') = T - 1
  <2>1. UNCHANGED Priced(c) /\ Taken(c)' = Taken(c) \ {k} /\ k \in Taken(c)
    BY <1>10, <1>4, <1>1, CouponConstants DEF Finishes, Goes, Taken, Priced, CouponsTypeOK
  <2>2. QED BY <1>3, <2>1, FS_RemoveElement
<1>11. ASSUME NEW k \in Checkouts, Finishes(k), coupon[k] # c
       PROVE UNCHANGED <<Taken(c), Priced(c)>>
  BY <1>11, <1>4, <1>1, CouponConstants DEF Finishes, Goes, Taken, Priced, CouponsTypeOK
<1>12. ASSUME NEW k \in Checkouts, Refused(k)
       PROVE Below(c)' /\ Beyond(c)'
  <2>1. UNCHANGED <<usedCount, discounted>> /\ Finishes(k) /\ step[k] = "ordered"
    BY <1>12 DEF Refused
  <2>2. CASE coupon[k] = c /\ UNCHANGED dropped
    <3>1. dropped[c] # dropped[c] + 1 /\ dropped \in [CouponCodes -> Nat]
      BY <1>1, <1>4 DEF CouponsTypeOK
    <3>2. <<c, customer[k]>> \in offers
      BY <1>1, <1>12, <2>2, <3>1 DEF Refused
    <3>3. usedCount[c] >= L
      BY <1>1, <1>12, <2>2, <3>2 DEF Refused, Eligible
    <3>4. QED BY <1>1, <1>4, <1>10, <2>1, <2>2, <3>3 DEF Below, Beyond
  <2>3. CASE coupon[k] = c /\ ~UNCHANGED dropped
    <3>1. dropped'[c] = dropped[c] + 1
      BY <1>1, <1>4, <1>12, <2>3 DEF Refused, CouponsTypeOK
    <3>2. UNCHANGED Priced(c) /\ Cardinality(Taken(c)') = T - 1
      BY <1>10, <2>1, <2>3
    <3>3. QED BY <1>1, <1>2, <1>4, <2>1, <3>1, <3>2 DEF Below, Beyond
  <2>4. CASE coupon[k] # c
    <3>1. UNCHANGED dropped[c]
      BY <1>1, <1>4, <1>12, <2>4 DEF Refused, CouponsTypeOK
    <3>2. QED BY <1>6, <1>11, <2>1, <2>4, <3>1
  <2>5. QED BY <2>2, <2>3, <2>4
<1>13. ASSUME NEW k \in Checkouts, CountUse(k)
       PROVE Below(c)' /\ Beyond(c)'
  <2>1. UNCHANGED <<discounted, dropped>> /\ Finishes(k) /\ step[k] = "saved"
    BY <1>13 DEF CountUse
  <2>2. CASE coupon[k] = c
    <3>1. usedCount'[c] = usedCount[c] + 1
      BY <1>1, <1>4, <1>13, <2>2 DEF CountUse, CouponsTypeOK
    <3>2. UNCHANGED Priced(c) /\ Cardinality(Taken(c)') = T - 1
      BY <1>10, <2>1, <2>2
    <3>3. QED BY <1>1, <1>2, <1>4, <2>1, <3>1, <3>2 DEF Below, Beyond
  <2>3. CASE coupon[k] # c
    <3>1. UNCHANGED usedCount[c]
      BY <1>1, <1>4, <1>13, <2>3 DEF CountUse, CouponsTypeOK
    <3>2. QED BY <1>6, <1>11, <2>1, <2>3, <3>1
  <2>4. QED BY <2>2, <2>3
<1>14. ASSUME NEW k \in Checkouts, Drop(k)
       PROVE Below(c)' /\ Beyond(c)'
  <2>1. UNCHANGED <<usedCount, discounted>> /\ Finishes(k) /\ step[k] \in Positions \ {"idle"}
    BY <1>4, <1>14 DEF Drop, CouponsTypeOK
  <2>2. CASE coupon[k] # c
    <3>1. UNCHANGED dropped[c]
      BY <1>1, <1>4, <1>14, <2>2 DEF Drop, CouponsTypeOK
    <3>2. QED BY <1>6, <1>11, <2>1, <2>2, <3>1
  <2>3. CASE coupon[k] = c /\ step[k] = "priced"
    <3>1. UNCHANGED <<dropped, Taken(c)>> /\ Priced(c)' = Priced(c) \ {k} /\ k \in Priced(c)
      BY <1>1, <1>4, <1>14, <2>3, CouponConstants DEF Drop, Finishes, Goes, Taken, Priced, CouponsTypeOK
    <3>2. Cardinality(Priced(c)') = P - 1
      BY <1>3, <3>1, FS_RemoveElement
    <3>3. QED BY <1>1, <1>2, <1>4, <2>1, <3>1, <3>2 DEF Below, Beyond
  <2>4. CASE coupon[k] = c /\ step[k] # "priced"
    <3>1. dropped'[c] = dropped[c] + 1
      BY <1>1, <1>4, <1>14, <2>4 DEF Drop, CouponsTypeOK
    <3>2. UNCHANGED Priced(c) /\ Cardinality(Taken(c)') = T - 1
      BY <1>10, <2>1, <2>4 DEF Positions
    <3>3. QED BY <1>1, <1>2, <1>4, <2>1, <3>1, <3>2 DEF Below, Beyond
  <2>5. QED BY <2>2, <2>3, <2>4
<1>15. ASSUME UNCHANGED <<usedCount, discounted, dropped, step, coupon>>
       PROVE Below(c)' /\ Beyond(c)'
  BY <1>6, <1>15 DEF Taken, Priced
<1>16. ASSUME Reoffer \/ \E u \in Customers : CancelOrders(u) PROVE Below(c)' /\ Beyond(c)'
  BY <1>15, <1>16 DEF CancelOrders, Reoffer
<1>17. CASE UNCHANGED couponVars
  BY <1>15, <1>17 DEF couponVars
<1>18. QED
  BY <1>7, <1>8, <1>9, <1>12, <1>13, <1>14, <1>16, <1>17 DEF CouponsNext

\* The invariant holds in every reachable state.
THEOREM CouponsInvariance == CouponsSpec => []CouponsInv
<1>1. CouponsInit => CouponsInv
  <2> SUFFICES ASSUME CouponsInit PROVE CouponsInv
    OBVIOUS
  <2>1. CouponsTypeOK
    BY CouponConstants DEF CouponsInit, CouponsTypeOK, Positions
  <2>2. ASSUME NEW c \in Limited PROVE Below(c) /\ Beyond(c)
    <3>1. UsageLimit[c] \in Nat \ {0} /\ usedCount[c] = 0 /\ discounted[c] = 0 /\ dropped[c] = 0
      BY CouponConstants DEF CouponsInit, Limited
    <3>2. Cardinality(Taken(c)) \in Nat
      BY Sizes
    <3>3. QED BY <3>1, <3>2 DEF Below, Beyond
  <2>3. QED BY <2>1, <2>2 DEF CouponsInv
<1>2. CouponsInv /\ [CouponsNext]_couponVars => CouponsInv'
  <2> SUFFICES ASSUME CouponsInv, [CouponsNext]_couponVars PROVE CouponsInv'
    OBVIOUS
  <2>1. CouponsTypeOK'
    BY CouponsTypeStep DEF CouponsInv
  <2>2. ASSUME NEW c \in Limited PROVE Below(c)' /\ Beyond(c)'
    BY CouponsBoundStep
  <2>3. QED BY <2>1, <2>2 DEF CouponsInv, Limited
<1>3. QED BY <1>1, <1>2, PTL DEF CouponsSpec

\* Executions of createOrder name a coupon and a customer while they are at
\* work, and the counters are numbers (orderController.js:1179-1336).
THEOREM CouponsTypeCorrect == CouponsSpec => []CouponsTypeOK
<1>1. CouponsInv => CouponsTypeOK
  BY DEF CouponsInv
<1>2. QED BY <1>1, CouponsInvariance, PTL

\* The limit is checked on a read and counted by a later increment
\* (couponRedemptionService.js:130-146): the orders that have the discount
\* exceed the limit by less than the executions at the same time and those
\* that died.
THEOREM UsesAreBoundedAlways == CouponsSpec => []UsesAreBounded
<1>1. CouponsInv => UsesAreBounded
  <2> SUFFICES ASSUME CouponsInv, NEW c \in CouponCodes \ FirstOrderOnly, UsageLimit[c] # 0
               PROVE discounted[c] <= UsageLimit[c] + Cardinality(Checkouts) - 1 + dropped[c]
    BY DEF UsesAreBounded
  <2>1. Below(c) /\ Beyond(c)
    BY DEF CouponsInv, Limited
  <2>2. /\ UsageLimit[c] \in Nat /\ usedCount[c] \in Nat
        /\ discounted[c] \in Nat /\ dropped[c] \in Nat
    BY CouponConstants DEF CouponsInv, CouponsTypeOK
  <2>3. /\ Cardinality(Taken(c)) \in Nat /\ Cardinality(Priced(c)) \in Nat
        /\ Cardinality(Checkouts) \in Nat
        /\ Cardinality(Taken(c)) + Cardinality(Priced(c)) <= Cardinality(Checkouts)
    BY Sizes
  <2>4. QED BY <2>1, <2>2, <2>3 DEF Below, Beyond
<1>2. QED BY <1>1, CouponsInvariance, PTL
----------------------------------------------------------------------------
(***************************************************************************)
(* Referrals.  A balance that is to be written was read when the friend    *)
(* had been given no more rewards than it has now, and, from the check of  *)
(* the record on, when that record was not among them.                     *)
(***************************************************************************)
CopyIsOld ==
  \A w \in Rewards :
    /\ stage[w] = "actor" => friendCopy[w] <= Cardinality(Given(friend[w]))
    /\ stage[w] \in {"record", "referrer"} =>
         friendCopy[w] <= Cardinality(Given(friend[w]) \ {referrer[w]})
    /\ stage[w] = "accounts" => friendCopy[w] + 1 <= Cardinality(Given(friend[w]))

RecordIsThere ==
  \A w \in Rewards : stage[w] \in {"record", "referrer"} => Record(w) \in records

ReferralsInv == ReferralsTypeOK /\ RecordIsThere /\ CopyIsOld /\ FriendPaidOnce

\* The rewards of a friend are finitely many, before and after a step.
LEMMA GivenIsFinite ==
  ASSUME NEW f
  PROVE  /\ IsFiniteSet(Given(f)) /\ Cardinality(Given(f)) \in Nat
         /\ \A r : IsFiniteSet(Given(f) \ {r}) /\ Cardinality(Given(f) \ {r}) \in Nat
<1>1. IsFiniteSet(Referrers)
  BY ReferralConstants
<1>2. Given(f) \in SUBSET Referrers /\ \A r : Given(f) \ {r} \in SUBSET Referrers
  BY DEF Given
<1>3. IsFiniteSet(Given(f)) /\ \A r : IsFiniteSet(Given(f) \ {r})
  BY <1>1, <1>2, FS_Subset
<1>4. QED BY <1>3, FS_CardinalityType

LEMMA GivenIsFiniteNext ==
  ASSUME NEW f
  PROVE  /\ IsFiniteSet(Given(f)') /\ Cardinality(Given(f)') \in Nat
         /\ \A r : IsFiniteSet(Given(f)' \ {r}) /\ Cardinality(Given(f)' \ {r}) \in Nat
<1>1. IsFiniteSet(Referrers)
  BY ReferralConstants
<1>2. Given(f)' \in SUBSET Referrers /\ \A r : Given(f)' \ {r} \in SUBSET Referrers
  BY DEF Given
<1>3. IsFiniteSet(Given(f)') /\ \A r : IsFiniteSet(Given(f)' \ {r})
  BY <1>1, <1>2, FS_Subset
<1>4. QED BY <1>3, FS_CardinalityType

\* Rewards are only ever added.
LEMMA GivenGrows ==
  ASSUME rewardGiven \subseteq rewardGiven', NEW f
  PROVE  /\ Cardinality(Given(f)) <= Cardinality(Given(f)')
         /\ \A r : Cardinality(Given(f) \ {r}) <= Cardinality(Given(f)' \ {r})
<1>1. Given(f) \in SUBSET Given(f)' /\ \A r : Given(f) \ {r} \in SUBSET (Given(f)' \ {r})
  BY DEF Given
<1>2. IsFiniteSet(Given(f)') /\ \A r : IsFiniteSet(Given(f)' \ {r})
  BY GivenIsFiniteNext
<1>3. QED BY <1>1, <1>2, FS_Subset

\* A step keeps the types.
LEMMA ReferralsTypeStep ==
  ASSUME ReferralsTypeOK, RecordIsThere, [ReferralsNext]_referralVars
  PROVE ReferralsTypeOK'
<1> USE ReferralConstants DEF ReferralsTypeOK, recordVars, balanceVars, applyVars, rewardVars
<1>1. ASSUME NEW a \in Applications, NEW r \in Referrers, NEW f \in Friends, ApplyRead(a, r, f)
      PROVE ReferralsTypeOK'
  BY <1>1 DEF ApplyRead, ApplyTo
<1>2. ASSUME NEW a \in Applications, ApplyCreate(a) PROVE ReferralsTypeOK'
  BY <1>2 DEF ApplyCreate, ApplyTo
<1>3. ASSUME NEW a \in Applications, ApplyLinked(a) PROVE ReferralsTypeOK'
  BY <1>3 DEF ApplyLinked, ApplyTo
<1>4. ASSUME NEW a \in Applications, ApplySave(a) PROVE ReferralsTypeOK'
  BY <1>4 DEF ApplySave, ApplyTo
<1>5. ASSUME NEW a \in Applications, ApplyCrash(a) PROVE ReferralsTypeOK'
  BY <1>5 DEF ApplyCrash, ApplyTo
<1>6. ASSUME NEW w \in Rewards, NEW f \in Friends, ReadActor(w, f) PROVE ReferralsTypeOK'
  BY <1>6 DEF ReadActor
<1>7. ASSUME NEW w \in Rewards, ReadRecord(w) PROVE ReferralsTypeOK'
  BY <1>7 DEF ReadRecord, Stop
<1>8. ASSUME NEW w \in Rewards, ReadReferrer(w) PROVE ReferralsTypeOK'
  BY <1>8 DEF ReadReferrer
<1>9. ASSUME NEW w \in Rewards, SaveRecord(w) PROVE ReferralsTypeOK'
  <2>1. UNCHANGED <<referredBy, records, balanceVars, applyVars, friend, referrer, friendCopy, referrerCopy, lost>>
    BY <1>9 DEF SaveRecord
  <2>2. stage' = [stage EXCEPT ![w] = "accounts"] /\ stage[w] = "referrer"
        /\ unsaved' = [unsaved EXCEPT ![w] = {"friend", "referrer"}]
    BY <1>9 DEF SaveRecord
  <2>3. rewardGiven' \subseteq records'
    BY <1>9 DEF SaveRecord, RecordIsThere
  <2>4. QED BY <2>1, <2>2, <2>3
<1>10. ASSUME NEW w \in Rewards, NEW u \in {"friend", "referrer"}, SaveAccount(w, u) PROVE ReferralsTypeOK'
  BY <1>10 DEF SaveAccount
<1>11. ASSUME NEW w \in Rewards, Rewarded(w) PROVE ReferralsTypeOK'
  BY <1>11 DEF Rewarded, Stop
<1>12. ASSUME NEW w \in Rewards, RewardCrash(w) PROVE ReferralsTypeOK'
  BY <1>12 DEF RewardCrash, Stop
<1>13. CASE UNCHANGED referralVars
  BY <1>13 DEF referralVars
<1>14. QED
  BY <1>1, <1>2, <1>3, <1>4, <1>5, <1>6, <1>7, <1>8, <1>9, <1>10, <1>11, <1>12, <1>13 DEF ReferralsNext

\* The record that a reward has checked stays; records are only ever added.
LEMMA RecordStep ==
  ASSUME ReferralsTypeOK, RecordIsThere, [ReferralsNext]_referralVars
  PROVE RecordIsThere' /\ rewardGiven \subseteq rewardGiven'
<1> USE DEF ReferralsTypeOK, RecordIsThere, Record, recordVars, rewardVars
<1>1. ASSUME NEW a \in Applications, NEW r \in Referrers, NEW f \in Friends,
             ApplyRead(a, r, f) \/ ApplyCreate(a) \/ ApplyLinked(a) \/ ApplySave(a) \/ ApplyCrash(a)
      PROVE RecordIsThere' /\ rewardGiven \subseteq rewardGiven'
  BY <1>1 DEF ApplyRead, ApplyCreate, ApplyLinked, ApplySave, ApplyCrash
<1>2. ASSUME NEW a \in Applications, ApplyCreate(a) \/ ApplyLinked(a) \/ ApplySave(a) \/ ApplyCrash(a)
      PROVE RecordIsThere' /\ rewardGiven \subseteq rewardGiven'
  BY <1>2 DEF ApplyCreate, ApplyLinked, ApplySave, ApplyCrash
<1>3. ASSUME NEW w \in Rewards, NEW f \in Friends, ReadActor(w, f)
      PROVE RecordIsThere' /\ rewardGiven \subseteq rewardGiven'
  BY <1>3 DEF ReadActor
<1>4. ASSUME NEW w \in Rewards, ReadRecord(w) \/ Rewarded(w) \/ RewardCrash(w)
      PROVE RecordIsThere' /\ rewardGiven \subseteq rewardGiven'
  BY <1>4 DEF ReadRecord, Rewarded, RewardCrash, Stop
<1>5. ASSUME NEW w \in Rewards, ReadReferrer(w) \/ SaveRecord(w)
      PROVE RecordIsThere' /\ rewardGiven \subseteq rewardGiven'
  BY <1>5 DEF ReadReferrer, SaveRecord
<1>6. ASSUME NEW w \in Rewards, NEW u \in {"friend", "referrer"}, SaveAccount(w, u)
      PROVE RecordIsThere' /\ rewardGiven \subseteq rewardGiven'
  BY <1>6 DEF SaveAccount
<1>7. CASE UNCHANGED referralVars
  BY <1>7 DEF referralVars
<1>8. QED BY <1>1, <1>2, <1>3, <1>4, <1>5, <1>6, <1>7 DEF ReferralsNext

\* What one reward has read and the balances are bounded by the rewards given.
OldCopy(w) ==
  /\ stage[w] = "actor" => friendCopy[w] <= Cardinality(Given(friend[w]))
  /\ stage[w] \in {"record", "referrer"} =>
       friendCopy[w] <= Cardinality(Given(friend[w]) \ {referrer[w]})
  /\ stage[w] = "accounts" => friendCopy[w] + 1 <= Cardinality(Given(friend[w]))

\* An execution that did not move holds what it held.
LEMMA CopyStays ==
  ASSUME ReferralsTypeOK, CopyIsOld, rewardGiven \subseteq rewardGiven', NEW w \in Rewards,
         UNCHANGED <<stage[w], friend[w], referrer[w], friendCopy[w]>>
  PROVE OldCopy(w)'
<1>1. PICK f, r : f = friend[w] /\ r = referrer[w]
  OBVIOUS
<1>2. Given(friend[w])' = Given(f)' /\ Given(friend[w]) = Given(f)
  BY <1>1 DEF Given
<1>3. /\ Cardinality(Given(f)) <= Cardinality(Given(f)')
      /\ Cardinality(Given(f) \ {r}) <= Cardinality(Given(f)' \ {r})
  BY GivenGrows
<1>4. /\ Cardinality(Given(f)) \in Nat /\ Cardinality(Given(f) \ {r}) \in Nat
      /\ friendCopy[w] \in Nat
  BY GivenIsFinite DEF ReferralsTypeOK
<1>5. /\ Cardinality(Given(f)') \in Nat /\ Cardinality(Given(f)' \ {r}) \in Nat
  BY GivenIsFiniteNext
<1>6. QED BY <1>1, <1>2, <1>3, <1>4, <1>5 DEF OldCopy, CopyIsOld

\* When at most execution w moved and no balance changed, what w holds decides.
LEMMA OneMoves ==
  ASSUME ReferralsTypeOK, CopyIsOld, FriendPaidOnce, rewardGiven \subseteq rewardGiven',
         NEW w \in Rewards, OldCopy(w)',
         \A v \in Rewards \ {w} :
           UNCHANGED <<stage[v], friend[v], referrer[v], friendCopy[v]>>
  PROVE CopyIsOld'
<1>1. ASSUME NEW v \in Rewards PROVE OldCopy(v)'
  BY CopyStays, <1>1
<1>2. QED BY <1>1 DEF OldCopy, CopyIsOld

LEMMA PaidStays ==
  ASSUME ReferralsTypeOK, FriendPaidOnce, rewardGiven \subseteq rewardGiven', UNCHANGED friendBalance
  PROVE FriendPaidOnce'
<1> SUFFICES ASSUME NEW f \in Friends PROVE friendBalance'[f] <= Cardinality(Given(f)')
  BY DEF FriendPaidOnce, Given
<1>1. /\ Cardinality(Given(f)) <= Cardinality(Given(f)')
      /\ Cardinality(Given(f)) \in Nat /\ Cardinality(Given(f)') \in Nat
  BY GivenGrows, GivenIsFinite, GivenIsFiniteNext
<1>2. QED BY <1>1 DEF FriendPaidOnce, ReferralsTypeOK

\* A step of a reward keeps what it read behind what was given.
LEMMA CopyStep ==
  ASSUME ReferralsInv, [ReferralsNext]_referralVars
  PROVE CopyIsOld' /\ FriendPaidOnce'
<1> USE DEF ReferralsInv
<1>a. rewardGiven \subseteq rewardGiven' /\ ReferralsTypeOK'
  BY RecordStep, ReferralsTypeStep
<1>b. ASSUME UNCHANGED <<rewardVars, friendBalance>> PROVE CopyIsOld' /\ FriendPaidOnce'
  <2>1. \A w \in Rewards : OldCopy(w)'
    BY <1>a, <1>b, CopyStays DEF rewardVars
  <2>2. QED BY <1>a, <1>b, <2>1, PaidStays DEF OldCopy, CopyIsOld
<1>1. ASSUME NEW a \in Applications,
             \/ \E r \in Referrers, f \in Friends : ApplyRead(a, r, f)
             \/ ApplyCreate(a) \/ ApplyLinked(a) \/ ApplySave(a) \/ ApplyCrash(a)
      PROVE CopyIsOld' /\ FriendPaidOnce'
  BY <1>1, <1>b DEF ApplyRead, ApplyCreate, ApplyLinked, ApplySave, ApplyCrash, balanceVars
<1>2. ASSUME NEW w \in Rewards, NEW f \in Friends, ReadActor(w, f)
      PROVE CopyIsOld' /\ FriendPaidOnce'
  <2>1. /\ stage'[w] = "actor" /\ friend'[w] = f /\ friendCopy'[w] = friendBalance[f]
        /\ UNCHANGED <<rewardGiven, friendBalance>>
    BY <1>2 DEF ReadActor, ReferralsTypeOK, recordVars, balanceVars
  <2>2. Given(friend[w])' = Given(f)
    BY <2>1 DEF Given
  <2>3. OldCopy(w)'
    BY <2>1, <2>2 DEF OldCopy, FriendPaidOnce
  <2>4. \A v \in Rewards \ {w} : UNCHANGED <<stage[v], friend[v], referrer[v], friendCopy[v]>>
    BY <1>2 DEF ReadActor, ReferralsTypeOK
  <2>5. QED BY <1>a, <2>1, <2>3, <2>4, OneMoves, PaidStays
<1>3. ASSUME NEW w \in Rewards, ReadRecord(w) PROVE CopyIsOld' /\ FriendPaidOnce'
  <2>1. UNCHANGED <<rewardGiven, friendBalance>>
    BY <1>3 DEF ReadRecord, recordVars, balanceVars
  <2>2. \A v \in Rewards \ {w} : UNCHANGED <<stage[v], friend[v], referrer[v], friendCopy[v]>>
    BY <1>3 DEF ReadRecord, Stop, ReferralsTypeOK
  <2>3. OldCopy(w)'
    <3>1. CASE stage'[w] = "idle"
      BY <3>1 DEF OldCopy
    <3>2. CASE stage'[w] # "idle"
      <4>1. /\ stage[w] = "actor" /\ stage'[w] = "record" /\ UNCHANGED <<friend, referrer, friendCopy>>
            /\ <<referrer[w], friend[w]>> \notin rewardGiven
        BY <1>3, <3>2 DEF ReadRecord, Stop, Record, ReferralsTypeOK
      <4>2. Given(friend[w]) \ {referrer[w]} = Given(friend[w])
        BY <4>1 DEF Given
      <4>3. Given(friend[w])' = Given(friend[w])
        BY <2>1, <4>1 DEF Given
      <4>4. friendCopy'[w] <= Cardinality(Given(friend[w])' \ {referrer'[w]})
        BY <4>1, <4>2, <4>3 DEF CopyIsOld
      <4>5. QED BY <4>1, <4>4 DEF OldCopy
    <3>3. QED BY <3>1, <3>2
  <2>4. QED BY <1>a, <2>1, <2>2, <2>3, OneMoves, PaidStays
<1>4. ASSUME NEW w \in Rewards, ReadReferrer(w) PROVE CopyIsOld' /\ FriendPaidOnce'
  <2>1. UNCHANGED <<rewardGiven, friendBalance, friend, referrer, friendCopy>> /\ stage[w] = "record"
    BY <1>4 DEF ReadReferrer, recordVars, balanceVars
  <2>2. stage'[w] = "referrer" /\ \A v \in Rewards \ {w} : UNCHANGED stage[v]
    BY <1>4 DEF ReadReferrer, ReferralsTypeOK
  <2>3. Given(friend[w])' = Given(friend[w])
    BY <2>1 DEF Given
  <2>4. OldCopy(w)'
    BY <2>1, <2>2, <2>3 DEF OldCopy, CopyIsOld
  <2>5. QED BY <1>a, <2>1, <2>2, <2>4, OneMoves, PaidStays
<1>5. ASSUME NEW w \in Rewards, SaveRecord(w) PROVE CopyIsOld' /\ FriendPaidOnce'
  <2>1. /\ UNCHANGED <<friendBalance, friend, referrer, friendCopy>> /\ stage[w] = "referrer"
        /\ rewardGiven' = rewardGiven \cup {<<referrer[w], friend[w]>>}
    BY <1>5 DEF SaveRecord, Record, balanceVars
  <2>2. stage'[w] = "accounts" /\ \A v \in Rewards \ {w} : UNCHANGED stage[v]
    BY <1>5 DEF SaveRecord, ReferralsTypeOK
  <2>3. PICK f, r : f = friend[w] /\ r = referrer[w]
    OBVIOUS
  <2>4. r \in Referrers
    BY <2>1, <2>3 DEF ReferralsTypeOK
  <2>5. Given(friend[w])' = Given(f)' /\ Given(friend[w]) = Given(f)
    BY <2>1, <2>3 DEF Given
  <2>6. Given(f)' = (Given(f) \ {r}) \cup {r}
    BY <2>1, <2>3, <2>4 DEF Given
  <2>7. Cardinality(Given(f)') = Cardinality(Given(f) \ {r}) + 1
    BY <2>6, GivenIsFinite, FS_AddElement
  <2>8. friendCopy[w] <= Cardinality(Given(f) \ {r})
    BY <2>1, <2>3, <2>5 DEF CopyIsOld
  <2>9. friendCopy[w] \in Nat /\ Cardinality(Given(f) \ {r}) \in Nat
    BY GivenIsFinite DEF ReferralsTypeOK
  <2>10. OldCopy(w)'
    BY <2>1, <2>2, <2>5, <2>7, <2>8, <2>9 DEF OldCopy
  <2>11. QED BY <1>a, <2>1, <2>2, <2>10, OneMoves, PaidStays
<1>6. ASSUME NEW w \in Rewards, NEW u \in {"friend", "referrer"}, SaveAccount(w, u)
      PROVE CopyIsOld' /\ FriendPaidOnce'
  <2>1. UNCHANGED <<rewardGiven, stage, friend, referrer, friendCopy>> /\ stage[w] = "accounts"
    BY <1>6 DEF SaveAccount, recordVars
  <2>2. CopyIsOld'
    BY <2>1 DEF CopyIsOld, Given
  <2>3. CASE UNCHANGED friendBalance
    BY <1>a, <2>2, <2>3, PaidStays
  <2>4. CASE friendBalance' = [friendBalance EXCEPT ![friend[w]] = friendCopy[w] + 1]
    <3>1. \A f \in Friends : friendBalance'[f] <= Cardinality(Given(f))
      BY <2>1, <2>4 DEF CopyIsOld, FriendPaidOnce, ReferralsTypeOK
    <3>2. QED BY <2>1, <2>2, <3>1 DEF FriendPaidOnce, Given
  <2>5. QED BY <1>6, <2>3, <2>4 DEF SaveAccount
<1>7. ASSUME NEW w \in Rewards, Rewarded(w) \/ RewardCrash(w) PROVE CopyIsOld' /\ FriendPaidOnce'
  <2>1. UNCHANGED friendBalance /\ Stop(w)
    BY <1>7 DEF Rewarded, RewardCrash, balanceVars
  <2>2. OldCopy(w)' /\ \A v \in Rewards \ {w} : UNCHANGED <<stage[v], friend[v], referrer[v], friendCopy[v]>>
    BY <2>1 DEF Stop, OldCopy, ReferralsTypeOK
  <2>3. QED BY <1>a, <2>1, <2>2, OneMoves, PaidStays
<1>8. CASE UNCHANGED referralVars
  BY <1>8, <1>b DEF referralVars, balanceVars
<1>9. QED
  BY <1>1, <1>2, <1>3, <1>4, <1>5, <1>6, <1>7, <1>8 DEF ReferralsNext

\* The invariant holds in every reachable state.
THEOREM ReferralsInvariance == ReferralsSpec => []ReferralsInv
<1>1. ReferralsInit => ReferralsInv
  <2> SUFFICES ASSUME ReferralsInit PROVE ReferralsInv
    OBVIOUS
  <2>1. ReferralsTypeOK /\ RecordIsThere /\ CopyIsOld
    BY ReferralConstants DEF ReferralsInit, ReferralsTypeOK, RecordIsThere, CopyIsOld
  <2>2. FriendPaidOnce
    BY GivenIsFinite DEF ReferralsInit, FriendPaidOnce
  <2>3. QED BY <2>1, <2>2 DEF ReferralsInv
<1>2. ReferralsInv /\ [ReferralsNext]_referralVars => ReferralsInv'
  BY ReferralsTypeStep, RecordStep, CopyStep DEF ReferralsInv
<1>3. QED BY <1>1, <1>2, PTL DEF ReferralsSpec

\* Applications and rewards name a referrer and a friend while they are at
\* work, and only a record can be marked as rewarded (applyReferralCode,
\* authController.js:1147-1200).
THEOREM ReferralsTypeCorrect == ReferralsSpec => []ReferralsTypeOK
<1>1. ReferralsInv => ReferralsTypeOK
  BY DEF ReferralsInv
<1>2. QED BY <1>1, ReferralsInvariance, PTL

\* A friend is paid at most once for a record, although the record is checked
\* and marked in two steps and the balance is written from a copy
\* (processReferralRewardIfEligible, orderController.js:412-452).
THEOREM FriendPaidOnceAlways == ReferralsSpec => []FriendPaidOnce
<1>1. ReferralsInv => FriendPaidOnce
  BY DEF ReferralsInv
<1>2. QED BY <1>1, ReferralsInvariance, PTL
=============================================================================
