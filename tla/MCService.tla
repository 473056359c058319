------------------------------ MODULE MCService ------------------------------
(***************************************************************************)
(* The service's smaller parts for TLC, side by side.  They share no state *)
(* in these models, so a behaviour moves one part, chosen at the start:    *)
(* the states are the sum of the parts' and not their product.             *)
(***************************************************************************)
EXTENDS Coupons, Referrals, Sessions, Trials, Deliveries, Invoices, TLC

CONSTANTS everyone, first   \* two coupons

MCUsageLimit == [c \in CouponCodes |-> 1]

VARIABLE part

serviceVars ==
  <<part, couponVars, referralVars, sessionVars, trialsVars, deliveryVars, invoicesVars>>

Others(p) ==
  /\ UNCHANGED part
  /\ p = "coupons" \/ UNCHANGED couponVars
  /\ p = "referrals" \/ UNCHANGED referralVars
  /\ p = "sessions" \/ UNCHANGED sessionVars
  /\ p = "trials" \/ UNCHANGED trialsVars
  /\ p = "deliveries" \/ UNCHANGED deliveryVars
  /\ p = "invoices" \/ UNCHANGED invoicesVars

\* A part that does not move has one initial state.
MCInit ==
  /\ part \in {"coupons", "referrals", "sessions", "trials", "deliveries", "invoices"}
  /\ CouponsInit /\ ReferralsInit /\ SessionsInit
  /\ TrialsInit /\ DeliveriesInit /\ InvoicesInit
  /\ part = "coupons" \/ \A u \in Customers : ~hasOrder[u]
  /\ part = "trials" \/ (trial = "draft" /\ approval = "pending")
  /\ part = "invoices" \/ \A o \in InvoicedOrders : payable[o]

MCNext ==
  \/ part = "coupons"    /\ Others("coupons")    /\ CouponsNext
  \/ part = "referrals"  /\ Others("referrals")  /\ ReferralsNext
  \/ part = "sessions"   /\ Others("sessions")   /\ SessionsNext
  \/ part = "trials"     /\ Others("trials")     /\ TrialsNext
  \/ part = "deliveries" /\ Others("deliveries") /\ DeliveriesNext
  \/ part = "invoices"   /\ Others("invoices")   /\ InvoicesNext

MCSpec == MCInit /\ [][MCNext]_serviceVars

(* Executions, applications, sign-outs and riders differ in nothing but    *)
(* their names.  The parts share the names, so that one permutation serves *)
(* them all.                                                               *)
Symmetry == Permutations(Executions) \cup Permutations(Riders)

\* The type invariants of the parts.
ServiceTypeOK ==
  /\ CouponsTypeOK /\ ReferralsTypeOK /\ SessionsTypeOK
  /\ TrialsTypeOK /\ DeliveriesTypeOK /\ InvoicesTypeOK
=============================================================================
