----------------------------- MODULE Settlement -----------------------------
(***************************************************************************)
(* Settlement of delivered orders (services/financeService.js).  A paid    *)
(* order that was delivered credits the pending amounts of its vendor and  *)
(* its rider; settling a wallet moves all that is pending to the balance   *)
(* and marks the orders it paid; a reversal takes the credit back from     *)
(* wherever it is, and what it does not find it forgets.                   *)
(*                                                                         *)
(* Each of these is one database transaction that writes the wallet it     *)
(* reads, so that two of them conflict and one is run again: one step here.*)
(* Only the manual settlement reads its orders before its transaction.     *)
(* An order earns one unit for each of its payees.                         *)
(***************************************************************************)
EXTENDS Integers, FiniteSets

CONSTANTS
  Orders,
  Payees,       \* vendors and riders, one wallet each
  SharesOf,     \* the payees of each order: its vendor and its rider
  Operators     \* manual settlements under way

ASSUME SettlementConstants ==
  /\ IsFiniteSet(Orders)
  /\ SharesOf \in [Orders -> SUBSET Payees]

VARIABLES
  \* the order: the sale, its escrow, the payees credited, whether it was
  \* reversed, and the state of the payout to each payee
  sale, escrow, credited, reversed, payoutStatus,
  \* the wallet, and what the transactions of orders say it has earned
  pendingAmount, balance, earned,
  \* what a wallet was given beyond that (no field of the code)
  excess,
  \* the orders and the payee that a manual settlement has read
  list

orderVars == <<sale, escrow, credited, reversed, payoutStatus>>
settlementVars == <<orderVars, pendingAmount, balance, earned, excess, list>>

SettlementInit ==
  /\ sale = [o \in Orders |-> "paid"]
  /\ escrow = [o \in Orders |-> "held"]
  /\ credited = [o \in Orders |-> {}]
  /\ reversed = [o \in Orders |-> FALSE]
  /\ payoutStatus = [o \in Orders |-> [p \in Payees |-> "none"]]
  /\ pendingAmount = [p \in Payees |-> 0]
  /\ balance = [p \in Payees |-> 0]
  /\ earned = [p \in Payees |-> 0]
  /\ excess = [p \in Payees |-> 0]
  /\ list = [c \in Operators |-> [payee |-> "none", orders |-> {}]]

-----------------------------------------------------------------------------
\* The handlers of orderController and trackingController save the delivery
\* and then settle; a reversed order's caller saves it cancelled or refunded.
\* A rider's update may still deliver an order that was reversed before.
Deliver(o) ==
  /\ sale[o] = "paid"
  /\ sale' = [sale EXCEPT ![o] = "delivered"]
  /\ UNCHANGED <<escrow, credited, reversed, payoutStatus,
                 pendingAmount, balance, earned, excess, list>>

Close(o) ==
  /\ reversed[o] /\ sale[o] # "closed"
  /\ sale' = [sale EXCEPT ![o] = "closed"]
  /\ UNCHANGED <<escrow, credited, reversed, payoutStatus,
                 pendingAmount, balance, earned, excess, list>>

Plus(f, S, n) == [p \in Payees |-> IF p \in S THEN f[p] + n ELSE f[p]]

\* Fault seeded for PendingIsBacked: the flags are not looked at.
SettleAgain(o) ==
  /\ sale[o] = "delivered"
  /\ pendingAmount' = Plus(pendingAmount, SharesOf[o], 1)
  /\ earned' = Plus(earned, SharesOf[o], 1)
  /\ credited' = [credited EXCEPT ![o] = SharesOf[o]]
  /\ payoutStatus' = [payoutStatus EXCEPT ![o] =
       [p \in Payees |-> IF p \in SharesOf[o] THEN "pending" ELSE @[p]]]
  /\ escrow' = [escrow EXCEPT ![o] = "released"]
  /\ UNCHANGED <<sale, reversed, balance, excess, list>>

\* settleDeliveredOrder: whoever was not credited is, and the escrow is
\* released; neither asks whether the order was reversed.
SettleOrder(o) ==
  LET due == SharesOf[o] \ credited[o] IN
  /\ sale[o] = "delivered"
  /\ escrow[o] # "released" \/ due # {}
  /\ pendingAmount' = Plus(pendingAmount, due, 1)
  /\ earned' = Plus(earned, due, 1)
  /\ credited' = [credited EXCEPT ![o] = @ \cup due]
  /\ payoutStatus' = [payoutStatus EXCEPT ![o] =
       [p \in Payees |-> IF p \in due THEN "pending" ELSE @[p]]]
  /\ escrow' = [escrow EXCEPT ![o] = "released"]
  /\ UNCHANGED <<sale, reversed, balance, excess, list>>

\* Fault seeded for AccountsAddUp: what is pending does not shield the balance.
ReverseTwice(o) ==
  LET S == credited[o] IN
  /\ ~reversed[o]
  /\ pendingAmount' = [p \in Payees |->
       IF p \in S /\ pendingAmount[p] > 0 THEN pendingAmount[p] - 1 ELSE pendingAmount[p]]
  /\ balance' = [p \in Payees |->
       IF p \in S /\ balance[p] > 0 THEN balance[p] - 1 ELSE balance[p]]
  /\ earned' = Plus(earned, S, -1)
  /\ reversed' = [reversed EXCEPT ![o] = TRUE]
  /\ payoutStatus' = [payoutStatus EXCEPT ![o] = [p \in Payees |-> "reversed"]]
  /\ escrow' = [escrow EXCEPT ![o] = "refunded"]
  /\ UNCHANGED <<sale, credited, excess, list>>

\* reverseOrderSettlement: first from what is pending, the rest from the
\* balance, the rest of that from nowhere.
Reverse(o) ==
  LET S == credited[o]
      fromBalance == {p \in S : pendingAmount[p] = 0 /\ balance[p] > 0}
      fromNowhere == {p \in S : pendingAmount[p] = 0 /\ balance[p] = 0}
  IN /\ ~reversed[o]
     /\ pendingAmount' = Plus(pendingAmount, {p \in S : pendingAmount[p] > 0}, -1)
     /\ balance' = Plus(balance, fromBalance, -1)
     /\ excess' = Plus(excess, fromNowhere, 1)
     /\ earned' = Plus(earned, S, -1)
     /\ reversed' = [reversed EXCEPT ![o] = TRUE]
     /\ payoutStatus' = [payoutStatus EXCEPT ![o] = [p \in Payees |-> "reversed"]]
     /\ escrow' = [escrow EXCEPT ![o] = "refunded"]
     /\ UNCHANGED <<sale, credited, list>>

Unsettled(p) == {o \in Orders : /\ p \in SharesOf[o]
                                /\ sale[o] = "delivered"
                                /\ payoutStatus[o][p] = "pending"}

\* settleVendorWallet and settleRiderWallet: all that is pending is moved, and
\* the orders S are marked whatever has become of them.
SettleWallet(p, S) ==
  /\ pendingAmount[p] > 0 /\ S # {}
  /\ balance' = [balance EXCEPT ![p] = @ + pendingAmount[p]]
  /\ pendingAmount' = [pendingAmount EXCEPT ![p] = 0]
  /\ payoutStatus' = [o \in Orders |->
       IF o \in S THEN [payoutStatus[o] EXCEPT ![p] = "processed"] ELSE payoutStatus[o]]
  /\ escrow' = [o \in Orders |-> IF o \in S THEN "released" ELSE escrow[o]]
  /\ UNCHANGED <<sale, credited, reversed, earned, excess>>

\* Fault seeded for ReversedIsFinal: the state of the payout is not asked for.
AutoSettleDelivered(p) ==
  /\ SettleWallet(p, {o \in Orders : p \in SharesOf[o] /\ sale[o] = "delivered"})
  /\ UNCHANGED list

\* runAutomaticSettlements: the orders are read in the transaction.
AutoSettle(p) == SettleWallet(p, Unsettled(p)) /\ UNCHANGED list

\* settleVendorPayouts and settleRiderPayouts: read, then settle.
ManualRead(c, p) ==
  /\ list[c].orders = {} /\ Unsettled(p) # {}
  /\ list' = [list EXCEPT ![c] = [payee |-> p, orders |-> Unsettled(p)]]
  /\ UNCHANGED <<orderVars, pendingAmount, balance, earned, excess>>

ManualSettle(c) ==
  /\ list[c].orders # {}
  /\ \/ SettleWallet(list[c].payee, list[c].orders)
     \/ /\ pendingAmount[list[c].payee] = 0
        /\ UNCHANGED <<orderVars, pendingAmount, balance, earned, excess>>
  /\ list' = [list EXCEPT ![c] = [payee |-> "none", orders |-> {}]]

SettlementNext ==
  \/ \E o \in Orders : Deliver(o) \/ Close(o) \/ SettleOrder(o) \/ Reverse(o)
  \/ \E p \in Payees : AutoSettle(p)
  \/ \E c \in Operators : ManualSettle(c) \/ \E p \in Payees : ManualRead(c, p)

-----------------------------------------------------------------------------
(* Properties.                                                             *)

SettlementTypeOK ==
  /\ sale \in [Orders -> {"paid", "delivered", "closed"}]
  /\ escrow \in [Orders -> {"held", "released", "refunded"}]
  /\ credited \in [Orders -> SUBSET Payees]
  /\ reversed \in [Orders -> BOOLEAN]
  /\ payoutStatus \in [Orders -> [Payees -> {"none", "pending", "processed", "reversed"}]]
  /\ pendingAmount \in [Payees -> Nat]
  /\ balance \in [Payees -> Nat]
  /\ earned \in [Payees -> Nat]
  /\ excess \in [Payees -> Nat]
  /\ list \in [Operators -> [payee : Payees \cup {"none"}, orders : SUBSET Orders]]

\* What waits in a wallet to be settled is never more than the orders that
\* wait: a reversal may take from the pending amount of another order, never
\* the other way round (financeService.js:722-727, 829-871).
PendingIsBacked ==
  \A p \in Payees :
    pendingAmount[p] <= Cardinality({o \in Orders : payoutStatus[o][p] = "pending"})

\* The payout of a reversed order is marked as made only by a manual settlement
\* that had listed the order before the reversal; the automatic one reads its
\* orders in its transaction (financeService.js:829-871, financeController.js:1499).
ReversedIsFinal ==
  [][\A o \in Orders : \A p \in Payees :
       payoutStatus[o][p] = "reversed" /\ p \in credited[o] /\ payoutStatus'[o][p] # "reversed"
         => \E c \in Operators : list[c].payee = p /\ o \in list[c].orders]_settlementVars
=============================================================================
