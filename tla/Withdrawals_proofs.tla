------------------------- MODULE Withdrawals_proofs -------------------------
(***************************************************************************)
(* The wallets, for any orders, requests and approvals: that money adds    *)
(* up, that what is reserved belongs to the open request, and when a       *)
(* request is paid out twice.                                              *)
(***************************************************************************)
EXTENDS Withdrawals, FiniteSetTheorems, TLAPS

(* An open approval holds its request, which no other step can then move;  *)
(* a payout was made by an approval that got past the call; an approval    *)
(* that is done has left its request processing or further.                *)
Unapproved == {"absent", "pending", "manual_review"}

ApprovalsHold ==
  \A c \in Approvals :
    /\ at[c] = "idle" <=> subject[c] = NoRequest
    /\ at[c] \in {"pay", "save", "error"} =>
         holder[subject[c]] = c /\ status[subject[c]] \in {"pending", "manual_review"}
    /\ at[c] \in {"idle", "pay"} => bank[c] = "none"
    /\ at[c] \in {"save", "done"} => bank[c] # "none"
    /\ at[c] = "done" => status[subject[c]] \notin Unapproved
    /\ \A d \in Approvals :
         at[c] = "done" /\ at[d] = "done" /\ subject[c] = subject[d] => c = d

(* A request names a payout that was made for it, and a request that is    *)
(* processing names one; its amount was returned as its status says.       *)
RequestsFit ==
  \A r \in Requests :
    /\ payoutId[r] # NoApproval => subject[payoutId[r]] = r /\ bank[payoutId[r]] # "none"
    /\ status[r] = "processing" => payoutId[r] # NoApproval
    /\ status[r] \in Open \cup {"absent", "paid"} => returned[r] = 0
    /\ status[r] \in {"failed", "reversed"} => returned[r] = 1
    /\ status[r] \in Unapproved => job[r] = "none"

(* What a wallet has earned covers every credit that may be reversed.      *)
Reversible(p) == {o \in Orders : ~reversed[o] /\ p \in credited[o]}

EarnedCovers == \A p \in Payees : Cardinality(Reversible(p)) <= earned[p]

(* Only a credited payout is pending or made, and only such are listed.    *)
Credits ==
  /\ \A o \in Orders, p \in Payees :
       payoutStatus[o][p] \in {"pending", "processed"} => p \in credited[o]
  /\ \A c \in Operators : \A o \in list[c].orders : list[c].payee \in credited[o]

Base == TypeOK /\ ApprovalsHold /\ RequestsFit /\ EarnedCovers

\* What a change of a request's status may be.
LEMMA Transitions ==
  ASSUME NEW from, NEW to, Transition(from, to)
  PROVE  /\ from \in {"pending", "manual_review", "processing", "failed"}
         /\ to \in {"manual_review", "processing", "paid", "failed", "reversed", "cancelled"}
         /\ to = "paid" => from = "processing"
         /\ from = "failed" => to = "cancelled"
         /\ to = "reversed" => from = "processing"
BY DEF Transition

-----------------------------------------------------------------------------
(* The settlement of orders.                                               *)

\* The credits that may be reversed are finitely many, before and after a step.
LEMMA ReversibleIsFinite ==
  ASSUME NEW p
  PROVE  /\ IsFiniteSet(Reversible(p)) /\ Cardinality(Reversible(p)) \in Nat
         /\ IsFiniteSet(Reversible(p)') /\ Cardinality(Reversible(p)') \in Nat
<1>1. IsFiniteSet(Orders)
  BY SettlementConstants
<1>2. Reversible(p) \in SUBSET Orders /\ Reversible(p)' \in SUBSET Orders
  BY DEF Reversible
<1>3. IsFiniteSet(Reversible(p)) /\ IsFiniteSet(Reversible(p)')
  BY <1>1, <1>2, FS_Subset
<1>4. QED BY <1>3, FS_CardinalityType

\* Every step of the settlement keeps the types, and what is earned covers what
\* may be reversed.
LEMMA SettlementStep ==
  ASSUME SettlementTypeOK, Credits, EarnedCovers, SettlementNext
  PROVE SettlementTypeOK' /\ EarnedCovers'
<1> USE SettlementConstants
<1>1. ASSUME UNCHANGED <<reversed, credited, earned>> PROVE EarnedCovers'
  BY <1>1 DEF EarnedCovers, Reversible
<1>2. ASSUME NEW o \in Orders, Deliver(o) \/ Close(o) PROVE SettlementTypeOK' /\ EarnedCovers'
  BY <1>1, <1>2 DEF Deliver, Close, SettlementTypeOK
<1>3. ASSUME NEW o \in Orders, SettleOrder(o) PROVE SettlementTypeOK' /\ EarnedCovers'
  <2> DEFINE due == SharesOf[o] \ credited[o]
  <2>1. due \in SUBSET Payees
    OBVIOUS
  <2>2. /\ pendingAmount' = Plus(pendingAmount, due, 1)
        /\ earned' = Plus(earned, due, 1)
        /\ credited' = [credited EXCEPT ![o] = @ \cup due]
        /\ payoutStatus' = [payoutStatus EXCEPT ![o] =
             [p \in Payees |-> IF p \in due THEN "pending" ELSE payoutStatus[o][p]]]
        /\ escrow' = [escrow EXCEPT ![o] = "released"]
        /\ UNCHANGED <<sale, reversed, balance, excess, list>>
    BY <1>3 DEF SettleOrder
  <2> HIDE DEF due
  <2>3. pendingAmount' \in [Payees -> Nat] /\ earned' \in [Payees -> Nat]
    BY <2>2 DEF Plus, SettlementTypeOK
  <2>4. credited' \in [Orders -> SUBSET Payees]
    BY <2>1, <2>2 DEF SettlementTypeOK
  <2>5. payoutStatus' \in [Orders -> [Payees -> {"none", "pending", "processed", "reversed"}]]
    <3>1. [p \in Payees |-> IF p \in due THEN "pending" ELSE payoutStatus[o][p]]
            \in [Payees -> {"none", "pending", "processed", "reversed"}]
      BY DEF SettlementTypeOK
    <3>2. QED BY <2>2, <3>1 DEF SettlementTypeOK
  <2>6. SettlementTypeOK'
    BY <2>2, <2>3, <2>4, <2>5 DEF SettlementTypeOK
  <2>7. ASSUME NEW p \in Payees PROVE Cardinality(Reversible(p)') <= earned'[p]
    <3>1. CASE p \in due
      <4>1. Reversible(p)' \in SUBSET (Reversible(p) \cup {o})
        BY <2>2 DEF Reversible, SettlementTypeOK
      <4>2. /\ IsFiniteSet(Reversible(p) \cup {o})
            /\ Cardinality(Reversible(p) \cup {o}) \in Nat
            /\ Cardinality(Reversible(p) \cup {o}) <= Cardinality(Reversible(p)) + 1
        <5>1. IsFiniteSet(Reversible(p)) /\ Cardinality(Reversible(p)) \in Nat
          BY ReversibleIsFinite
        <5>2. /\ IsFiniteSet(Reversible(p) \cup {o})
              /\ Cardinality(Reversible(p) \cup {o}) =
                   IF o \in Reversible(p) THEN Cardinality(Reversible(p)) ELSE Cardinality(Reversible(p)) + 1
          BY <5>1, FS_AddElement
        <5>3. QED BY <5>1, <5>2
      <4>3. Cardinality(Reversible(p)') <= Cardinality(Reversible(p) \cup {o})
        BY <4>1, <4>2, FS_Subset
      <4>4. earned'[p] = earned[p] + 1 /\ earned[p] \in Nat
        BY <2>2, <3>1 DEF Plus, SettlementTypeOK
      <4>5. QED BY <4>2, <4>3, <4>4, ReversibleIsFinite DEF EarnedCovers
    <3>2. CASE p \notin due
      <4>1. Reversible(p)' = Reversible(p)
        BY <2>2, <3>2 DEF Reversible, SettlementTypeOK
      <4>2. earned'[p] = earned[p]
        BY <2>2, <3>2 DEF Plus, SettlementTypeOK
      <4>3. QED BY <4>1, <4>2 DEF EarnedCovers
    <3>3. QED BY <3>1, <3>2
  <2>8. QED BY <2>6, <2>7 DEF EarnedCovers, Reversible
<1>4. ASSUME NEW o \in Orders, Reverse(o) PROVE SettlementTypeOK' /\ EarnedCovers'
  <2>1. /\ ~reversed[o]
        /\ pendingAmount' = Plus(pendingAmount, {p \in credited[o] : pendingAmount[p] > 0}, -1)
        /\ balance' = Plus(balance, {p \in credited[o] : pendingAmount[p] = 0 /\ balance[p] > 0}, -1)
        /\ excess' = Plus(excess, {p \in credited[o] : pendingAmount[p] = 0 /\ balance[p] = 0}, 1)
        /\ earned' = Plus(earned, credited[o], -1)
        /\ reversed' = [reversed EXCEPT ![o] = TRUE]
        /\ payoutStatus' = [payoutStatus EXCEPT ![o] = [p \in Payees |-> "reversed"]]
        /\ escrow' = [escrow EXCEPT ![o] = "refunded"]
        /\ UNCHANGED <<sale, credited, list>>
    BY <1>4 DEF Reverse
  <2>2. pendingAmount' \in [Payees -> Nat] /\ balance' \in [Payees -> Nat] /\ excess' \in [Payees -> Nat]
    BY <2>1 DEF Plus, SettlementTypeOK
  <2>3. ASSUME NEW p \in Payees
        PROVE Cardinality(Reversible(p)') <= earned'[p] /\ earned'[p] \in Nat
    <3>0. earned[p] \in Nat /\ Cardinality(Reversible(p)) <= earned[p]
      BY DEF SettlementTypeOK, EarnedCovers
    <3>1. CASE p \in credited[o]
      <4>1. Reversible(p)' = Reversible(p) \ {o} /\ o \in Reversible(p)
        BY <2>1, <3>1 DEF Reversible, SettlementTypeOK
      <4>2. Cardinality(Reversible(p)') = Cardinality(Reversible(p)) - 1
        BY <4>1, ReversibleIsFinite, FS_RemoveElement
      <4>3. earned'[p] = earned[p] + -1
        BY <2>1, <3>1 DEF Plus
      <4>4. QED BY <3>0, <4>2, <4>3, ReversibleIsFinite
    <3>2. CASE p \notin credited[o]
      <4>1. Reversible(p)' = Reversible(p)
        BY <2>1, <3>2 DEF Reversible, SettlementTypeOK
      <4>2. earned'[p] = earned[p]
        BY <2>1, <3>2 DEF Plus
      <4>3. QED BY <3>0, <4>1, <4>2
    <3>3. QED BY <3>1, <3>2
  <2>4. earned' \in [Payees -> Nat]
    BY <2>1, <2>3 DEF Plus
  <2>5. SettlementTypeOK'
    BY <2>1, <2>2, <2>4 DEF SettlementTypeOK
  <2>6. QED BY <2>3, <2>5 DEF EarnedCovers, Reversible
<1>5. ASSUME NEW p \in Payees, NEW S \in SUBSET Orders, SettleWallet(p, S)
      PROVE /\ EarnedCovers'
            /\ list' \in [Operators -> [payee : Payees \cup {"none"}, orders : SUBSET Orders]] => SettlementTypeOK'
  <2>1. payoutStatus' \in [Orders -> [Payees -> {"none", "pending", "processed", "reversed"}]]
    <3>1. \A o \in Orders : [payoutStatus[o] EXCEPT ![p] = "processed"]
            \in [Payees -> {"none", "pending", "processed", "reversed"}]
      BY DEF SettlementTypeOK
    <3>2. QED BY <1>5, <3>1 DEF SettleWallet, SettlementTypeOK
  <2>2. pendingAmount' \in [Payees -> Nat] /\ balance' \in [Payees -> Nat]
    BY <1>5 DEF SettleWallet, SettlementTypeOK
  <2>3. escrow' \in [Orders -> {"held", "released", "refunded"}]
    BY <1>5 DEF SettleWallet, SettlementTypeOK
  <2>4. QED BY <1>1, <1>5, <2>1, <2>2, <2>3 DEF SettleWallet, SettlementTypeOK
<1>6. ASSUME NEW p \in Payees, AutoSettle(p) PROVE SettlementTypeOK' /\ EarnedCovers'
  <2>1. Unsettled(p) \in SUBSET Orders
    BY DEF Unsettled
  <2>2. QED BY <1>5, <1>6, <2>1 DEF AutoSettle, SettlementTypeOK
<1>7. ASSUME NEW c \in Operators, NEW p \in Payees, ManualRead(c, p) PROVE SettlementTypeOK' /\ EarnedCovers'
  BY <1>1, <1>7 DEF ManualRead, SettlementTypeOK, Unsettled, orderVars
<1>8. ASSUME NEW c \in Operators, ManualSettle(c) PROVE SettlementTypeOK' /\ EarnedCovers'
  <2>1. list' \in [Operators -> [payee : Payees \cup {"none"}, orders : SUBSET Orders]]
    BY <1>8 DEF ManualSettle, SettlementTypeOK
  <2>2. CASE UNCHANGED <<orderVars, pendingAmount, balance, earned, excess>>
    BY <1>1, <2>1, <2>2 DEF orderVars, SettlementTypeOK
  <2>3. CASE SettleWallet(list[c].payee, list[c].orders)
    <3>1. list[c].orders \in SUBSET Orders /\ list[c].payee \in Payees
      BY <1>8 DEF ManualSettle, SettlementTypeOK, Credits
    <3>2. QED BY <1>5, <2>1, <2>3, <3>1
  <2>4. QED BY <1>8, <2>2, <2>3 DEF ManualSettle
<1>9. QED
  BY <1>2, <1>3, <1>4, <1>6, <1>7, <1>8 DEF SettlementNext

Waiting(p) == {o \in Orders : payoutStatus[o][p] = "pending"}

\* The orders that wait for a payout are finitely many.
LEMMA WaitingIsFinite ==
  ASSUME NEW p
  PROVE  /\ IsFiniteSet(Waiting(p)) /\ Cardinality(Waiting(p)) \in Nat
         /\ IsFiniteSet(Waiting(p)') /\ Cardinality(Waiting(p)') \in Nat
<1>1. IsFiniteSet(Orders)
  BY SettlementConstants
<1>2. Waiting(p) \in SUBSET Orders /\ Waiting(p)' \in SUBSET Orders
  BY DEF Waiting
<1>3. IsFiniteSet(Waiting(p)) /\ IsFiniteSet(Waiting(p)')
  BY <1>1, <1>2, FS_Subset
<1>4. QED BY <1>3, FS_CardinalityType

\* Every step of the settlement leaves credits and pending amounts in step: a
\* credit adds one to both, a reversal takes at most one from the orders that
\* wait and one from the amount whenever there is one.
LEMMA PendingStep ==
  ASSUME SettlementTypeOK, Credits, PendingIsBacked, SettlementNext
  PROVE Credits' /\ PendingIsBacked'
<1> USE SettlementConstants
<1>a. \A p \in Payees : pendingAmount[p] <= Cardinality(Waiting(p)) /\ pendingAmount[p] \in Nat
  BY DEF PendingIsBacked, Waiting, SettlementTypeOK
<1>b. ASSUME UNCHANGED <<payoutStatus, credited, list, pendingAmount>> PROVE Credits' /\ PendingIsBacked'
  BY <1>b DEF Credits, PendingIsBacked
<1>c. ASSUME \A p \in Payees : pendingAmount'[p] <= Cardinality(Waiting(p)') PROVE PendingIsBacked'
  BY <1>c DEF PendingIsBacked, Waiting
<1>1. ASSUME NEW o \in Orders, Deliver(o) \/ Close(o) PROVE Credits' /\ PendingIsBacked'
  BY <1>b, <1>1 DEF Deliver, Close
<1>2. ASSUME NEW o \in Orders, SettleOrder(o) PROVE Credits' /\ PendingIsBacked'
  <2> DEFINE due == SharesOf[o] \ credited[o]
  <2>1. /\ pendingAmount' = Plus(pendingAmount, due, 1)
        /\ credited' = [credited EXCEPT ![o] = @ \cup due]
        /\ payoutStatus' = [payoutStatus EXCEPT ![o] =
             [p \in Payees |-> IF p \in due THEN "pending" ELSE payoutStatus[o][p]]]
        /\ UNCHANGED list
    BY <1>2 DEF SettleOrder
  <2>2. due \cap credited[o] = {}
    OBVIOUS
  <2> HIDE DEF due
  <2>3. Credits'
    BY <2>1 DEF Credits, SettlementTypeOK
  <2>4. ASSUME NEW p \in Payees PROVE pendingAmount'[p] <= Cardinality(Waiting(p)')
    <3>1. CASE p \in due
      <4>1. Waiting(p)' = Waiting(p) \cup {o} /\ o \notin Waiting(p)
        BY <2>1, <2>2, <3>1 DEF Waiting, Credits, SettlementTypeOK
      <4>2. Cardinality(Waiting(p)') = Cardinality(Waiting(p)) + 1
        BY <4>1, WaitingIsFinite, FS_AddElement
      <4>3. pendingAmount'[p] = pendingAmount[p] + 1
        BY <2>1, <3>1 DEF Plus
      <4>4. QED BY <1>a, <4>2, <4>3, WaitingIsFinite
    <3>2. CASE p \notin due
      <4>1. Waiting(p)' = Waiting(p)
        BY <2>1, <3>2 DEF Waiting, SettlementTypeOK
      <4>2. pendingAmount'[p] = pendingAmount[p]
        BY <2>1, <3>2 DEF Plus
      <4>3. QED BY <1>a, <4>1, <4>2
    <3>3. QED BY <3>1, <3>2
  <2>5. QED BY <1>c, <2>3, <2>4
<1>3. ASSUME NEW o \in Orders, Reverse(o) PROVE Credits' /\ PendingIsBacked'
  <2>1. /\ pendingAmount' = Plus(pendingAmount, {p \in credited[o] : pendingAmount[p] > 0}, -1)
        /\ payoutStatus' = [payoutStatus EXCEPT ![o] = [p \in Payees |-> "reversed"]]
        /\ UNCHANGED <<credited, list>>
    BY <1>3 DEF Reverse
  <2>2. Credits'
    BY <2>1 DEF Credits, SettlementTypeOK
  <2>3. ASSUME NEW p \in Payees PROVE pendingAmount'[p] <= Cardinality(Waiting(p)')
    <3>1. Waiting(p)' = Waiting(p) \ {o}
      BY <2>1 DEF Waiting, SettlementTypeOK
    <3>2. Cardinality(Waiting(p)') = IF o \in Waiting(p) THEN Cardinality(Waiting(p)) - 1 ELSE Cardinality(Waiting(p))
      BY <3>1, WaitingIsFinite, FS_RemoveElement
    <3>3. CASE p \in credited[o]
      <4>1. pendingAmount'[p] = IF pendingAmount[p] > 0 THEN pendingAmount[p] + -1 ELSE pendingAmount[p]
        BY <2>1, <3>3 DEF Plus
      <4>2. QED BY <1>a, <3>2, <4>1, WaitingIsFinite
    <3>4. CASE p \notin credited[o]
      <4>1. o \notin Waiting(p) /\ pendingAmount'[p] = pendingAmount[p]
        BY <2>1, <3>4 DEF Waiting, Credits, Plus
      <4>2. QED BY <1>a, <3>2, <4>1
    <3>5. QED BY <3>3, <3>4
  <2>4. QED BY <1>c, <2>2, <2>3
<1>4. ASSUME NEW p \in Payees, NEW S \in SUBSET Orders, SettleWallet(p, S), \A o \in S : p \in credited[o],
             \A c \in Operators : list'[c] = list[c] \/ list'[c].orders = {}
      PROVE Credits' /\ PendingIsBacked'
  <2>1. /\ pendingAmount' = [pendingAmount EXCEPT ![p] = 0] /\ UNCHANGED credited
        /\ payoutStatus' = [o \in Orders |->
             IF o \in S THEN [payoutStatus[o] EXCEPT ![p] = "processed"] ELSE payoutStatus[o]]
    BY <1>4 DEF SettleWallet
  <2>2. \A o \in Orders, q \in Payees :
          payoutStatus'[o][q] = IF o \in S /\ q = p THEN "processed" ELSE payoutStatus[o][q]
    BY <2>1 DEF SettlementTypeOK
  <2>3. Credits'
    BY <1>4, <2>1, <2>2 DEF Credits
  <2>4. ASSUME NEW q \in Payees PROVE pendingAmount'[q] <= Cardinality(Waiting(q)')
    <3>1. CASE q = p
      BY <2>1, <3>1, WaitingIsFinite DEF SettlementTypeOK
    <3>2. CASE q # p
      <4>1. Waiting(q)' = Waiting(q)
        BY <2>2, <3>2 DEF Waiting
      <4>2. QED BY <1>a, <2>1, <3>2, <4>1 DEF SettlementTypeOK
    <3>3. QED BY <3>1, <3>2
  <2>5. QED BY <1>c, <2>3, <2>4
<1>5. ASSUME NEW p \in Payees, AutoSettle(p) PROVE Credits' /\ PendingIsBacked'
  <2>1. Unsettled(p) \in SUBSET Orders /\ \A o \in Unsettled(p) : p \in credited[o]
    BY DEF Unsettled, Credits
  <2>2. QED BY <1>4, <1>5, <2>1 DEF AutoSettle
<1>6. ASSUME NEW c \in Operators, NEW p \in Payees, ManualRead(c, p) PROVE Credits' /\ PendingIsBacked'
  <2>1. \A o \in Unsettled(p) : o \in Orders /\ p \in credited[o]
    BY DEF Unsettled, Credits
  <2>2. /\ UNCHANGED <<payoutStatus, credited, pendingAmount>>
        /\ \A d \in Operators : list'[d] = IF d = c THEN [payee |-> p, orders |-> Unsettled(p)] ELSE list[d]
    BY <1>6 DEF ManualRead, orderVars, SettlementTypeOK
  <2>3. QED BY <2>1, <2>2 DEF Credits, PendingIsBacked
<1>7. ASSUME NEW c \in Operators, ManualSettle(c) PROVE Credits' /\ PendingIsBacked'
  <2>1. \A d \in Operators : list'[d] = IF d = c THEN [payee |-> "none", orders |-> {}] ELSE list[d]
    BY <1>7 DEF ManualSettle, SettlementTypeOK
  <2>2. CASE UNCHANGED <<orderVars, pendingAmount, balance, earned, excess>>
    BY <2>1, <2>2 DEF orderVars, Credits, PendingIsBacked
  <2>3. CASE SettleWallet(list[c].payee, list[c].orders)
    <3>1. /\ list[c].orders \in SUBSET Orders /\ list[c].payee \in Payees
          /\ \A o \in list[c].orders : list[c].payee \in credited[o]
      BY <1>7 DEF ManualSettle, SettlementTypeOK, Credits
    <3>2. QED BY <1>4, <2>1, <2>3, <3>1
  <2>4. QED BY <1>7, <2>2, <2>3 DEF ManualSettle
<1>8. QED
  BY <1>1, <1>2, <1>3, <1>5, <1>6, <1>7 DEF SettlementNext

\* The payout of a reversed order is not marked as made, except by a manual
\* settlement that has listed it.
LEMMA ReversedStep ==
  ASSUME SettlementTypeOK, Credits, SettlementNext, NEW o \in Orders, NEW p \in Payees,
         payoutStatus[o][p] = "reversed", p \in credited[o], payoutStatus'[o][p] # "reversed"
  PROVE \E c \in Operators : list[c].payee = p /\ o \in list[c].orders
<1>1. ASSUME NEW q \in Payees, NEW S \in SUBSET Orders, SettleWallet(q, S) PROVE q = p /\ o \in S
  BY <1>1 DEF SettleWallet, SettlementTypeOK
<1>2. ASSUME NEW b \in Orders, Deliver(b) \/ Close(b) PROVE FALSE
  BY <1>2 DEF Deliver, Close
<1>3. ASSUME NEW b \in Orders, SettleOrder(b) PROVE FALSE
  BY <1>3 DEF SettleOrder, SettlementTypeOK
<1>4. ASSUME NEW b \in Orders, Reverse(b) PROVE FALSE
  BY <1>4 DEF Reverse, SettlementTypeOK
<1>5. ASSUME NEW q \in Payees, AutoSettle(q) PROVE FALSE
  <2>1. Unsettled(q) \in SUBSET Orders
    BY DEF Unsettled
  <2>2. q = p /\ o \in Unsettled(q)
    BY <1>1, <1>5, <2>1 DEF AutoSettle
  <2>3. QED BY <2>2 DEF Unsettled
<1>6. ASSUME NEW c \in Operators, NEW q \in Payees, ManualRead(c, q) PROVE FALSE
  BY <1>6 DEF ManualRead, orderVars
<1>7. ASSUME NEW c \in Operators, ManualSettle(c) PROVE list[c].payee = p /\ o \in list[c].orders
  <2>1. list[c].orders \in SUBSET Orders /\ list[c].payee \in Payees
    BY <1>7 DEF ManualSettle, SettlementTypeOK, Credits
  <2>2. SettleWallet(list[c].payee, list[c].orders)
    BY <1>7 DEF ManualSettle, orderVars
  <2>3. QED BY <1>1, <2>1, <2>2
<1>8. QED
  BY <1>2, <1>3, <1>4, <1>5, <1>6, <1>7 DEF SettlementNext
-----------------------------------------------------------------------------
(* Withdrawals: types, and what approvals hold.                            *)

(* What the resolution of a request writes.                                *)
WalletTypes ==
  /\ balance \in [Payees -> Nat] /\ excess \in [Payees -> Nat]
  /\ reserved \in [Payees -> Nat] /\ withdrawn \in [Payees -> Nat]
  /\ status \in [Requests -> {"absent", "paid", "failed", "reversed", "cancelled"} \cup Open]
  /\ amount \in [Requests -> 0 .. MaxAmount]
  /\ payoutId \in [Requests -> Approvals \cup {NoApproval}]
  /\ returned \in [Requests -> 0 .. 2]

ApprovalTypes ==
  /\ holder \in [Requests -> Approvals \cup {NoApproval}]
  /\ byHand \subseteq Requests
  /\ job \in [Requests -> Final \cup {"none", "idle"}]
  /\ at \in [Approvals -> {"idle", "pay", "save", "error", "mark", "done", "lost", "errored"}]
  /\ subject \in [Approvals -> Requests \cup {NoRequest}]
  /\ bank \in [Approvals -> Final \cup {"none", "queued"}]

\* The types hold after a step that keeps those parts.
LEMMA Types ==
  ASSUME TypeOK, UNCHANGED untouched, WalletTypes', ApprovalTypes'
  PROVE TypeOK'
BY DEF TypeOK, SettlementTypeOK, WalletTypes, ApprovalTypes, untouched, orderVars

(* A request is marked: completed, or failed and its amount given back.    *)
Marks(r, s, c) ==
  /\ holder[r] = NoApproval /\ status' = [status EXCEPT ![r] = s]
  /\ UNCHANGED <<amount, untouched>>
  /\ payoutId' = [payoutId EXCEPT ![r] = c] \/ (c = NoApproval /\ UNCHANGED payoutId)
  /\ \/ s = "paid" /\ status[r] = "processing" /\ UNCHANGED returned
     \/ /\ s \in {"failed", "reversed", "cancelled"}
        /\ status[r] \in {"pending", "manual_review", "processing", "failed"}
        /\ status[r] = "failed" => s = "cancelled"
        /\ s = "reversed" => status[r] = "processing"
        /\ returned' = [returned EXCEPT ![r] = @ + 1]

LEMMA FailMarks ==
  ASSUME TypeOK, RequestsFit, NEW r \in Requests, NEW s \in Final \ {"processed"},
         NEW c \in Approvals \cup {NoApproval}, Fail(r, s, c)
  PROVE WalletTypes' /\ Marks(r, s, c)
<1> USE WithdrawalConstants
<1>1. /\ holder[r] = NoApproval /\ status[r] \in {"pending", "manual_review", "processing", "failed"}
      /\ status[r] = "failed" => s = "cancelled"
      /\ s = "reversed" => status[r] = "processing"
  BY Transitions DEF Fail
<1>2. Requester[r] \in Payees /\ amount[r] \in Nat /\ returned[r] \in 0 .. 1
  BY <1>1 DEF TypeOK, RequestsFit, Open
<1>3. /\ reserved' = [reserved EXCEPT ![Requester[r]] = Monus(reserved[Requester[r]], amount[r])]
      /\ balance' = [balance EXCEPT ![Requester[r]] = balance[Requester[r]] + amount[r]]
      /\ returned' = [returned EXCEPT ![r] = returned[r] + 1]
      /\ excess' = IF returned[r] = 0 THEN excess
                   ELSE [excess EXCEPT ![Requester[r]] = excess[Requester[r]] + amount[r]]
      /\ status' = [status EXCEPT ![r] = s]
      /\ payoutId' = [payoutId EXCEPT ![r] = IF c = NoApproval THEN payoutId[r] ELSE c]
      /\ UNCHANGED <<withdrawn, amount, untouched>>
  BY DEF Fail, GiveBack
<1>4. Monus(reserved[Requester[r]], amount[r]) \in Nat
  BY <1>2 DEF TypeOK, Monus
<1>5. WalletTypes'
  BY <1>2, <1>3, <1>4 DEF WalletTypes, TypeOK, SettlementTypeOK, Final, Open
<1>6. payoutId' = [payoutId EXCEPT ![r] = c] \/ (c = NoApproval /\ UNCHANGED payoutId)
  <2>1. CASE c = NoApproval
    <3>1. payoutId' = [payoutId EXCEPT ![r] = payoutId[r]]
      BY <1>3, <2>1
    <3>2. payoutId' = payoutId
      BY <3>1 DEF TypeOK
    <3>3. QED BY <2>1, <3>2
  <2>2. CASE c # NoApproval
    BY <1>3, <2>2
  <2>3. QED BY <2>1, <2>2
<1>7. QED BY <1>1, <1>3, <1>5, <1>6 DEF Marks, Final

LEMMA CompleteMarks ==
  ASSUME TypeOK, NEW r \in Requests, NEW c \in Approvals \cup {NoApproval}, Complete(r, c)
  PROVE WalletTypes' /\ Marks(r, "paid", c)
<1> USE WithdrawalConstants
<1>1. holder[r] = NoApproval /\ status[r] = "processing"
  BY Transitions DEF Complete
<1>2. Requester[r] \in Payees /\ amount[r] \in Nat
  BY DEF TypeOK
<1>3. /\ reserved' = [reserved EXCEPT ![Requester[r]] = Monus(reserved[Requester[r]], amount[r])]
      /\ withdrawn' = [withdrawn EXCEPT ![Requester[r]] = withdrawn[Requester[r]] + amount[r]]
      /\ status' = [status EXCEPT ![r] = "paid"]
      /\ payoutId' = [payoutId EXCEPT ![r] = c]
      /\ UNCHANGED <<balance, excess, amount, returned, untouched>>
  BY DEF Complete
<1>4. Monus(reserved[Requester[r]], amount[r]) \in Nat
  BY <1>2 DEF TypeOK, Monus
<1>5. WalletTypes'
  BY <1>2, <1>3, <1>4 DEF WalletTypes, TypeOK, SettlementTypeOK
<1>6. Marks(r, "paid", c)
  <2>1. payoutId' = [payoutId EXCEPT ![r] = c] \/ (c = NoApproval /\ UNCHANGED payoutId)
    BY <1>3
  <2>2. "paid" = "paid" /\ status[r] = "processing" /\ UNCHANGED returned
    BY <1>1, <1>3
  <2>3. QED BY <1>1, <1>3, <2>1, <2>2, Zenon DEF Marks
<1>7. QED BY <1>5, <1>6

\* A payout status that is final marks a request.
LEMMA ResolveMarks ==
  ASSUME TypeOK, RequestsFit, NEW r \in Requests, NEW s \in Final,
         NEW c \in Approvals \cup {NoApproval}, Resolve(r, s, c)
  PROVE /\ WalletTypes'
        /\ s = "processed" => Marks(r, "paid", c)
        /\ s # "processed" => Marks(r, s, c)
BY FailMarks, CompleteMarks DEF Resolve

\* A marked request fits its status, and no approval held it.
LEMMA MarksFit ==
  ASSUME Base, NEW r \in Requests, NEW s, NEW c \in Approvals \cup {NoApproval}, Marks(r, s, c),
         c # NoApproval => subject[c] = r /\ bank[c] # "none",
         UNCHANGED <<holder, subject, bank>>,
         at' = at \/ \E d \in Approvals : at' = [at EXCEPT ![d] = "errored"] /\ at[d] = "mark",
         \A q \in Requests : job'[q] = job[q] \/ job[q] # "none"
  PROVE ApprovalsHold' /\ RequestsFit'
<1> USE WithdrawalConstants DEF Base
<1>1. ApprovalsHold'
  BY DEF Marks, ApprovalsHold, TypeOK, Unapproved
<1>2. RequestsFit'
  <2>1. ASSUME NEW q \in Requests, q # r
        PROVE /\ payoutId'[q] = payoutId[q] /\ status'[q] = status[q] /\ returned'[q] = returned[q]
    BY <2>1 DEF Marks, TypeOK
  <2>2. /\ status'[r] = s /\ s \in {"paid", "failed", "reversed", "cancelled"}
        /\ payoutId'[r] # NoApproval => subject[payoutId'[r]] = r /\ bank[payoutId'[r]] # "none"
    BY DEF Marks, TypeOK, RequestsFit
  <2>3. /\ s = "paid" => returned'[r] = 0
        /\ s \in {"failed", "reversed"} => returned'[r] = 1
    BY DEF Marks, TypeOK, RequestsFit, Open
  <2>4. ASSUME NEW q \in Requests, status'[q] \in Unapproved PROVE job'[q] = "none"
    BY <2>1, <2>2, <2>4 DEF RequestsFit, Unapproved
  <2>5. QED BY <2>1, <2>2, <2>3, <2>4 DEF RequestsFit, Open
<1>3. QED BY <1>1, <1>2

\* Requests that are not written keep fitting when their payouts are kept.
LEMMA FitStays ==
  ASSUME TypeOK, RequestsFit, UNCHANGED <<status, payoutId, returned>>,
         \A q \in Requests : payoutId[q] # NoApproval =>
           subject'[payoutId[q]] = subject[payoutId[q]] /\ bank'[payoutId[q]] # "none",
         \A q \in Requests : job'[q] = job[q] \/ status[q] \notin Unapproved
  PROVE RequestsFit'
BY DEF RequestsFit

\* An outcome of a payout marks its request, and what a mark does is all.
LEMMA MarkSteps ==
  ASSUME Base, NEW r \in Requests, NEW c, NEW s \in Final,
         \/ Reject(r)
         \/ c \in Approvals /\ ErrorMarksFailed(c) /\ r = subject[c]
         \/ c \in Approvals /\ PayoutWebhook(c, s) /\ r = subject[c]
         \/ SweepApply(r) /\ ~UNCHANGED requestVars
         \/ DecideByHand(r)
  PROVE \E t \in {"paid", "failed", "reversed", "cancelled"}, d \in Approvals \cup {NoApproval} :
          /\ WalletTypes' /\ Marks(r, t, d)
          /\ d # NoApproval => subject[d] = r /\ bank[d] # "none"
          /\ t = "paid" => Complete(r, d)
          /\ t # "paid" => Fail(r, t, d)
<1> USE DEF Base
<1>a. \A d \in Approvals \cup {NoApproval}, t \in Final :
        /\ Fail(r, t, d) /\ t # "processed" => WalletTypes' /\ Marks(r, t, d)
        /\ Complete(r, d) => WalletTypes' /\ Marks(r, "paid", d)
  BY FailMarks, CompleteMarks
<1>b. \A d \in Approvals \cup {NoApproval}, t \in Final :
        Resolve(r, t, d) => Complete(r, d) \/ (t \in {"failed", "reversed", "cancelled"} /\ Fail(r, t, d))
  BY DEF Resolve, Final
<1>c. payoutId[r] \in Approvals \cup {NoApproval}
      /\ (payoutId[r] # NoApproval => subject[payoutId[r]] = r /\ bank[payoutId[r]] # "none")
  BY DEF TypeOK, RequestsFit
<1>1. CASE Reject(r)
  BY <1>a, <1>1 DEF Reject, Final
<1>2. CASE c \in Approvals /\ ErrorMarksFailed(c) /\ r = subject[c]
  BY <1>a, <1>2 DEF ErrorMarksFailed, Final
<1>3. CASE c \in Approvals /\ PayoutWebhook(c, s) /\ r = subject[c]
  <2>1. bank[c] # "none" /\ Resolve(r, s, c)
    BY <1>3 DEF PayoutWebhook, Told
  <2>2. QED BY <1>3, <1>a, <1>b, <2>1 DEF Final
<1>4. CASE SweepApply(r) /\ ~UNCHANGED requestVars
  <2>1. job[r] \in Final /\ Resolve(r, job[r], payoutId[r])
    BY <1>4 DEF SweepApply
  <2>2. QED BY <1>a, <1>b, <1>c, <2>1 DEF Final
<1>5. CASE DecideByHand(r)
  <2>1. PICK t \in Final : Resolve(r, t, payoutId[r])
    BY <1>5 DEF DecideByHand
  <2>2. QED BY <1>a, <1>b, <1>c, <2>1 DEF Final
<1>6. QED BY <1>1, <1>2, <1>3, <1>4, <1>5

\* A mark keeps the base of the invariant.
LEMMA MarkBase ==
  ASSUME Base, NEW r \in Requests, NEW c, NEW s \in Final,
         \/ Reject(r)
         \/ c \in Approvals /\ ErrorMarksFailed(c) /\ r = subject[c]
         \/ c \in Approvals /\ PayoutWebhook(c, s) /\ r = subject[c]
         \/ SweepApply(r) /\ ~UNCHANGED requestVars
         \/ DecideByHand(r)
  PROVE TypeOK' /\ ApprovalsHold' /\ RequestsFit'
<1> USE DEF Base
<1>1. PICK t \in {"paid", "failed", "reversed", "cancelled"}, d \in Approvals \cup {NoApproval} :
        /\ WalletTypes' /\ Marks(r, t, d)
        /\ d # NoApproval => subject[d] = r /\ bank[d] # "none"
  BY MarkSteps
<1>2. /\ UNCHANGED <<holder, subject, bank>>
      /\ at' = at \/ \E e \in Approvals : at' = [at EXCEPT ![e] = "errored"] /\ at[e] = "mark"
      /\ \A q \in Requests : job'[q] = job[q] \/ job[q] # "none"
      /\ byHand' \subseteq Requests
  BY DEF Reject, ErrorMarksFailed, PayoutWebhook, SweepApply, DecideByHand, approvalVars, recoveryVars,
         Goto, TypeOK, Final
<1>3. ApprovalsHold' /\ RequestsFit'
  BY <1>1, <1>2, MarksFit
<1>4. ApprovalTypes'
  <2>1. job' \in [Requests -> Final \cup {"none", "idle"}]
    BY DEF Reject, ErrorMarksFailed, PayoutWebhook, SweepApply, DecideByHand, recoveryVars, TypeOK
  <2>2. at' \in [Approvals -> {"idle", "pay", "save", "error", "mark", "done", "lost", "errored"}]
    BY <1>2 DEF TypeOK
  <2>3. UNCHANGED <<holder, subject, bank>> /\ byHand' \subseteq Requests
    BY <1>2
  <2>4. QED BY <2>1, <2>2, <2>3 DEF ApprovalTypes, TypeOK
<1>5. UNCHANGED untouched
  BY <1>1 DEF Marks
<1>6. QED BY <1>1, <1>3, <1>4, <1>5, Types

\* A request is made when none is open.
LEMMA RequestBase ==
  ASSUME Base, NEW r \in Requests, Request(r)
  PROVE TypeOK' /\ ApprovalsHold' /\ RequestsFit'
<1> USE WithdrawalConstants DEF Base
<1>1. /\ status[r] = "absent" /\ Requester[r] \in Payees
      /\ UNCHANGED <<withdrawn, excess, payoutId, returned, untouched, approvalVars, recoveryVars, bank>>
  BY DEF Request
<1>2. PICK n \in 1 .. MaxAmount :
        /\ n <= balance[Requester[r]]
        /\ amount' = [amount EXCEPT ![r] = n]
        /\ balance' = [balance EXCEPT ![Requester[r]] = balance[Requester[r]] - n]
        /\ reserved' = [reserved EXCEPT ![Requester[r]] = reserved[Requester[r]] + n]
  BY DEF Request
<1>3. PICK s \in {"manual_review", "pending"} : status' = [status EXCEPT ![r] = s]
  BY DEF Request
<1>4. WalletTypes'
  BY <1>1, <1>2, <1>3 DEF WalletTypes, TypeOK, SettlementTypeOK, Open
<1>5. ApprovalTypes'
  BY <1>1 DEF ApprovalTypes, TypeOK, approvalVars, recoveryVars
<1>6. ApprovalsHold'
  BY <1>1, <1>3 DEF ApprovalsHold, TypeOK, Unapproved, approvalVars
<1>7. RequestsFit'
  <2>1. job[r] = "none" /\ returned[r] = 0
    BY <1>1 DEF RequestsFit, Unapproved, Open
  <2>2. UNCHANGED <<payoutId, returned, job, subject, bank>>
    BY <1>1 DEF approvalVars, recoveryVars
  <2>3. status'[r] \in {"manual_review", "pending"} /\ \A q \in Requests \ {r} : status'[q] = status[q]
    BY <1>3 DEF TypeOK
  <2>4. QED BY <2>1, <2>2, <2>3 DEF RequestsFit, Unapproved, Open
<1>8. QED BY <1>1, <1>4, <1>5, <1>6, <1>7, Types

\* What an approval writes besides its own position: its request, when it holds
\* it.
LEMMA ApproveBase ==
  ASSUME Base, NEW c \in Approvals, NEW r \in Requests,
         \/ ApproveClaim(c, r) \/ PayoutAccepted(c) \/ PayoutThrows(c) \/ ApproveCommit(c)
         \/ ApproveLost(c) \/ ErrorEndsTransaction(c) \/ ErrorMarkGivesUp(c)
  PROVE TypeOK' /\ ApprovalsHold' /\ RequestsFit'
<1> USE WithdrawalConstants DEF Base
<1>1. CASE ApproveClaim(c, r)
  <2>1. /\ UNCHANGED <<moneyVars, untouched, requestVars, recoveryVars, bank>>
        /\ at[c] = "idle" /\ status[r] \in {"pending", "manual_review"} /\ holder[r] = NoApproval
        /\ holder' = [holder EXCEPT ![r] = c] /\ at' = [at EXCEPT ![c] = "pay"]
        /\ subject' = [subject EXCEPT ![c] = r]
    BY <1>1 DEF ApproveClaim
  <2>2. WalletTypes' /\ ApprovalTypes'
    BY <2>1 DEF WalletTypes, ApprovalTypes, TypeOK, SettlementTypeOK, moneyVars, requestVars, recoveryVars
  <2>3. ApprovalsHold'
    BY <2>1 DEF ApprovalsHold, TypeOK, requestVars, Unapproved
  <2>4. RequestsFit'
    <3>1. UNCHANGED <<status, payoutId, returned, job>>
      BY <2>1 DEF requestVars, recoveryVars
    <3>2. \A q \in Requests : payoutId[q] # NoApproval =>
            subject'[payoutId[q]] = subject[payoutId[q]] /\ bank'[payoutId[q]] # "none"
      BY <2>1 DEF RequestsFit, ApprovalsHold, TypeOK
    <3>3. QED BY <3>1, <3>2, FitStays
  <2>5. QED BY <2>1, <2>2, <2>3, <2>4, Types
<1>2. CASE PayoutAccepted(c) \/ PayoutThrows(c)
  <2>1. /\ UNCHANGED <<moneyVars, untouched, requestVars, recoveryVars, holder, subject>>
        /\ at[c] = "pay"
        /\ \E s \in {"save", "error"}, b \in {"none", "queued"} :
             /\ at' = [at EXCEPT ![c] = s] /\ bank' = [bank EXCEPT ![c] = b]
             /\ s = "save" => b = "queued"
    BY <1>2 DEF PayoutAccepted, PayoutThrows, Goto
  <2>2. WalletTypes' /\ ApprovalTypes'
    BY <2>1 DEF WalletTypes, ApprovalTypes, TypeOK, SettlementTypeOK, moneyVars, requestVars, recoveryVars
  <2>3. ApprovalsHold'
    BY <2>1 DEF ApprovalsHold, TypeOK, requestVars, Unapproved
  <2>4. RequestsFit'
    <3>1. UNCHANGED <<status, payoutId, returned, job>>
      BY <2>1 DEF requestVars, recoveryVars
    <3>2. \A q \in Requests : payoutId[q] # NoApproval =>
            subject'[payoutId[q]] = subject[payoutId[q]] /\ bank'[payoutId[q]] # "none"
      BY <2>1 DEF RequestsFit, ApprovalsHold, TypeOK
    <3>3. QED BY <3>1, <3>2, FitStays
  <2>5. QED BY <2>1, <2>2, <2>3, <2>4, Types
<1>3. CASE ApproveCommit(c)
  <2>1. /\ UNCHANGED <<moneyVars, untouched, amount, returned, subject, recoveryVars, bank>>
        /\ at[c] = "save" /\ at' = [at EXCEPT ![c] = "done"]
        /\ status' = [status EXCEPT ![subject[c]] = "processing"]
        /\ payoutId' = [payoutId EXCEPT ![subject[c]] = c]
    BY <1>3 DEF ApproveCommit, Goto
  <2>2. /\ subject[c] \in Requests /\ holder[subject[c]] = c /\ bank[c] # "none"
        /\ status[subject[c]] \in {"pending", "manual_review"}
    BY <2>1 DEF ApprovalsHold, TypeOK
  <2>3. holder' = [holder EXCEPT ![subject[c]] = NoApproval]
    BY <1>3, <2>2 DEF ApproveCommit, Release
  <2>4. WalletTypes' /\ ApprovalTypes'
    BY <2>1, <2>2, <2>3 DEF WalletTypes, ApprovalTypes, TypeOK, SettlementTypeOK, moneyVars, recoveryVars, Open
  <2>5. ApprovalsHold'
    BY <2>1, <2>2, <2>3 DEF ApprovalsHold, TypeOK, Unapproved
  <2>6. RequestsFit'
    <3>1. UNCHANGED <<returned, job, subject, bank>>
      BY <2>1 DEF recoveryVars
    <3>2. /\ status'[subject[c]] = "processing" /\ payoutId'[subject[c]] = c
          /\ \A q \in Requests \ {subject[c]} : status'[q] = status[q] /\ payoutId'[q] = payoutId[q]
      BY <2>1, <2>2 DEF TypeOK
    <3>3. returned[subject[c]] = 0
      BY <2>2 DEF RequestsFit, Open
    <3>4. ASSUME NEW q \in Requests, q # subject[c]
          PROVE /\ payoutId'[q] # NoApproval => subject'[payoutId'[q]] = q /\ bank'[payoutId'[q]] # "none"
                /\ status'[q] = "processing" => payoutId'[q] # NoApproval
                /\ status'[q] \in Open \cup {"absent", "paid"} => returned'[q] = 0
                /\ status'[q] \in {"failed", "reversed"} => returned'[q] = 1
                /\ status'[q] \in Unapproved => job'[q] = "none"
      BY <3>1, <3>2, <3>4 DEF RequestsFit
    <3>5. QED BY <2>2, <3>1, <3>2, <3>3, <3>4 DEF RequestsFit, Unapproved
  <2>7. QED BY <2>1, <2>4, <2>5, <2>6, Types
<1>4. CASE ApproveLost(c) \/ ErrorEndsTransaction(c)
  <2>1. /\ UNCHANGED <<moneyVars, untouched, requestVars, recoveryVars, subject>>
        /\ at[c] \in {"pay", "save", "error"}
        /\ \E s \in {"lost", "mark"} : at' = [at EXCEPT ![c] = s]
        /\ bank' = bank \/ (bank' = [bank EXCEPT ![c] = "queued"] /\ at[c] = "pay")
    BY <1>4 DEF ApproveLost, ErrorEndsTransaction, Goto
  <2>2. subject[c] \in Requests /\ holder[subject[c]] = c
    BY <2>1 DEF ApprovalsHold, TypeOK
  <2>3. holder' = [holder EXCEPT ![subject[c]] = NoApproval]
    BY <1>4, <2>2 DEF ApproveLost, ErrorEndsTransaction, Release
  <2>4. WalletTypes' /\ ApprovalTypes'
    BY <2>1, <2>2, <2>3 DEF WalletTypes, ApprovalTypes, TypeOK, SettlementTypeOK, moneyVars, requestVars, recoveryVars
  <2>5. ApprovalsHold'
    BY <2>1, <2>2, <2>3 DEF ApprovalsHold, TypeOK, requestVars, Unapproved
  <2>6. RequestsFit'
    <3>1. UNCHANGED <<status, payoutId, returned, job>>
      BY <2>1 DEF requestVars, recoveryVars
    <3>2. \A q \in Requests : payoutId[q] # NoApproval =>
            subject'[payoutId[q]] = subject[payoutId[q]] /\ bank'[payoutId[q]] # "none"
      BY <2>1 DEF RequestsFit, ApprovalsHold, TypeOK
    <3>3. QED BY <3>1, <3>2, FitStays
  <2>7. QED BY <2>1, <2>4, <2>5, <2>6, Types
<1>5. CASE ErrorMarkGivesUp(c)
  <2>1. /\ UNCHANGED <<moneyVars, untouched, requestVars, recoveryVars, holder, subject, bank>>
        /\ at[c] = "mark" /\ at' = [at EXCEPT ![c] = "errored"]
    BY <1>5 DEF ErrorMarkGivesUp, Goto
  <2>2. WalletTypes' /\ ApprovalTypes'
    BY <2>1 DEF WalletTypes, ApprovalTypes, TypeOK, SettlementTypeOK, moneyVars, requestVars, recoveryVars
  <2>3. ApprovalsHold'
    BY <2>1 DEF ApprovalsHold, TypeOK, requestVars, Unapproved
  <2>4. RequestsFit'
    <3>1. UNCHANGED <<status, payoutId, returned, job, subject, bank>>
      BY <2>1 DEF requestVars, recoveryVars
    <3>2. QED BY <3>1, FitStays DEF RequestsFit
  <2>5. QED BY <2>1, <2>2, <2>3, <2>4, Types
<1>6. QED BY <1>1, <1>2, <1>3, <1>4, <1>5

\* The gateway moves a payout it has; a job is made for a request that is
\* processing, and reads the payout the request names.
LEMMA RecoveryBase ==
  ASSUME Base, NEW c, NEW r \in Requests,
         \/ c \in Approvals /\ (BankSettles(c) \/ BankReverses(c))
         \/ SweepRead(r) \/ RetryJob(r) \/ (SweepApply(r) /\ UNCHANGED requestVars)
  PROVE TypeOK' /\ ApprovalsHold' /\ RequestsFit'
<1> USE WithdrawalConstants DEF Base
<1>1. CASE c \in Approvals /\ (BankSettles(c) \/ BankReverses(c))
  <2>1. /\ UNCHANGED <<moneyVars, untouched, requestVars, approvalVars, recoveryVars>>
        /\ bank[c] # "none" /\ \E b \in Final : bank' = [bank EXCEPT ![c] = b]
    BY <1>1 DEF BankSettles, BankReverses, Final
  <2>2. WalletTypes' /\ ApprovalTypes'
    BY <2>1 DEF WalletTypes, ApprovalTypes, TypeOK, SettlementTypeOK, moneyVars, requestVars, approvalVars, recoveryVars
  <2>3. ApprovalsHold'
    BY <2>1 DEF ApprovalsHold, TypeOK, requestVars, approvalVars, Final
  <2>4. RequestsFit'
    <3>1. UNCHANGED <<status, payoutId, returned, job, subject>>
      BY <2>1 DEF requestVars, approvalVars, recoveryVars
    <3>2. \A q \in Requests : payoutId[q] # NoApproval => bank'[payoutId[q]] # "none"
      BY <2>1 DEF RequestsFit, TypeOK, Final
    <3>3. QED BY <3>1, <3>2, FitStays
  <2>5. QED BY <2>1, <2>2, <2>3, <2>4, Types
<1>2. CASE SweepRead(r) \/ RetryJob(r)
  <2>1. /\ UNCHANGED <<moneyVars, untouched, requestVars, approvalVars, byHand, bank>>
        /\ status[r] = "processing" \/ job[r] = "idle"
        /\ \E j \in Final \cup {"idle"} : job' = [job EXCEPT ![r] = j]
    BY <1>2 DEF SweepRead, RetryJob
  <2>2. WalletTypes' /\ ApprovalTypes'
    BY <2>1 DEF WalletTypes, ApprovalTypes, TypeOK, SettlementTypeOK, moneyVars, requestVars, approvalVars
  <2>3. ApprovalsHold'
    BY <2>1 DEF ApprovalsHold, TypeOK, requestVars, approvalVars
  <2>4. RequestsFit'
    <3>1. UNCHANGED <<status, payoutId, returned, subject, bank>>
      BY <2>1 DEF requestVars, approvalVars
    <3>2. \A q \in Requests : job'[q] = job[q] \/ status[q] \notin Unapproved
      BY <2>1 DEF RequestsFit, TypeOK, Unapproved
    <3>3. QED BY <3>1, <3>2, FitStays DEF RequestsFit
  <2>5. QED BY <2>1, <2>2, <2>3, <2>4, Types
<1>3. CASE SweepApply(r) /\ UNCHANGED requestVars
  <2>1. UNCHANGED <<moneyVars, untouched, requestVars, approvalVars, byHand, bank>>
    <3>1. ~Marks(r, "paid", payoutId[r]) /\ \A s \in Final : ~Marks(r, s, payoutId[r])
      BY <1>3 DEF Marks, requestVars, TypeOK, Final
    <3>2. ~Resolve(r, job[r], payoutId[r])
      BY <1>3, <3>1, ResolveMarks DEF SweepApply, TypeOK
    <3>3. QED BY <1>3, <3>2 DEF SweepApply
  <2>2. job[r] \in Final /\ job' = [job EXCEPT ![r] = "idle"]
    BY <1>3 DEF SweepApply
  <2>3. WalletTypes' /\ ApprovalTypes'
    BY <2>1, <2>2 DEF WalletTypes, ApprovalTypes, TypeOK, SettlementTypeOK, moneyVars, requestVars, approvalVars
  <2>4. ApprovalsHold'
    BY <2>1 DEF ApprovalsHold, TypeOK, requestVars, approvalVars
  <2>5. RequestsFit'
    <3>1. UNCHANGED <<status, payoutId, returned, subject, bank>>
      BY <2>1 DEF requestVars, approvalVars
    <3>2. \A q \in Requests : job'[q] = job[q] \/ status[q] \notin Unapproved
      BY <2>2 DEF RequestsFit, TypeOK, Final
    <3>3. QED BY <3>1, <3>2, FitStays DEF RequestsFit
  <2>6. QED BY <2>1, <2>3, <2>4, <2>5, Types
<1>4. QED BY <1>1, <1>2, <1>3
-----------------------------------------------------------------------------
(* The money.  A payee has one open request at most, and has reserved its  *)
(* amount or less: less when a second return of another amount has eaten   *)
(* it, and then the wallet has that much of its excess left.               *)
OpenOf(p, r) == Requester[r] = p /\ status[r] \in Open

OneOpen ==
  \A p \in Payees : \A r, q \in Requests : OpenOf(p, r) /\ OpenOf(p, q) => r = q

ReservedFits ==
  \A p \in Payees :
    /\ (\A r \in Requests : ~OpenOf(p, r)) => reserved[p] = 0
    /\ \A r \in Requests : OpenOf(p, r) =>
         /\ reserved[p] <= amount[r]
         /\ (\A q \in Requests : Requester[q] = p => returned[q] <= 1) => reserved[p] = amount[r]

MoneyFits ==
  \A p \in Payees :
    /\ earned[p] <= Holdings(p)
    /\ Holdings(p) <= earned[p] + excess[p]
    /\ \A r \in Requests : OpenOf(p, r) =>
         Holdings(p) + amount[r] <= earned[p] + excess[p] + reserved[p]

Money == OneOpen /\ ReservedFits /\ MoneyFits

\* What moves between the pending amount and the balance, or is earned,
\* reversed or found missing, leaves requests and reservations alone.
LEMMA MoneyStays ==
  ASSUME TypeOK, TypeOK', Money,
         UNCHANGED <<reserved, withdrawn, amount, returned>>,
         \A q \in Requests : status'[q] \in Open <=> status[q] \in Open,
         \A p \in Payees :
           /\ pendingAmount'[p] + balance'[p] + earned[p] >= pendingAmount[p] + balance[p] + earned'[p]
           /\ pendingAmount'[p] + balance'[p] + earned[p] + excess[p]
                <= pendingAmount[p] + balance[p] + earned'[p] + excess'[p]
  PROVE Money'
<1>1. \A p \in Payees, r \in Requests : OpenOf(p, r)' <=> OpenOf(p, r)
  BY DEF OpenOf
<1>2. OneOpen'
  BY <1>1 DEF Money, OneOpen
<1>3. ReservedFits'
  BY <1>1 DEF Money, ReservedFits
<1>4. ASSUME NEW p \in Payees
      PROVE /\ earned'[p] <= Holdings(p)'
            /\ Holdings(p)' <= earned'[p] + excess'[p]
            /\ \A r \in Requests : OpenOf(p, r)' =>
                 Holdings(p)' + amount'[r] <= earned'[p] + excess'[p] + reserved'[p]
  <2>1. /\ pendingAmount[p] \in Nat /\ balance[p] \in Nat /\ earned[p] \in Nat /\ excess[p] \in Nat
        /\ reserved[p] \in Nat /\ withdrawn[p] \in Nat /\ \A r \in Requests : amount[r] \in Nat
    BY DEF TypeOK, SettlementTypeOK
  <2>2. pendingAmount'[p] \in Nat /\ balance'[p] \in Nat /\ earned'[p] \in Nat /\ excess'[p] \in Nat
    BY DEF TypeOK, SettlementTypeOK
  <2>3. /\ Holdings(p)' = pendingAmount'[p] + balance'[p] + reserved[p] + withdrawn[p]
        /\ Holdings(p) = pendingAmount[p] + balance[p] + reserved[p] + withdrawn[p]
    BY DEF Holdings
  <2>4. QED BY <1>1, <2>1, <2>2, <2>3 DEF Money, MoneyFits
<1>5. QED BY <1>2, <1>3, <1>4 DEF Money, MoneyFits

\* A step of the settlement.
LEMMA SettlementMoney ==
  ASSUME Base, Base', Credits, Money, SettlementNext,
         UNCHANGED <<reserved, withdrawn, requestVars, approvalVars, recoveryVars, bank>>
  PROVE Money'
<1> USE SettlementConstants DEF Base
<1>1. UNCHANGED <<reserved, withdrawn, amount, returned, status>>
  BY DEF requestVars
<1>2. \A p \in Payees : /\ pendingAmount[p] \in Nat /\ balance[p] \in Nat
                        /\ earned[p] \in Nat /\ excess[p] \in Nat
  BY DEF TypeOK, SettlementTypeOK
<1>3. ASSUME NEW p \in Payees
      PROVE /\ pendingAmount'[p] + balance'[p] + earned[p] >= pendingAmount[p] + balance[p] + earned'[p]
            /\ pendingAmount'[p] + balance'[p] + earned[p] + excess[p]
                 <= pendingAmount[p] + balance[p] + earned'[p] + excess'[p]
  <2>1. ASSUME NEW o \in Orders, Deliver(o) \/ Close(o)
        PROVE UNCHANGED <<pendingAmount, balance, earned, excess>>
    BY <2>1 DEF Deliver, Close
  <2>2. ASSUME NEW o \in Orders, SettleOrder(o)
        PROVE /\ UNCHANGED <<balance, excess>>
              /\ \/ pendingAmount'[p] = pendingAmount[p] + 1 /\ earned'[p] = earned[p] + 1
                 \/ pendingAmount'[p] = pendingAmount[p] /\ earned'[p] = earned[p]
    BY <2>2 DEF SettleOrder, Plus
  <2>3. ASSUME NEW o \in Orders, Reverse(o)
        PROVE \/ /\ pendingAmount'[p] = pendingAmount[p] /\ balance'[p] = balance[p]
                 /\ earned'[p] = earned[p] /\ excess'[p] = excess[p]
              \/ /\ earned'[p] = earned[p] + -1
                 /\ \/ /\ pendingAmount'[p] = pendingAmount[p] + -1 /\ balance'[p] = balance[p]
                       /\ excess'[p] = excess[p]
                    \/ /\ pendingAmount'[p] = pendingAmount[p] /\ balance'[p] = balance[p] + -1
                       /\ excess'[p] = excess[p]
                    \/ /\ pendingAmount'[p] = pendingAmount[p] /\ balance'[p] = balance[p]
                       /\ excess'[p] = excess[p] + 1
    BY <1>2, <2>3 DEF Reverse, Plus
  <2>4. ASSUME NEW q \in Payees, NEW S, SettleWallet(q, S)
        PROVE /\ UNCHANGED <<earned, excess>>
              /\ pendingAmount'[p] + balance'[p] = pendingAmount[p] + balance[p]
    <3>1. /\ UNCHANGED <<earned, excess>>
          /\ balance' = [balance EXCEPT ![q] = balance[q] + pendingAmount[q]]
          /\ pendingAmount' = [pendingAmount EXCEPT ![q] = 0]
      BY <2>4 DEF SettleWallet
    <3>2. QED BY <1>2, <3>1 DEF TypeOK, SettlementTypeOK
  <2>5. ASSUME NEW c \in Operators, NEW q \in Payees, ManualRead(c, q)
        PROVE UNCHANGED <<pendingAmount, balance, earned, excess>>
    BY <2>5 DEF ManualRead
  <2>6. ASSUME NEW c \in Operators, ManualSettle(c)
        PROVE \/ UNCHANGED <<pendingAmount, balance, earned, excess>>
              \/ list[c].payee \in Payees /\ SettleWallet(list[c].payee, list[c].orders)
    BY <2>6 DEF ManualSettle, TypeOK, SettlementTypeOK, Credits
  <2>7. CASE UNCHANGED <<pendingAmount, balance, earned, excess>>
    BY <1>2, <2>7
  <2>8. CASE \E q \in Payees, S \in SUBSET Orders : SettleWallet(q, S)
    BY <1>2, <2>4, <2>8
  <2>9. CASE \E o \in Orders : SettleOrder(o) \/ Reverse(o)
    BY <1>2, <2>2, <2>3, <2>9
  <2>10. CASE \E q \in Payees : AutoSettle(q)
    BY <2>8, <2>10 DEF AutoSettle, Unsettled
  <2>11. CASE \E c \in Operators : ManualSettle(c)
    BY <2>6, <2>7, <2>8, <2>11 DEF TypeOK, SettlementTypeOK
  <2>12. QED
    BY <2>1, <2>5, <2>7, <2>9, <2>10, <2>11 DEF SettlementNext
<1>4. QED BY <1>1, <1>3, MoneyStays
\* A request reserves what it takes from the balance, when nothing is open.
LEMMA RequestMoney ==
  ASSUME Base, Base', Money, NEW r \in Requests, Request(r)
  PROVE Money'
<1> USE WithdrawalConstants DEF Base
<1> DEFINE p == Requester[r]
<1>1. /\ status[r] = "absent" /\ p \in Payees
      /\ \A q \in Requests : ~OpenOf(p, q)
      /\ UNCHANGED <<withdrawn, excess, returned, pendingAmount, earned>>
  BY DEF Request, OpenOf, untouched
<1>2. PICK n \in 1 .. MaxAmount :
        /\ n <= balance[p]
        /\ amount' = [amount EXCEPT ![r] = n]
        /\ balance' = [balance EXCEPT ![p] = balance[p] - n]
        /\ reserved' = [reserved EXCEPT ![p] = reserved[p] + n]
  BY DEF Request
<1>3. status'[r] \in Open /\ \A q \in Requests \ {r} : status'[q] = status[q]
  BY DEF Request, TypeOK, Open
<1>4. /\ \A q \in Requests : OpenOf(p, q)' <=> q = r
      /\ \A b \in Payees \ {p} : \A q \in Requests : OpenOf(b, q)' <=> OpenOf(b, q)
  BY <1>1, <1>3 DEF OpenOf
<1>5. reserved[p] = 0
  BY <1>1 DEF Money, ReservedFits
<1>6. amount'[r] = n /\ \A q \in Requests \ {r} : amount'[q] = amount[q]
  BY <1>2 DEF TypeOK
<1>7. /\ reserved'[p] = n /\ balance'[p] = balance[p] - n
      /\ \A b \in Payees \ {p} : reserved'[b] = reserved[b] /\ balance'[b] = balance[b]
  BY <1>1, <1>2, <1>5 DEF TypeOK, SettlementTypeOK
<1>8. \A b \in Payees : Holdings(b)' = Holdings(b)
  <2>1. \A b \in Payees : /\ pendingAmount[b] \in Nat /\ balance[b] \in Nat
                          /\ withdrawn[b] \in Nat /\ reserved[b] \in Nat
    BY DEF TypeOK, SettlementTypeOK
  <2>2. QED BY <1>1, <1>5, <1>7, <2>1 DEF Holdings
<1> HIDE DEF p
<1>9. OneOpen'
  BY <1>4 DEF Money, OneOpen
<1>10. ReservedFits'
  <2>1. ASSUME NEW b \in Payees, b # p
        PROVE /\ (\A q \in Requests : ~OpenOf(b, q)') => reserved'[b] = 0
              /\ \A q \in Requests : OpenOf(b, q)' =>
                   /\ reserved'[b] <= amount'[q]
                   /\ (\A e \in Requests : Requester[e] = b => returned'[e] <= 1) => reserved'[b] = amount'[q]
    <3>1. \A q \in Requests : OpenOf(b, q) => q # r
      BY <1>1, <2>1 DEF OpenOf, Open
    <3>2. QED BY <1>1, <1>4, <1>6, <1>7, <2>1, <3>1 DEF Money, ReservedFits
  <2>2. n <= n
    OBVIOUS
  <2>3. QED BY <1>1, <1>4, <1>6, <1>7, <2>1, <2>2 DEF ReservedFits
<1>11. MoneyFits'
  <2>1. ASSUME NEW b \in Payees, NEW q \in Requests, OpenOf(b, q)'
        PROVE Holdings(b)' + amount'[q] <= earned'[b] + excess'[b] + reserved'[b]
    <3>1. CASE b = p
      <4>1. q = r /\ amount'[q] = n /\ reserved'[b] = n
        BY <1>4, <1>6, <1>7, <2>1, <3>1
      <4>2. Holdings(b)' <= earned'[b] + excess'[b]
        BY <1>1, <1>8 DEF Money, MoneyFits
      <4>3. Holdings(b)' \in Nat /\ earned'[b] \in Nat /\ excess'[b] \in Nat
        BY DEF Holdings, TypeOK, SettlementTypeOK
      <4>4. QED BY <4>1, <4>2, <4>3
    <3>2. CASE b # p
      <4>1. OpenOf(b, q) /\ q # r
        BY <1>1, <1>4, <2>1, <3>2 DEF OpenOf, Open
      <4>2. QED BY <1>1, <1>6, <1>7, <1>8, <3>2, <4>1 DEF Money, MoneyFits
    <3>3. QED BY <3>1, <3>2
  <2>2. QED BY <1>1, <1>8, <2>1 DEF Money, MoneyFits
<1>12. QED BY <1>9, <1>10, <1>11 DEF Money

\* A mark takes the amount from what is reserved, as far as it is there, and
\* adds it to the balance or to what was withdrawn.
LEMMA MarkMoney ==
  ASSUME Base, Base', Money, NEW r \in Requests,
         NEW s \in {"paid", "failed", "reversed", "cancelled"}, NEW c \in Approvals \cup {NoApproval},
         Marks(r, s, c), s = "paid" => Complete(r, c), s # "paid" => Fail(r, s, c)
  PROVE Money'
<1> USE WithdrawalConstants DEF Base
<1> DEFINE p == Requester[r]
           n == amount[r]
           gone == returned[r] # 0
<1>1. /\ p \in Payees /\ n \in Nat
      /\ UNCHANGED <<amount, pendingAmount, earned>>
      /\ status'[r] = s /\ \A q \in Requests \ {r} : status'[q] = status[q] /\ returned'[q] = returned[q]
  <2>1. p \in Payees /\ n \in Nat
    BY DEF TypeOK
  <2>2. UNCHANGED <<amount, untouched>> /\ status' = [status EXCEPT ![r] = s]
    BY DEF Marks
  <2>3. returned' = returned \/ returned' = [returned EXCEPT ![r] = @ + 1]
    BY DEF Marks
  <2>4. QED BY <2>1, <2>2, <2>3 DEF TypeOK, untouched
<1>2. /\ status[r] \in {"pending", "manual_review", "processing", "failed"}
      /\ gone <=> status[r] = "failed"
      /\ returned'[r] <= 1 => ~gone
      /\ returned'[r] >= returned[r]
  <2>1. returned[r] \in 0 .. 2
    BY DEF TypeOK
  <2>2. status[r] \in Open => returned[r] = 0
    BY DEF RequestsFit
  <2>3. status[r] = "failed" => returned[r] = 1
    BY DEF RequestsFit
  <2>4. status[r] \in {"pending", "manual_review", "processing", "failed"}
    BY DEF Marks
  <2>5. s = "paid" => status[r] = "processing"
    BY DEF Marks
  <2>6. returned'[r] = IF s = "paid" THEN returned[r] ELSE returned[r] + 1
    BY DEF Marks, TypeOK
  <2>8. QED BY <2>1, <2>2, <2>3, <2>4, <2>5, <2>6 DEF Open
<1>3. /\ reserved' = [reserved EXCEPT ![p] = Monus(reserved[p], n)]
      /\ balance'[p] + withdrawn'[p] = balance[p] + withdrawn[p] + n
      /\ excess'[p] = IF gone THEN excess[p] + n ELSE excess[p]
      /\ \A b \in Payees \ {p} : balance'[b] = balance[b] /\ withdrawn'[b] = withdrawn[b] /\ excess'[b] = excess[b]
  <2>1. balance[p] \in Nat /\ withdrawn[p] \in Nat /\ excess[p] \in Nat
    BY <1>1 DEF TypeOK, SettlementTypeOK
  <2>2. CASE s = "paid"
    <3>1. /\ reserved' = [reserved EXCEPT ![p] = Monus(reserved[p], n)]
          /\ withdrawn' = [withdrawn EXCEPT ![p] = withdrawn[p] + n]
          /\ UNCHANGED <<balance, excess>>
      BY <2>2 DEF Complete
    <3>2. ~gone
      BY <1>2, <2>2 DEF Marks
    <3>3. QED BY <1>1, <2>1, <3>1, <3>2 DEF TypeOK
  <2>3. CASE s # "paid"
    <3>1. /\ reserved' = [reserved EXCEPT ![p] = Monus(reserved[p], n)]
          /\ balance' = [balance EXCEPT ![p] = balance[p] + n]
          /\ excess' = IF gone THEN [excess EXCEPT ![p] = excess[p] + n] ELSE excess
          /\ UNCHANGED withdrawn
      BY <2>3 DEF Fail, GiveBack
    <3>2. QED BY <1>1, <2>1, <3>1 DEF TypeOK, SettlementTypeOK
  <2>4. QED BY <2>2, <2>3
<1>4. /\ reserved[p] \in Nat /\ reserved'[p] = Monus(reserved[p], n)
      /\ \A b \in Payees \ {p} : reserved'[b] = reserved[b]
  BY <1>1, <1>3 DEF TypeOK
<1>5. /\ \A q \in Requests : OpenOf(p, q)' <=> OpenOf(p, q) /\ q # r
      /\ \A b \in Payees \ {p} : \A q \in Requests : OpenOf(b, q)' <=> OpenOf(b, q)
      /\ ~gone <=> OpenOf(p, r)
  BY <1>1, <1>2 DEF OpenOf, Open
<1>6. \A b \in Payees : /\ pendingAmount[b] \in Nat /\ balance[b] \in Nat /\ earned[b] \in Nat
                        /\ withdrawn[b] \in Nat /\ reserved[b] \in Nat /\ excess[b] \in Nat
                        /\ balance'[b] \in Nat /\ withdrawn'[b] \in Nat
      /\ \A q \in Requests : amount[q] \in Nat
  BY DEF TypeOK, SettlementTypeOK
<1>7. Holdings(p)' = Holdings(p) + n - reserved[p] + Monus(reserved[p], n)
  BY <1>1, <1>3, <1>4, <1>6 DEF Holdings, Monus
<1>8. \A b \in Payees \ {p} : Holdings(b)' = Holdings(b)
  BY <1>1, <1>3, <1>4 DEF Holdings
<1> HIDE DEF p, n, gone
<1>9. OneOpen'
  BY <1>1, <1>5 DEF Money, OneOpen
<1>10. ASSUME NEW b \in Payees, b # p
       PROVE /\ (\A q \in Requests : ~OpenOf(b, q)') => reserved'[b] = 0
             /\ \A q \in Requests : OpenOf(b, q)' =>
                  /\ reserved'[b] <= amount'[q]
                  /\ (\A e \in Requests : Requester[e] = b => returned'[e] <= 1) => reserved'[b] = amount'[q]
             /\ earned'[b] <= Holdings(b)'
             /\ Holdings(b)' <= earned'[b] + excess'[b]
             /\ \A q \in Requests : OpenOf(b, q)' =>
                  Holdings(b)' + amount'[q] <= earned'[b] + excess'[b] + reserved'[b]
  <2>1. \A e \in Requests : Requester[e] = b => returned'[e] = returned[e]
    BY <1>1, <1>10 DEF p
  <2>2. QED
    BY <1>1, <1>3, <1>4, <1>5, <1>8, <1>10, <2>1 DEF Money, ReservedFits, MoneyFits
<1>11. CASE ~gone
  <2>1. OpenOf(p, r) /\ \A q \in Requests : ~OpenOf(p, q)'
    BY <1>1, <1>5, <1>11 DEF Money, OneOpen
  <2>2. reserved[p] <= n
    BY <1>1, <2>1 DEF Money, ReservedFits, n
  <2>3. reserved'[p] = 0
    BY <1>1, <1>4, <2>2 DEF Monus
  <2>4. /\ earned[p] <= Holdings(p) /\ Holdings(p) + n <= earned[p] + excess[p] + reserved[p]
    BY <1>1, <2>1 DEF Money, MoneyFits, n
  <2>5. Holdings(p)' = Holdings(p) + n - reserved[p] /\ Holdings(p) \in Nat
    BY <1>1, <1>4, <1>6, <1>7, <2>2 DEF Monus, Holdings
  <2>6. earned'[p] <= Holdings(p)' /\ Holdings(p)' <= earned'[p] + excess'[p]
    BY <1>1, <1>3, <1>6, <1>11, <2>2, <2>4, <2>5
  <2>7. QED BY <1>9, <1>10, <2>1, <2>3, <2>6 DEF Money, ReservedFits, MoneyFits
<1>12. CASE gone
  <2>1. \A q \in Requests : OpenOf(p, q)' <=> OpenOf(p, q)
    BY <1>5, <1>12
  <2>2. ~(\A e \in Requests : Requester[e] = p => returned'[e] <= 1)
    BY <1>2, <1>12 DEF p
  <2>3. Monus(reserved[p], n) <= reserved[p] /\ Monus(reserved[p], n) \in Nat
        /\ reserved[p] - Monus(reserved[p], n) <= n
    BY <1>1, <1>4 DEF Monus
  <2>4. excess'[p] = excess[p] + n /\ Holdings(p) \in Nat
    BY <1>1, <1>3, <1>6, <1>12 DEF Holdings
  <2>5. earned[p] <= Holdings(p) /\ Holdings(p) <= earned[p] + excess[p]
    BY <1>1 DEF Money, MoneyFits
  <2>6. earned'[p] <= Holdings(p)' /\ Holdings(p)' <= earned'[p] + excess'[p]
    BY <1>1, <1>4, <1>6, <1>7, <2>3, <2>4, <2>5
  <2>7. ASSUME NEW q \in Requests, OpenOf(p, q)'
        PROVE /\ reserved'[p] <= amount'[q]
              /\ Holdings(p)' + amount'[q] <= earned'[p] + excess'[p] + reserved'[p]
    <3>1. /\ reserved[p] <= amount[q]
          /\ Holdings(p) + amount[q] <= earned[p] + excess[p] + reserved[p]
      BY <1>1, <2>1, <2>7 DEF Money, ReservedFits, MoneyFits
    <3>2. QED BY <1>1, <1>4, <1>6, <1>7, <2>3, <2>4, <3>1
  <2>8. (\A q \in Requests : ~OpenOf(p, q)') => reserved'[p] = 0
    <3>1. (\A q \in Requests : ~OpenOf(p, q)') => reserved[p] = 0
      BY <1>1, <2>1 DEF Money, ReservedFits
    <3>2. reserved[p] = 0 => Monus(reserved[p], n) = 0
      BY <1>1, <1>4 DEF Monus
    <3>3. QED BY <1>4, <3>1, <3>2
  <2>9. QED BY <1>9, <1>10, <2>2, <2>6, <2>7, <2>8 DEF Money, ReservedFits, MoneyFits
<1>13. QED BY <1>11, <1>12
-----------------------------------------------------------------------------
(* The payouts.  A job's answer is what the gateway said, as long as the   *)
(* request is processing, and it says no less afterwards.                  *)
JobsAsked ==
  \A r \in Requests : status[r] = "processing" =>
    /\ job[r] = "processed" => bank[payoutId[r]] \in {"processed", "reversed"}
    /\ job[r] \in {"failed", "cancelled", "reversed"} => bank[payoutId[r]] = job[r]

(* A paid request was paid; and when an amount went back while a payout    *)
(* of it was made or is queued, an approval of it had been cut off.        *)
PaidByBank ==
  \A r \in Requests \ byHand : status[r] = "paid" =>
    payoutId[r] \in Approvals /\ bank[payoutId[r]] \in {"processed", "reversed"}

ReturnExcused ==
  \A r \in Requests \ byHand : \A c \in Approvals :
    returned[r] > 0 /\ subject[c] = r /\ bank[c] \in {"queued", "processed"} =>
      \E d \in Approvals : subject[d] = r /\ Troubled(d)

Outcomes == JobsAsked /\ PaidByBank /\ ReturnExcused

\* Two approvals that made a payout for one request are not both on their way
\* or done: the request was processing before the second could begin.
LEMMA PayoutOnceFollows ==
  ASSUME TypeOK, ApprovalsHold
  PROVE PayoutOnce
<1> SUFFICES ASSUME NEW c \in Approvals, NEW d \in Approvals, c # d, subject[c] = subject[d],
                    bank[c] # "none", bank[d] # "none", ~Troubled(c), ~Troubled(d)
             PROVE FALSE
  BY DEF PayoutOnce
<1>1. at[c] \in {"save", "done"} /\ at[d] \in {"save", "done"}
  BY DEF ApprovalsHold, TypeOK, Troubled
<1>2. QED BY <1>1 DEF ApprovalsHold, Unapproved

\* Whatever happens to its request, an approval that was cut off stays so.
LEMMA TroubleLasts ==
  ASSUME Base, WithdrawalNext, NEW d \in Approvals, Troubled(d)
  PROVE Troubled(d)' /\ subject'[d] = subject[d]
<1> USE DEF Base
<1>1. at[d] \in {"lost", "error", "mark", "errored"} /\ subject[d] # NoRequest
  BY DEF Troubled, ApprovalsHold
<1>2. ASSUME UNCHANGED <<at, subject>> PROVE Troubled(d)' /\ subject'[d] = subject[d]
  BY <1>2 DEF Troubled
<1>3. ASSUME NEW r \in Requests, Request(r) \/ Reject(r) \/ Recover(r)
      PROVE Troubled(d)' /\ subject'[d] = subject[d]
  BY <1>2, <1>3 DEF Request, Reject, Recover, SweepRead, RetryJob, SweepApply, DecideByHand, approvalVars
<1>4. ASSUME NEW c \in Approvals, Bank(c)
      PROVE Troubled(d)' /\ subject'[d] = subject[d]
  BY <1>2, <1>4 DEF Bank, BankSettles, BankReverses, PayoutWebhook, approvalVars
<1>5. ASSUME NEW c \in Approvals, Approve(c)
      PROVE Troubled(d)' /\ subject'[d] = subject[d]
  <2>1. ASSUME NEW r \in Requests, ApproveClaim(c, r) PROVE Troubled(d)' /\ subject'[d] = subject[d]
    BY <1>1, <2>1 DEF ApproveClaim, Troubled, TypeOK
  <2>2. CASE PayoutAccepted(c) \/ PayoutThrows(c) \/ ApproveCommit(c)
    BY <1>1, <2>2 DEF PayoutAccepted, PayoutThrows, ApproveCommit, Goto, Troubled, TypeOK
  <2>3. CASE ApproveLost(c) \/ ErrorEndsTransaction(c) \/ ErrorMarksFailed(c) \/ ErrorMarkGivesUp(c)
    BY <1>1, <2>3 DEF ApproveLost, ErrorEndsTransaction, ErrorMarksFailed, ErrorMarkGivesUp, Goto, Troubled, TypeOK
  <2>4. QED BY <1>5, <2>1, <2>2, <2>3 DEF Approve
<1>6. QED BY <1>3, <1>4, <1>5 DEF WithdrawalNext
\* A mark keeps the outcomes when the gateway says the same, an operator
\* decided, or an approval had been cut off.
LEMMA MarkOutcome ==
  ASSUME Base, Outcomes, WithdrawalNext, NEW r \in Requests, NEW t, NEW d \in Approvals \cup {NoApproval},
         Marks(r, t, d), UNCHANGED <<subject, bank>>, \A q \in Requests \ {r} : job'[q] = job[q],
         byHand \subseteq byHand',
         r \in byHand' \/ t # "paid" \/ (d \in Approvals /\ bank[d] \in {"processed", "reversed"}),
         r \in byHand' \/ t = "paid"
           \/ \A c \in Approvals : subject[c] = r /\ bank[c] \in {"queued", "processed"} =>
                \E e \in Approvals : subject[e] = r /\ Troubled(e)
  PROVE Outcomes'
<1> USE WithdrawalConstants DEF Base
<1>1. /\ t \in {"paid", "failed", "reversed", "cancelled"} /\ status'[r] = t
      /\ \A q \in Requests \ {r} : /\ status'[q] = status[q] /\ payoutId'[q] = payoutId[q]
                                   /\ returned'[q] = returned[q]
      /\ d # NoApproval => payoutId'[r] = d
      /\ t = "paid" => returned'[r] = returned[r]
  BY DEF Marks, TypeOK
<1>2. JobsAsked'
  BY <1>1 DEF Outcomes, JobsAsked
<1>3. PaidByBank'
  BY <1>1 DEF Outcomes, PaidByBank
<1>4. ReturnExcused'
  <2> SUFFICES ASSUME NEW q \in Requests \ byHand', NEW c \in Approvals,
                      returned'[q] > 0, subject[c] = q, bank[c] \in {"queued", "processed"}
               PROVE \E e \in Approvals : subject'[e] = q /\ Troubled(e)'
    BY DEF ReturnExcused
  <2>1. \E e \in Approvals : subject[e] = q /\ Troubled(e)
    BY <1>1 DEF Outcomes, ReturnExcused
  <2>2. QED BY <2>1, TroubleLasts
<1>5. QED BY <1>2, <1>3, <1>4 DEF Outcomes

\* Steps that write no status, payout or return of a request: a payout that is
\* made is of a request with nothing returned, and a payout that is settled or
\* reversed was not what a job has read.
LEMMA OutcomesStay ==
  ASSUME Base, Outcomes, WithdrawalNext, UNCHANGED <<payoutId, returned, byHand>>,
         \A q \in Requests :
           /\ status'[q] \in {"processing", "paid"} => status'[q] = status[q]
           /\ status[q] = "processing" => job'[q] \in {job[q], bank[payoutId[q]], "idle"},
         \A c \in Approvals :
           /\ bank'[c] = bank[c] \/ bank[c] \in {"none", "queued"} \/ (bank[c] = "processed" /\ bank'[c] = "reversed")
           /\ bank'[c] \in {"queued", "processed"} =>
                subject'[c] = subject[c]
                  /\ (bank[c] \in {"queued", "processed"} \/ \A r \in Requests : subject[c] = r => returned[r] = 0),
         job' = job \/ UNCHANGED bank
  PROVE Outcomes'
<1> USE WithdrawalConstants DEF Base
<1>1. \A q \in Requests : payoutId[q] # NoApproval => payoutId[q] \in Approvals /\ bank[payoutId[q]] # "none"
  BY DEF TypeOK, RequestsFit
<1>2. JobsAsked'
  <2> SUFFICES ASSUME NEW q \in Requests, status'[q] = "processing"
               PROVE /\ job'[q] = "processed" => bank'[payoutId[q]] \in {"processed", "reversed"}
                     /\ job'[q] \in {"failed", "cancelled", "reversed"} => bank'[payoutId[q]] = job'[q]
    BY DEF JobsAsked
  <2>1. /\ payoutId[q] \in Approvals /\ bank[payoutId[q]] # "none" /\ status[q] = "processing"
        /\ job[q] = "processed" => bank[payoutId[q]] \in {"processed", "reversed"}
        /\ job[q] \in {"failed", "cancelled", "reversed"} => bank[payoutId[q]] = job[q]
    BY <1>1 DEF RequestsFit, Outcomes, JobsAsked
  <2>2. CASE UNCHANGED bank
    BY <2>1, <2>2
  <2>3. CASE job' = job
    BY <2>1, <2>3
  <2>4. QED BY <2>2, <2>3
<1>3. PaidByBank'
  BY DEF Outcomes, PaidByBank
<1>4. ReturnExcused'
  <2> SUFFICES ASSUME NEW q \in Requests \ byHand, NEW c \in Approvals,
                      returned[q] > 0, subject'[c] = q, bank'[c] \in {"queued", "processed"}
               PROVE \E e \in Approvals : subject'[e] = q /\ Troubled(e)'
    BY DEF ReturnExcused
  <2>1. \E e \in Approvals : subject[e] = q /\ Troubled(e)
    BY DEF Outcomes, ReturnExcused
  <2>2. QED BY <2>1, TroubleLasts
<1>5. QED BY <1>2, <1>3, <1>4 DEF Outcomes

\* Every step of the withdrawals keeps the outcomes.
LEMMA OutcomesStep ==
  ASSUME Base, Outcomes, WithdrawalNext
  PROVE Outcomes'
<1> USE WithdrawalConstants DEF Base
<1>a. PayoutOnce
  BY PayoutOnceFollows
<1>b. ASSUME NEW r \in Requests, NEW c \in Approvals, subject[c] = r,
             bank[c] \in {"failed", "cancelled", "reversed"}
      PROVE \A d \in Approvals : subject[d] = r /\ bank[d] \in {"queued", "processed"} =>
              \E e \in Approvals : subject[e] = r /\ Troubled(e)
  BY <1>a, <1>b DEF PayoutOnce
<1>c. ASSUME NEW r \in Requests, holder[r] = NoApproval, status[r] \in {"pending", "manual_review"}
      PROVE \A d \in Approvals : subject[d] = r /\ bank[d] \in {"queued", "processed"} => Troubled(d)
  BY <1>c DEF ApprovalsHold, TypeOK, Troubled, Unapproved
<1>d. ASSUME NEW r \in Requests \ byHand, status[r] = "failed"
      PROVE \A d \in Approvals : subject[d] = r /\ bank[d] \in {"queued", "processed"} =>
              \E e \in Approvals : subject[e] = r /\ Troubled(e)
  BY <1>d DEF RequestsFit, Outcomes, ReturnExcused
<1>1. ASSUME NEW r \in Requests, Request(r) PROVE Outcomes'
  <2>1. UNCHANGED <<payoutId, returned, byHand, job, subject, bank>>
    BY <1>1 DEF Request, approvalVars, recoveryVars
  <2>2. \A q \in Requests : status'[q] \in {"processing", "paid"} => status'[q] = status[q]
    BY <1>1 DEF Request, TypeOK
  <2>3. QED BY <2>1, <2>2, OutcomesStay
<1>2. ASSUME NEW r \in Requests, Reject(r) PROVE Outcomes'
  <2>1. /\ Marks(r, "cancelled", NoApproval) /\ UNCHANGED <<subject, bank, job, byHand>>
        /\ holder[r] = NoApproval /\ status[r] \in {"pending", "manual_review", "failed"}
    BY <1>2, FailMarks DEF Reject, Fail, Final, approvalVars, recoveryVars
  <2>2. r \in byHand \/ \A c \in Approvals : subject[c] = r /\ bank[c] \in {"queued", "processed"} =>
          \E e \in Approvals : subject[e] = r /\ Troubled(e)
    BY <1>c, <1>d, <2>1
  <2>3. QED BY <2>1, <2>2, MarkOutcome
<1>3. ASSUME NEW c \in Approvals, ErrorMarksFailed(c) PROVE Outcomes'
  <2>1. /\ subject[c] \in Requests /\ Troubled(c)
        /\ UNCHANGED <<subject, bank, job, byHand>>
    BY <1>3 DEF ErrorMarksFailed, Troubled, ApprovalsHold, TypeOK, recoveryVars
  <2>2. Marks(subject[c], "failed", NoApproval)
    BY <1>3, <2>1, FailMarks DEF ErrorMarksFailed, Final
  <2>3. QED BY <2>1, <2>2, MarkOutcome
<1>4. ASSUME NEW c \in Approvals, NEW s \in Final, PayoutWebhook(c, s) PROVE Outcomes'
  <2>1. /\ Resolve(subject[c], s, c) /\ UNCHANGED <<subject, bank, job, byHand>>
        /\ s = "processed" => bank[c] \in {"processed", "reversed"}
        /\ s # "processed" => bank[c] \in {"failed", "cancelled", "reversed"}
        /\ bank[c] # "none"
    BY <1>4 DEF PayoutWebhook, Told, TypeOK, Final, approvalVars, recoveryVars
  <2>2. subject[c] \in Requests
    BY <2>1 DEF ApprovalsHold, TypeOK
  <2>3. CASE s = "processed"
    BY <2>1, <2>2, <2>3, ResolveMarks, MarkOutcome
  <2>4. CASE s # "processed"
    <3>1. \A d \in Approvals : subject[d] = subject[c] /\ bank[d] \in {"queued", "processed"} =>
            \E e \in Approvals : subject[e] = subject[c] /\ Troubled(e)
      BY <1>b, <2>1, <2>2, <2>4
    <3>2. Marks(subject[c], s, c)
      BY <2>1, <2>2, <2>4, ResolveMarks
    <3>3. s # "paid"
      BY DEF Final
    <3>4. QED BY <2>1, <2>2, <3>1, <3>2, <3>3, MarkOutcome
  <2>5. QED BY <2>3, <2>4
<1>5. ASSUME NEW r \in Requests, SweepApply(r), ~UNCHANGED requestVars PROVE Outcomes'
  <2>1. /\ Resolve(r, job[r], payoutId[r]) /\ job[r] \in Final
        /\ UNCHANGED <<subject, bank, byHand>> /\ \A q \in Requests \ {r} : job'[q] = job[q]
    BY <1>5 DEF SweepApply, approvalVars, TypeOK
  <2>2. payoutId[r] \in Approvals \cup {NoApproval}
    BY DEF TypeOK
  <2>3. CASE job[r] = "processed"
    <3>1. Marks(r, "paid", payoutId[r])
      BY <2>1, <2>2, <2>3, ResolveMarks
    <3>2. status[r] = "processing"
      BY <3>1 DEF Marks
    <3>3. payoutId[r] \in Approvals /\ bank[payoutId[r]] \in {"processed", "reversed"}
      BY <2>2, <2>3, <3>2 DEF RequestsFit, Outcomes, JobsAsked
    <3>4. QED BY <2>1, <3>1, <3>3, MarkOutcome
  <2>4. CASE job[r] # "processed"
    <3>1. Marks(r, job[r], payoutId[r])
      BY <2>1, <2>2, <2>4, ResolveMarks
    <3>2. job[r] \in {"failed", "cancelled", "reversed"} /\ job[r] # "paid"
      BY <2>1, <2>4 DEF Final
    <3>3. status[r] \in {"pending", "manual_review", "processing", "failed"}
      BY <3>1, <3>2 DEF Marks
    <3>4. status[r] \in {"processing", "failed"}
      BY <3>2, <3>3 DEF RequestsFit, Unapproved
    <3>5. r \in byHand \/ \A d \in Approvals : subject[d] = r /\ bank[d] \in {"queued", "processed"} =>
            \E e \in Approvals : subject[e] = r /\ Troubled(e)
      <4>1. CASE status[r] = "failed"
        BY <1>d, <4>1
      <4>2. CASE status[r] = "processing"
        <5>1. payoutId[r] \in Approvals /\ subject[payoutId[r]] = r /\ bank[payoutId[r]] = job[r]
          BY <2>2, <3>2, <4>2 DEF RequestsFit, Outcomes, JobsAsked
        <5>2. QED BY <1>b, <3>2, <5>1
      <4>3. QED BY <3>4, <4>1, <4>2
    <3>6. QED BY <2>1, <2>2, <3>1, <3>2, <3>5, MarkOutcome
  <2>5. QED BY <2>3, <2>4
<1>6. ASSUME NEW r \in Requests, DecideByHand(r) PROVE Outcomes'
  <2>1. PICK s \in Final : Resolve(r, s, payoutId[r])
    BY <1>6 DEF DecideByHand
  <2>2. payoutId[r] \in Approvals \cup {NoApproval}
    BY DEF TypeOK
  <2>3. \E t : Marks(r, t, payoutId[r])
    BY <2>1, <2>2, ResolveMarks
  <2>4. UNCHANGED <<subject, bank, job>> /\ r \in byHand' /\ byHand \subseteq byHand'
    BY <1>6 DEF DecideByHand, approvalVars
  <2>5. QED BY <2>2, <2>3, <2>4, MarkOutcome
<1>7. ASSUME NEW r \in Requests, SweepRead(r) \/ RetryJob(r) PROVE Outcomes'
  <2>1. UNCHANGED <<status, payoutId, returned, byHand, subject, bank>>
    BY <1>7 DEF SweepRead, RetryJob, requestVars, approvalVars
  <2>2. \A q \in Requests : job'[q] \in {job[q], bank[payoutId[q]], "idle"}
    BY <1>7 DEF SweepRead, RetryJob, TypeOK
  <2>3. QED BY <2>1, <2>2, OutcomesStay
<1>8. ASSUME NEW r \in Requests, SweepApply(r), UNCHANGED requestVars PROVE Outcomes'
  <2>1. UNCHANGED <<status, payoutId, returned, byHand, subject, bank>>
    BY <1>8 DEF SweepApply, requestVars, approvalVars
  <2>2. \A q \in Requests : job'[q] \in {job[q], "idle"}
    BY <1>8 DEF SweepApply, TypeOK
  <2>3. QED BY <2>1, <2>2, OutcomesStay
<1>9. ASSUME NEW c \in Approvals, BankSettles(c) \/ BankReverses(c) PROVE Outcomes'
  <2>1. UNCHANGED <<status, payoutId, returned, byHand, job, subject>>
    BY <1>9 DEF BankSettles, BankReverses, requestVars, approvalVars, recoveryVars
  <2>2. \A d \in Approvals :
          /\ bank'[d] = bank[d] \/ bank[d] = "queued" \/ (bank[d] = "processed" /\ bank'[d] = "reversed")
          /\ bank'[d] \in {"queued", "processed"} => bank[d] \in {"queued", "processed"}
    BY <1>9 DEF BankSettles, BankReverses, TypeOK
  <2>3. QED BY <2>1, <2>2, OutcomesStay
<1>10. ASSUME NEW c \in Approvals, NEW r \in Requests, ApproveClaim(c, r) PROVE Outcomes'
  <2>1. UNCHANGED <<status, payoutId, returned, byHand, job, bank>>
    BY <1>10 DEF ApproveClaim, requestVars, recoveryVars
  <2>2. \A d \in Approvals : bank[d] # "none" => subject'[d] = subject[d]
    BY <1>10 DEF ApproveClaim, ApprovalsHold, TypeOK
  <2>3. QED BY <2>1, <2>2, OutcomesStay
<1>11. ASSUME NEW c \in Approvals, PayoutAccepted(c) \/ PayoutThrows(c) \/ ApproveLost(c) PROVE Outcomes'
  <2>1. UNCHANGED <<status, payoutId, returned, byHand, job, subject>>
    BY <1>11 DEF PayoutAccepted, PayoutThrows, ApproveLost, requestVars, recoveryVars
  <2>2. at[c] = "pay" \/ UNCHANGED bank
    BY <1>11 DEF PayoutAccepted, PayoutThrows, ApproveLost
  <2>3. \A d \in Approvals : bank'[d] = bank[d] \/ (d = c /\ at[c] = "pay")
    BY <1>11, <2>2 DEF PayoutAccepted, PayoutThrows, ApproveLost, TypeOK
  <2>4. at[c] = "pay" => bank[c] = "none" /\ \A r \in Requests : subject[c] = r => returned[r] = 0
    BY DEF ApprovalsHold, RequestsFit, Open
  <2>5. QED BY <2>1, <2>3, <2>4, OutcomesStay
<1>12. ASSUME NEW c \in Approvals, ErrorEndsTransaction(c) \/ ErrorMarkGivesUp(c) PROVE Outcomes'
  <2>1. UNCHANGED <<status, payoutId, returned, byHand, job, subject, bank>>
    BY <1>12 DEF ErrorEndsTransaction, ErrorMarkGivesUp, requestVars, recoveryVars
  <2>2. QED BY <2>1, OutcomesStay
<1>13. ASSUME NEW c \in Approvals, ApproveCommit(c) PROVE Outcomes'
  <2>1. /\ UNCHANGED <<returned, byHand, job, subject, bank>>
        /\ subject[c] \in Requests /\ status[subject[c]] \in {"pending", "manual_review"}
    BY <1>13 DEF ApproveCommit, recoveryVars, ApprovalsHold, TypeOK
  <2>2. /\ status'[subject[c]] = "processing"
        /\ \A q \in Requests \ {subject[c]} : status'[q] = status[q] /\ payoutId'[q] = payoutId[q]
    BY <1>13, <2>1 DEF ApproveCommit, TypeOK
  <2>3. job[subject[c]] = "none"
    BY <2>1 DEF RequestsFit, Unapproved
  <2>4. JobsAsked'
    BY <2>1, <2>2, <2>3 DEF Outcomes, JobsAsked
  <2>5. PaidByBank'
    BY <2>1, <2>2 DEF Outcomes, PaidByBank
  <2>6. ReturnExcused'
    BY <2>1, TroubleLasts DEF Outcomes, ReturnExcused
  <2>7. QED BY <2>4, <2>5, <2>6 DEF Outcomes
<1>14. QED
  BY <1>1, <1>2, <1>3, <1>4, <1>5, <1>6, <1>7, <1>8, <1>9, <1>10, <1>11, <1>12, <1>13
     DEF WithdrawalNext, Recover, Approve, Bank
-----------------------------------------------------------------------------
(* The whole invariant, and what follows from it.                          *)
WithdrawalsInv == Base /\ Credits /\ PendingIsBacked /\ Money /\ Outcomes

\* At the start the wallets are empty and nothing is requested.
LEMMA WithdrawalsStart == Init => WithdrawalsInv
<1> SUFFICES ASSUME Init PROVE WithdrawalsInv
  OBVIOUS
<1> USE SettlementConstants, WithdrawalConstants DEF Init, SettlementInit
<1>1. TypeOK
  BY DEF TypeOK, SettlementTypeOK, Final, Open
<1>2. ApprovalsHold /\ RequestsFit
  BY DEF ApprovalsHold, RequestsFit, Open, Unapproved
<1>3. EarnedCovers
  <2>1. ASSUME NEW p \in Payees PROVE Cardinality(Reversible(p)) <= earned[p]
    <3>1. Reversible(p) = {} /\ earned[p] = 0
      BY DEF Reversible
    <3>2. Cardinality({}) = 0
      BY FS_EmptySet
    <3> HIDE DEF Init, SettlementInit
    <3>3. QED BY <3>1, <3>2
  <2>2. QED BY <2>1 DEF EarnedCovers
<1>4. Credits
  BY DEF Credits
<1>5. PendingIsBacked
  <2>1. ASSUME NEW p \in Payees
        PROVE pendingAmount[p] <= Cardinality({o \in Orders : payoutStatus[o][p] = "pending"})
    <3>1. Cardinality(Waiting(p)) \in Nat /\ pendingAmount[p] = 0
      BY WaitingIsFinite
    <3> HIDE DEF Init, SettlementInit
    <3>2. QED BY <3>1 DEF Waiting
  <2>2. QED BY <2>1 DEF PendingIsBacked
<1>6. \A p \in Payees, r \in Requests : ~OpenOf(p, r)
  BY DEF OpenOf, Open
<1>7. Money
  BY <1>6 DEF Money, OneOpen, ReservedFits, MoneyFits, Holdings
<1>8. Outcomes
  BY DEF Outcomes, JobsAsked, PaidByBank, ReturnExcused
<1>9. QED BY <1>1, <1>2, <1>3, <1>4, <1>5, <1>7, <1>8 DEF WithdrawalsInv, Base

\* A step of the withdrawals keeps the base and the money.
LEMMA WithdrawalStep ==
  ASSUME WithdrawalsInv, WithdrawalNext
  PROVE Base' /\ Money'
<1> USE WithdrawalConstants DEF WithdrawalsInv
<1>a. ASSUME UNCHANGED untouched, TypeOK', ApprovalsHold', RequestsFit' PROVE Base'
  BY <1>a DEF Base, EarnedCovers, Reversible, untouched, orderVars
<1>b. ASSUME Base', UNCHANGED <<moneyVars, untouched, amount, returned>>,
             \A q \in Requests : status'[q] \in Open <=> status[q] \in Open
      PROVE Money'
  <2>1. UNCHANGED <<reserved, withdrawn, balance, excess, pendingAmount, earned>>
    BY <1>b DEF moneyVars, untouched
  <2>2. \A p \in Payees : pendingAmount[p] \in Nat /\ balance[p] \in Nat /\ earned[p] \in Nat /\ excess[p] \in Nat
    BY DEF Base, TypeOK, SettlementTypeOK
  <2>3. QED BY <1>b, <2>1, <2>2, MoneyStays DEF Base
<1>1. ASSUME NEW r \in Requests, Request(r) PROVE Base' /\ Money'
  <2>1. Base'
    BY <1>1, <1>a, RequestBase DEF Request
  <2>2. QED BY <1>1, <2>1, RequestMoney
<1>2. ASSUME NEW r \in Requests, NEW c, NEW s \in Final,
             \/ Reject(r)
             \/ c \in Approvals /\ ErrorMarksFailed(c) /\ r = subject[c]
             \/ c \in Approvals /\ PayoutWebhook(c, s) /\ r = subject[c]
             \/ SweepApply(r) /\ ~UNCHANGED requestVars
             \/ DecideByHand(r)
      PROVE Base' /\ Money'
  <2>1. PICK t \in {"paid", "failed", "reversed", "cancelled"}, d \in Approvals \cup {NoApproval} :
          /\ Marks(r, t, d)
          /\ t = "paid" => Complete(r, d)
          /\ t # "paid" => Fail(r, t, d)
    BY <1>2, MarkSteps
  <2>2. Base'
    BY <1>2, <1>a, <2>1, MarkBase DEF Marks
  <2>3. QED BY <2>1, <2>2, MarkMoney
<1>3. ASSUME NEW c \in Approvals, NEW r \in Requests,
             \/ ApproveClaim(c, r) \/ PayoutAccepted(c) \/ PayoutThrows(c) \/ ApproveCommit(c)
             \/ ApproveLost(c) \/ ErrorEndsTransaction(c) \/ ErrorMarkGivesUp(c)
      PROVE Base' /\ Money'
  <2>1. UNCHANGED <<moneyVars, untouched, amount, returned>>
    BY <1>3 DEF ApproveClaim, PayoutAccepted, PayoutThrows, ApproveCommit, ApproveLost, ErrorEndsTransaction,
                ErrorMarkGivesUp, requestVars
  <2>2. \A q \in Requests : status'[q] \in Open <=> status[q] \in Open
    <3>1. CASE UNCHANGED status
      BY <3>1
    <3>2. CASE ApproveCommit(c)
      BY <3>2 DEF ApproveCommit, Base, ApprovalsHold, TypeOK, Open
    <3>3. QED
      BY <1>3, <3>1, <3>2 DEF ApproveClaim, PayoutAccepted, PayoutThrows, ApproveLost, ErrorEndsTransaction,
                ErrorMarkGivesUp, requestVars
  <2>3. Base'
    BY <1>3, <1>a, <2>1, ApproveBase
  <2>4. QED BY <1>b, <2>1, <2>2, <2>3
<1>4. ASSUME NEW c, NEW r \in Requests,
             \/ c \in Approvals /\ (BankSettles(c) \/ BankReverses(c))
             \/ SweepRead(r) \/ RetryJob(r) \/ (SweepApply(r) /\ UNCHANGED requestVars)
      PROVE Base' /\ Money'
  <2>1. TypeOK' /\ ApprovalsHold' /\ RequestsFit'
    BY <1>4, RecoveryBase
  <2>2. UNCHANGED <<moneyVars, untouched, requestVars>>
    <3>1. CASE SweepApply(r) /\ UNCHANGED requestVars
      <4>1. ~Resolve(r, job[r], payoutId[r])
        <5>1. ~Marks(r, "paid", payoutId[r]) /\ \A s \in Final : ~Marks(r, s, payoutId[r])
          BY <3>1 DEF Marks, requestVars, Base, TypeOK, Final
        <5>2. QED BY <3>1, <5>1, ResolveMarks DEF SweepApply, Base, TypeOK
      <4>2. QED BY <3>1, <4>1 DEF SweepApply
    <3>2. QED BY <1>4, <3>1 DEF BankSettles, BankReverses, SweepRead, RetryJob
  <2>3. Base'
    BY <1>a, <2>1, <2>2
  <2>4. QED BY <1>b, <2>2, <2>3 DEF requestVars
<1>5. ASSUME NEW c \in Approvals, Approve(c) PROVE Base' /\ Money'
  <2>1. CASE ErrorMarksFailed(c)
    <3>1. subject[c] \in Requests
      BY <2>1 DEF ErrorMarksFailed, Base, ApprovalsHold, TypeOK
    <3>2. "failed" \in Final
      BY DEF Final
    <3>3. QED BY <1>2, <2>1, <3>1, <3>2
  <2>2. CASE \E r \in Requests : ApproveClaim(c, r)
    BY <1>3, <2>2
  <2>3. CASE \/ PayoutAccepted(c) \/ PayoutThrows(c) \/ ApproveCommit(c)
             \/ ApproveLost(c) \/ ErrorEndsTransaction(c) \/ ErrorMarkGivesUp(c)
    <3>1. subject[c] \in Requests
      BY <2>3 DEF PayoutAccepted, PayoutThrows, ApproveCommit, ApproveLost, ErrorEndsTransaction,
                  ErrorMarkGivesUp, Base, ApprovalsHold, TypeOK
    <3>2. QED BY <1>3, <2>3, <3>1
  <2>4. QED BY <1>5, <2>1, <2>2, <2>3 DEF Approve
<1>6. ASSUME NEW c \in Approvals, Bank(c) PROVE Base' /\ Money'
  <2>1. subject[c] \in Requests
    BY <1>6 DEF Bank, BankSettles, BankReverses, PayoutWebhook, Told, Base, ApprovalsHold, TypeOK
  <2>2. QED BY <1>2, <1>4, <1>6, <2>1 DEF Bank
<1>7. ASSUME NEW r \in Requests, Reject(r) \/ Recover(r) PROVE Base' /\ Money'
  BY <1>2, <1>4, <1>7 DEF Recover, Final
<1>8. QED BY <1>1, <1>5, <1>6, <1>7 DEF WithdrawalNext

\* The withdrawals leave the settlement of orders alone.
LEMMA WithdrawalLeaves ==
  ASSUME TypeOK, ApprovalsHold, WithdrawalNext
  PROVE UNCHANGED untouched
<1>1. ASSUME NEW r \in Requests, NEW s, NEW c, Resolve(r, s, c) PROVE UNCHANGED untouched
  BY <1>1 DEF Resolve, Complete, Fail, GiveBack
<1>2. ASSUME NEW r \in Requests, Request(r) \/ Reject(r) PROVE UNCHANGED untouched
  BY <1>2 DEF Request, Reject, Fail, GiveBack
<1>3. ASSUME NEW r \in Requests, Recover(r) PROVE UNCHANGED untouched
  BY <1>1, <1>3 DEF Recover, SweepRead, RetryJob, SweepApply, DecideByHand
<1>4. ASSUME NEW c \in Approvals, Approve(c) PROVE UNCHANGED untouched
  BY <1>4 DEF Approve, ApproveClaim, PayoutAccepted, PayoutThrows, ApproveCommit, ApproveLost,
              ErrorEndsTransaction, ErrorMarksFailed, ErrorMarkGivesUp, Fail, GiveBack
<1>5. ASSUME NEW c \in Approvals, Bank(c) PROVE UNCHANGED untouched
  <2>1. CASE BankSettles(c) \/ BankReverses(c)
    BY <2>1 DEF BankSettles, BankReverses
  <2>2. CASE \E s \in Final : PayoutWebhook(c, s)
    <3>1. subject[c] \in Requests
      BY <2>2 DEF PayoutWebhook, Told, ApprovalsHold, TypeOK
    <3>2. QED BY <1>1, <2>2, <3>1 DEF PayoutWebhook
  <2>3. QED BY <1>5, <2>1, <2>2 DEF Bank
<1>6. QED BY <1>2, <1>3, <1>4, <1>5 DEF WithdrawalNext

\* A step of the settlement leaves the requests, and what hangs on them, alone.
LEMMA SettlementLeaves ==
  ASSUME WithdrawalsInv, SettlementNext,
         UNCHANGED <<reserved, withdrawn, requestVars, approvalVars, recoveryVars, bank>>
  PROVE WithdrawalsInv'
<1> USE DEF WithdrawalsInv
<1>1. SettlementTypeOK' /\ EarnedCovers'
  BY SettlementStep DEF Base, TypeOK
<1>2. TypeOK'
  BY <1>1 DEF Base, TypeOK, requestVars, approvalVars, recoveryVars
<1>3. ApprovalsHold' /\ RequestsFit' /\ Outcomes'
  BY DEF Base, ApprovalsHold, RequestsFit, Outcomes, JobsAsked, PaidByBank, ReturnExcused, Troubled,
         requestVars, approvalVars, recoveryVars
<1>4. Base'
  BY <1>1, <1>2, <1>3 DEF Base
<1>5. Credits' /\ PendingIsBacked'
  BY PendingStep DEF Base, TypeOK
<1>6. Money'
  BY <1>4, SettlementMoney
<1>7. QED BY <1>3, <1>4, <1>5, <1>6

(* The invariant of the wallets and the withdrawals.                       *)
THEOREM WithdrawalsInvariance == Spec => []WithdrawalsInv
<1>1. WithdrawalsInv /\ [Next]_vars => WithdrawalsInv'
  <2> SUFFICES ASSUME WithdrawalsInv, [Next]_vars PROVE WithdrawalsInv'
    OBVIOUS
  <2>1. CASE WithdrawalNext
    <3>1. Base' /\ Money' /\ Outcomes'
      BY <2>1, WithdrawalStep, OutcomesStep DEF WithdrawalsInv
    <3>2. UNCHANGED untouched
      BY <2>1, WithdrawalLeaves DEF WithdrawalsInv, Base
    <3>3. Credits' /\ PendingIsBacked'
      BY <3>2 DEF WithdrawalsInv, Credits, PendingIsBacked, untouched, orderVars
    <3>4. QED BY <3>1, <3>3 DEF WithdrawalsInv
  <2>2. CASE /\ SettlementNext
             /\ UNCHANGED <<reserved, withdrawn, requestVars, approvalVars, recoveryVars, bank>>
    BY <2>2, SettlementLeaves
  <2>3. CASE UNCHANGED vars
    <3>1. Base'
      BY <2>3 DEF WithdrawalsInv, Base, TypeOK, SettlementTypeOK, ApprovalsHold, RequestsFit, EarnedCovers,
                  Reversible, vars, settlementVars, orderVars, requestVars, approvalVars, recoveryVars
    <3>2. Credits' /\ PendingIsBacked' /\ Outcomes'
      BY <2>3 DEF WithdrawalsInv, Credits, PendingIsBacked, Outcomes, JobsAsked, PaidByBank, ReturnExcused,
                  Troubled, vars, settlementVars, orderVars, requestVars, approvalVars, recoveryVars
    <3>3. Money'
      BY <2>3 DEF WithdrawalsInv, Money, OneOpen, ReservedFits, MoneyFits, OpenOf, Holdings, vars,
                  settlementVars, requestVars
    <3>4. QED BY <3>1, <3>2, <3>3 DEF WithdrawalsInv
  <2>4. QED BY <2>1, <2>2, <2>3 DEF Next
<1>2. QED BY <1>1, WithdrawalsStart, PTL DEF Spec

\* The types, for any wallets: no amount is ever negative, and none is returned
\* a third time (financeService.js:1384-1655).
THEOREM WithdrawalsTypeCorrect == Spec => []TypeOK
<1>1. WithdrawalsInv => TypeOK
  BY DEF WithdrawalsInv, Base
<1>2. QED BY <1>1, WithdrawalsInvariance, PTL

\* No settlement, reversal, request or outcome loses a payee's money, and what
\* a wallet holds too much is accounted for (financeService.js:520-812, 1031-1655).
THEOREM AccountsAddUpAlways == Spec => []AccountsAddUp
<1>1. WithdrawalsInv => AccountsAddUp
  <2> SUFFICES ASSUME WithdrawalsInv, NEW p \in Payees
               PROVE Holdings(p) \in earned[p] .. earned[p] + excess[p]
    BY DEF AccountsAddUp
  <2>1. /\ pendingAmount[p] \in Nat /\ balance[p] \in Nat /\ reserved[p] \in Nat
        /\ withdrawn[p] \in Nat /\ earned[p] \in Nat /\ excess[p] \in Nat
    BY DEF WithdrawalsInv, Base, TypeOK, SettlementTypeOK
  <2>2. earned[p] <= Holdings(p) /\ Holdings(p) <= earned[p] + excess[p]
    BY DEF WithdrawalsInv, Money, MoneyFits
  <2>3. Holdings(p) \in Int
    BY <2>1 DEF Holdings
  <2>4. QED BY <2>1, <2>2, <2>3
<1>2. QED BY <1>1, WithdrawalsInvariance, PTL

\* A payee has one open request at most, and has reserved its amount unless a
\* failed request was rejected as well (financeService.js:1396-1412, 1571-1596).
THEOREM ReservedIsOpenAlways == Spec => []ReservedIsOpen
<1>1. WithdrawalsInv => ReservedIsOpen
  <2> SUFFICES ASSUME WithdrawalsInv, NEW p \in Payees,
                      \A r \in {q \in Requests : Requester[q] = p} : returned[r] <= 1
               PROVE LET open == {r \in {q \in Requests : Requester[q] = p} : status[r] \in Open}
                     IN \/ open = {} /\ reserved[p] = 0
                        \/ \E r \in open : open = {r} /\ reserved[p] = amount[r]
    BY DEF ReservedIsOpen
  <2>1. CASE \A r \in Requests : ~OpenOf(p, r)
    BY <2>1 DEF WithdrawalsInv, Money, ReservedFits, OpenOf
  <2>2. ASSUME NEW r \in Requests, OpenOf(p, r)
        PROVE {q \in {e \in Requests : Requester[e] = p} : status[q] \in Open} = {r}
              /\ reserved[p] = amount[r]
    BY <2>2 DEF WithdrawalsInv, Money, OneOpen, ReservedFits, OpenOf
  <2>3. QED BY <2>1, <2>2
<1>2. QED BY <1>1, WithdrawalsInvariance, PTL

\* Any number of approvals of a request make one payout, unless one of them was
\* cut off or left without an answer (financeService.js:1209-1330).
THEOREM PayoutOnceAlways == Spec => []PayoutOnce
<1>1. WithdrawalsInv => PayoutOnce
  BY PayoutOnceFollows DEF WithdrawalsInv, Base
<1>2. QED BY <1>1, WithdrawalsInvariance, PTL

\* No more waits to be settled than orders wait for it (financeService.js:722-727,
\* 829-871).
THEOREM PendingIsBackedAlways == Spec => []PendingIsBacked
<1>1. WithdrawalsInv => PendingIsBacked
  BY DEF WithdrawalsInv
<1>2. QED BY <1>1, WithdrawalsInvariance, PTL

\* The sweep has a payout to ask about for every request in processing, and
\* unless an operator decided, what a request became is what the gateway did
\* (financeService.js:1209-1330, 1460-1655, financeController.js:1657).
THEOREM OutcomeIsTheBanksAlways == Spec => []OutcomeIsTheBanks
<1>1. WithdrawalsInv => OutcomeIsTheBanks
  <2> SUFFICES ASSUME WithdrawalsInv PROVE OutcomeIsTheBanks
    OBVIOUS
  <2>1. ASSUME NEW r \in Requests, status[r] = "processing"
        PROVE \E c \in Approvals : payoutId[r] = c /\ subject[c] = r /\ bank[c] # "none"
    BY <2>1 DEF WithdrawalsInv, Base, TypeOK, RequestsFit
  <2>2. QED BY <2>1 DEF WithdrawalsInv, Outcomes, PaidByBank, ReturnExcused, OutcomeIsTheBanks
<1>2. QED BY <1>1, WithdrawalsInvariance, PTL

\* Only a manual settlement that listed the order before marks the payout of a
\* reversed order as made (financeService.js:829-871, financeController.js:1499).
THEOREM ReversedIsFinalAlways == Spec => ReversedIsFinal
<1>1. ASSUME WithdrawalsInv, [Next]_vars, NEW o \in Orders, NEW p \in Payees,
             payoutStatus[o][p] = "reversed", p \in credited[o], payoutStatus'[o][p] # "reversed"
      PROVE \E c \in Operators : list[c].payee = p /\ o \in list[c].orders
  <2>1. CASE SettlementNext
    BY <1>1, <2>1, ReversedStep DEF WithdrawalsInv, Base, TypeOK
  <2>2. CASE WithdrawalNext
    BY <1>1, <2>2, WithdrawalLeaves DEF WithdrawalsInv, Base, untouched, orderVars
  <2>3. CASE UNCHANGED vars
    BY <1>1, <2>3 DEF vars, settlementVars, orderVars
  <2>4. QED BY <1>1, <2>1, <2>2, <2>3 DEF Next
<1>2. WithdrawalsInv /\ [Next]_vars =>
        [\A o \in Orders : \A p \in Payees :
           payoutStatus[o][p] = "reversed" /\ p \in credited[o] /\ payoutStatus'[o][p] # "reversed"
             => \E c \in Operators : list[c].payee = p /\ o \in list[c].orders]_settlementVars
  BY <1>1
<1>3. QED BY <1>2, WithdrawalsInvariance, PTL DEF Spec, ReversedIsFinal

\* A request moves only as WITHDRAWAL_STATE_TRANSITIONS says, although the
\* approval commits the status it decided before it called the gateway, and the
\* webhook, the sweep, the operator and the error handler write meanwhile
\* (financeService.js:58-89, 1198-1657).
OnlyTransitions ==
  [][\A r \in Requests : status'[r] # status[r] =>
       status[r] = "absent" \/ Transition(status[r], status'[r])]_vars

THEOREM OnlyTransitionsAlways == Spec => OnlyTransitions
<1> DEFINE Moves == \A r \in Requests : status'[r] # status[r] =>
                      status[r] = "absent" \/ Transition(status[r], status'[r])
<1>1. ASSUME TypeOK, NEW r \in Requests, NEW s, status' = [status EXCEPT ![r] = s],
             status[r] = "absent" \/ Transition(status[r], s)
      PROVE Moves
  BY <1>1 DEF TypeOK
<1>2. ASSUME TypeOK, NEW r \in Requests, NEW s, NEW c,
             Complete(r, c) \/ Fail(r, s, c) \/ Resolve(r, s, c)
      PROVE Moves
  BY <1>1, <1>2 DEF Complete, Fail, Resolve
<1>3. ASSUME WithdrawalsInv, WithdrawalNext PROVE Moves
  <2>1. ASSUME NEW r \in Requests, Request(r) \/ Reject(r) \/ Recover(r) PROVE Moves
    <3>1. CASE Request(r)
      BY <1>1, <1>3, <3>1 DEF Request, WithdrawalsInv, Base
    <3>2. CASE Reject(r) \/ SweepApply(r) \/ DecideByHand(r)
      BY <1>2, <1>3, <3>2 DEF Reject, SweepApply, DecideByHand, requestVars, WithdrawalsInv, Base
    <3>3. CASE SweepRead(r) \/ RetryJob(r)
      BY <3>3 DEF SweepRead, RetryJob, requestVars
    <3>4. QED BY <2>1, <3>1, <3>2, <3>3 DEF Recover
  <2>2. ASSUME NEW c \in Approvals, Approve(c) \/ Bank(c) PROVE Moves
    <3>1. CASE ApproveCommit(c)
      <4>1. /\ status' = [status EXCEPT ![subject[c]] = "processing"]
            /\ subject[c] \in Requests /\ status[subject[c]] \in {"pending", "manual_review"}
        BY <1>3, <3>1 DEF ApproveCommit, WithdrawalsInv, Base, ApprovalsHold, TypeOK
      <4>2. Transition(status[subject[c]], "processing")
        BY <4>1 DEF Transition
      <4>3. QED BY <1>1, <1>3, <4>1, <4>2 DEF WithdrawalsInv, Base
    <3>2. CASE ErrorMarksFailed(c) \/ \E s \in Final : PayoutWebhook(c, s)
      <4>1. subject[c] \in Requests
        BY <1>3, <3>2 DEF ErrorMarksFailed, PayoutWebhook, Told, WithdrawalsInv, Base, ApprovalsHold, TypeOK
      <4>2. QED BY <1>2, <1>3, <3>2, <4>1 DEF ErrorMarksFailed, PayoutWebhook, WithdrawalsInv, Base
    <3>3. CASE \/ \E r \in Requests : ApproveClaim(c, r)
               \/ PayoutAccepted(c) \/ PayoutThrows(c) \/ ApproveLost(c)
               \/ ErrorEndsTransaction(c) \/ ErrorMarkGivesUp(c) \/ BankSettles(c) \/ BankReverses(c)
      BY <3>3 DEF ApproveClaim, PayoutAccepted, PayoutThrows, ApproveLost, ErrorEndsTransaction,
                  ErrorMarkGivesUp, BankSettles, BankReverses, requestVars
    <3>4. QED BY <2>2, <3>1, <3>2, <3>3 DEF Approve, Bank
  <2>3. QED BY <1>3, <2>1, <2>2 DEF WithdrawalNext
<1>4. WithdrawalsInv /\ [Next]_vars => [Moves]_vars
  BY <1>3 DEF Next, requestVars
<1>5. QED BY <1>4, WithdrawalsInvariance, PTL DEF Spec, OnlyTransitions
=============================================================================
