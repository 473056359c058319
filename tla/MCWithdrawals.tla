--------------------------- MODULE MCWithdrawals ---------------------------
(***************************************************************************)
(* Withdrawals, with Settlement, for TLC: one vendor sells both orders.    *)
(* With one order sold, everything that can happen to two requests and two *)
(* approvals is explored; with both sold, what can happen to one of either.*)
(* While a manual settlement is at work, nothing was requested yet.        *)
(***************************************************************************)
EXTENDS Withdrawals, TLC

CONSTANTS vendor

MCSharesOf == [o \in Orders |-> {vendor}]
MCRequester == [r \in Requests |-> vendor]

Busy == {r \in Requests : status[r] # "absent"}
Used == {c \in Approvals : at[c] # "idle"}
Sold == {o \in Orders : sale[o] # "paid" \/ reversed[o]}

Focus ==
  /\ Cardinality(Sold) > 1 => Cardinality(Busy) <= 1 /\ Cardinality(Used) <= 1
  /\ (\E m \in Operators : list[m].orders # {}) => Busy = {}
=============================================================================
