--------------------------- MODULE MCOrderPayment ---------------------------
(***************************************************************************)
(* OrderPayment on small sets of orders and handler executions.            *)
(***************************************************************************)
EXTENDS OrderPayment, TLC

CONSTANTS
    Captures,   \* executions of the capture webhook
    Setters,    \* executions that verify, fail, retry or set a status
    Refunders   \* executions that cancel or refund

ASSUME /\ Captures \cap Setters = {}
       /\ (Captures \cup Setters) \cap Refunders = {}

(* The other executions handle the notices of refunds.                     *)
Notices == Calls \ (Captures \cup Setters \cup Refunders)

ByGroup == [c \in Calls |->
    CASE c \in Captures  -> {"capture"}
      [] c \in Setters   -> {"verify", "failed", "retry"} \cup Progress
      [] c \in Refunders -> {"cancel", "ask", "approve", "reject", "process"}
      [] OTHER           -> {"notice"}]

(* Executions of one group differ in nothing but their names.              *)
Symmetry == Permutations(Setters) \cup Permutations(Refunders) \cup Permutations(Notices)

(* Beside a cash order, which competes for the stock, two executions are at *)
(* work; beside a setter, four.                                            *)
Started == {c \in Calls : call[c].at # "idle"}

Focus == /\ (\E o \in Cod : order[o].fulfil # "absent") => Cardinality(Started) <= 2
         /\ Started \cap Setters # {} => Cardinality(Started) <= 4
         /\ Cardinality(Started) <= 5

=============================================================================
