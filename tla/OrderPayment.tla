---------------------------- MODULE OrderPayment ----------------------------
(***************************************************************************)
(* The life of an order's payment: checkout, capture, cancellation and     *)
(* refund.  An order document, the stock of the product it buys and its    *)
(* refund requests are shared by handlers that run concurrently in many    *)
(* processes: the gateway's webhooks (captured, failed, refund processed), *)
(* the customer's calls (verify, cancel, ask for a refund), the operator's *)
(* (approve, reject or process a refund, retry a payment), and those of    *)
(* everybody who sets the status of an order on its way.                   *)
(*                                                                         *)
(* A handler reads the order, awaits other calls, and then saves it.  Save *)
(* writes the fields that the handler changed and no others, and checks no *)
(* version: see Merge.  Only the two capture paths, the stock of a cash    *)
(* order, the settlement and its reversal run in a database transaction,   *)
(* which is one step here.                                                 *)
(*                                                                         *)
(* Every order buys one unit of one product.  A call is one execution of   *)
(* one handler; it may be cut short at any await by an error or a crash    *)
(* (Throw), and the webhook's sender or the user may then call again.      *)
(***************************************************************************)
EXTENDS Integers, Sequences, FiniteSetsExt

CONSTANTS
    Orders,     \* orders
    Cod,        \* the orders paid in cash on delivery; the others pay online
    Calls,      \* handler executions
    Kinds,      \* Kinds[c]: the handlers that c may be an execution of
    Stock,      \* units of the product in stock at first
    Total,      \* price of an order, in units of refund
    NoOrder,    \* no order
    NoCall      \* no execution

ASSUME PaymentAssumption ==
    /\ Cod \subseteq Orders
    /\ IsFiniteSet(Orders) /\ IsFiniteSet(Calls)
    /\ Stock \in Nat
    /\ Total \in Nat \ {0}
    /\ NoOrder \notin Orders /\ NoCall \notin Calls

VARIABLES
    order,      \* order[o]: the order's document
    placing,    \* placing[o]: how far the checkout of the order has come
    stock,      \* units left
    gate,       \* gate[o]: the gateway's view of the customer's good payment
    declined,   \* declined[o]: an earlier payment attempt failed
    requests,   \* requests[o]: statuses of the refund requests, oldest first
    slips,      \* the refunds the gateway has made
    ledger,     \* ledger[c]: refund transactions recorded for the refund of c
    joined,     \* joined[c]: executions that took up the notice of the refund
                \* of c while another one was at it
    events,     \* events[o]: capture events written to the payment outbox
    call        \* call[c]: the progress and the memory of an execution

vars == <<order, placing, stock, gate, declined, requests, slips, ledger,
          joined, events, call>>

(* The statuses that vendors, riders, couriers and operators give an       *)
(* order.  "confirmed" stands for "created" and "processing" too.          *)
Progress == {"confirmed", "shipped", "delivered", "cancelled"}

AllKinds == {"capture", "failed", "notice", "verify", "cancel", "ask",
             "approve", "reject", "process", "retry"} \cup Progress

(* A payment id is that of the attempt the bank declined or of the one it  *)
(* accepted.                                                               *)
Document ==
    [fulfil    : {"absent", "pending"} \cup Progress,
     pay       : {"pending", "paid", "failed", "refunded"},
     escrow    : {"held", "released", "refunded"},
     paymentId : {"none", "declined", "accepted"},
     refund    : {"none", "requested", "approved", "refunded", "rejected"},
     deducted  : BOOLEAN,
     reversed  : BOOLEAN]

(* A checkout is none, over, or that of a cash order whose transaction is  *)
(* to run: for the first time (inserted), or again, after it was aborted   *)
(* when it had marked the order in memory and had the mark still to save   *)
(* (unsaved) or took it for saved (saved).  "rerun" is over, too: the mark *)
(* was written by the second run.                                          *)
Placing == {"none", "inserted", "unsaved", "saved", "over", "rerun"}

Status == {"pending", "approved", "rejected", "refunded"}

Slip == [id : Calls, order : Orders, req : Nat \ {0}, amount : 1..Total]

Stage == {"idle", "captureTx", "fetch", "verifyTx", "cancelFind",
          "cancelCreate", "refund", "askCheck", "askCreate", "load",
          "noticeCheck", "noticeFind", "request", "reverse", "save",
          "record", "done"}

Blank == [fulfil |-> "absent", pay |-> "pending", escrow |-> "held",
          paymentId |-> "none", refund |-> "none",
          deducted |-> FALSE, reversed |-> FALSE]

(* What an execution holds in memory: the order as it read it (seen) and   *)
(* as it will save it (doc), the refund request it works on with the       *)
(* status read (was) and the status to save (will), the refund (slip) it   *)
(* made or was told of, and the amount of that refund.                     *)
Idle == [at |-> "idle", kind |-> "none", order |-> NoOrder,
         seen |-> Blank, doc |-> Blank, req |-> 0,
         was |-> "pending", will |-> "pending", slip |-> NoCall, amount |-> 0]

Memory == [at : Stage, kind : AllKinds \cup {"none"}, order : Orders \cup {NoOrder},
           seen : Document, doc : Document, req : Nat,
           was : Status, will : Status, slip : Calls \cup {NoCall},
           amount : 0..Total]

Init == /\ order = [o \in Orders |-> Blank]
        /\ placing = [o \in Orders |-> "none"]
        /\ stock = Stock
        /\ gate = [o \in Orders |-> "open"]
        /\ declined = [o \in Orders |-> FALSE]
        /\ requests = [o \in Orders |-> <<>>]
        /\ slips = {}
        /\ ledger = [c \in Calls |-> 0]
        /\ joined = [c \in Calls |-> 0]
        /\ events = [o \in Orders |-> 0]
        /\ call = [c \in Calls |-> Idle]

-----------------------------------------------------------------------------
(* What the handlers share.                                                *)

gateway  == <<gate, declined, slips>>
refunds  == <<requests, slips, ledger>>
payment  == <<placing, stock, gate, declined, joined, events>>

(* document.save(): the fields that differ from those read are written.    *)
Merge(now, seen, doc) ==
    [f \in DOMAIN now |-> IF doc[f] # seen[f] THEN doc[f] ELSE now[f]]

Remember(c, m) == call' = [call EXCEPT ![c] = m]

Return(c) == Remember(c, [Idle EXCEPT !.at = "done"])

Await(c, stage) == Remember(c, [call[c] EXCEPT !.at = stage])

(* The execution c starts as a handler of kind k for order o, and has read *)
(* the order.                                                              *)
Enter(c, k, o, stage, doc) ==
    Remember(c, [Idle EXCEPT !.at = stage, !.kind = k, !.order = o,
                             !.seen = order[o], !.doc = doc])

Fresh(c, k, o) == /\ call[c].at = "idle"
                  /\ k \in Kinds[c]
                  /\ order[o].fulfil # "absent"

(* The executions that are at the notice of the refund of d.  The webhook's *)
(* claim lets one in at a time, but after a stop a second one may join it:  *)
(* WebhookIngest's OverlapOnlyAfterStop.                                    *)
AtIt(d) == {c \in Calls : call[c].kind = "notice" /\ call[c].slip = d}

(* The amount refunded for an order, r = 0, or for one of its requests.     *)
Refunded(o, r) ==
    MapThenSumSet(LAMBDA s : s.amount,
                  {s \in slips : s.order = o /\ (r = 0 \/ s.req = r)})

-----------------------------------------------------------------------------
(* Checkout and the gateway.                                               *)

(* createOrder, which has read that there is stock, inserts the order, a   *)
(* cash order as confirmed, before any is taken; createRazorpayOrder for   *)
(* one that pays online.                                                   *)
Checkout(o) ==
    /\ order[o].fulfil = "absent"
    /\ stock >= 1
    /\ order' = [order EXCEPT ![o].fulfil =
                    IF o \in Cod THEN "confirmed" ELSE "pending"]
    /\ placing' = [placing EXCEPT ![o] = IF o \in Cod THEN "inserted" ELSE "over"]
    /\ UNCHANGED <<stock, gateway, requests, ledger, joined, events, call>>

(* The transaction of a cash order: its unit is taken and the order marked.*)
(* With too little stock the handler throws, and the order stays.          *)
TakeUnit(o) ==
    /\ placing[o] = "inserted"
    /\ IF stock >= 1
       THEN /\ stock' = stock - 1
            /\ order' = [order EXCEPT ![o].deducted = TRUE]
       ELSE UNCHANGED <<order, stock>>
    /\ placing' = [placing EXCEPT ![o] = "over"]
    /\ UNCHANGED <<gateway, requests, ledger, joined, events, call>>

(* The database aborts the transaction with a transient error when the     *)
(* order in memory is marked already: at the save of the mark or, later,   *)
(* at the commit.  withTransaction runs the callback again.                *)
AbortTake(o) ==
    /\ placing[o] = "inserted"
    /\ stock >= 1
    /\ \E p \in {"unsaved", "saved"} : placing' = [placing EXCEPT ![o] = p]
    /\ UNCHANGED <<order, stock, gateway, requests, ledger, joined, events, call>>

(* The second run skips the stock, because the order in memory is marked,  *)
(* and writes what is left to save.                                        *)
RerunTake(o) ==
    /\ \/ /\ placing[o] = "unsaved"
          /\ order' = [order EXCEPT ![o].deducted = TRUE]
          /\ placing' = [placing EXCEPT ![o] = "rerun"]
       \/ /\ placing[o] = "saved"
          /\ placing' = [placing EXCEPT ![o] = "over"]
          /\ UNCHANGED order
    /\ UNCHANGED <<stock, gateway, requests, ledger, joined, events, call>>

(* The checkout throws or its process dies.                                *)
CheckoutFails(o) ==
    /\ placing[o] \in {"inserted", "unsaved", "saved"}
    /\ placing' = [placing EXCEPT ![o] = "over"]
    /\ UNCHANGED <<order, stock, gateway, requests, ledger, joined, events, call>>

(* The customer tries to pay: the bank declines, or authorizes a payment   *)
(* that the gateway captures later.                                        *)
Decline(o) ==
    /\ o \notin Cod /\ order[o].fulfil # "absent"
    /\ gate[o] = "open" /\ ~declined[o]
    /\ declined' = [declined EXCEPT ![o] = TRUE]
    /\ UNCHANGED <<order, placing, stock, gate, refunds, joined, events, call>>

Authorize(o) ==
    /\ o \notin Cod /\ order[o].fulfil # "absent"
    /\ gate[o] = "open"
    /\ gate' = [gate EXCEPT ![o] = "authorized"]
    /\ UNCHANGED <<order, placing, stock, declined, refunds, joined, events, call>>

Captured(o) ==
    /\ gate[o] = "authorized"
    /\ gate' = [gate EXCEPT ![o] = "captured"]
    /\ UNCHANGED <<order, placing, stock, declined, refunds, joined, events, call>>

-----------------------------------------------------------------------------
(* Capture: the webhook and the customer's call.                           *)

(* handlePaymentCaptured reads the order and ignores a paid one.           *)
CaptureRead(c, o) ==
    /\ Fresh(c, "capture", o)
    /\ gate[o] = "captured"
    /\ IF order[o].pay = "paid"
       THEN Return(c)
       ELSE Enter(c, "capture", o, "captureTx", order[o])
    /\ UNCHANGED <<order, refunds, payment>>

(* The stock is decremented without the floor of $gte.                     *)
PayOrderNoFloor(c, fulfil) ==
    LET o == call[c].order
    IN  /\ order' = [order EXCEPT ![o] =
              [@ EXCEPT !.pay = "paid", !.escrow = "held",
                        !.paymentId = "accepted", !.fulfil = fulfil,
                        !.deducted = TRUE, !.reversed = FALSE]]
        /\ stock' = IF order[o].deducted THEN stock ELSE stock - 1
        /\ events' = [events EXCEPT ![o] = @ + 1]
        /\ Return(c)
        /\ UNCHANGED <<placing, gateway, requests, ledger, joined>>

(* The order keeps the mark of its unit that it had before.                *)
PayOrderUnmarked(c, fulfil) ==
    LET o == call[c].order
    IN  /\ order[o].deducted \/ stock >= 1
        /\ order' = [order EXCEPT ![o] =
              [@ EXCEPT !.pay = "paid", !.escrow = "held",
                        !.paymentId = "accepted", !.fulfil = fulfil,
                        !.reversed = FALSE]]
        /\ stock' = IF order[o].deducted THEN stock ELSE stock - 1
        /\ events' = [events EXCEPT ![o] = @ + 1]
        /\ Return(c)
        /\ UNCHANGED <<placing, gateway, requests, ledger, joined>>

(* The transaction of both paths: the order is read again, marked paid,    *)
(* its stock taken unless it was taken before, and the outbox event        *)
(* written.  With too little stock it aborts and the handler throws.       *)
PayOrder(c, fulfil) ==
    LET o == call[c].order
        short == ~order[o].deducted /\ stock < 1
    IN  /\ IF short
           THEN UNCHANGED <<order, stock, events>>
           ELSE /\ order' = [order EXCEPT ![o] =
                      [@ EXCEPT !.pay = "paid", !.escrow = "held",
                                !.paymentId = "accepted", !.fulfil = fulfil,
                                !.deducted = TRUE, !.reversed = FALSE]]
                /\ stock' = IF order[o].deducted THEN stock ELSE stock - 1
                /\ events' = [events EXCEPT ![o] = @ + 1]
        /\ Return(c)
        /\ UNCHANGED <<placing, gateway, requests, ledger, joined>>

CaptureTx(c) ==
    /\ call[c].at = "captureTx"
    /\ LET now == order[call[c].order].fulfil
       IN  PayOrder(c, IF now = "pending" THEN "confirmed" ELSE now)

(* verifyPayment reads the order and answers at once for a paid one.  The  *)
(* client has a valid signature as soon as its payment is authorized.      *)
VerifyRead(c, o) ==
    /\ Fresh(c, "verify", o)
    /\ gate[o] # "open"
    /\ IF order[o].pay = "paid"
       THEN Return(c)
       ELSE Enter(c, "verify", o, "fetch", order[o])
    /\ UNCHANGED <<order, refunds, payment>>

(* A signature that does not fit: the order, as it was read, becomes       *)
(* failed and bears the payment's id that the call came with.              *)
VerifyRefused(c, o) ==
    /\ Fresh(c, "verify", o)
    /\ order[o].pay # "paid"
    /\ \E id \in {"declined", "accepted"} :
          /\ IF id = "declined" THEN declined[o] ELSE gate[o] # "open"
          /\ Enter(c, "verify", o, "save",
                   [order[o] EXCEPT !.pay = "failed", !.paymentId = id])
    /\ UNCHANGED <<order, refunds, payment>>

(* An authorized payment is taken for a captured one.                      *)
VerifyFetchAuthorized(c) ==
    /\ call[c].at = "fetch"
    /\ Await(c, "verifyTx")
    /\ UNCHANGED <<order, refunds, payment>>

(* It fetches the payment from the gateway: a payment that is not captured *)
(* yet makes the order, as read before the fetch, failed.                  *)
VerifyFetch(c) ==
    /\ call[c].at = "fetch"
    /\ IF gate[call[c].order] = "captured"
       THEN Await(c, "verifyTx")
       ELSE Remember(c, [call[c] EXCEPT !.at = "save", !.doc =
                [@ EXCEPT !.pay = "failed", !.fulfil = "pending",
                          !.paymentId = "accepted"]])
    /\ UNCHANGED <<order, refunds, payment>>

VerifyTx(c) == call[c].at = "verifyTx" /\ PayOrder(c, "confirmed")

(* handlePaymentFailed, for the declined attempt, ignores an order that is *)
(* paid, refunded, or failed by that very attempt.                         *)
FailedRead(c, o) ==
    /\ Fresh(c, "failed", o)
    /\ declined[o]
    /\ IF \/ order[o].pay \in {"paid", "refunded"}
          \/ order[o].pay = "failed" /\ order[o].paymentId = "declined"
       THEN Return(c)
       ELSE Enter(c, "failed", o, "save",
                  [order[o] EXCEPT !.pay = "failed", !.paymentId = "declined"])
    /\ UNCHANGED <<order, refunds, payment>>

(* An alert's RETRY_PAYMENT sets an order back that was not paid when it   *)
(* was read; an operator's manual retry sets back any.                     *)
RetryRead(c, o) ==
    /\ Fresh(c, "retry", o)
    /\ \/ order[o].pay = "paid" /\ Return(c)
       \/ Enter(c, "retry", o, "save", [order[o] EXCEPT !.pay = "pending"])
    /\ UNCHANGED <<order, refunds, payment>>

-----------------------------------------------------------------------------
(* The order on its way.                                                   *)

(* What some of those who set a status make of the payment of a cash order:*)
(* its money comes with the delivery.                                      *)
CashPay == [delivered |-> "paid", confirmed |-> "pending"]

(* A status is set whatever the status was: by the vendor, a rider or a    *)
(* courier's webhook, and, for "cancelled", by an operator's manual cancel *)
(* and the fallback of an alert, which make no refund.  Two of those who   *)
(* cancel reverse the settlement first.                                    *)
StatusRead(c, k, o) ==
    /\ Fresh(c, k, o)
    /\ k \in Progress
    /\ \E pay \in {order[o].pay} \cup
                  {CashPay[j] : j \in {j \in DOMAIN CashPay : j = k /\ o \in Cod}},
          stage \in {"save"} \cup {s \in {"reverse"} : k = "cancelled"} :
          Enter(c, k, o, stage, [order[o] EXCEPT !.fulfil = k, !.pay = pay])
    /\ UNCHANGED <<order, refunds, payment>>

(* settleDeliveredOrder, which handlers of a delivery call and a cron      *)
(* repeats: a transaction on the order as it is now.                       *)
Settle(o) ==
    /\ order[o].pay = "paid" /\ order[o].fulfil = "delivered"
    /\ order' = [order EXCEPT ![o].escrow = "released"]
    /\ UNCHANGED <<refunds, payment, call>>

-----------------------------------------------------------------------------
(* Cancellation and refunds.                                               *)

(* cancelOrder: the refund is for an order that was paid when read.        *)
CancelRead(c, o) ==
    /\ Fresh(c, "cancel", o)
    /\ IF order[o].fulfil \in {"shipped", "delivered", "cancelled"}
       THEN Return(c)
       ELSE Enter(c, "cancel", o,
                  IF o \notin Cod /\ order[o].pay = "paid"
                  THEN "cancelFind" ELSE "reverse",
                  [order[o] EXCEPT !.fulfil = "cancelled"])
    /\ UNCHANGED <<order, refunds, payment>>

(* It takes up the latest request that is pending or approved, if any, and *)
(* otherwise creates one.                                                  *)
CancelFind(c) ==
    /\ call[c].at = "cancelFind"
    /\ LET rs   == requests[call[c].order]
           open == {r \in DOMAIN rs : rs[r] \in {"pending", "approved"}}
       IN  IF open = {}
           THEN Await(c, "cancelCreate")
           ELSE \E r \in open :
                   /\ \A q \in open : q <= r
                   /\ Remember(c, [call[c] EXCEPT !.at = "refund", !.req = r,
                                                  !.was = rs[r]])
    /\ UNCHANGED <<order, refunds, payment>>

(* The request of a cancellation is created as approved, before the        *)
(* gateway has answered.                                                   *)
CancelCreateApproved(c) ==
    /\ call[c].at = "cancelCreate"
    /\ requests' = [requests EXCEPT ![call[c].order] = Append(@, "approved")]
    /\ Remember(c, [call[c] EXCEPT !.at = "refund", !.was = "approved",
                                   !.req = Len(requests[call[c].order]) + 1])
    /\ UNCHANGED <<order, slips, ledger, payment>>

CancelCreate(c) ==
    /\ call[c].at = "cancelCreate"
    /\ requests' = [requests EXCEPT ![call[c].order] = Append(@, "pending")]
    /\ Remember(c, [call[c] EXCEPT !.at = "refund", !.was = "pending",
                                   !.req = Len(requests[call[c].order]) + 1])
    /\ UNCHANGED <<order, slips, ledger, payment>>

(* createRefundRequest: the order must be paid and without a refund under  *)
(* way, and its latest request, read next, rejected.                       *)
AskRead(c, o) ==
    /\ Fresh(c, "ask", o)
    /\ IF /\ o \notin Cod /\ order[o].pay = "paid"
          /\ order[o].refund \in {"none", "rejected"}
       THEN Enter(c, "ask", o, "askCheck", [order[o] EXCEPT !.refund = "requested"])
       ELSE Return(c)
    /\ UNCHANGED <<order, refunds, payment>>

AskCheck(c) ==
    /\ call[c].at = "askCheck"
    /\ LET rs == requests[call[c].order]
       IN  IF rs = <<>> \/ rs[Len(rs)] = "rejected"
           THEN Await(c, "askCreate")
           ELSE Return(c)
    /\ UNCHANGED <<order, refunds, payment>>

AskCreate(c) ==
    /\ call[c].at = "askCreate"
    /\ requests' = [requests EXCEPT ![call[c].order] = Append(@, "pending")]
    /\ Await(c, "save")
    /\ UNCHANGED <<order, slips, ledger, payment>>

(* approveRefundRequest and rejectRefundRequest read the request, which    *)
(* must be pending, and then the order; processRefund takes a rejected     *)
(* request too, since it has no refund at the gateway.                     *)
ReviewRead(c, k, o, r) ==
    /\ Fresh(c, k, o)
    /\ k \in {"approve", "reject", "process"}
    /\ IF \/ requests[o][r] = "pending"
          \/ k = "process" /\ requests[o][r] = "rejected"
       THEN Remember(c, [Idle EXCEPT !.at = "load", !.kind = k, !.order = o,
                                     !.req = r, !.was = requests[o][r]])
       ELSE Return(c)
    /\ UNCHANGED <<order, refunds, payment>>

LoadOrder(c) ==
    LET now == order[call[c].order]
    IN  /\ call[c].at = "load"
        /\ IF call[c].kind \in {"approve", "process"}
           THEN Remember(c, [call[c] EXCEPT !.at = "refund",
                                            !.seen = now, !.doc = now])
           ELSE Remember(c, [call[c] EXCEPT !.at = "request", !.seen = now,
                                            !.doc = [now EXCEPT !.refund = "rejected"],
                                            !.will = "rejected"])
        /\ UNCHANGED <<order, refunds, payment>>

(* Every refund is taken for a full one.                                   *)
AfterRefundFull(k, doc, amount) ==
    [doc EXCEPT !.pay = "refunded", !.refund = "refunded", !.escrow = "refunded"]

(* What a refund of the given amount makes of the order: handler by        *)
(* handler, the fields set once the gateway has answered.                  *)
AfterRefund(k, doc, amount) ==
    IF amount = Total
    THEN [doc EXCEPT !.pay = "refunded", !.refund = "refunded",
                     !.escrow = IF k = "approve" THEN @ ELSE "refunded"]
    ELSE [doc EXCEPT !.refund = "approved",
                     !.pay = IF k = "process" THEN "paid" ELSE @]

(* processRazorpayRefund.  A cancellation refunds the whole price, an      *)
(* approval an amount the operator chooses, processRefund the amount asked *)
(* for, which is any here.  The gateway refunds the accepted payment, and  *)
(* not more than was paid.                                                 *)
GatewayRefund(c, amount) ==
    LET o == call[c].order
    IN  /\ call[c].at = "refund"
        /\ call[c].kind = "cancel" => amount = Total
        /\ call[c].seen.paymentId = "accepted"
        /\ gate[o] = "captured"
        /\ Refunded(o, 0) + amount <= Total
        /\ slips' = slips \cup {[id |-> c, order |-> o, req |-> call[c].req,
                                 amount |-> amount]}
        /\ Remember(c, [call[c] EXCEPT !.at = "request", !.amount = amount,
              !.will = IF call[c].kind = "process" /\ amount = Total
                       THEN "refunded" ELSE "approved"])
        /\ UNCHANGED <<order, requests, ledger, payment>>

(* A cancellation goes on when the refund fails: the gateway refuses it,   *)
(* its answer is lost, or the request cannot be saved.                     *)
RefundFails(c) ==
    /\ call[c].kind = "cancel"
    /\ call[c].at \in {"refund", "request"}
    /\ Remember(c, [call[c] EXCEPT !.at = "reverse",
                                   !.doc = [@ EXCEPT !.refund = "requested"]])
    /\ UNCHANGED <<order, refunds, payment>>

(* handleRefundProcessed finds the order by its payment id; it ignores an  *)
(* order that is refunded and reversed, and a refund that has its          *)
(* transaction.                                                            *)
NoticeRead(c, s) ==
    /\ Fresh(c, "notice", s.order)
    /\ LET now == order[s.order]
       IN  IF \/ now.paymentId # "accepted"
              \/ now.escrow = "refunded" /\ now.reversed
           THEN Return(c) /\ UNCHANGED joined
           ELSE /\ Remember(c, [Idle EXCEPT !.at = "noticeCheck", !.kind = "notice",
                                            !.order = s.order, !.seen = now,
                                            !.doc = now, !.req = s.req,
                                            !.slip = s.id, !.amount = s.amount])
                /\ joined' = IF AtIt(s.id) = {} THEN joined
                             ELSE [joined EXCEPT ![s.id] = @ + 1]
    /\ UNCHANGED <<order, refunds, placing, stock, gate, declined, events>>

(* A notice is handled without looking for its transaction.                *)
NoticeCheckSkipped(c) ==
    /\ call[c].at = "noticeCheck"
    /\ Await(c, "noticeFind")
    /\ UNCHANGED <<order, refunds, payment>>

NoticeCheck(c) ==
    /\ call[c].at = "noticeCheck"
    /\ IF ledger[call[c].slip] > 0 THEN Return(c) ELSE Await(c, "noticeFind")
    /\ UNCHANGED <<order, refunds, payment>>

(* It reads the request named in the refund; a pending one is approved.    *)
NoticeFind(c) ==
    LET status == requests[call[c].order][call[c].req]
    IN  /\ call[c].at = "noticeFind"
        /\ Remember(c, [call[c] EXCEPT !.at = "request", !.was = status,
              !.will = IF status = "pending" THEN "approved" ELSE status])
        /\ UNCHANGED <<order, refunds, payment>>

(* The request is saved, and the order prepared for its own save.  All but *)
(* processRefund reverse the settlement of an order refunded in full.      *)
SaveRequest(c) ==
    LET m == call[c]
    IN  /\ m.at = "request"
        /\ requests' = IF m.will = m.was THEN requests
                       ELSE [requests EXCEPT ![m.order][m.req] = m.will]
        /\ IF m.kind = "reject"
           THEN Await(c, "save")
           ELSE Remember(c,
                  [m EXCEPT !.at = IF m.amount = Total /\ m.kind # "process"
                                   THEN "reverse" ELSE "save",
                            !.doc = AfterRefund(m.kind, m.doc, m.amount)])
        /\ UNCHANGED <<order, slips, ledger, payment>>

(* reverseOrderSettlement: a transaction of its own on the order as it is  *)
(* now, and nothing for an order already reversed.                         *)
Reverse(c) ==
    LET o == call[c].order
    IN  /\ call[c].at = "reverse"
        /\ order' = IF order[o].reversed THEN order
                    ELSE [order EXCEPT ![o].reversed = TRUE, ![o].escrow = "refunded"]
        /\ Await(c, "save")
        /\ UNCHANGED <<refunds, payment>>

SaveOrder(c) ==
    LET m == call[c]
    IN  /\ m.at = "save"
        /\ order' = [order EXCEPT ![m.order] = Merge(@, m.seen, m.doc)]
        /\ IF m.kind = "notice" THEN Await(c, "record") ELSE Return(c)
        /\ UNCHANGED <<refunds, payment>>

(* The refund's transaction is inserted last.                              *)
RecordRefund(c) ==
    /\ call[c].at = "record"
    /\ ledger' = [ledger EXCEPT ![call[c].slip] = @ + 1]
    /\ Return(c)
    /\ UNCHANGED <<order, requests, slips, payment>>

(* A database or gateway call fails, or the process dies: what was written *)
(* stays written.                                                          *)
Throw(c) ==
    /\ call[c].at \notin {"idle", "done"}
    /\ Return(c)
    /\ UNCHANGED <<order, refunds, payment>>

-----------------------------------------------------------------------------

Customer(o) == \/ Checkout(o) \/ TakeUnit(o) \/ AbortTake(o) \/ RerunTake(o)
               \/ CheckoutFails(o)
               \/ Decline(o) \/ Authorize(o) \/ Captured(o) \/ Settle(o)

Begin(c) ==
    \/ \E o \in Orders : \/ CaptureRead(c, o) \/ VerifyRead(c, o)
                         \/ VerifyRefused(c, o) \/ FailedRead(c, o)
                         \/ RetryRead(c, o) \/ CancelRead(c, o) \/ AskRead(c, o)
                         \/ \E k \in Progress : StatusRead(c, k, o)
                         \/ \E k \in AllKinds, r \in DOMAIN requests[o] :
                               ReviewRead(c, k, o, r)
    \/ \E s \in slips : NoticeRead(c, s)

Continue(c) ==
    \/ CaptureTx(c) \/ VerifyFetch(c) \/ VerifyTx(c)
    \/ CancelFind(c) \/ CancelCreate(c) \/ AskCheck(c) \/ AskCreate(c)
    \/ LoadOrder(c) \/ (\E amount \in 1..Total : GatewayRefund(c, amount))
    \/ RefundFails(c) \/ NoticeCheck(c) \/ NoticeFind(c)
    \/ SaveRequest(c) \/ Reverse(c) \/ SaveOrder(c) \/ RecordRefund(c)
    \/ Throw(c)

Next == \/ \E o \in Orders : Customer(o)
        \/ \E c \in Calls : Begin(c) \/ Continue(c)

Spec == Init /\ [][Next]_vars

-----------------------------------------------------------------------------
(* Properties that hold.                                                   *)

(* Every variable has its type; stock and refunds stay within bounds.      *)
TypeOK ==
    /\ order \in [Orders -> Document]
    /\ placing \in [Orders -> Placing]
    /\ stock \in 0..Stock
    /\ gate \in [Orders -> {"open", "authorized", "captured"}]
    /\ declined \in [Orders -> BOOLEAN]
    /\ requests \in [Orders -> Seq(Status)]
    /\ slips \subseteq Slip
    /\ ledger \in [Calls -> Nat] /\ joined \in [Calls -> Nat]
    /\ events \in [Orders -> Nat]
    /\ call \in [Calls -> Memory]

(* An order marked with its unit (inventoryDeducted) has taken one, once,  *)
(* whatever captures, retries, late saves and cancellations it meets; but  *)
(* a cash order whose transaction ran twice bears the mark without a unit. *)
StockIsConserved ==
    stock + Cardinality({o \in Orders : order[o].deducted /\ placing[o] # "rerun"})
        = Stock

(* An online order marked paid has its money captured at the gateway, its  *)
(* stock taken and a capture event in the outbox: no save made from an     *)
(* older copy of the order, and no refund of a part, brings "paid" back    *)
(* without them.                                                           *)
PaidIsBacked ==
    \A o \in Orders \ Cod : order[o].pay = "paid" =>
        gate[o] = "captured" /\ order[o].deducted /\ events[o] > 0

(* An order is marked refunded only after the gateway returned its whole   *)
(* price in one refund, in whichever order the cancellation, the operator  *)
(* and the gateway's notice write.                                         *)
RefundedIsReturned ==
    \A o \in Orders : order[o].pay = "refunded" =>
        \E s \in slips : s.order = o /\ s.amount = Total

(* A refund request is approved or refunded only when the gateway made a   *)
(* refund for it.                                                          *)
ApprovedIsReturned ==
    \A o \in Orders : \A r \in DOMAIN requests[o] :
        requests[o][r] \in {"approved", "refunded"} =>
            \E s \in slips : s.order = o /\ s.req = r

(* A refund has one transaction in the finance records, and at most one    *)
(* more for every execution that took up its notice while another one was  *)
(* at it: an execution that comes later finds the first one's.             *)
RefundRecordedOnce == \A c \in Calls : ledger[c] <= 1 + joined[c]

-----------------------------------------------------------------------------
(* A property that does not hold.                                          *)

(* The comment in createOrder: the order is persisted and its inventory    *)
(* deducted in one transaction, "Either both succeed or both rollback".    *)
CashOrderHasItsUnit ==
    \A o \in Cod : placing[o] = "over" => order[o].deducted
=============================================================================
