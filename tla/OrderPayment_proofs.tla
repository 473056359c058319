------------------------- MODULE OrderPayment_proofs -------------------------
(***************************************************************************)
(* Proofs about OrderPayment.                                              *)
(***************************************************************************)
EXTENDS OrderPayment, FiniteSetTheorems, TLAPS

-----------------------------------------------------------------------------
(* The inductive invariant.                                                *)

(* A refund of the gateway for order o and request r.                      *)
Made(o, r) == \E s \in slips : s.order = o /\ s.req = r
Whole(o)   == \E s \in slips : s.order = o /\ s.amount = Total

(* An order that may be marked paid: one whose money comes with its        *)
(* delivery, or was captured.                                              *)
Payable(o) == o \in Cod \/ (gate[o] = "captured" /\ order[o].deducted /\ events[o] > 0)

(* What an execution at work remembers agrees with the database and the    *)
(* gateway as they are now, however old the copy of the order it holds.    *)
Sound(m) ==
    /\ m \in Memory
    /\ m.at \notin {"idle", "done"} =>
        /\ m.order \in Orders
        /\ m.at \in {"refund", "request", "load", "noticeCheck", "noticeFind"}
             => m.req \in DOMAIN requests[m.order]
        /\ m.at \in {"noticeCheck", "noticeFind", "record"} => m.kind = "notice"
        /\ m.kind = "notice" => m.slip \in Calls
        /\ m.at \in {"captureTx", "verifyTx"} => gate[m.order] = "captured"
        /\ m.at \in {"cancelFind", "cancelCreate", "askCheck", "askCreate"}
             => Payable(m.order)
        /\ m.at = "load" => m.kind \in {"approve", "reject", "process"}
        /\ m.kind = "reject" => m.at \in {"load", "request", "save"}
        /\ m.at = "request" /\ m.kind = "reject" => m.will = "rejected"
        /\ m.at = "request" /\ m.kind # "reject"
             => Made(m.order, m.req) /\ (m.amount = Total => Whole(m.order))
        /\ m.at \in {"noticeCheck", "noticeFind"}
             => Made(m.order, m.req) /\ (m.amount = Total => Whole(m.order))
        /\ m.doc.deducted = m.seen.deducted
        /\ m.doc.pay = "paid" => m.seen.pay = "paid" \/ Payable(m.order)
        /\ m.doc.pay = "refunded" => m.seen.pay = "refunded" \/ Whole(m.order)

CallsSound == \A c \in Calls : Sound(call[c])

SharedType ==
    /\ order \in [Orders -> Document]
    /\ placing \in [Orders -> Placing]
    /\ stock \in 0..Stock
    /\ gate \in [Orders -> {"open", "authorized", "captured"}]
    /\ declined \in [Orders -> BOOLEAN]
    /\ requests \in [Orders -> Seq(Status)]
    /\ slips \subseteq Slip
    /\ ledger \in [Calls -> Nat] /\ joined \in [Calls -> Nat]
    /\ events \in [Orders -> Nat]
    /\ DOMAIN call = Calls /\ call = [c \in Calls |-> call[c]]

SlipsNamed == \A s \in slips : s.req \in DOMAIN requests[s.order]

(* Refunds are asked for only when there is something to refund.           *)
RequestsPayable == \A o \in Orders : \A r \in DOMAIN requests[o] : Payable(o)

IInv == /\ SharedType /\ CallsSound /\ SlipsNamed /\ RequestsPayable
        /\ PaidIsBacked /\ RefundedIsReturned /\ ApprovedIsReturned

-----------------------------------------------------------------------------
(* Documents and memories.                                                 *)

LEMMA MergeType ==
    ASSUME NEW n \in Document, NEW s \in Document, NEW d \in Document
    PROVE  /\ Merge(n, s, d) \in Document
           /\ Merge(n, s, d).pay = IF d.pay # s.pay THEN d.pay ELSE n.pay
           /\ Merge(n, s, d).deducted =
                 IF d.deducted # s.deducted THEN d.deducted ELSE n.deducted
           /\ Merge(n, s, d).fulfil = IF d.fulfil # s.fulfil THEN d.fulfil ELSE n.fulfil
  BY DEF Merge, Document

LEMMA IdleType == Idle \in Memory /\ Blank \in Document
  BY PaymentAssumption DEF Idle, Memory, Blank, Document, Stage, Status, AllKinds,
                           Progress

LEMMA AwaitType ==
    ASSUME NEW m \in Memory, NEW stage \in Stage
    PROVE  [m EXCEPT !.at = stage] \in Memory
  BY DEF Memory

LEMMA DoneSound == Sound([Idle EXCEPT !.at = "done"])
<1>1. [Idle EXCEPT !.at = "done"] \in Memory
  BY IdleType, AwaitType DEF Stage
<1> QED  BY <1>1 DEF Sound, Memory

(* What an execution remembers stays sound while the requests, the         *)
(* refunds and the captured payments only grow.                            *)
Grows == /\ \A o \in Orders : DOMAIN requests[o] \subseteq DOMAIN requests'[o]
         /\ slips \subseteq slips'
         /\ \A o \in Orders : gate[o] = "captured" => gate'[o] = "captured"
         /\ \A o \in Orders : Payable(o) => Payable(o)'

LEMMA SoundGrows ==
    ASSUME NEW m, Sound(m), Grows
    PROVE  Sound(m)'
  BY DEF Sound, Grows, Made, Whole, Memory

(* One step of one execution.                                              *)
LEMMA CallsStep ==
    ASSUME SharedType, CallsSound, Grows, NEW c \in Calls, NEW m,
           Sound(m)', Remember(c, m)
    PROVE  CallsSound' /\ (DOMAIN call = Calls /\ call = [d \in Calls |-> call[d]])'
<1>1. ASSUME NEW d \in Calls PROVE Sound(call[d])'
  <2>1. CASE d = c
    BY <2>1 DEF Remember, SharedType
  <2>2. CASE d # c
    <3>1. Sound(call[d])
      BY DEF CallsSound
    <3>2. call'[d] = call[d]
      BY <2>2 DEF Remember, SharedType
    <3> QED  BY <3>1, <3>2, SoundGrows
  <2> QED  BY <2>1, <2>2
<1>2. (DOMAIN call = Calls /\ call = [d \in Calls |-> call[d]])'
  BY DEF Remember, SharedType
<1> QED  BY <1>1, <1>2 DEF CallsSound

(* A step that changes an execution's memory, and who has joined a notice. *)
LEMMA TakeUpStep ==
    ASSUME IInv, NEW c \in Calls, NEW m, Sound(m), Remember(c, m),
           UNCHANGED <<order, refunds, placing, stock, gate, declined, events>>,
           joined' \in [Calls -> Nat]
    PROVE  IInv'
<1>1. Grows
  BY DEF refunds, Grows, Payable
<1>2. Sound(m)'
  BY <1>1, SoundGrows
<1>3. CallsSound' /\ (DOMAIN call = Calls /\ call = [d \in Calls |-> call[d]])'
  BY <1>1, <1>2, CallsStep DEF IInv
<1>4. SharedType'
  BY <1>3 DEF IInv, SharedType, refunds
<1>5. /\ SlipsNamed' /\ RequestsPayable' /\ PaidIsBacked'
      /\ RefundedIsReturned' /\ ApprovedIsReturned'
  BY DEF IInv, SlipsNamed, RequestsPayable, Payable, PaidIsBacked,
         RefundedIsReturned, ApprovedIsReturned, refunds
<1> QED  BY <1>3, <1>4, <1>5 DEF IInv

(* A step that changes an execution's memory and nothing else.             *)
LEMMA ThinkStep ==
    ASSUME IInv, NEW c \in Calls, NEW m, Sound(m), Remember(c, m),
           UNCHANGED <<order, refunds, payment>>
    PROVE  IInv'
<1>1. joined \in [Calls -> Nat]
  BY DEF IInv, SharedType
<1> QED  BY <1>1, TakeUpStep DEF payment

LEMMA ReturnStep ==
    ASSUME IInv, NEW c \in Calls, Return(c), UNCHANGED <<order, refunds, payment>>
    PROVE  IInv'
  BY DoneSound, ThinkStep DEF Return

(* The reads that begin an execution with the order as its copy.           *)
Reads(c, o) ==
    \/ CaptureRead(c, o) \/ VerifyRead(c, o) \/ VerifyRefused(c, o)
    \/ FailedRead(c, o) \/ RetryRead(c, o) \/ CancelRead(c, o) \/ AskRead(c, o)
    \/ \E k \in Progress : StatusRead(c, k, o)

(* What such an execution makes of its copy.                               *)
Revision(o, pay, fulfil, id, refund) ==
    [order[o] EXCEPT !.pay = pay, !.fulfil = fulfil, !.paymentId = id,
                     !.refund = refund]

Revised(o, stage, doc) ==
    /\ doc \in Document
    /\ stage = "captureTx" => gate[o] = "captured"
    /\ stage \in {"cancelFind", "askCheck"} => order[o].pay = "paid"
    /\ doc.deducted = order[o].deducted
    /\ doc.pay = "paid" => order[o].pay = "paid" \/ o \in Cod
    /\ doc.pay = "refunded" => order[o].pay = "refunded"
    /\ doc.fulfil # "absent"

Entered(c, o) ==
    \E k \in AllKinds \ {"notice", "reject"},
       stage \in {"captureTx", "fetch", "save", "cancelFind", "reverse", "askCheck"},
       doc \in Document :
          Enter(c, k, o, stage, doc) /\ Revised(o, stage, doc)

LEMMA Revising ==
    ASSUME NEW o, order[o] \in Document, order[o].fulfil # "absent",
           NEW pay \in {"pending", "paid", "failed", "refunded"},
           NEW fulfil \in {order[o].fulfil} \cup Progress,
           NEW id \in {order[o].paymentId, "declined", "accepted"},
           NEW refund \in {order[o].refund, "requested"},
           NEW stage,
           stage = "captureTx" => gate[o] = "captured",
           stage \in {"cancelFind", "askCheck"} => order[o].pay = "paid",
           pay = "paid" => order[o].pay = "paid" \/ o \in Cod,
           pay = "refunded" => order[o].pay = "refunded"
    PROVE  Revised(o, stage, Revision(o, pay, fulfil, id, refund))
<1> DEFINE d == Revision(o, pay, fulfil, id, refund)
<1>1. fulfil # "absent" /\ fulfil \in {"absent", "pending"} \cup Progress
  BY DEF Document, Progress
<1>2. /\ d \in Document /\ d.deducted = order[o].deducted
      /\ d.pay = pay /\ d.fulfil = fulfil
  BY <1>1 DEF Document, Revision
<1> HIDE DEF d
<1>3. Revised(o, stage, d)
  BY <1>1, <1>2 DEF Revised
<1> QED  BY <1>3 DEF d

LEMMA Entering ==
    ASSUME IInv, NEW c \in Calls, NEW o \in Orders, Reads(c, o)
    PROVE  /\ UNCHANGED <<order, refunds, payment>>
           /\ call[c].at = "idle" /\ order[o].fulfil # "absent"
           /\ Return(c) \/ Entered(c, o)
<1>1. /\ UNCHANGED <<order, refunds, payment>>
      /\ call[c].at = "idle" /\ order[o].fulfil # "absent"
  BY DEF Reads, CaptureRead, VerifyRead, VerifyRefused, FailedRead, RetryRead,
         CancelRead, AskRead, StatusRead, Fresh
<1>2. order[o] \in Document
  BY DEF IInv, SharedType
<1>3. /\ order[o].pay \in {"pending", "paid", "failed", "refunded"}
      /\ order[o] = Revision(o, order[o].pay, order[o].fulfil, order[o].paymentId,
                             order[o].refund)
  BY <1>2 DEF Document, Revision
<1>4. Progress \subseteq AllKinds \ {"notice", "reject"}
  BY DEF Progress, AllKinds
<1>5. ASSUME NEW pay \in {"pending", "paid", "failed", "refunded"},
             NEW fulfil \in {order[o].fulfil} \cup Progress,
             NEW id \in {order[o].paymentId, "declined", "accepted"},
             NEW refund \in {order[o].refund, "requested"},
             NEW k \in AllKinds \ {"notice", "reject"},
             NEW stage \in {"captureTx", "fetch", "save", "cancelFind",
                            "reverse", "askCheck"},
             Enter(c, k, o, stage, Revision(o, pay, fulfil, id, refund)),
             stage = "captureTx" => gate[o] = "captured",
             stage \in {"cancelFind", "askCheck"} => order[o].pay = "paid",
             pay = "paid" => order[o].pay = "paid" \/ o \in Cod,
             pay = "refunded" => order[o].pay = "refunded"
      PROVE  Entered(c, o)
  <2>1. Revised(o, stage, Revision(o, pay, fulfil, id, refund))
    BY <1>1, <1>2, <1>5, Revising
  <2>2. Revision(o, pay, fulfil, id, refund) \in Document
    BY <2>1 DEF Revised
  <2> QED  BY <1>5, <2>1, <2>2 DEF Entered
<1>6. CASE CaptureRead(c, o) /\ ~Return(c)
  <2>1. /\ gate[o] = "captured" /\ order[o].pay # "paid"
        /\ Enter(c, "capture", o, "captureTx", order[o])
    BY <1>6 DEF CaptureRead
  <2>2. "capture" \in AllKinds \ {"notice", "reject"}
    BY DEF AllKinds
  <2> QED  BY <1>1, <1>3, <1>5, <2>1, <2>2
<1>7. CASE VerifyRead(c, o) /\ ~Return(c)
  <2>1. Enter(c, "verify", o, "fetch", order[o])
    BY <1>7 DEF VerifyRead
  <2>2. "verify" \in AllKinds \ {"notice", "reject"}
    BY DEF AllKinds
  <2> QED  BY <1>1, <1>3, <1>5, <2>1, <2>2
<1>8. CASE VerifyRefused(c, o)
  <2>1. PICK id \in {"declined", "accepted"} :
           Enter(c, "verify", o, "save",
                 [order[o] EXCEPT !.pay = "failed", !.paymentId = id])
    BY <1>8 DEF VerifyRefused
  <2>2. [order[o] EXCEPT !.pay = "failed", !.paymentId = id]
          = Revision(o, "failed", order[o].fulfil, id,
                     order[o].refund)
    BY <1>2 DEF Document, Revision
  <2>3. "verify" \in AllKinds \ {"notice", "reject"}
    BY DEF AllKinds
  <2> QED  BY <1>1, <1>5, <2>1, <2>2, <2>3
<1>9. CASE FailedRead(c, o) /\ ~Return(c)
  <2>1. Enter(c, "failed", o, "save",
              [order[o] EXCEPT !.pay = "failed", !.paymentId = "declined"])
    BY <1>9 DEF FailedRead
  <2>2. [order[o] EXCEPT !.pay = "failed", !.paymentId = "declined"]
          = Revision(o, "failed", order[o].fulfil, "declined",
                     order[o].refund)
    BY <1>2 DEF Document, Revision
  <2>3. "failed" \in AllKinds \ {"notice", "reject"}
    BY DEF AllKinds
  <2> QED  BY <1>1, <1>5, <2>1, <2>2, <2>3
<1>10. CASE RetryRead(c, o) /\ ~Return(c)
  <2>1. Enter(c, "retry", o, "save", [order[o] EXCEPT !.pay = "pending"])
    BY <1>10 DEF RetryRead
  <2>2. [order[o] EXCEPT !.pay = "pending"]
          = Revision(o, "pending", order[o].fulfil, order[o].paymentId,
                     order[o].refund)
    BY <1>2 DEF Document, Revision
  <2>3. "retry" \in AllKinds \ {"notice", "reject"}
    BY DEF AllKinds
  <2> QED  BY <1>1, <1>5, <2>1, <2>2, <2>3
<1>11. CASE CancelRead(c, o) /\ ~Return(c)
  <2>1. PICK stage \in {"cancelFind", "reverse"} :
           /\ stage = "cancelFind" => order[o].pay = "paid"
           /\ Enter(c, "cancel", o, stage, [order[o] EXCEPT !.fulfil = "cancelled"])
    BY <1>11 DEF CancelRead
  <2>2. [order[o] EXCEPT !.fulfil = "cancelled"]
          = Revision(o, order[o].pay, "cancelled", order[o].paymentId,
                     order[o].refund)
    BY <1>2 DEF Document, Revision
  <2>3. "cancel" \in AllKinds \ {"notice", "reject"} /\ "cancelled" \in Progress
    BY DEF AllKinds, Progress
  <2> QED  BY <1>1, <1>3, <1>5, <2>1, <2>2, <2>3
<1>12. CASE AskRead(c, o) /\ ~Return(c)
  <2>1. /\ order[o].pay = "paid"
        /\ Enter(c, "ask", o, "askCheck", [order[o] EXCEPT !.refund = "requested"])
    BY <1>12 DEF AskRead
  <2>2. [order[o] EXCEPT !.refund = "requested"]
          = Revision(o, order[o].pay, order[o].fulfil, order[o].paymentId,
                     "requested")
    BY <1>2 DEF Document, Revision
  <2>3. "ask" \in AllKinds \ {"notice", "reject"}
    BY DEF AllKinds
  <2> QED  BY <1>1, <1>3, <1>5, <2>1, <2>2, <2>3
<1>13. ASSUME NEW k \in Progress, StatusRead(c, k, o)
       PROVE  Entered(c, o)
  <2>1. PICK pay \in {"pending", "paid", "failed", "refunded"},
             stage \in {"save", "reverse"} :
           /\ pay = order[o].pay \/ (o \in Cod /\ pay \in {"paid", "pending"})
           /\ Enter(c, k, o, stage, [order[o] EXCEPT !.fulfil = k, !.pay = pay])
    <3>1. PICK pay \in {order[o].pay} \cup
                  {CashPay[j] : j \in {j \in DOMAIN CashPay : j = k /\ o \in Cod}},
               stage \in {"save"} \cup {s \in {"reverse"} : k = "cancelled"} :
             Enter(c, k, o, stage, [order[o] EXCEPT !.fulfil = k, !.pay = pay])
      BY <1>13 DEF StatusRead
    <3>2. pay = order[o].pay \/ (o \in Cod /\ pay \in {"paid", "pending"})
      BY <3>1 DEF CashPay
    <3>3. pay \in {"pending", "paid", "failed", "refunded"}
      BY <1>3, <3>2
    <3> QED  BY <3>1, <3>2, <3>3
  <2>2. [order[o] EXCEPT !.fulfil = k, !.pay = pay]
          = Revision(o, pay, k, order[o].paymentId,
                     order[o].refund)
    BY <1>2 DEF Document, Revision
  <2> QED  BY <1>1, <1>4, <1>5, <2>1, <2>2
<1> QED  BY <1>1, <1>6, <1>7, <1>8, <1>9, <1>10, <1>11, <1>12, <1>13 DEF Reads

LEMMA ReadSteps ==
    ASSUME IInv, NEW c \in Calls, NEW o \in Orders, Reads(c, o)
    PROVE  IInv'
<1>1. UNCHANGED <<order, refunds, payment>> /\ (Return(c) \/ Entered(c, o))
  BY Entering
<1>2. CASE Return(c)
  BY <1>1, <1>2, ReturnStep
<1>3. CASE Entered(c, o)
  <2>1. PICK k \in AllKinds \ {"notice", "reject"},
             stage \in {"captureTx", "fetch", "save", "cancelFind", "reverse",
                        "askCheck"},
             doc \in Document :
           Enter(c, k, o, stage, doc) /\ Revised(o, stage, doc)
    BY <1>3 DEF Entered
  <2>2. order[o] \in Document
    BY DEF IInv, SharedType
  <2> DEFINE m == [Idle EXCEPT !.at = stage, !.kind = k, !.order = o,
                               !.seen = order[o], !.doc = doc]
  <2>3. Remember(c, m)
    BY <2>1 DEF Enter
  <2>4. stage \in Stage
    BY DEF Stage
  <2>5. /\ m \in Memory
        /\ m.at = stage /\ m.kind = k /\ m.order = o
        /\ m.seen = order[o] /\ m.doc = doc
    BY <2>2, <2>4, IdleType DEF Memory
  <2> HIDE DEF m
  <2>6. order[o].pay = "paid" \/ o \in Cod => Payable(o)
    BY DEF IInv, PaidIsBacked, Payable
  <2>7. Sound(m)
    BY <2>1, <2>5, <2>6 DEF Sound, Revised
  <2> QED  BY <1>1, <2>3, <2>7, ThinkStep
<1> QED  BY <1>1, <1>2, <1>3

(* What IInv says of an execution at work.                                 *)
LEMMA CallFacts ==
    ASSUME IInv, NEW c \in Calls
    PROVE  Sound(call[c]) /\ call[c] \in Memory
  BY DEF IInv, CallsSound, Sound

LEMMA VerifyFetchStep ==
    ASSUME IInv, NEW c \in Calls, VerifyFetch(c)
    PROVE  IInv'
<1> DEFINE d == [call[c].doc EXCEPT !.pay = "failed", !.fulfil = "pending",
                                    !.paymentId = "accepted"]
           m == [call[c] EXCEPT !.at = "verifyTx"]
           n == [call[c] EXCEPT !.at = "save", !.doc = d]
<1>1. UNCHANGED <<order, refunds, payment>> /\ call[c].at = "fetch"
  BY DEF VerifyFetch
<1>2. Sound(call[c]) /\ call[c] \in Memory /\ call[c].order \in Orders
  BY <1>1, CallFacts DEF Sound
<1>3. CASE gate[call[c].order] = "captured"
  <2>1. Remember(c, m)
    BY <1>3 DEF VerifyFetch, Await
  <2>2. m \in Memory
    BY <1>2, AwaitType DEF Stage
  <2>3. /\ m.at = "verifyTx" /\ m.order = call[c].order /\ m.kind = call[c].kind
        /\ m.slip = call[c].slip /\ m.doc = call[c].doc /\ m.seen = call[c].seen
    BY <1>2 DEF Memory
  <2> HIDE DEF m
  <2>4. Sound(m)
    BY <1>1, <1>2, <1>3, <2>2, <2>3 DEF Sound
  <2> QED  BY <1>1, <2>1, <2>4, ThinkStep
<1>4. CASE gate[call[c].order] # "captured"
  <2>1. Remember(c, n)
    BY <1>4 DEF VerifyFetch
  <2>2. d \in Document /\ d.pay = "failed" /\ d.deducted = call[c].doc.deducted
    BY <1>2 DEF Memory, Document
  <2> HIDE DEF d
  <2>3. /\ n \in Memory
        /\ n.at = "save" /\ n.order = call[c].order /\ n.kind = call[c].kind
        /\ n.slip = call[c].slip /\ n.doc = d /\ n.seen = call[c].seen
    BY <1>2, <2>2 DEF Memory, Stage
  <2> HIDE DEF n
  <2>4. Sound(n)
    BY <1>1, <1>2, <2>2, <2>3 DEF Sound
  <2> QED  BY <1>1, <2>1, <2>4, ThinkStep
<1> QED  BY <1>3, <1>4

(* The searches for a refund request.                                      *)
LEMMA FindSteps ==
    ASSUME IInv, NEW c \in Calls, CancelFind(c) \/ AskCheck(c) \/ NoticeCheck(c)
    PROVE  IInv'
<1>1. /\ UNCHANGED <<order, refunds, payment>>
      /\ call[c].at \in {"cancelFind", "askCheck", "noticeCheck"}
  BY DEF CancelFind, AskCheck, NoticeCheck
<1>2. Sound(call[c]) /\ call[c] \in Memory /\ call[c].order \in Orders
  BY <1>1, CallFacts DEF Sound
<1>3. CASE Return(c)
  BY <1>1, <1>3, ReturnStep
<1>4. ASSUME NEW stage \in {"cancelCreate", "askCreate", "noticeFind"},
             stage = "noticeFind" => call[c].at = "noticeCheck",
             stage # "noticeFind" => call[c].at \in {"cancelFind", "askCheck"},
             Await(c, stage)
      PROVE  IInv'
  <2> DEFINE m == [call[c] EXCEPT !.at = stage]
  <2>1. Remember(c, m)
    BY <1>4 DEF Await
  <2>2. m \in Memory
    BY <1>2, AwaitType DEF Stage
  <2>3. /\ m.at = stage /\ m.order = call[c].order /\ m.kind = call[c].kind
        /\ m.slip = call[c].slip /\ m.doc = call[c].doc /\ m.seen = call[c].seen
        /\ m.req = call[c].req /\ m.amount = call[c].amount
    BY <1>2 DEF Memory
  <2> HIDE DEF m
  <2>4. Sound(m)
    BY <1>1, <1>2, <1>4, <2>2, <2>3 DEF Sound
  <2> QED  BY <1>1, <2>1, <2>4, ThinkStep
<1>5. ASSUME NEW r \in DOMAIN requests[call[c].order],
             Remember(c, [call[c] EXCEPT !.at = "refund", !.req = r,
                                         !.was = requests[call[c].order][r]])
      PROVE  IInv'
  <2> DEFINE m == [call[c] EXCEPT !.at = "refund", !.req = r,
                                  !.was = requests[call[c].order][r]]
  <2>1. r \in Nat /\ requests[call[c].order][r] \in Status
    BY <1>2 DEF IInv, SharedType
  <2>2. /\ m \in Memory
        /\ m.at = "refund" /\ m.order = call[c].order /\ m.kind = call[c].kind
        /\ m.slip = call[c].slip /\ m.doc = call[c].doc /\ m.seen = call[c].seen
        /\ m.req = r
    BY <1>2, <2>1 DEF Memory, Stage
  <2>3. Remember(c, m)
    BY <1>5
  <2> HIDE DEF m
  <2>4. Sound(m)
    BY <1>1, <1>2, <2>2 DEF Sound
  <2> QED  BY <1>1, <2>3, <2>4, ThinkStep
<1>6. CASE CancelFind(c)
  <2>1. /\ call[c].at = "cancelFind"
        /\ \/ Await(c, "cancelCreate")
           \/ \E r \in DOMAIN requests[call[c].order] :
                 Remember(c, [call[c] EXCEPT !.at = "refund", !.req = r,
                                             !.was = requests[call[c].order][r]])
    BY <1>6 DEF CancelFind
  <2> QED  BY <2>1, <1>4, <1>5
<1>7. CASE AskCheck(c)
  BY <1>3, <1>4, <1>7 DEF AskCheck
<1>8. CASE NoticeCheck(c)
  BY <1>3, <1>4, <1>8 DEF NoticeCheck
<1> QED  BY <1>6, <1>7, <1>8

LEMMA ReviewReadStep ==
    ASSUME IInv, NEW c \in Calls, NEW k \in AllKinds, NEW o \in Orders,
           NEW r \in DOMAIN requests[o], ReviewRead(c, k, o, r)
    PROVE  IInv'
<1> DEFINE m == [Idle EXCEPT !.at = "load", !.kind = k, !.order = o, !.req = r,
                             !.was = requests[o][r]]
<1>1. UNCHANGED <<order, refunds, payment>> /\ k \in {"approve", "reject", "process"}
  BY DEF ReviewRead
<1>2. CASE Return(c)
  BY <1>1, <1>2, ReturnStep
<1>3. CASE ~Return(c)
  <2>1. Remember(c, m)
    BY <1>3 DEF ReviewRead
  <2>2. r \in Nat /\ requests[o][r] \in Status
    BY DEF IInv, SharedType
  <2>3. /\ m \in Memory
        /\ m.at = "load" /\ m.order = o /\ m.kind = k /\ m.req = r
        /\ m.doc = Blank /\ m.seen = Blank
    BY <1>1, <2>2, IdleType DEF Memory, Stage, AllKinds, Idle
  <2>4. Blank.pay = "pending"
    BY DEF Blank
  <2> HIDE DEF m
  <2>5. Sound(m)
    BY <1>1, <2>3, <2>4 DEF Sound
  <2> QED  BY <1>1, <2>1, <2>5, ThinkStep
<1> QED  BY <1>2, <1>3

LEMMA LoadOrderStep ==
    ASSUME IInv, NEW c \in Calls, LoadOrder(c)
    PROVE  IInv'
<1> DEFINE now == order[call[c].order]
           rejected == [now EXCEPT !.refund = "rejected"]
           m == [call[c] EXCEPT !.at = "refund", !.seen = now, !.doc = now]
           n == [call[c] EXCEPT !.at = "request", !.seen = now, !.doc = rejected,
                                !.will = "rejected"]
<1>1. UNCHANGED <<order, refunds, payment>> /\ call[c].at = "load"
  BY DEF LoadOrder
<1>2. Sound(call[c]) /\ call[c] \in Memory /\ call[c].order \in Orders
  BY <1>1, CallFacts DEF Sound
<1>3. now \in Document
  BY <1>2 DEF IInv, SharedType
<1>4. rejected \in Document /\ rejected.pay = now.pay /\ rejected.deducted = now.deducted
  BY <1>3 DEF Document
<1>5. (call[c].kind \in {"approve", "process"} /\ Remember(c, m))
        \/ (call[c].kind \notin {"approve", "process"} /\ Remember(c, n))
  BY DEF LoadOrder
<1> HIDE DEF now, rejected
<1>6. /\ m \in Memory
      /\ m.at = "refund" /\ m.order = call[c].order /\ m.kind = call[c].kind
      /\ m.req = call[c].req /\ m.doc = now /\ m.seen = now /\ m.slip = call[c].slip
  BY <1>2, <1>3 DEF Memory, Stage
<1>7. /\ n \in Memory
      /\ n.at = "request" /\ n.order = call[c].order /\ n.kind = call[c].kind
      /\ n.req = call[c].req /\ n.doc = rejected /\ n.seen = now
      /\ n.will = "rejected"
  BY <1>2, <1>3, <1>4 DEF Memory, Stage, Status
<1> HIDE DEF m, n
<1>8. CASE call[c].kind \in {"approve", "process"} /\ Remember(c, m)
  <2>1. Sound(m)
    BY <1>1, <1>2, <1>3, <1>6, <1>8 DEF Sound
  <2> QED  BY <1>1, <1>8, <2>1, ThinkStep
<1>9. CASE call[c].kind \notin {"approve", "process"} /\ Remember(c, n)
  <2>1. call[c].kind = "reject"
    BY <1>1, <1>2, <1>9 DEF Sound
  <2>2. Sound(n)
    BY <1>1, <1>2, <1>4, <1>7, <2>1 DEF Sound
  <2> QED  BY <1>1, <1>9, <2>2, ThinkStep
<1> QED  BY <1>5, <1>8, <1>9

LEMMA RefundFailsStep ==
    ASSUME IInv, NEW c \in Calls, RefundFails(c)
    PROVE  IInv'
<1> DEFINE d == [call[c].doc EXCEPT !.refund = "requested"]
           m == [call[c] EXCEPT !.at = "reverse", !.doc = d]
<1>1. /\ UNCHANGED <<order, refunds, payment>> /\ call[c].at \in {"refund", "request"}
      /\ call[c].kind = "cancel" /\ Remember(c, m)
  BY DEF RefundFails
<1>2. Sound(call[c]) /\ call[c] \in Memory /\ call[c].order \in Orders
  BY <1>1, CallFacts DEF Sound
<1>3. d \in Document /\ d.pay = call[c].doc.pay /\ d.deducted = call[c].doc.deducted
  BY <1>2 DEF Memory, Document
<1> HIDE DEF d
<1>4. /\ m \in Memory
      /\ m.at = "reverse" /\ m.order = call[c].order /\ m.kind = "cancel"
      /\ m.doc = d /\ m.seen = call[c].seen
  BY <1>1, <1>2, <1>3 DEF Memory, Stage
<1> HIDE DEF m
<1>5. Sound(m)
  BY <1>1, <1>2, <1>3, <1>4 DEF Sound
<1> QED  BY <1>1, <1>5, ThinkStep

LEMMA NoticeReadStep ==
    ASSUME IInv, NEW c \in Calls, NEW s \in slips, NoticeRead(c, s)
    PROVE  IInv'
<1> DEFINE now == order[s.order]
           m == [Idle EXCEPT !.at = "noticeCheck", !.kind = "notice",
                             !.order = s.order, !.seen = now, !.doc = now,
                             !.req = s.req, !.slip = s.id, !.amount = s.amount]
<1>1. UNCHANGED <<order, refunds, placing, stock, gate, declined, events>>
  BY DEF NoticeRead
<1>0. joined' \in [Calls -> Nat]
  <2>1. s.id \in Calls /\ joined \in [Calls -> Nat]
    BY DEF IInv, SharedType, Slip
  <2> QED  BY <2>1 DEF NoticeRead
<1>2. CASE Return(c)
  BY <1>0, <1>1, <1>2, DoneSound, TakeUpStep DEF Return
<1>3. CASE ~Return(c)
  <2>1. Remember(c, m)
    BY <1>3 DEF NoticeRead
  <2>2. /\ s \in Slip /\ s.id \in Calls /\ s.order \in Orders
        /\ s.req \in Nat /\ s.amount \in 0..Total
        /\ s.req \in DOMAIN requests[s.order]
    BY PaymentAssumption DEF IInv, SharedType, SlipsNamed, Slip
  <2>3. now \in Document
    BY <2>2 DEF IInv, SharedType
  <2> HIDE DEF now
  <2>4. /\ m \in Memory
        /\ m.at = "noticeCheck" /\ m.kind = "notice" /\ m.order = s.order
        /\ m.seen = now /\ m.doc = now /\ m.req = s.req /\ m.slip = s.id
        /\ m.amount = s.amount
    BY <2>2, <2>3, IdleType DEF Memory, Stage, AllKinds
  <2> HIDE DEF m
  <2>5. Made(s.order, s.req) /\ (s.amount = Total => Whole(s.order))
    BY DEF Made, Whole
  <2>6. Sound(m)
    BY <2>2, <2>3, <2>4, <2>5 DEF Sound
  <2> QED  BY <1>0, <1>1, <2>1, <2>6, TakeUpStep
<1> QED  BY <1>2, <1>3

LEMMA NoticeFindStep ==
    ASSUME IInv, NEW c \in Calls, NoticeFind(c)
    PROVE  IInv'
<1> DEFINE status == requests[call[c].order][call[c].req]
           will == IF status = "pending" THEN "approved" ELSE status
           m == [call[c] EXCEPT !.at = "request", !.was = status, !.will = will]
<1>1. /\ UNCHANGED <<order, refunds, payment>> /\ call[c].at = "noticeFind"
      /\ Remember(c, m)
  BY DEF NoticeFind
<1>2. Sound(call[c]) /\ call[c] \in Memory /\ call[c].order \in Orders
  BY <1>1, CallFacts DEF Sound
<1>3. call[c].req \in DOMAIN requests[call[c].order] /\ call[c].kind = "notice"
  BY <1>1, <1>2 DEF Sound
<1>4. status \in Status
  BY <1>2, <1>3 DEF IInv, SharedType
<1>5. will \in Status
  BY <1>4 DEF Status
<1> HIDE DEF status, will
<1>6. /\ m \in Memory
      /\ m.at = "request" /\ m.kind = "notice" /\ m.order = call[c].order
      /\ m.seen = call[c].seen /\ m.doc = call[c].doc /\ m.req = call[c].req
      /\ m.slip = call[c].slip /\ m.amount = call[c].amount
  BY <1>2, <1>3, <1>4, <1>5 DEF Memory, Stage
<1> HIDE DEF m
<1>7. Sound(m)
  BY <1>1, <1>2, <1>3, <1>6 DEF Sound
<1> QED  BY <1>1, <1>7, ThinkStep

-----------------------------------------------------------------------------
(* The steps that change what executions share.                            *)

LEMMA CustomerStep ==
    ASSUME IInv, NEW o \in Orders, Customer(o)
    PROVE  IInv'
<1>0. order[o] \in Document
  BY DEF IInv, SharedType
<1>1. /\ UNCHANGED <<requests, slips, ledger, joined, events, call>>
      /\ gate' \in [Orders -> {"open", "authorized", "captured"}]
      /\ declined' \in [Orders -> BOOLEAN]
      /\ \A p \in Orders : gate[p] = "captured" => gate'[p] = "captured"
  BY DEF Customer, Checkout, TakeUnit, AbortTake, RerunTake, CheckoutFails, Decline,
         Authorize, Captured, Settle, gateway, refunds, payment, IInv, SharedType
<1>2. placing' \in [Orders -> Placing]
  <2>1. placing' = placing \/ \E q \in Placing : placing' = [placing EXCEPT ![o] = q]
    BY DEF Customer, Checkout, TakeUnit, AbortTake, RerunTake, CheckoutFails, Decline,
           Authorize, Captured, Settle, payment, Placing
  <2> QED  BY <2>1 DEF IInv, SharedType
<1>3. stock' \in 0..Stock
  <2>1. stock' = stock \/ (stock >= 1 /\ stock' = stock - 1)
    BY DEF Customer, Checkout, TakeUnit, AbortTake, RerunTake, CheckoutFails, Decline,
           Authorize, Captured, Settle, payment
  <2> QED  BY <2>1, PaymentAssumption DEF IInv, SharedType
<1>4. /\ order' \in [Orders -> Document]
      /\ \A p \in Orders : /\ order'[p].pay = order[p].pay
                           /\ order[p].deducted => order'[p].deducted
  <2>1. \/ order' = order
        \/ order' = [order EXCEPT ![o].fulfil = "pending"]
        \/ order' = [order EXCEPT ![o].fulfil = "confirmed"]
        \/ order' = [order EXCEPT ![o].deducted = TRUE]
        \/ order' = [order EXCEPT ![o].escrow = "released"]
    BY DEF Customer, Checkout, TakeUnit, AbortTake, RerunTake, CheckoutFails, Decline,
           Authorize, Captured, Settle
  <2>2. PICK d \in Document :
           /\ d.pay = order[o].pay
           /\ order[o].deducted => d.deducted
           /\ order' = [order EXCEPT ![o] = d]
    <3>1. CASE order' = order
      BY <1>0, <3>1 DEF IInv, SharedType
    <3>2. CASE order' = [order EXCEPT ![o].fulfil = "pending"]
      BY <1>0, <3>2 DEF Document
    <3>3. CASE order' = [order EXCEPT ![o].fulfil = "confirmed"]
      BY <1>0, <3>3 DEF Document, Progress
    <3>4. CASE order' = [order EXCEPT ![o].deducted = TRUE]
      BY <1>0, <3>4 DEF Document
    <3>5. CASE order' = [order EXCEPT ![o].escrow = "released"]
      BY <1>0, <3>5 DEF Document
    <3> QED  BY <2>1, <3>1, <3>2, <3>3, <3>4, <3>5
  <2>3. order' \in [Orders -> Document]
    BY <2>2 DEF IInv, SharedType
  <2>4. ASSUME NEW p \in Orders
        PROVE  order'[p] = IF p = o THEN d ELSE order[p]
    BY <2>2 DEF IInv, SharedType
  <2> QED  BY <2>2, <2>3, <2>4
<1>5. Grows
  BY <1>1, <1>4 DEF Grows, Payable
<1>6. CallsSound'
  <2> SUFFICES ASSUME NEW d \in Calls PROVE Sound(call[d])'
    BY DEF CallsSound
  <2>1. Sound(call[d]) /\ call'[d] = call[d]
    BY <1>1 DEF IInv, CallsSound
  <2> QED  BY <1>5, <2>1, SoundGrows
<1>7. SharedType'
  BY <1>1, <1>2, <1>3, <1>4 DEF IInv, SharedType
<1>8. SlipsNamed' /\ PaidIsBacked' /\ RefundedIsReturned' /\ ApprovedIsReturned'
  BY <1>1, <1>4 DEF IInv, SlipsNamed, PaidIsBacked, RefundedIsReturned,
                    ApprovedIsReturned
<1>9. RequestsPayable'
  BY <1>1, <1>5 DEF IInv, RequestsPayable, Grows
<1> QED  BY <1>6, <1>7, <1>8, <1>9 DEF IInv

LEMMA DoneStep ==
    ASSUME IInv, NEW c \in Calls, Return(c), Grows
    PROVE  CallsSound' /\ (DOMAIN call = Calls /\ call = [d \in Calls |-> call[d]])'
<1>1. PICK m : m = [Idle EXCEPT !.at = "done"]
  OBVIOUS
<1>2. Sound(m)
  BY <1>1, DoneSound
<1>3. Sound(m)'
  BY <1>2, SoundGrows
<1>4. Remember(c, m)
  BY <1>1 DEF Return
<1> QED  BY <1>3, <1>4, CallsStep DEF IInv

LEMMA PayStep ==
    ASSUME IInv, NEW c \in Calls, CaptureTx(c) \/ VerifyTx(c)
    PROVE  IInv'
<1> DEFINE o == call[c].order
<1>1. call[c].at \in {"captureTx", "verifyTx"}
  BY DEF CaptureTx, VerifyTx
<1>2. Sound(call[c]) /\ call[c] \in Memory /\ o \in Orders /\ gate[o] = "captured"
  BY <1>1, CallFacts DEF Sound
<1>3. PICK f \in {"absent", "pending"} \cup Progress : PayOrder(c, f)
  <2>1. order[o] \in Document
    BY <1>2 DEF IInv, SharedType
  <2>2. order[o].fulfil \in {"absent", "pending"} \cup Progress
    BY <2>1 DEF Document
  <2>3. "confirmed" \in Progress
    BY DEF Progress
  <2> QED  BY <2>2, <2>3 DEF CaptureTx, VerifyTx
<1> DEFINE d == [order[o] EXCEPT !.pay = "paid", !.escrow = "held",
                                 !.paymentId = "accepted", !.fulfil = f,
                                 !.deducted = TRUE, !.reversed = FALSE]
<1>4. Return(c) /\ UNCHANGED <<placing, gate, declined, slips, requests, ledger, joined>>
  BY <1>3 DEF PayOrder, gateway
<1>5. Grows
  <2>1. ASSUME NEW p \in Orders
        PROVE  /\ order[p].deducted => order'[p].deducted
               /\ events[p] > 0 => events'[p] > 0
    <3>1. order[p] \in Document /\ order[o] \in Document /\ events[p] \in Nat
      BY <1>2 DEF IInv, SharedType
    <3>2. \/ UNCHANGED <<order, events>>
          \/ order' = [order EXCEPT ![o] = d] /\ events' = [events EXCEPT ![o] = @ + 1]
      BY <1>3 DEF PayOrder, IInv, SharedType
    <3>3. d.deducted
      BY <3>1 DEF Document
    <3> HIDE DEF d
    <3>4. CASE UNCHANGED <<order, events>>
      BY <3>4
    <3>5. CASE order' = [order EXCEPT ![o] = d] /\ events' = [events EXCEPT ![o] = @ + 1]
      <4>1. CASE p = o
        BY <1>2, <3>1, <3>3, <3>5, <4>1 DEF IInv, SharedType
      <4>2. CASE p # o
        BY <1>2, <3>1, <3>5, <4>2 DEF IInv, SharedType
      <4> QED  BY <4>1, <4>2
    <3> QED  BY <3>2, <3>4, <3>5
  <2> QED  BY <1>4, <2>1 DEF Grows, Payable
<1>6. CallsSound' /\ (DOMAIN call = Calls /\ call = [b \in Calls |-> call[b]])'
  BY <1>4, <1>5, DoneStep
<1>7. CASE UNCHANGED <<order, stock, events>>
  BY <1>4, <1>6, <1>7 DEF IInv, SharedType, SlipsNamed, RequestsPayable, Payable,
                          PaidIsBacked, RefundedIsReturned, ApprovedIsReturned
<1>8. CASE ~UNCHANGED <<order, stock, events>>
  <2>1. /\ order' = [order EXCEPT ![o] = d]
        /\ stock' = IF order[o].deducted THEN stock ELSE stock - 1
        /\ events' = [events EXCEPT ![o] = @ + 1]
        /\ order[o].deducted \/ stock >= 1
    BY <1>3, <1>8 DEF PayOrder, IInv, SharedType
  <2>2. d \in Document /\ d.pay = "paid" /\ d.deducted
    <3>1. order[o] \in Document
      BY <1>2 DEF IInv, SharedType
    <3> QED  BY <3>1 DEF Document
  <2> HIDE DEF d
  <2>3. order' \in [Orders -> Document]
    BY <1>2, <2>1, <2>2 DEF IInv, SharedType
  <2>4. stock' \in 0..Stock
    BY <2>1, PaymentAssumption DEF IInv, SharedType
  <2>5. /\ events' \in [Orders -> Nat] /\ events'[o] > 0
        /\ \A p \in Orders : events[p] > 0 => events'[p] > 0
    BY <1>2, <2>1 DEF IInv, SharedType
  <2>6. SharedType'
    BY <1>4, <1>6, <2>3, <2>4, <2>5 DEF IInv, SharedType
  <2>7. SlipsNamed' /\ ApprovedIsReturned'
    BY <1>4 DEF IInv, SlipsNamed, ApprovedIsReturned
  <2>8. PaidIsBacked'
    BY <1>2, <1>4, <2>1, <2>2, <2>5 DEF IInv, PaidIsBacked, SharedType
  <2>9. RefundedIsReturned'
    BY <1>2, <1>4, <2>1, <2>2 DEF IInv, RefundedIsReturned, SharedType
  <2>10. RequestsPayable'
    BY <1>4, <1>5 DEF IInv, RequestsPayable, Grows
  <2> QED  BY <1>6, <2>6, <2>7, <2>8, <2>9, <2>10 DEF IInv
<1> QED  BY <1>7, <1>8

(* A new refund request, pending, is the latest of its order.              *)
LEMMA CreateSteps ==
    ASSUME IInv, NEW c \in Calls, CancelCreate(c) \/ AskCreate(c)
    PROVE  IInv'
<1>0. PICK o : o = call[c].order
  OBVIOUS
<1> DEFINE n == Len(requests[o]) + 1
<1>1. /\ UNCHANGED <<order, placing, stock, gate, declined, slips, ledger, joined, events>>
      /\ call[c].at \in {"cancelCreate", "askCreate"}
      /\ requests' = [requests EXCEPT ![o] = Append(@, "pending")]
  BY <1>0 DEF CancelCreate, AskCreate, payment
<1>2. Sound(call[c]) /\ call[c] \in Memory /\ o \in Orders
  BY <1>0, <1>1, CallFacts DEF Sound
<1>3. requests[o] \in Seq(Status) /\ "pending" \in Status
  BY <1>2 DEF IInv, SharedType, Status
<1>4. /\ requests' \in [Orders -> Seq(Status)]
      /\ \A p \in Orders : DOMAIN requests[p] \subseteq DOMAIN requests'[p]
      /\ n \in Nat /\ n \in DOMAIN requests'[o]
      /\ \A p \in Orders : \A r \in DOMAIN requests'[p] :
            requests'[p][r] # "pending" =>
                r \in DOMAIN requests[p] /\ requests[p][r] = requests'[p][r]
  <2>1. /\ Append(requests[o], "pending") \in Seq(Status)
        /\ Len(Append(requests[o], "pending")) = n
        /\ DOMAIN requests[o] = 1..(n - 1) /\ n \in Nat \ {0}
        /\ DOMAIN Append(requests[o], "pending") = 1..n
        /\ \A r \in 1..(n - 1) : Append(requests[o], "pending")[r] = requests[o][r]
        /\ Append(requests[o], "pending")[n] = "pending"
    BY <1>3
  <2>2. /\ requests'[o] = Append(requests[o], "pending")
        /\ \A p \in Orders \ {o} : requests'[p] = requests[p]
        /\ requests' \in [Orders -> Seq(Status)]
    BY <1>1, <1>2, <2>1 DEF IInv, SharedType
  <2>3. ASSUME NEW p \in Orders, NEW r \in DOMAIN requests'[p],
               requests'[p][r] # "pending"
        PROVE  r \in DOMAIN requests[p] /\ requests[p][r] = requests'[p][r]
    <3>1. CASE p = o
      <4>1. r \in 1..n /\ r # n
        BY <2>1, <2>2, <2>3, <3>1
      <4>2. r \in 1..(n - 1)
        BY <2>1, <4>1
      <4> QED  BY <2>1, <2>2, <2>3, <3>1, <4>2
    <3>2. CASE p # o
      BY <2>2, <2>3, <3>2
    <3> QED  BY <3>1, <3>2
  <2>4. DOMAIN requests[o] \subseteq DOMAIN requests'[o] /\ n \in DOMAIN requests'[o]
    BY <2>1, <2>2
  <2> QED  BY <2>1, <2>2, <2>3, <2>4
<1> HIDE DEF n
<1>5. Grows
  BY <1>1, <1>4 DEF Grows, Payable
<1>6. PICK m : Remember(c, m) /\ Sound(m)'
  <2>1. CASE CancelCreate(c)
    <3>1. PICK m : m = [call[c] EXCEPT !.at = "refund", !.was = "pending", !.req = n]
      OBVIOUS
    <3>2. Remember(c, m)
      BY <1>0, <2>1, <3>1 DEF CancelCreate, n
    <3>3. /\ m \in Memory
          /\ m.at = "refund" /\ m.order = o /\ m.kind = call[c].kind
          /\ m.seen = call[c].seen /\ m.doc = call[c].doc /\ m.req = n
          /\ m.slip = call[c].slip
      BY <1>0, <1>2, <1>3, <1>4, <3>1 DEF Memory, Stage
    <3>4. m.doc.pay = "refunded" => m.seen.pay = "refunded" \/ Whole(o)'
      BY <1>0, <1>1, <1>2, <3>3 DEF Sound, Whole
    <3>5. Sound(m)'
      BY <1>0, <1>1, <1>2, <1>4, <3>3, <3>4 DEF Sound, Whole, Payable
    <3> QED  BY <3>2, <3>5
  <2>2. CASE AskCreate(c)
    <3>1. PICK m : m = [call[c] EXCEPT !.at = "save"]
      OBVIOUS
    <3>2. Remember(c, m)
      BY <2>2, <3>1 DEF AskCreate, Await
    <3>3. /\ m \in Memory
          /\ m.at = "save" /\ m.order = o /\ m.kind = call[c].kind
          /\ m.seen = call[c].seen /\ m.doc = call[c].doc
          /\ m.slip = call[c].slip
      BY <1>0, <1>2, <3>1 DEF Memory, Stage
    <3>4. Sound(m)
      BY <1>0, <1>1, <1>2, <3>3 DEF Sound
    <3> QED  BY <1>5, <3>2, <3>4, SoundGrows
  <2> QED  BY <2>1, <2>2
<1>7. CallsSound' /\ (DOMAIN call = Calls /\ call = [d \in Calls |-> call[d]])'
  BY <1>5, <1>6, CallsStep DEF IInv
<1>8. SharedType'
  BY <1>1, <1>4, <1>7 DEF IInv, SharedType
<1>9. PaidIsBacked' /\ RefundedIsReturned'
  BY <1>1 DEF IInv, PaidIsBacked, RefundedIsReturned
<1>10. SlipsNamed'
  <2>1. \A s \in slips : s.order \in Orders
    BY DEF IInv, SharedType, Slip
  <2> QED  BY <1>1, <1>4, <2>1 DEF IInv, SlipsNamed
<1>11. ApprovedIsReturned'
  BY <1>1, <1>4 DEF IInv, ApprovedIsReturned
<1>12. RequestsPayable'
  <2>1. Payable(o)'
    BY <1>0, <1>1, <1>2 DEF Sound, Payable
  <2>2. \A p \in Orders \ {o} : requests'[p] = requests[p]
    BY <1>1 DEF IInv, SharedType
  <2> QED  BY <1>5, <2>1, <2>2 DEF IInv, RequestsPayable, Grows
<1> QED  BY <1>7, <1>8, <1>9, <1>10, <1>11, <1>12 DEF IInv

LEMMA GatewayRefundStep ==
    ASSUME IInv, NEW c \in Calls, NEW amount \in 1..Total, GatewayRefund(c, amount)
    PROVE  IInv'
<1>0. PICK o, r : o = call[c].order /\ r = call[c].req
  OBVIOUS
<1> DEFINE s == [id |-> c, order |-> o, req |-> r, amount |-> amount]
           will == IF call[c].kind = "process" /\ amount = Total
                   THEN "refunded" ELSE "approved"
<1>1. /\ UNCHANGED <<order, placing, stock, gate, declined, requests, ledger, joined, events>>
      /\ call[c].at = "refund"
      /\ slips' = slips \cup {s}
      /\ Remember(c, [call[c] EXCEPT !.at = "request", !.will = will,
                                     !.amount = amount])
  BY <1>0 DEF GatewayRefund, payment
<1>2. /\ Sound(call[c]) /\ call[c] \in Memory /\ o \in Orders
      /\ r \in DOMAIN requests[o] /\ call[c].kind # "reject"
  BY <1>0, <1>1, CallFacts DEF Sound
<1>3. r \in Nat \ {0}
  BY <1>2 DEF IInv, SharedType
<1>14. will \in Status
  BY DEF Status
<1> HIDE DEF will
<1>4. /\ s \in Slip /\ s.order = o /\ s.req = r /\ s.amount = amount
  BY <1>2, <1>3 DEF Slip
<1> HIDE DEF s
<1>5. Grows
  BY <1>1 DEF Grows, Payable
<1>6. Made(o, r)' /\ (amount = Total => Whole(o)')
  BY <1>1, <1>4 DEF Made, Whole
<1>7. PICK m : m = [call[c] EXCEPT !.at = "request", !.will = will,
                                   !.amount = amount]
  OBVIOUS
<1>8. amount \in 0..Total
  BY PaymentAssumption
<1>9. /\ m \in Memory
      /\ m.at = "request" /\ m.order = o /\ m.kind = call[c].kind
      /\ m.seen = call[c].seen /\ m.doc = call[c].doc /\ m.req = r
      /\ m.slip = call[c].slip /\ m.amount = amount
  BY <1>0, <1>2, <1>7, <1>8, <1>14 DEF Memory, Stage
<1>10. m.doc.pay = "refunded" => m.seen.pay = "refunded" \/ Whole(o)'
  BY <1>0, <1>1, <1>2, <1>9 DEF Sound, Whole
<1>11. /\ m.doc.deducted = m.seen.deducted
       /\ m.doc.pay = "paid" => m.seen.pay = "paid" \/ Payable(o)'
       /\ m.kind = "notice" => m.slip \in Calls
  BY <1>0, <1>1, <1>2, <1>9 DEF Sound, Payable
<1>12. Sound(m)'
  BY <1>1, <1>2, <1>6, <1>9, <1>10, <1>11 DEF Sound
<1>13. CallsSound' /\ (DOMAIN call = Calls /\ call = [d \in Calls |-> call[d]])'
  BY <1>1, <1>5, <1>7, <1>12, CallsStep DEF IInv
<1>17. SharedType'
  BY <1>1, <1>4, <1>13 DEF IInv, SharedType
<1>15. SlipsNamed'
  BY <1>1, <1>2, <1>4 DEF IInv, SlipsNamed
<1>16. PaidIsBacked' /\ RefundedIsReturned' /\ ApprovedIsReturned'
  BY <1>1 DEF IInv, PaidIsBacked, RefundedIsReturned, ApprovedIsReturned
<1>18. RequestsPayable'
  BY <1>1 DEF IInv, RequestsPayable, Payable
<1> QED  BY <1>13, <1>15, <1>16, <1>17, <1>18 DEF IInv

(* The request is saved: approved, only for a refund that was made.        *)
LEMMA SaveRequestStep ==
    ASSUME IInv, NEW c \in Calls, SaveRequest(c)
    PROVE  IInv'
<1>0. PICK b, o, r : b = call[c] /\ o = call[c].order /\ r = call[c].req
  OBVIOUS
<1> DEFINE d == AfterRefund(b.kind, b.doc, b.amount)
           next == IF b.amount = Total /\ b.kind # "process" THEN "reverse" ELSE "save"
<1>1. /\ UNCHANGED <<order, placing, stock, gate, declined, slips, ledger, joined, events>>
      /\ call[c].at = "request"
      /\ \/ requests' = requests
         \/ /\ requests' = [requests EXCEPT ![o] = [@ EXCEPT ![r] = b.will]]
            /\ b.will # b.was
      /\ \/ b.kind = "reject" /\ Remember(c, [b EXCEPT !.at = "save"])
         \/ b.kind # "reject" /\ Remember(c, [b EXCEPT !.at = next, !.doc = d])
  BY <1>0 DEF SaveRequest, Await, payment
<1>2. /\ Sound(b) /\ b \in Memory /\ o \in Orders /\ b.order = o /\ b.req = r
      /\ b.at = "request" /\ r \in DOMAIN requests[o]
      /\ b.kind = "reject" => b.will = "rejected"
      /\ b.kind # "reject" => Made(o, r) /\ (b.amount = Total => Whole(o))
  BY <1>0, <1>1, CallFacts DEF Sound
<1>3. /\ requests' \in [Orders -> Seq(Status)]
      /\ \A p \in Orders : DOMAIN requests'[p] = DOMAIN requests[p]
      /\ \A p \in Orders : \A q \in DOMAIN requests[p] :
            requests'[p][q] \in {"approved", "refunded"} =>
                requests[p][q] = requests'[p][q] \/ (p = o /\ q = r /\ Made(o, r))
  <2>1. CASE requests' = requests
    BY <2>1 DEF IInv, SharedType
  <2>2. CASE requests' = [requests EXCEPT ![o] = [@ EXCEPT ![r] = b.will]]
    <3> DEFINE rs == [requests[o] EXCEPT ![r] = b.will]
    <3>1. requests[o] \in Seq(Status) /\ b.will \in Status
      BY <1>2 DEF IInv, SharedType, Memory
    <3>2. /\ rs \in Seq(Status) /\ DOMAIN rs = DOMAIN requests[o]
          /\ rs[r] = b.will
          /\ \A q \in DOMAIN requests[o] \ {r} : rs[q] = requests[o][q]
      BY <1>2, <3>1
    <3> HIDE DEF rs
    <3>3. requests'[o] = rs /\ \A p \in Orders \ {o} : requests'[p] = requests[p]
      BY <1>2, <2>2 DEF IInv, SharedType, rs
    <3>4. requests' \in [Orders -> Seq(Status)]
      BY <1>2, <2>2, <3>2 DEF IInv, SharedType, rs
    <3>5. b.will \in {"approved", "refunded"} => Made(o, r)
      BY <1>2
    <3> QED  BY <3>2, <3>3, <3>4, <3>5
  <2> QED  BY <1>1, <2>1, <2>2
<1>4. Grows
  BY <1>1, <1>3 DEF Grows, Payable
<1>5. PICK m : Remember(c, m) /\ Sound(m)
  <2>1. CASE b.kind = "reject"
    <3>1. /\ [b EXCEPT !.at = "save"] \in Memory
          /\ Sound([b EXCEPT !.at = "save"])
      BY <1>2, <2>1 DEF Sound, Memory, Stage
    <3> QED  BY <1>1, <2>1, <3>1
  <2>2. CASE b.kind # "reject"
    <3>1. /\ d \in Document /\ d.deducted = b.doc.deducted
          /\ d.pay = IF b.amount = Total THEN "refunded"
                     ELSE IF b.kind = "process" THEN "paid" ELSE b.doc.pay
      <4>1. b.doc \in Document
        BY <1>2 DEF Memory
      <4>2. CASE b.amount # Total
        <5>1. PICK q \in {"pending", "paid", "failed", "refunded"} :
                 /\ d = [b.doc EXCEPT !.refund = "approved", !.pay = q]
                 /\ q = IF b.kind = "process" THEN "paid" ELSE b.doc.pay
          BY <4>1, <4>2 DEF AfterRefund, Document
        <5> HIDE DEF d
        <5> QED  BY <4>1, <4>2, <5>1 DEF Document
      <4>3. CASE b.amount = Total
        <5>1. PICK e \in {"held", "released", "refunded"} :
                 d = [b.doc EXCEPT !.pay = "refunded", !.refund = "refunded",
                                   !.escrow = e]
          <6>1. b.doc.escrow \in {"held", "released", "refunded"}
            BY <4>1 DEF Document
          <6>2. CASE b.kind = "approve"
            BY <4>3, <6>1, <6>2 DEF AfterRefund
          <6>3. CASE b.kind # "approve"
            BY <4>3, <6>3 DEF AfterRefund
          <6> QED  BY <6>2, <6>3
        <5> HIDE DEF d
        <5> QED  BY <4>1, <4>3, <5>1 DEF Document
      <4> QED  BY <4>2, <4>3
    <3>2. next \in {"reverse", "save"}
      OBVIOUS
    <3> HIDE DEF d, next
    <3> DEFINE m == [b EXCEPT !.at = next, !.doc = d]
    <3>3. /\ m \in Memory
          /\ m.at = next /\ m.order = o /\ m.kind = b.kind /\ m.slip = b.slip
          /\ m.seen = b.seen /\ m.doc = d
      BY <1>2, <3>1, <3>2 DEF Memory, Stage
    <3> HIDE DEF m
    <3>5. Payable(o)
      BY <1>2 DEF IInv, RequestsPayable
    <3>4. Sound(m)
      BY <1>2, <2>2, <3>1, <3>2, <3>3, <3>5 DEF Sound
    <3> QED  BY <1>1, <2>2, <3>4 DEF m
  <2> QED  BY <2>1, <2>2
<1>6. CallsSound' /\ (DOMAIN call = Calls /\ call = [e \in Calls |-> call[e]])'
  BY <1>4, <1>5, SoundGrows, CallsStep DEF IInv
<1>7. SharedType'
  BY <1>1, <1>3, <1>6 DEF IInv, SharedType
<1>8. PaidIsBacked' /\ RefundedIsReturned'
  BY <1>1 DEF IInv, PaidIsBacked, RefundedIsReturned
<1>9. SlipsNamed'
  <2>1. \A s \in slips : s.order \in Orders
    BY DEF IInv, SharedType, Slip
  <2> QED  BY <1>1, <1>3, <2>1 DEF IInv, SlipsNamed
<1>10. ApprovedIsReturned'
  BY <1>1, <1>3 DEF IInv, ApprovedIsReturned, Made
<1>11. RequestsPayable'
  BY <1>3, <1>4 DEF IInv, RequestsPayable, Grows
<1> QED  BY <1>6, <1>7, <1>8, <1>9, <1>10, <1>11 DEF IInv

(* The settlement reversal leaves the payment and the stock as they are.   *)
LEMMA ReverseStep ==
    ASSUME IInv, NEW c \in Calls, Reverse(c)
    PROVE  IInv'
<1>0. PICK b, o : b = call[c] /\ o = call[c].order
  OBVIOUS
<1> DEFINE d == [order[o] EXCEPT !.reversed = TRUE, !.escrow = "refunded"]
<1>1. /\ UNCHANGED <<placing, stock, gate, declined, requests, slips, ledger, joined, events>>
      /\ b.at = "reverse" /\ Remember(c, [b EXCEPT !.at = "save"])
  BY <1>0 DEF Reverse, Await, refunds, payment
<1>2. Sound(b) /\ b \in Memory /\ o \in Orders /\ b.order = o
  BY <1>0, <1>1, CallFacts DEF Sound
<1>3. order[o] \in Document
  BY <1>2 DEF IInv, SharedType
<1>4. d \in Document /\ d.pay = order[o].pay /\ d.deducted = order[o].deducted
  BY <1>3 DEF Document
<1>5. order' = order \/ order' = [order EXCEPT ![o] = d]
  BY <1>0, <1>2 DEF Reverse, IInv, SharedType
<1> HIDE DEF d
<1>6. /\ order' \in [Orders -> Document]
      /\ \A p \in Orders : /\ order'[p].pay = order[p].pay
                           /\ order'[p].deducted = order[p].deducted
  BY <1>2, <1>4, <1>5 DEF IInv, SharedType
<1>7. Grows
  BY <1>1, <1>6 DEF Grows, Payable
<1>8. PICK m : m = [b EXCEPT !.at = "save"]
  OBVIOUS
<1>9. m \in Memory /\ Sound(m)
  BY <1>1, <1>2, <1>8 DEF Sound, Memory, Stage
<1>10. CallsSound' /\ (DOMAIN call = Calls /\ call = [e \in Calls |-> call[e]])'
  BY <1>1, <1>7, <1>8, <1>9, SoundGrows, CallsStep DEF IInv
<1>11. SharedType'
  BY <1>1, <1>6, <1>10 DEF IInv, SharedType
<1>12. SlipsNamed' /\ PaidIsBacked' /\ RefundedIsReturned' /\ ApprovedIsReturned'
  BY <1>1, <1>6 DEF IInv, SlipsNamed, PaidIsBacked, RefundedIsReturned,
                    ApprovedIsReturned
<1>13. RequestsPayable'
  BY <1>1, <1>7 DEF IInv, RequestsPayable, Grows
<1> QED  BY <1>10, <1>11, <1>12, <1>13 DEF IInv

(* A save writes "paid" only over "paid" or when the order may be marked   *)
(* so, and "refunded" only after the refund.                               *)
LEMMA SaveOrderStep ==
    ASSUME IInv, NEW c \in Calls, SaveOrder(c)
    PROVE  IInv'
<1>0. PICK b, o : b = call[c] /\ o = call[c].order
  OBVIOUS
<1> DEFINE d == Merge(order[o], b.seen, b.doc)
<1>1. /\ UNCHANGED <<placing, stock, gate, declined, requests, slips, ledger, joined, events>>
      /\ b.at = "save"
      /\ \/ b.kind = "notice" /\ Remember(c, [b EXCEPT !.at = "record"])
         \/ Return(c)
  BY <1>0 DEF SaveOrder, Await, refunds, payment
<1>2. Sound(b) /\ b \in Memory /\ o \in Orders /\ b.order = o
  BY <1>0, <1>1, CallFacts DEF Sound
<1>3. order[o] \in Document /\ b.seen \in Document /\ b.doc \in Document
  BY <1>2 DEF IInv, SharedType, Memory
<1>4. /\ d \in Document
      /\ d.pay = IF b.doc.pay # b.seen.pay THEN b.doc.pay ELSE order[o].pay
      /\ d.deducted = order[o].deducted
  <2>1. b.doc.deducted = b.seen.deducted
    BY <1>1, <1>2 DEF Sound
  <2> QED  BY <1>3, <2>1, MergeType
<1>5. order' = [order EXCEPT ![o] = d]
  BY <1>0 DEF SaveOrder, IInv, SharedType
<1> HIDE DEF d
<1>6. /\ order' \in [Orders -> Document]
      /\ \A p \in Orders : order'[p].deducted = order[p].deducted
      /\ \A p \in Orders : order'[p].pay = "paid" => order[p].pay = "paid" \/ Payable(p)
      /\ \A p \in Orders : order'[p].pay = "refunded" =>
                              order[p].pay = "refunded" \/ Whole(p)
  <2>1. d.pay = "paid" => order[o].pay = "paid" \/ Payable(o)
    BY <1>1, <1>2, <1>4 DEF Sound
  <2>2. d.pay = "refunded" => order[o].pay = "refunded" \/ Whole(o)
    BY <1>1, <1>2, <1>4 DEF Sound
  <2> QED  BY <1>2, <1>4, <1>5, <2>1, <2>2 DEF IInv, SharedType
<1>7. Grows
  BY <1>1, <1>6 DEF Grows, Payable
<1>8. CallsSound' /\ (DOMAIN call = Calls /\ call = [e \in Calls |-> call[e]])'
  <2>1. CASE Return(c)
    BY <1>7, <2>1, DoneStep
  <2>2. CASE b.kind = "notice" /\ Remember(c, [b EXCEPT !.at = "record"])
    <3>1. PICK m : m = [b EXCEPT !.at = "record"]
      OBVIOUS
    <3>2. m \in Memory /\ Sound(m)
      BY <1>1, <1>2, <2>2, <3>1 DEF Sound, Memory, Stage
    <3> QED  BY <1>7, <2>2, <3>1, <3>2, SoundGrows, CallsStep DEF IInv
  <2> QED  BY <1>1, <2>1, <2>2
<1>9. SharedType'
  BY <1>1, <1>6, <1>8 DEF IInv, SharedType
<1>10. SlipsNamed' /\ ApprovedIsReturned'
  BY <1>1 DEF IInv, SlipsNamed, ApprovedIsReturned
<1>11. PaidIsBacked'
  BY <1>1, <1>6 DEF IInv, PaidIsBacked, Payable
<1>12. RefundedIsReturned'
  BY <1>1, <1>6 DEF IInv, RefundedIsReturned, Whole
<1>13. RequestsPayable'
  BY <1>1, <1>7 DEF IInv, RequestsPayable, Grows
<1> QED  BY <1>8, <1>9, <1>10, <1>11, <1>12, <1>13 DEF IInv

LEMMA RecordRefundStep ==
    ASSUME IInv, NEW c \in Calls, RecordRefund(c)
    PROVE  IInv'
<1>1. /\ UNCHANGED <<order, placing, stock, gate, declined, requests, slips, joined, events>>
      /\ call[c].at = "record" /\ Return(c)
      /\ ledger' = [ledger EXCEPT ![call[c].slip] = @ + 1]
  BY DEF RecordRefund, payment
<1>2. call[c].slip \in Calls
  BY <1>1, CallFacts DEF Sound
<1>3. ledger' \in [Calls -> Nat]
  BY <1>1, <1>2 DEF IInv, SharedType
<1>4. Grows
  BY <1>1 DEF Grows, Payable
<1>5. CallsSound' /\ (DOMAIN call = Calls /\ call = [e \in Calls |-> call[e]])'
  BY <1>1, <1>4, DoneStep
<1>6. SharedType'
  BY <1>1, <1>3, <1>5 DEF IInv, SharedType
<1>7. /\ SlipsNamed' /\ RequestsPayable' /\ PaidIsBacked'
      /\ RefundedIsReturned' /\ ApprovedIsReturned'
  BY <1>1 DEF IInv, SlipsNamed, RequestsPayable, Payable, PaidIsBacked,
              RefundedIsReturned, ApprovedIsReturned
<1> QED  BY <1>5, <1>6, <1>7 DEF IInv

-----------------------------------------------------------------------------
(* The invariant and the theorems.                                         *)

LEMMA NextStep == IInv /\ Next => IInv'
<1> SUFFICES ASSUME IInv, Next PROVE IInv'
  OBVIOUS
<1>1. ASSUME NEW o \in Orders, Customer(o) PROVE IInv'
  BY <1>1, CustomerStep
<1>2. ASSUME NEW c \in Calls, Begin(c) PROVE IInv'
  BY <1>2, ReadSteps, ReviewReadStep, NoticeReadStep DEF Begin, Reads
<1>3. ASSUME NEW c \in Calls, Continue(c) PROVE IInv'
  <2>1. CASE Throw(c)
    BY <2>1, ReturnStep DEF Throw
  <2>2. CASE CaptureTx(c) \/ VerifyTx(c)
    BY <2>2, PayStep
  <2>3. CASE VerifyFetch(c)
    BY <2>3, VerifyFetchStep
  <2>4. CASE CancelFind(c) \/ AskCheck(c) \/ NoticeCheck(c)
    BY <2>4, FindSteps
  <2>5. CASE CancelCreate(c) \/ AskCreate(c)
    BY <2>5, CreateSteps
  <2>6. CASE LoadOrder(c)
    BY <2>6, LoadOrderStep
  <2>7. CASE \E amount \in 1..Total : GatewayRefund(c, amount)
    BY <2>7, GatewayRefundStep
  <2>8. CASE RefundFails(c)
    BY <2>8, RefundFailsStep
  <2>9. CASE NoticeFind(c)
    BY <2>9, NoticeFindStep
  <2>10. CASE SaveRequest(c)
    BY <2>10, SaveRequestStep
  <2>11. CASE Reverse(c)
    BY <2>11, ReverseStep
  <2>12. CASE SaveOrder(c)
    BY <2>12, SaveOrderStep
  <2>13. CASE RecordRefund(c)
    BY <2>13, RecordRefundStep
  <2> QED  BY <1>3, <2>1, <2>2, <2>3, <2>4, <2>5, <2>6, <2>7, <2>8, <2>9, <2>10,
              <2>11, <2>12, <2>13 DEF Continue
<1> QED  BY <1>1, <1>2, <1>3 DEF Next

LEMMA InitHolds == Init => IInv
<1> SUFFICES ASSUME Init PROVE IInv
  OBVIOUS
<1>1. SharedType
  BY PaymentAssumption, IdleType DEF Init, SharedType, Placing
<1>2. Sound(Idle)
  BY IdleType DEF Sound, Idle
<1>3. CallsSound
  BY <1>2 DEF Init, CallsSound
<1>4. Blank.pay = "pending"
  BY DEF Blank
<1>5. /\ SlipsNamed /\ RequestsPayable /\ PaidIsBacked
      /\ RefundedIsReturned /\ ApprovedIsReturned
  BY <1>4 DEF Init, SlipsNamed, RequestsPayable, PaidIsBacked, RefundedIsReturned,
              ApprovedIsReturned
<1> QED  BY <1>1, <1>3, <1>5 DEF IInv

LEMMA StutterStep == IInv /\ UNCHANGED vars => IInv'
  BY DEF vars, IInv, SharedType, CallsSound, Sound, Made, Whole, Payable, SlipsNamed,
         RequestsPayable, PaidIsBacked, RefundedIsReturned, ApprovedIsReturned

THEOREM Invariance == Spec => []IInv
<1>1. IInv /\ [Next]_vars => IInv'
  BY NextStep, StutterStep
<1> QED  BY InitHolds, <1>1, PTL DEF Spec

(* Every variable keeps its type: no document leaves the values of its     *)
(* schema, and the stock never goes below zero or above what it was.       *)
THEOREM TypeCorrect == Spec => []TypeOK
<1>1. IInv => TypeOK
  <2> SUFFICES ASSUME IInv PROVE TypeOK
    OBVIOUS
  <2>1. call \in [Calls -> Memory]
    BY DEF IInv, SharedType, CallsSound, Sound
  <2> QED  BY <2>1 DEF IInv, SharedType, TypeOK
<1> QED  BY Invariance, <1>1, PTL

(* An online order marked paid has its money, its stock and its outbox     *)
(* event, for any number of orders and of handlers at work on old copies   *)
(* of them.                                                                *)
THEOREM PaidIsBackedAlways == Spec => []PaidIsBacked
<1>1. IInv => PaidIsBacked
  BY DEF IInv
<1> QED  BY Invariance, <1>1, PTL

(* An order marked refunded had its whole price returned.                  *)
THEOREM RefundedIsReturnedAlways == Spec => []RefundedIsReturned
<1>1. IInv => RefundedIsReturned
  BY DEF IInv
<1> QED  BY Invariance, <1>1, PTL

(* A refund request approved or refunded had a refund made for it.         *)
THEOREM ApprovedIsReturnedAlways == Spec => []ApprovedIsReturned
<1>1. IInv => ApprovedIsReturned
  BY DEF IInv
<1> QED  BY Invariance, <1>1, PTL

-----------------------------------------------------------------------------
(* Conservation of the stock.                                              *)

(* An order that is not placed has no stock, and no execution works on it  *)
(* or unplaces another.                                                    *)
Kept(m) == m.at \notin {"idle", "done"} =>
              /\ order[m.order].fulfil # "absent"
              /\ m.doc.fulfil = "absent" => m.seen.fulfil = "absent"
Present == /\ \A c \in Calls : Kept(call[c])
           /\ \A o \in Orders : order[o].fulfil = "absent" => ~order[o].deducted

(* The order documents after a step in which none is unplaced.             *)
StillPlaced ==
    \A o \in Orders : order'[o].fulfil = "absent" =>
                         order[o].fulfil = "absent" /\ ~order'[o].deducted

LEMMA PresentFrame ==
    ASSUME IInv, Present, StillPlaced, NEW c \in Calls, NEW m, Remember(c, m),
           Kept(m)'
    PROVE  Present'
<1>1. ASSUME NEW d \in Calls PROVE Kept(call[d])'
  <2>1. CASE d = c
    <3>1. call'[d] = m
      BY <2>1 DEF Remember, IInv, SharedType
    <3> QED  BY <3>1 DEF Kept
  <2>2. CASE d # c
    <3>1. call'[d] = call[d] /\ Kept(call[d]) /\ Sound(call[d])
      BY <2>2, CallFacts DEF Remember, IInv, SharedType, Present
    <3> QED  BY <3>1 DEF Kept, Sound, StillPlaced
  <2> QED  BY <2>1, <2>2
<1> QED  BY <1>1 DEF Present, StillPlaced

LEMMA PresentDone ==
    ASSUME IInv, Present, StillPlaced, NEW c \in Calls, Return(c)
    PROVE  Present'
<1>1. PICK m : m = [Idle EXCEPT !.at = "done"]
  OBVIOUS
<1>2. m.at = "done"
  BY <1>1, IdleType DEF Memory
<1> QED  BY <1>1, <1>2, PresentFrame DEF Kept, Return

(* An execution that only thinks keeps the copies it holds, or takes new   *)
(* ones of an order that is placed.                                        *)
LEMMA PresentThink ==
    ASSUME IInv, Present, NEW c \in Calls, NEW m, Remember(c, m),
           UNCHANGED order, order[m.order].fulfil # "absent",
           m.doc.fulfil = "absent" => m.seen.fulfil = "absent"
    PROVE  Present'
<1>1. StillPlaced
  BY DEF Present, StillPlaced
<1> QED  BY <1>1, PresentFrame DEF Kept

LEMMA PresentBegin ==
    ASSUME IInv, Present, NEW c \in Calls, Begin(c)
    PROVE  Present'
<1>1. CASE Return(c) /\ UNCHANGED order
  BY <1>1, PresentDone DEF Present, StillPlaced
<1>3. ASSUME NEW o \in Orders, Reads(c, o)
      PROVE  Present'
  <2>1. /\ UNCHANGED order /\ order[o].fulfil # "absent"
        /\ Return(c) \/ Entered(c, o)
    BY <1>3, Entering
  <2>2. CASE Return(c)
    BY <1>1, <2>1, <2>2
  <2>3. CASE Entered(c, o)
    <3>1. PICK k \in AllKinds,
               stage \in {"captureTx", "fetch", "save", "cancelFind", "reverse",
                          "askCheck"},
               doc \in Document : Enter(c, k, o, stage, doc) /\ doc.fulfil # "absent"
      BY <2>3 DEF Entered, Revised
    <3> DEFINE m == [Idle EXCEPT !.at = stage, !.kind = k, !.order = o,
                                 !.seen = order[o], !.doc = doc]
    <3>2. order[o] \in Document
      BY DEF IInv, SharedType
    <3>3. m.order = o /\ m.doc = doc
      BY <3>2, IdleType DEF Memory
    <3>4. Remember(c, m)
      BY <3>1 DEF Enter
    <3> HIDE DEF m
    <3> QED  BY <2>1, <3>1, <3>3, <3>4, PresentThink
  <2> QED  BY <2>1, <2>2, <2>3
<1>4. ASSUME NEW o \in Orders, NEW k \in AllKinds, NEW r \in DOMAIN requests[o],
             ReviewRead(c, k, o, r)
      PROVE  Present'
  <2> DEFINE m == [Idle EXCEPT !.at = "load", !.kind = k, !.order = o, !.req = r,
                               !.was = requests[o][r]]
  <2>1. /\ UNCHANGED order /\ order[o].fulfil # "absent"
        /\ Return(c) \/ Remember(c, m)
    BY <1>4 DEF ReviewRead, Fresh
  <2>2. r \in Nat /\ requests[o][r] \in Status
    BY DEF IInv, SharedType
  <2>3. /\ m \in Memory /\ m.order = o /\ m.doc = Idle.doc /\ m.seen = Idle.seen
        /\ Idle.doc = Idle.seen
    BY <2>1, <2>2, IdleType DEF Memory, Stage, Idle
  <2> HIDE DEF m
  <2> QED  BY <1>1, <2>1, <2>3, PresentThink
<1>5. ASSUME NEW s \in slips, NoticeRead(c, s)
      PROVE  Present'
  <2> DEFINE m == [Idle EXCEPT !.at = "noticeCheck", !.kind = "notice",
                               !.order = s.order, !.seen = order[s.order],
                               !.doc = order[s.order], !.req = s.req,
                               !.slip = s.id, !.amount = s.amount]
  <2>1. /\ UNCHANGED order /\ order[s.order].fulfil # "absent"
        /\ Return(c) \/ Remember(c, m)
    BY <1>5 DEF NoticeRead, Fresh
  <2>2. /\ s.id \in Calls /\ s.order \in Orders /\ s.req \in Nat
        /\ s.amount \in 0..Total
    BY PaymentAssumption DEF IInv, SharedType, Slip
  <2>3. order[s.order] \in Document
    BY <2>2 DEF IInv, SharedType
  <2>4. m \in Memory /\ m.order = s.order /\ m.doc = m.seen
    BY <2>2, <2>3, IdleType DEF Memory, Stage, AllKinds
  <2> HIDE DEF m
  <2> QED  BY <1>1, <2>1, <2>4, PresentThink
<1> QED  BY <1>3, <1>4, <1>5 DEF Begin, Reads

(* The steps of an execution at work that leave the orders alone.          *)
LEMMA PresentQuiet ==
    ASSUME IInv, Present, NEW c \in Calls,
           \/ VerifyFetch(c) \/ CancelFind(c) \/ CancelCreate(c) \/ AskCheck(c)
           \/ AskCreate(c) \/ LoadOrder(c)
           \/ (\E amount \in 1..Total : GatewayRefund(c, amount))
           \/ RefundFails(c) \/ NoticeCheck(c) \/ NoticeFind(c) \/ SaveRequest(c)
           \/ RecordRefund(c) \/ Throw(c)
    PROVE  Present'
<1> DEFINE b == call[c]
<1>1. UNCHANGED order /\ b.at \notin {"idle", "done"}
  BY DEF VerifyFetch, CancelFind, CancelCreate, AskCheck, AskCreate, LoadOrder,
         GatewayRefund, RefundFails, NoticeCheck, NoticeFind, SaveRequest,
         RecordRefund, Throw
<1>2. /\ Sound(b) /\ b \in Memory /\ b.order \in Orders
      /\ order[b.order].fulfil # "absent"
      /\ b.doc.fulfil = "absent" => b.seen.fulfil = "absent"
  BY <1>1, CallFacts DEF Sound, Present, Kept
<1>3. CASE Return(c)
  BY <1>1, <1>3, PresentDone DEF Present, StillPlaced
<1>5. ASSUME NEW stage \in Stage, Await(c, stage)
      PROVE  Present'
  <2>1. /\ [b EXCEPT !.at = stage] \in Memory
        /\ [b EXCEPT !.at = stage].order = b.order
        /\ [b EXCEPT !.at = stage].doc = b.doc
        /\ [b EXCEPT !.at = stage].seen = b.seen
    BY <1>2 DEF Memory
  <2> QED  BY <1>1, <1>2, <1>5, <2>1, PresentThink DEF Await
<1>6. CASE VerifyFetch(c)
  <2> DEFINE d == [b.doc EXCEPT !.pay = "failed", !.fulfil = "pending",
                                !.paymentId = "accepted"]
             m == [b EXCEPT !.at = "save", !.doc = d]
  <2>1. Await(c, "verifyTx") \/ Remember(c, m)
    BY <1>6 DEF VerifyFetch
  <2>2. b.doc \in Document
    BY <1>2 DEF Memory
  <2>3. d.fulfil = "pending"
    BY <2>2 DEF Document
  <2> HIDE DEF d
  <2>4. m.order = b.order /\ m.doc = d
    BY <1>2 DEF Memory
  <2> HIDE DEF m
  <2> QED  BY <1>1, <1>2, <1>5, <2>1, <2>3, <2>4, PresentThink DEF Stage
<1>7. CASE CancelFind(c)
  <2>1. Await(c, "cancelCreate") \/ \E r \in DOMAIN requests[b.order] :
           Remember(c, [b EXCEPT !.at = "refund", !.req = r,
                                 !.was = requests[b.order][r]])
    BY <1>7 DEF CancelFind
  <2>2. ASSUME NEW r, NEW was,
               Remember(c, [b EXCEPT !.at = "refund", !.req = r, !.was = was])
        PROVE  Present'
    <3> DEFINE m == [b EXCEPT !.at = "refund", !.req = r, !.was = was]
    <3>1. m.order = b.order /\ m.doc = b.doc /\ m.seen = b.seen
      BY <1>2 DEF Memory
    <3>2. Remember(c, m)
      BY <2>2
    <3> HIDE DEF m
    <3> QED  BY <1>1, <1>2, <3>1, <3>2, PresentThink
  <2> QED  BY <1>5, <2>1, <2>2 DEF Stage
<1>8. CASE CancelCreate(c)
  <2> DEFINE m == [b EXCEPT !.at = "refund", !.was = "pending",
                            !.req = Len(requests[b.order]) + 1]
  <2>1. Remember(c, m)
    BY <1>8 DEF CancelCreate
  <2>2. m.order = b.order /\ m.doc = b.doc /\ m.seen = b.seen
    BY <1>2 DEF Memory
  <2> HIDE DEF m
  <2> QED  BY <1>1, <1>2, <2>1, <2>2, PresentThink
<1>9. CASE LoadOrder(c)
  <2> DEFINE now == order[b.order]
             rejected == [now EXCEPT !.refund = "rejected"]
             m == [b EXCEPT !.at = "refund", !.seen = now, !.doc = now]
             n == [b EXCEPT !.at = "request", !.seen = now, !.doc = rejected,
                            !.will = "rejected"]
  <2>1. Remember(c, m) \/ Remember(c, n)
    BY <1>9 DEF LoadOrder
  <2>2. now \in Document
    BY <1>2 DEF IInv, SharedType
  <2>3. rejected.fulfil = now.fulfil
    BY <2>2 DEF Document
  <2> HIDE DEF now, rejected
  <2>4. /\ m.order = b.order /\ m.doc = now /\ m.seen = now
        /\ n.order = b.order /\ n.doc = rejected /\ n.seen = now
    BY <1>2 DEF Memory
  <2> HIDE DEF m, n
  <2> QED  BY <1>1, <1>2, <2>1, <2>3, <2>4, PresentThink
<1>10. CASE \E amount \in 1..Total : GatewayRefund(c, amount)
  <2>1. PICK amount, will : Remember(c, [b EXCEPT !.at = "request", !.amount = amount,
                                                  !.will = will])
    BY <1>10 DEF GatewayRefund
  <2> DEFINE m == [b EXCEPT !.at = "request", !.amount = amount, !.will = will]
  <2>2. m.order = b.order /\ m.doc = b.doc /\ m.seen = b.seen /\ Remember(c, m)
    BY <1>2, <2>1 DEF Memory
  <2> HIDE DEF m
  <2> QED  BY <1>1, <1>2, <2>2, PresentThink
<1>11. CASE RefundFails(c)
  <2> DEFINE d == [b.doc EXCEPT !.refund = "requested"]
             m == [b EXCEPT !.at = "reverse", !.doc = d]
  <2>1. Remember(c, m)
    BY <1>11 DEF RefundFails
  <2>2. b.doc \in Document
    BY <1>2 DEF Memory
  <2>3. d.fulfil = b.doc.fulfil
    BY <2>2 DEF Document
  <2> HIDE DEF d
  <2>4. m.order = b.order /\ m.doc = d /\ m.seen = b.seen
    BY <1>2 DEF Memory
  <2> HIDE DEF m
  <2> QED  BY <1>1, <1>2, <2>1, <2>3, <2>4, PresentThink
<1>12. CASE NoticeFind(c)
  <2>1. PICK was, will : Remember(c, [b EXCEPT !.at = "request", !.was = was,
                                               !.will = will])
    BY <1>12 DEF NoticeFind
  <2> DEFINE m == [b EXCEPT !.at = "request", !.was = was, !.will = will]
  <2>2. m.order = b.order /\ m.doc = b.doc /\ m.seen = b.seen /\ Remember(c, m)
    BY <1>2, <2>1 DEF Memory
  <2> HIDE DEF m
  <2> QED  BY <1>1, <1>2, <2>2, PresentThink
<1>13. CASE SaveRequest(c)
  <2> DEFINE d == AfterRefund(b.kind, b.doc, b.amount)
  <2>1. Await(c, "save") \/ \E stage : Remember(c, [b EXCEPT !.at = stage, !.doc = d])
    BY <1>13 DEF SaveRequest
  <2>2. b.doc \in Document
    BY <1>2 DEF Memory
  <2>3. d.fulfil = b.doc.fulfil
    BY <2>2 DEF AfterRefund, Document
  <2> HIDE DEF d
  <2>4. ASSUME NEW stage, Remember(c, [b EXCEPT !.at = stage, !.doc = d])
        PROVE  Present'
    <3> DEFINE m == [b EXCEPT !.at = stage, !.doc = d]
    <3>1. m.order = b.order /\ m.doc = d /\ m.seen = b.seen /\ Remember(c, m)
      BY <1>2, <2>4 DEF Memory
    <3> HIDE DEF m
    <3> QED  BY <1>1, <1>2, <2>3, <3>1, PresentThink
  <2> QED  BY <1>5, <2>1, <2>4 DEF Stage
<1>14. CASE AskCheck(c) \/ AskCreate(c) \/ NoticeCheck(c) \/ RecordRefund(c) \/ Throw(c)
  BY <1>3, <1>5, <1>14
     DEF AskCheck, AskCreate, NoticeCheck, RecordRefund, Throw, Stage
<1> QED  BY <1>6, <1>7, <1>8, <1>9, <1>10, <1>11, <1>12, <1>13, <1>14

(* How far the checkout of an order has come, and what it has taken: only  *)
(* a cash order has a unit still to take, and only it can bear the mark    *)
(* without one.                                                            *)
Placed ==
    \A o \in Orders :
        /\ gate[o] # "open" => o \notin Cod
        /\ placing[o] \in {"inserted", "unsaved", "saved"}
              => o \in Cod /\ ~order[o].deducted /\ order[o].fulfil # "absent"
        /\ placing[o] = "rerun" => order[o].deducted

Taken == {o \in Orders : order[o].deducted /\ placing[o] # "rerun"}

StockStep == \/ UNCHANGED stock /\ Taken' = Taken
             \/ \E o \in Orders \ Taken :
                   stock' = stock - 1 /\ Taken' = Taken \cup {o}

(* A step that writes one order, and how far its checkout has come.        *)
LEMMA WriteOne ==
    ASSUME IInv, Present, Placed, NEW o \in Orders, NEW d \in Document,
           NEW q \in Placing,
           order' = [order EXCEPT ![o] = d], placing' = [placing EXCEPT ![o] = q],
           UNCHANGED gate,
           d.fulfil = "absent" => order[o].fulfil = "absent" /\ ~d.deducted,
           q \in {"inserted", "unsaved", "saved"}
             => o \in Cod /\ ~d.deducted /\ d.fulfil # "absent",
           q = "rerun" => d.deducted
    PROVE  /\ StillPlaced /\ Placed'
           /\ Taken' = IF d.deducted /\ q # "rerun" THEN Taken \cup {o}
                                                     ELSE Taken \ {o}
<1>1. ASSUME NEW p \in Orders
      PROVE  /\ order'[p] = IF p = o THEN d ELSE order[p]
             /\ placing'[p] = IF p = o THEN q ELSE placing[p]
  BY DEF IInv, SharedType
<1>2. StillPlaced
  BY <1>1 DEF StillPlaced, Present
<1>3. Placed'
  BY <1>1 DEF Placed
<1>4. Taken' = IF d.deducted /\ q # "rerun" THEN Taken \cup {o} ELSE Taken \ {o}
  BY <1>1 DEF Taken
<1> QED  BY <1>2, <1>3, <1>4

(* The steps that write an order: none unplaces it, and only the           *)
(* transaction of a cash order and the capture of an order without stock   *)
(* take a unit.                                                            *)
LEMMA WriteSteps ==
    ASSUME IInv, Present, Placed, NEW c \in Calls,
           CaptureTx(c) \/ VerifyTx(c) \/ Reverse(c) \/ SaveOrder(c)
    PROVE  Present' /\ Placed' /\ StockStep
<1>0. PICK b, o : b = call[c] /\ o = call[c].order
  OBVIOUS
<1>1. b.at \in {"captureTx", "verifyTx", "reverse", "save"}
  BY <1>0 DEF CaptureTx, VerifyTx, Reverse, SaveOrder
<1>2. /\ Sound(b) /\ b \in Memory /\ o \in Orders /\ b.order = o
      /\ order[o] \in Document /\ order[o].fulfil # "absent"
      /\ b.doc.fulfil = "absent" => b.seen.fulfil = "absent"
  BY <1>0, <1>1, CallFacts DEF Sound, Present, Kept, IInv, SharedType
<1>3. UNCHANGED <<placing, gate>>
  BY DEF CaptureTx, VerifyTx, PayOrder, Reverse, SaveOrder, gateway, payment
<1>4. placing[o] \in Placing /\ placing' = [placing EXCEPT ![o] = placing[o]]
  BY <1>2, <1>3 DEF IInv, SharedType
<1>5. ASSUME NEW d \in Document, order' = [order EXCEPT ![o] = d],
             d.fulfil # "absent", d.deducted = order[o].deducted
      PROVE  StillPlaced /\ Placed' /\ Taken' = Taken
  <2>1. /\ placing[o] \in {"inserted", "unsaved", "saved"}
           => o \in Cod /\ ~d.deducted /\ d.fulfil # "absent"
        /\ placing[o] = "rerun" => d.deducted
    BY <1>2, <1>5 DEF Placed
  <2>2. /\ StillPlaced /\ Placed'
        /\ Taken' = IF d.deducted /\ placing[o] # "rerun" THEN Taken \cup {o}
                                                          ELSE Taken \ {o}
    BY <1>2, <1>3, <1>4, <1>5, <2>1, WriteOne
  <2> QED  BY <1>2, <1>5, <2>2 DEF Taken
<1>6. UNCHANGED order => StillPlaced /\ Placed' /\ Taken' = Taken
  BY <1>3 DEF StillPlaced, Placed, Taken, Present
<1>7. CASE CaptureTx(c) \/ VerifyTx(c)
  <2>1. PICK f \in {"pending"} \cup Progress : PayOrder(c, f)
    <3>1. order[o].fulfil \in {"pending"} \cup Progress /\ "confirmed" \in Progress
      BY <1>2 DEF Document, Progress
    <3> QED  BY <1>0, <1>7, <3>1 DEF CaptureTx, VerifyTx
  <2> DEFINE d == [order[o] EXCEPT !.pay = "paid", !.escrow = "held",
                                   !.paymentId = "accepted", !.fulfil = f,
                                   !.deducted = TRUE, !.reversed = FALSE]
  <2>2. Return(c)
    BY <2>1 DEF PayOrder
  <2>3. d \in Document /\ d.deducted /\ d.fulfil # "absent"
    <3>1. f \in {"absent", "pending"} \cup Progress /\ f # "absent"
      BY <2>1 DEF Progress
    <3>2. order[o] \in Document
      BY <1>2
    <3> QED  BY <3>1, <3>2 DEF Document
  <2>4. \/ UNCHANGED <<order, stock>>
        \/ /\ order' = [order EXCEPT ![o] = d]
           /\ stock' = IF order[o].deducted THEN stock ELSE stock - 1
    BY <1>0, <1>2, <2>1 DEF PayOrder, IInv, SharedType
  <2> HIDE DEF d
  <2>5. StillPlaced /\ Placed' /\ StockStep
    <3>1. CASE UNCHANGED <<order, stock>>
      BY <1>6, <3>1 DEF StockStep
    <3>2. CASE order' = [order EXCEPT ![o] = d] /\ order[o].deducted /\ UNCHANGED stock
      <4>1. d.deducted = order[o].deducted
        BY <1>2, <2>3, <3>2 DEF Document
      <4> QED  BY <1>5, <2>3, <3>2, <4>1 DEF StockStep
    <3>3. CASE /\ order' = [order EXCEPT ![o] = d] /\ ~order[o].deducted
               /\ stock' = stock - 1
      <4>1. gate[o] = "captured"
        BY <1>0, <1>1, <1>2, <1>7 DEF Sound, CaptureTx, VerifyTx
      <4>2. placing[o] \notin {"inserted", "unsaved", "saved", "rerun"}
        BY <1>2, <3>3, <4>1 DEF Placed
      <4>3. /\ StillPlaced /\ Placed'
            /\ Taken' = IF d.deducted /\ placing[o] # "rerun" THEN Taken \cup {o}
                                                              ELSE Taken \ {o}
        BY <1>2, <1>3, <1>4, <2>3, <3>3, <4>2, WriteOne
      <4>4. o \in Orders \ Taken /\ Taken' = Taken \cup {o}
        BY <1>2, <2>3, <3>3, <4>2, <4>3 DEF Taken
      <4> QED  BY <3>3, <4>3, <4>4 DEF StockStep
    <3> QED  BY <2>4, <3>1, <3>2, <3>3
  <2> QED  BY <2>2, <2>5, PresentDone
<1>8. CASE Reverse(c)
  <2> DEFINE d == [order[o] EXCEPT !.reversed = TRUE, !.escrow = "refunded"]
  <2>1. /\ UNCHANGED stock /\ Remember(c, [b EXCEPT !.at = "save"])
        /\ order' = order \/ order' = [order EXCEPT ![o] = d]
    BY <1>0, <1>2, <1>8 DEF Reverse, Await, payment, IInv, SharedType
  <2>2. /\ d \in Document /\ d.fulfil = order[o].fulfil
        /\ d.deducted = order[o].deducted
    BY <1>2 DEF Document
  <2> HIDE DEF d
  <2>3. StillPlaced /\ Placed' /\ Taken' = Taken
    BY <1>2, <1>5, <1>6, <2>1, <2>2
  <2>4. order'[o].fulfil # "absent"
    BY <1>2, <2>1, <2>2 DEF IInv, SharedType
  <2>5. PICK m : m = [b EXCEPT !.at = "save"]
    OBVIOUS
  <2>6. m.order = o /\ m.doc = b.doc /\ m.seen = b.seen
    BY <1>2, <2>5 DEF Memory
  <2>7. Kept(m)'
    BY <1>2, <2>4, <2>6 DEF Kept
  <2> QED  BY <2>1, <2>3, <2>5, <2>7, PresentFrame DEF StockStep
<1>9. CASE SaveOrder(c)
  <2> DEFINE d == Merge(order[o], b.seen, b.doc)
  <2>1. /\ UNCHANGED stock /\ order' = [order EXCEPT ![o] = d]
        /\ Return(c) \/ Remember(c, [b EXCEPT !.at = "record"])
    BY <1>0, <1>2, <1>9 DEF SaveOrder, Await, payment, IInv, SharedType
  <2>2. b.doc \in Document /\ b.seen \in Document /\ b.doc.deducted = b.seen.deducted
    BY <1>1, <1>2 DEF Sound, Memory
  <2>3. /\ d \in Document /\ d.deducted = order[o].deducted
        /\ d.fulfil = IF b.doc.fulfil # b.seen.fulfil THEN b.doc.fulfil
                                                      ELSE order[o].fulfil
    BY <1>2, <2>2, MergeType
  <2> HIDE DEF d
  <2>4. d.fulfil # "absent"
    BY <1>2, <2>3
  <2>5. StillPlaced /\ Placed' /\ Taken' = Taken
    BY <1>5, <2>1, <2>3, <2>4
  <2>6. order'[o].fulfil # "absent"
    BY <1>2, <2>1, <2>4 DEF IInv, SharedType
  <2>7. CASE Remember(c, [b EXCEPT !.at = "record"])
    <3>1. PICK m : m = [b EXCEPT !.at = "record"]
      OBVIOUS
    <3>2. m.order = o /\ m.doc = b.doc /\ m.seen = b.seen
      BY <1>2, <3>1 DEF Memory
    <3>3. Kept(m)'
      BY <1>2, <2>6, <3>2 DEF Kept
    <3> QED  BY <2>1, <2>5, <2>7, <3>1, <3>3, PresentFrame DEF StockStep
  <2> QED  BY <2>1, <2>5, <2>7, PresentDone DEF StockStep
<1> QED  BY <1>7, <1>8, <1>9

LEMMA CheckoutStep ==
    ASSUME IInv, Present, Placed, NEW o \in Orders, Customer(o)
    PROVE  Present' /\ Placed' /\ StockStep
<1>1. call' = call
  BY DEF Customer, Checkout, TakeUnit, AbortTake, RerunTake, CheckoutFails, Decline,
         Authorize, Captured, Settle
<1>2. StillPlaced => Present'
  <2> SUFFICES ASSUME StillPlaced PROVE Present'
    OBVIOUS
  <2>1. ASSUME NEW d \in Calls PROVE Kept(call[d])'
    <3>1. Kept(call[d]) /\ Sound(call[d])
      BY CallFacts DEF Present
    <3> QED  BY <1>1, <3>1 DEF Kept, Sound, StillPlaced
  <2> QED  BY <2>1 DEF Present, StillPlaced
<1>3. /\ order[o] \in Document /\ order = [order EXCEPT ![o] = order[o]]
      /\ order[o].fulfil = "absent" => ~order[o].deducted
  BY DEF IInv, SharedType, Present
<1>4. CASE Checkout(o)
  <2>1. PICK f \in {"confirmed", "pending"}, q \in {"inserted", "over"} :
           /\ order' = [order EXCEPT ![o].fulfil = f]
           /\ placing' = [placing EXCEPT ![o] = q]
           /\ q = "inserted" => o \in Cod
    BY <1>4 DEF Checkout
  <2>2. order[o].fulfil = "absent" /\ UNCHANGED <<stock, gate>>
    BY <1>4 DEF Checkout, gateway
  <2> DEFINE d == [order[o] EXCEPT !.fulfil = f]
  <2>3. /\ d \in Document /\ ~d.deducted /\ d.fulfil # "absent"
        /\ order' = [order EXCEPT ![o] = d]
    BY <1>3, <2>1, <2>2 DEF Document, Progress
  <2> HIDE DEF d
  <2>4. q \in Placing
    BY DEF Placing
  <2>5. StillPlaced /\ Placed' /\ Taken' = Taken \ {o}
    BY <2>1, <2>2, <2>3, <2>4, WriteOne
  <2> QED  BY <1>2, <1>3, <2>2, <2>5 DEF StockStep, Taken
<1>5. CASE TakeUnit(o)
  <2>1. ~order[o].deducted
    BY <1>5 DEF TakeUnit, Placed
  <2>2. /\ placing' = [placing EXCEPT ![o] = "over"] /\ UNCHANGED gate
        /\ "over" \in Placing
    BY <1>5 DEF TakeUnit, gateway, Placing
  <2>3. CASE stock >= 1
    <3> DEFINE d == [order[o] EXCEPT !.deducted = TRUE]
    <3>1. order' = [order EXCEPT ![o] = d] /\ stock' = stock - 1
      BY <1>5, <2>3 DEF TakeUnit
    <3>2. d \in Document /\ d.deducted /\ d.fulfil = order[o].fulfil
      BY <1>3 DEF Document
    <3>3. d.fulfil # "absent"
      BY <1>5, <3>2 DEF TakeUnit, Present, Placed
    <3> HIDE DEF d
    <3>4. StillPlaced /\ Placed' /\ Taken' = Taken \cup {o}
      BY <2>2, <3>1, <3>2, <3>3, WriteOne
    <3> QED  BY <1>2, <2>1, <3>1, <3>4 DEF StockStep, Taken
  <2>4. CASE ~(stock >= 1)
    <3>1. UNCHANGED <<order, stock>>
      BY <1>5, <2>4 DEF TakeUnit
    <3>2. StillPlaced /\ Placed' /\ Taken' = Taken \ {o}
      BY <1>3, <2>1, <2>2, <3>1, WriteOne
    <3> QED  BY <1>2, <2>1, <3>1, <3>2 DEF StockStep, Taken
  <2> QED  BY <2>3, <2>4
<1>6. CASE AbortTake(o) \/ CheckoutFails(o) \/ (RerunTake(o) /\ placing[o] = "saved")
  <2>1. PICK q \in {"unsaved", "saved", "over"} :
           placing' = [placing EXCEPT ![o] = q]
    BY <1>6 DEF AbortTake, CheckoutFails, RerunTake
  <2>2. /\ placing[o] \in {"inserted", "unsaved", "saved"}
        /\ UNCHANGED <<order, stock, gate>> /\ q \in Placing
    BY <1>6 DEF AbortTake, CheckoutFails, RerunTake, gateway, Placing
  <2>3. o \in Cod /\ ~order[o].deducted /\ order[o].fulfil # "absent"
    BY <2>2 DEF Placed
  <2>4. StillPlaced /\ Placed' /\ Taken' = Taken \ {o}
    BY <1>3, <2>1, <2>2, <2>3, WriteOne
  <2> QED  BY <1>2, <2>2, <2>3, <2>4 DEF StockStep, Taken
<1>7. CASE RerunTake(o) /\ placing[o] # "saved"
  <2> DEFINE d == [order[o] EXCEPT !.deducted = TRUE]
  <2>1. /\ placing' = [placing EXCEPT ![o] = "rerun"] /\ placing[o] = "unsaved"
        /\ UNCHANGED <<stock, gate>> /\ "rerun" \in Placing
        /\ order' = [order EXCEPT ![o] = d]
    BY <1>7 DEF RerunTake, gateway, Placing
  <2>2. ~order[o].deducted
    BY <2>1 DEF Placed
  <2>3. d \in Document /\ d.deducted /\ d.fulfil = order[o].fulfil
    BY <1>3 DEF Document
  <2> HIDE DEF d
  <2>4. d.fulfil # "absent"
    BY <2>1, <2>3 DEF Present, Placed
  <2>5. StillPlaced /\ Placed' /\ Taken' = Taken \ {o}
    BY <2>1, <2>3, <2>4, WriteOne
  <2> QED  BY <1>2, <2>1, <2>2, <2>5 DEF StockStep, Taken
<1>8. CASE Decline(o) \/ Authorize(o) \/ Captured(o)
  <2>1. UNCHANGED <<order, placing, stock>>
    BY <1>8 DEF Decline, Authorize, Captured
  <2>2. \A p \in Orders : gate'[p] # "open" => p \notin Cod
    BY <1>8 DEF Decline, Authorize, Captured, Placed, IInv, SharedType
  <2> QED  BY <1>2, <2>1, <2>2 DEF StillPlaced, Placed, StockStep, Taken, Present
<1>9. CASE Settle(o)
  <2> DEFINE d == [order[o] EXCEPT !.escrow = "released"]
  <2>1. /\ UNCHANGED <<placing, stock, gate>> /\ order' = [order EXCEPT ![o] = d]
        /\ order[o].fulfil = "delivered"
    BY <1>9 DEF Settle, payment
  <2>2. /\ d \in Document /\ d.fulfil = "delivered"
        /\ d.deducted = order[o].deducted
    BY <1>3, <2>1 DEF Document
  <2> HIDE DEF d
  <2>3. placing[o] \in Placing /\ placing' = [placing EXCEPT ![o] = placing[o]]
    BY <2>1 DEF IInv, SharedType
  <2>4. /\ placing[o] \in {"inserted", "unsaved", "saved"}
           => o \in Cod /\ ~d.deducted /\ d.fulfil # "absent"
        /\ placing[o] = "rerun" => d.deducted
    BY <2>2 DEF Placed
  <2>5. /\ StillPlaced /\ Placed'
        /\ Taken' = IF d.deducted /\ placing[o] # "rerun" THEN Taken \cup {o}
                                                          ELSE Taken \ {o}
    BY <2>1, <2>2, <2>3, <2>4, WriteOne
  <2> QED  BY <1>2, <2>1, <2>2, <2>5 DEF StockStep, Taken
<1> QED  BY <1>4, <1>5, <1>6, <1>7, <1>8, <1>9 DEF Customer

LEMMA PresentStep ==
    IInv /\ Present /\ Placed /\ Next => Present' /\ Placed' /\ StockStep
<1> SUFFICES ASSUME IInv, Present, Placed, Next
             PROVE  Present' /\ Placed' /\ StockStep
  OBVIOUS
<1>1. ASSUME NEW o \in Orders, Customer(o) PROVE Present' /\ Placed' /\ StockStep
  BY <1>1, CheckoutStep
<1>2. UNCHANGED <<order, placing, gate, stock>> => Placed' /\ StockStep
  BY DEF Placed, StockStep, Taken
<1>3. ASSUME NEW c \in Calls, Begin(c) PROVE Present' /\ Placed' /\ StockStep
  <2>1. ASSUME NEW o \in Orders, Reads(c, o) PROVE UNCHANGED <<order, placing, gate, stock>>
    BY <2>1, Entering DEF payment
  <2>2. UNCHANGED <<order, placing, gate, stock>>
    BY <1>3, <2>1 DEF Begin, Reads, ReviewRead, NoticeRead, payment
  <2> QED  BY <1>2, <1>3, <2>2, PresentBegin
<1>4. ASSUME NEW c \in Calls, Continue(c) PROVE Present' /\ Placed' /\ StockStep
  <2>1. CASE CaptureTx(c) \/ VerifyTx(c) \/ Reverse(c) \/ SaveOrder(c)
    BY <2>1, WriteSteps
  <2>2. CASE ~(CaptureTx(c) \/ VerifyTx(c) \/ Reverse(c) \/ SaveOrder(c))
    <3>1. UNCHANGED <<order, placing, gate, stock>>
      BY <1>4, <2>2 DEF Continue, VerifyFetch, CancelFind, CancelCreate, AskCheck,
                AskCreate, LoadOrder, GatewayRefund, RefundFails, NoticeCheck,
                NoticeFind, SaveRequest, RecordRefund, Throw, payment
    <3>2. Present'
      BY <1>4, <2>2, PresentQuiet DEF Continue
    <3> QED  BY <1>2, <3>1, <3>2
  <2> QED  BY <2>1, <2>2
<1> QED  BY <1>1, <1>3, <1>4 DEF Next

(* Stock left and orders that took a unit add up to the initial stock, for *)
(* any number of orders and of concurrent or repeated captures, and        *)
(* wherever the checkout of a cash order breaks off                        *)
(* (orderController.js:1224-1314).                                         *)
THEOREM StockIsConservedAlways == Spec => []StockIsConserved
<1> DEFINE Inv == IInv /\ Present /\ Placed /\ StockIsConserved
<1>1. Init => Inv
  <2> SUFFICES ASSUME Init PROVE Inv
    OBVIOUS
  <2>1. IInv
    BY InitHolds
  <2>2. Present /\ Placed
    BY DEF Init, Present, Placed, Kept, Idle, Blank
  <2>3. Taken = {}
    BY DEF Init, Taken, Blank
  <2>4. StockIsConserved
    <3>1. Cardinality(Taken) = 0
      BY <2>3, FS_EmptySet
    <3>2. stock = Stock /\ Stock \in Nat
      BY PaymentAssumption DEF Init
    <3>3. stock + Cardinality(Taken) = Stock
      BY <3>1, <3>2
    <3> QED  BY <3>3 DEF StockIsConserved, Taken
  <2> QED  BY <2>1, <2>2, <2>4
<1>2. Inv /\ [Next]_vars => Inv'
  <2> SUFFICES ASSUME Inv, [Next]_vars PROVE Inv'
    OBVIOUS
  <2>1. CASE UNCHANGED vars
    <3>1. IInv'
      BY <2>1, StutterStep
    <3>2. Present' /\ Placed' /\ StockIsConserved'
      BY <2>1 DEF vars, Present, Placed, Kept, StockIsConserved
    <3> QED  BY <3>1, <3>2
  <2>2. CASE Next
    <3>1. IInv' /\ Present' /\ Placed' /\ StockStep
      BY <2>2, NextStep, PresentStep
    <3>2. IsFiniteSet(Taken) /\ Cardinality(Taken) \in Nat
      BY PaymentAssumption, FS_Subset, FS_CardinalityType DEF Taken
    <3>3. stock \in Nat /\ stock' \in Nat
      BY <3>1, PaymentAssumption DEF IInv, SharedType
    <3>4. stock' + Cardinality(Taken') = Stock
      <4>1. stock + Cardinality(Taken) = Stock
        BY DEF StockIsConserved, Taken
      <4>2. CASE UNCHANGED stock /\ Taken' = Taken
        BY <4>1, <4>2
      <4>3. ASSUME NEW o \in Orders \ Taken, stock' = stock - 1,
                   Taken' = Taken \cup {o}
            PROVE  stock' + Cardinality(Taken') = Stock
        <5>1. Cardinality(Taken \cup {o}) = Cardinality(Taken) + 1
          BY <3>2, FS_AddElement
        <5> QED  BY <3>2, <3>3, <4>1, <4>3, <5>1
      <4> QED  BY <3>1, <4>2, <4>3 DEF StockStep
    <3>5. StockIsConserved'
      BY <3>4 DEF StockIsConserved, Taken
    <3> QED  BY <3>1, <3>5
  <2> QED  BY <2>1, <2>2
<1> QED  BY <1>1, <1>2, PTL DEF Spec

-----------------------------------------------------------------------------
(* A refund's transaction is written once.                                 *)

(* The executions at a notice that are past the look-up of its transaction. *)
Past(d) == {c \in AtIt(d) : call[c].at # "noticeCheck"}

(* All executions at a notice but the first have joined; once the refund   *)
(* has a transaction, only those past the look-up still count.             *)
Recording ==
    \A d \in Calls :
        /\ ledger[d] = 0 => Cardinality(AtIt(d)) <= 1 + joined[d]
        /\ ledger[d] > 0 => ledger[d] + Cardinality(Past(d)) <= 1 + joined[d]

LEMMA FewAreAtIt ==
    ASSUME NEW d \in Calls
    PROVE  /\ IsFiniteSet(AtIt(d)) /\ Cardinality(AtIt(d)) \in Nat
           /\ IsFiniteSet(Past(d)) /\ Cardinality(Past(d)) \in Nat
<1>1. AtIt(d) \subseteq Calls /\ Past(d) \subseteq Calls
  BY DEF AtIt, Past
<1> QED  BY <1>1, PaymentAssumption, FS_Subset, FS_CardinalityType

(* A step that lets nobody in, and nobody past the look-up who would find  *)
(* a transaction.                                                          *)
LEMMA RecordingStays ==
    ASSUME IInv, Recording, NEW d \in Calls,
           ledger'[d] = ledger[d], joined'[d] = joined[d],
           AtIt(d)' \subseteq AtIt(d),
           ledger[d] > 0 => Past(d)' \subseteq Past(d)
    PROVE  /\ ledger'[d] = 0 => Cardinality(AtIt(d)') <= 1 + joined'[d]
           /\ ledger'[d] > 0 => ledger'[d] + Cardinality(Past(d)') <= 1 + joined'[d]
<1>1. ledger[d] \in Nat /\ joined[d] \in Nat
  BY DEF IInv, SharedType
<1>2. CASE ledger[d] = 0
  <2>1. Cardinality(AtIt(d)') <= Cardinality(AtIt(d)) /\ Cardinality(AtIt(d)') \in Nat
    BY FewAreAtIt, FS_Subset, FS_CardinalityType
  <2> QED  BY <1>1, <1>2, <2>1, FewAreAtIt DEF Recording
<1>3. CASE ledger[d] > 0
  <2>1. Cardinality(Past(d)') <= Cardinality(Past(d)) /\ Cardinality(Past(d)') \in Nat
    BY <1>3, FewAreAtIt, FS_Subset, FS_CardinalityType
  <2> QED  BY <1>1, <1>3, <2>1, FewAreAtIt DEF Recording
<1> QED  BY <1>1, <1>2, <1>3

(* A step of one execution that leaves the ledger alone: it makes no       *)
(* notice of what was none, and passes the look-up only without a          *)
(* transaction.                                                            *)
LEMMA RecordingFrame ==
    ASSUME IInv, Recording, NEW c \in Calls, NEW m, Remember(c, m),
           UNCHANGED <<ledger, joined>>,
           m.kind = "notice" => /\ call[c].kind = "notice"
                                /\ m.slip = call[c].slip
                                /\ \/ m.at = "noticeCheck"
                                   \/ call[c].at # "noticeCheck"
                                   \/ ledger[m.slip] = 0
    PROVE  Recording'
<1>1. call'[c] = m /\ \A d \in Calls : d # c => call'[d] = call[d]
  BY DEF Remember, IInv, SharedType
<1>2. ASSUME NEW d \in Calls
      PROVE  AtIt(d)' \subseteq AtIt(d) /\ (ledger[d] > 0 => Past(d)' \subseteq Past(d))
  BY <1>1, <1>2 DEF AtIt, Past
<1> QED  BY <1>2, RecordingStays DEF Recording

LEMMA RecordingReturn ==
    ASSUME IInv, Recording, NEW c \in Calls, Return(c), UNCHANGED <<ledger, joined>>
    PROVE  Recording'
<1>1. PICK m : m = [Idle EXCEPT !.at = "done"]
  OBVIOUS
<1>2. m.at = "done" /\ m.kind = "none"
  BY <1>1 DEF Idle
<1> QED  BY <1>1, <1>2, RecordingFrame DEF Return

(* An execution at work changes its stage and what it holds of the order   *)
(* and the request.                                                        *)
LEMMA RecordingGoesOn ==
    ASSUME IInv, Recording, NEW c \in Calls, NEW m, Remember(c, m),
           UNCHANGED <<ledger, joined>>,
           m.kind = call[c].kind, m.slip = call[c].slip,
           call[c].at # "noticeCheck"
    PROVE  Recording'
  BY RecordingFrame

LEMMA RecordingBegin ==
    ASSUME IInv, Recording, NEW c \in Calls, Begin(c)
    PROVE  Recording'
<1>0. ASSUME NEW o \in Orders, Reads(c, o)
      PROVE  /\ UNCHANGED <<ledger, joined>> /\ call[c].at = "idle"
             /\ Return(c) \/ Entered(c, o)
  BY <1>0, Entering DEF refunds, payment
<1>1. UNCHANGED ledger /\ call[c].at # "noticeCheck"
  BY <1>0 DEF Begin, Reads, ReviewRead, NoticeRead, Fresh, refunds
<1>2. CASE Return(c) /\ UNCHANGED joined
  BY <1>1, <1>2, RecordingReturn
<1>3. ASSUME NEW k, k # "notice", NEW o, NEW stage, NEW doc, Enter(c, k, o, stage, doc),
             UNCHANGED joined
      PROVE  Recording'
  <2> DEFINE m == [Idle EXCEPT !.at = stage, !.kind = k, !.order = o,
                               !.seen = order[o], !.doc = doc]
  <2>1. m.kind = k /\ Remember(c, m)
    BY <1>3 DEF Enter, Idle
  <2> HIDE DEF m
  <2> QED  BY <1>1, <1>3, <2>1, RecordingFrame
<1>4. ASSUME NEW o \in Orders, Reads(c, o)
      PROVE  Recording'
  BY <1>0, <1>2, <1>3, <1>4 DEF Entered
<1>5. ASSUME NEW o \in Orders, NEW k \in AllKinds, NEW r \in DOMAIN requests[o],
             ReviewRead(c, k, o, r)
      PROVE  Recording'
  <2> DEFINE m == [Idle EXCEPT !.at = "load", !.kind = k, !.order = o, !.req = r,
                               !.was = requests[o][r]]
  <2>1. /\ Remember(c, m) \/ Return(c)
        /\ m.kind = k /\ k # "notice" /\ UNCHANGED joined
    BY <1>5 DEF ReviewRead, Idle, payment
  <2> HIDE DEF m
  <2> QED  BY <1>1, <1>2, <2>1, RecordingFrame
<1>6. ASSUME NEW s \in slips, NoticeRead(c, s), ~Return(c)
      PROVE  Recording'
  <2> DEFINE m == [Idle EXCEPT !.at = "noticeCheck", !.kind = "notice",
                               !.order = s.order, !.seen = order[s.order],
                               !.doc = order[s.order], !.req = s.req,
                               !.slip = s.id, !.amount = s.amount]
  <2>1. /\ Remember(c, m) /\ m.at = "noticeCheck"
        /\ m.kind = "notice" /\ m.slip = s.id
        /\ joined' = IF AtIt(s.id) = {} THEN joined ELSE [joined EXCEPT ![s.id] = @ + 1]
    BY <1>6 DEF NoticeRead, Idle
  <2> HIDE DEF m
  <2>2. call'[c] = m /\ \A d \in Calls : d # c => call'[d] = call[d]
    BY <2>1 DEF Remember, IInv, SharedType
  <2>3. s.id \in Calls /\ ledger[s.id] \in Nat /\ joined[s.id] \in Nat
    BY DEF IInv, SharedType, Slip
  <2>4. ASSUME NEW d \in Calls, d # s.id
        PROVE  /\ ledger'[d] = 0 => Cardinality(AtIt(d)') <= 1 + joined'[d]
               /\ ledger'[d] > 0 => ledger'[d] + Cardinality(Past(d)') <= 1 + joined'[d]
    <3>1. joined'[d] = joined[d] /\ ledger'[d] = ledger[d]
      BY <1>1, <2>1, <2>3, <2>4 DEF IInv, SharedType
    <3>2. AtIt(d)' \subseteq AtIt(d) /\ Past(d)' \subseteq Past(d)
      BY <2>1, <2>2, <2>4 DEF AtIt, Past
    <3> QED  BY <3>1, <3>2, RecordingStays
  <2>5. ledger[s.id] = 0 => Cardinality(AtIt(s.id)') <= 1 + joined'[s.id]
    <3>1. AtIt(s.id)' = AtIt(s.id) \cup {c}
      BY <2>1, <2>2 DEF AtIt
    <3>2. CASE AtIt(s.id) = {}
      <4>1. Cardinality({c}) = 1
        BY FS_Singleton
      <4> QED  BY <2>1, <2>3, <3>1, <3>2, <4>1
    <3>3. CASE AtIt(s.id) # {}
      <4>0. IsFiniteSet(AtIt(s.id)) /\ Cardinality(AtIt(s.id)) \in Nat
        BY FewAreAtIt, <2>3
      <4>1. Cardinality(AtIt(s.id) \cup {c}) <= Cardinality(AtIt(s.id)) + 1
        <5>1. c \in AtIt(s.id) => AtIt(s.id) \cup {c} = AtIt(s.id)
          OBVIOUS
        <5>2. c \notin AtIt(s.id) => Cardinality(AtIt(s.id) \cup {c}) = Cardinality(AtIt(s.id)) + 1
          BY <4>0, FS_AddElement
        <5> QED  BY <4>0, <5>1, <5>2
      <4>2. joined'[s.id] = joined[s.id] + 1
        BY <2>1, <2>3, <3>3 DEF IInv, SharedType
      <4>3. Cardinality(AtIt(s.id) \cup {c}) \in Nat
        BY FewAreAtIt, <2>3, FS_AddElement, FS_CardinalityType
      <4> QED  BY <2>3, <3>1, <4>1, <4>2, <4>3, FewAreAtIt DEF Recording
    <3> QED  BY <3>2, <3>3
  <2>6. ledger[s.id] > 0 => ledger[s.id] + Cardinality(Past(s.id)') <= 1 + joined'[s.id]
    <3>1. Past(s.id)' \subseteq Past(s.id)
      BY <2>1, <2>2 DEF AtIt, Past
    <3>2. Cardinality(Past(s.id)') <= Cardinality(Past(s.id)) /\ Cardinality(Past(s.id)') \in Nat
      BY <2>3, <3>1, FewAreAtIt, FS_Subset, FS_CardinalityType
    <3>3. joined'[s.id] \in Nat /\ joined[s.id] <= joined'[s.id]
      BY <2>1, <2>3 DEF IInv, SharedType
    <3> QED  BY <2>3, <3>2, <3>3, FewAreAtIt DEF Recording
  <2> QED  BY <1>1, <2>4, <2>5, <2>6 DEF Recording
<1>7. ASSUME NEW s \in slips, NoticeRead(c, s), Return(c)
      PROVE  Recording'
  <2> DEFINE m == [Idle EXCEPT !.at = "noticeCheck", !.kind = "notice",
                               !.order = s.order, !.seen = order[s.order],
                               !.doc = order[s.order], !.req = s.req,
                               !.slip = s.id, !.amount = s.amount]
  <2>1. [Idle EXCEPT !.at = "done"].kind = "none" /\ m.kind = "notice"
    BY DEF Idle
  <2>2. ~Remember(c, m)
    <3>1. DOMAIN call = Calls
      BY DEF IInv, SharedType
    <3> HIDE DEF m
    <3> QED  BY <1>7, <2>1, <3>1 DEF Return, Remember
  <2>3. UNCHANGED joined
    BY <1>7, <2>2 DEF NoticeRead
  <2> QED  BY <1>2, <1>7, <2>3
<1> QED  BY <1>4, <1>5, <1>6, <1>7 DEF Begin, Reads

LEMMA RecordingContinue ==
    ASSUME IInv, Recording, NEW c \in Calls, Continue(c)
    PROVE  Recording'
<1> DEFINE b == call[c]
<1>1. b \in Memory /\ Sound(b)
  BY CallFacts
<1>2. ASSUME Return(c), UNCHANGED <<ledger, joined>>
      PROVE  Recording'
  BY <1>2, RecordingReturn
<1>3. ASSUME NEW stage, Await(c, stage), UNCHANGED <<ledger, joined>>,
             b.at # "noticeCheck" \/ ledger[b.slip] = 0
      PROVE  Recording'
  <2> DEFINE m == [b EXCEPT !.at = stage]
  <2>1. m.at = stage /\ m.kind = b.kind /\ m.slip = b.slip
    BY <1>1 DEF Memory
  <2>2. Remember(c, m)
    BY <1>3 DEF Await
  <2> HIDE DEF m
  <2> QED  BY <1>3, <2>1, <2>2, RecordingFrame
<1>4. CASE CaptureTx(c) \/ VerifyTx(c) \/ Throw(c)
  BY <1>2, <1>4 DEF CaptureTx, VerifyTx, Throw, PayOrder, gateway, refunds, payment
<1>5. CASE VerifyFetch(c)
  <2> DEFINE d == [b.doc EXCEPT !.pay = "failed", !.fulfil = "pending",
                                !.paymentId = "accepted"]
             m == [b EXCEPT !.at = "save", !.doc = d]
  <2>1. (Await(c, "verifyTx") \/ Remember(c, m)) /\ b.at = "fetch"
        /\ UNCHANGED <<ledger, joined>>
    BY <1>5 DEF VerifyFetch, refunds, payment
  <2> HIDE DEF d
  <2>2. m.at = "save" /\ m.kind = b.kind /\ m.slip = b.slip
    BY <1>1 DEF Memory
  <2> HIDE DEF m
  <2> QED  BY <1>3, <2>1, <2>2, RecordingGoesOn
<1>6. CASE CancelFind(c)
  <2>1. /\ b.at = "cancelFind" /\ UNCHANGED <<ledger, joined>>
        /\ \/ Await(c, "cancelCreate")
           \/ \E r, was : Remember(c, [b EXCEPT !.at = "refund", !.req = r, !.was = was])
    BY <1>6 DEF CancelFind, refunds, payment
  <2>2. ASSUME NEW r, NEW was,
               Remember(c, [b EXCEPT !.at = "refund", !.req = r, !.was = was])
        PROVE  Recording'
    <3> DEFINE m == [b EXCEPT !.at = "refund", !.req = r, !.was = was]
    <3>1. m.kind = b.kind /\ m.slip = b.slip /\ Remember(c, m)
      BY <1>1, <2>2 DEF Memory
    <3> HIDE DEF m
    <3> QED  BY <2>1, <3>1, RecordingGoesOn
  <2> QED  BY <1>3, <2>1, <2>2
<1>7. CASE CancelCreate(c)
  <2> DEFINE m == [b EXCEPT !.at = "refund", !.was = "pending",
                            !.req = Len(requests[b.order]) + 1]
  <2>1. /\ b.at = "cancelCreate" /\ UNCHANGED <<ledger, joined>> /\ Remember(c, m)
        /\ m.kind = b.kind /\ m.slip = b.slip
    BY <1>1, <1>7 DEF CancelCreate, Memory, payment
  <2> HIDE DEF m
  <2> QED  BY <2>1, RecordingGoesOn
<1>8. CASE LoadOrder(c)
  <2> DEFINE now == order[b.order]
             m == [b EXCEPT !.at = "refund", !.seen = now, !.doc = now]
             n == [b EXCEPT !.at = "request", !.seen = now,
                            !.doc = [now EXCEPT !.refund = "rejected"],
                            !.will = "rejected"]
  <2>1. /\ b.at = "load" /\ UNCHANGED <<ledger, joined>>
        /\ Remember(c, m) \/ Remember(c, n)
        /\ m.kind = b.kind /\ m.slip = b.slip
        /\ n.kind = b.kind /\ n.slip = b.slip
    BY <1>1, <1>8 DEF LoadOrder, refunds, payment, Memory
  <2> HIDE DEF m, n
  <2> QED  BY <2>1, RecordingGoesOn
<1>9. ASSUME NEW amount \in 1..Total, GatewayRefund(c, amount)
      PROVE  Recording'
  <2> DEFINE will == IF b.kind = "process" /\ amount = Total
                     THEN "refunded" ELSE "approved"
             m == [b EXCEPT !.at = "request", !.amount = amount, !.will = will]
  <2>1. /\ b.at = "refund" /\ UNCHANGED <<ledger, joined>> /\ Remember(c, m)
        /\ m.kind = b.kind /\ m.slip = b.slip
    BY <1>1, <1>9 DEF GatewayRefund, Memory, payment
  <2> HIDE DEF m
  <2> QED  BY <2>1, RecordingGoesOn
<1>10. CASE RefundFails(c)
  <2> DEFINE d == [b.doc EXCEPT !.refund = "requested"]
             m == [b EXCEPT !.at = "reverse", !.doc = d]
  <2>1. /\ b.at \in {"refund", "request"} /\ UNCHANGED <<ledger, joined>> /\ Remember(c, m)
    BY <1>10 DEF RefundFails, refunds, payment
  <2> HIDE DEF d
  <2>2. m.at = "reverse" /\ m.kind = b.kind /\ m.slip = b.slip
    BY <1>1 DEF Memory
  <2> HIDE DEF m
  <2> QED  BY <2>1, <2>2, RecordingGoesOn
<1>11. CASE NoticeFind(c)
  <2>1. PICK was, will : Remember(c, [b EXCEPT !.at = "request", !.was = was,
                                               !.will = will])
    BY <1>11 DEF NoticeFind
  <2> DEFINE m == [b EXCEPT !.at = "request", !.was = was, !.will = will]
  <2>2. /\ b.at = "noticeFind" /\ UNCHANGED <<ledger, joined>> /\ Remember(c, m)
        /\ m.kind = b.kind /\ m.slip = b.slip
    BY <1>1, <1>11, <2>1 DEF NoticeFind, refunds, payment, Memory
  <2> HIDE DEF m
  <2> QED  BY <2>2, RecordingGoesOn
<1>12. CASE SaveRequest(c)
  <2> DEFINE d == AfterRefund(b.kind, b.doc, b.amount)
  <2>1. /\ b.at = "request" /\ UNCHANGED <<ledger, joined>>
        /\ \/ Await(c, "save")
           \/ \E stage \in {"reverse", "save"} :
                 Remember(c, [b EXCEPT !.at = stage, !.doc = d])
    BY <1>12 DEF SaveRequest, payment
  <2> HIDE DEF d
  <2>2. ASSUME NEW stage \in {"reverse", "save"},
               Remember(c, [b EXCEPT !.at = stage, !.doc = d])
        PROVE  Recording'
    <3> DEFINE m == [b EXCEPT !.at = stage, !.doc = d]
    <3>1. /\ m.at = stage /\ m.kind = b.kind /\ m.slip = b.slip
          /\ Remember(c, m)
      BY <1>1, <2>2 DEF Memory
    <3> HIDE DEF m
    <3> QED  BY <2>1, <3>1, RecordingGoesOn
  <2> QED  BY <1>3, <2>1, <2>2
<1>13. CASE AskCheck(c) \/ AskCreate(c) \/ NoticeCheck(c) \/ Reverse(c) \/ SaveOrder(c)
  <2>1. ledger \in [Calls -> Nat] /\ (b.at = "noticeCheck" => b.slip \in Calls)
    BY <1>1 DEF IInv, SharedType, Sound
  <2>2. UNCHANGED <<ledger, joined>>
    BY <1>13 DEF AskCheck, AskCreate, NoticeCheck, Reverse, SaveOrder, refunds, payment
  <2> QED  BY <1>2, <1>3, <1>13, <2>1, <2>2
           DEF AskCheck, AskCreate, NoticeCheck, Reverse, SaveOrder
<1>14. CASE RecordRefund(c)
  <2>0. PICK d : d = b.slip
    OBVIOUS
  <2>1. /\ b.at = "record" /\ Return(c) /\ UNCHANGED joined
        /\ ledger' = [ledger EXCEPT ![d] = @ + 1]
    BY <1>14, <2>0 DEF RecordRefund, payment
  <2>2. /\ b.kind = "notice" /\ d \in Calls
        /\ ledger[d] \in Nat /\ joined[d] \in Nat
    BY <1>1, <2>0, <2>1 DEF Sound, IInv, SharedType
  <2>3. PICK m : m = [Idle EXCEPT !.at = "done"]
    OBVIOUS
  <2>4. m.kind = "none" /\ Remember(c, m)
    BY <2>1, <2>3 DEF Idle, Return
  <2>5. call'[c] = m /\ \A k \in Calls : k # c => call'[k] = call[k]
    BY <2>4 DEF Remember, IInv, SharedType
  <2>6. ASSUME NEW k \in Calls, k # d
        PROVE  /\ ledger'[k] = 0 => Cardinality(AtIt(k)') <= 1 + joined'[k]
               /\ ledger'[k] > 0 => ledger'[k] + Cardinality(Past(k)') <= 1 + joined'[k]
    <3>1. AtIt(k)' \subseteq AtIt(k) /\ Past(k)' \subseteq Past(k)
      BY <2>4, <2>5 DEF AtIt, Past
    <3>2. ledger'[k] = ledger[k] /\ joined'[k] = joined[k]
      BY <2>1, <2>2, <2>6 DEF IInv, SharedType
    <3> QED  BY <3>1, <3>2, RecordingStays
  <2>7. ledger'[d] = ledger[d] + 1 /\ joined'[d] = joined[d]
    BY <2>1, <2>2 DEF IInv, SharedType
  <2>8. c \in Past(d) /\ Past(d)' = Past(d) \ {c}
    <3>1. c \in Past(d)
      BY <2>0, <2>1, <2>2 DEF AtIt, Past
    <3>2. Past(d)' = Past(d) \ {c}
      BY <2>4, <2>5 DEF AtIt, Past
    <3> QED  BY <3>1, <3>2
  <2>9. Past(d) \subseteq AtIt(d)
    BY DEF Past
  <2>10. /\ Cardinality(Past(d)') = Cardinality(Past(d)) - 1
         /\ Cardinality(Past(d)) <= Cardinality(AtIt(d))
    <3>1. /\ IsFiniteSet(Past(d)) /\ IsFiniteSet(AtIt(d))
          /\ Cardinality(Past(d)) \in Nat /\ Cardinality(AtIt(d)) \in Nat
      BY <2>2, FewAreAtIt
    <3>2. Cardinality(Past(d) \ {c}) = Cardinality(Past(d)) - 1
      BY <2>8, <3>1, FS_RemoveElement
    <3>3. Cardinality(Past(d)) <= Cardinality(AtIt(d))
      BY <2>9, <3>1, FS_Subset
    <3> QED  BY <2>8, <3>2, <3>3
  <2>11. ledger'[d] > 0 /\ ledger'[d] + Cardinality(Past(d)') <= 1 + joined'[d]
    BY <2>2, <2>7, <2>10, FewAreAtIt DEF Recording
  <2> QED  BY <2>2, <2>6, <2>7, <2>11 DEF Recording
<1> QED  BY <1>4, <1>5, <1>6, <1>7, <1>8, <1>9, <1>10, <1>11, <1>12, <1>13, <1>14
         DEF Continue

LEMMA RecordingStep == IInv /\ Recording /\ [Next]_vars => Recording'
<1> SUFFICES ASSUME IInv, Recording, [Next]_vars PROVE Recording'
  OBVIOUS
<1>1. ASSUME UNCHANGED <<ledger, joined, call>> PROVE Recording'
  <2>1. ASSUME NEW d \in Calls PROVE AtIt(d)' = AtIt(d) /\ Past(d)' = Past(d)
    BY <1>1 DEF AtIt, Past
  <2> QED  BY <1>1, <2>1, RecordingStays DEF Recording
<1>2. CASE UNCHANGED vars
  BY <1>1, <1>2 DEF vars
<1>3. ASSUME NEW o \in Orders, Customer(o) PROVE Recording'
  BY <1>1, <1>3 DEF Customer, Checkout, TakeUnit, AbortTake, RerunTake, CheckoutFails,
                    Decline, Authorize, Captured, Settle, refunds, payment
<1> QED  BY <1>2, <1>3, RecordingBegin, RecordingContinue DEF Next

(* A refund has one transaction, and at most one more for every execution  *)
(* that took up its notice while another was at it, however many notices   *)
(* are delivered and however their executions interleave or die            *)
(* (paymentController.js:469-511).                                         *)
THEOREM RefundRecordedOnceAlways == Spec => []RefundRecordedOnce
<1>1. Init => Recording
  <2> SUFFICES ASSUME Init, NEW d \in Calls
               PROVE  Cardinality(AtIt(d)) <= 1 + joined[d] /\ ledger[d] = 0
    BY DEF Recording
  <2>1. AtIt(d) = {}
    BY DEF Init, AtIt, Idle
  <2> QED  BY <2>1, FS_EmptySet DEF Init
<1>2. IInv /\ Recording => RefundRecordedOnce
  <2> SUFFICES ASSUME IInv, Recording, NEW d \in Calls PROVE ledger[d] <= 1 + joined[d]
    BY DEF RefundRecordedOnce
  <2>1. ledger[d] \in Nat /\ joined[d] \in Nat
    BY DEF IInv, SharedType
  <2> QED  BY <2>1, FewAreAtIt DEF Recording
<1> QED  BY Invariance, RecordingStep, <1>1, <1>2, PTL DEF Spec

=============================================================================
