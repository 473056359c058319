------------------------- MODULE Fulfilment_proofs -------------------------
(***************************************************************************)
(* An order on its way: its invoice, its trial at home and its delivery    *)
(* tasks.  For any orders and executions, what an order shows of its       *)
(* invoice is the invoice's; for any completions sent at once, a start of  *)
(* a trial earns at most once; and for any assignments, status updates and *)
(* reconciliations, the order has one active task besides those accounted  *)
(* for.                                                                    *)
(***************************************************************************)
EXTENDS Invoices, Trials, Deliveries, FiniteSetTheorems, WellFoundedInduction, TLAPS

(* What an execution holds is true of the order it is about: a number      *)
(* about to be saved over an invoice, or to be shown, is that invoice's,   *)
(* and one about to be given to a new invoice is a number.                 *)
Numbered(g) == invoice[target[g]] # NoInvoice /\ number[g] = invoice[target[g]].number

HoldsItsNumber ==
  \A g \in Generators :
    /\ at[g] \in {"idle", "read", "number"} => copy[g] = NoInvoice
    /\ at[g] = "save" /\ copy[g] = NoInvoice => number[g] # 0
    /\ at[g] = "save" /\ copy[g] # NoInvoice => Numbered(g)
    /\ at[g] = "link" => Numbered(g)
    /\ at[g] = "succeeds" => invoice[target[g]] # NoInvoice

(* A row that waits has attempts left.                                     *)
AttemptsAreLeft ==
  \A o \in InvoicedOrders :
    /\ row[o] = "none" => attempts[o] = 0
    /\ row[o] = "queued" => attempts[o] < MaxAttempts

InvoicesInv == InvoicesTypeOK /\ HoldsItsNumber /\ AttemptsAreLeft /\ ShowsItsInvoice

\* At the start there are no invoices.
LEMMA InvoicesStart == InvoicesInit => InvoicesInv
BY InvoiceConstants DEF InvoicesInit, InvoicesInv, InvoicesTypeOK, HoldsItsNumber,
   AttemptsAreLeft, ShowsItsInvoice, Numbered

(* No step takes an invoice away or changes its number.                    *)
NumbersStay ==
  \A o \in InvoicedOrders :
    invoice[o] # NoInvoice => invoice'[o] # NoInvoice /\ invoice'[o].number = invoice[o].number

\* Steps that change no invoice, number or copy leave what executions hold
\* true, when they change at most the position of one of them.
LEMMA HoldingStays ==
  ASSUME InvoicesTypeOK, InvoicesTypeOK', HoldsItsNumber, NumbersStay,
         UNCHANGED <<target, copy, number>>,
         NEW g \in Generators, NEW s,
         s \in {"read", "number", "save", "link", "succeeds", "fails"},
         at' = [at EXCEPT ![g] = s],
         at[g] # "idle",
         s \in {"read", "number"} => copy[g] = NoInvoice,
         s = "save" /\ copy[g] = NoInvoice => number[g] # 0,
         s = "save" /\ copy[g] # NoInvoice => Numbered(g)',
         s = "link" => Numbered(g)',
         s = "succeeds" => invoice'[target[g]] # NoInvoice
  PROVE HoldsItsNumber'
BY DEF HoldsItsNumber, Numbered, NumbersStay, InvoicesTypeOK

\* So does a step that changes nothing of the executions.
LEMMA HoldingIdles ==
  ASSUME InvoicesTypeOK, HoldsItsNumber, NumbersStay,
         UNCHANGED <<at, target, copy, number>>
  PROVE HoldsItsNumber'
BY DEF HoldsItsNumber, Numbered, NumbersStay, InvoicesTypeOK

\* An execution that starts or ends holds nothing, the others what they held.
LEMMA HoldingRestarts ==
  ASSUME InvoicesTypeOK, HoldsItsNumber, NEW g \in Generators, NEW s \in {"idle", "read"}, NEW o,
         at' = [at EXCEPT ![g] = s], target' = [target EXCEPT ![g] = o],
         copy'[g] = NoInvoice,
         \A h \in Generators \ {g} : copy'[h] = copy[h] /\ number'[h] = number[h],
         UNCHANGED invoice
  PROVE HoldsItsNumber'
BY DEF HoldsItsNumber, Numbered, InvoicesTypeOK

\* A step that moves the queues only has attempts to lose or a row to finish.
LEMMA InvoicesOrderStep ==
  ASSUME InvoicesInv, NEW o \in InvoicedOrders,
         ConfirmPayment(o) \/ RefundOrder(o) \/ EnqueueInvoice(o) \/ CancelInvoice(o) \/ CreditNote(o)
  PROVE InvoicesInv'
<1> USE InvoiceConstants, NoInvoiceIsNone DEF InvoicesInv, InvoicesTypeOK
<1>1. CASE ConfirmPayment(o) \/ RefundOrder(o)
  BY <1>1, HoldingIdles DEF ConfirmPayment, RefundOrder, queues, execution, NumbersStay,
     AttemptsAreLeft, ShowsItsInvoice
<1>2. CASE EnqueueInvoice(o)
  BY <1>2, HoldingIdles DEF EnqueueInvoice, execution, NumbersStay, AttemptsAreLeft, ShowsItsInvoice
<1>3. ASSUME NEW s \in {"refunded", "cancelled"}, invoice[o] # NoInvoice,
             invoice' = [invoice EXCEPT ![o].status = s],
             UNCHANGED <<payable, shown, counter, queues, execution>>
      PROVE InvoicesInv'
  <2>1. invoice[o] \in InvoiceRecord
    BY <1>3
  <2>2. [invoice[o] EXCEPT !.status = s] \in InvoiceRecord
    BY <2>1 DEF InvoiceRecord
  <2>3. invoice'[o] = [invoice[o] EXCEPT !.status = s] /\ \A p \in InvoicedOrders \ {o} : invoice'[p] = invoice[p]
    BY <1>3
  <2>4. invoice'[o].number = invoice[o].number
    BY <2>1, <2>3 DEF InvoiceRecord
  <2>5. NumbersStay
    BY <2>2, <2>3, <2>4 DEF NumbersStay
  <2>6. InvoicesTypeOK'
    BY <1>3, <2>2, <2>3 DEF queues, execution
  <2>7. HoldsItsNumber'
    BY <1>3, <2>5, HoldingIdles DEF execution
  <2>8. AttemptsAreLeft' /\ ShowsItsInvoice'
    BY <1>3, <2>5 DEF queues, NumbersStay, AttemptsAreLeft, ShowsItsInvoice
  <2>9. QED BY <2>6, <2>7, <2>8
<1>4. QED
  BY <1>1, <1>2, <1>3 DEF CancelInvoice, CreditNote

\* An execution that starts has a row with attempts left, a job or a call.
LEMMA InvoicesStartStep ==
  ASSUME InvoicesInv, NEW o \in InvoicedOrders, NEW g \in Generators,
         ClaimRow(g, o) \/ TakeJob(g, o) \/ Generate(g, o)
  PROVE InvoicesInv'
<1> USE InvoiceConstants DEF InvoicesInv
<1>1. PICK s \in {"row", "job", "call"}, f \in BOOLEAN : Starts(g, s, o, f)
  BY DEF ClaimRow, TakeJob, Generate
<1>2. InvoicesTypeOK'
  <2>1. /\ row' \in [InvoicedOrders -> {"none", "queued", "processing", "done", "failed"}]
        /\ attempts' \in [InvoicedOrders -> 0 .. MaxAttempts]
        /\ delivery' \in [InvoicedOrders -> {"none", "waiting", "active", "done", "failed"}]
    <3>1. CASE ClaimRow(g, o)
      <4>1. attempts[o] + 1 \in 0 .. MaxAttempts
        BY <3>1 DEF ClaimRow, InvoicesTypeOK, AttemptsAreLeft
      <4>2. QED BY <3>1, <4>1 DEF ClaimRow, InvoicesTypeOK
    <3>2. CASE TakeJob(g, o)
      BY <3>2 DEF TakeJob, InvoicesTypeOK
    <3>3. CASE Generate(g, o)
      BY <3>3 DEF Generate, queues, InvoicesTypeOK
    <3>4. QED BY <3>1, <3>2, <3>3
  <2>2. QED BY <1>1, <2>1 DEF Starts, InvoicesTypeOK
<1>3. HoldsItsNumber'
  <2>1. copy'[g] = NoInvoice
    BY <1>1 DEF Starts, HoldsItsNumber
  <2>2. QED BY <1>1, <2>1, HoldingRestarts DEF Starts
<1>4. AttemptsAreLeft' /\ ShowsItsInvoice'
  BY <1>1 DEF Starts, ClaimRow, TakeJob, Generate, queues, AttemptsAreLeft, ShowsItsInvoice,
     InvoicesTypeOK
<1>5. QED BY <1>2, <1>3, <1>4

\* A step of createInvoiceForOrder.
LEMMA InvoicesGenerateStep ==
  ASSUME InvoicesInv, NEW g \in Generators,
         \/ ReadInvoice(g) \/ TakeNumber(g) \/ InsertInvoice(g) \/ UpdateInvoice(g)
         \/ LinkOrder(g) \/ GenerateThrows(g)
  PROVE InvoicesInv'
<1> USE InvoiceConstants, NoInvoiceIsNone DEF InvoicesInv
<1>a. target[g] \in InvoicedOrders
  BY DEF InvoicesTypeOK, ReadInvoice, TakeNumber, InsertInvoice, UpdateInvoice, LinkOrder, GenerateThrows
<1>1. CASE ReadInvoice(g)
  <2> DEFINE o == target[g]
  <2>1. /\ UNCHANGED <<payable, shown, invoice, counter, queues, source, target, force>>
        /\ at[g] = "read"
    BY <1>1 DEF ReadInvoice
  <2>2. NumbersStay
    BY <2>1 DEF NumbersStay
  <2>3. CASE /\ payable[o] /\ Live(o) /\ force[g]
             /\ Proceeds(g, "save")
             /\ copy' = [copy EXCEPT ![g] = invoice[o]]
             /\ number' = [number EXCEPT ![g] = invoice[o].number]
    <3>1. invoice[o] \in InvoiceRecord /\ invoice[o].number \in Nat \ {0}
      BY <1>a, <2>3 DEF Live, InvoicesTypeOK, InvoiceRecord
    <3>2. InvoicesTypeOK'
      BY <2>1, <2>3, <3>1 DEF Proceeds, queues, InvoicesTypeOK
    <3>3. HoldsItsNumber'
      BY <1>a, <2>1, <2>3, <3>1 DEF Proceeds, HoldsItsNumber, Numbered, InvoicesTypeOK
    <3>4. QED BY <2>1, <3>2, <3>3 DEF queues, AttemptsAreLeft, ShowsItsInvoice
  <2>4. CASE /\ UNCHANGED <<copy, number>>
             /\ \/ Proceeds(g, "succeeds") /\ Live(o)
                \/ Proceeds(g, "fails")
                \/ Proceeds(g, "number")
    <3>1. InvoicesTypeOK'
      BY <2>1, <2>4 DEF Proceeds, queues, InvoicesTypeOK
    <3>2. HoldsItsNumber'
      BY <1>a, <2>1, <2>4 DEF Proceeds, HoldsItsNumber, Numbered, Live, InvoicesTypeOK
    <3>3. QED BY <2>1, <3>1, <3>2 DEF queues, AttemptsAreLeft, ShowsItsInvoice
  <2>5. QED BY <1>1, <2>3, <2>4 DEF ReadInvoice
<1>2. CASE TakeNumber(g)
  <2>1. InvoicesTypeOK'
    BY <1>2 DEF TakeNumber, Proceeds, queues, InvoicesTypeOK
  <2>2. HoldsItsNumber'
    BY <1>2 DEF TakeNumber, Proceeds, HoldsItsNumber, Numbered, InvoicesTypeOK
  <2>3. QED BY <1>2, <2>1, <2>2 DEF TakeNumber, queues, AttemptsAreLeft, ShowsItsInvoice
<1>3. CASE InsertInvoice(g)
  <2> DEFINE new == [number |-> number[g], version |-> 1, status |-> "generated"]
  <2>1. CASE invoice[target[g]] = NoInvoice
    <3>1. new \in InvoiceRecord /\ new # NoInvoice
      BY <1>3 DEF InsertInvoice, HoldsItsNumber, InvoiceRecord, InvoicesTypeOK
    <3>2. /\ invoice' = [invoice EXCEPT ![target[g]] = new] /\ Proceeds(g, "link")
          /\ UNCHANGED <<payable, shown, counter, queues, source, target, force, copy, number>>
          /\ at[g] = "save"
      BY <1>3, <2>1 DEF InsertInvoice
    <3>3. InvoicesTypeOK'
      BY <3>1, <3>2 DEF Proceeds, queues, InvoicesTypeOK
    <3>4. NumbersStay
      BY <1>a, <2>1, <3>2 DEF NumbersStay, InvoicesTypeOK
    <3>5. Numbered(g)'
      BY <1>a, <3>1, <3>2 DEF Numbered, InvoicesTypeOK
    <3>6. HoldsItsNumber'
      BY <3>2, <3>3, <3>4, <3>5, HoldingStays DEF Proceeds
    <3>7. AttemptsAreLeft' /\ ShowsItsInvoice'
      BY <3>2, <3>4 DEF queues, NumbersStay, AttemptsAreLeft, ShowsItsInvoice
    <3>8. QED BY <3>3, <3>6, <3>7
  <2>2. CASE invoice[target[g]] # NoInvoice
    <3>1. /\ UNCHANGED invoice /\ Proceeds(g, "fails")
          /\ UNCHANGED <<payable, shown, counter, queues, source, target, force, copy, number>>
      BY <1>3, <2>2 DEF InsertInvoice
    <3>2. InvoicesTypeOK'
      BY <3>1, <1>a DEF Proceeds, queues, InvoicesTypeOK
    <3>3. HoldsItsNumber'
      BY <3>1 DEF Proceeds, HoldsItsNumber, Numbered, InvoicesTypeOK
    <3>4. QED BY <3>1, <3>2, <3>3 DEF queues, AttemptsAreLeft, ShowsItsInvoice
  <2>3. QED BY <2>1, <2>2
<1>4. CASE UpdateInvoice(g)
  <2> DEFINE o == target[g]
  <2>1. /\ at[g] = "save" /\ copy[g] # NoInvoice /\ Numbered(g) /\ Proceeds(g, "link")
        /\ UNCHANGED <<payable, shown, counter, queues, source, target, force, copy, number>>
    BY <1>4 DEF UpdateInvoice, HoldsItsNumber
  <2>2. invoice[o] \in InvoiceRecord /\ copy[g] \in InvoiceRecord
    BY <1>a, <2>1 DEF Numbered, InvoicesTypeOK
  <2> DEFINE v == copy[g].version + 1
             s == IF copy[g].status = "generated" THEN invoice[o].status ELSE "generated"
             new == [invoice[o] EXCEPT !.version = v, !.status = s]
  <2>3. invoice' = [invoice EXCEPT ![o] = new]
    BY <1>a, <1>4 DEF UpdateInvoice
  <2>4. /\ invoice'[o] \in InvoiceRecord /\ invoice'[o].number = invoice[o].number
        /\ \A p \in InvoicedOrders \ {o} : invoice'[p] = invoice[p]
    <3>1. v \in Nat /\ s \in {"generated", "refunded", "cancelled"}
      BY <2>2 DEF InvoiceRecord
    <3> HIDE DEF v, s
    <3>2. new \in InvoiceRecord /\ new.number = invoice[o].number
      BY <2>2, <3>1 DEF InvoiceRecord
    <3> HIDE DEF new, o
    <3>3. invoice \in [InvoicedOrders -> InvoiceRecord \cup {NoInvoice}] /\ o \in InvoicedOrders
      BY <1>a DEF InvoicesTypeOK, o
    <3>4. QED BY <2>3, <3>2, <3>3
  <2> HIDE DEF new, s, v
  <2>5. NumbersStay
    BY <2>4 DEF NumbersStay
  <2>6. InvoicesTypeOK'
    <3>1. invoice' \in [InvoicedOrders -> InvoiceRecord \cup {NoInvoice}]
      BY <1>a, <2>3, <2>4 DEF InvoicesTypeOK
    <3>2. QED BY <2>1, <3>1, <1>a DEF Proceeds, queues, InvoicesTypeOK
  <2>7. Numbered(g)'
    BY <1>a, <2>1, <2>4 DEF Numbered
  <2>8. HoldsItsNumber'
    BY <2>1, <2>5, <2>6, <2>7, HoldingStays DEF Proceeds
  <2>9. QED
    BY <2>1, <2>5, <2>6, <2>8 DEF queues, NumbersStay, AttemptsAreLeft, ShowsItsInvoice
<1>5. CASE LinkOrder(g)
  <2>1. Numbered(g)
    BY <1>5 DEF LinkOrder, HoldsItsNumber
  <2>2. InvoicesTypeOK'
    BY <1>5 DEF LinkOrder, Proceeds, queues, InvoicesTypeOK
  <2>3. HoldsItsNumber'
    BY <1>5, <2>1 DEF LinkOrder, Proceeds, HoldsItsNumber, Numbered, InvoicesTypeOK
  <2>4. QED
    BY <1>a, <1>5, <2>1, <2>2, <2>3 DEF LinkOrder, Numbered, queues, AttemptsAreLeft, ShowsItsInvoice,
       InvoicesTypeOK
<1>6. CASE GenerateThrows(g)
  <2>1. InvoicesTypeOK' /\ HoldsItsNumber'
    BY <1>6 DEF GenerateThrows, Proceeds, queues, InvoicesTypeOK, HoldsItsNumber, Numbered
  <2>2. QED BY <1>6, <2>1 DEF GenerateThrows, queues, AttemptsAreLeft, ShowsItsInvoice
<1>7. QED BY <1>1, <1>2, <1>3, <1>4, <1>5, <1>6

\* The end of an execution: a row that is done has the invoice it made.
LEMMA InvoicesAnswerStep ==
  ASSUME InvoicesInv, NEW g \in Generators,
         AnswerRow(g) \/ AnswerJob(g) \/ AnswerCall(g) \/ CrashGenerator(g)
  PROVE InvoicesInv'
<1> USE InvoiceConstants DEF InvoicesInv
<1>1. Forgets(g) /\ target[g] \in InvoicedOrders
  BY DEF AnswerRow, AnswerJob, AnswerCall, CrashGenerator, InvoicesTypeOK
<1>2. InvoicesTypeOK'
  <2>1. row' \in [InvoicedOrders -> {"none", "queued", "processing", "done", "failed"}]
    BY <1>1 DEF AnswerRow, AnswerJob, AnswerCall, CrashGenerator, InvoicesTypeOK
  <2>2. delivery' \in [InvoicedOrders -> {"none", "waiting", "active", "done", "failed"}]
    BY <1>1 DEF AnswerRow, AnswerJob, AnswerCall, CrashGenerator, InvoicesTypeOK
  <2>3. QED BY <1>1, <2>1, <2>2 DEF Forgets, Proceeds, InvoicesTypeOK
<1>3. HoldsItsNumber'
  BY <1>1, HoldingRestarts DEF Forgets, Proceeds, InvoicesTypeOK
<1>4. AttemptsAreLeft'
  BY <1>1 DEF AnswerRow, AnswerJob, AnswerCall, CrashGenerator, Forgets, AttemptsAreLeft, InvoicesTypeOK
<1>5. ShowsItsInvoice'
  BY <1>1 DEF AnswerRow, AnswerJob, AnswerCall, CrashGenerator, Forgets, HoldsItsNumber, ShowsItsInvoice,
     InvoicesTypeOK
<1>6. QED BY <1>2, <1>3, <1>4, <1>5

\* The invariant holds in every reachable state.
THEOREM InvoicesInvariance == InvoicesSpec => []InvoicesInv
<1>1. InvoicesInit => InvoicesInv
  BY InvoicesStart
<1>2. InvoicesInv /\ [InvoicesNext]_invoicesVars => InvoicesInv'
  <2> SUFFICES ASSUME InvoicesInv, [InvoicesNext]_invoicesVars PROVE InvoicesInv'
    OBVIOUS
  <2>1. CASE UNCHANGED invoicesVars
    BY <2>1 DEF invoicesVars, queues, execution, InvoicesInv, InvoicesTypeOK, HoldsItsNumber, Numbered,
       AttemptsAreLeft, ShowsItsInvoice
  <2>2. CASE InvoicesNext
    BY <2>2, InvoicesOrderStep, InvoicesStartStep, InvoicesGenerateStep, InvoicesAnswerStep DEF InvoicesNext
  <2>3. QED BY <2>1, <2>2
<1>3. QED BY <1>1, <1>2, PTL DEF InvoicesSpec

\* Orders, invoices, both queues and the memory of every execution keep their
\* types; no row has more attempts than it may (invoiceQueueWorkerService.js:7-36).
THEOREM InvoicesTypeCorrect == InvoicesSpec => []InvoicesTypeOK
<1>1. InvoicesInv => InvoicesTypeOK
  BY DEF InvoicesInv
<1>2. QED BY <1>1, InvoicesInvariance, PTL

\* The number an order shows is its own invoice's, and a row that is done has
\* an invoice (invoiceService.js:104-225).
THEOREM ShowsItsInvoiceAlways == InvoicesSpec => []ShowsItsInvoice
<1>1. InvoicesInv => ShowsItsInvoice
  BY DEF InvoicesInv
<1>2. QED BY <1>1, InvoicesInvariance, PTL

----------------------------------------------------------------------------

(***************************************************************************)
(* Trials.  A completion with new photos is paid for the start it read.    *)
(* Once a start is paid, or its payment is due, the trial is no longer in  *)
(* progress from that start, and no completion that read it can save.      *)
(***************************************************************************)
\* The execution h completes the trial with photos that are not the document's.
Pays(h) == plan[h].completes /\ plan[h].photos # Same
Due(h, n) == phase[h] = "saved" /\ Pays(h) /\ seenStart[h] = n

Over(n) ==
  /\ n < starts \/ (n = starts /\ trial # "in_progress")
  /\ \A h \in Handlers : phase[h] = "read" /\ Pays(h) /\ seenStart[h] = n => ~fresh[h]

Plausible ==
  \A h \in Handlers : /\ seenStart[h] <= starts
                      /\ plan[h].completes => plan[h].to = "done"
                      /\ phase[h] = "saved" => plan[h].completes

PaidIsOver == \A n \in 0 .. MaxStarts : earned[n] > 0 => Over(n)
DueIsOver  == \A h \in Handlers, n \in 0 .. MaxStarts : Due(h, n) => Over(n) /\ earned[n] = 0
OneIsDue   == \A h, g \in Handlers, n \in 0 .. MaxStarts : Due(h, n) /\ Due(g, n) => h = g

TrialsInv ==
  TrialsTypeOK /\ Plausible /\ PaidIsOver /\ DueIsOver /\ OneIsDue /\ EarnsOncePerStart

LEMMA TrialsStart == TrialsInit => TrialsInv
<1> SUFFICES ASSUME TrialsInit PROVE TrialsInv
  OBVIOUS
<1> USE TrialConstants DEF TrialsInit
<1>1. NoPlan \in Plans /\ ~NoPlan.completes
  BY DEF NoPlan, Change, Plans
<1>2. TrialsTypeOK
  <2>1. trial \in Settable /\ approval \in {"pending", "approved", "rejected"}
    BY DEF Settable
  <2>2. starts \in 0 .. MaxStarts /\ seenStart \in [Handlers -> 0 .. MaxStarts]
    OBVIOUS
  <2>3. earned \in [0 .. MaxStarts -> Nat]
    OBVIOUS
  <2>4. phase \in [Handlers -> {"idle", "read", "saved"}] /\ plan \in [Handlers -> Plans]
    BY <1>1
  <2>5. fresh \in [Handlers -> BOOLEAN]
    OBVIOUS
  <2>6. proofPhotos \in Photos \cup {NoPhotos} /\ announced \subseteq Events
    OBVIOUS
  <2>7. trial \in Statuses
    BY <2>1 DEF Statuses
  <2> QED  BY <2>1, <2>2, <2>3, <2>4, <2>5, <2>6, <2>7 DEF TrialsTypeOK
<1>3. Plausible /\ PaidIsOver /\ DueIsOver /\ OneIsDue /\ EarnsOncePerStart
  BY <1>1 DEF Plausible, PaidIsOver, DueIsOver, OneIsDue, Due, EarnsOncePerStart
<1> QED
  BY <1>2, <1>3 DEF TrialsInv

\* A handler reads: one that is to be paid has read a trial in progress, whose
\* start is therefore not over.
LEMMA TrialsReads ==
  ASSUME TrialsInv, NEW h \in Handlers, NEW p \in Plans, Reads(h, p),
         p.completes => p.to = "done" /\ trial = "in_progress"
  PROVE  TrialsInv'
<1> USE DEF TrialsInv, TrialsTypeOK
<1>1. /\ phase' = [phase EXCEPT ![h] = "read"] /\ plan' = [plan EXCEPT ![h] = p]
      /\ seenStart' = [seenStart EXCEPT ![h] = starts]
      /\ fresh' = [fresh EXCEPT ![h] = TRUE]
      /\ UNCHANGED <<trial, approval, proofPhotos, announced, starts, earned>>
  BY DEF Reads, documentOfTrial
<1>t. /\ starts \in Nat /\ phase \in [Handlers -> {"idle", "read", "saved"}]
      /\ plan \in [Handlers -> Plans] /\ seenStart \in [Handlers -> Nat]
      /\ fresh \in [Handlers -> BOOLEAN]
  BY TrialConstants
<1>2. TrialsTypeOK'
  BY <1>1
<1> HIDE DEF TrialsTypeOK
<1>3. Plausible'
  BY <1>1, <1>t DEF Plausible
<1>4. ASSUME NEW n \in 0 .. MaxStarts, Over(n)
      PROVE  Over(n)'
  <2>1. n < starts \/ (n = starts /\ trial # "in_progress")
    BY <1>4 DEF Over
  <2>2. ASSUME NEW g \in Handlers, phase'[g] = "read", Pays(g)', seenStart'[g] = n
        PROVE  ~fresh'[g]
    <3>1. CASE g # h
      BY <1>1, <1>t, <1>4, <2>2, <3>1 DEF Over, Pays
    <3>2. CASE g = h
      BY <1>1, <1>t, <2>1, <2>2, <3>2 DEF Pays
    <3> QED  BY <3>1, <3>2
  <2> QED  BY <1>1, <2>1, <2>2 DEF Over
<1>5. \A g \in Handlers, n \in 0 .. MaxStarts : Due(g, n)' => g # h /\ Due(g, n)
  BY <1>1, <1>t DEF Due, Pays
<1> QED
  BY <1>1, <1>2, <1>3, <1>4, <1>5 DEF PaidIsOver, DueIsOver, OneIsDue, EarnsOncePerStart

\* A handler ends, and may leave an earning of the start it was paid for.
LEMMA TrialsForget ==
  ASSUME TrialsInv, NEW h \in Handlers, Forget(h), UNCHANGED documentOfTrial,
         \/ UNCHANGED earned
         \/ /\ phase[h] = "saved" /\ plan[h].photos # Same /\ plan[h].completes
            /\ earned' = [earned EXCEPT ![seenStart[h]] = @ + 1]
  PROVE  TrialsInv'
<1> USE DEF TrialsInv, TrialsTypeOK
<1>1. /\ phase' = [phase EXCEPT ![h] = "idle"] /\ plan' = [plan EXCEPT ![h] = NoPlan]
      /\ seenStart' = [seenStart EXCEPT ![h] = 0]
      /\ fresh' = [fresh EXCEPT ![h] = TRUE]
      /\ UNCHANGED <<trial, approval, proofPhotos, announced, starts>>
  BY DEF Forget, Done, documentOfTrial
<1>2. NoPlan \in Plans /\ ~NoPlan.completes
  BY DEF NoPlan, Change, Plans
<1>3. /\ seenStart[h] \in 0 .. MaxStarts /\ starts \in Nat
      /\ phase \in [Handlers -> {"idle", "read", "saved"}]
      /\ plan \in [Handlers -> Plans] /\ seenStart \in [Handlers -> 0 .. MaxStarts]
      /\ fresh \in [Handlers -> BOOLEAN] /\ earned \in [0 .. MaxStarts -> Nat]
  BY TrialConstants
<1>4. TrialsTypeOK'
  <2>1. seenStart' \in [Handlers -> 0 .. MaxStarts]
    BY <1>1, <1>3, TrialConstants
  <2>2. earned' \in [0 .. MaxStarts -> Nat]
    BY <1>3
  <2> QED  BY <1>1, <1>2, <2>1, <2>2
<1> HIDE DEF TrialsTypeOK
<1>5. Plausible'
  BY <1>1, <1>2, <1>3 DEF Plausible
<1>6. \A n \in 0 .. MaxStarts : Over(n) => Over(n)'
  BY <1>1, <1>3 DEF Over, Pays
<1>7. \A g \in Handlers, n \in 0 .. MaxStarts : Due(g, n)' => g # h /\ Due(g, n)
  BY <1>1, <1>2, <1>3 DEF Due, Pays
<1>8. CASE UNCHANGED earned
  BY <1>4, <1>5, <1>6, <1>7, <1>8 DEF PaidIsOver, DueIsOver, OneIsDue, EarnsOncePerStart
<1>9. ASSUME phase[h] = "saved", plan[h].photos # Same, plan[h].completes,
             earned' = [earned EXCEPT ![seenStart[h]] = @ + 1]
      PROVE  TrialsInv'
  <2>1. Due(h, seenStart[h])
    BY <1>9 DEF Due, Pays
  <2>2. earned[seenStart[h]] = 0 /\ Over(seenStart[h])
    BY <1>3, <2>1 DEF DueIsOver
  <2>3. \A n \in 0 .. MaxStarts : earned'[n] = IF n = seenStart[h] THEN 1 ELSE earned[n]
    BY <1>3, <1>9, <2>2
  <2>4. \A g \in Handlers, n \in 0 .. MaxStarts : Due(g, n)' => n # seenStart[h]
    BY <1>7, <2>1 DEF OneIsDue
  <2>5. PaidIsOver' /\ EarnsOncePerStart'
    <3>1. ASSUME NEW n \in 0 .. MaxStarts
          PROVE  earned'[n] <= 1 /\ (earned'[n] > 0 => Over(n)')
      <4>1. CASE n = seenStart[h]
        BY <1>6, <2>2, <2>3, <4>1
      <4>2. CASE n # seenStart[h]
        BY <1>6, <2>3, <4>2 DEF PaidIsOver, EarnsOncePerStart
      <4> QED  BY <4>1, <4>2
    <3> QED  BY <3>1 DEF PaidIsOver, EarnsOncePerStart
  <2>6. DueIsOver'
    BY <1>6, <1>7, <2>3, <2>4 DEF DueIsOver
  <2>7. OneIsDue'
    BY <1>7 DEF OneIsDue
  <2> QED  BY <1>4, <1>5, <2>5, <2>6, <2>7
<1> QED
  BY <1>8, <1>9

\* A save: only one that puts the trial in progress opens a start, and it is a
\* new one; one that is to be paid was fresh, so its start was not over.
LEMMA TrialsSave ==
  ASSUME TrialsInv, NEW h \in Handlers, Save(h)
  PROVE  TrialsInv'
<1> USE DEF TrialsInv
<1> DEFINE p == plan[h]
<1>t. /\ trial \in Statuses /\ approval \in {"pending", "approved", "rejected"}
      /\ proofPhotos \in Photos \cup {NoPhotos} /\ announced \subseteq Events
      /\ starts \in 0 .. MaxStarts /\ starts \in Nat /\ MaxStarts \in Nat
      /\ earned \in [0 .. MaxStarts -> Nat]
      /\ phase \in [Handlers -> {"idle", "read", "saved"}]
      /\ plan \in [Handlers -> Plans] /\ seenStart \in [Handlers -> 0 .. MaxStarts]
      /\ fresh \in [Handlers -> BOOLEAN]
  BY TrialConstants DEF TrialsTypeOK
<1> USE <1>t
<1>1. /\ p \in Plans /\ p.to \in Statuses \cup {Same} /\ p.approval \in {Same, "approved", "rejected"}
      /\ p.photos \in Photos \cup {NoPhotos, Same} /\ p.event \in Events \cup {Same}
      /\ p.list \in BOOLEAN /\ p.pushes \in BOOLEAN /\ p.completes \in BOOLEAN
  BY DEF Plans
<1>2. /\ phase[h] = "read" /\ (p.to = "in_progress" => starts < MaxStarts)
      /\ trial' = IF p.to = Same THEN trial ELSE p.to
      /\ starts' = IF p.to = "in_progress" THEN starts + 1 ELSE starts
      /\ fresh' = [g \in Handlers |-> g = h \/ (fresh[g] /\ ~p.pushes /\ ~Replaces(p))]
      /\ UNCHANGED earned
      /\ \/ /\ p.completes /\ phase' = [phase EXCEPT ![h] = "saved"]
            /\ UNCHANGED <<plan, seenStart>>
         \/ /\ ~p.completes /\ phase' = [phase EXCEPT ![h] = "idle"]
            /\ plan' = [plan EXCEPT ![h] = NoPlan]
            /\ seenStart' = [seenStart EXCEPT ![h] = 0]
  BY DEF Save, Restarts, Done
<1>3. /\ approval' = IF p.approval = Same THEN approval ELSE p.approval
      /\ proofPhotos' = IF p.photos = Same THEN proofPhotos ELSE p.photos
      /\ announced' = IF p.event = Same THEN announced ELSE announced \cup {p.event}
  BY DEF Save
<1>4. Pays(h) => fresh[h]
  BY DEF Save, CanSave, Replaces, Pays
<1>5. NoPlan \in Plans /\ ~NoPlan.completes
  BY DEF NoPlan, Change, Plans
<1> HIDE DEF p
<1>6. \A g \in Handlers : g # h => /\ phase'[g] = phase[g] /\ plan'[g] = plan[g]
                                   /\ seenStart'[g] = seenStart[g]
                                   /\ (fresh'[g] => fresh[g] /\ ~p.pushes /\ ~Replaces(p))
  BY <1>2
<1>7. TrialsTypeOK'
  <2>1. trial' \in Statuses
    BY <1>1, <1>2
  <2>0. starts' \in 0 .. MaxStarts
    BY <1>2
  <2>2. /\ approval' \in {"pending", "approved", "rejected"}
        /\ proofPhotos' \in Photos \cup {NoPhotos} /\ announced' \subseteq Events
    BY <1>1, <1>3
  <2>3. fresh' \in [Handlers -> BOOLEAN]
    <3>1. \A g \in Handlers : (g = h \/ (fresh[g] /\ ~p.pushes /\ ~Replaces(p))) \in BOOLEAN
      OBVIOUS
    <3> QED  BY <1>2, <3>1, Zenon
  <2>4. /\ phase' \in [Handlers -> {"idle", "read", "saved"}] /\ plan' \in [Handlers -> Plans]
    BY <1>2, <1>5
  <2>5. seenStart' \in [Handlers -> 0 .. MaxStarts] /\ earned' \in [0 .. MaxStarts -> Nat]
    BY <1>2
  <2> QED  BY <2>0, <2>1, <2>2, <2>3, <2>4, <2>5 DEF TrialsTypeOK
<1>8. Plausible'
  <2>1. starts' >= starts /\ starts \in Nat
    BY <1>2
  <2>2. /\ seenStart'[h] <= starts' /\ (plan'[h].completes => plan'[h].to = "done")
        /\ phase'[h] = "saved" => plan'[h].completes
    BY <1>2, <1>5, <2>1 DEF Plausible, p
  <2>3. starts' \in Nat
    BY <1>2
  <2>4. ASSUME NEW g \in Handlers, g # h
        PROVE  /\ seenStart'[g] <= starts' /\ (plan'[g].completes => plan'[g].to = "done")
               /\ phase'[g] = "saved" => plan'[g].completes
    <3>1. seenStart[g] \in Nat /\ seenStart[g] <= starts
      BY DEF Plausible
    <3> QED  BY <1>6, <2>1, <2>3, <2>4, <3>1 DEF Plausible
  <2> QED  BY <2>2, <2>4 DEF Plausible
<1>9. ASSUME NEW n \in 0 .. MaxStarts, Over(n)
      PROVE  Over(n)'
  <2>1. n < starts' \/ (n = starts' /\ trial' # "in_progress")
    BY <1>2, <1>9 DEF Over, Same
  <2>2. ASSUME NEW g \in Handlers, phase'[g] = "read", Pays(g)', seenStart'[g] = n
        PROVE  ~fresh'[g]
    <3>1. g # h
      BY <1>2, <2>2
    <3> QED  BY <1>6, <1>9, <2>2, <3>1 DEF Over, Pays
  <2> QED  BY <2>1, <2>2 DEF Over
<1>10. \A g \in Handlers, n \in 0 .. MaxStarts : g # h => (Due(g, n)' <=> Due(g, n))
  BY <1>6 DEF Due, Pays
<1>11. CASE ~Pays(h)
  <2>1. \A n \in 0 .. MaxStarts : ~Due(h, n)'
    BY <1>2, <1>5, <1>11 DEF Due, Pays, p
  <2> QED
    BY <1>2, <1>7, <1>8, <1>9, <1>10, <2>1
       DEF PaidIsOver, DueIsOver, OneIsDue, EarnsOncePerStart
<1>12. CASE Pays(h)
  <2>0. PICK n \in 0 .. MaxStarts : n = seenStart[h]
    OBVIOUS
  <2>1. p.completes /\ p.to = "done" /\ Replaces(p) /\ n \in 0 .. MaxStarts /\ n <= starts
    BY <1>12, <2>0 DEF Pays, Plausible, Replaces, p
  <2>2. ~Over(n)
    BY <1>2, <1>4, <1>12, <2>0 DEF Over
  <2>3. trial' = "done" /\ starts' = starts
    BY <1>2, <2>1 DEF Same
  <2>4. \A g \in Handlers : phase'[g] = "read" => ~fresh'[g]
    BY <1>2, <1>6, <2>1
  <2>5. Over(n)'
    BY <2>1, <2>3, <2>4, <1>2 DEF Over
  <2>6. earned[n] = 0 /\ \A g \in Handlers : ~Due(g, n)
    BY <2>1, <2>2 DEF PaidIsOver, DueIsOver
  <2>7. \A q \in 0 .. MaxStarts : Due(h, q)' => q = n
    BY <1>2, <2>0, <2>1 DEF Due
  <2>8. PaidIsOver' /\ EarnsOncePerStart'
    BY <1>2, <1>9 DEF PaidIsOver, EarnsOncePerStart
  <2>9. DueIsOver'
    <3>1. ASSUME NEW g \in Handlers, NEW q \in 0 .. MaxStarts, Due(g, q)'
          PROVE  Over(q)' /\ earned'[q] = 0
      <4>1. CASE g = h
        BY <1>2, <2>5, <2>6, <2>7, <3>1, <4>1
      <4>2. CASE g # h
        BY <1>2, <1>9, <1>10, <3>1, <4>2 DEF DueIsOver
      <4> QED  BY <4>1, <4>2
    <3> QED  BY <3>1 DEF DueIsOver
  <2>10. OneIsDue'
    BY <1>10, <2>6, <2>7 DEF OneIsDue
  <2> QED  BY <1>7, <1>8, <2>8, <2>9, <2>10
<1> QED
  BY <1>11, <1>12

\* What the handlers plan is a plan, and only the rider's completion completes.
LEMMA TrialsPlans ==
  /\ \A to \in Statuses \cup {Same}, items \in BOOLEAN, a \in {Same, "approved", "rejected"} :
       LET p == [Change(to) EXCEPT !.list = items, !.approval = a]
       IN  p \in Plans /\ ~p.completes
  /\ \A to \in Statuses \cup {Same} :
       /\ Change(to) \in Plans /\ ~Change(to).completes
       /\ \A items \in BOOLEAN : LET p == [Change(to) EXCEPT !.list = items]
                                 IN  p \in Plans /\ ~p.completes
       /\ \A a \in {"approved", "rejected"} : LET p == [Change(to) EXCEPT !.approval = a]
                                              IN  p \in Plans /\ ~p.completes
BY DEF Change, Plans

LEMMA TrialsHandlers ==
  ASSUME TrialsInv, NEW h \in Handlers,
         \/ Approve(h) \/ Reject(h) \/ Modify(h) \/ Cancel(h) \/ Feedback(h) \/ Convert(h)
         \/ VendorUpdate(h) \/ VendorFlow(h) \/ AdminUpdate(h) \/ AssignTask(h) \/ TaskStatus(h)
  PROVE  TrialsInv'
<1>1. trial \in Statuses
  BY DEF TrialsInv, TrialsTypeOK
<1>2. \A to \in Statuses : Sets(to) \subseteq Statuses \cup {Same}
  BY DEF Sets
<1>3. \E p \in Plans : Reads(h, p) /\ ~p.completes
  <2>1. CASE Approve(h) \/ Reject(h) \/ Cancel(h)
    BY <1>1, <1>2, <2>1, TrialsPlans DEF Approve, Reject, Cancel, Statuses, Settable
  <2>2. CASE Modify(h) \/ Convert(h)
    BY <1>1, <1>2, <2>2, TrialsPlans DEF Modify, Convert, Statuses, Settable
  <2>3. CASE Feedback(h) \/ VendorUpdate(h) \/ AssignTask(h) \/ TaskStatus(h)
    BY <1>1, <1>2, <2>3, TrialsPlans
       DEF Feedback, VendorUpdate, AssignTask, TaskStatus, Statuses, Settable
  <2>4. CASE VendorFlow(h)
    BY <1>1, <1>2, <2>4, TrialsPlans DEF VendorFlow, Statuses, Settable
  <2>5. CASE AdminUpdate(h)
    BY <1>1, <1>2, <2>5, TrialsPlans DEF AdminUpdate, Statuses, Settable
  <2> QED  BY <2>1, <2>2, <2>3, <2>4, <2>5
<1> QED
  BY <1>3, TrialsReads

LEMMA TrialsRider ==
  ASSUME TrialsInv, NEW h \in Handlers,
         \/ Arrive(h) \/ Start(h)
         \/ \E photos \in Photos \cup {NoPhotos} : NoShow(h, photos) \/ Complete(h, photos)
  PROVE  TrialsInv'
<1>1. CASE Arrive(h) \/ Start(h)
  <2>1. \E p \in Plans : Reads(h, p) /\ ~p.completes
    <3>1. /\ [Change("arrived") EXCEPT !.pushes = FALSE] \in Plans
          /\ ~[Change("arrived") EXCEPT !.pushes = FALSE].completes
          /\ Announces("in_progress", "TrialStarted") \in Plans
          /\ ~Announces("in_progress", "TrialStarted").completes
      BY DEF Change, Announces, Plans, Statuses, Settable, Events
    <3> QED  BY <1>1, <3>1 DEF Arrive, Start
  <2> QED  BY <2>1, TrialsReads
<1>2. ASSUME NEW photos \in Photos \cup {NoPhotos}, NoShow(h, photos)
      PROVE  TrialsInv'
  <2> DEFINE p == [Announces("no_show", "NoShow")
                     EXCEPT !.photos = IF photos = proofPhotos THEN Same ELSE photos]
  <2>1. p \in Plans /\ ~p.completes
    BY DEF Change, Announces, Plans, Statuses, Settable, Events
  <2>2. Reads(h, p)
    BY <1>2 DEF NoShow
  <2> HIDE DEF p
  <2> QED  BY <2>1, <2>2, TrialsReads
<1>3. ASSUME NEW photos \in Photos \cup {NoPhotos}, Complete(h, photos)
      PROVE  TrialsInv'
  <2>1. PICK more \in BOOLEAN :
          Reads(h, [Announces("done", "TrialCompleted")
                      EXCEPT !.photos = IF photos = proofPhotos THEN Same ELSE photos,
                             !.pushes = @ \/ more,
                             !.completes = TRUE])
    BY <1>3 DEF Complete
  <2> DEFINE p == [Announces("done", "TrialCompleted")
                      EXCEPT !.photos = IF photos = proofPhotos THEN Same ELSE photos,
                             !.pushes = @ \/ more,
                             !.completes = TRUE]
  <2>2. p \in Plans /\ p.to = "done"
    BY DEF Change, Announces, Plans, Statuses, Settable, Events
  <2>3. trial = "in_progress" /\ Reads(h, p)
    BY <1>3, <2>1 DEF Complete
  <2> HIDE DEF p
  <2> QED  BY <2>2, <2>3, TrialsReads
<1> QED
  BY <1>1, <1>2, <1>3

LEMMA TrialsStep == TrialsInv /\ [TrialsNext]_trialsVars => TrialsInv'
<1> SUFFICES ASSUME TrialsInv, [TrialsNext]_trialsVars PROVE TrialsInv'
  OBVIOUS
<1>1. ASSUME NEW h \in Handlers, VersionError(h) \/ HandlerFails(h)
      PROVE  TrialsInv'
  BY <1>1, TrialsForget DEF VersionError, HandlerFails
<1>2. ASSUME NEW h \in Handlers, LogEarnings(h)
      PROVE  TrialsInv'
  <2>1. plan[h].completes
    BY <1>2 DEF LogEarnings, TrialsInv, Plausible
  <2> QED  BY <1>2, <2>1, TrialsForget DEF LogEarnings
<1>3. CASE UNCHANGED trialsVars
  BY <1>3 DEF trialsVars, documentOfTrial, TrialsInv, TrialsTypeOK, Plausible, PaidIsOver,
     DueIsOver, OneIsDue, EarnsOncePerStart, Over, Due, Pays
<1> QED
  BY <1>1, <1>2, <1>3, TrialsHandlers, TrialsRider, TrialsSave DEF TrialsNext

THEOREM TrialsInvariance == TrialsSpec => []TrialsInv
BY TrialsStart, TrialsStep, PTL DEF TrialsSpec

\* The trial, its executions and the earnings keep their types, for any number
\* of executions, photos and starts (models/TrialSession.js).
THEOREM TrialsTypeCorrect == TrialsSpec => []TrialsTypeOK
<1>1. TrialsInv => TrialsTypeOK
  BY DEF TrialsInv
<1> QED
  BY <1>1, TrialsInvariance, PTL

\* A rider earns at most once for a start by completions with new photos, for
\* any number of completions sent at once (riderTrialController.js:288-345).
THEOREM EarnsOncePerStartAlways == TrialsSpec => []EarnsOncePerStart
<1>1. TrialsInv => EarnsOncePerStart
  BY DEF TrialsInv
<1> QED
  BY <1>1, TrialsInvariance, PTL

----------------------------------------------------------------------------

(***************************************************************************)
(* Delivery tasks.  Every active task is one of three: the one that an     *)
(* execution under way activated last (its own), one left behind by an     *)
(* execution that ended without reconciling, or the settled one, of which  *)
(* there is one.  A reconciliation that has read the tasks read its own,   *)
(* read the settled one, and of two such reconciliations one read the      *)
(* other's: whichever cancels first leaves one of the tasks it compared.   *)
(***************************************************************************)
Attributed(own, left, settled) ==
  /\ own \in [Executions -> Tasks \cup {0}]
  /\ left \in SUBSET Tasks /\ Cardinality(left) <= leaks
  /\ \A x \in Executions : own[x] # 0 => activated[x]
  /\ \A t \in ActiveTasks : t \in left \/ t = settled \/ \E x \in Executions : own[x] = t
  /\ \A x \in Executions :
       job[x] = "tasks" /\ own[x] \in ActiveTasks =>
         /\ own[x] \in found[x]
         /\ settled \in ActiveTasks => settled \in found[x]
         /\ \A y \in Executions :
              job[y] = "tasks" /\ own[y] \in ActiveTasks => own[y] \in found[x] \/ own[x] \in found[y]

Attribution ==
  \E own \in [Executions -> Tasks \cup {0}], left \in SUBSET Tasks, settled \in Tasks \cup {0} :
    Attributed(own, left, settled)

\* What an execution holds at each position.
JobsFit ==
  \A x \in Executions :
    /\ activated[x] => job[x] \in {"created", "map", "tasks"}
    /\ job[x] = "accept" => kind[x] \in Riders
    /\ job[x] \in {"created", "status"} => mine[x] \in Tasks /\ state[mine[x]] # "none"
    /\ \A t \in found[x] : state[t] # "none"

DeliveriesInv == DeliveriesTypeOK /\ JobsFit /\ Attribution

LEMMA DeliveriesStart == DeliveriesInit => DeliveriesInv
<1> SUFFICES ASSUME DeliveriesInit PROVE DeliveriesInv
  OBVIOUS
<1> USE DeliveryConstants DEF DeliveriesInit
<1>1. DeliveriesTypeOK
  BY DEF DeliveriesTypeOK, Creators, Unread
<1>2. JobsFit
  BY DEF JobsFit
<1>3. Attributed([x \in Executions |-> 0], {}, 0)
  BY FS_EmptySet DEF Attributed, ActiveTasks
<1>4. Attribution
  BY <1>3 DEF Attribution
<1> QED  BY <1>1, <1>2, <1>4 DEF DeliveriesInv

\* A non-empty set of tasks has a newest one, its maximum.
LEMMA NewestTask ==
  ASSUME NEW S \in SUBSET Tasks, S # {}
  PROVE  Max(S) \in S
<1> DEFINE T == {n \in Nat : MaxTasks - n \in S}
           R == OpToRel(<, Nat)
<1>1. T \subseteq Nat /\ T # {}
  <2> PICK t \in S : TRUE
    OBVIOUS
  <2>1. t \in Nat /\ t <= MaxTasks /\ MaxTasks \in Nat
    BY DeliveryConstants DEF Tasks
  <2>2. MaxTasks - t \in Nat /\ MaxTasks - (MaxTasks - t) = t
    BY <2>1
  <2> QED  BY <2>2
<1>2. \E n \in T : \A m \in T : ~(<<m, n>> \in R)
  <2>1. IsWellFoundedOn(R, Nat)
    BY NatLessThanWellFounded
  <2> HIDE DEF T, R
  <2> QED  BY <1>1, <2>1, WFMin
<1>3. PICK n \in T : \A m \in T : ~(m < n)
  BY <1>1, <1>2 DEF OpToRel
<1>4. MaxTasks - n \in S
  OBVIOUS
<1>5. \A t \in S : MaxTasks - n >= t
  <2> SUFFICES ASSUME NEW t \in S PROVE MaxTasks - n >= t
    OBVIOUS
  <2>1. t \in Nat /\ t <= MaxTasks /\ MaxTasks \in Nat
    BY DeliveryConstants DEF Tasks
  <2>2. MaxTasks - t \in T
    BY <2>1
  <2> QED  BY <2>1, <2>2, <1>3
<1>6. \E k \in S : \A t \in S : k >= t
  BY <1>4, <1>5
<1> QED  BY <1>6 DEF Max

\* Attribution survives a step that activates no task and reconciles none.
LEMMA AttributionFewer ==
  ASSUME Attribution, ActiveTasks' \subseteq ActiveTasks,
         UNCHANGED <<activated, leaks>>,
         \A x \in Executions : job'[x] = "tasks" => job[x] = "tasks" /\ found'[x] = found[x]
  PROVE  Attribution'
<1>1. PICK own \in [Executions -> Tasks \cup {0}], left \in SUBSET Tasks, settled \in Tasks \cup {0} :
        Attributed(own, left, settled)
  BY DEF Attribution
<1>2. Attributed(own, left, settled)'
  BY <1>1 DEF Attributed
<1> QED  BY <1>2 DEF Attribution

\* An execution ends, and leaves behind the task it activated, if it did.
LEMMA AttributionEnds ==
  ASSUME DeliveriesTypeOK, Attribution, ActiveTasks' \subseteq ActiveTasks,
         NEW x \in Executions, NEW leaves \in BOOLEAN, Ends(x, leaves),
         activated[x] => leaves
  PROVE  Attribution'
<1>1. PICK own \in [Executions -> Tasks \cup {0}], left \in SUBSET Tasks, settled \in Tasks \cup {0} :
        Attributed(own, left, settled)
  BY DEF Attribution
<1> DEFINE owns == [own EXCEPT ![x] = 0]
           leavings == IF leaves THEN left \cup ({own[x]} \ {0}) ELSE left
<1>2. owns \in [Executions -> Tasks \cup {0}] /\ leavings \in SUBSET Tasks
  OBVIOUS
<1>3. Cardinality(leavings) <= leaks'
  <2>1. IsFiniteSet(left) /\ leaks \in Nat /\ Cardinality(left) <= leaks
    <3>1. IsFiniteSet(Tasks)
      BY DeliveryConstants, FS_Interval DEF Tasks
    <3> QED  BY <1>1, <3>1, FS_Subset DEF Attributed, DeliveriesTypeOK
  <2>2. Cardinality(left) \in Nat
    BY <2>1, FS_CardinalityType
  <2>3. (leaves => leaks' = leaks + 1) /\ (~leaves => leaks' = leaks)
    BY DEF Ends
  <2>4. (leavings = left /\ leaks' >= leaks) \/ (leavings = left \cup {own[x]} /\ leaks' = leaks + 1)
    <3>1. CASE leaves
      <4>1. leavings = IF own[x] = 0 THEN left ELSE left \cup {own[x]}
        BY <3>1
      <4> QED  BY <2>1, <2>3, <3>1, <4>1
    <3>2. CASE ~leaves
      <4>1. leavings = left
        BY <3>2
      <4> QED  BY <2>1, <2>3, <3>2, <4>1
    <3> QED  BY <3>1, <3>2
  <2>5. Cardinality(left \cup {own[x]}) <= Cardinality(left) + 1
    <3>1. Cardinality(left \cup {own[x]}) = IF own[x] \in left THEN Cardinality(left) ELSE Cardinality(left) + 1
      BY <2>1, FS_AddElement
    <3> QED  BY <2>2, <3>1
  <2>6. Cardinality(left \cup {own[x]}) \in Nat
    BY <2>1, FS_AddElement, FS_CardinalityType
  <2> HIDE DEF leavings
  <2>7. CASE leavings = left /\ leaks' >= leaks
    <3>1. Cardinality(leavings) <= leaks
      BY <2>1, <2>7
    <3>2. leaks' \in Int
      BY <2>1, <2>3
    <3>3. Cardinality(leavings) \in Nat
      BY <2>2, <2>7
    <3> QED  BY <2>1, <2>7, <3>1, <3>2, <3>3
  <2>8. CASE leavings = left \cup {own[x]} /\ leaks' = leaks + 1
    <3>1. Cardinality(leavings) <= Cardinality(left) + 1 /\ Cardinality(leavings) \in Nat
      BY <2>5, <2>6, <2>8
    <3> QED  BY <2>1, <2>2, <2>8, <3>1
  <2> QED  BY <2>4, <2>7, <2>8
<1>4. Attributed(owns, leavings, settled)'
  <2>1. \A y \in Executions : owns[y] # 0 => activated'[y]
    BY <1>1 DEF Ends, Attributed, DeliveriesTypeOK
  <2>2. \A t \in ActiveTasks' : t \in leavings \/ t = settled \/ \E y \in Executions : owns[y] = t
    <3>1. 0 \notin ActiveTasks
      BY DEF ActiveTasks, Tasks
    <3>2. own[x] # 0 => leaves
      BY <1>1 DEF Attributed
    <3> QED  BY <1>1, <3>1, <3>2 DEF Attributed
  <2>3. \A y \in Executions : job'[y] = "tasks" => y # x /\ job[y] = "tasks" /\ found'[y] = found[y]
    BY DEF Ends, To, DeliveriesTypeOK
  <2>4. \A y \in Executions : y # x => owns[y] = own[y]
    OBVIOUS
  <2>5. owns[x] = 0
    OBVIOUS
  <2> HIDE DEF owns, leavings
  <2> QED  BY <1>1, <1>2, <1>3, <2>1, <2>2, <2>3, <2>4, <2>5 DEF Attributed
<1> HIDE DEF owns, leavings
<1> QED  BY <1>2, <1>4 DEF Attribution

\* A task that an execution activates becomes its own, whoever's it was.
LEMMA AttributionActivates ==
  ASSUME DeliveriesTypeOK, Attribution, NEW x \in Executions, NEW t \in Tasks, ~activated[x],
         ActiveTasks' \subseteq ActiveTasks \cup {t},
         activated' = [activated EXCEPT ![x] = TRUE],
         UNCHANGED <<found, leaks>>, NEW s, s # "tasks", To(x, s)
  PROVE  Attribution'
<1>1. PICK own \in [Executions -> Tasks \cup {0}], left \in SUBSET Tasks, settled \in Tasks \cup {0} :
        Attributed(own, left, settled)
  BY DEF Attribution
<1> DEFINE owns == [y \in Executions |-> IF y = x THEN t ELSE IF own[y] = t THEN 0 ELSE own[y]]
           settles == IF settled = t THEN 0 ELSE settled
<1>2. owns \in [Executions -> Tasks \cup {0}] /\ settles \in Tasks \cup {0}
  OBVIOUS
<1>3. 0 \notin ActiveTasks /\ 0 \notin ActiveTasks' /\ t # 0
  BY DeliveryConstants DEF ActiveTasks, Tasks
<1>4. Attributed(owns, left, settles)'
  <2>1. \A y \in Executions : owns[y] # 0 => activated'[y]
    BY <1>1 DEF Attributed, DeliveriesTypeOK
  <2>2. \A u \in ActiveTasks' : u \in left \/ u = settles \/ \E y \in Executions : owns[y] = u
    <3> SUFFICES ASSUME NEW u \in ActiveTasks', u \notin left, u # settles
                 PROVE  \E y \in Executions : owns[y] = u
      OBVIOUS
    <3>1. CASE u = t
      BY <3>1
    <3>2. CASE u # t
      <4>1. u \in ActiveTasks /\ u # settled
        BY <1>3, <3>2
      <4>2. PICK y \in Executions : own[y] = u
        BY <1>1, <4>1 DEF Attributed
      <4>3. y # x
        BY <1>1, <1>3, <4>1, <4>2 DEF Attributed
      <4> QED  BY <3>2, <4>2, <4>3
    <3> QED  BY <3>1, <3>2
  <2>3. \A y \in Executions :
          job'[y] = "tasks" => y # x /\ job[y] = "tasks" /\ found'[y] = found[y]
    BY DEF To, DeliveriesTypeOK
  <2>4. \A y \in Executions :
          y # x /\ owns[y] \in ActiveTasks' => owns[y] = own[y] /\ own[y] \in ActiveTasks
    BY <1>3
  <2>5. settles \in ActiveTasks' => settles = settled /\ settled \in ActiveTasks
    BY <1>3
  <2> HIDE DEF owns, settles
  <2> QED  BY <1>1, <1>2, <2>1, <2>2, <2>3, <2>4, <2>5 DEF Attributed
<1> HIDE DEF owns, settles
<1> QED  BY <1>2, <1>4 DEF Attribution

\* A reconciliation reads every task that is active.
LEMMA AttributionReads ==
  ASSUME DeliveriesTypeOK, Attribution, NEW x \in Executions, MapTasks(x)
  PROVE  Attribution'
<1>1. PICK own \in [Executions -> Tasks \cup {0}], left \in SUBSET Tasks, settled \in Tasks \cup {0} :
        Attributed(own, left, settled)
  BY DEF Attribution
<1>2. ActiveTasks' = ActiveTasks /\ UNCHANGED <<activated, leaks>> /\ found'[x] = ActiveTasks
  BY DEF MapTasks, taskVars, ActiveTasks, DeliveriesTypeOK
<1>3. \A y \in Executions : y # x => job'[y] = job[y] /\ found'[y] = found[y]
  BY DEF MapTasks, To, DeliveriesTypeOK
<1>4. Attributed(own, left, settled)'
  BY <1>1, <1>2, <1>3 DEF Attributed
<1> QED  BY <1>4 DEF Attribution

\* Of the tasks that a reconciliation read, one stays active.
LEMMA AttributionCancels ==
  ASSUME DeliveriesTypeOK, Attribution, NEW x \in Executions, MapCancel(x)
  PROVE  Attribution'
<1>1. PICK own \in [Executions -> Tasks \cup {0}], left \in SUBSET Tasks, settled \in Tasks \cup {0} :
        Attributed(own, left, settled)
  BY DEF Attribution
<1> DEFINE owns == [own EXCEPT ![x] = 0]
<1> PICK settles : settles = IF own[x] \in ActiveTasks' THEN own[x] ELSE settled
  OBVIOUS
<1>2. owns \in [Executions -> Tasks \cup {0}] /\ settles \in Tasks \cup {0}
  OBVIOUS
<1>3. 0 \notin ActiveTasks /\ 0 \notin ActiveTasks'
  BY DEF ActiveTasks, Tasks
<1>4. ActiveTasks' \subseteq ActiveTasks
      /\ \A t, u \in ActiveTasks' : t \in found[x] /\ u \in found[x] => t = u
  BY DEF MapCancel, Cancels, ActiveTasks, DeliveriesTypeOK
<1>5. \A y \in Executions : job'[y] = "tasks" => y # x /\ job[y] = "tasks" /\ found'[y] = found[y]
  BY DEF MapCancel, To, DeliveriesTypeOK
<1>6. leaks' = leaks /\ job[x] = "tasks"
  BY DEF MapCancel
<1>7. Attributed(owns, left, settles)'
  <2>1. \A y \in Executions : owns[y] # 0 => activated'[y]
    BY <1>1 DEF MapCancel, Attributed, DeliveriesTypeOK
  <2>2. \A t \in ActiveTasks' : t \in left \/ t = settles \/ \E y \in Executions : owns[y] = t
    BY <1>1, <1>3, <1>4, <1>6 DEF Attributed
  <2>3. ASSUME NEW y \in Executions, job'[y] = "tasks", owns[y] \in ActiveTasks'
        PROVE  /\ y # x /\ own[y] = owns[y] /\ own[y] \in found[y] /\ found'[y] = found[y]
               /\ settles \in ActiveTasks' => settles \in found[y]
    <3>1. y # x /\ own[y] = owns[y] /\ own[y] \in ActiveTasks /\ job[y] = "tasks" /\ found'[y] = found[y]
      BY <1>3, <1>4, <1>5, <2>3
    <3>2. own[y] \in found[y]
      BY <1>1, <3>1 DEF Attributed
    <3>3. CASE own[x] \in ActiveTasks'
      <4>1. own[x] \in found[x] /\ (own[x] \in found[y] \/ own[y] \in found[x])
        BY <1>1, <1>4, <1>6, <3>1, <3>3 DEF Attributed
      <4>2. own[x] \in found[y]
        BY <1>4, <2>3, <3>1, <3>2, <3>3, <4>1
      <4> QED  BY <3>1, <3>2, <3>3, <4>2
    <3>4. CASE own[x] \notin ActiveTasks'
      BY <1>1, <1>4, <3>1, <3>2, <3>4 DEF Attributed
    <3> QED  BY <3>3, <3>4
  <2>4. ASSUME NEW y \in Executions, NEW z \in Executions,
               job'[y] = "tasks", owns[y] \in ActiveTasks', job'[z] = "tasks", owns[z] \in ActiveTasks'
        PROVE  owns[z] \in found'[y] \/ owns[y] \in found'[z]
    BY <1>1, <1>4, <1>5, <2>3, <2>4 DEF Attributed
  <2> HIDE DEF owns
  <2> QED  BY <1>1, <1>2, <1>6, <2>1, <2>2, <2>3, <2>4 DEF Attributed
<1> HIDE DEF owns
<1> QED  BY <1>2, <1>7 DEF Attribution

\* The positions and copies stay sound in a step of the execution x, which
\* moves to s, when no task disappears.
LEMMA DeliveriesReads ==
  ASSUME DeliveriesInv, NEW x \in Executions,
         \/ \E k \in Creators : ReadOrder(x, k)
         \/ \E r \in Riders : AcceptRead(x, r)
         \/ \E t \in Tasks : StatusRead(x, t)
         \/ \E t \in Tasks \cup {0} : ReassignRead(x, t)
         \/ (\E r \in Riders : RetryDispatch(x, r)) \/ Sweep(x) \/ MapOrder(x)
  PROVE  DeliveriesInv'
<1>1. UNCHANGED <<state, taskRider, orderRider, activated, leaks>>
  BY DEF ReadOrder, AcceptRead, StatusRead, ReassignRead, RetryDispatch, Sweep, MapOrder, Reconciles, taskVars
<1>2. DeliveriesTypeOK'
  <2>1. job' \in [Executions -> {"idle", "ordered", "checked", "created", "accept", "status",
                                 "reassign", "map", "tasks", "align"}]
    BY DEF DeliveriesInv, DeliveriesTypeOK, ReadOrder, AcceptRead, StatusRead, ReassignRead, RetryDispatch,
       Sweep, MapOrder, Reconciles, To
  <2>2. kind' \in [Executions -> Creators \cup {"sweep"} \cup Riders]
    BY DEF DeliveriesInv, DeliveriesTypeOK, ReadOrder, AcceptRead, StatusRead, ReassignRead, RetryDispatch,
       Sweep, MapOrder, Reconciles, Creators
  <2>3. orderCopy' \in [Executions -> Riders \cup {NoRider}]
    BY DEF DeliveriesInv, DeliveriesTypeOK, ReadOrder, AcceptRead, StatusRead, ReassignRead, RetryDispatch,
       Sweep, MapOrder, Reconciles
  <2>4. mine' \in [Executions -> 0 .. MaxTasks]
    BY DeliveryConstants DEF DeliveriesInv, DeliveriesTypeOK, ReadOrder, AcceptRead, StatusRead, ReassignRead, RetryDispatch,
       Sweep, MapOrder, Reconciles, Tasks
  <2>5. mapped' \in [Executions -> Riders \cup {NoRider, Unread}]
    BY DEF DeliveriesInv, DeliveriesTypeOK, ReadOrder, AcceptRead, StatusRead, ReassignRead, RetryDispatch,
       Sweep, MapOrder, Reconciles
  <2>6. found' \in [Executions -> SUBSET Tasks]
    BY DEF DeliveriesInv, DeliveriesTypeOK, ReadOrder, AcceptRead, StatusRead, ReassignRead, RetryDispatch,
       Sweep, MapOrder, Reconciles, ActiveTasks
  <2> QED  BY <1>1, <2>1, <2>2, <2>3, <2>4, <2>5, <2>6 DEF DeliveriesInv, DeliveriesTypeOK
<1>3. JobsFit'
  <2> SUFFICES ASSUME NEW y \in Executions
               PROVE  /\ activated'[y] => job'[y] \in {"created", "map", "tasks"}
                      /\ job'[y] = "accept" => kind'[y] \in Riders
                      /\ job'[y] \in {"created", "status"} => mine'[y] \in Tasks /\ state'[mine'[y]] # "none"
                      /\ \A t \in found'[y] : state'[t] # "none"
    BY DEF JobsFit
  <2> USE DEF DeliveriesInv, DeliveriesTypeOK, JobsFit, To, Reconciles
  <2>1. CASE \E k \in Creators : ReadOrder(x, k)
    BY <1>1, <2>1 DEF ReadOrder
  <2>2. CASE \E r \in Riders : AcceptRead(x, r)
    BY <1>1, <2>2 DEF AcceptRead
  <2>3. CASE \E t \in Tasks : StatusRead(x, t)
    BY <1>1, <2>3 DEF StatusRead
  <2>4. CASE \E t \in Tasks \cup {0} : ReassignRead(x, t)
    BY <1>1, <2>4 DEF ReassignRead, ReadOrder, ActiveTasks
  <2>5. CASE (\E r \in Riders : RetryDispatch(x, r)) \/ Sweep(x) \/ MapOrder(x)
    BY <1>1, <2>5 DEF RetryDispatch, Sweep, MapOrder
  <2> QED  BY <2>1, <2>2, <2>3, <2>4, <2>5
<1>4. Attribution'
  <2>1. ActiveTasks' = ActiveTasks
    BY <1>1 DEF ActiveTasks
  <2>2. \A y \in Executions : job'[y] = "tasks" => job[y] = "tasks" /\ found'[y] = found[y]
    BY DEF DeliveriesInv, DeliveriesTypeOK, ReadOrder, AcceptRead, StatusRead, ReassignRead, RetryDispatch,
       Sweep, MapOrder, Reconciles, To
  <2> QED  BY <1>1, <2>1, <2>2, AttributionFewer DEF DeliveriesInv
<1> QED  BY <1>2, <1>3, <1>4 DEF DeliveriesInv

\* An execution ends, with a save or without.
LEMMA DeliveriesEnds ==
  ASSUME DeliveriesInv, NEW x \in Executions, NEW leaves \in BOOLEAN, Ends(x, leaves),
         activated[x] => leaves,
         UNCHANGED taskRider, orderRider' \in Riders \cup {NoRider},
         state' \in [Tasks -> {"none", "active", "closed"}],
         \A t \in Tasks : (state'[t] = "none" <=> state[t] = "none") /\ (state'[t] = "active" => state[t] = "active")
  PROVE  DeliveriesInv'
<1>1. DeliveriesTypeOK'
  <2>1. leaks' \in 0 .. MaxLeaks
    BY DeliveryConstants DEF DeliveriesInv, DeliveriesTypeOK, Ends
  <2>2. /\ job' \in [Executions -> {"idle", "ordered", "checked", "created", "accept", "status",
                                    "reassign", "map", "tasks", "align"}]
        /\ kind' \in [Executions -> Creators \cup {"sweep"} \cup Riders]
        /\ orderCopy' \in [Executions -> Riders \cup {NoRider}]
        /\ mine' \in [Executions -> 0 .. MaxTasks]
        /\ mapped' \in [Executions -> Riders \cup {NoRider, Unread}]
        /\ found' \in [Executions -> SUBSET Tasks]
        /\ activated' \in [Executions -> BOOLEAN]
    BY DeliveryConstants DEF DeliveriesInv, DeliveriesTypeOK, Ends, To
  <2>3. \A t \in Tasks : state'[t] # "none" => taskRider'[t] \in Riders
    BY DEF DeliveriesInv, DeliveriesTypeOK
  <2> QED  BY <2>1, <2>2, <2>3 DEF DeliveriesInv, DeliveriesTypeOK
<1>2. JobsFit'
  <2> SUFFICES ASSUME NEW y \in Executions
               PROVE  /\ activated'[y] => job'[y] \in {"created", "map", "tasks"}
                      /\ job'[y] = "accept" => kind'[y] \in Riders
                      /\ job'[y] \in {"created", "status"} => mine'[y] \in Tasks /\ state'[mine'[y]] # "none"
                      /\ \A t \in found'[y] : state'[t] # "none"
    BY DEF JobsFit
  <2>1. CASE y = x
    BY <2>1 DEF Ends, To, DeliveriesInv, DeliveriesTypeOK
  <2>2. CASE y # x
    <3>1. /\ activated'[y] = activated[y] /\ job'[y] = job[y] /\ kind'[y] = kind[y]
          /\ mine'[y] = mine[y] /\ found'[y] = found[y]
      BY <2>2 DEF Ends, To, DeliveriesInv, DeliveriesTypeOK
    <3> QED  BY <3>1 DEF JobsFit, DeliveriesInv, DeliveriesTypeOK
  <2> QED  BY <2>1, <2>2
<1>3. ActiveTasks' \subseteq ActiveTasks
  BY DEF ActiveTasks
<1> QED  BY <1>1, <1>2, <1>3, AttributionEnds DEF DeliveriesInv

\* The order's rider remains a rider or nobody.
LEMMA RiderIsSaved ==
  ASSUME DeliveriesTypeOK, NEW x \in Executions, NEW r \in Riders, SavesRider(x, r)
  PROVE  orderRider' \in Riders \cup {NoRider}
BY DEF SavesRider, DeliveriesTypeOK

LEMMA DeliveriesSaves ==
  ASSUME DeliveriesInv, NEW x \in Executions,
         CheckActive(x) \/ SaveOrder(x) \/ AcceptSave(x) \/ ReassignCancel(x) \/ MapAlign(x) \/ ExecutionFails(x)
  PROVE  DeliveriesInv'
<1> USE DEF DeliveriesInv
<1>1. CASE CheckActive(x)
  <2>1. CASE Ends(x, FALSE)
    <3>1. ~activated[x]
      BY <1>1 DEF CheckActive, JobsFit
    <3>2. UNCHANGED <<state, taskRider, orderRider>>
      BY <1>1 DEF CheckActive, taskVars
    <3> QED  BY <2>1, <3>1, <3>2, DeliveriesEnds DEF DeliveriesTypeOK
  <2>2. CASE To(x, "checked") /\ UNCHANGED <<kind, orderCopy, mine, mapped, found, activated, leaks>>
    <3>1. UNCHANGED <<state, taskRider, orderRider>> /\ job[x] = "ordered"
      BY <1>1 DEF CheckActive, taskVars
    <3>2. DeliveriesTypeOK'
      BY <2>2, <3>1 DEF DeliveriesTypeOK, To
    <3>3. JobsFit'
      BY <2>2, <3>1 DEF DeliveriesTypeOK, JobsFit, To
    <3>4. ActiveTasks' = ActiveTasks
      BY <3>1 DEF ActiveTasks
    <3>5. \A y \in Executions : job'[y] = "tasks" => job[y] = "tasks" /\ found'[y] = found[y]
      BY <2>2 DEF DeliveriesTypeOK, To
    <3> QED  BY <2>2, <3>2, <3>3, <3>4, <3>5, AttributionFewer
  <2> QED  BY <1>1, <2>1, <2>2 DEF CheckActive
<1>2. CASE SaveOrder(x)
  <2>1. UNCHANGED <<state, taskRider>> /\ job[x] = "created"
    BY <1>2 DEF SaveOrder, taskVars
  <2>2. taskRider[mine[x]] \in Riders
    BY <2>1 DEF JobsFit, DeliveriesTypeOK
  <2>3. orderRider' \in Riders \cup {NoRider}
    BY <1>2, <2>2, RiderIsSaved DEF SaveOrder
  <2>4. CASE Ends(x, TRUE)
    BY <2>1, <2>3, <2>4, DeliveriesEnds DEF DeliveriesTypeOK
  <2>5. CASE Reconciles(x) /\ UNCHANGED <<activated, leaks>>
    <3>1. DeliveriesTypeOK'
      BY DeliveryConstants, <2>1, <2>3, <2>5 DEF DeliveriesTypeOK, Reconciles, To
    <3>2. JobsFit'
      BY <2>1, <2>5 DEF DeliveriesTypeOK, JobsFit, Reconciles, To
    <3>3. ActiveTasks' = ActiveTasks
      BY <2>1 DEF ActiveTasks
    <3>4. \A y \in Executions : job'[y] = "tasks" => job[y] = "tasks" /\ found'[y] = found[y]
      BY <2>5 DEF DeliveriesTypeOK, Reconciles, To
    <3> QED  BY <2>5, <3>1, <3>2, <3>3, <3>4, AttributionFewer
  <2> QED  BY <1>2, <2>4, <2>5 DEF SaveOrder
<1>3. CASE AcceptSave(x)
  <2>1. UNCHANGED <<state, taskRider>> /\ job[x] = "accept" /\ Ends(x, FALSE)
    BY <1>3 DEF AcceptSave, taskVars
  <2>2. ~activated[x] /\ kind[x] \in Riders
    BY <2>1 DEF JobsFit
  <2>3. orderRider' \in Riders \cup {NoRider}
    BY <1>3, <2>2, RiderIsSaved DEF AcceptSave
  <2> QED  BY <2>1, <2>2, <2>3, DeliveriesEnds DEF DeliveriesTypeOK
<1>4. CASE ReassignCancel(x)
  <2>1. ~activated[x] /\ Ends(x, FALSE) /\ UNCHANGED <<taskRider, orderRider>>
    BY <1>4 DEF ReassignCancel, JobsFit
  <2>2. state' = [t \in Tasks |-> IF t \in found[x] THEN "closed" ELSE state[t]]
    BY <1>4 DEF ReassignCancel, Cancels
  <2>3. \A t \in found[x] : state[t] # "none"
    BY DEF JobsFit
  <2>4. \A t \in Tasks : (state'[t] = "none" <=> state[t] = "none") /\ (state'[t] = "active" => state[t] = "active")
    BY <2>2, <2>3
  <2>5. state' \in [Tasks -> {"none", "active", "closed"}] /\ orderRider' \in Riders \cup {NoRider}
    BY <2>1, <2>2 DEF DeliveriesTypeOK
  <2> QED  BY <2>1, <2>4, <2>5, DeliveriesEnds
<1>5. CASE MapAlign(x)
  <2>1. UNCHANGED <<state, taskRider>> /\ Ends(x, FALSE) /\ ~activated[x]
    BY <1>5 DEF MapAlign, taskVars, JobsFit
  <2>2. found[x] # {} => taskRider[Keep(x)] \in Riders \cup {NoRider}
    BY NewestTask DEF Keep, DeliveriesTypeOK
  <2>3. orderRider' \in Riders \cup {NoRider}
    BY <1>5, <2>2 DEF MapAlign, DeliveriesTypeOK
  <2> QED  BY <2>1, <2>3, DeliveriesEnds DEF DeliveriesTypeOK
<1>6. CASE ExecutionFails(x)
  <2>1. UNCHANGED <<state, taskRider, orderRider>> /\ Ends(x, activated[x]) /\ activated[x] \in BOOLEAN
    BY <1>6 DEF ExecutionFails, taskVars, DeliveriesTypeOK
  <2> QED  BY <2>1, DeliveriesEnds DEF DeliveriesTypeOK
<1> QED  BY <1>1, <1>2, <1>3, <1>4, <1>5, <1>6

\* An execution activates a task, new or old, and goes on.
LEMMA DeliveriesActivates ==
  ASSUME DeliveriesInv, NEW x \in Executions, NEW t \in Tasks, ~activated[x],
         state' = [state EXCEPT ![t] = "active"],
         activated' = [activated EXCEPT ![x] = TRUE],
         NEW s \in {"created", "map"}, To(x, s),
         taskRider' \in [Tasks -> Riders \cup {NoRider}],
         \A u \in Tasks : (u = t \/ taskRider'[u] = taskRider[u]) /\ taskRider'[t] \in Riders,
         orderRider' \in Riders \cup {NoRider},
         kind' = kind \/ kind' = [kind EXCEPT ![x] = "sweep"],
         orderCopy' = orderCopy \/ orderCopy' = [orderCopy EXCEPT ![x] = NoRider],
         mine' = [mine EXCEPT ![x] = t] \/ (s = "map" /\ mine' = [mine EXCEPT ![x] = 0]),
         UNCHANGED <<mapped, found, leaks>>
  PROVE  DeliveriesInv'
<1> USE DEF DeliveriesInv
<1>1. DeliveriesTypeOK'
  <2>1. /\ state' \in [Tasks -> {"none", "active", "closed"}]
        /\ \A u \in Tasks : state'[u] # "none" => taskRider'[u] \in Riders
    BY DEF DeliveriesTypeOK
  <2>2. /\ job' \in [Executions -> {"idle", "ordered", "checked", "created", "accept", "status",
                                    "reassign", "map", "tasks", "align"}]
        /\ kind' \in [Executions -> Creators \cup {"sweep"} \cup Riders]
        /\ orderCopy' \in [Executions -> Riders \cup {NoRider}]
        /\ activated' \in [Executions -> BOOLEAN]
    BY DEF DeliveriesTypeOK, To
  <2>3. mine' \in [Executions -> 0 .. MaxTasks]
    <3>1. t \in 0 .. MaxTasks /\ 0 \in 0 .. MaxTasks
      BY DeliveryConstants DEF Tasks
    <3> QED  BY <3>1 DEF DeliveriesTypeOK
  <2> QED  BY <2>1, <2>2, <2>3 DEF DeliveriesTypeOK
<1>2. JobsFit'
  <2> SUFFICES ASSUME NEW y \in Executions
               PROVE  /\ activated'[y] => job'[y] \in {"created", "map", "tasks"}
                      /\ job'[y] = "accept" => kind'[y] \in Riders
                      /\ job'[y] \in {"created", "status"} => mine'[y] \in Tasks /\ state'[mine'[y]] # "none"
                      /\ \A u \in found'[y] : state'[u] # "none"
    BY DEF JobsFit
  <2>1. \A u \in Tasks : state'[u] = "none" => state[u] = "none"
    BY DEF DeliveriesTypeOK
  <2>2. \A u \in found'[y] : state'[u] # "none"
    BY <2>1 DEF JobsFit, DeliveriesTypeOK
  <2>3. CASE y = x
    BY <2>2, <2>3 DEF To, DeliveriesTypeOK
  <2>4. CASE y # x
    <3>1. job'[y] = job[y] /\ activated'[y] = activated[y] /\ mine'[y] = mine[y] /\ kind'[y] = kind[y]
      BY <2>4 DEF To, DeliveriesTypeOK
    <3> QED  BY <2>1, <2>2, <3>1 DEF JobsFit
  <2> QED  BY <2>3, <2>4
<1>3. ActiveTasks' \subseteq ActiveTasks \cup {t}
  BY DEF ActiveTasks, DeliveriesTypeOK
<1> QED  BY <1>1, <1>2, <1>3, AttributionActivates

LEMMA DeliveriesCreates ==
  ASSUME DeliveriesInv, NEW x \in Executions, NEW t \in Tasks, NEW r \in Riders,
         CreateTask(x, t, r) \/ CommitDispatch(x, t, r)
  PROVE  DeliveriesInv'
<1>1. ~activated[x] /\ Inserts(x, t, r) /\ taskRider' = [taskRider EXCEPT ![t] = r]
  BY DEF CreateTask, CommitDispatch, Inserts, DeliveriesInv, JobsFit
<1>2. /\ taskRider' \in [Tasks -> Riders \cup {NoRider}]
      /\ \A u \in Tasks : (u = t \/ taskRider'[u] = taskRider[u]) /\ taskRider'[t] \in Riders
  BY <1>1 DEF DeliveriesInv, DeliveriesTypeOK
<1>3. CASE CreateTask(x, t, r)
  BY <1>1, <1>2, <1>3, DeliveriesActivates DEF CreateTask, Inserts, DeliveriesInv, DeliveriesTypeOK
<1>4. CASE CommitDispatch(x, t, r)
  <2>1. orderRider' \in Riders \cup {NoRider}
    BY <1>4, RiderIsSaved DEF CommitDispatch, DeliveriesInv
  <2> QED  BY <1>1, <1>2, <1>4, <2>1, DeliveriesActivates DEF CommitDispatch, Inserts, Reconciles
<1> QED  BY <1>3, <1>4

LEMMA DeliveriesStatus ==
  ASSUME DeliveriesInv, NEW x \in Executions, StatusSave(x)
  PROVE  DeliveriesInv'
<1> USE DEF DeliveriesInv
<1> DEFINE t == mine[x]
<1>1. PICK s \in {"active", "closed", state[t]} :
        /\ state' = [state EXCEPT ![t] = s]
        /\ activated' = [activated EXCEPT ![x] = s = "active" /\ state[t] # "active"]
  BY DEF StatusSave
<1>2. t \in Tasks /\ state[t] \in {"active", "closed"} /\ taskRider[t] \in Riders /\ ~activated[x]
  BY DEF StatusSave, JobsFit, DeliveriesTypeOK
<1>3. UNCHANGED <<taskRider, orderRider, mapped, found, leaks>> /\ Reconciles(x)
  BY DEF StatusSave, Reconciles
<1> HIDE DEF t
<1>4. CASE s = "active" /\ state[t] # "active"
  BY <1>1, <1>2, <1>3, <1>4, DeliveriesActivates DEF Reconciles, DeliveriesTypeOK
<1>5. CASE ~(s = "active" /\ state[t] # "active")
  <2>1. activated' = activated
    BY <1>1, <1>2, <1>5 DEF DeliveriesTypeOK
  <2>2. /\ state' \in [Tasks -> {"none", "active", "closed"}]
        /\ \A u \in Tasks : (state'[u] = "none" <=> state[u] = "none") /\ (state'[u] = "active" => state[u] = "active")
    BY <1>1, <1>2, <1>5 DEF DeliveriesTypeOK
  <2>3. DeliveriesTypeOK'
    BY DeliveryConstants, <1>3, <2>1, <2>2 DEF DeliveriesTypeOK, Reconciles, To
  <2>4. JobsFit'
    BY <1>3, <2>1, <2>2 DEF DeliveriesTypeOK, JobsFit, Reconciles, To
  <2>5. ActiveTasks' \subseteq ActiveTasks
    BY <2>2 DEF ActiveTasks
  <2>6. \A y \in Executions : job'[y] = "tasks" => job[y] = "tasks" /\ found'[y] = found[y]
    BY <1>3 DEF DeliveriesTypeOK, Reconciles, To
  <2> QED  BY <1>3, <2>1, <2>3, <2>4, <2>5, <2>6, AttributionFewer
<1> QED  BY <1>4, <1>5

LEMMA DeliveriesReconciles ==
  ASSUME DeliveriesInv, NEW x \in Executions, MapTasks(x) \/ MapCancel(x)
  PROVE  DeliveriesInv'
<1> USE DEF DeliveriesInv
<1>1. CASE MapTasks(x)
  <2>1. ActiveTasks \subseteq Tasks /\ \A t \in ActiveTasks : state[t] # "none"
    BY DEF ActiveTasks
  <2>2. UNCHANGED <<state, taskRider, orderRider, kind, orderCopy, mine, mapped, activated, leaks>>
    BY <1>1 DEF MapTasks, taskVars
  <2>3. DeliveriesTypeOK'
    BY <1>1, <2>1, <2>2 DEF MapTasks, DeliveriesTypeOK, To
  <2>4. JobsFit'
    BY <1>1, <2>1, <2>2 DEF MapTasks, DeliveriesTypeOK, JobsFit, To
  <2> QED  BY <1>1, <2>3, <2>4, AttributionReads
<1>2. CASE MapCancel(x)
  <2>1. UNCHANGED <<taskRider, orderRider, kind, orderCopy, mine, mapped, found, leaks>>
    BY <1>2 DEF MapCancel
  <2>2. /\ state' \in [Tasks -> {"none", "active", "closed"}]
        /\ \A t \in Tasks : state'[t] = "none" <=> state[t] = "none"
    BY <1>2 DEF MapCancel, Cancels, JobsFit, DeliveriesTypeOK
  <2>3. DeliveriesTypeOK'
    BY <1>2, <2>1, <2>2 DEF MapCancel, DeliveriesTypeOK, To
  <2>4. JobsFit'
    BY <1>2, <2>1, <2>2 DEF MapCancel, DeliveriesTypeOK, JobsFit, To
  <2> QED  BY <1>2, <2>3, <2>4, AttributionCancels
<1> QED  BY <1>1, <1>2

\* Cancelling the order closes its tasks under every execution.
LEMMA DeliveriesCancelled ==
  ASSUME DeliveriesInv, CancelOrder
  PROVE  DeliveriesInv'
<1> USE DEF DeliveriesInv
<1>1. UNCHANGED <<taskRider, orderRider, job, kind, orderCopy, mine, mapped, found, activated, leaks>>
  BY DEF CancelOrder, jobVars
<1>2. /\ state' \in [Tasks -> {"none", "active", "closed"}]
      /\ \A t \in Tasks : (state'[t] = "none" <=> state[t] = "none") /\ state'[t] # "active"
  BY DEF CancelOrder, DeliveriesTypeOK
<1>3. DeliveriesTypeOK'
  BY <1>1, <1>2 DEF DeliveriesTypeOK
<1>4. JobsFit'
  BY <1>1, <1>2 DEF JobsFit, DeliveriesTypeOK
<1>5. ActiveTasks' \subseteq ActiveTasks
  BY <1>2 DEF ActiveTasks
<1> QED  BY <1>1, <1>3, <1>4, <1>5, AttributionFewer

\* The inductive invariant of the delivery tasks.
THEOREM DeliveriesInvariance == DeliveriesSpec => []DeliveriesInv
<1>1. DeliveriesInv /\ [DeliveriesNext]_deliveryVars => DeliveriesInv'
  <2> SUFFICES ASSUME DeliveriesInv, [DeliveriesNext]_deliveryVars PROVE DeliveriesInv'
    OBVIOUS
  <2>1. CASE UNCHANGED deliveryVars
    BY <2>1 DEF deliveryVars, taskVars, jobVars, DeliveriesInv, DeliveriesTypeOK, JobsFit,
       Attribution, Attributed, ActiveTasks
  <2>2. CASE DeliveriesNext
    BY <2>2, DeliveriesReads, DeliveriesSaves, DeliveriesCreates, DeliveriesStatus,
       DeliveriesReconciles, DeliveriesCancelled DEF DeliveriesNext
  <2> QED  BY <2>1, <2>2
<1> QED  BY <1>1, DeliveriesStart, PTL DEF DeliveriesSpec

\* Tasks, the order's rider and the memory of every execution keep their
\* types, for any number of executions, riders and tasks; a task that exists
\* has a rider (services/dispatchEngineService.js).
THEOREM DeliveriesTypeCorrect == DeliveriesSpec => []DeliveriesTypeOK
<1>1. DeliveriesInv => DeliveriesTypeOK
  BY DEF DeliveriesInv
<1> QED  BY <1>1, DeliveriesInvariance, PTL

\* The tasks that are attributed can be counted.
LEMMA AttributionCounts == DeliveriesTypeOK /\ Attribution => OneActiveTask
<1> SUFFICES ASSUME DeliveriesTypeOK, Attribution PROVE OneActiveTask
  OBVIOUS
<1>1. PICK own \in [Executions -> Tasks \cup {0}], left \in SUBSET Tasks, settled \in Tasks \cup {0} :
        Attributed(own, left, settled)
  BY DEF Attribution
<1> DEFINE A == {x \in Executions : activated[x]}
           B == {own[x] : x \in A}
           C == left \cup B
           f == [x \in A |-> own[x]]
<1>2. IsFiniteSet(A) /\ IsFiniteSet(left)
  <2>1. IsFiniteSet(Tasks)
    BY DeliveryConstants, FS_Interval DEF Tasks
  <2> QED  BY <2>1, DeliveryConstants, FS_Subset
<1>3. IsFiniteSet(B) /\ Cardinality(B) <= Cardinality(A)
  <2>1. f \in Surjection(A, B)
    BY DEF Surjection
  <2> HIDE DEF A, B, f
  <2> QED  BY <1>2, <2>1, FS_Surjection
<1>4. IsFiniteSet(C) /\ Cardinality(C) <= Cardinality(left) + Cardinality(B)
  <2> HIDE DEF B
  <2>1. IsFiniteSet(C) /\ Cardinality(C) = Cardinality(left) + Cardinality(B) - Cardinality(left \cap B)
    BY <1>2, <1>3, FS_Union
  <2>2. Cardinality(left \cap B) \in Nat /\ Cardinality(left) \in Nat /\ Cardinality(B) \in Nat
    BY <1>2, <1>3, FS_Intersection, FS_CardinalityType
  <2> QED  BY <2>1, <2>2
<1>5. IsFiniteSet(C \cup {settled}) /\ Cardinality(C \cup {settled}) <= Cardinality(C) + 1
  <2> HIDE DEF C
  <2>1. Cardinality(C) \in Nat
    BY <1>4, FS_CardinalityType
  <2>2. /\ IsFiniteSet(C \cup {settled})
        /\ Cardinality(C \cup {settled}) = IF settled \in C THEN Cardinality(C) ELSE Cardinality(C) + 1
    BY <1>4, FS_AddElement
  <2> QED  BY <2>1, <2>2
<1>6. ActiveTasks \subseteq C \cup {settled}
  <2>1. 0 \notin ActiveTasks
    BY DEF ActiveTasks, Tasks
  <2> QED  BY <1>1, <2>1 DEF Attributed
<1>7. Cardinality(ActiveTasks) <= Cardinality(C \cup {settled})
  <2> HIDE DEF C
  <2> QED  BY <1>5, <1>6, FS_Subset
<1>8. /\ Cardinality(ActiveTasks) \in Nat /\ Cardinality(C \cup {settled}) \in Nat /\ Cardinality(C) \in Nat
      /\ Cardinality(left) \in Nat /\ Cardinality(B) \in Nat /\ Cardinality(A) \in Nat
  <2>1. IsFiniteSet(ActiveTasks)
    BY <1>5, <1>6, FS_Subset
  <2> HIDE DEF A, B, C
  <2> QED  BY <1>2, <1>3, <1>4, <1>5, <2>1, FS_CardinalityType
<1>9. Cardinality(left) <= leaks /\ leaks \in Nat
  BY <1>1, DeliveryConstants DEF Attributed, DeliveriesTypeOK
<1>10. Cardinality(ActiveTasks) <= 1 + Cardinality(A) + leaks
  <2> HIDE DEF A, B, C
  <2> QED  BY <1>3, <1>4, <1>5, <1>7, <1>8, <1>9
<1> QED  BY <1>10 DEF OneActiveTask

\* An order has at most one active task besides those just activated and those
\* left by executions that ended without reconciling, for any number of
\* executions and tasks (ensureEntityMappings of services/dispatchEngineService.js).
THEOREM OneActiveTaskAlways == DeliveriesSpec => []OneActiveTask
<1>1. DeliveriesInv => OneActiveTask
  BY AttributionCounts DEF DeliveriesInv
<1> QED  BY <1>1, DeliveriesInvariance, PTL
=============================================================================
