------------------------------ MODULE Invoices ------------------------------
(***************************************************************************)
(* The invoice of an order.  Confirming an order adds a row to a queue in  *)
(* Mongo and a job to one in Redis; each has its workers, and the customer *)
(* or an admin may generate it by hand, so several executions of           *)
(* createInvoiceForOrder race.  Invoice.orderId is unique: one insertion   *)
(* wins, and the others have wasted a number.                              *)
(*                                                                         *)
(* A save writes the fields that differ from the copy it was made from,    *)
(* so a cancelled status survives a regeneration that began before it.     *)
(***************************************************************************)
EXTENDS Integers

CONSTANTS
  InvoicedOrders,
  Generators,     \* executions of createInvoiceForOrder at the same time
  MaxAttempts,    \* of a row of the Mongo queue
  MaxNumbers,     \* bounds the numbers taken
  MaxVersions,    \* bounds the regenerations
  NoInvoice, NoOrderYet

ASSUME InvoiceConstants ==
  /\ MaxAttempts \in Nat \ {0} /\ MaxNumbers \in Nat /\ MaxVersions \in Nat
  /\ NoOrderYet \notin InvoicedOrders

VARIABLES
  payable,     \* the order is paid or cash on delivery
  shown,       \* order.invoiceNumber, 0 when it has none
  invoice,     \* the order's document, or NoInvoice
  counter,     \* the last number taken
  row, attempts,   \* the Mongo queue's row of the order
  delivery,    \* the order's job in Redis
  at, source, target, force, copy, number   \* an execution and what it holds

queues == <<row, attempts, delivery>>
execution == <<at, source, target, force, copy, number>>
invoicesVars == <<payable, shown, invoice, counter, queues, execution>>

InvoiceRecord ==
  [number : Nat \ {0}, version : Nat, status : {"generated", "refunded", "cancelled"}]

ASSUME NoInvoiceIsNone == NoInvoice \notin InvoiceRecord

InvoicesInit ==
  /\ payable \in [InvoicedOrders -> BOOLEAN]
  /\ shown = [o \in InvoicedOrders |-> 0]
  /\ invoice = [o \in InvoicedOrders |-> NoInvoice]
  /\ counter = 0
  /\ row = [o \in InvoicedOrders |-> "none"]
  /\ attempts = [o \in InvoicedOrders |-> 0]
  /\ delivery = [o \in InvoicedOrders |-> "none"]
  /\ at = [g \in Generators |-> "idle"]
  /\ source = [g \in Generators |-> "call"]
  /\ target = [g \in Generators |-> NoOrderYet]
  /\ force = [g \in Generators |-> FALSE]
  /\ copy = [g \in Generators |-> NoInvoice]
  /\ number = [g \in Generators |-> 0]

Live(o) == invoice[o] # NoInvoice /\ invoice[o].status # "cancelled"

\* ------------------------------------------------------------ the order

ConfirmPayment(o) ==
  /\ ~payable[o]
  /\ payable' = [payable EXCEPT ![o] = TRUE]
  /\ UNCHANGED <<shown, invoice, counter, queues, execution>>

\* A refunded online order is no longer payable.
RefundOrder(o) ==
  /\ payable[o]
  /\ payable' = [payable EXCEPT ![o] = FALSE]
  /\ UNCHANGED <<shown, invoice, counter, queues, execution>>

\* The row is inserted once.  The job keeps its id, so adding it does nothing
\* while it exists, and nothing when Redis is down.
EnqueueInvoice(o) ==
  /\ row' = [row EXCEPT ![o] = IF @ = "none" THEN "queued" ELSE @]
  /\ \/ UNCHANGED delivery
     \/ /\ delivery[o] \in {"none", "done", "failed"}
        /\ delivery' = [delivery EXCEPT ![o] = "waiting"]
  /\ UNCHANGED <<payable, shown, invoice, counter, attempts, execution>>

CancelInvoice(o) ==
  /\ invoice[o] # NoInvoice
  /\ invoice' = [invoice EXCEPT ![o].status = "cancelled"]
  /\ UNCHANGED <<payable, shown, counter, queues, execution>>

\* A credit note may be made of any invoice, again and again.
CreditNote(o) ==
  /\ invoice[o] # NoInvoice
  /\ invoice' = [invoice EXCEPT ![o].status = "refunded"]
  /\ UNCHANGED <<payable, shown, counter, queues, execution>>

\* ------------------------------------------------------ starting to generate

Starts(g, s, o, f) ==
  /\ at[g] = "idle"
  /\ at' = [at EXCEPT ![g] = "read"]
  /\ source' = [source EXCEPT ![g] = s]
  /\ target' = [target EXCEPT ![g] = o]
  /\ force' = [force EXCEPT ![g] = f]
  /\ UNCHANGED <<payable, shown, invoice, counter, copy, number>>

ClaimRow(g, o) ==
  /\ row[o] = "queued"
  /\ Starts(g, "row", o, FALSE)
  /\ row' = [row EXCEPT ![o] = "processing"]
  /\ attempts' = [attempts EXCEPT ![o] = @ + 1]
  /\ UNCHANGED delivery

TakeJob(g, o) ==
  /\ delivery[o] = "waiting"
  /\ Starts(g, "job", o, FALSE)
  /\ delivery' = [delivery EXCEPT ![o] = "active"]
  /\ UNCHANGED <<row, attempts>>

Generate(g, o) ==
  /\ \E f \in BOOLEAN : Starts(g, "call", o, f)
  /\ UNCHANGED queues

\* --------------------------------------------------- createInvoiceForOrder

Proceeds(g, s) == at' = [at EXCEPT ![g] = s]

\* The order and then its invoice.  The Redis worker looks for the invoice
\* before it asks whether the order is payable.
ReadInvoice(g) ==
  LET o == target[g] IN
  /\ at[g] = "read"
  /\ \/ /\ Live(o) /\ ~force[g] /\ (payable[o] \/ source[g] = "job")
        /\ Proceeds(g, "succeeds") /\ UNCHANGED <<copy, number>>
     \/ /\ ~payable[o] /\ ~(Live(o) /\ source[g] = "job")
        /\ Proceeds(g, "fails") /\ UNCHANGED <<copy, number>>
     \/ /\ payable[o] /\ Live(o) /\ force[g]
        /\ invoice[o].version < MaxVersions
        /\ Proceeds(g, "save")
        /\ copy' = [copy EXCEPT ![g] = invoice[o]]
        /\ number' = [number EXCEPT ![g] = invoice[o].number]
     \/ /\ payable[o] /\ ~Live(o)
        /\ Proceeds(g, "number") /\ UNCHANGED <<copy, number>>
  /\ UNCHANGED <<payable, shown, invoice, counter, queues, source, target, force>>

\* Fault seeded for ShowsItsInvoice: the order is given its number before the invoice is saved.
TakeNumberLinks(g) ==
  /\ at[g] = "number"
  /\ counter < MaxNumbers
  /\ counter' = counter + 1
  /\ number' = [number EXCEPT ![g] = counter + 1]
  /\ shown' = [shown EXCEPT ![target[g]] = counter + 1]
  /\ Proceeds(g, "save")
  /\ UNCHANGED <<payable, invoice, queues, source, target, force, copy>>

TakeNumber(g) ==
  /\ at[g] = "number"
  /\ counter < MaxNumbers
  /\ counter' = counter + 1
  /\ number' = [number EXCEPT ![g] = counter + 1]
  /\ Proceeds(g, "save")
  /\ UNCHANGED <<payable, shown, invoice, queues, source, target, force, copy>>

\* The unique index refuses a second invoice, a cancelled one included.
InsertInvoice(g) ==
  /\ at[g] = "save" /\ copy[g] = NoInvoice
  /\ IF invoice[target[g]] = NoInvoice
     THEN /\ invoice' = [invoice EXCEPT ![target[g]] =
               [number |-> number[g], version |-> 1, status |-> "generated"]]
          /\ Proceeds(g, "link")
     ELSE Proceeds(g, "fails") /\ UNCHANGED invoice
  /\ UNCHANGED <<payable, shown, counter, queues, source, target, force, copy, number>>

UpdateInvoice(g) ==
  /\ at[g] = "save" /\ copy[g] # NoInvoice
  /\ LET saved == invoice[target[g]] IN
     invoice' = [invoice EXCEPT ![target[g]] =
       [saved EXCEPT !.version = copy[g].version + 1,
                     !.status = IF copy[g].status = "generated" THEN saved.status ELSE "generated"]]
  /\ Proceeds(g, "link")
  /\ UNCHANGED <<payable, shown, counter, queues, source, target, force, copy, number>>

LinkOrder(g) ==
  /\ at[g] = "link"
  /\ shown' = [shown EXCEPT ![target[g]] = number[g]]
  /\ Proceeds(g, "succeeds")
  /\ UNCHANGED <<payable, invoice, counter, queues, source, target, force, copy, number>>

\* The counter, the renderer, the storage or the database throws.
GenerateThrows(g) ==
  /\ at[g] \in {"read", "number", "save", "link"}
  /\ Proceeds(g, "fails")
  /\ UNCHANGED <<payable, shown, invoice, counter, queues, source, target, force, copy, number>>

\* ------------------------------------------------------ answering the queue

Forgets(g) ==
  /\ Proceeds(g, "idle")
  /\ source' = [source EXCEPT ![g] = "call"]
  /\ target' = [target EXCEPT ![g] = NoOrderYet]
  /\ force' = [force EXCEPT ![g] = FALSE]
  /\ copy' = [copy EXCEPT ![g] = NoInvoice]
  /\ number' = [number EXCEPT ![g] = 0]
  /\ UNCHANGED <<payable, shown, invoice, counter, attempts>>

\* Fault seeded for ServiceTypeOK: one attempt more than the row may have.
AnswerRowLate(g) ==
  LET o == target[g] IN
  /\ at[g] \in {"succeeds", "fails"} /\ source[g] = "row"
  /\ \/ at[g] = "succeeds" /\ row' = [row EXCEPT ![o] = "done"]
     \/ row' = [row EXCEPT ![o] = IF attempts[o] > MaxAttempts THEN "failed" ELSE "queued"]
  /\ Forgets(g) /\ UNCHANGED delivery

\* The save of "done" may throw, and then the row is answered as a failure.
AnswerRow(g) ==
  LET o == target[g] IN
  /\ at[g] \in {"succeeds", "fails"} /\ source[g] = "row"
  /\ \/ at[g] = "succeeds" /\ row' = [row EXCEPT ![o] = "done"]
     \/ row' = [row EXCEPT ![o] = IF attempts[o] >= MaxAttempts THEN "failed" ELSE "queued"]
  /\ Forgets(g) /\ UNCHANGED delivery

\* A failed job waits for its next attempt until it has had them all.
AnswerJob(g) ==
  /\ at[g] \in {"succeeds", "fails"} /\ source[g] = "job"
  /\ \E s \in IF at[g] = "succeeds" THEN {"done"} ELSE {"waiting", "failed"} :
       delivery' = [delivery EXCEPT ![target[g]] = s]
  /\ Forgets(g) /\ UNCHANGED row

AnswerCall(g) ==
  /\ at[g] \in {"succeeds", "fails"} /\ source[g] = "call"
  /\ Forgets(g) /\ UNCHANGED <<row, delivery>>

\* The Redis queue finds a stalled job and hands it out again, or gives up;
\* nothing looks for a row that was left processing.
CrashGenerator(g) ==
  /\ at[g] # "idle"
  /\ IF source[g] = "job"
     THEN \E s \in {"waiting", "failed"} : delivery' = [delivery EXCEPT ![target[g]] = s]
     ELSE UNCHANGED delivery
  /\ Forgets(g) /\ UNCHANGED row

InvoicesNext ==
  \/ \E o \in InvoicedOrders :
       \/ ConfirmPayment(o) \/ RefundOrder(o) \/ EnqueueInvoice(o)
       \/ CancelInvoice(o) \/ CreditNote(o)
       \/ \E g \in Generators : ClaimRow(g, o) \/ TakeJob(g, o) \/ Generate(g, o)
  \/ \E g \in Generators :
       \/ ReadInvoice(g) \/ TakeNumber(g) \/ InsertInvoice(g) \/ UpdateInvoice(g)
       \/ LinkOrder(g) \/ GenerateThrows(g)
       \/ AnswerRow(g) \/ AnswerJob(g) \/ AnswerCall(g) \/ CrashGenerator(g)

InvoicesSpec == InvoicesInit /\ [][InvoicesNext]_invoicesVars

----------------------------------------------------------------------------

\* The type of each variable; an execution at work has an order.
InvoicesTypeOK ==
  /\ payable \in [InvoicedOrders -> BOOLEAN]
  /\ shown \in [InvoicedOrders -> Nat]
  /\ invoice \in [InvoicedOrders -> InvoiceRecord \cup {NoInvoice}]
  /\ counter \in Nat
  /\ row \in [InvoicedOrders -> {"none", "queued", "processing", "done", "failed"}]
  /\ attempts \in [InvoicedOrders -> 0 .. MaxAttempts]
  /\ delivery \in [InvoicedOrders -> {"none", "waiting", "active", "done", "failed"}]
  /\ at \in [Generators -> {"idle", "read", "number", "save", "link", "succeeds", "fails"}]
  /\ source \in [Generators -> {"row", "job", "call"}]
  /\ target \in [Generators -> InvoicedOrders \cup {NoOrderYet}]
  /\ force \in [Generators -> BOOLEAN]
  /\ copy \in [Generators -> InvoiceRecord \cup {NoInvoice}]
  /\ number \in [Generators -> Nat]
  /\ \A g \in Generators : at[g] # "idle" => target[g] \in InvoicedOrders

\* However the two queues and the calls race, and whatever throws or crashes
\* between: the number an order shows is its own invoice's, and a row that is
\* done has an invoice.
ShowsItsInvoice ==
  \A o \in InvoicedOrders :
    /\ shown[o] # 0 => invoice[o] # NoInvoice /\ shown[o] = invoice[o].number
    /\ row[o] = "done" => invoice[o] # NoInvoice
=============================================================================
