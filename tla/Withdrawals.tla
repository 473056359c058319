---------------------------- MODULE Withdrawals ----------------------------
(***************************************************************************)
(* Withdrawals from the wallets of Settlement: a request reserves an       *)
(* amount, an approval has the gateway pay it out, and the gateway's       *)
(* webhook, the recovery sweep or an operator says what became of it.      *)
(*                                                                         *)
(* Every operation is a transaction that writes the request or the wallet  *)
(* it has read, and one step; except the approval, which calls the gateway *)
(* inside its transaction (holder).  A write to a request that an open     *)
(* transaction has written conflicts and is tried again after it ended.    *)
(* The idempotency key of a payout is saved by that transaction only: an   *)
(* approval that does not commit leaves no trace of the payout it made.    *)
(***************************************************************************)
EXTENDS Settlement

CONSTANTS
  Requests,
  Requester,    \* the payee of each request
  Suspicious,   \* the requests that the risk rules put up for review
  Approvals,    \* executions of approveWithdrawalRequest, also those that
                \* withTransaction runs again
  MaxAmount,    \* amounts requested
  NoApproval, NoRequest

ASSUME WithdrawalConstants ==
  /\ IsFiniteSet(Requests) /\ IsFiniteSet(Approvals)
  /\ Requester \in [Requests -> Payees]
  /\ Suspicious \subseteq Requests
  /\ MaxAmount \in Nat \ {0}
  /\ NoApproval \notin Approvals /\ NoRequest \notin Requests

VARIABLES
  reserved, withdrawn,   \* the wallet's reservedAmount and totalWithdrawn
  status, amount,        \* the request
  payoutId,              \* the approval whose payout it names
  returned,              \* rows that record the return of its amount
  holder,                \* the open approval that has written it
  byHand,                \* requests that an operator has settled
  job,                   \* the recovery job: none, idle, or the payout status fetched
  at, subject,           \* an approval's position and request
  bank                   \* the payout made by an approval

requestVars == <<status, amount, payoutId, returned>>
approvalVars == <<holder, at, subject>>
recoveryVars == <<byHand, job>>
moneyVars == <<reserved, withdrawn, balance, excess>>
untouched == <<orderVars, pendingAmount, earned, list>>
vars == <<settlementVars, reserved, withdrawn, requestVars, approvalVars, recoveryVars, bank>>

Open == {"pending", "manual_review", "processing"}
Final == {"processed", "failed", "reversed", "cancelled"}

Init ==
  /\ SettlementInit
  /\ reserved = [p \in Payees |-> 0] /\ withdrawn = [p \in Payees |-> 0]
  /\ status = [r \in Requests |-> "absent"]
  /\ amount = [r \in Requests |-> 0]
  /\ payoutId = [r \in Requests |-> NoApproval]
  /\ returned = [r \in Requests |-> 0]
  /\ holder = [r \in Requests |-> NoApproval]
  /\ byHand = {}
  /\ job = [r \in Requests |-> "none"]
  /\ at = [c \in Approvals |-> "idle"]
  /\ subject = [c \in Approvals |-> NoRequest]
  /\ bank = [c \in Approvals |-> "none"]

\* Fault seeded for TypeOK: a failed request can fail again.
TransitionAgain(from, to) ==
  CASE from = "pending"       -> to \in {"manual_review", "processing", "cancelled", "failed"}
    [] from = "manual_review" -> to \in {"processing", "cancelled", "failed"}
    [] from = "processing"    -> to \in {"paid", "failed", "reversed", "cancelled"}
    [] from = "failed"        -> to \in {"failed", "cancelled"}
    [] OTHER                  -> FALSE

\* WITHDRAWAL_STATE_TRANSITIONS, without the states that are never committed.
Transition(from, to) ==
  CASE from = "pending"       -> to \in {"manual_review", "processing", "cancelled", "failed"}
    [] from = "manual_review" -> to \in {"processing", "cancelled", "failed"}
    [] from = "processing"    -> to \in {"paid", "failed", "reversed", "cancelled"}
    [] from = "failed"        -> to = "cancelled"
    [] OTHER                  -> FALSE

-----------------------------------------------------------------------------
(* What the operations have in common.                                     *)

Monus(m, n) == IF m > n THEN m - n ELSE 0

\* The amount goes back to the balance; a second time it comes from nowhere.
GiveBack(r) ==
  LET p == Requester[r] IN
  /\ reserved' = [reserved EXCEPT ![p] = Monus(@, amount[r])]
  /\ balance' = [balance EXCEPT ![p] = @ + amount[r]]
  /\ returned' = [returned EXCEPT ![r] = @ + 1]
  /\ excess' = IF returned[r] = 0 THEN excess ELSE [excess EXCEPT ![p] = @ + amount[r]]
  /\ UNCHANGED <<withdrawn, untouched>>

\* markWithdrawalCompleted.
Complete(r, c) ==
  LET p == Requester[r] IN
  /\ holder[r] = NoApproval
  /\ Transition(status[r], "paid")
  /\ reserved' = [reserved EXCEPT ![p] = Monus(@, amount[r])]
  /\ withdrawn' = [withdrawn EXCEPT ![p] = @ + amount[r]]
  /\ status' = [status EXCEPT ![r] = "paid"]
  /\ payoutId' = [payoutId EXCEPT ![r] = c]
  /\ UNCHANGED <<balance, excess, amount, returned, untouched>>

\* markWithdrawalFailed: a paid request is left alone, whatever the outcome.
Fail(r, to, c) ==
  /\ holder[r] = NoApproval
  /\ Transition(status[r], to)
  /\ GiveBack(r)
  /\ status' = [status EXCEPT ![r] = to]
  /\ payoutId' = [payoutId EXCEPT ![r] = IF c = NoApproval THEN @ ELSE c]
  /\ UNCHANGED amount

\* What a payout status makes of a request.
Resolve(r, s, c) ==
  \/ s = "processed" /\ Complete(r, c)
  \/ s # "processed" /\ Fail(r, s, c)

-----------------------------------------------------------------------------
(* The payee and the operator.                                             *)

\* Fault seeded for ReservedIsOpen: a payout under way does not count as open.
RequestMeanwhile(r) ==
  LET p == Requester[r] IN
  /\ status[r] = "absent"
  /\ \A q \in Requests : Requester[q] = p => status[q] \notin Open \ {"processing"}
  /\ \E n \in 1 .. MaxAmount :
       /\ n <= balance[p]
       /\ amount' = [amount EXCEPT ![r] = n]
       /\ balance' = [balance EXCEPT ![p] = @ - n]
       /\ reserved' = [reserved EXCEPT ![p] = @ + n]
  /\ status' = [status EXCEPT ![r] = "pending"]
  /\ UNCHANGED <<withdrawn, excess, payoutId, returned, untouched,
                 approvalVars, recoveryVars, bank>>

\* createWithdrawalRequest; a request that the risk rules block changes nothing.
Request(r) ==
  LET p == Requester[r] IN
  /\ status[r] = "absent"
  /\ \A q \in Requests : Requester[q] = p => status[q] \notin Open
  /\ \E n \in 1 .. MaxAmount :
       /\ n <= balance[p]
       /\ amount' = [amount EXCEPT ![r] = n]
       /\ balance' = [balance EXCEPT ![p] = @ - n]
       /\ reserved' = [reserved EXCEPT ![p] = @ + n]
  /\ status' = [status EXCEPT ![r] = IF r \in Suspicious THEN "manual_review" ELSE "pending"]
  /\ UNCHANGED <<withdrawn, excess, payoutId, returned, untouched,
                 approvalVars, recoveryVars, bank>>

Reject(r) ==
  /\ status[r] \in {"pending", "manual_review", "failed"}
  /\ Fail(r, "cancelled", NoApproval)
  /\ UNCHANGED <<approvalVars, recoveryVars, bank>>

\* Fault seeded for PayoutOnce: a request in processing is approved again.
ApproveClaimAgain(c, r) ==
  /\ at[c] = "idle"
  /\ status[r] \in Open /\ holder[r] = NoApproval
  /\ reserved[Requester[r]] >= amount[r]
  /\ holder' = [holder EXCEPT ![r] = c]
  /\ at' = [at EXCEPT ![c] = "pay"]
  /\ subject' = [subject EXCEPT ![c] = r]
  /\ UNCHANGED <<moneyVars, untouched, requestVars, recoveryVars, bank>>

\* approveWithdrawalRequest up to the call of the gateway.
ApproveClaim(c, r) ==
  /\ at[c] = "idle"
  /\ status[r] \in {"pending", "manual_review"} /\ holder[r] = NoApproval
  /\ reserved[Requester[r]] >= amount[r]
  /\ holder' = [holder EXCEPT ![r] = c]
  /\ at' = [at EXCEPT ![c] = "pay"]
  /\ subject' = [subject EXCEPT ![c] = r]
  /\ UNCHANGED <<moneyVars, untouched, requestVars, recoveryVars, bank>>

Goto(c, s) == at' = [at EXCEPT ![c] = s]

Release(c) == holder' = [holder EXCEPT ![subject[c]] = IF @ = c THEN NoApproval ELSE @]

PayoutAccepted(c) ==
  /\ at[c] = "pay"
  /\ bank' = [bank EXCEPT ![c] = "queued"]
  /\ Goto(c, "save")
  /\ UNCHANGED <<moneyVars, untouched, requestVars, recoveryVars, holder, subject>>

\* The gateway refuses, or its answer is lost.
PayoutThrows(c) ==
  /\ at[c] = "pay"
  /\ \E b \in {"none", "queued"} : bank' = [bank EXCEPT ![c] = b]
  /\ Goto(c, "error")
  /\ UNCHANGED <<moneyVars, untouched, requestVars, recoveryVars, holder, subject>>

ApproveCommit(c) ==
  /\ at[c] = "save"
  /\ status' = [status EXCEPT ![subject[c]] = "processing"]
  /\ payoutId' = [payoutId EXCEPT ![subject[c]] = c]
  /\ Release(c)
  /\ Goto(c, "done")
  /\ UNCHANGED <<moneyVars, untouched, amount, returned, subject, recoveryVars, bank>>

\* The process dies or the transaction outlives its limit: nothing is saved.
ApproveLost(c) ==
  /\ at[c] \in {"pay", "save"}
  /\ \/ at[c] = "pay" /\ bank' \in {bank, [bank EXCEPT ![c] = "queued"]}
     \/ at[c] = "save" /\ UNCHANGED bank
  /\ Release(c)
  /\ Goto(c, "lost")
  /\ UNCHANGED <<moneyVars, untouched, requestVars, recoveryVars, subject>>

\* The catch block marks the request failed in a transaction of its own, which
\* conflicts with the open one until the server ends that; then, or when the
\* process dies before, the error leaves the handler.
ErrorEndsTransaction(c) ==
  /\ at[c] = "error"
  /\ Release(c)
  /\ Goto(c, "mark")
  /\ UNCHANGED <<moneyVars, untouched, requestVars, recoveryVars, subject, bank>>

ErrorMarksFailed(c) ==
  /\ at[c] = "mark"
  /\ Fail(subject[c], "failed", NoApproval)
  /\ Goto(c, "errored")
  /\ UNCHANGED <<holder, subject, recoveryVars, bank>>

ErrorMarkGivesUp(c) ==
  /\ at[c] = "mark"
  /\ Goto(c, "errored")
  /\ UNCHANGED <<moneyVars, untouched, requestVars, recoveryVars, holder, subject, bank>>

-----------------------------------------------------------------------------
(* The gateway and its webhook.                                            *)

BankSettles(c) ==
  /\ bank[c] = "queued"
  /\ \E s \in {"processed", "failed", "cancelled"} : bank' = [bank EXCEPT ![c] = s]
  /\ UNCHANGED <<moneyVars, untouched, requestVars, approvalVars, recoveryVars>>

BankReverses(c) ==
  /\ bank[c] = "processed"
  /\ bank' = [bank EXCEPT ![c] = "reversed"]
  /\ UNCHANGED <<moneyVars, untouched, requestVars, approvalVars, recoveryVars>>

\* The notices sent of a payout; they arrive late, never or in any order.
Told(c) ==
  CASE bank[c] \in {"none", "queued"} -> {}
    [] bank[c] = "reversed"          -> {"processed", "reversed"}
    [] OTHER                         -> {bank[c]}

\* handleRazorpayPayoutWebhook: the claim of the delivery never refuses one, so
\* a notice may be handled any number of times.
PayoutWebhook(c, s) ==
  /\ s \in Told(c)
  /\ Resolve(subject[c], s, c)
  /\ UNCHANGED <<approvalVars, recoveryVars, bank>>

-----------------------------------------------------------------------------
(* The recovery sweep and its jobs.                                        *)

\* Faults seeded into the sweep: what is not processed yet has failed; failed
\* payouts are not looked at.
SweepReadHasty(r) ==
  /\ status[r] = "processing" /\ job[r] \in {"none", "idle"}
  /\ job' = [job EXCEPT ![r] = IF bank[payoutId[r]] \in Final THEN bank[payoutId[r]] ELSE "failed"]
  /\ UNCHANGED <<moneyVars, untouched, requestVars, approvalVars, byHand, bank>>

SweepReadPaid(r) ==
  /\ status[r] = "processing" /\ job[r] \in {"none", "idle"}
  /\ job' = [job EXCEPT ![r] = IF bank[payoutId[r]] = "processed" THEN "processed" ELSE "idle"]
  /\ UNCHANGED <<moneyVars, untouched, requestVars, approvalVars, byHand, bank>>

\* recoverSingleWithdrawal: the job is there before the gateway is asked; a
\* payout that is still under way leaves it to a later sweep.
SweepRead(r) ==
  /\ status[r] = "processing" /\ job[r] \in {"none", "idle"}
  /\ \/ /\ bank[payoutId[r]] \in Final
        /\ job' = [job EXCEPT ![r] = bank[payoutId[r]]]
     \/ /\ bank[payoutId[r]] \notin Final
        /\ job' = [job EXCEPT ![r] = "idle"]
  /\ UNCHANGED <<moneyVars, untouched, requestVars, approvalVars, byHand, bank>>

\* retryPayoutRecoveryJob: an operator has a job's request looked at again,
\* whatever its status.
RetryJob(r) ==
  /\ job[r] = "idle" /\ payoutId[r] \in Approvals
  /\ bank[payoutId[r]] \in Final
  /\ job' = [job EXCEPT ![r] = bank[payoutId[r]]]
  /\ UNCHANGED <<moneyVars, untouched, requestVars, approvalVars, byHand, bank>>

\* The marks read the request again; an error puts the job up for review.
SweepApply(r) ==
  /\ job[r] \in Final
  /\ \/ Resolve(r, job[r], payoutId[r])
     \/ /\ ~Transition(status[r], IF job[r] = "processed" THEN "paid" ELSE job[r])
        /\ UNCHANGED <<moneyVars, untouched, requestVars>>
  /\ job' = [job EXCEPT ![r] = "idle"]
  /\ UNCHANGED <<approvalVars, byHand, bank>>

\* markPayoutRecoveryJobPaid and markPayoutRecoveryJobFailed: the operator's
\* word, whatever the gateway says.
DecideByHand(r) ==
  /\ job[r] # "none" /\ r \notin byHand
  /\ \E s \in Final : Resolve(r, s, payoutId[r])
  /\ byHand' = byHand \cup {r}
  /\ UNCHANGED <<approvalVars, job, bank>>

-----------------------------------------------------------------------------
Approve(c) ==
  \/ \E r \in Requests : ApproveClaim(c, r)
  \/ PayoutAccepted(c)
  \/ PayoutThrows(c)
  \/ ApproveCommit(c)
  \/ ApproveLost(c)
  \/ ErrorEndsTransaction(c)
  \/ ErrorMarksFailed(c)
  \/ ErrorMarkGivesUp(c)

Bank(c) == BankSettles(c) \/ BankReverses(c) \/ \E s \in Final : PayoutWebhook(c, s)

Recover(r) == SweepRead(r) \/ RetryJob(r) \/ SweepApply(r) \/ DecideByHand(r)

WithdrawalNext ==
  \/ \E r \in Requests : Request(r) \/ Reject(r) \/ Recover(r)
  \/ \E c \in Approvals : Approve(c) \/ Bank(c)

Next ==
  \/ WithdrawalNext
  \/ /\ SettlementNext
     /\ UNCHANGED <<reserved, withdrawn, requestVars, approvalVars, recoveryVars, bank>>

Spec == Init /\ [][Next]_vars

\* The gateway settles what it accepted and the sweep is run by a timer.
Fairness ==
  /\ \A c \in Approvals : WF_vars(BankSettles(c))
  /\ \A r \in Requests : WF_vars(SweepRead(r)) /\ WF_vars(SweepApply(r))

FairSpec == Spec /\ Fairness

-----------------------------------------------------------------------------
(* Properties.                                                             *)

\* The type of each variable: a wallet's amounts are never negative, and an
\* amount is returned twice at most (financeService.js:1384-1655).
TypeOK ==
  /\ SettlementTypeOK
  /\ reserved \in [Payees -> Nat] /\ withdrawn \in [Payees -> Nat]
  /\ status \in [Requests -> {"absent", "paid", "failed", "reversed", "cancelled"} \cup Open]
  /\ amount \in [Requests -> 0 .. MaxAmount]
  /\ payoutId \in [Requests -> Approvals \cup {NoApproval}]
  /\ returned \in [Requests -> 0 .. 2]
  /\ holder \in [Requests -> Approvals \cup {NoApproval}]
  /\ byHand \subseteq Requests
  /\ job \in [Requests -> Final \cup {"none", "idle"}]
  /\ at \in [Approvals -> {"idle", "pay", "save", "error", "mark", "done", "lost", "errored"}]
  /\ subject \in [Approvals -> Requests \cup {NoRequest}]
  /\ bank \in [Approvals -> Final \cup {"none", "queued"}]

\* A wallet's money, wherever it is, never falls short of what the payee has
\* earned, and exceeds it only by reversals that found the money gone and by
\* amounts returned a second time (financeService.js:520-812, 1031-1655).
Holdings(p) == pendingAmount[p] + balance[p] + reserved[p] + withdrawn[p]

AccountsAddUp ==
  \A p \in Payees : Holdings(p) \in earned[p] .. earned[p] + excess[p]

\* What a wallet has reserved is the amount of its one open request, unless a
\* failed request was also rejected, which returns its amount twice and eats
\* what another request has reserved (financeService.js:1396-1412, 1571-1596).
ReservedIsOpen ==
  \A p \in Payees :
    LET mine == {r \in Requests : Requester[r] = p}
        open == {r \in mine : status[r] \in Open}
    IN (\A r \in mine : returned[r] <= 1) =>
         \/ open = {} /\ reserved[p] = 0
         \/ \E r \in open : open = {r} /\ reserved[p] = amount[r]

\* Two payouts are made for one request only when one of the two approvals was
\* cut off between the gateway's call and its commit, or did not get the
\* gateway's answer (financeService.js:1209-1330).
Troubled(c) == at[c] \in {"lost", "error", "mark", "errored"}

PayoutOnce ==
  \A c, d \in Approvals :
    c # d /\ subject[c] = subject[d] /\ bank[c] # "none" /\ bank[d] # "none"
      => Troubled(c) \/ Troubled(d)

\* A request in processing names a payout that the gateway was asked for it, so
\* the sweep has an answer to wait for.  Unless an operator decided, a paid
\* request was paid by the gateway; a request whose amount was returned was not,
\* unless an approval was cut off or left without an answer
\* (financeService.js:1209-1330, 1460-1655, financeController.js:1657).
OutcomeIsTheBanks ==
  /\ \A r \in Requests : status[r] = "processing" =>
       \E c \in Approvals : payoutId[r] = c /\ subject[c] = r /\ bank[c] # "none"
  /\ \A r \in Requests \ byHand :
       /\ status[r] = "paid" =>
            payoutId[r] \in Approvals /\ bank[payoutId[r]] \in {"processed", "reversed"}
       /\ \A c \in Approvals :
            returned[r] > 0 /\ subject[c] = r /\ bank[c] = "processed" =>
              \E d \in Approvals : subject[d] = r /\ Troubled(d)

\* A request in processing leaves it even when every webhook is lost, because
\* the sweep asks the gateway (payoutRecoveryService.js:323-362).
ProcessingIsResolved ==
  \A r \in Requests : status[r] = "processing" ~> status[r] # "processing"
=============================================================================
