# TLA+ models of the Abzora backend

The backend is a Node.js monolith (Express, Mongoose on MongoDB, Redis,
Razorpay) that runs as a PM2 cluster: every core has an HTTP process
(`ecosystem.config.js`), and each of them starts the background workers
(`server.js:632-659`). All shared state is in MongoDB and Redis; two handlers
or workers interleave at every `await`, and a process may be shut down
(`gracefulShutdown`, `server.js:702-750`) or killed between any two of them.

The project models the path of the money, from the gateway's webhook through
the ingestion queue to the order, its refund, and the side effects that the
payment outbox guarantees, on to the settlement of a delivered order and the
payout of a wallet; and the parts of the service around an order that keep
shared state under concurrency: operations alerts, delivery tasks, trials at
home, invoices, coupons, referral rewards and sessions.

```
 gateway --webhook--> handleRazorpayWebhook --persist--> paymentwebhookingestevents
                           (WebhookIngest)                      |
                                              ingest worker: claim, lanes, retry
                                                                v
 customer --verify/cancel/ask--> orderController      handlePaymentCaptured/Failed,
 operator --approve/retry/status-->    |              handleRefundProcessed
 coupons, referrals (Coupons,          v                        v
   Referrals) -- checkout -->   orders, products, refundrequests, transactions
                                    (OrderPayment)              |
                                              outbox event, same transaction
                                                                v
                    outbox worker: claim, replay targets, retry, dead letter
 operator --replay dead letter-->   (PaymentOutbox)

 paid order --> invoice queues (Invoices) --> delivery tasks (Deliveries)
                                              trial at home (Trials)
 detection --> alert lists --> lanes, entity locks (OpsAlerts) --> reassign, cancel
 delivered order --> pending, balance (Settlement) --> request, approval, payout
                       payout webhook, recovery sweep, operator (Withdrawals)
```

## Inventory

Each part with the state it keeps, its operations, what is hard about it, and
what makes it correct. `PROJECT.json` lists the same parts with their sources.

| Part | State | Operations | Hard behaviour | Correct when |
|---|---|---|---|---|
| Payment outbox (`services/paymentOutboxWorker.js`, capture handlers) | event document: status, attempts, lock owner and lease, completed targets, dead letter | commit with the order, inline effects, unguarded marks; claim, heartbeat, replay of each target, mark, retry, stop, cleanup | many workers, lease expiry, shutdown that hands events back, kill, failing calls, marks of the controller under a worker's feet | effects of a payment happen, once where an index exists; nothing is given up early |
| Dead-letter replay (`outboxReplayAdminController.js`) | the same documents | claim, requeue | two writes by `_id`, administrators at once | a dead letter is exhausted; a replay takes no event from a worker |
| Webhook ingestion (`paymentController.js`, `webhookLockService.js`, `paymentWebhookIngestService.js`) | delivery locks with a lifetime, event documents | lock, validate, persist, answer; batch claim, lanes, heartbeat, mark, retry, stop, cleanup | redelivery, failing calls between lock and persist, batches worked by lanes, takeover | what is accepted is ingested, and handled until done or given up |
| Order payment and refunds (`orderController.js`, `paymentController.js`, `financeService.js`) | order (payment, escrow, refund, fulfilment, stock flag), stock, refund requests, transactions | checkout, capture, failure, verify, retry, status of delivery, cancel, ask, approve, reject, process, refund notice, settlement and its reversal | read, await, save without a version; two capture paths; a cash order inserted before its stock is taken; gateway calls between read and save | money, stock and the order's fields agree |
| Settlement (`financeService.js:520-812`, `financeCronService.js`) | pending amounts and balances of vendors and riders, settlement fields of orders | credit a delivered order, settle a wallet automatically or by hand, reverse | a manual settlement lists its orders before its transaction; reversals in between | no more is pending than orders wait for; a reversed order is not paid out |
| Withdrawals (`financeService.js:1031-1657`, `razorpayPayoutService.js`) | balance, reserve and total withdrawn of a wallet; requests | request, approve (payout), reject, payout webhook, mark failed | gateway called inside a transaction, crash between payout and commit, late and repeated notices | the accounts add up; a payout is made once |
| Payout recovery (`payoutRecoveryService.js`) | recovery jobs | sweep, ask the gateway, retry, decide by hand | sweep racing the webhook and the operator | a payout under way is resolved as the gateway says |
| Operations alerts (`ops*Service.js`) | Redis list and sorted set, entity locks, alert documents | detect, enqueue with shedding, dequeue, promote, act, retry, escalate | pop before work, two-call promotion and release, lock expiry, four independent timers | an alert is settled; who works at once on an entity is bounded |
| Coupons (`couponRedemptionService.js`) | usage counts, redemptions, discounted orders | validate, create the order, redeem | checked before the order is created, counted after it | the limit is exceeded by no more than the checkouts that overlap |
| Referral rewards (`orderController.js`, `accountController.js`) | records, reward marks, two balances | apply a code, reward | two orders paid at once, balances written from copies | a friend is paid once |
| Trial at home (`trialHomeService.js`, rider, admin and logistics controllers) | session: status, approval, photos, events, version | request, approve, rider steps, convert, cancel | handlers of five roles at once; the version is checked only for array replacements | a completion is paid once |
| Dispatch and delivery (`dispatchEngineService.js`, `assignmentEngineService.js`, `logisticsController.js`) | tasks of an order, the order's rider | create by hand, by dispatch, by batch, by the vendor; status, reassign, reconcile | check then create; reconciliations that cancel what they read | one active task per order |
| Invoices (`invoice*Service.js`) | invoice documents, counter, a queue in Mongo and one in Redis | generate, regenerate, cancel, credit note | three ways to generate one at the same time; insertion after taking a number | an order shows its invoice's number |
| Sessions (`authSessionService.js`) | session documents with a token's hash | sign in, refresh, sign out, clean up | a refresh that found the session before it was revoked | what is signed out stays out |
| Returns | return requests | | no request can be stored, see below | |
| Fraud detection, pricing, tracking, couriers, Redis runtime, catalogue, AI and try-on, social and support, analytics | see `PROJECT.json` | | | not modelled, reasons there |

Other directories hold routes, validation schemas, seed and migration scripts,
backups and tests; they carry no state of their own. Most of the code base by
lines is reading and writing of single documents (catalogue, content, social,
reports), scoring and calls of external models; the models cover the part where
several executions share state, which is small against the whole.

## Modules

| Module | Models | Theorems in |
|---|---|---|
| `PaymentOutbox` | outbox document, controllers, workers, replay endpoint | `PaymentOutbox_proofs` |
| `EffectQueue` | the abstract queue of effects that `PaymentOutbox` implements | |
| `WebhookIngest` | webhook endpoint, delivery lock, ingest workers | `WebhookIngest_proofs` |
| `JobQueue` | the abstract queue that `WebhookIngest` implements | |
| `OrderPayment` | orders, stock, gateway, refund requests, all handlers on them | `OrderPayment_proofs` |
| `Settlement` | orders after delivery, pending amounts and balances | `Withdrawals_proofs` |
| `Withdrawals` | extends `Settlement` with requests, approvals, the gateway's payouts, webhook and recovery | `Withdrawals_proofs` |
| `OpsAlerts` | alerts, lists, lanes, entity locks, timers | `OpsAlerts_proofs` |
| `Coupons`, `Referrals` | what a checkout and a paid order do to limits and rewards | `Checkout_proofs` |
| `Invoices`, `Trials`, `Deliveries` | what becomes of an order | `Fulfilment_proofs` |
| `Sessions` | sign-in, refresh, sign-out | `Service_proofs` |
| `MCService` | the six parts before this line side by side | `Service_proofs` |
| other `MC...` | instances for TLC: targets, keys, kinds of handlers, constraints, symmetry | |

A definition whose comment begins with "Fault seeded" is not part of a
specification: it is a plausible mistake in the operation beside it, and
`PROJECT.json` names, for every property, one that violates it.

One convention holds throughout. A transaction is one step where it writes what
it has read, because MongoDB lets one of two such transactions fail and
`withTransaction` runs it again; everything else has a step per call of the
database, of Redis or of a service. `document.save()` of Mongoose writes the
fields that differ from the copy it was made from, and checks the version only
when the save replaces an array.

### PaymentOutbox

`status`, `attempts`, `deadLetter`, `lockedBy`, `completedTargets` are the
fields of the event document; `lease` is `lockExpiresAt` seen as none, live or
expired; `requeued` says that an administrator has set the event back. `prod`
and `inline` are the position of the controller that committed the event and how
its own effects ended. `life`, `slots`, `job`, `pc`, `done` are a worker: life
cycle, iterations left of `processOnce`, the claimed event, the stage in
`processEvent`, and the local set of `replayTargets`. One action is one database
call with the code up to the next `await`; the transaction that commits order
and event is one action. `Claimable` is the filter that MongoDB receives: the
object literal has two `$or` keys and the second one wins, so the backoff is not
part of it. A failing call is one that was not applied; `Fault`, `Kill`, `stops`
and `replays` count what the environment has spent. The limit of manual replays
is not in the model, because it is never met: `metadata` is a Mongoose Map
(`models/PaymentOutboxEvent.js:24`), and reading `metadata.manualReplayAttempts`
of it as a property gives nothing (`outboxReplayAdminController.js:111`).

Targets: the four replayers differ in one thing that the model keeps, whether
the collection has a unique index on the event (`UniqueTargets`). The TLC
instance has one target of either sort; the proofs are for any sequence of
targets. A worker that restarts has a new id (`workerId()`), so an incarnation
that went down does not come back; `Workers` are incarnations.

`EffectQueue` says what those who commit an event may rely on, and what they may
not. A job's submitter may produce its effects itself and report it finished or
ask for another try, whatever its phase: these are the marks of the controllers,
which look at no status. Consumers take a waiting job at most `Limit` times,
produce effects (one of `Once` once), record what is produced, and finish a job
when all is. `Sworn` submitters report only what exists: the webhook does,
`verifyPayment` does not. `Phase`, and `own`, `produced` and `recorded` read off
the controller's result, the rows and `completedTargets`, are the refinement
mapping; `KeepsItsPromise` says that every behaviour of the outbox is one of this
queue. `Retract` is the step a reader might not expect: when the webhook's mark
throws, its catch marks the event failed although its effects exist.

### WebhookIngest and JobQueue

A notification about a payment is delivered, possibly again, to a request `r`:
`ClaimLock`, `Respond` (duplicate, lock error, schema), `Persist`, answer.
`Unsupported` notifications take the lock before they are rejected. The worker
claims a batch one document at a time (`ClaimOne`, `ClaimThrows`), launches
its lanes (`Launch`), and each lane runs `Heartbeat`, `CheckProcessed`, the
handler, `Heartbeat`, `MarkProcessed` or `MarkRetry`; `pos[w][k]` is where the
document `k` is in the memory of `w`. The order in which lanes take documents
from the array is abstracted to a choice. A document that is still in a worker's
memory is not claimed again by that same worker.

`JobQueue` promises: a job is submitted, taken at most `Limit` times, finished
or given up at `GiveUpAt` tries, and only a finished one is forgotten.
`Phase(k)` in `WebhookIngest` is the refinement mapping, and the property
`QueueSpec` says that every behaviour of the ingestion is one of the queue.

### OrderPayment

`order[o]` holds the fields of the order document that payment handlers read or
write: fulfilment (`orderStatus`), payment, escrow and refund status, whose
payment id it bears, `inventoryDeducted`, `financialReversed`. `call[c]` is an
execution of a handler: its stage, and what it holds in memory, the order as
it was read (`seen`) and as it will be saved (`doc`). `Merge` is
`document.save()`: modified paths are written, others left, no version
checked. Capture (both paths), the settlement of a delivered order and its
reversal are transactions and one step each; everything else has an action per
`await`. `Throw` ends any execution at any `await`: a failing call or a killed
process.

A cash order is inserted as confirmed by `Checkout`, before the transaction that
takes its unit. `placing[o]` is how far that is: `TakeUnit` is the transaction,
which throws when the stock is short; `CheckoutFails` an error or a crash before
it; `AbortTake` a transient error of the transaction once the order in memory is
marked (`inventoryDeducted`), after which `withTransaction` runs the callback
again and `RerunTake` skips the stock. Whether the mark is still to be written
then depends on whether Mongoose took it for saved. `StockIsConserved` therefore
speaks of orders with the mark and leaves out those that a second run marked;
that a confirmed cash order has its unit, as a comment in the code says, is false,
and `payment_cash` shows it.

`Kinds[c]` are the handlers that an execution `c` may be one of. `StatusRead`
stands for everybody who sets the status of an order on its way: the vendor
(`updateOrderStatus`, and its "ready" and "delivered" of the logistics
endpoints), the rider's task, a courier's webhook, tracking, the operator's
manual cancel and the fallback of an alert. They look at no status; some of them
mark a cash order paid when it is delivered (`CashPay`), which is why
`PaidIsBacked` is about online orders: cash is backed by nothing the backend
knows of. `VerifyRefused` is the signature that does not fit, which saves what it
makes of the order it read; `RetryRead` the retry of a payment, by an alert or by
hand, which sets an order back to pending, a paid one too when it is by hand or
was read before. A review (`approve`, `reject`, `process`) reads the request,
then the order, and calls the gateway; `process` is `processRefund` of the finance
administration, which takes rejected requests as well.

The gateway (`gate`, `declined`, `slips`) is external: a payment is authorized,
then captured, and refunds never exceed what was paid. Executions
interleave freely, those of one webhook event too: `WebhookIngest` shows that two
workers have one event around a shutdown (`OverlapOnlyAfterStop`), and here any
number may. `joined[d]` counts the executions that took up the notice of the
refund `d` while another one was at it; it has no field in the code and no guard
reads it, and `RefundRecordedOnce` bounds the transactions of a refund by it. An
execution is used once, so the number of calls is the bound.

### Settlement and Withdrawals

`sale`, `escrow`, `credited`, `reversed` and `payoutStatus` are fields of an
order; `pendingAmount` and `balance` of a wallet. An order earns one unit for
each of its payees, so amounts are counts. `SettleOrder`, `AutoSettle` and
`Reverse` are transactions; `ManualRead` lists the orders of a payee outside
the transaction that `ManualSettle` then runs. `earned` is what the transactions
of orders add up to, and `excess` what a wallet got beyond that (a reversal that
found the money gone, an amount returned twice): it has no field in the code and
no guard reads it.

`Withdrawals` adds `reserved` and `withdrawn` to the wallet, and the request's
`status`, `amount` and `payoutId`. `approveWithdrawalRequest` calls the gateway
inside its transaction, so an approval `c` is several steps: `ApproveClaim`
(the write that makes it the `holder`), `PayoutAccepted` or `PayoutThrows`,
`ApproveCommit`, and `ApproveLost` when the process dies or the transaction
outlives its limit; `ErrorEndsTransaction` and `ErrorMarksFailed` are its catch
block, whose own transaction conflicts with the open one. `bank[c]` is the
payout that `c` made, as the gateway has it. `PayoutWebhook` handles any notice
the gateway has sent (`Told`), any number of times and in any order, because
the claim of a delivery refuses none. `SweepRead` and `SweepApply`, `RetryJob`
and `DecideByHand` are the recovery service: the gateway's answer is read in
one step and applied to the request as it is then.

### OpsAlerts

An alert's `status`, `retryCount`, `backoff` (`nextRetryAt` as none, ahead or
due) and `pending` are its document; `queue` and `later` count its entries in
the Redis list and in the sorted set of delayed ones, up to `MaxCopies`.
`Lanes` are executions of `processSingleQueueItem` in all processes, `Admins`
of `runAlertAction`. A runner promotes (`PromoteRem`, `PromotePush`: two
calls), pops (`Dequeue`), reads the alert, takes the entity's lock (`Acquire`),
acts with one of three outcomes, logs it (`ActLogged`, or `ActThrows` from the
stage "log", which queues an alert again that was resolved), and releases
(`ReleaseGet`, `ReleaseDel`: two calls). The lock's owner is the actor and the
alert: an admin acts under its own name (`UidOf`), and all lanes are one actor
(`OwnerOf`). `LockLapses` is a lock that expires while its holder works,
counted; `LockExpires` one that nobody holds. The four timers (`queueOpenAlerts`,
`requeueDueRetries`, detection, escalation) are `Timers`, each with a step per
call, in the order of the code: the detection pushes before it marks.

### Coupons and Referrals

`createOrder` validates a coupon, creates the discounted order, validates again
to redeem, saves a redemption and increments the count: `Checkouts` have these
steps, and may die after each. `offers` is who may use which coupon, by its
status, its dates, its minimum and the users it is for; `Reoffer` changes it at
any time, and a coupon that was withdrawn when it comes to be redeemed leaves a
discount uncounted (`dropped`), as a failed write does. A coupon for first
orders is refused by its second check, since the order just created counts, and
its use is never recorded.

`processReferralRewardIfEligible` reads the friend, the record and the
referrer, marks the record and saves both accounts with balances computed from
its copies; the two saves are made in parallel and so in either order.
`applyReferralCode` creates the record of a pair, then sets `referredBy`.

### Trials

A handler reads the session, decides by its copy what to change (`plan`), and
saves it. `fresh[h]` says that `__v` is still what it read: it matters only to
a save that replaces an array (`proofPhotos`, the selected items), and is
advanced by every save that replaces an array or pushes to one. Statuses that
all handlers treat alike are one. `starts` counts the writes that put the trial
in progress and `earned[n]` the earnings of completions with new photos that
read it in progress from start `n`.

### Deliveries

The tasks of one order, numbered by `createdAt`. The four kinds of creators read
the order, check for an active task (a batch does not), create one, save the
order's rider and reconcile, except the vendor's "ready", which ends there. A
dispatch runs in a transaction (`CommitDispatch`); when that aborts, it is run
again, or, if the error's text is about transactions, without one, step by step
(`RetryDispatch`), and the copy of the order may then hold the rider of the
aborted attempt as if it were saved. `ensureEntityMappings` is `MapOrder` and
`MapTasks` (a `Promise.all`), `MapCancel`, `MapAlign`: it keeps the newest of
the active tasks it has read. `StatusSave` sets any status, since no transition
is checked. `leaks` counts the executions that activated a task and ended
without reconciling.

### Invoices

Confirming an order adds a row to the queue in Mongo and a job to the one in
Redis; both workers, the customer and an admin run `createInvoiceForOrder`,
whose executions are `Generators`: find the invoice, take a number, insert or
update, write the number to the order. `source` says who called, and so who
hears of the outcome: `AnswerRow` (whose save of "done" may throw, and then the
row is queued again or failed), `AnswerJob`, `AnswerCall`. A full credit
note and a cancellation set the invoice's status.

### Sessions

A session holds the hash of one refresh token; the tokens of a session are
numbered. `refreshSession` finds the session by token and rotates in a second
step; `logoutAuthSession` finds one by token or id and revokes it in a second
step, and answers success if it finds nothing. The cleanup runs after every
operation; that a revoked session is old enough is a choice.

## Runs

| Run | Instance | Shows |
|---|---|---|
| `outbox_webhook` | 1 event, 2 workers, 1 administrator, 2 targets, 2 attempts, 2 faults, 1 crash, 1 shutdown, 2 replays | safety of the outbox: processed events are covered, progress is kept, events are stranded only by what was lost, overlap, dead letters and spent attempts have their causes; refinement of `EffectQueue` |
| `outbox_crash` | a webhook event, workers that may be killed | violation: a killed worker strands its event |
| `outbox_live` | a webhook and a verify event, 1 worker that is not killed, 3 attempts, 1 fault, 1 controller crash | events are settled, missed effects are made up for |
| `ingest_takeover` | 2 kinds of notification of 1 payment, 2 requests, 2 workers, 1 fault, 1 crash, 2 shutdowns | safety of the ingestion, refinement of `JobQueue` |
| `ingest_lost` | 1 notification delivered twice, 1 fault | violation: the retry of an unanswered delivery is a duplicate of nothing |
| `ingest_live` | 3 notifications of 2 payments, one unsupported, 2 workers, batches of 2 in one lane | a batch drops nothing, and what waits has tries left; accepted events are settled |
| `payment` | 1 online and 1 cash order for 1 unit, 7 executions in 4 groups (capture; verify, failure, retry and status; cancel and refunds; notices), refunds of half or all | stock, money, requests and the order's fields agree; a refund is recorded once, or once more for every execution that joined another at its notice |
| `payment_cash` | 2 cash orders for 1 unit | violation: a confirmed cash order without a unit |
| `wallets` | 2 orders of 1 vendor, 1 manual settlement, 2 requests (one up for review), 2 approvals | the accounts add up, the reserve belongs to the open request, a second payout has its one cause, a request in processing has a payout, outcomes are the gateway's; a payout under way is resolved |
| `ops` | 2 alerts on 1 entity, 2 lanes, 1 admin, 1 timer, 1 retry, 1 lapse, crash or fault | how many work on an entity at once, and when an order is given up |
| `ops_live` | 1 alert, 2 lanes, 1 timer, 1 retry, 1 crash | an open alert is settled, or stranded in the two ways named |
| `service` | 2 executions of every part: 2 coupons with a limit of 1; 1 friend of 2 referrers; 1 session with 3 tokens; 1 trial; 3 tasks and 2 riders; 1 invoice with 2 attempts | the six smaller parts: one property each, and their types |

Three runs expect a violation; each is a disagreement between the code and what
it says of itself, listed under `findings` with the quoted line:

- `outbox_crash`: a worker killed while it holds an event strands it, since no
  claim matches an event in processing;
- `ingest_lost`: the upsert of the delivery lock takes effect and its answer is
  lost; the endpoint asks for another delivery with 503, and that one finds the
  lock and is answered as a duplicate, while nothing was persisted. An error of
  the persisting call has the same effect one step later (`PersistError`);
- `payment_cash`: the checkout of a cash order throws or dies between the
  insertion and the transaction, and the order stays confirmed without a unit.
  Short stock and the second run of the callback do the same by longer ways,
  which `payment` explores.

Why the bounds suffice. Two workers are needed for a takeover and a third adds
none that two cannot show, since only the owner of the lock is special. Two
attempts give a first try, a retry and the exhaustion of both. Two targets give
one that is done and one that is not at every interruption.

`payment`: the deepest behaviour of its properties, a notice delivered twice for
one refund, takes five executions (capture, ask, approve, and two at the notice):
a second notice meets the look-up of the transaction only for a partial refund,
because a full one has reversed the order by then, and a partial refund is asked
for and approved. Executions are in groups by the handlers they may be, so that
symmetry holds within a group. All seven at once are more than TLC can enumerate:
`Focus` keeps to states with five executions started, four where one of them
verifies, fails, retries or sets a status, and two beside the cash order, which
meets the others in nothing but the stock. One unit of stock and two orders make
every deduction compete.

`wallets` needs two orders for the settlement of a neighbour, two requests for
the amount that is returned twice and eats the other's reserve, and two
approvals for the second payout. All at once are more than TLC can enumerate, so
`Focus` keeps to states where either one order is sold and everything happens to
two requests and approvals, or both are sold and there is one of either; a
manual settlement is at work only while nothing is requested. `ops` keeps, in
the same way, to one lapse, crash or fault, and to no timer under way while
three runners are; its second alert comes after the first, before either was
retried. `MaxCopies` is one: a lane that has popped an entry makes room for the
next, so that both lanes can still have the same alert; what is not explored is
a list that holds two copies at once. A constraint cuts behaviours at its
border, so the liveness of `wallets` and `ops_live` is that of behaviours that
stay inside.

`service` holds six parts that share no state in these models: a behaviour
moves one, chosen at the start, so that the states of the parts add and do not
multiply. Two executions are what a race needs; the first payer of a friend and
the second, the completion sent twice, a refresh and a sign-out are each two.
The third task is the one created between the read and the cancel of a
reconciliation. Executions and riders are symmetric.

The instances are small, and the theorems below do not depend on them.

Deadlock is not checked: workers go down for good, and executions, numbers
and attempts are used up, so the modelled part of the system may stop.

### Fairness

Weak fairness is assumed of what the runtime drives by itself: timers fire
(`Start`, `Tick`, `LeaseExpires`, the backoff), an awaited call returns or
rejects (`Work`, `Controller`, the claims, the requeue of the replay endpoint),
`process.exit` at the end of a shutdown; the gateway settles what it accepted
(`BankSettles`) and the recovery cron runs (`SweepRead`, `SweepApply`). Nothing
is assumed of faults, crashes, shutdowns, deliveries, notices, administrators
or detection.

`ops_live` assumes strong fairness of four things: that a lane pops an entry,
and that the timers pick up an open, a due and an unattended alert. Each timer
has an interval of its own, and every pass works off all alerts that it finds;
a lane promotes what is due and then pops, in one pass. In the model one timer
does the work of all four, an alert at a time, so a pass for another alert may
be under way whenever this one is enabled; that it is reached all the same is
what the strong fairness says.

`outbox_live` keeps workers alive (`Mortal = {}`), because a killed one strands
its event: that is what `outbox_crash` shows. `ingest_live` has no failing
database calls and no kills, for the same reason: a `markRetry` that throws
leaves the document in processing under a live worker. The handler itself may
throw any number of times there.

## Proofs

All theorems are for every value of the constants, under the assumptions named
in the modules: finite sets of orders and executions, limits that are numbers,
names that do not collide. Every invariant that a run checks is proved; so are
the action properties `ProgressIsKept` and `ReversedIsFinal` and the refinements
`QueueSpec` and `KeepsItsPromise`. Two theorems, `DeadLetterIsExhaustedAlways` and
`NoOrphansAlways`, have a hypothesis of their own: the limit with which workers
claim (`ClaimMax`, an option of the worker) is not below the one that documents
carry (`DocMax`). Both are 8 as deployed (`server.js:640`, `server.js:652`, the
models' default). With a lower one a document whose claims are spent would wait
for ever without being given up, as TLC finds at once.

`PaymentOutbox_proofs`
- `TypeCorrect`, `CompletedHaveRowsAlways` and `ProgressIsKeptAlways`. A target
  in `completedTargets` has its row because a worker's local set has: the
  invariant `DoneHaveRows` says so of `done`, `Busy` ties positions to jobs.
- `WebhookProcessedIsCoveredAlways`. `MarkMeansDone` (a worker at the mark has
  all targets done) and `Coverage`, `WebhookCovered` (where the controller is,
  and what its own effects came to).
- `OverlapOnlyAfterTakeoverAlways`. `HolderKnows`, `Verdict`, `Holding` and
  `Exhausted` make `HolderInv`, which relates the lock's owner, the status and
  the workers' memory. The replay endpoint requeues by `_id` without asking who
  holds the event; `Exhausted` says why that frees no worker's event: an
  administrator's claim keeps workers and other administrators out, unless the
  controller marks the event failed in between.
- `DeadLetterIsExhaustedAlways`: besides `Exhausted`, that no step sets an event
  whose attempts are spent back to waiting but the three that the property names
  (`SpentIsDeadStep`).
- `StrandedIsBoundedAlways`. No step strands an event except one that spends a
  fault, a crash or a shutdown: marks, takeovers and requeues let go of an event
  only together with its status. A worker that is going down is counted before
  it has let go (`Leaving`), and the bound is one on cardinalities (`StrandInv`,
  `BoundKept`).
- `UniqueTargetsOnceAlways`: the index refuses the second row (`UniqueStep`).
- `ImplementsEffectQueue`: initial states map to initial states, and each action
  of controllers, workers and administrators is one step of `EffectQueue` or
  leaves its variables alone (`StepKeepsPromise`), under all invariants above.

`WebhookIngest_proofs`
- `TypeCorrect`, `ProcessedIsHandledAlways`, `OverlapOnlyAfterStopAlways`, on an
  invariant that places every document a worker has in memory.
- `InHandAlways`: a document enters processing only with a place in its
  owner's memory, and gives it up only with the status (`OrphanStep`).
- `NoOrphansAlways`: besides that, a document whose tries are spent is dead. A
  shutdown is the exception, and it is for good: `stop()` hands a document back
  as failed, and in its last try no claim and no `markRetry` touches it again.
- `ImplementsJobQueue`: initial states map to initial states, and every step is
  a step of the queue or leaves its variables alone.

`OrderPayment_proofs`
- `Invariance` of `IInv`: the types, `Sound(m)` of every execution's memory, and
  that slips bear the names of executions. `Sound` is what makes late saves
  harmless or not: what an execution believes at its stage was true when it
  read it and is of the kind that stays true (captured money, taken stock, a
  slip made). What stays true of an order that was paid once is `Payable(o)`:
  money captured, unit taken, event written; an order with a refund request is
  one (`RequestsPayable`), so that a partial refund, which writes "paid" without
  looking, writes it on such an order only. The consequences are `TypeCorrect`,
  `PaidIsBackedAlways`, `RefundedIsReturnedAlways` and `ApprovedIsReturnedAlways`.
  The handlers that read an order and save a revision of it share one lemma each
  for their reads (`Reads`, `Revision`).
- `StockIsConservedAlways`: `Merge` never clears `deducted` (`Kept`), and each
  step changes the set of marked orders as it changes the stock (`StockStep`); a
  cash order whose transaction is still to come, or was aborted, is unmarked
  (`Placed`), so the second run's mark is the one exception.
- `RefundRecordedOnceAlways`, from `Recording`: while a refund has no
  transaction, all executions at its notice but one have joined; once it has
  one, only those past the look-up (`Past`) can add another, and the others find
  it. Nothing excludes two executions from one notice.

`Withdrawals_proofs`
- `ApprovalsHold` (an open approval holds its request, and no other step moves
  it), `RequestsFit` (a request's payout was made for it, and its amount was
  returned as its status says), `EarnedCovers` and `Credits` (what may still be
  reversed was earned) are the base of the other four invariants.
- `AccountsAddUpAlways` and `ReservedIsOpenAlways` need each other: `Monus`
  takes the whole amount from a reserve only if it is there (`ReservedFits`).
- `PayoutOnceAlways`, `OutcomeIsTheBanksAlways`, `PendingIsBackedAlways` and the
  action property `ReversedIsFinalAlways`, the last one with what a manual
  settlement has listed.
- `OnlyTransitionsAlways`, an action property that no run lists: although an
  approval commits the status that it decided before it called the gateway, no
  step moves a request outside `WITHDRAWAL_STATE_TRANSITIONS`.

`OpsAlerts_proofs`
- `OverlapIsBoundedAlways` from `Overlap`: the runners at work on an entity are
  as many as locks have lapsed, and one more only while the lock is still that
  of one of them. The second alternative is what is lost by a `ReleaseDel` that
  deletes a lock it no longer owns.
- `CancelledIsExhaustedAlways` from `Counted`: no copy of the retries, read
  before the lock or stored, exceeds the attempts that threw.
- `ProcessingIsTendedAlways`, which no run lists: an alert in processing has a
  runner at its action, unless a process died or an update failed.

`Checkout_proofs`
- `UsesAreBoundedAlways`: below the limit every discount is counted, under way
  or dropped (`Below`); from then on only checkouts that were validated before
  add any (`Beyond`).
- `FriendPaidOnceAlways`: the copy of a balance is older than the check of the
  record (`CopyIsOld`), so a second payer writes the first one's balance again.

`Fulfilment_proofs`
- `ShowsItsInvoiceAlways`: a number that is about to be saved or shown is the
  invoice's (`HoldsItsNumber`), and no step changes an invoice's number.
- `EarnsOncePerStartAlways`: once a start is paid or its payment is due, the
  trial is past it and no completion that read it is fresh (`PaidIsOver`,
  `DueIsOver`), and one payment is due at most (`OneIsDue`).
- `OneActiveTaskAlways`: every active task is an execution's own (the last one
  to activate it), left behind, or the settled one (`Attribution`). A
  reconciliation has read its own task and the settled one, and of two that have
  read, one has read the other's: so the first to cancel leaves one of those it
  compared. That the newest of the tasks exists is an argument on well-founded
  sets (`NewestTask`).

`Service_proofs`
- `SignedOutIsRefusedAlways`: what refuses a signed-out session lasts
  (`RefusedForGood`): it is gone, revoked, or expired with no refresh under way
  that could extend it.
- `ServiceTypeCorrect` and `ServiceKeepsItsPromises`: the composition of the six
  parts is a behaviour of each (`PartsBehave`), so that what is proved of a part
  by itself holds of it beside the others.

Only model-checked: the liveness properties `EventuallySettled`,
`RecoversMissedEffects`, `IngestedIsSettled`, `ProcessingIsResolved` and
`AlertIsSettled`, which the prover cannot reach: it has no rules for fairness
with ENABLED. What a recursive computation yields for every input is out of its
reach too; the modules have none.

## What the models leave out

Payment and money
- Amounts, currency, signatures and ownership checks: their failures are early
  returns that change nothing the properties speak of. An order's shares are one
  unit each in `Settlement`.
- A second gateway order for one order, trial sessions that pay through the
  capture webhook, quick checkout and tailored orders, and the no-transaction
  fallback of `runWithOptionalSession`.
- `Checkout` reads the stock and inserts the order in one step: a stock that is
  sold in between is the short stock of `TakeUnit`. The amount asked for in a
  refund request is not kept, so that `processRefund` refunds any. "created" and
  "processing" are folded into "confirmed": no payment handler tells them apart.
- `updateOrderStatus` settles a delivered order before it saves it, others after
  it, and a cron again later: `Settle` is an action by itself.
- Code that no request reaches: the refund in `manualCancelOrder` asks for the
  payment method "online" (`opsController.js:181`), which no order has, and
  `approveRefund` of the finance administration has no route.
- `Reverse` of `OrderPayment` keeps the order's fields only and `Settlement` the
  wallets; `Settlement` leaves out that a new capture clears
  `financialReversed`. The counters of the platform's own wallet, and the mirror
  of a vendor's balance in its store, are written and not read by any guard.
- The statuses "approved" and "processing without a payout" of a request are
  written inside the approval's transaction and never committed by themselves,
  so the sweep's branch for them is left out. `withTransaction` running an
  approval again is a further approval.
- A failing call is one that was not applied. A call that was applied and whose
  answer was lost is modelled where the code can tell the difference: the
  gateway's refund (`RefundFails` after `GatewayRefund`) and its payout
  (`PayoutThrows`, `ApproveLost`).
- A transaction callback is one step, and running it again is the same step
  later, except where it leaves something in memory: the cash order's mark
  (`AbortTake`, `RerunTake`) and the dispatched order's rider (`RetryDispatch`)
  are actions. A commit whose outcome stays unknown until `withTransaction` gives
  up ends its execution as a crash does.
- Metrics, and audit rows that nothing reads.

Around an order
- Alerts: the order of severity, windows per tenant, the cap on retries in
  flight (which is decremented for items that were never counted,
  `opsWorkerService.js:181`), and the fallback in memory when Redis is not
  configured.
- Deliveries: how a rider is chosen, batches as documents, positions. Two tasks
  never have the same `createdAt`. `reassignOrder` replaces a task that is still
  active by a list method on a Set and throws (`dispatchEngineService.js:109`);
  `ReassignCancel` ends there. Logistics assigns a rider by `uid` where the
  rider's own endpoints look for `_id`, so that many of those find nothing: the
  models take both as naming the rider.
- Trials: creating a session and its daily limit, payments, and the items kept
  and returned, which the schema does not have, so that they are not saved.
- Invoices: rendering, storage, e-mail, taxes. A partial credit note changes
  nothing that is modelled.
- Referrals: friends refer nobody themselves, and the rewards of both are one
  unit.

Behaviour seen while modelling that no text contradicts, or that follows from a
single line, and for which no run was added: a cancellation of an unpaid order
and its capture leave a cancelled order that is paid and has no refund;
`verifyPayment` confirms a cancelled order; a failure webhook may overwrite the
order that a capture has paid meanwhile (`paymentController.js:373`), both
capture paths may commit (`paymentController.js:192`), and two approvals of one
refund request may both call the gateway (`orderController.js:2208`); a capture
after a refund makes the order paid again; a requeued dead letter is never
claimed, because its attempts are spent (`outboxReplayAdminController.js:154`);
the limit of manual replays is never met; an event handed back by `stop()` at
its last attempt is neither claimable nor a dead letter (`DeadLetterIsExhausted`
and `NoOrphans` name both as exceptions); a manual retry sets a paid order back
to pending (`opsController.js:284`); an alert that was resolved is queued again
when its log throws, and may get its order cancelled (`opsActionService.js:289`).
Most are in the hazards, whose notes say which of them no property excludes.

## Not modelled

- Returns: no behaviour to model. `createReturnRequest`
  (`orderController.js:2332-2384`) leaves out `vendorId`, `customerId`,
  `productId` and `returnType`, which `models/ReturnRequest.js` requires, so
  every creation is refused and the other handlers find nothing.
- Fraud detection and pricing are functions of counts and configuration; their
  results are free choices of the models that call them.
- Tracking and realtime gateways, couriers: fan-out, and calls of services whose
  states only label a delivery.
- Redis runtime and cache: connection management; its failures are the failing
  calls of the modules that use it.
- Catalogue, stores, content, try-on and AI, social, support, notifications,
  analytics and telemetry: single writes of independent documents, scoring,
  calls of external models, and counters that nothing reads. They are the larger
  part of the code by lines, which is why the share of the lines that the map
  covers is small.

## Plan

Done: `PaymentOutbox`; `WebhookIngest` with `JobQueue`; `OrderPayment`;
`Settlement` and `Withdrawals`; `OpsAlerts`; the six parts of `MCService`; the
proofs of all their invariants, and those of the two refinements, `JobQueue` by
the ingestion and `EffectQueue` by the outbox.

What a next step would take up, in this order:

1. Composition of webhook, ingestion and capture, so that a handled event is a
   paid order, and `joined` of `OrderPayment` is bounded by the shutdowns of
   `WebhookIngest`.
2. That a refund is recorded at least once, with the crash between the save of
   the order and the transaction (`paymentController.js:469`).
3. `Settlement` composed with the reversal of `OrderPayment`.
4. The parts of `Deliveries`, `Trials` and `OpsAlerts` listed above: batches as
   documents, payments of a trial, the fallback in memory.
