--------------------------- MODULE WebhookIngest ---------------------------
(***************************************************************************)
(* Ingestion of payment webhooks.                                          *)
(*                                                                         *)
(* The HTTP handler (paymentController.handleRazorpayWebhook) claims a     *)
(* delivery lock, persists an ingest document and acknowledges.  The worker*)
(* of every process (services/paymentWebhookIngestService.js) claims a     *)
(* batch of documents, one findOneAndUpdate each, then works the batch off *)
(* in a few concurrent lanes that share the array and its index.           *)
(*                                                                         *)
(* A step is one call to MongoDB, or one run of the processor.  The lock   *)
(* and the document of a notification have the same key: the payment id.   *)
(***************************************************************************)
EXTENDS Naturals, FiniteSets

CONSTANTS
  Notes,        \* notifications the gateway sends until they are acknowledged
  Unsupported,  \* those validateWebhookSchema refuses
  Keys,         \* event ids the handler extracts
  KeyOf,        \* the one it extracts of each notification
  Requests,     \* deliveries being handled at once
  Workers,      \* worker incarnations
  ClaimMax,     \* maxAttemptsDefault of the worker
  DocMax,       \* maxAttempts of the document
  BatchSize, Concurrency,
  None,
  MaxDeliveries, MaxFaults, MaxCrashes, MaxStops   \* bounds of the environment

ASSUME IngestConstants ==
  /\ Unsupported \subseteq Notes /\ KeyOf \in [Notes -> Keys]
  /\ ClaimMax \in Nat \ {0} /\ DocMax \in Nat \ {0}
  /\ BatchSize \in Nat \ {0} /\ Concurrency \in Nat \ {0}
  /\ MaxDeliveries \in Nat /\ MaxFaults \in Nat /\ MaxCrashes \in Nat /\ MaxStops \in Nat
  /\ None \notin Notes \cup Workers

VARIABLES
  \* the gateway and the handler: notifications answered with a 2xx, the
  \* delivery locks, the notification and position of each request
  acked, locks, req, at,
  \* the ingest document of each key, and the notifications it ever held
  status, attempts, deadLetter, lockedBy, lease, due, ingested,
  \* whether the processor ended well for the document
  handled,
  \* the workers: life cycle, position of the tick, number of the batch; for
  \* each event they have in memory its position and batch
  life, tick, number, pos, batch,
  deliveries, faults, crashes, stops

handlerVars == <<acked, locks, req, at>>
docVars     == <<status, attempts, deadLetter, lockedBy, lease, due, ingested>>
workerVars  == <<life, tick, number, pos, batch>>
envVars     == <<deliveries, faults, crashes, stops>>
vars == <<handlerVars, docVars, handled, workerVars, envVars>>

Positions == {"no", "queued", "beat", "check", "run", "recheck", "mark", "retry"}

Init ==
  /\ acked = {} /\ locks = {}
  /\ req = [r \in Requests |-> None]
  /\ at = [r \in Requests |-> "idle"]
  /\ status = [k \in Keys |-> "absent"]
  /\ attempts = [k \in Keys |-> 0]
  /\ deadLetter = [k \in Keys |-> FALSE]
  /\ lockedBy = [k \in Keys |-> None]
  /\ lease = [k \in Keys |-> "none"]
  /\ due = [k \in Keys |-> TRUE]
  /\ ingested = {}
  /\ handled = [k \in Keys |-> FALSE]
  /\ life = [w \in Workers |-> "new"]
  /\ tick = [w \in Workers |-> "idle"]
  /\ number = [w \in Workers |-> 0]
  /\ pos = [w \in Workers |-> [k \in Keys |-> "no"]]
  /\ batch = [w \in Workers |-> [k \in Keys |-> 0]]
  /\ deliveries = 0 /\ faults = 0 /\ crashes = 0 /\ stops = 0

Fault == faults < MaxFaults /\ faults' = faults + 1 /\ UNCHANGED <<deliveries, crashes, stops>>
Kill  == crashes < MaxCrashes /\ crashes' = crashes + 1 /\ UNCHANGED <<deliveries, faults, stops>>

-----------------------------------------------------------------------------
(* The handler.                                                            *)

\* The gateway delivers again what was not acknowledged, and may deliver twice.
Deliver(r, n) ==
  /\ at[r] = "idle"
  /\ deliveries < MaxDeliveries /\ deliveries' = deliveries + 1
  /\ req' = [req EXCEPT ![r] = n]
  /\ at' = [at EXCEPT ![r] = "lock"]
  /\ UNCHANGED <<acked, locks, docVars, handled, workerVars, faults, crashes, stops>>

Respond(r) ==
  /\ req' = [req EXCEPT ![r] = None]
  /\ at' = [at EXCEPT ![r] = "idle"]

\* claimWebhookDelivery, then the validation of the payload.
ClaimLock(r) ==
  /\ at[r] = "lock"
  /\ \/ /\ KeyOf[req[r]] \in locks
        /\ acked' = acked \cup {req[r]}
        /\ UNCHANGED locks
        /\ Respond(r)
     \/ /\ KeyOf[req[r]] \notin locks
        /\ locks' = locks \cup {KeyOf[req[r]]}
        /\ UNCHANGED acked
        /\ \/ req[r] \in Unsupported /\ Respond(r)
           \/ /\ req[r] \notin Unsupported
              /\ at' = [at EXCEPT ![r] = "persist"]
              /\ UNCHANGED req
  /\ UNCHANGED <<docVars, handled, workerVars, envVars>>

\* lock_error: a 503, whether or not the upsert reached the server.
LockError(r) ==
  /\ at[r] = "lock"
  /\ Fault
  /\ locks' \in {locks, locks \cup {KeyOf[req[r]]}}
  /\ Respond(r)
  /\ UNCHANGED <<acked, docVars, handled, workerVars>>

\* persistWebhookIngestEvent: both answers are a 2xx.
Persist(r) ==
  /\ at[r] = "persist"
  /\ LET k == KeyOf[req[r]] IN
     \/ /\ status[k] \in {"absent", "purged"}
        /\ status' = [status EXCEPT ![k] = "pending"]
        /\ attempts' = [attempts EXCEPT ![k] = 0]
        /\ due' = [due EXCEPT ![k] = TRUE]
        /\ handled' = [handled EXCEPT ![k] = FALSE]
        /\ ingested' = ingested \cup {req[r]}
     \/ /\ status[k] \notin {"absent", "purged"}
        /\ UNCHANGED <<status, attempts, due, handled, ingested>>
  /\ acked' = acked \cup {req[r]}
  /\ Respond(r)
  /\ UNCHANGED <<locks, deadLetter, lockedBy, lease, workerVars, envVars>>

\* The create throws: a 5xx, the lock stays.
PersistError(r) ==
  /\ at[r] = "persist"
  /\ Fault
  /\ Respond(r)
  /\ UNCHANGED <<acked, locks, docVars, handled, workerVars>>

CrashRequest(r) ==
  /\ at[r] # "idle"
  /\ Kill
  /\ Respond(r)
  /\ UNCHANGED <<acked, locks, docVars, handled, workerVars>>

\* The index on createdAt removes the lock after its time to live.
LockExpires(k) ==
  /\ k \in locks
  /\ locks' = locks \ {k}
  /\ UNCHANGED <<acked, req, at, docVars, handled, workerVars, envVars>>

-----------------------------------------------------------------------------
(* The worker: the tick and its batch.                                     *)

Alive(w) == life[w] \in {"up", "stopping"}

\* The events of the worker's batch b that wait in the array, and those that a
\* lane is at work on.
Queued(w, b) == {k \in Keys : pos[w][k] = "queued" /\ batch[w][k] = b}
Active(w, b) == {k \in Keys : pos[w][k] \notin {"no", "queued"} /\ batch[w][k] = b}

Start(w) ==
  /\ life[w] = "new"
  /\ life' = [life EXCEPT ![w] = "up"]
  /\ UNCHANGED <<handlerVars, docVars, handled, tick, number, pos, batch, envVars>>

\* A new tick may begin while lanes of a rejected batch are still at work.
Tick(w) ==
  /\ life[w] = "up" /\ tick[w] = "idle"
  /\ tick' = [tick EXCEPT ![w] = "claiming"]
  /\ number' = [number EXCEPT ![w] =
                  IF \A k \in Keys : pos[w][k] = "no" THEN 1 ELSE @ + 1]
  /\ UNCHANGED <<handlerVars, docVars, handled, life, pos, batch, envVars>>

\* Faults seeded into the claim filter: no cap on the attempts; leases that ran
\* out are taken over; failed documents are forgotten.
ClaimableUncapped(k) ==
  status[k] \in {"pending", "failed"} /\ ~deadLetter[k] /\ due[k] /\ lease[k] # "live"

ClaimableByLease(k) ==
  /\ status[k] \in {"pending", "failed", "processing"}
  /\ ~deadLetter[k]
  /\ attempts[k] < ClaimMax
  /\ due[k]
  /\ lease[k] # "live"

ClaimablePendingOnly(k) ==
  /\ status[k] = "pending"
  /\ ~deadLetter[k]
  /\ attempts[k] < ClaimMax
  /\ due[k]
  /\ lease[k] # "live"

Claimable(k) ==
  /\ status[k] \in {"pending", "failed"}
  /\ ~deadLetter[k]
  /\ attempts[k] < ClaimMax
  /\ due[k]
  /\ lease[k] # "live"

\* Left out: a worker that claims an event it still has in memory, which takes
\* a back-off that ends within one claiming loop.
ClaimOne(w, k) ==
  /\ Alive(w) /\ tick[w] = "claiming"
  /\ Cardinality(Queued(w, number[w])) < BatchSize
  /\ Claimable(k) /\ pos[w][k] = "no"
  /\ status' = [status EXCEPT ![k] = "processing"]
  /\ lockedBy' = [lockedBy EXCEPT ![k] = w]
  /\ lease' = [lease EXCEPT ![k] = "live"]
  /\ attempts' = [attempts EXCEPT ![k] = @ + 1]
  /\ pos' = [pos EXCEPT ![w][k] = "queued"]
  /\ batch' = [batch EXCEPT ![w][k] = number[w]]
  /\ UNCHANGED <<handlerVars, deadLetter, due, ingested, handled, life, tick, number, envVars>>

\* claimOne throws: what the loop has claimed so far is in no array any more.
ClaimThrows(w) ==
  /\ Alive(w) /\ tick[w] = "claiming"
  /\ Fault
  /\ tick' = [tick EXCEPT ![w] = "idle"]
  /\ pos' = [pos EXCEPT ![w] =
               [k \in Keys |-> IF k \in Queued(w, number[w]) THEN "no" ELSE @[k]]]
  /\ UNCHANGED <<handlerVars, docVars, handled, life, number, batch>>

\* Fault seeded for NoOrphans: only as many as there are lanes are kept.
LaunchTruncated(w) ==
  /\ Alive(w) /\ tick[w] = "claiming"
  /\ \/ Cardinality(Queued(w, number[w])) = BatchSize
     \/ \A k \in Keys : ~(Claimable(k) /\ pos[w][k] = "no")
  /\ tick' = [tick EXCEPT ![w] = "working"]
  /\ \E S \in SUBSET Queued(w, number[w]) :
       /\ Cardinality(S) = Concurrency
       /\ pos' = [pos EXCEPT ![w] = [k \in Keys |-> IF k \in S THEN "beat" ELSE
                                       IF k \in Queued(w, number[w]) THEN "no" ELSE @[k]]]
  /\ UNCHANGED <<handlerVars, docVars, handled, life, number, batch, envVars>>

\* The loop ends with a full batch or without a document; the lanes start.
Launch(w) ==
  /\ Alive(w) /\ tick[w] = "claiming"
  /\ \/ Cardinality(Queued(w, number[w])) = BatchSize
     \/ \A k \in Keys : ~(Claimable(k) /\ pos[w][k] = "no")
  /\ \/ /\ Queued(w, number[w]) = {}
        /\ tick' = [tick EXCEPT ![w] = "idle"]
        /\ UNCHANGED pos
     \/ /\ Queued(w, number[w]) # {}
        /\ tick' = [tick EXCEPT ![w] = "working"]
        /\ \E S \in SUBSET Queued(w, number[w]) :
             /\ \/ Cardinality(S) = Concurrency
                \/ S = Queued(w, number[w]) /\ Cardinality(S) < Concurrency
             /\ pos' = [pos EXCEPT ![w] = [k \in Keys |-> IF k \in S THEN "beat" ELSE @[k]]]
  /\ UNCHANGED <<handlerVars, docVars, handled, life, number, batch, envVars>>

-----------------------------------------------------------------------------
(* The worker: one event in a lane.                                        *)

Holds(w, k) == status[k] = "processing" /\ lockedBy[k] = w

Goto(w, k, p) == pos' = [pos EXCEPT ![w][k] = p]

\* The lane drops the event and takes the next of its array; with the last lane
\* Promise.all resolves and the tick is over.
NextOfLane(w, k) ==
  \/ \E q \in Queued(w, batch[w][k]) :
       /\ pos' = [pos EXCEPT ![w][k] = "no", ![w][q] = "beat"]
       /\ UNCHANGED tick
  \/ /\ Queued(w, batch[w][k]) = {}
     /\ Goto(w, k, "no")
     /\ \/ /\ batch[w][k] = number[w] /\ tick[w] = "working" /\ Active(w, batch[w][k]) = {k}
           /\ tick' = [tick EXCEPT ![w] = "idle"]
        \/ /\ ~(batch[w][k] = number[w] /\ tick[w] = "working" /\ Active(w, batch[w][k]) = {k})
           /\ UNCHANGED tick

Unlock(k) ==
  /\ lockedBy' = [lockedBy EXCEPT ![k] = None]
  /\ lease' = [lease EXCEPT ![k] = "none"]

\* The heartbeats before and after the processor.
Heartbeat(w, k) ==
  /\ pos[w][k] \in {"beat", "recheck"}
  /\ \/ /\ Holds(w, k)
        /\ lease' = [lease EXCEPT ![k] = "live"]
        /\ Goto(w, k, IF pos[w][k] = "beat" THEN "check" ELSE "mark")
     \/ /\ ~Holds(w, k)
        /\ Goto(w, k, "retry")
        /\ UNCHANGED lease
  /\ UNCHANGED <<handlerVars, status, attempts, deadLetter, lockedBy, due, ingested,
                 handled, life, tick, number, batch, envVars>>

\* Fault seeded for ProcessedIsHandled: a document in processing is skipped too.
CheckProcessedTooSoon(w, k) ==
  /\ pos[w][k] = "check"
  /\ Goto(w, k, IF status[k] \in {"processed", "processing"} THEN "recheck" ELSE "run")
  /\ UNCHANGED <<handlerVars, docVars, handled, life, tick, number, batch, envVars>>

\* processPaymentWebhookIngestEvent reads the document first: processed
\* elsewhere, there is nothing to do.
CheckProcessed(w, k) ==
  /\ pos[w][k] = "check"
  /\ Goto(w, k, IF status[k] = "processed" THEN "recheck" ELSE "run")
  /\ UNCHANGED <<handlerVars, docVars, handled, life, tick, number, batch, envVars>>

HandlerSucceeds(w, k) ==
  /\ pos[w][k] = "run"
  /\ handled' = [handled EXCEPT ![k] = TRUE]
  /\ Goto(w, k, "recheck")
  /\ UNCHANGED <<handlerVars, docVars, life, tick, number, batch, envVars>>

HandlerThrows(w, k) ==
  /\ pos[w][k] = "run"
  /\ Goto(w, k, "retry")
  /\ UNCHANGED <<handlerVars, docVars, handled, life, tick, number, batch, envVars>>

MarkProcessed(w, k) ==
  /\ pos[w][k] = "mark"
  /\ \/ /\ Holds(w, k)
        /\ status' = [status EXCEPT ![k] = "processed"]
        /\ deadLetter' = [deadLetter EXCEPT ![k] = FALSE]
        /\ due' = [due EXCEPT ![k] = TRUE]
        /\ Unlock(k)
     \/ ~Holds(w, k) /\ UNCHANGED <<status, deadLetter, due, lockedBy, lease>>
  /\ NextOfLane(w, k)
  /\ UNCHANGED <<handlerVars, attempts, ingested, handled, life, number, batch, envVars>>

\* Matches on lockedBy alone.  The worker's copy of attempts is the document's
\* for as long as lockedBy is the worker.
MarkRetry(w, k) ==
  /\ pos[w][k] = "retry"
  /\ \/ /\ lockedBy[k] = w
        /\ status' = [status EXCEPT ![k] = "failed"]
        /\ deadLetter' = [deadLetter EXCEPT ![k] = attempts[k] >= DocMax]
        /\ due' = [due EXCEPT ![k] = FALSE]
        /\ Unlock(k)
     \/ lockedBy[k] # w /\ UNCHANGED <<status, deadLetter, due, lockedBy, lease>>
  /\ NextOfLane(w, k)
  /\ UNCHANGED <<handlerVars, attempts, ingested, handled, life, number, batch, envVars>>

\* A heartbeat, the read or the mark throws: the catch block runs markRetry.
StepThrows(w, k) ==
  /\ pos[w][k] \in {"beat", "check", "recheck", "mark"}
  /\ Fault
  /\ Goto(w, k, "retry")
  /\ UNCHANGED <<handlerVars, docVars, handled, life, tick, number, batch>>

\* markRetry throws: the lane is gone, Promise.all rejects and the tick ends
\* while the other lanes of the batch go on; without them nobody reads the rest
\* of the array.
MarkRetryThrows(w, k) ==
  /\ pos[w][k] = "retry"
  /\ Fault
  /\ LET b == batch[w][k]
         lost == IF Active(w, b) = {k} THEN Queued(w, b) \cup {k} ELSE {k}
     IN /\ pos' = [pos EXCEPT ![w] = [q \in Keys |-> IF q \in lost THEN "no" ELSE @[q]]]
        /\ \/ b = number[w] /\ tick[w] = "working" /\ tick' = [tick EXCEPT ![w] = "idle"]
           \/ ~(b = number[w] /\ tick[w] = "working") /\ UNCHANGED tick
  /\ UNCHANGED <<handlerVars, docVars, handled, life, number, batch>>

Work(w, k) ==
  \/ Heartbeat(w, k)
  \/ CheckProcessed(w, k)
  \/ HandlerSucceeds(w, k)
  \/ HandlerThrows(w, k)
  \/ MarkProcessed(w, k)
  \/ MarkRetry(w, k)

-----------------------------------------------------------------------------
(* The worker: shutdown and crash; the clock.                              *)

\* stop(): what the worker holds is handed back; lanes and loop run on.
Stop(w) ==
  /\ life[w] = "up"
  /\ stops < MaxStops /\ stops' = stops + 1
  /\ LET mine == {k \in Keys : Holds(w, k)}
     IN /\ status' = [k \in Keys |-> IF k \in mine THEN "failed" ELSE status[k]]
        /\ lockedBy' = [k \in Keys |-> IF k \in mine THEN None ELSE lockedBy[k]]
        /\ lease' = [k \in Keys |-> IF k \in mine THEN "none" ELSE lease[k]]
        /\ due' = [k \in Keys |-> due[k] /\ k \notin mine]
  /\ life' = [life EXCEPT ![w] = "stopping"]
  /\ UNCHANGED <<handlerVars, attempts, deadLetter, ingested, handled, tick, number,
                 pos, batch, deliveries, faults, crashes>>

GoDown(w) ==
  /\ life' = [life EXCEPT ![w] = "down"]
  /\ tick' = [tick EXCEPT ![w] = "idle"]
  /\ pos' = [pos EXCEPT ![w] = [k \in Keys |-> "no"]]
  /\ UNCHANGED <<handlerVars, docVars, handled, number, batch>>

Exit(w) == life[w] = "stopping" /\ GoDown(w) /\ UNCHANGED envVars

CrashWorker(w) == Alive(w) /\ Kill /\ GoDown(w)

LeaseExpires(k) ==
  /\ lease[k] = "live"
  /\ lease' = [lease EXCEPT ![k] = "expired"]
  /\ UNCHANGED <<handlerVars, status, attempts, deadLetter, lockedBy, due, ingested,
                 handled, workerVars, envVars>>

BackoffElapses(k) ==
  /\ ~due[k]
  /\ due' = [due EXCEPT ![k] = TRUE]
  /\ UNCHANGED <<handlerVars, status, attempts, deadLetter, lockedBy, lease, ingested,
                 handled, workerVars, envVars>>

\* Fault seeded for QueueSpec: failed documents are deleted as well.
CleanupFailed(k) ==
  /\ status[k] \in {"processed", "failed"}
  /\ status' = [status EXCEPT ![k] = "purged"]
  /\ UNCHANGED <<handlerVars, attempts, deadLetter, lockedBy, lease, due, ingested,
                 handled, workerVars, envVars>>

\* cleanupProcessed, two days after the last update.
Cleanup(k) ==
  /\ status[k] = "processed"
  /\ status' = [status EXCEPT ![k] = "purged"]
  /\ UNCHANGED <<handlerVars, attempts, deadLetter, lockedBy, lease, due, ingested,
                 handled, workerVars, envVars>>

-----------------------------------------------------------------------------
Handle(r) ==
  \/ \E n \in Notes : Deliver(r, n)
  \/ ClaimLock(r)
  \/ LockError(r)
  \/ Persist(r)
  \/ PersistError(r)
  \/ CrashRequest(r)

WorkerStep(w) ==
  \/ Start(w)
  \/ Tick(w)
  \/ \E k \in Keys : ClaimOne(w, k)
  \/ ClaimThrows(w)
  \/ Launch(w)
  \/ \E k \in Keys : Work(w, k) \/ StepThrows(w, k) \/ MarkRetryThrows(w, k)
  \/ Stop(w)
  \/ Exit(w)
  \/ CrashWorker(w)

Elapse(k) == LockExpires(k) \/ LeaseExpires(k) \/ BackoffElapses(k) \/ Cleanup(k)

Next ==
  \/ \E r \in Requests : Handle(r)
  \/ \E w \in Workers : WorkerStep(w)
  \/ \E k \in Keys : Elapse(k)

Spec == Init /\ [][Next]_vars

\* Awaited calls return or reject, timers fire, the back-off ends.
Fairness ==
  /\ \A k \in Keys : WF_vars(BackoffElapses(k)) /\ WF_vars(LeaseExpires(k))
  /\ \A w \in Workers :
       /\ WF_vars(Start(w)) /\ WF_vars(Tick(w)) /\ WF_vars(Exit(w))
       /\ WF_vars(Launch(w) \/ \E k \in Keys : ClaimOne(w, k))
       /\ \A k \in Keys : WF_vars(Work(w, k))

FairSpec == Spec /\ Fairness

-----------------------------------------------------------------------------
(* Properties.                                                             *)

TypeOK ==
  /\ acked \subseteq Notes /\ locks \subseteq Keys /\ ingested \subseteq Notes
  /\ req \in [Requests -> Notes \cup {None}]
  /\ at \in [Requests -> {"idle", "lock", "persist"}]
  /\ status \in [Keys -> {"absent", "pending", "processing", "processed", "failed", "purged"}]
  /\ attempts \in [Keys -> 0 .. ClaimMax]
  /\ deadLetter \in [Keys -> BOOLEAN]
  /\ lockedBy \in [Keys -> Workers \cup {None}]
  /\ lease \in [Keys -> {"none", "live", "expired"}]
  /\ due \in [Keys -> BOOLEAN]
  /\ handled \in [Keys -> BOOLEAN]
  /\ life \in [Workers -> {"new", "up", "stopping", "down"}]
  /\ tick \in [Workers -> {"idle", "claiming", "working"}]
  /\ number \in [Workers -> Nat]
  /\ pos \in [Workers -> [Keys -> Positions]]
  /\ batch \in [Workers -> [Keys -> Nat]]
  /\ deliveries \in 0 .. MaxDeliveries /\ faults \in 0 .. MaxFaults
  /\ crashes \in 0 .. MaxCrashes /\ stops \in 0 .. MaxStops

\* An ingest document reads processed only after the processor ended well on
\* it, whoever ran it and whoever marked it (paymentWebhookIngestService.js:226-265).
ProcessedIsHandled ==
  \A k \in Keys : status[k] = "processed" => handled[k]

InFlight(w, k) == pos[w][k] \notin {"no", "queued"}

\* Two workers run the processor on one document at the same time only when one
\* of them was stopped and still runs: neither leases, retries nor a lost lane
\* bring it about (paymentWebhookIngestService.js:113-143, 348-372).
OverlapOnlyAfterStop ==
  \A k \in Keys : \A w, v \in Workers :
    w # v /\ InFlight(w, k) /\ InFlight(v, k)
      => life[w] = "stopping" \/ life[v] = "stopping"

\* The ingest collection is a job queue: one holder at a time, a bounded number
\* of tries, nothing finished is taken again, nothing is given up before its
\* tries are spent, nothing unfinished is deleted (DR_POLICY.md:49-51).
Phase(k) ==
  CASE status[k] = "absent"     -> "absent"
    [] status[k] = "pending"    -> "waiting"
    [] status[k] = "processing" -> "taken"
    [] status[k] = "processed"  -> "done"
    [] status[k] = "purged"     -> "forgotten"
    [] status[k] = "failed"     -> IF deadLetter[k] THEN "dead" ELSE "waiting"

Queue == INSTANCE JobQueue WITH
  Jobs <- Keys, Limit <- ClaimMax, GiveUpAt <- DocMax,
  phase <- [k \in Keys |-> Phase(k)], tries <- attempts

QueueSpec == Queue!JobsSpec

InHand ==
  \A k \in Keys : status[k] = "processing" /\ faults = 0 =>
    life[lockedBy[k]] = "down" \/ pos[lockedBy[k]][k] # "no"

SpentIsDead ==
  \A k \in Keys :
    status[k] \in {"pending", "failed"} /\ attempts[k] >= ClaimMax /\ ~deadLetter[k] => stops > 0

\* A document that is not finished has somebody to finish it.  Without a failing
\* call, one in processing is in the memory of the worker whose name it bears, or
\* that worker is gone: the batch and its lanes drop nothing of themselves.  And
\* one that waits without being dead still has tries left, unless a shutdown
\* handed it back in its last (paymentWebhookIngestService.js:181-224, 267-291, 348-377).
NoOrphans == InHand /\ SpentIsDead

\* "This avoids silently dropping valid webhook events"
\* (paymentController.js:613): what the gateway was told is accepted was ingested.
AckedIsIngested == acked \ Unsupported \subseteq ingested

\* "event should recover after delayed worker restart path"
\* (tests/payment-webhook-ingest.test.js:174): an ingested event is eventually
\* processed or dead-lettered.
IngestedIsSettled ==
  \A k \in Keys :
    status[k] = "pending" ~> status[k] \in {"processed", "purged"} \/ deadLetter[k]
=============================================================================
