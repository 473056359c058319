--------------------------- MODULE PaymentOutbox ---------------------------
(***************************************************************************)
(* The transactional outbox of the payment flow.                           *)
(*                                                                         *)
(* A controller that captures a payment writes an outbox event in the same *)
(* transaction as the order, then performs the side effects itself (the    *)
(* ledger Transaction, the finance audit) and marks the event, without any *)
(* look at who holds it.  Independently every server process runs a worker *)
(* (services/paymentOutboxWorker.js) that claims pending and failed events *)
(* under a lease, replays four downstream targets, each with a find and a  *)
(* create, and finally marks the event; an administrator may send a        *)
(* dead-lettered event back (controllers/outboxReplayAdminController.js).  *)
(*                                                                         *)
(* A step is one call to MongoDB.  Time is abstract: a lease is live until *)
(* LeaseExpires says otherwise.  nextAttemptAt is not a variable: the claim*)
(* filter is an object literal with two $or keys, the second (the lease)   *)
(* replaces the first (the back-off), so no guard of the code reads it.    *)
(***************************************************************************)
EXTENDS Naturals, Sequences, FiniteSets

CONSTANTS
  Events,         \* outbox events
  VerifyEvents,   \* those written by orderController.verifyPayment
  Workers,        \* worker incarnations: a restarted process has a new id
  Mortal,         \* the workers that a crash may hit (controllers: any)
  Admins,         \* requests of the replay endpoint in flight at once
  TargetOrder,    \* keys of TARGET_REPLAYERS, in the order of the loop
  UniqueTargets,  \* targets whose collection has a unique index on the id
  ClaimMax,       \* maxAttemptsDefault of the worker (environment)
  DocMax,         \* maxAttempts of the document (schema default)
  BatchSize,      \* claims of one processOnce
  None,
  MaxFaults,      \* bound: failing database calls
  MaxCrashes,     \* bound: processes killed
  MaxStops,       \* bound: graceful shutdowns
  MaxReplays      \* bound: replay requests of administrators

Targets == {TargetOrder[i] : i \in DOMAIN TargetOrder}

ASSUME OutboxConstants ==
  /\ VerifyEvents \subseteq Events
  /\ UniqueTargets \subseteq Targets
  /\ ClaimMax \in Nat \ {0} /\ DocMax \in Nat \ {0}
  /\ BatchSize \in Nat \ {0}
  /\ MaxFaults \in Nat /\ MaxCrashes \in Nat
  /\ MaxStops \in Nat /\ MaxReplays \in Nat
  /\ None \notin Events \cup Workers \cup Admins
  /\ Workers \cap Admins = {}

VARIABLES
  \* the PaymentOutboxEvent document
  status, attempts, deadLetter, lockedBy, lease, completedTargets, requeued,
  \* downstream documents written for an event, per target
  rows,
  \* the controller that wrote the event: its position, and how its own
  \* try block over the side effects ended
  prod, inline,
  \* the workers: life cycle, loop iterations left, event and position,
  \* local copy of completedTargets
  life, slots, job, pc, done,
  \* the event each replay request has claimed
  adm,
  \* what the environment has spent of its bounds
  faults, crashes, stops, replays

docVars    == <<status, attempts, deadLetter, lockedBy, lease, completedTargets, requeued>>
prodVars   == <<prod, inline>>
workerVars == <<life, slots, job, pc, done>>
envVars    == <<faults, crashes, stops, replays>>
adminVars  == <<adm>>
vars == <<docVars, rows, prodVars, workerVars, adminVars, envVars>>

Statuses == {"absent", "pending", "processing", "processed", "failed", "purged"}

Init ==
  /\ status = [e \in Events |-> "absent"]
  /\ attempts = [e \in Events |-> 0]
  /\ deadLetter = [e \in Events |-> FALSE]
  /\ lockedBy = [e \in Events |-> None]
  /\ lease = [e \in Events |-> "none"]
  /\ completedTargets = [e \in Events |-> {}]
  /\ requeued = [e \in Events |-> FALSE]
  /\ rows = [e \in Events |-> [t \in Targets |-> 0]]
  /\ prod = [e \in Events |-> "idle"]
  /\ inline = [e \in Events |-> "none"]
  /\ life = [w \in Workers |-> "new"]
  /\ slots = [w \in Workers |-> 0]
  /\ job = [w \in Workers |-> None]
  /\ pc = [w \in Workers |-> "idle"]
  /\ done = [w \in Workers |-> {}]
  /\ adm = [a \in Admins |-> None]
  /\ faults = 0 /\ crashes = 0 /\ stops = 0 /\ replays = 0

Fault == faults < MaxFaults /\ faults' = faults + 1 /\ UNCHANGED <<crashes, stops, replays>>
Kill  == crashes < MaxCrashes /\ crashes' = crashes + 1 /\ UNCHANGED <<faults, stops, replays>>

-----------------------------------------------------------------------------
(* The controller: commit, side effects, unguarded marks.                  *)

\* The payment transaction commits the order and the pending event together.
CommitPayment(e) ==
  /\ status[e] = "absent" /\ prod[e] = "idle"
  /\ status' = [status EXCEPT ![e] = "pending"]
  /\ prod' = [prod EXCEPT ![e] = "effects"]
  /\ UNCHANGED <<attempts, deadLetter, lockedBy, lease, completedTargets, requeued,
                 rows, inline, workerVars, adminVars, envVars>>

\* The ledger row and the audit row are written.
InlineEffects(e) ==
  /\ prod[e] = "effects"
  /\ inline' = [inline EXCEPT ![e] = "ok"]
  /\ prod' = [prod EXCEPT ![e] = IF e \in VerifyEvents THEN "after" ELSE "markProcessed"]
  /\ UNCHANGED <<docVars, rows, workerVars, adminVars, envVars>>

\* Fault seeded for WebhookProcessedIsCovered: the catch block is empty.
InlineEffectsFailSwallowed(e) ==
  /\ prod[e] = "effects"
  /\ Fault
  /\ inline' = [inline EXCEPT ![e] = "failed"]
  /\ prod' = [prod EXCEPT ![e] = "markProcessed"]
  /\ UNCHANGED <<docVars, rows, workerVars, adminVars>>

InlineEffectsFail(e) ==
  /\ prod[e] = "effects"
  /\ Fault
  /\ inline' = [inline EXCEPT ![e] = "failed"]
  /\ prod' = [prod EXCEPT ![e] = "markFailed"]
  /\ UNCHANGED <<docVars, rows, workerVars, adminVars>>

\* updateOne({eventId}, {status}): neither the status nor the lease is looked
\* at, and the lock fields stay as they are.  A deleted event does not match.
SetStatus(e, s) ==
  status' = IF status[e] = "purged" THEN status ELSE [status EXCEPT ![e] = s]

InlineMarkFailed(e) ==
  /\ prod[e] = "markFailed"
  /\ SetStatus(e, "failed")
  /\ prod' = [prod EXCEPT ![e] = IF e \in VerifyEvents THEN "after" ELSE "end"]
  /\ UNCHANGED <<attempts, deadLetter, lockedBy, lease, completedTargets, requeued,
                 rows, inline, workerVars, adminVars, envVars>>

InlineMarkProcessed(e) ==
  /\ prod[e] = "markProcessed"
  /\ SetStatus(e, "processed")
  /\ prod' = [prod EXCEPT ![e] = "end"]
  /\ UNCHANGED <<attempts, deadLetter, lockedBy, lease, completedTargets, requeued,
                 rows, inline, workerVars, adminVars, envVars>>

\* A mark that throws: the webhook handler's sits in the try block, so its
\* catch marks the event failed; everywhere else the request ends there.
InlineMarkThrows(e) ==
  /\ prod[e] \in {"markProcessed", "markFailed"}
  /\ Fault
  /\ \/ /\ prod[e] = "markProcessed" /\ e \notin VerifyEvents
        /\ prod' = [prod EXCEPT ![e] = "markFailed"]
        /\ inline' = [inline EXCEPT ![e] = "failed"]
     \/ /\ prod[e] = "markFailed" \/ e \in VerifyEvents
        /\ prod' = [prod EXCEPT ![e] = "end"]
        /\ UNCHANGED inline
  /\ UNCHANGED <<docVars, rows, workerVars, adminVars>>

\* verifyPayment after its try block: the referral reward and the invoice job,
\* then the event is marked processed whatever the try block did.
VerifyRewards(e) ==
  /\ prod[e] = "after"
  /\ prod' = [prod EXCEPT ![e] = "markProcessed"]
  /\ UNCHANGED <<docVars, rows, inline, workerVars, adminVars, envVars>>

VerifyRewardsThrow(e) ==
  /\ prod[e] = "after"
  /\ Fault
  /\ prod' = [prod EXCEPT ![e] = "end"]
  /\ UNCHANGED <<docVars, rows, inline, workerVars, adminVars>>

CrashController(e) ==
  /\ prod[e] \notin {"idle", "end"}
  /\ Kill
  /\ prod' = [prod EXCEPT ![e] = "end"]
  /\ UNCHANGED <<docVars, rows, inline, workerVars, adminVars>>

Controller(e) ==
  \/ CommitPayment(e)
  \/ InlineEffects(e)
  \/ InlineMarkFailed(e)
  \/ InlineMarkProcessed(e)
  \/ VerifyRewards(e)

-----------------------------------------------------------------------------
(* The worker.                                                             *)

Start(w) ==
  /\ life[w] = "new"
  /\ life' = [life EXCEPT ![w] = "up"]
  /\ UNCHANGED <<docVars, rows, prodVars, slots, job, pc, done, adminVars, envVars>>

\* The poll timer fires: processOnce may claim up to BatchSize events in turn.
Tick(w) ==
  /\ life[w] = "up" /\ pc[w] = "idle" /\ slots[w] = 0
  /\ slots' = [slots EXCEPT ![w] = BatchSize]
  /\ UNCHANGED <<docVars, rows, prodVars, life, job, pc, done, adminVars, envVars>>

\* Faults seeded into the claim filter: no cap on the attempts; leases that ran
\* out are taken over; failed events are forgotten; pending ones are.
ClaimableUncapped(e) ==
  status[e] \in {"pending", "failed"} /\ ~deadLetter[e] /\ lease[e] # "live"

ClaimableByLease(e) ==
  /\ status[e] \in {"pending", "failed", "processing"}
  /\ ~deadLetter[e]
  /\ attempts[e] < ClaimMax
  /\ lease[e] # "live"

ClaimablePendingOnly(e) ==
  status[e] = "pending" /\ ~deadLetter[e] /\ attempts[e] < ClaimMax /\ lease[e] # "live"

ClaimableFailedOnly(e) ==
  status[e] = "failed" /\ ~deadLetter[e] /\ attempts[e] < ClaimMax /\ lease[e] # "live"

Claimable(e) ==
  /\ status[e] \in {"pending", "failed"}
  /\ ~deadLetter[e]
  /\ attempts[e] < ClaimMax
  /\ lease[e] # "live"

\* The loop does not look at `running`: a stopping worker claims on.
ClaimOne(w, e) ==
  /\ life[w] \in {"up", "stopping"} /\ pc[w] = "idle" /\ slots[w] > 0
  /\ Claimable(e)
  /\ status' = [status EXCEPT ![e] = "processing"]
  /\ lockedBy' = [lockedBy EXCEPT ![e] = w]
  /\ lease' = [lease EXCEPT ![e] = "live"]
  /\ attempts' = [attempts EXCEPT ![e] = @ + 1]
  /\ job' = [job EXCEPT ![w] = e]
  /\ pc' = [pc EXCEPT ![w] = "next"]
  /\ done' = [done EXCEPT ![w] = completedTargets[e]]
  /\ slots' = [slots EXCEPT ![w] = @ - 1]
  /\ UNCHANGED <<deadLetter, completedTargets, requeued, rows, prodVars, life, adminVars, envVars>>

NoWork(w) ==
  /\ life[w] \in {"up", "stopping"} /\ pc[w] = "idle" /\ slots[w] > 0
  /\ \A e \in Events : ~Claimable(e)
  /\ slots' = [slots EXCEPT ![w] = 0]
  /\ UNCHANGED <<docVars, rows, prodVars, life, job, pc, done, adminVars, envVars>>

\* The first target of the loop that the worker's copy does not hold.
IsNextTarget(w, t) ==
  \E i \in DOMAIN TargetOrder :
    /\ TargetOrder[i] = t
    /\ t \notin done[w]
    /\ \A j \in 1 .. i - 1 : TargetOrder[j] \in done[w]

\* Whether the heartbeat, markProcessed and progress writes match the event.
Holds(w) == status[job[w]] = "processing" /\ lockedBy[job[w]] = w

\* replayFn: the find.
FindTarget(w) ==
  /\ pc[w] = "next"
  /\ \E t \in Targets :
       /\ IsNextTarget(w, t)
       /\ \/ /\ rows[job[w]][t] > 0
             /\ done' = [done EXCEPT ![w] = @ \cup {t}]
             /\ pc' = [pc EXCEPT ![w] = "record"]
          \/ /\ rows[job[w]][t] = 0
             /\ pc' = [pc EXCEPT ![w] = "create"]
             /\ UNCHANGED done
  /\ UNCHANGED <<docVars, rows, prodVars, life, slots, job, adminVars, envVars>>

\* Fault seeded for KeepsItsPromise: the collections lose their unique index.
CreateTargetNoIndex(w) ==
  /\ pc[w] = "create"
  /\ \E t \in Targets :
       /\ IsNextTarget(w, t)
       /\ rows' = [rows EXCEPT ![job[w]][t] = @ + 1]
       /\ done' = [done EXCEPT ![w] = @ \cup {t}]
  /\ pc' = [pc EXCEPT ![w] = "record"]
  /\ UNCHANGED <<docVars, prodVars, life, slots, job, adminVars, envVars>>

\* replayFn: the create.  A unique index makes a second one throw.
CreateTarget(w) ==
  /\ pc[w] = "create"
  /\ \E t \in Targets :
       /\ IsNextTarget(w, t)
       /\ \/ /\ t \in UniqueTargets /\ rows[job[w]][t] > 0
             /\ pc' = [pc EXCEPT ![w] = "retry"]
             /\ UNCHANGED <<rows, done>>
          \/ /\ t \notin UniqueTargets \/ rows[job[w]][t] = 0
             /\ rows' = [rows EXCEPT ![job[w]][t] = @ + 1]
             /\ done' = [done EXCEPT ![w] = @ \cup {t}]
             /\ pc' = [pc EXCEPT ![w] = "record"]
  /\ UNCHANGED <<docVars, prodVars, life, slots, job, adminVars, envVars>>

\* Fault seeded for ProgressIsKept: the write matches on the id alone.
RecordTargetUnguarded(w) ==
  /\ pc[w] = "record"
  /\ completedTargets' = [completedTargets EXCEPT ![job[w]] = done[w]]
  /\ pc' = [pc EXCEPT ![w] = "next"]
  /\ UNCHANGED <<status, attempts, deadLetter, lockedBy, lease, requeued,
                 rows, prodVars, life, slots, job, done, adminVars, envVars>>

RecordTarget(w) ==
  /\ pc[w] = "record"
  /\ completedTargets' = IF Holds(w) THEN [completedTargets EXCEPT ![job[w]] = done[w]]
                                     ELSE completedTargets
  /\ pc' = [pc EXCEPT ![w] = "next"]
  /\ UNCHANGED <<status, attempts, deadLetter, lockedBy, lease, requeued,
                 rows, prodVars, life, slots, job, done, adminVars, envVars>>

\* The timer of processEvent, every third of the lease.
HeartbeatTimer(w) ==
  /\ job[w] # None /\ Holds(w) /\ lease[job[w]] # "live"
  /\ lease' = [lease EXCEPT ![job[w]] = "live"]
  /\ UNCHANGED <<status, attempts, deadLetter, lockedBy, completedTargets, requeued,
                 rows, prodVars, workerVars, adminVars, envVars>>

\* The heartbeat after the last target decides between the two marks.
FinalHeartbeat(w) ==
  /\ pc[w] = "next" /\ Targets \subseteq done[w]
  /\ \/ /\ Holds(w)
        /\ lease' = [lease EXCEPT ![job[w]] = "live"]
        /\ pc' = [pc EXCEPT ![w] = "mark"]
     \/ /\ ~Holds(w)
        /\ pc' = [pc EXCEPT ![w] = "retry"]
        /\ UNCHANGED lease
  /\ UNCHANGED <<status, attempts, deadLetter, lockedBy, completedTargets, requeued,
                 rows, prodVars, life, slots, job, done, adminVars, envVars>>

\* The event leaves the worker.
Release(w) ==
  /\ job' = [job EXCEPT ![w] = None]
  /\ pc' = [pc EXCEPT ![w] = "idle"]
  /\ done' = [done EXCEPT ![w] = {}]

Unlock(e) ==
  /\ lockedBy' = [lockedBy EXCEPT ![e] = None]
  /\ lease' = [lease EXCEPT ![e] = "none"]

\* Fault seeded for StrandedIsBounded: the mark matches live leases only.
MarkProcessedByLease(w) ==
  /\ pc[w] = "mark"
  /\ \/ /\ Holds(w) /\ lease[job[w]] = "live"
        /\ status' = [status EXCEPT ![job[w]] = "processed"]
        /\ deadLetter' = [deadLetter EXCEPT ![job[w]] = FALSE]
        /\ Unlock(job[w])
     \/ /\ ~(Holds(w) /\ lease[job[w]] = "live")
        /\ UNCHANGED <<status, deadLetter, lockedBy, lease>>
  /\ Release(w)
  /\ UNCHANGED <<attempts, completedTargets, requeued, rows, prodVars, life, slots, adminVars, envVars>>

MarkProcessed(w) ==
  /\ pc[w] = "mark"
  /\ \/ /\ Holds(w)
        /\ status' = [status EXCEPT ![job[w]] = "processed"]
        /\ deadLetter' = [deadLetter EXCEPT ![job[w]] = FALSE]
        /\ Unlock(job[w])
     \/ ~Holds(w) /\ UNCHANGED <<status, deadLetter, lockedBy, lease>>
  /\ Release(w)
  /\ UNCHANGED <<attempts, completedTargets, requeued, rows, prodVars, life, slots, adminVars, envVars>>

\* Fault seeded for DeadLetterIsExhausted: the attempt is counted twice.
MarkRetryEarly(w) ==
  /\ pc[w] = "retry"
  /\ IF lockedBy[job[w]] = w /\ status[job[w]] # "purged"
     THEN /\ status' = [status EXCEPT ![job[w]] = "failed"]
          /\ deadLetter' = [deadLetter EXCEPT ![job[w]] = attempts[job[w]] + 1 >= DocMax]
          /\ Unlock(job[w])
     ELSE UNCHANGED <<status, deadLetter, lockedBy, lease>>
  /\ Release(w)
  /\ UNCHANGED <<attempts, completedTargets, requeued, rows, prodVars, life, slots, adminVars, envVars>>

\* Matches on lockedBy alone, not on the status.  The worker's copy of
\* attempts is the document's for as long as lockedBy is the worker.
MarkRetry(w) ==
  /\ pc[w] = "retry"
  /\ \/ /\ lockedBy[job[w]] = w /\ status[job[w]] # "purged"
        /\ status' = [status EXCEPT ![job[w]] = "failed"]
        /\ deadLetter' = [deadLetter EXCEPT ![job[w]] = attempts[job[w]] >= DocMax]
        /\ Unlock(job[w])
     \/ /\ lockedBy[job[w]] # w \/ status[job[w]] = "purged"
        /\ UNCHANGED <<status, deadLetter, lockedBy, lease>>
  /\ Release(w)
  /\ UNCHANGED <<attempts, completedTargets, requeued, rows, prodVars, life, slots, adminVars, envVars>>

\* Any call of the try block throws: the catch block runs markRetry.
StepThrows(w) ==
  /\ pc[w] \in {"next", "create", "record", "mark"}
  /\ Fault
  /\ pc' = [pc EXCEPT ![w] = "retry"]
  /\ UNCHANGED <<docVars, rows, prodVars, life, slots, job, done, adminVars>>

\* markRetry itself throws: processOnce and tick give up, nothing is written.
MarkRetryThrows(w) ==
  /\ pc[w] = "retry"
  /\ Fault
  /\ Release(w)
  /\ slots' = [slots EXCEPT ![w] = 0]
  /\ UNCHANGED <<docVars, rows, prodVars, life, adminVars>>

Work(w) ==
  \/ FindTarget(w)
  \/ CreateTarget(w)
  \/ RecordTarget(w)
  \/ FinalHeartbeat(w)
  \/ MarkProcessed(w)
  \/ MarkRetry(w)

\* stop(): in-flight events are handed back, the loop runs on until the exit.
Stop(w) ==
  /\ life[w] = "up"
  /\ stops < MaxStops /\ stops' = stops + 1
  /\ LET mine == {e \in Events : status[e] = "processing" /\ lockedBy[e] = w}
     IN /\ status' = [e \in Events |-> IF e \in mine THEN "failed" ELSE status[e]]
        /\ lockedBy' = [e \in Events |-> IF e \in mine THEN None ELSE lockedBy[e]]
        /\ lease' = [e \in Events |-> IF e \in mine THEN "none" ELSE lease[e]]
  /\ life' = [life EXCEPT ![w] = "stopping"]
  /\ UNCHANGED <<attempts, deadLetter, completedTargets, requeued, rows, prodVars,
                 slots, job, pc, done, adminVars, faults, crashes, replays>>

GoDown(w) ==
  /\ life' = [life EXCEPT ![w] = "down"]
  /\ slots' = [slots EXCEPT ![w] = 0]
  /\ Release(w)
  /\ UNCHANGED <<docVars, rows, prodVars, adminVars>>

\* process.exit at the end of the graceful shutdown.
Exit(w) == life[w] = "stopping" /\ GoDown(w) /\ UNCHANGED envVars

CrashWorker(w) ==
  w \in Mortal /\ life[w] \in {"up", "stopping"} /\ Kill /\ GoDown(w)

LeaseExpires(e) ==
  /\ lease[e] = "live"
  /\ lease' = [lease EXCEPT ![e] = "expired"]
  /\ UNCHANGED <<status, attempts, deadLetter, lockedBy, completedTargets, requeued,
                 rows, prodVars, workerVars, adminVars, envVars>>

\* cleanupCompleted, three days after the event was processed.
Cleanup(e) ==
  /\ status[e] = "processed"
  /\ status' = [status EXCEPT ![e] = "purged"]
  /\ UNCHANGED <<attempts, deadLetter, lockedBy, lease, completedTargets, requeued,
                 rows, prodVars, workerVars, adminVars, envVars>>

-----------------------------------------------------------------------------
(* The replay endpoint for administrators.                                 *)

\* The filter has two $or keys again: the cool-down replaces the lease.
ReplayClaim(a, e) ==
  /\ adm[a] = None
  /\ replays < MaxReplays /\ replays' = replays + 1
  /\ deadLetter[e] /\ status[e] \in {"failed", "pending"}
  /\ status' = [status EXCEPT ![e] = "processing"]
  /\ lockedBy' = [lockedBy EXCEPT ![e] = a]
  /\ lease' = [lease EXCEPT ![e] = "live"]
  /\ adm' = [adm EXCEPT ![a] = e]
  /\ UNCHANGED <<attempts, deadLetter, completedTargets, requeued, rows, prodVars,
                 workerVars, faults, crashes, stops>>

\* updateOne({_id}), whoever holds the event by now: requeued with its
\* attempts kept, and marked.  The limit on manual replays is never met:
\* their count is read as a property of a Mongoose Map, which has none, so
\* the mark is "1" after every replay.
ReplayRequeue(a) ==
  /\ adm[a] # None
  /\ adm' = [adm EXCEPT ![a] = None]
  /\ \/ /\ status[adm[a]] = "purged"
        /\ UNCHANGED docVars
     \/ /\ status[adm[a]] # "purged"
        /\ status' = [status EXCEPT ![adm[a]] = "pending"]
        /\ deadLetter' = [deadLetter EXCEPT ![adm[a]] = FALSE]
        /\ requeued' = [requeued EXCEPT ![adm[a]] = TRUE]
        /\ Unlock(adm[a])
        /\ UNCHANGED <<attempts, completedTargets>>
  /\ UNCHANGED <<rows, prodVars, workerVars, envVars>>

\* The server dies, or the second write throws, between the two writes.
ReplayLost(a) ==
  /\ adm[a] # None
  /\ Kill
  /\ adm' = [adm EXCEPT ![a] = None]
  /\ UNCHANGED <<docVars, rows, prodVars, workerVars>>

-----------------------------------------------------------------------------
ControllerStep(e) ==
  \/ Controller(e)
  \/ InlineEffectsFail(e)
  \/ InlineMarkThrows(e)
  \/ VerifyRewardsThrow(e)
  \/ CrashController(e)

WorkerStep(w) ==
  \/ Start(w)
  \/ Tick(w)
  \/ \E e \in Events : ClaimOne(w, e)
  \/ NoWork(w)
  \/ Work(w)
  \/ HeartbeatTimer(w)
  \/ StepThrows(w)
  \/ MarkRetryThrows(w)
  \/ Stop(w)
  \/ Exit(w)
  \/ CrashWorker(w)

AdminStep(a) ==
  \/ \E e \in Events : ReplayClaim(a, e)
  \/ ReplayRequeue(a)
  \/ ReplayLost(a)

Next ==
  \/ \E e \in Events : ControllerStep(e) \/ LeaseExpires(e) \/ Cleanup(e)
  \/ \E w \in Workers : WorkerStep(w)
  \/ \E a \in Admins : AdminStep(a)

Spec == Init /\ [][Next]_vars

\* Timers fire, awaited calls return or reject, time passes.  Nothing is
\* assumed of faults, crashes, shutdowns and administrators.
Fairness ==
  /\ \A e \in Events : WF_vars(Controller(e)) /\ WF_vars(LeaseExpires(e))
  /\ \A w \in Workers :
       /\ WF_vars(Start(w)) /\ WF_vars(Tick(w)) /\ WF_vars(NoWork(w))
       /\ WF_vars(\E e \in Events : ClaimOne(w, e))
       /\ WF_vars(Work(w)) /\ WF_vars(Exit(w))
  /\ \A a \in Admins : WF_vars(ReplayRequeue(a))

FairSpec == Spec /\ Fairness

-----------------------------------------------------------------------------
(* Properties.                                                             *)

TypeOK ==
  /\ status \in [Events -> Statuses]
  /\ attempts \in [Events -> 0 .. ClaimMax]
  /\ deadLetter \in [Events -> BOOLEAN]
  /\ lockedBy \in [Events -> Workers \cup Admins \cup {None}]
  /\ lease \in [Events -> {"none", "live", "expired"}]
  /\ completedTargets \in [Events -> SUBSET Targets]
  /\ requeued \in [Events -> BOOLEAN]
  /\ rows \in [Events -> [Targets -> Nat]]
  /\ prod \in [Events -> {"idle", "effects", "markProcessed", "markFailed", "after", "end"}]
  /\ inline \in [Events -> {"none", "ok", "failed"}]
  /\ life \in [Workers -> {"new", "up", "stopping", "down"}]
  /\ slots \in [Workers -> 0 .. BatchSize]
  /\ job \in [Workers -> Events \cup {None}]
  /\ pc \in [Workers -> {"idle", "next", "create", "record", "mark", "retry"}]
  /\ done \in [Workers -> SUBSET Targets]
  /\ adm \in [Admins -> Events \cup {None}]
  /\ faults \in 0 .. MaxFaults /\ crashes \in 0 .. MaxCrashes
  /\ stops \in 0 .. MaxStops /\ replays \in 0 .. MaxReplays

\* Whether the side effects of the payment exist: the controller's own, or
\* the four targets of the worker.
Covered(e) == inline[e] = "ok" \/ \A t \in Targets : rows[e][t] > 0

\* The outbox keeps its promise to the payment webhook: an event may only read
\* processed when its side effects exist, through the handler itself or through
\* a worker's replay, in every order of the two (paymentController.js:326-361,
\* paymentOutboxWorker.js:307-331).
WebhookProcessedIsCovered ==
  \A e \in Events \ VerifyEvents : status[e] = "processed" => Covered(e)

\* The progress an event records is never ahead of what was written: a target
\* in completedTargets has its downstream document, so skipping it on the next
\* attempt loses nothing (paymentOutboxWorker.js:311-330).
CompletedHaveRows ==
  \A e \in Events : \A t \in completedTargets[e] : rows[e][t] > 0

\* Targets behind a unique index are written once, however many workers,
\* retries and takeovers an event sees (paymentOutboxWorker.js:120-168).
UniqueTargetsOnce ==
  \A e \in Events : \A t \in UniqueTargets : rows[e][t] <= 1

InFlight(w, e) == job[w] = e

\* Two workers replay one event at the same time only when one of them is on
\* its way out (stop() handed its event back while it still runs) or when the
\* controller marked the event failed under the holder; never through the
\* lease, the retries or the replay endpoint (paymentOutboxWorker.js:195-221,
\* 480-504, "only one worker should process the same event").
OverlapOnlyAfterTakeover ==
  \A e \in Events : \A w, v \in Workers :
    w # v /\ InFlight(w, e) /\ InFlight(v, e)
      => life[w] = "stopping" \/ life[v] = "stopping" \/ inline[e] = "failed"

DeadIsSpent ==
  \A e \in Events : deadLetter[e] => attempts[e] >= DocMax /\ lockedBy[e] \notin Workers

SpentIsDead ==
  \A e \in Events :
    status[e] \in {"pending", "failed"} /\ attempts[e] >= ClaimMax /\ ~deadLetter[e]
      => stops > 0 \/ requeued[e] \/ inline[e] = "failed"

\* An event is given up only after all its attempts, and it stays claimable by
\* an administrator alone: no worker holds it.  And an event whose attempts are
\* spent is given up: one that no claim finds any more although it reads
\* pending or failed was handed back by a shutdown, requeued by an administrator
\* or marked failed by its controller (paymentOutboxWorker.js:259-305, 480-504,
\* outboxReplayAdminController.js:154-170).
DeadLetterIsExhausted == DeadIsSpent /\ SpentIsDead

\* What an attempt has completed is never forgotten, whatever copy of the event
\* a slow worker still holds (paymentOutboxWorker.js:326-329).
ProgressIsKept ==
  [][\A e \in Events : completedTargets[e] \subseteq completedTargets'[e]]_vars

\* An event in processing is in the hands of the worker or the administrator
\* whose name it bears.
Tended(e) ==
  \/ \E w \in Workers : lockedBy[e] = w /\ job[w] = e
  \/ \E a \in Admins : lockedBy[e] = a /\ adm[a] = e

Stranded == {e \in Events : status[e] = "processing" /\ ~Tended(e)}

\* An event that stays in processing with nobody at work on it, which no claim
\* ever finds again, is the loss of one failing call, one kill or one shutdown:
\* the marks, the takeovers and the replay endpoint strand none by themselves
\* (paymentOutboxWorker.js:195-221, 237-305, 480-504).
StrandedIsBounded == Cardinality(Stranded) <= faults + crashes + stops

\* The outbox keeps the promise of EffectQueue (paymentOutboxWorker.js:62-504,
\* paymentController.js:300-361, outboxReplayAdminController.js:42-219).
Phase(e) ==
  CASE status[e] = "absent"                -> "absent"
    [] status[e] \in {"pending", "failed"} -> IF deadLetter[e] THEN "dead" ELSE "waiting"
    [] status[e] = "processing"            -> "taken"
    [] status[e] = "processed"             -> "done"
    [] status[e] = "purged"                -> "forgotten"

Effects == INSTANCE EffectQueue WITH
  Jobs <- Events, Sworn <- Events \ VerifyEvents, Effects <- Targets,
  Once <- UniqueTargets, Limit <- ClaimMax, GiveUpAt <- DocMax,
  phase <- [e \in Events |-> Phase(e)], tries <- attempts,
  own <- [e \in Events |-> inline[e] = "ok"],
  produced <- rows, recorded <- completedTargets

KeepsItsPromise == Effects!EffectsSpec

\* A committed event is eventually processed or given up, when nobody dies,
\* stops or loses a status write (server.js:634-646).
EventuallySettled ==
  \A e \in Events :
    status[e] = "pending" ~> status[e] \in {"processed", "purged"} \/ deadLetter[e]

\* "durable outbox replay worker recovers missed side effects after
\* crashes/restarts" (server.js:634-635): when the controller is gone after its
\* commit, the side effects are eventually there all the same.
RecoversMissedEffects ==
  \A e \in Events \ VerifyEvents :
    status[e] # "absent" /\ prod[e] = "end" ~> Covered(e)
=============================================================================
