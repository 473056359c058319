------------------------ MODULE WebhookIngest_proofs ------------------------
(***************************************************************************)
(* Proofs about WebhookIngest, for any number of notifications, payments,  *)
(* requests, workers, lanes and attempts.                                  *)
(***************************************************************************)
EXTENDS WebhookIngest, TLAPS

\* A request that is being handled is about a notification.
Placed == \A r \in Requests : at[r] # "idle" => req[r] \in Notes

\* What happens to the positions of a worker's events in one step: the table of
\* another worker stays, and an event outside memory does not come in.
Moves(w) ==
  /\ pos' \in [Workers -> [Keys -> Positions]]
  /\ \A v \in Workers, k \in Keys : v # w => pos'[v][k] = pos[v][k]
  /\ \A k \in Keys : pos[w][k] = "no" => pos'[w][k] = "no"

LEMMA GotoMoves ==
  ASSUME TypeOK, NEW w \in Workers, NEW k \in Keys, pos[w][k] # "no",
         NEW p \in Positions, Goto(w, k, p)
  PROVE  /\ Moves(w) /\ pos'[w][k] = p
         /\ \A q \in Keys : q # k => pos'[w][q] = pos[w][q]
<1>1. pos \in [Workers -> [Keys -> Positions]]
  BY DEF TypeOK
<1>2. pos' = [pos EXCEPT ![w] = [pos[w] EXCEPT ![k] = p]]
  BY DEF Goto
<1>3. [pos[w] EXCEPT ![k] = p] \in [Keys -> Positions]
  BY <1>1
<1>4. QED
  BY <1>1, <1>2, <1>3 DEF Moves

LEMMA NextOfLaneMoves ==
  ASSUME TypeOK, NEW w \in Workers, NEW k \in Keys, pos[w][k] # "no", NextOfLane(w, k)
  PROVE  /\ Moves(w) /\ tick' \in [Workers -> {"idle", "claiming", "working"}]
         /\ \A q \in Keys : pos'[w][q] \in {"no", "beat", pos[w][q]}
         /\ pos'[w][k] \in {"no", "beat"}
<1>1. /\ pos \in [Workers -> [Keys -> Positions]]
      /\ tick \in [Workers -> {"idle", "claiming", "working"}]
  BY DEF TypeOK
<1>2. tick' = tick \/ tick' = [tick EXCEPT ![w] = "idle"]
  BY DEF NextOfLane
<1>3. CASE Goto(w, k, "no")
  BY <1>1, <1>2, <1>3, GotoMoves DEF Positions
<1>4. ASSUME NEW q \in Queued(w, batch[w][k]),
             pos' = [pos EXCEPT ![w][k] = "no", ![w][q] = "beat"]
      PROVE  /\ Moves(w)
             /\ \A j \in Keys : pos'[w][j] \in {"no", "beat", pos[w][j]}
             /\ pos'[w][k] \in {"no", "beat"}
  <2>1. q \in Keys /\ pos[w][q] = "queued"
    BY <1>4 DEF Queued
  <2>2. pos' = [pos EXCEPT ![w] = [[pos[w] EXCEPT ![k] = "no"] EXCEPT ![q] = "beat"]]
    BY <1>1, <1>4
  <2>3. [[pos[w] EXCEPT ![k] = "no"] EXCEPT ![q] = "beat"] \in [Keys -> Positions]
    BY <1>1, <2>1 DEF Positions
  <2>4. QED
    BY <1>1, <2>1, <2>2, <2>3 DEF Moves
<1>5. QED
  BY <1>1, <1>2, <1>3, <1>4 DEF NextOfLane

Basic == TypeOK /\ Placed

LEMMA BasicStep == Basic /\ [Next]_vars => Basic'
<1> SUFFICES ASSUME TypeOK, Placed, [Next]_vars
             PROVE  TypeOK' /\ Placed'
  BY DEF Basic
<1> USE IngestConstants
    DEF TypeOK, Placed, vars, handlerVars, docVars, workerVars, envVars
<1>1. ASSUME NEW r \in Requests, NEW n \in Notes, Deliver(r, n)
      PROVE  TypeOK' /\ Placed'
  BY <1>1 DEF Deliver
<1>2. ASSUME NEW r \in Requests, ClaimLock(r)
      PROVE  TypeOK' /\ Placed'
  <2>1. /\ req[r] \in Notes /\ KeyOf[req[r]] \in Keys
        /\ acked' = acked \/ acked' = acked \cup {req[r]}
        /\ locks' = locks \/ locks' = locks \cup {KeyOf[req[r]]}
    BY <1>2 DEF ClaimLock
  <2>2. /\ req' = req \/ req' = [req EXCEPT ![r] = None]
        /\ \/ at' = [at EXCEPT ![r] = "persist"] /\ req' = req
           \/ at' = [at EXCEPT ![r] = "idle"]
    BY <1>2 DEF ClaimLock, Respond
  <2>3. UNCHANGED <<docVars, handled, workerVars, envVars>>
    BY <1>2 DEF ClaimLock
  <2>4. req' \in [Requests -> Notes \cup {None}] /\ at' \in [Requests -> {"idle", "lock", "persist"}]
    BY <2>2
  <2>5. Placed'
    BY <1>2, <2>1 DEF ClaimLock, Respond
  <2>6. QED
    BY <2>1, <2>3, <2>4, <2>5
<1>3. ASSUME NEW r \in Requests, LockError(r)
      PROVE  TypeOK' /\ Placed'
  BY <1>3 DEF LockError, Respond, Fault
<1>4. ASSUME NEW r \in Requests, Persist(r)
      PROVE  TypeOK' /\ Placed'
  <2>1. req[r] \in Notes /\ KeyOf[req[r]] \in Keys
    BY <1>4 DEF Persist
  <2>2. /\ req' = [req EXCEPT ![r] = None] /\ at' = [at EXCEPT ![r] = "idle"]
        /\ acked' = acked \cup {req[r]} /\ ingested' \in {ingested, ingested \cup {req[r]}}
        /\ UNCHANGED <<locks, deadLetter, lockedBy, lease, workerVars, envVars>>
    BY <1>4 DEF Persist, Respond
  <2>3. /\ status' = status \/ status' = [status EXCEPT ![KeyOf[req[r]]] = "pending"]
        /\ attempts' = attempts \/ attempts' = [attempts EXCEPT ![KeyOf[req[r]]] = 0]
    BY <1>4 DEF Persist
  <2>4. /\ due' = due \/ due' = [due EXCEPT ![KeyOf[req[r]]] = TRUE]
        /\ handled' = handled \/ handled' = [handled EXCEPT ![KeyOf[req[r]]] = FALSE]
    BY <1>4 DEF Persist
  <2>5. /\ status' \in [Keys -> {"absent", "pending", "processing", "processed", "failed", "purged"}]
        /\ attempts' \in [Keys -> 0 .. ClaimMax]
    BY <2>3
  <2>6. due' \in [Keys -> BOOLEAN] /\ handled' \in [Keys -> BOOLEAN]
    BY <2>4
  <2>7. QED
    BY <2>1, <2>2, <2>5, <2>6
<1>5. ASSUME NEW r \in Requests, PersistError(r) \/ CrashRequest(r)
      PROVE  TypeOK' /\ Placed'
  <2>1. /\ req' = [req EXCEPT ![r] = None] /\ at' = [at EXCEPT ![r] = "idle"]
        /\ UNCHANGED <<acked, locks, docVars, handled, workerVars>>
    BY <1>5 DEF PersistError, CrashRequest, Respond
  <2>2. /\ deliveries' \in 0 .. MaxDeliveries /\ faults' \in 0 .. MaxFaults
        /\ crashes' \in 0 .. MaxCrashes /\ stops' \in 0 .. MaxStops
    BY <1>5 DEF PersistError, CrashRequest, Fault, Kill
  <2>3. QED
    BY <2>1, <2>2
<1>6. ASSUME NEW k \in Keys, LockExpires(k) \/ LeaseExpires(k) \/ BackoffElapses(k) \/ Cleanup(k)
      PROVE  TypeOK' /\ Placed'
  BY <1>6 DEF LockExpires, LeaseExpires, BackoffElapses, Cleanup
<1>7. ASSUME NEW w \in Workers, Start(w) \/ Tick(w)
      PROVE  TypeOK' /\ Placed'
  BY <1>7 DEF Start, Tick
<1>8. ASSUME NEW w \in Workers, NEW k \in Keys, ClaimOne(w, k)
      PROVE  TypeOK' /\ Placed'
  <2>1. /\ status' \in [Keys -> {"absent", "pending", "processing", "processed", "failed", "purged"}]
        /\ lockedBy' \in [Keys -> Workers \cup {None}]
        /\ lease' \in [Keys -> {"none", "live", "expired"}]
        /\ attempts' \in [Keys -> 0 .. ClaimMax]
    BY <1>8 DEF ClaimOne, Claimable
  <2>2. pos' \in [Workers -> [Keys -> Positions]]
    BY <1>8 DEF ClaimOne, Positions
  <2>3. batch' \in [Workers -> [Keys -> Nat]]
    BY <1>8 DEF ClaimOne
  <2>4. UNCHANGED <<handlerVars, deadLetter, due, ingested, handled, life, tick, number, envVars>>
    BY <1>8 DEF ClaimOne
  <2>5. QED
    BY <2>1, <2>2, <2>3, <2>4
<1>9. ASSUME NEW w \in Workers, ClaimThrows(w)
      PROVE  TypeOK' /\ Placed'
  BY <1>9 DEF ClaimThrows, Fault, Positions
<1>10. ASSUME NEW w \in Workers, Launch(w)
       PROVE  TypeOK' /\ Placed'
  <2> DEFINE started(S) == [k \in Keys |-> IF k \in S THEN "beat" ELSE pos[w][k]]
  <2>1. /\ tick' = [tick EXCEPT ![w] = "idle"] \/ tick' = [tick EXCEPT ![w] = "working"]
        /\ UNCHANGED <<handlerVars, docVars, handled, life, number, batch, envVars>>
    BY <1>10 DEF Launch
  <2>2. pos' = pos \/ \E S : pos' = [pos EXCEPT ![w] = started(S)]
    BY <1>10 DEF Launch
  <2>3. \A S : started(S) \in [Keys -> Positions]
    BY DEF Positions
  <2> HIDE DEF started
  <2>4. pos' \in [Workers -> [Keys -> Positions]]
    BY <2>2, <2>3
  <2>5. QED
    BY <2>1, <2>4
<1>11. ASSUME NEW w \in Workers, NEW k \in Keys, Heartbeat(w, k)
       PROVE  TypeOK' /\ Placed'
  <2>1. \E p \in Positions : Goto(w, k, p)
    BY <1>11 DEF Heartbeat, Positions
  <2>2. pos' \in [Workers -> [Keys -> Positions]]
    BY <1>11, <2>1, GotoMoves DEF Moves, Heartbeat
  <2>3. lease' = lease \/ lease' = [lease EXCEPT ![k] = "live"]
    BY <1>11 DEF Heartbeat
  <2>4. UNCHANGED <<handlerVars, status, attempts, deadLetter, lockedBy, due, ingested,
                    handled, life, tick, number, batch, envVars>>
    BY <1>11 DEF Heartbeat
  <2>5. QED
    BY <2>2, <2>3, <2>4
<1>12. ASSUME NEW w \in Workers, NEW k \in Keys,
              CheckProcessed(w, k) \/ HandlerThrows(w, k) \/ HandlerSucceeds(w, k) \/ StepThrows(w, k)
       PROVE  TypeOK' /\ Placed'
  <2>1. pos[w][k] # "no" /\ \E p \in Positions : Goto(w, k, p)
    BY <1>12 DEF CheckProcessed, HandlerThrows, HandlerSucceeds, StepThrows, Positions
  <2>2. pos' \in [Workers -> [Keys -> Positions]]
    BY <2>1, GotoMoves DEF Moves
  <2>3. handled' \in [Keys -> BOOLEAN]
    BY <1>12 DEF CheckProcessed, HandlerThrows, HandlerSucceeds, StepThrows
  <2>4. UNCHANGED <<handlerVars, docVars, life, tick, number, batch>>
    BY <1>12 DEF CheckProcessed, HandlerThrows, HandlerSucceeds, StepThrows
  <2>5. /\ deliveries' \in 0 .. MaxDeliveries /\ faults' \in 0 .. MaxFaults
        /\ crashes' \in 0 .. MaxCrashes /\ stops' \in 0 .. MaxStops
    BY <1>12 DEF CheckProcessed, HandlerThrows, HandlerSucceeds, StepThrows, Fault
  <2>6. QED
    BY <2>2, <2>3, <2>4, <2>5
<1>13. ASSUME NEW w \in Workers, NEW k \in Keys, MarkProcessed(w, k) \/ MarkRetry(w, k)
       PROVE  TypeOK' /\ Placed'
  <2>1. /\ pos' \in [Workers -> [Keys -> Positions]]
        /\ tick' \in [Workers -> {"idle", "claiming", "working"}]
    BY <1>13, NextOfLaneMoves DEF MarkProcessed, MarkRetry, Moves
  <2>2. /\ status' \in [Keys -> {"absent", "pending", "processing", "processed", "failed", "purged"}]
        /\ due' \in [Keys -> BOOLEAN]
        /\ lockedBy' \in [Keys -> Workers \cup {None}]
        /\ lease' \in [Keys -> {"none", "live", "expired"}]
    <3>1. CASE UNCHANGED <<status, due, lockedBy, lease>>
      BY <3>1
    <3>2. CASE ~UNCHANGED <<status, due, lockedBy, lease>>
      <4>1. /\ status' = [status EXCEPT ![k] = "processed"] \/ status' = [status EXCEPT ![k] = "failed"]
            /\ due' = [due EXCEPT ![k] = TRUE] \/ due' = [due EXCEPT ![k] = FALSE]
            /\ lockedBy' = [lockedBy EXCEPT ![k] = None]
            /\ lease' = [lease EXCEPT ![k] = "none"]
        BY <1>13, <3>2 DEF MarkProcessed, MarkRetry, Unlock
      <4>2. QED
        BY <4>1
    <3>3. QED
      BY <3>1, <3>2
  <2>3. deadLetter' \in [Keys -> BOOLEAN]
    <3>1. (attempts[k] >= DocMax) \in BOOLEAN
      OBVIOUS
    <3>2. QED
      BY <1>13, <3>1, Zenon DEF MarkProcessed, MarkRetry
  <2>4. UNCHANGED <<handlerVars, attempts, ingested, handled, life, number, batch, envVars>>
    BY <1>13 DEF MarkProcessed, MarkRetry
  <2>5. QED
    BY <2>1, <2>2, <2>3, <2>4
<1>14. ASSUME NEW w \in Workers, NEW k \in Keys, MarkRetryThrows(w, k)
       PROVE  TypeOK' /\ Placed'
  <2> DEFINE b == batch[w][k]
             lost == IF Active(w, b) = {k} THEN Queued(w, b) \cup {k} ELSE {k}
             rest == [q \in Keys |-> IF q \in lost THEN "no" ELSE pos[w][q]]
  <2>1. /\ pos' = [pos EXCEPT ![w] = rest]
        /\ tick' = tick \/ tick' = [tick EXCEPT ![w] = "idle"]
        /\ Fault /\ UNCHANGED <<handlerVars, docVars, handled, life, number, batch>>
    BY <1>14 DEF MarkRetryThrows
  <2>2. rest \in [Keys -> Positions]
    BY DEF Positions
  <2> HIDE DEF rest
  <2>3. pos' \in [Workers -> [Keys -> Positions]]
    BY <2>1, <2>2
  <2>4. faults' \in 0 .. MaxFaults /\ UNCHANGED <<deliveries, crashes, stops>>
    BY <2>1 DEF Fault
  <2>5. tick' \in [Workers -> {"idle", "claiming", "working"}]
    BY <2>1
  <2>6. UNCHANGED <<handlerVars, docVars, handled, life, number, batch>>
    BY <2>1
  <2>7. QED
    BY <2>3, <2>4, <2>5, <2>6
<1>15. ASSUME NEW w \in Workers, Stop(w)
       PROVE  TypeOK' /\ Placed'
  BY <1>15 DEF Stop
<1>16. ASSUME NEW w \in Workers, Exit(w) \/ CrashWorker(w)
       PROVE  TypeOK' /\ Placed'
  <2>1. /\ life' = [life EXCEPT ![w] = "down"] /\ tick' = [tick EXCEPT ![w] = "idle"]
        /\ pos' = [pos EXCEPT ![w] = [k \in Keys |-> "no"]]
        /\ UNCHANGED <<handlerVars, docVars, handled, number, batch>>
        /\ UNCHANGED envVars \/ Kill
    BY <1>16 DEF Exit, CrashWorker, GoDown
  <2>2. pos' \in [Workers -> [Keys -> Positions]]
    <3>1. [k \in Keys |-> "no"] \in [Keys -> Positions]
      BY DEF Positions
    <3>2. QED
      BY <2>1, <3>1
  <2>3. QED
    BY <2>1, <2>2 DEF Kill
<1>17. CASE UNCHANGED vars
  BY <1>17
<1>18. QED
  BY <1>1, <1>2, <1>3, <1>4, <1>5, <1>6, <1>7, <1>8, <1>9, <1>10, <1>11, <1>12, <1>13,
     <1>14, <1>15, <1>16, <1>17 DEF Next, Handle, WorkerStep, Work, Elapse

LEMMA BasicInvariant == Spec => []Basic
<1>1. Init => Basic
  BY IngestConstants DEF Init, Basic, TypeOK, Placed, Positions
<1>2. QED
  BY <1>1, BasicStep, PTL DEF Spec

\* Every variable of the ingestion keeps its type; the attempts of a document
\* never pass ClaimMax (paymentWebhookIngestService.js:113-143).
THEOREM TypeCorrect == Spec => []TypeOK
<1>1. Basic => TypeOK
  BY DEF Basic
<1>2. QED
  BY <1>1, BasicInvariant, PTL

-----------------------------------------------------------------------------
(* Who holds a document, and what a processed one went through.            *)

\* A worker's name is on a document exactly while it is in processing, and only
\* failed documents are dead letters.
Named ==
  \A k \in Keys : /\ lockedBy[k] # None <=> status[k] = "processing"
                  /\ deadLetter[k] => status[k] = "failed"

\* What a worker has in memory bears its name, unless it is stopping.
Reserved ==
  \A w \in Workers, k \in Keys :
    pos[w][k] # "no" => lockedBy[k] = w \/ life[w] = "stopping"

\* Past the processor, with its name on the document, the processor ended well.
Ran ==
  \A w \in Workers, k \in Keys :
    pos[w][k] \in {"recheck", "mark"} /\ lockedBy[k] = w => handled[k]

HoldInv == Named /\ Reserved /\ Ran /\ ProcessedIsHandled

\* A step that leaves the documents alone and brings no event past the
\* processor that was not there, or is another's.
LEMMA QuietStep ==
  ASSUME Basic, HoldInv, NEW w \in Workers, Moves(w),
         UNCHANGED <<status, deadLetter, lockedBy, handled, life>>,
         \A k \in Keys : pos'[w][k] \in {"recheck", "mark"} =>
           pos[w][k] \in {"recheck", "mark"} \/ lockedBy[k] # w
  PROVE  HoldInv'
BY DEF HoldInv, Named, Reserved, Ran, ProcessedIsHandled, Moves

LEMMA HoldStep == Basic /\ HoldInv /\ [Next]_vars => HoldInv'
<1> SUFFICES ASSUME Basic, HoldInv, [Next]_vars
             PROVE  HoldInv'
  OBVIOUS
<1> USE DEF vars, handlerVars, docVars, workerVars, envVars
<1>t. /\ TypeOK /\ Basic' /\ None \notin Workers
      /\ pos \in [Workers -> [Keys -> Positions]]
      /\ pos' \in [Workers -> [Keys -> Positions]]
      /\ status \in [Keys -> {"absent", "pending", "processing", "processed", "failed", "purged"}]
      /\ lockedBy \in [Keys -> Workers \cup {None}]
      /\ deadLetter \in [Keys -> BOOLEAN]
      /\ handled \in [Keys -> BOOLEAN]
      /\ life \in [Workers -> {"new", "up", "stopping", "down"}]
  BY BasicStep, IngestConstants DEF Basic, TypeOK
<1> USE <1>t
<1>1. ASSUME UNCHANGED <<status, deadLetter, lockedBy, handled, life, pos>>
      PROVE  HoldInv'
  BY <1>1 DEF HoldInv, Named, Reserved, Ran, ProcessedIsHandled
<1>2. ASSUME NEW r \in Requests, Handle(r), ~Persist(r)
      PROVE  HoldInv'
  BY <1>1, <1>2 DEF Handle, Deliver, ClaimLock, LockError, PersistError, CrashRequest
<1>3. ASSUME NEW r \in Requests, Persist(r)
      PROVE  HoldInv'
  <2>1. /\ KeyOf[req[r]] \in Keys
        /\ \/ UNCHANGED <<status, handled>>
           \/ /\ status[KeyOf[req[r]]] \in {"absent", "purged"}
              /\ status' = [status EXCEPT ![KeyOf[req[r]]] = "pending"]
              /\ handled' = [handled EXCEPT ![KeyOf[req[r]]] = FALSE]
        /\ UNCHANGED <<deadLetter, lockedBy, life, pos>>
    BY <1>3, IngestConstants DEF Persist, Basic, Placed
  <2>2. QED
    BY <2>1 DEF HoldInv, Named, Reserved, Ran, ProcessedIsHandled
<1>4. ASSUME NEW k \in Keys, Elapse(k)
      PROVE  HoldInv'
  <2>1. CASE Cleanup(k)
    BY <2>1 DEF Cleanup, HoldInv, Named, Reserved, Ran, ProcessedIsHandled
  <2>2. CASE LockExpires(k) \/ LeaseExpires(k) \/ BackoffElapses(k)
    BY <1>1, <2>2 DEF LockExpires, LeaseExpires, BackoffElapses
  <2>3. QED
    BY <1>4, <2>1, <2>2 DEF Elapse
<1>5. ASSUME NEW w \in Workers, Start(w) \/ Tick(w)
      PROVE  HoldInv'
  <2>1. /\ \/ life' = life
           \/ life[w] = "new" /\ life' = [life EXCEPT ![w] = "up"]
        /\ UNCHANGED <<status, deadLetter, lockedBy, handled, pos>>
    BY <1>5 DEF Start, Tick
  <2>2. QED
    BY <2>1 DEF HoldInv, Named, Reserved, Ran, ProcessedIsHandled
<1>6. ASSUME NEW w \in Workers, NEW k \in Keys, ClaimOne(w, k)
      PROVE  HoldInv'
  <2>1. /\ status[k] \in {"pending", "failed"} /\ ~deadLetter[k] /\ pos[w][k] = "no"
        /\ status' = [status EXCEPT ![k] = "processing"]
        /\ lockedBy' = [lockedBy EXCEPT ![k] = w]
        /\ pos' = [pos EXCEPT ![w][k] = "queued"]
        /\ UNCHANGED <<deadLetter, handled, life>>
    BY <1>6 DEF ClaimOne, Claimable
  <2>2. /\ pos'[w][k] = "queued"
        /\ \A v \in Workers, q \in Keys : v # w \/ q # k => pos'[v][q] = pos[v][q]
    BY <2>1
  <2>3. lockedBy[k] = None
    BY <2>1 DEF HoldInv, Named
  <2>4. Named' /\ ProcessedIsHandled'
    BY <2>1 DEF HoldInv, Named, ProcessedIsHandled
  <2>5. Reserved'
    BY <2>1, <2>2, <2>3 DEF HoldInv, Reserved
  <2>6. Ran'
    BY <2>1, <2>2, <2>3 DEF HoldInv, Ran
  <2>7. QED
    BY <2>4, <2>5, <2>6 DEF HoldInv
<1>7. ASSUME NEW w \in Workers, ClaimThrows(w)
      PROVE  HoldInv'
  BY <1>7, QuietStep DEF ClaimThrows, Moves
<1>8. ASSUME NEW w \in Workers, Launch(w)
      PROVE  HoldInv'
  <2>1. /\ pos' = pos \/ \E S \in SUBSET Queued(w, number[w]) :
             pos' = [pos EXCEPT ![w] = [k \in Keys |-> IF k \in S THEN "beat" ELSE pos[w][k]]]
        /\ UNCHANGED <<status, deadLetter, lockedBy, handled, life>>
    BY <1>8 DEF Launch
  <2>2. /\ \A v \in Workers, k \in Keys : v # w => pos'[v][k] = pos[v][k]
        /\ \A k \in Keys : \/ pos'[w][k] = pos[w][k]
                           \/ pos'[w][k] = "beat" /\ pos[w][k] = "queued"
    BY <2>1 DEF Queued
  <2>3. Moves(w)
    BY <2>2 DEF Moves
  <2>4. QED
    BY <2>1, <2>2, <2>3, QuietStep
<1>9. ASSUME NEW w \in Workers, NEW k \in Keys,
             Heartbeat(w, k) \/ CheckProcessed(w, k) \/ HandlerThrows(w, k) \/ StepThrows(w, k)
      PROVE  HoldInv'
  <2>1. PICK p \in Positions :
          /\ Goto(w, k, p)
          /\ p \in {"recheck", "mark"} =>
               pos[w][k] = "recheck" \/ status[k] = "processed"
    BY <1>9 DEF Heartbeat, CheckProcessed, HandlerThrows, StepThrows, Positions
  <2>2. /\ pos[w][k] # "no"
        /\ UNCHANGED <<status, deadLetter, lockedBy, handled, life>>
    BY <1>9 DEF Heartbeat, CheckProcessed, HandlerThrows, StepThrows
  <2>3. /\ Moves(w) /\ pos'[w][k] = p
        /\ \A q \in Keys : q # k => pos'[w][q] = pos[w][q]
    BY <2>1, <2>2, GotoMoves
  <2>4. status[k] = "processed" => lockedBy[k] # w
    BY DEF HoldInv, Named
  <2>5. QED
    BY <2>1, <2>2, <2>3, <2>4, QuietStep
<1>10. ASSUME NEW w \in Workers, NEW k \in Keys, HandlerSucceeds(w, k)
       PROVE  HoldInv'
  <2>1. /\ pos[w][k] = "run" /\ Goto(w, k, "recheck")
        /\ handled' = [handled EXCEPT ![k] = TRUE]
        /\ UNCHANGED <<status, deadLetter, lockedBy, life>>
    BY <1>10 DEF HandlerSucceeds
  <2>2. /\ Moves(w) /\ \A q \in Keys : q # k => pos'[w][q] = pos[w][q]
    BY <2>1, GotoMoves DEF Positions
  <2>3. \A q \in Keys : handled[q] => handled'[q]
    BY <2>1
  <2>4. Named' /\ Reserved' /\ ProcessedIsHandled'
    BY <2>1, <2>2, <2>3 DEF HoldInv, Named, Reserved, ProcessedIsHandled, Moves
  <2>5. handled'[k]
    BY <2>1
  <2>6. Ran'
    BY <2>1, <2>2, <2>3, <2>5 DEF HoldInv, Ran, Moves
  <2>7. QED
    BY <2>4, <2>6 DEF HoldInv
<1>11. ASSUME NEW w \in Workers, NEW k \in Keys, MarkProcessed(w, k) \/ MarkRetry(w, k)
       PROVE  HoldInv'
  <2>1. /\ pos[w][k] \in {"mark", "retry"} /\ NextOfLane(w, k)
        /\ UNCHANGED <<handled, life>>
    BY <1>11 DEF MarkProcessed, MarkRetry
  <2>2. /\ Moves(w)
        /\ \A q \in Keys : pos'[w][q] \in {"no", "beat", pos[w][q]}
        /\ pos'[w][k] \in {"no", "beat"}
    BY <2>1, NextOfLaneMoves
  <2>3. CASE UNCHANGED <<status, deadLetter, lockedBy>>
    BY <2>1, <2>2, <2>3, QuietStep
  <2>4. CASE ~UNCHANGED <<status, deadLetter, lockedBy>>
    <3>1. /\ lockedBy[k] = w /\ lockedBy' = [lockedBy EXCEPT ![k] = None]
          /\ \/ /\ pos[w][k] = "mark"
                /\ status' = [status EXCEPT ![k] = "processed"]
                /\ deadLetter' = [deadLetter EXCEPT ![k] = FALSE]
             \/ /\ status' = [status EXCEPT ![k] = "failed"]
                /\ \A q \in Keys : q # k => deadLetter'[q] = deadLetter[q]
      BY <1>11, <2>4 DEF MarkProcessed, MarkRetry, Holds, Unlock
    <3>2. Named' /\ ProcessedIsHandled'
      BY <2>1, <3>1 DEF HoldInv, Named, Ran, ProcessedIsHandled
    <3>3. \A q \in Keys : pos'[w][q] = "beat" => pos[w][q] # "no"
      BY <2>2 DEF Moves
    <3>4. pos'[w][k] # "no" => life[w] = "stopping"
      <4>1. CASE Goto(w, k, "no")
        BY <2>1, <4>1, GotoMoves DEF Positions
      <4>2. ASSUME NEW q \in Queued(w, batch[w][k]),
                   pos' = [pos EXCEPT ![w][k] = "no", ![w][q] = "beat"]
            PROVE  pos'[w][k] = "no"
        <5>1. q # k /\ q \in Keys
          BY <2>1, <4>2 DEF Queued
        <5>2. QED
          BY <4>2, <5>1
      <4>3. QED
        BY <2>1, <4>1, <4>2 DEF NextOfLane
    <3>5. Reserved'
      BY <2>1, <2>2, <3>1, <3>4 DEF HoldInv, Reserved, Moves
    <3>6. Ran'
      BY <2>1, <2>2, <3>1 DEF HoldInv, Ran, Moves
    <3>7. QED
      BY <3>2, <3>5, <3>6 DEF HoldInv
  <2>5. QED
    BY <2>3, <2>4
<1>12. ASSUME NEW w \in Workers, NEW k \in Keys, MarkRetryThrows(w, k)
       PROVE  HoldInv'
  <2> DEFINE b == batch[w][k]
             lost == IF Active(w, b) = {k} THEN Queued(w, b) \cup {k} ELSE {k}
  <2>1. /\ UNCHANGED <<status, deadLetter, lockedBy, handled, life>>
        /\ pos' = [pos EXCEPT ![w] = [q \in Keys |-> IF q \in lost THEN "no" ELSE pos[w][q]]]
    BY <1>12 DEF MarkRetryThrows
  <2>2. /\ \A v \in Workers, q \in Keys : v # w => pos'[v][q] = pos[v][q]
        /\ \A q \in Keys : pos'[w][q] \in {"no", pos[w][q]}
    BY <2>1
  <2>3. QED
    BY <2>1, <2>2, QuietStep DEF Moves
<1>13. ASSUME NEW w \in Workers, Stop(w)
       PROVE  HoldInv'
  <2>1. /\ life' = [life EXCEPT ![w] = "stopping"]
        /\ \A k \in Keys :
             \/ status'[k] = status[k] /\ lockedBy'[k] = lockedBy[k]
             \/ /\ status[k] = "processing" /\ lockedBy[k] = w
                /\ status'[k] = "failed" /\ lockedBy'[k] = None
        /\ UNCHANGED <<deadLetter, handled, pos>>
    BY <1>13 DEF Stop, Holds
  <2>2. QED
    BY <2>1 DEF HoldInv, Named, Reserved, Ran, ProcessedIsHandled
<1>14. ASSUME NEW w \in Workers, Exit(w) \/ CrashWorker(w)
       PROVE  HoldInv'
  <2>1. /\ life' = [life EXCEPT ![w] = "down"]
        /\ pos' = [pos EXCEPT ![w] = [k \in Keys |-> "no"]]
        /\ UNCHANGED <<status, deadLetter, lockedBy, handled>>
    BY <1>14 DEF Exit, CrashWorker, GoDown
  <2>2. /\ \A v \in Workers, k \in Keys : v # w => pos'[v][k] = pos[v][k]
        /\ \A k \in Keys : pos'[w][k] = "no"
    BY <2>1
  <2>3. QED
    BY <2>1, <2>2 DEF HoldInv, Named, Reserved, Ran, ProcessedIsHandled
<1>15. CASE UNCHANGED vars
  BY <1>1, <1>15
<1>16. QED
  BY <1>2, <1>3, <1>4, <1>5, <1>6, <1>7, <1>8, <1>9, <1>10, <1>11, <1>12, <1>13, <1>14,
     <1>15 DEF Next, WorkerStep, Work

LEMMA HoldInvariant == Spec => [](Basic /\ HoldInv)
<1>1. Init => HoldInv
  BY DEF Init, HoldInv, Named, Reserved, Ran, ProcessedIsHandled
<1>2. QED
  BY <1>1, HoldStep, BasicInvariant, PTL DEF Spec

-----------------------------------------------------------------------------
(* Nothing that is claimed is dropped.                                     *)

\* A step that makes no document one of processing, and after which a document
\* in processing is still in the memory it was in.
LEMMA OrphanFrame ==
  ASSUME Basic, Named, InHand,
         faults' = 0 => faults = 0,
         \A w \in Workers : life[w] = "down" => life'[w] = "down",
         \A k \in Keys : status'[k] = "processing" =>
           status[k] = "processing" /\ lockedBy'[k] = lockedBy[k],
         \A w \in Workers, k \in Keys : pos[w][k] # "no" =>
           \/ pos'[w][k] # "no"
           \/ life'[w] = "down"
           \/ status'[k] = "processing" => lockedBy'[k] # w
  PROVE  InHand'
<1> SUFFICES ASSUME NEW k \in Keys, status'[k] = "processing", faults' = 0
             PROVE  life'[lockedBy'[k]] = "down" \/ pos'[lockedBy'[k]][k] # "no"
  BY DEF InHand
<1>1. status[k] = "processing" /\ lockedBy'[k] = lockedBy[k]
  OBVIOUS
<1>2. lockedBy[k] \in Workers
  BY <1>1 DEF Named, Basic, TypeOK
<1>3. life[lockedBy[k]] = "down" \/ pos[lockedBy[k]][k] # "no"
  BY <1>1 DEF InHand
<1>4. QED
  BY <1>1, <1>2, <1>3

LEMMA OrphanStep == Basic /\ Named /\ InHand /\ [Next]_vars => InHand'
<1> SUFFICES ASSUME Basic, Named, InHand, [Next]_vars
             PROVE  InHand'
  OBVIOUS
<1> USE DEF vars, handlerVars, docVars, workerVars, envVars
<1>t. /\ TypeOK /\ None \notin Workers
      /\ pos \in [Workers -> [Keys -> Positions]]
      /\ status \in [Keys -> {"absent", "pending", "processing", "processed", "failed", "purged"}]
      /\ lockedBy \in [Keys -> Workers \cup {None}]
      /\ life \in [Workers -> {"new", "up", "stopping", "down"}]
      /\ faults \in Nat
  BY IngestConstants DEF Basic, TypeOK
<1> USE <1>t
<1>f. ASSUME Fault
      PROVE  InHand'
  BY <1>f DEF Fault, InHand
<1>1. ASSUME UNCHANGED <<status, lockedBy, life, pos>>, faults' = faults
      PROVE  InHand'
  BY <1>1 DEF InHand
<1>2. ASSUME NEW r \in Requests, Handle(r), ~Persist(r)
      PROVE  InHand'
  BY <1>1, <1>2, <1>f DEF Handle, Deliver, ClaimLock, LockError, PersistError, CrashRequest, Kill
<1>3. ASSUME NEW r \in Requests, Persist(r)
      PROVE  InHand'
  <2>1. /\ status' = status \/ status' = [status EXCEPT ![KeyOf[req[r]]] = "pending"]
        /\ UNCHANGED <<lockedBy, life, pos, faults>>
    BY <1>3 DEF Persist
  <2>2. QED
    BY <2>1, OrphanFrame
<1>4. ASSUME NEW k \in Keys, Elapse(k)
      PROVE  InHand'
  <2>1. /\ status' = status \/ status' = [status EXCEPT ![k] = "purged"]
        /\ UNCHANGED <<lockedBy, life, pos, faults>>
    BY <1>4 DEF Elapse, LockExpires, LeaseExpires, BackoffElapses, Cleanup
  <2>2. QED
    BY <2>1, OrphanFrame
<1>5. ASSUME NEW w \in Workers, Start(w) \/ Tick(w)
      PROVE  InHand'
  <2>1. /\ \/ life' = life
           \/ life[w] = "new" /\ life' = [life EXCEPT ![w] = "up"]
        /\ UNCHANGED <<status, lockedBy, pos, faults>>
    BY <1>5 DEF Start, Tick
  <2>2. QED
    BY <2>1, OrphanFrame
<1>6. ASSUME NEW w \in Workers, NEW k \in Keys, ClaimOne(w, k)
      PROVE  InHand'
  <2>1. /\ status[k] \in {"pending", "failed"}
        /\ status' = [status EXCEPT ![k] = "processing"]
        /\ lockedBy' = [lockedBy EXCEPT ![k] = w]
        /\ pos' = [pos EXCEPT ![w][k] = "queued"]
        /\ UNCHANGED <<life, faults>>
    BY <1>6 DEF ClaimOne, Claimable
  <2>2. /\ pos'[w][k] = "queued"
        /\ \A v \in Workers, q \in Keys : v # w \/ q # k => pos'[v][q] = pos[v][q]
    BY <2>1
  <2>3. ASSUME NEW q \in Keys, q # k, status'[q] = "processing", faults' = 0
        PROVE  life'[lockedBy'[q]] = "down" \/ pos'[lockedBy'[q]][q] # "no"
    <3>1. status[q] = "processing" /\ lockedBy'[q] = lockedBy[q] /\ lockedBy[q] \in Workers
      BY <2>1, <2>3 DEF Named
    <3>2. QED
      BY <2>1, <2>2, <2>3, <3>1 DEF InHand
  <2>4. lockedBy'[k] = w
    BY <2>1
  <2>5. QED
    BY <2>2, <2>3, <2>4 DEF InHand
<1>7. ASSUME NEW w \in Workers, ClaimThrows(w)
      PROVE  InHand'
  BY <1>7, <1>f DEF ClaimThrows
<1>8. ASSUME NEW w \in Workers, Launch(w)
      PROVE  InHand'
  <2>1. /\ pos' = pos \/ \E S \in SUBSET Queued(w, number[w]) :
             pos' = [pos EXCEPT ![w] = [k \in Keys |-> IF k \in S THEN "beat" ELSE pos[w][k]]]
        /\ UNCHANGED <<status, lockedBy, life, faults>>
    BY <1>8 DEF Launch
  <2>2. \A v \in Workers, k \in Keys : pos[v][k] # "no" => pos'[v][k] # "no"
    BY <2>1
  <2>3. QED
    BY <2>1, <2>2, OrphanFrame
<1>9. ASSUME NEW w \in Workers, NEW k \in Keys,
             Heartbeat(w, k) \/ CheckProcessed(w, k) \/ HandlerThrows(w, k) \/ HandlerSucceeds(w, k)
      PROVE  InHand'
  <2>1. PICK p \in Positions : Goto(w, k, p) /\ p # "no"
    BY <1>9 DEF Heartbeat, CheckProcessed, HandlerThrows, HandlerSucceeds, Positions
  <2>2. pos[w][k] # "no" /\ UNCHANGED <<status, lockedBy, life, faults>>
    BY <1>9 DEF Heartbeat, CheckProcessed, HandlerThrows, HandlerSucceeds
  <2>3. \A v \in Workers, q \in Keys : pos[v][q] # "no" => pos'[v][q] # "no"
    BY <2>1, <2>2, GotoMoves DEF Moves
  <2>4. QED
    BY <2>2, <2>3, OrphanFrame
<1>10. ASSUME NEW w \in Workers, NEW k \in Keys, StepThrows(w, k) \/ MarkRetryThrows(w, k)
       PROVE  InHand'
  BY <1>10, <1>f DEF StepThrows, MarkRetryThrows
<1>11. ASSUME NEW w \in Workers, NEW k \in Keys, MarkProcessed(w, k) \/ MarkRetry(w, k)
       PROVE  InHand'
  <2>1. NextOfLane(w, k) /\ UNCHANGED <<life, faults>>
    BY <1>11 DEF MarkProcessed, MarkRetry
  <2>2. \A v \in Workers, q \in Keys : (v # w \/ q # k) /\ pos[v][q] # "no" => pos'[v][q] # "no"
    BY <2>1 DEF NextOfLane, Goto, Queued
  <2>3. \A q \in Keys : status'[q] = "processing" =>
          status[q] = "processing" /\ lockedBy'[q] = lockedBy[q]
    BY <1>11 DEF MarkProcessed, MarkRetry, Unlock
  <2>4. status'[k] = "processing" => lockedBy'[k] # w
    BY <1>11 DEF MarkProcessed, MarkRetry, Holds, Unlock
  <2>5. QED
    BY <2>1, <2>2, <2>3, <2>4, OrphanFrame
<1>12. ASSUME NEW w \in Workers, Stop(w)
       PROVE  InHand'
  <2>1. /\ life' = [life EXCEPT ![w] = "stopping"] /\ life[w] = "up"
        /\ \A k \in Keys : status'[k] = "processing" =>
             status[k] = "processing" /\ lockedBy'[k] = lockedBy[k]
        /\ UNCHANGED <<pos, faults>>
    BY <1>12 DEF Stop, Holds
  <2>2. QED
    BY <2>1, OrphanFrame
<1>13. ASSUME NEW w \in Workers, Exit(w) \/ CrashWorker(w)
       PROVE  InHand'
  <2>1. /\ life' = [life EXCEPT ![w] = "down"]
        /\ pos' = [pos EXCEPT ![w] = [k \in Keys |-> "no"]]
        /\ UNCHANGED <<status, lockedBy, faults>>
    BY <1>13 DEF Exit, CrashWorker, GoDown, Kill
  <2>2. QED
    BY <2>1, OrphanFrame
<1>14. CASE UNCHANGED vars
  BY <1>1, <1>14
<1>15. QED
  BY <1>2, <1>3, <1>4, <1>5, <1>6, <1>7, <1>8, <1>9, <1>10, <1>11, <1>12, <1>13, <1>14
     DEF Next, WorkerStep, Work

\* Without a failing call a document in processing is in the memory of the
\* worker whose name it bears, or that worker is gone
\* (paymentWebhookIngestService.js:267-291).
THEOREM InHandAlways == Spec => []InHand
<1>1. Init => InHand
  BY DEF Init, InHand
<1>2. HoldInv => Named
  BY DEF HoldInv
<1>3. QED
  BY <1>1, <1>2, OrphanStep, HoldInvariant, PTL DEF Spec

\* Only a shutdown leaves a document waiting with its attempts spent: markRetry
\* makes a dead letter of it.
LEMMA SpentIsDeadStep ==
  ASSUME DocMax <= ClaimMax
  PROVE  Basic /\ Named /\ SpentIsDead /\ [Next]_vars => SpentIsDead'
<1> SUFFICES ASSUME Basic, Named, SpentIsDead, [Next]_vars
             PROVE  SpentIsDead'
  OBVIOUS
<1> USE DEF vars, handlerVars, docVars, workerVars, envVars
<1>t. /\ status \in [Keys -> {"absent", "pending", "processing", "processed", "failed", "purged"}]
      /\ attempts \in [Keys -> 0 .. ClaimMax]
      /\ deadLetter \in [Keys -> BOOLEAN]
      /\ stops \in Nat /\ stops' \in Nat
      /\ ClaimMax \in Nat \ {0} /\ DocMax \in Nat
  BY BasicStep, IngestConstants DEF Basic, TypeOK
<1> USE <1>t
<1>1. ASSUME UNCHANGED <<attempts, deadLetter, stops>>,
             \A k \in Keys : status'[k] \in {"pending", "failed"} => status[k] \in {"pending", "failed"}
      PROVE  SpentIsDead'
  BY <1>1 DEF SpentIsDead
<1>2. ASSUME NEW r \in Requests, Handle(r), ~Persist(r)
      PROVE  SpentIsDead'
  BY <1>1, <1>2 DEF Handle, Deliver, ClaimLock, LockError, PersistError, CrashRequest, Fault, Kill
<1>3. ASSUME NEW r \in Requests, Persist(r)
      PROVE  SpentIsDead'
  <2>1. /\ UNCHANGED <<deadLetter, stops>>
        /\ \/ UNCHANGED <<status, attempts>>
           \/ /\ status' = [status EXCEPT ![KeyOf[req[r]]] = "pending"]
              /\ attempts' = [attempts EXCEPT ![KeyOf[req[r]]] = 0]
    BY <1>3 DEF Persist
  <2>2. QED
    BY <2>1 DEF SpentIsDead
<1>4. ASSUME NEW k \in Keys, Elapse(k)
      PROVE  SpentIsDead'
  BY <1>1, <1>4 DEF Elapse, LockExpires, LeaseExpires, BackoffElapses, Cleanup
<1>5. ASSUME NEW w \in Workers, NEW k \in Keys, ClaimOne(w, k)
      PROVE  SpentIsDead'
  <2>1. /\ status' = [status EXCEPT ![k] = "processing"]
        /\ attempts' = [attempts EXCEPT ![k] = @ + 1]
        /\ UNCHANGED <<deadLetter, stops>>
    BY <1>5 DEF ClaimOne
  <2>2. QED
    BY <2>1 DEF SpentIsDead
<1>6. ASSUME NEW w \in Workers, NEW k \in Keys, MarkProcessed(w, k)
      PROVE  SpentIsDead'
  <2>1. /\ UNCHANGED <<attempts, stops>>
        /\ \/ UNCHANGED <<status, deadLetter>>
           \/ /\ status' = [status EXCEPT ![k] = "processed"]
              /\ deadLetter' = [deadLetter EXCEPT ![k] = FALSE]
    BY <1>6 DEF MarkProcessed
  <2>2. QED
    BY <2>1 DEF SpentIsDead
<1>7. ASSUME NEW w \in Workers, NEW k \in Keys, MarkRetry(w, k)
      PROVE  SpentIsDead'
  <2>1. UNCHANGED <<attempts, stops>>
    BY <1>7 DEF MarkRetry
  <2>2. CASE UNCHANGED <<status, deadLetter>>
    BY <1>1, <2>1, <2>2
  <2>3. CASE /\ status' = [status EXCEPT ![k] = "failed"]
             /\ deadLetter' = [deadLetter EXCEPT ![k] = attempts[k] >= DocMax]
    <3>1. \A q \in Keys : q # k => status'[q] = status[q] /\ deadLetter'[q] = deadLetter[q]
      BY <2>3
    <3>2. deadLetter'[k] = (attempts[k] >= DocMax)
      BY <2>3, Zenon
    <3>3. attempts[k] >= ClaimMax => attempts[k] >= DocMax
      OBVIOUS
    <3>4. attempts[k] >= ClaimMax => deadLetter'[k]
      BY <3>2, <3>3, Zenon
    <3>5. QED
      BY <2>1, <3>1, <3>4 DEF SpentIsDead
  <2>4. QED
    BY <1>7, <2>2, <2>3 DEF MarkRetry
<1>8. ASSUME NEW w \in Workers, Stop(w)
      PROVE  SpentIsDead'
  BY <1>8 DEF Stop, SpentIsDead
<1>9. ASSUME NEW w \in Workers,
             \/ Start(w) \/ Tick(w) \/ ClaimThrows(w) \/ Launch(w) \/ Exit(w) \/ CrashWorker(w)
             \/ \E k \in Keys : \/ Heartbeat(w, k) \/ CheckProcessed(w, k)
                                \/ HandlerSucceeds(w, k) \/ HandlerThrows(w, k)
                                \/ StepThrows(w, k) \/ MarkRetryThrows(w, k)
      PROVE  SpentIsDead'
  <2>1. UNCHANGED <<status, deadLetter, attempts, stops>>
    BY <1>9 DEF Start, Tick, ClaimThrows, Launch, Exit, CrashWorker, GoDown, Heartbeat,
       CheckProcessed, HandlerSucceeds, HandlerThrows, StepThrows, MarkRetryThrows, Fault, Kill
  <2>2. QED
    BY <1>1, <2>1
<1>10. CASE UNCHANGED vars
  BY <1>1, <1>10
<1>11. QED
  BY <1>2, <1>3, <1>4, <1>5, <1>6, <1>7, <1>8, <1>9, <1>10 DEF Next, WorkerStep, Work

\* While the workers' claim limit is not below the documents' (both are 8 as
\* deployed), a document that is not finished is in somebody's memory or has
\* tries left, but for failing calls, dead workers and shutdowns
\* (paymentWebhookIngestService.js:181-224, 267-291, 348-377).
THEOREM NoOrphansAlways ==
  ASSUME DocMax <= ClaimMax
  PROVE  Spec => []NoOrphans
<1>1. Init => SpentIsDead
  BY IngestConstants DEF Init, SpentIsDead
<1>2. HoldInv => Named
  BY DEF HoldInv
<1>3. Basic /\ Named /\ SpentIsDead /\ [Next]_vars => SpentIsDead'
  BY SpentIsDeadStep
<1>4. QED
  BY <1>1, <1>2, <1>3, InHandAlways, HoldInvariant, PTL DEF Spec, NoOrphans

\* An ingest document reads processed only after the processor ended well on it
\* (paymentWebhookIngestService.js:226-265).
THEOREM ProcessedIsHandledAlways == Spec => []ProcessedIsHandled
<1>1. HoldInv => ProcessedIsHandled
  BY DEF HoldInv
<1>2. QED
  BY <1>1, HoldInvariant, PTL

\* Two workers run the processor on one document at the same time only when one
\* of them was stopped (paymentWebhookIngestService.js:113-143, 348-372).
THEOREM OverlapOnlyAfterStopAlways == Spec => []OverlapOnlyAfterStop
<1>1. HoldInv => OverlapOnlyAfterStop
  BY DEF HoldInv, Reserved, OverlapOnlyAfterStop, InFlight
<1>2. QED
  BY <1>1, HoldInvariant, PTL

-----------------------------------------------------------------------------
(* The ingest collection implements the job queue.                         *)

LEMMA StepImplements ==
  ASSUME Basic, HoldInv, [Next]_vars
  PROVE  [Queue!JobsNext]_<<[k \in Keys |-> Phase(k)], attempts>>
<1> DEFINE ph == [k \in Keys |-> Phase(k)]
<1> USE DEF vars, handlerVars, docVars, workerVars, envVars
<1>t. /\ status \in [Keys -> {"absent", "pending", "processing", "processed", "failed", "purged"}]
      /\ deadLetter \in [Keys -> BOOLEAN]
      /\ attempts \in [Keys -> 0 .. ClaimMax]
      /\ ClaimMax \in Nat
  BY IngestConstants DEF Basic, TypeOK
<1>1. ASSUME UNCHANGED <<status, deadLetter, attempts>>
      PROVE  UNCHANGED <<ph, attempts>>
  BY <1>1 DEF Phase
<1>2. ASSUME NEW r \in Requests, Handle(r)
      PROVE  [Queue!JobsNext]_<<ph, attempts>>
  <2> DEFINE k == KeyOf[req[r]]
  <2>1. CASE UNCHANGED <<status, deadLetter, attempts>>
    BY <1>1, <2>1
  <2>2. CASE ~UNCHANGED <<status, deadLetter, attempts>>
    <3>1. /\ k \in Keys /\ status[k] \in {"absent", "purged"}
          /\ status' = [status EXCEPT ![k] = "pending"]
          /\ attempts' = [attempts EXCEPT ![k] = 0]
          /\ UNCHANGED deadLetter
      BY <1>2, <2>2, IngestConstants DEF Handle, Deliver, ClaimLock, LockError, Persist,
         PersistError, CrashRequest, Basic, Placed
    <3> HIDE DEF k
    <3>2. ph[k] \in {"absent", "forgotten"} /\ ph' = [ph EXCEPT ![k] = "waiting"]
      BY <3>1, <1>t DEF Phase
    <3>3. Queue!Submit(k)
      BY <3>1, <3>2 DEF Queue!Submit
    <3>4. QED
      BY <3>1, <3>3 DEF Queue!JobsNext
  <2>3. QED
    BY <2>1, <2>2
<1>3. ASSUME NEW w \in Workers, NEW k \in Keys, ClaimOne(w, k)
      PROVE  [Queue!JobsNext]_<<ph, attempts>>
  <2>1. /\ status[k] \in {"pending", "failed"} /\ ~deadLetter[k] /\ attempts[k] < ClaimMax
        /\ status' = [status EXCEPT ![k] = "processing"]
        /\ attempts' = [attempts EXCEPT ![k] = @ + 1]
        /\ UNCHANGED deadLetter
    BY <1>3 DEF ClaimOne, Claimable
  <2>2. ph[k] = "waiting" /\ ph' = [ph EXCEPT ![k] = "taken"]
    BY <2>1, <1>t DEF Phase
  <2>3. Queue!Take(k)
    BY <2>1, <2>2 DEF Queue!Take
  <2>4. QED
    BY <2>3 DEF Queue!JobsNext
<1>4. ASSUME NEW w \in Workers, NEW k \in Keys, MarkProcessed(w, k)
      PROVE  [Queue!JobsNext]_<<ph, attempts>>
  <2>1. CASE ~Holds(w, k)
    BY <1>1, <1>4, <2>1 DEF MarkProcessed
  <2>2. CASE Holds(w, k)
    <3>1. /\ status[k] = "processing"
          /\ status' = [status EXCEPT ![k] = "processed"]
          /\ \A q \in Keys : q # k => deadLetter'[q] = deadLetter[q]
          /\ UNCHANGED attempts
      BY <1>4, <2>2, <1>t DEF MarkProcessed, Holds
    <3>2. ph[k] = "taken" /\ ph' = [ph EXCEPT ![k] = "done"]
      BY <3>1, <1>t DEF Phase
    <3>3. Queue!Finish(k)
      BY <3>1, <3>2 DEF Queue!Finish
    <3>4. QED
      BY <3>3 DEF Queue!JobsNext
  <2>3. QED
    BY <2>1, <2>2
<1>5. ASSUME NEW w \in Workers, NEW k \in Keys, MarkRetry(w, k)
      PROVE  [Queue!JobsNext]_<<ph, attempts>>
  <2>1. CASE lockedBy[k] # w
    BY <1>1, <1>5, <2>1 DEF MarkRetry
  <2>2. CASE lockedBy[k] = w
    <3>1. status[k] = "processing"
      BY <2>2, IngestConstants DEF HoldInv, Named
    <3>2. /\ status' = [status EXCEPT ![k] = "failed"]
          /\ deadLetter' = [deadLetter EXCEPT ![k] = attempts[k] >= DocMax]
          /\ UNCHANGED attempts
      BY <1>5, <2>2 DEF MarkRetry
    <3>3. CASE attempts[k] >= DocMax
      <4>1. ph[k] = "taken" /\ ph' = [ph EXCEPT ![k] = "dead"]
        BY <3>1, <3>2, <3>3, <1>t DEF Phase
      <4>2. Queue!GiveUp(k)
        BY <3>2, <3>3, <4>1 DEF Queue!GiveUp
      <4>3. QED
        BY <4>2 DEF Queue!JobsNext
    <3>4. CASE ~(attempts[k] >= DocMax)
      <4>1. /\ ph[k] = "taken"
            /\ ph' = [j \in Keys |-> IF j \in {k} THEN "waiting" ELSE ph[j]]
        BY <3>1, <3>2, <3>4, <1>t DEF Phase
      <4>2. {k} \in SUBSET {j \in Keys : ph[j] = "taken"}
        BY <4>1
      <4> HIDE DEF ph
      <4>3. Queue!GiveBack
        BY <3>2, <4>1, <4>2 DEF Queue!GiveBack, ph
      <4>4. QED
        BY <4>3 DEF Queue!JobsNext, ph
    <3>5. QED
      BY <3>3, <3>4
  <2>3. QED
    BY <2>1, <2>2
<1>6. ASSUME NEW w \in Workers, Stop(w)
      PROVE  [Queue!JobsNext]_<<ph, attempts>>
  <2> DEFINE mine == {k \in Keys : Holds(w, k)}
  <2>1. /\ status' = [k \in Keys |-> IF k \in mine THEN "failed" ELSE status[k]]
        /\ UNCHANGED <<deadLetter, attempts>>
    BY <1>6 DEF Stop
  <2>2. \A k \in mine : k \in Keys /\ status[k] = "processing" /\ ~deadLetter[k]
    BY DEF Holds, HoldInv, Named
  <2> HIDE DEF mine
  <2>3. ph' = [k \in Keys |-> IF k \in mine THEN "waiting" ELSE ph[k]]
    BY <2>1, <2>2, <1>t DEF Phase
  <2>4. mine \in SUBSET {k \in Keys : ph[k] = "taken"}
    BY <2>2 DEF Phase
  <2>5. Queue!GiveBack
    BY <2>1, <2>3, <2>4 DEF Queue!GiveBack
  <2>6. QED
    BY <2>5 DEF Queue!JobsNext
<1>7. ASSUME NEW k \in Keys, Elapse(k)
      PROVE  [Queue!JobsNext]_<<ph, attempts>>
  <2>1. CASE UNCHANGED <<status, deadLetter, attempts>>
    BY <1>1, <2>1
  <2>2. CASE ~UNCHANGED <<status, deadLetter, attempts>>
    <3>1. /\ status[k] = "processed" /\ status' = [status EXCEPT ![k] = "purged"]
          /\ UNCHANGED <<deadLetter, attempts>>
      BY <1>7, <2>2 DEF Elapse, LockExpires, LeaseExpires, BackoffElapses, Cleanup
    <3>2. ph[k] = "done" /\ ph' = [ph EXCEPT ![k] = "forgotten"]
      BY <3>1, <1>t DEF Phase
    <3>3. Queue!Forget(k)
      BY <3>1, <3>2 DEF Queue!Forget
    <3>4. QED
      BY <3>3 DEF Queue!JobsNext
  <2>3. QED
    BY <2>1, <2>2
<1>8. ASSUME NEW w \in Workers,
             \/ Start(w) \/ Tick(w) \/ ClaimThrows(w) \/ Launch(w) \/ Exit(w) \/ CrashWorker(w)
             \/ \E k \in Keys : \/ Heartbeat(w, k) \/ CheckProcessed(w, k)
                                \/ HandlerSucceeds(w, k) \/ HandlerThrows(w, k)
                                \/ StepThrows(w, k) \/ MarkRetryThrows(w, k)
      PROVE  [Queue!JobsNext]_<<ph, attempts>>
  <2>1. UNCHANGED <<status, deadLetter, attempts>>
    BY <1>8 DEF Start, Tick, ClaimThrows, Launch, Exit, CrashWorker, GoDown, Heartbeat,
       CheckProcessed, HandlerSucceeds, HandlerThrows, StepThrows, MarkRetryThrows
  <2>2. QED
    BY <1>1, <2>1
<1>9. CASE UNCHANGED vars
  BY <1>1, <1>9
<1>10. QED
  BY <1>2, <1>3, <1>4, <1>5, <1>6, <1>7, <1>8, <1>9 DEF Next, WorkerStep, Work

\* The ingest collection keeps the promise of a job queue, whatever fails
\* around it (paymentWebhookIngestService.js:113-377, DR_POLICY.md:49-51).
THEOREM ImplementsJobQueue == Spec => QueueSpec
<1>1. Init => Queue!JobsInit
  BY DEF Init, Queue!JobsInit, Phase
<1>2. Basic /\ HoldInv /\ [Next]_vars
        => [Queue!JobsNext]_<<[k \in Keys |-> Phase(k)], attempts>>
  BY StepImplements
<1>3. QED
  BY <1>1, <1>2, HoldInvariant, PTL DEF Spec, QueueSpec, Queue!JobsSpec, Queue!jobVars
=============================================================================
