------------------------ MODULE PaymentOutbox_proofs ------------------------
(***************************************************************************)
(* Proofs about PaymentOutbox, for any number of events, workers, targets, *)
(* attempts and replay requests.                                           *)
(***************************************************************************)
EXTENDS PaymentOutbox, FiniteSetTheorems, TLAPS

\* A nested update of one counter keeps the type of the table.
LEMMA BumpType ==
  ASSUME NEW E, NEW T, NEW f \in [E -> [T -> Nat]], NEW x, NEW t \in T
  PROVE  [f EXCEPT ![x][t] = @ + 1] \in [E -> [T -> Nat]]
<1> DEFINE g == [f EXCEPT ![x][t] = @ + 1]
<1>1. \A d \in E : d # x => g[d] = f[d]
  OBVIOUS
<1>2. x \in E => g[x] = [f[x] EXCEPT ![t] = @ + 1]
  OBVIOUS
<1>3. x \in E => [f[x] EXCEPT ![t] = @ + 1] \in [T -> Nat]
  <2>1. HAVE x \in E
  <2>2. f[x] \in [T -> Nat]
    BY <2>1
  <2>3. QED
    BY <2>2
<1>4. \A d \in E : g[d] \in [T -> Nat]
  BY <1>1, <1>2, <1>3
<1>5. g = [d \in E |-> g[d]]
  OBVIOUS
<1> HIDE DEF g
<1>6. g \in [E -> [T -> Nat]]
  BY <1>4, <1>5
<1>7. QED
  BY <1>6 DEF g

\* No action takes a variable out of its type.
LEMMA TypeStep == TypeOK /\ [Next]_vars => TypeOK'
<1> SUFFICES ASSUME TypeOK, [Next]_vars
             PROVE  TypeOK'
  OBVIOUS
<1> USE DEF TypeOK, Statuses, vars, docVars, prodVars, workerVars, adminVars, envVars
<1>1. ASSUME NEW e \in Events, CommitPayment(e)
      PROVE  TypeOK'
  BY <1>1, OutboxConstants DEF CommitPayment
<1>2. ASSUME NEW e \in Events, InlineEffects(e)
      PROVE  TypeOK'
  BY <1>2, OutboxConstants DEF InlineEffects
<1>3. ASSUME NEW e \in Events, InlineEffectsFail(e)
      PROVE  TypeOK'
  BY <1>3, OutboxConstants DEF InlineEffectsFail, Fault
<1>4. ASSUME NEW e \in Events, InlineMarkFailed(e)
      PROVE  TypeOK'
  BY <1>4, OutboxConstants DEF InlineMarkFailed, SetStatus
<1>5. ASSUME NEW e \in Events, InlineMarkProcessed(e)
      PROVE  TypeOK'
  BY <1>5, OutboxConstants DEF InlineMarkProcessed, SetStatus
<1>6. ASSUME NEW e \in Events, InlineMarkThrows(e)
      PROVE  TypeOK'
  <2>1. prod' \in [Events -> {"idle", "effects", "markProcessed", "markFailed", "after", "end"}]
    <3>1. \/ prod' = [prod EXCEPT ![e] = "markFailed"]
          \/ prod' = [prod EXCEPT ![e] = "end"]
      BY <1>6 DEF InlineMarkThrows
    <3>2. QED
      BY <3>1
  <2>2. inline' \in [Events -> {"none", "ok", "failed"}]
    BY <1>6, OutboxConstants DEF InlineMarkThrows, Fault
  <2>3. faults' \in 0 .. MaxFaults
    BY <1>6, OutboxConstants DEF InlineMarkThrows, Fault
  <2>4. UNCHANGED <<status, attempts, deadLetter, lockedBy, lease,
                   completedTargets, requeued, rows, life, slots, job,
                   pc, done, adm, crashes, stops, replays>>
    BY <1>6, OutboxConstants DEF InlineMarkThrows, Fault
  <2>5. QED
    BY <2>1, <2>2, <2>3, <2>4
<1>7. ASSUME NEW e \in Events, VerifyRewards(e)
      PROVE  TypeOK'
  BY <1>7, OutboxConstants DEF VerifyRewards
<1>8. ASSUME NEW e \in Events, VerifyRewardsThrow(e)
      PROVE  TypeOK'
  BY <1>8, OutboxConstants DEF VerifyRewardsThrow, Fault
<1>9. ASSUME NEW e \in Events, CrashController(e)
      PROVE  TypeOK'
  BY <1>9, OutboxConstants DEF CrashController, Kill
<1>10. ASSUME NEW w \in Workers, Start(w)
      PROVE  TypeOK'
  BY <1>10, OutboxConstants DEF Start
<1>11. ASSUME NEW w \in Workers, Tick(w)
      PROVE  TypeOK'
  BY <1>11, OutboxConstants DEF Tick
<1>12. ASSUME NEW w \in Workers, NEW e \in Events, ClaimOne(w, e)
      PROVE  TypeOK'
  BY <1>12, OutboxConstants DEF ClaimOne, Claimable
<1>13. ASSUME NEW w \in Workers, NoWork(w)
      PROVE  TypeOK'
  BY <1>13, OutboxConstants DEF NoWork
<1>14. ASSUME NEW w \in Workers, FindTarget(w)
      PROVE  TypeOK'
  <2>1. pc' \in [Workers -> {"idle", "next", "create", "record", "mark", "retry"}]
    BY <1>14, OutboxConstants DEF FindTarget, IsNextTarget
  <2>2. done' \in [Workers -> SUBSET Targets]
    <3>1. PICK t \in Targets : done' = done \/ done' = [done EXCEPT ![w] = @ \cup {t}]
      BY <1>14 DEF FindTarget
    <3>2. QED
      BY <3>1
  <2>3. UNCHANGED <<status, attempts, deadLetter, lockedBy, lease,
                   completedTargets, requeued, rows, prod, inline,
                   life, slots, job, adm, faults, crashes,
                   stops, replays>>
    BY <1>14, OutboxConstants DEF FindTarget, IsNextTarget
  <2>4. QED
    BY <2>1, <2>2, <2>3
<1>15. ASSUME NEW w \in Workers, CreateTarget(w)
      PROVE  TypeOK'
  <2>1. rows' \in [Events -> [Targets -> Nat]]
    <3>1. PICK t \in Targets : rows' = rows \/ rows' = [rows EXCEPT ![job[w]][t] = @ + 1]
      BY <1>15 DEF CreateTarget
    <3>2. rows \in [Events -> [Targets -> Nat]]
      OBVIOUS
    <3>3. [rows EXCEPT ![job[w]][t] = @ + 1] \in [Events -> [Targets -> Nat]]
      BY ONLY <3>2, BumpType, t \in Targets, Zenon
    <3>4. QED
      BY <3>1, <3>2, <3>3
  <2>2. pc' \in [Workers -> {"idle", "next", "create", "record", "mark", "retry"}]
    BY <1>15, OutboxConstants DEF CreateTarget, IsNextTarget
  <2>3. done' \in [Workers -> SUBSET Targets]
    BY <1>15, OutboxConstants DEF CreateTarget, IsNextTarget
  <2>4. UNCHANGED <<status, attempts, deadLetter, lockedBy, lease,
                   completedTargets, requeued, prod, inline, life,
                   slots, job, adm, faults, crashes, stops,
                   replays>>
    BY <1>15, OutboxConstants DEF CreateTarget, IsNextTarget
  <2>5. QED
    BY <2>1, <2>2, <2>3, <2>4
<1>16. ASSUME NEW w \in Workers, RecordTarget(w)
      PROVE  TypeOK'
  BY <1>16, OutboxConstants DEF RecordTarget, Holds
<1>17. ASSUME NEW w \in Workers, FinalHeartbeat(w)
      PROVE  TypeOK'
  <2>1. lease' \in [Events -> {"none", "live", "expired"}]
    BY <1>17, OutboxConstants DEF FinalHeartbeat, Holds
  <2>2. pc' \in [Workers -> {"idle", "next", "create", "record", "mark", "retry"}]
    <3>1. \/ pc' = [pc EXCEPT ![w] = "mark"]
          \/ pc' = [pc EXCEPT ![w] = "retry"]
      BY <1>17 DEF FinalHeartbeat
    <3>2. QED
      BY <3>1
  <2>3. UNCHANGED <<status, attempts, deadLetter, lockedBy, completedTargets,
                   requeued, rows, prod, inline, life, slots, job,
                   done, adm, faults, crashes, stops,
                   replays>>
    BY <1>17, OutboxConstants DEF FinalHeartbeat, Holds
  <2>4. QED
    BY <2>1, <2>2, <2>3
<1>18. ASSUME NEW w \in Workers, MarkProcessed(w)
      PROVE  TypeOK'
  <2>1. status' \in [Events -> Statuses]
    <3>1. status' = status \/ status' = [status EXCEPT ![job[w]] = "processed"]
      BY <1>18 DEF MarkProcessed
    <3>2. QED
      BY <3>1
  <2>2. deadLetter' \in [Events -> BOOLEAN]
    BY <1>18, OutboxConstants DEF MarkProcessed, Holds, Release, Unlock
  <2>3. lockedBy' \in [Events -> Workers \cup Admins \cup {None}]
    BY <1>18, OutboxConstants DEF MarkProcessed, Holds, Release, Unlock
  <2>4. lease' \in [Events -> {"none", "live", "expired"}]
    BY <1>18, OutboxConstants DEF MarkProcessed, Holds, Release, Unlock
  <2>5. job' \in [Workers -> Events \cup {None}]
    BY <1>18, OutboxConstants DEF MarkProcessed, Holds, Release, Unlock
  <2>6. pc' \in [Workers -> {"idle", "next", "create", "record", "mark", "retry"}]
    BY <1>18, OutboxConstants DEF MarkProcessed, Holds, Release, Unlock
  <2>7. done' \in [Workers -> SUBSET Targets]
    BY <1>18, OutboxConstants DEF MarkProcessed, Holds, Release, Unlock
  <2>8. UNCHANGED <<attempts, completedTargets, requeued, rows, prod, inline,
                   life, slots, adm, faults, crashes, stops,
                   replays>>
    BY <1>18, OutboxConstants DEF MarkProcessed, Holds, Release, Unlock
  <2>9. QED
    BY <2>1, <2>2, <2>3, <2>4, <2>5, <2>6, <2>7, <2>8
<1>19. ASSUME NEW w \in Workers, MarkRetry(w)
      PROVE  TypeOK'
  <2>1. status' \in [Events -> Statuses]
    BY <1>19, OutboxConstants DEF MarkRetry, Release, Unlock
  <2>2. deadLetter' \in [Events -> BOOLEAN]
    <3>1. (attempts[job[w]] >= DocMax) \in BOOLEAN
      OBVIOUS
    <3>2. QED
      BY <1>19, <3>1, Zenon DEF MarkRetry
  <2>3. lockedBy' \in [Events -> Workers \cup Admins \cup {None}]
    BY <1>19, OutboxConstants DEF MarkRetry, Release, Unlock
  <2>4. lease' \in [Events -> {"none", "live", "expired"}]
    BY <1>19, OutboxConstants DEF MarkRetry, Release, Unlock
  <2>5. job' \in [Workers -> Events \cup {None}]
    BY <1>19, OutboxConstants DEF MarkRetry, Release, Unlock
  <2>6. pc' \in [Workers -> {"idle", "next", "create", "record", "mark", "retry"}]
    BY <1>19, OutboxConstants DEF MarkRetry, Release, Unlock
  <2>7. done' \in [Workers -> SUBSET Targets]
    BY <1>19, OutboxConstants DEF MarkRetry, Release, Unlock
  <2>8. UNCHANGED <<attempts, completedTargets, requeued, rows, prod, inline,
                   life, slots, adm, faults, crashes, stops,
                   replays>>
    BY <1>19, OutboxConstants DEF MarkRetry, Release, Unlock
  <2>9. QED
    BY <2>1, <2>2, <2>3, <2>4, <2>5, <2>6, <2>7, <2>8
<1>20. ASSUME NEW w \in Workers, HeartbeatTimer(w)
      PROVE  TypeOK'
  BY <1>20, OutboxConstants DEF HeartbeatTimer, Holds
<1>21. ASSUME NEW w \in Workers, StepThrows(w)
      PROVE  TypeOK'
  BY <1>21, OutboxConstants DEF StepThrows, Fault
<1>22. ASSUME NEW w \in Workers, MarkRetryThrows(w)
      PROVE  TypeOK'
  BY <1>22, OutboxConstants DEF MarkRetryThrows, Fault, Release
<1>23. ASSUME NEW w \in Workers, Stop(w)
      PROVE  TypeOK'
  BY <1>23, OutboxConstants DEF Stop
<1>24. ASSUME NEW w \in Workers, Exit(w)
      PROVE  TypeOK'
  BY <1>24, OutboxConstants DEF Exit, GoDown, Release
<1>25. ASSUME NEW w \in Workers, CrashWorker(w)
      PROVE  TypeOK'
  BY <1>25, OutboxConstants DEF CrashWorker, GoDown, Release, Kill
<1>26. ASSUME NEW e \in Events, LeaseExpires(e)
      PROVE  TypeOK'
  BY <1>26, OutboxConstants DEF LeaseExpires
<1>27. ASSUME NEW e \in Events, Cleanup(e)
      PROVE  TypeOK'
  BY <1>27, OutboxConstants DEF Cleanup
<1>28. ASSUME NEW a \in Admins, NEW e \in Events, ReplayClaim(a, e)
      PROVE  TypeOK'
  BY <1>28, OutboxConstants DEF ReplayClaim
<1>29. ASSUME NEW a \in Admins, ReplayRequeue(a)
      PROVE  TypeOK'
  <2>1. status' \in [Events -> Statuses]
    BY <1>29, OutboxConstants DEF ReplayRequeue, Unlock
  <2>2. deadLetter' \in [Events -> BOOLEAN]
    BY <1>29, OutboxConstants DEF ReplayRequeue, Unlock
  <2>3. lockedBy' \in [Events -> Workers \cup Admins \cup {None}]
    BY <1>29, OutboxConstants DEF ReplayRequeue, Unlock
  <2>4. lease' \in [Events -> {"none", "live", "expired"}]
    BY <1>29, OutboxConstants DEF ReplayRequeue, Unlock
  <2>5. requeued' \in [Events -> BOOLEAN]
    BY <1>29, OutboxConstants DEF ReplayRequeue, Unlock
  <2>6. adm' \in [Admins -> Events \cup {None}]
    BY <1>29, OutboxConstants DEF ReplayRequeue, Unlock
  <2>7. UNCHANGED <<attempts, completedTargets, rows, prod, inline, life,
                   slots, job, pc, done, faults, crashes,
                   stops, replays>>
    BY <1>29, OutboxConstants DEF ReplayRequeue, Unlock
  <2>8. QED
    BY <2>1, <2>2, <2>3, <2>4, <2>5, <2>6, <2>7
<1>30. ASSUME NEW a \in Admins, ReplayLost(a)
      PROVE  TypeOK'
  BY <1>30, OutboxConstants DEF ReplayLost, Kill
<1>31. CASE UNCHANGED vars
  BY <1>31
<1>32. QED
  BY <1>1, <1>2, <1>3, <1>4, <1>5, <1>6, <1>7, <1>8, <1>9, <1>10, <1>11,
     <1>12, <1>13, <1>14, <1>15, <1>16, <1>17, <1>18, <1>19, <1>20, <1>21,
     <1>22, <1>23, <1>24, <1>25, <1>26, <1>27, <1>28, <1>29, <1>30, <1>31
     DEF Next, ControllerStep, Controller, WorkerStep, Work, AdminStep

\* Every variable of the outbox keeps its type; attempts never pass ClaimMax
\* (paymentOutboxWorker.js:199-213), however often an administrator replays.
THEOREM TypeCorrect == Spec => []TypeOK
<1>1. Init => TypeOK
  BY OutboxConstants DEF Init, TypeOK, Statuses
<1>2. QED
  BY <1>1, TypeStep, PTL DEF Spec

-----------------------------------------------------------------------------
(* Coverage: a processed event has its side effects.                       *)

\* A worker has an event exactly when it is not idle, and only while it lives.
Busy ==
  \A w \in Workers : /\ job[w] = None <=> pc[w] = "idle"
                     /\ job[w] # None => life[w] \in {"up", "stopping"}

\* The worker's copy of the progress is never ahead of the rows, and the event
\* is about to be marked only when the copy is complete.
DoneHaveRows ==
  \A w \in Workers : job[w] # None => \A t \in done[w] : rows[job[w]][t] > 0

MarkMeansDone == \A w \in Workers : pc[w] = "mark" => Targets \subseteq done[w]

Coverage == Busy /\ DoneHaveRows /\ MarkMeansDone /\ CompletedHaveRows

\* What only moves the documents' status, lease or counters, or the processes
\* other than the workers.
Bystander ==
  \/ \E e \in Events : ControllerStep(e) \/ LeaseExpires(e) \/ Cleanup(e)
  \/ \E a \in Admins : AdminStep(a)
  \/ UNCHANGED vars

LEMMA BystanderFrame ==
  ASSUME Bystander
  PROVE  UNCHANGED <<rows, completedTargets, workerVars>>
<1> USE DEF vars, docVars, prodVars, workerVars, adminVars, envVars
<1>1. ASSUME NEW e \in Events, ControllerStep(e)
      PROVE  UNCHANGED <<rows, completedTargets, workerVars>>
  BY <1>1 DEF ControllerStep, Controller, CommitPayment, InlineEffects, InlineEffectsFail,
     InlineMarkFailed, InlineMarkProcessed, InlineMarkThrows, VerifyRewards,
     VerifyRewardsThrow, CrashController
<1>2. ASSUME NEW e \in Events, LeaseExpires(e) \/ Cleanup(e)
      PROVE  UNCHANGED <<rows, completedTargets, workerVars>>
  BY <1>2 DEF LeaseExpires, Cleanup
<1>3. ASSUME NEW a \in Admins, AdminStep(a)
      PROVE  UNCHANGED <<rows, completedTargets, workerVars>>
  BY <1>3 DEF AdminStep, ReplayClaim, ReplayRequeue, ReplayLost
<1>4. QED
  BY <1>1, <1>2, <1>3 DEF Bystander

LEMMA CoverageStep == TypeOK /\ Coverage /\ [Next]_vars => Coverage'
<1> SUFFICES ASSUME TypeOK, Coverage, [Next]_vars
             PROVE  Coverage'
  OBVIOUS
<1> USE DEF vars, docVars, prodVars, workerVars, adminVars, envVars
<1>t. /\ job \in [Workers -> Events \cup {None}]
      /\ pc \in [Workers -> {"idle", "next", "create", "record", "mark", "retry"}]
      /\ done \in [Workers -> SUBSET Targets]
      /\ life \in [Workers -> {"new", "up", "stopping", "down"}]
      /\ rows \in [Events -> [Targets -> Nat]]
      /\ completedTargets \in [Events -> SUBSET Targets]
      /\ None \notin Events
  BY OutboxConstants DEF TypeOK
<1> USE <1>t
<1>1. CASE Bystander
  BY <1>1, BystanderFrame DEF Coverage, Busy, DoneHaveRows, MarkMeansDone, CompletedHaveRows
<1>2. ASSUME NEW w \in Workers, Start(w)
      PROVE  Coverage'
  BY <1>2 DEF Start, Coverage, Busy, DoneHaveRows, MarkMeansDone, CompletedHaveRows
<1>3. ASSUME NEW w \in Workers, Tick(w) \/ NoWork(w) \/ HeartbeatTimer(w)
      PROVE  Coverage'
  BY <1>3 DEF Tick, NoWork, HeartbeatTimer, Coverage, Busy, DoneHaveRows,
     MarkMeansDone, CompletedHaveRows
<1>4. ASSUME NEW w \in Workers, NEW e \in Events, ClaimOne(w, e)
      PROVE  Coverage'
  <2> USE <1>4 DEF ClaimOne
  <2>1. Busy'
    BY DEF Coverage, Busy
  <2>2. DoneHaveRows'
    BY DEF Coverage, DoneHaveRows, CompletedHaveRows
  <2>3. MarkMeansDone'
    BY DEF Coverage, MarkMeansDone
  <2>4. CompletedHaveRows'
    BY DEF Coverage, CompletedHaveRows
  <2>5. QED
    BY <2>1, <2>2, <2>3, <2>4 DEF Coverage
<1>5. ASSUME NEW w \in Workers, FindTarget(w)
      PROVE  Coverage'
  <2>1. job[w] # None /\ pc[w] = "next"
    BY <1>5 DEF FindTarget, Coverage, Busy
  <2>2. PICK t \in Targets :
          \/ /\ rows[job[w]][t] > 0
             /\ done' = [done EXCEPT ![w] = @ \cup {t}]
             /\ pc' = [pc EXCEPT ![w] = "record"]
          \/ done' = done /\ pc' = [pc EXCEPT ![w] = "create"]
    BY <1>5 DEF FindTarget
  <2>3. UNCHANGED <<rows, completedTargets, job, life>>
    BY <1>5 DEF FindTarget
  <2>4. Busy'
    BY <2>1, <2>2, <2>3 DEF Coverage, Busy
  <2>5. DoneHaveRows'
    BY <2>1, <2>2, <2>3 DEF Coverage, DoneHaveRows
  <2>6. MarkMeansDone'
    BY <2>1, <2>2, <2>3 DEF Coverage, MarkMeansDone
  <2>7. CompletedHaveRows'
    BY <2>3 DEF Coverage, CompletedHaveRows
  <2>8. QED
    BY <2>4, <2>5, <2>6, <2>7 DEF Coverage
<1>6. ASSUME NEW w \in Workers, CreateTarget(w)
      PROVE  Coverage'
  <2>1. job[w] # None /\ job[w] \in Events /\ pc[w] = "create"
    BY <1>6 DEF CreateTarget, Coverage, Busy
  <2>2. PICK t \in Targets :
          \/ UNCHANGED <<rows, done>> /\ pc' = [pc EXCEPT ![w] = "retry"]
          \/ /\ rows' = [rows EXCEPT ![job[w]][t] = @ + 1]
             /\ done' = [done EXCEPT ![w] = @ \cup {t}]
             /\ pc' = [pc EXCEPT ![w] = "record"]
    BY <1>6 DEF CreateTarget
  <2>3. UNCHANGED <<completedTargets, job, life>>
    BY <1>6 DEF CreateTarget
  <2>4. \A d \in Events, u \in Targets : rows[d][u] > 0 => rows'[d][u] > 0
    BY <2>1, <2>2
  <2>5. done' # done => rows'[job[w]][t] > 0
    BY <2>1, <2>2
  <2>6. Busy'
    BY <2>1, <2>2, <2>3 DEF Coverage, Busy
  <2>7. DoneHaveRows'
    <3> SUFFICES ASSUME NEW v \in Workers, job[v] # None, NEW u \in done'[v]
                 PROVE  rows'[job[v]][u] > 0
      BY <2>3 DEF DoneHaveRows
    <3>1. CASE u \in done[v]
      BY <3>1, <2>4 DEF Coverage, DoneHaveRows
    <3>2. CASE u \notin done[v]
      BY <3>2, <2>2, <2>5
    <3>3. QED
      BY <3>1, <3>2
  <2>8. MarkMeansDone'
    BY <2>1, <2>2 DEF Coverage, MarkMeansDone
  <2>9. CompletedHaveRows'
    BY <2>3, <2>4 DEF Coverage, CompletedHaveRows
  <2>10. QED
    BY <2>6, <2>7, <2>8, <2>9 DEF Coverage
<1>7. ASSUME NEW w \in Workers, RecordTarget(w)
      PROVE  Coverage'
  <2>1. job[w] # None /\ job[w] \in Events
    BY <1>7 DEF RecordTarget, Coverage, Busy
  <2>2. /\ completedTargets' = completedTargets
             \/ completedTargets' = [completedTargets EXCEPT ![job[w]] = done[w]]
        /\ pc' = [pc EXCEPT ![w] = "next"]
        /\ UNCHANGED <<rows, job, done, life>>
    BY <1>7 DEF RecordTarget
  <2>3. Busy' /\ DoneHaveRows' /\ MarkMeansDone'
    BY <2>1, <2>2 DEF Coverage, Busy, DoneHaveRows, MarkMeansDone
  <2>4. CompletedHaveRows'
    BY <2>1, <2>2 DEF Coverage, CompletedHaveRows, DoneHaveRows
  <2>5. QED
    BY <2>3, <2>4 DEF Coverage
<1>8. ASSUME NEW w \in Workers, FinalHeartbeat(w)
      PROVE  Coverage'
  <2>1. /\ pc[w] = "next" /\ Targets \subseteq done[w]
        /\ pc' = [pc EXCEPT ![w] = "mark"] \/ pc' = [pc EXCEPT ![w] = "retry"]
        /\ UNCHANGED <<rows, completedTargets, job, done, life>>
    BY <1>8 DEF FinalHeartbeat
  <2>2. QED
    BY <2>1 DEF Coverage, Busy, DoneHaveRows, MarkMeansDone, CompletedHaveRows
<1>9. ASSUME NEW w \in Workers, StepThrows(w)
      PROVE  Coverage'
  BY <1>9 DEF StepThrows, Coverage, Busy, DoneHaveRows, MarkMeansDone, CompletedHaveRows
<1>10. ASSUME NEW w \in Workers, Stop(w)
      PROVE  Coverage'
  <2>1. /\ life' = [life EXCEPT ![w] = "stopping"]
        /\ UNCHANGED <<rows, completedTargets, job, pc, done>>
    BY <1>10 DEF Stop
  <2>2. QED
    BY <2>1 DEF Coverage, Busy, DoneHaveRows, MarkMeansDone, CompletedHaveRows
<1>11. ASSUME NEW w \in Workers,
              MarkProcessed(w) \/ MarkRetry(w) \/ MarkRetryThrows(w) \/ Exit(w) \/ CrashWorker(w)
       PROVE  Coverage'
  <2>1. /\ Release(w)
        /\ life' = life \/ life' = [life EXCEPT ![w] = "down"]
        /\ UNCHANGED <<rows, completedTargets>>
    BY <1>11 DEF MarkProcessed, MarkRetry, MarkRetryThrows, Exit, CrashWorker, GoDown
  <2>2. QED
    BY <2>1 DEF Release, Coverage, Busy, DoneHaveRows, MarkMeansDone, CompletedHaveRows
<1>12. QED
  BY <1>1, <1>2, <1>3, <1>4, <1>5, <1>6, <1>7, <1>8, <1>9, <1>10, <1>11
     DEF Next, WorkerStep, Work, Bystander

LEMMA CoverageInvariant == Spec => [](TypeOK /\ Coverage)
<1>1. Init => Coverage
  BY OutboxConstants DEF Init, Coverage, Busy, DoneHaveRows, MarkMeansDone, CompletedHaveRows
<1>2. QED
  BY <1>1, CoverageStep, TypeCorrect, PTL DEF Spec

\* The progress an event records is never ahead of the documents written for it
\* (paymentOutboxWorker.js:311-330).
THEOREM CompletedHaveRowsAlways == Spec => []CompletedHaveRows
<1>1. Coverage => CompletedHaveRows
  BY DEF Coverage
<1>2. QED
  BY <1>1, CoverageInvariant, PTL

\* What a webhook's event says of its controller: about to be marked processed
\* only after the side effects, and marked processed either by that controller,
\* which then ended, or after all the rows were written.
WebhookCovered ==
  \A e \in Events \ VerifyEvents :
    /\ prod[e] # "after"
    /\ prod[e] = "markProcessed" => inline[e] = "ok"
    /\ status[e] = "processed" => \/ prod[e] = "end" /\ inline[e] = "ok"
                                  \/ \A t \in Targets : rows[e][t] > 0

LEMMA RowsGrow ==
  ASSUME TypeOK, [Next]_vars
  PROVE  \A e \in Events, t \in Targets : rows[e][t] > 0 => rows'[e][t] > 0
<1>1. \/ rows' = rows
      \/ \E w \in Workers : \E t \in Targets : rows' = [rows EXCEPT ![job[w]][t] = @ + 1]
  <2>1. CASE Bystander
    BY <2>1, BystanderFrame
  <2>2. ASSUME NEW w \in Workers, WorkerStep(w), ~CreateTarget(w)
        PROVE  rows' = rows
    BY <2>2 DEF WorkerStep, Work, Start, Tick, ClaimOne, NoWork, FindTarget, RecordTarget,
       FinalHeartbeat, MarkProcessed, MarkRetry, HeartbeatTimer, StepThrows,
       MarkRetryThrows, Stop, Exit, CrashWorker, GoDown
  <2>3. ASSUME NEW w \in Workers, CreateTarget(w)
        PROVE  rows' = rows \/ \E t \in Targets : rows' = [rows EXCEPT ![job[w]][t] = @ + 1]
    BY <2>3 DEF CreateTarget
  <2>4. QED
    BY <2>1, <2>2, <2>3 DEF Next, Bystander
<1>2. rows \in [Events -> [Targets -> Nat]]
  BY DEF TypeOK
<1>3. ASSUME NEW w \in Workers, NEW t \in Targets,
             rows' = [rows EXCEPT ![job[w]][t] = @ + 1],
             NEW e \in Events, NEW u \in Targets, rows[e][u] > 0
      PROVE  rows'[e][u] > 0
  <2>1. rows'[e] = IF e = job[w] THEN [rows[e] EXCEPT ![t] = @ + 1] ELSE rows[e]
    BY <1>2, <1>3
  <2>2. QED
    BY <1>2, <1>3, <2>1
<1>4. QED
  BY <1>1, <1>3

\* A row behind a unique index is only written when there is none.
LEMMA UniqueStep == TypeOK /\ UniqueTargetsOnce /\ [Next]_vars => UniqueTargetsOnce'
<1> SUFFICES ASSUME TypeOK, UniqueTargetsOnce, [Next]_vars
             PROVE  UniqueTargetsOnce'
  OBVIOUS
<1>1. \/ rows' = rows
      \/ \E w \in Workers, t \in Targets :
           /\ t \notin UniqueTargets \/ rows[job[w]][t] = 0
           /\ rows' = [rows EXCEPT ![job[w]][t] = @ + 1]
  <2>1. CASE Bystander
    BY <2>1, BystanderFrame
  <2>2. ASSUME NEW w \in Workers, WorkerStep(w), ~CreateTarget(w)
        PROVE  rows' = rows
    BY <2>2 DEF WorkerStep, Work, Start, Tick, ClaimOne, NoWork, FindTarget, RecordTarget,
       FinalHeartbeat, MarkProcessed, MarkRetry, HeartbeatTimer, StepThrows,
       MarkRetryThrows, Stop, Exit, CrashWorker, GoDown
  <2>3. ASSUME NEW w \in Workers, CreateTarget(w)
        PROVE  \/ rows' = rows
               \/ \E t \in Targets : /\ t \notin UniqueTargets \/ rows[job[w]][t] = 0
                                     /\ rows' = [rows EXCEPT ![job[w]][t] = @ + 1]
    BY <2>3 DEF CreateTarget
  <2>4. QED
    BY <2>1, <2>2, <2>3 DEF Next, Bystander
<1>2. rows \in [Events -> [Targets -> Nat]] /\ UniqueTargets \subseteq Targets
  BY OutboxConstants DEF TypeOK
<1>3. ASSUME NEW w \in Workers, NEW t \in Targets,
             t \notin UniqueTargets \/ rows[job[w]][t] = 0,
             rows' = [rows EXCEPT ![job[w]][t] = @ + 1],
             NEW e \in Events, NEW u \in UniqueTargets
      PROVE  rows'[e][u] <= 1
  <2>1. rows'[e] = IF e = job[w] THEN [rows[e] EXCEPT ![t] = @ + 1] ELSE rows[e]
    BY <1>2, <1>3
  <2>2. rows[e][u] <= 1 /\ rows[e][u] \in Nat /\ u \in Targets
    BY <1>2 DEF UniqueTargetsOnce
  <2>3. QED
    BY <1>2, <1>3, <2>1, <2>2
<1>4. QED
  BY <1>1, <1>3 DEF UniqueTargetsOnce

\* A target behind a unique index is written at most once for an event, for any
\* workers, retries and takeovers (paymentOutboxWorker.js:120-168).
THEOREM UniqueTargetsOnceAlways == Spec => []UniqueTargetsOnce
<1>1. Init => UniqueTargetsOnce
  BY OutboxConstants DEF Init, UniqueTargetsOnce
<1>2. QED
  BY <1>1, UniqueStep, TypeCorrect, PTL DEF Spec

LEMMA WebhookCoveredStep ==
  TypeOK /\ Coverage /\ WebhookCovered /\ [Next]_vars => WebhookCovered'
<1> SUFFICES ASSUME TypeOK, Coverage, WebhookCovered, [Next]_vars
             PROVE  WebhookCovered'
  OBVIOUS
<1> USE DEF vars, docVars, prodVars, workerVars, adminVars, envVars
<1>t. /\ status \in [Events -> Statuses]
      /\ prod \in [Events -> {"idle", "effects", "markProcessed", "markFailed", "after", "end"}]
      /\ inline \in [Events -> {"none", "ok", "failed"}]
      /\ job \in [Workers -> Events \cup {None}]
  BY DEF TypeOK
<1>g. \A e \in Events, t \in Targets : rows[e][t] > 0 => rows'[e][t] > 0
  BY RowsGrow
<1> USE <1>t, <1>g
<1>1. ASSUME UNCHANGED prodVars, \A e \in Events : status'[e] = "processed" => status[e] = "processed"
      PROVE  WebhookCovered'
  BY <1>1 DEF WebhookCovered
<1>2. ASSUME NEW e \in Events, ControllerStep(e)
      PROVE  WebhookCovered'
  <2>1. CASE CommitPayment(e)
    BY <2>1 DEF CommitPayment, WebhookCovered
  <2>2. CASE InlineEffects(e)
    BY <2>2 DEF InlineEffects, WebhookCovered
  <2>3. CASE InlineEffectsFail(e)
    BY <2>3 DEF InlineEffectsFail, WebhookCovered
  <2>4. CASE InlineMarkFailed(e)
    BY <2>4 DEF InlineMarkFailed, SetStatus, WebhookCovered
  <2>5. CASE InlineMarkProcessed(e)
    BY <2>5 DEF InlineMarkProcessed, SetStatus, WebhookCovered
  <2>6. CASE InlineMarkThrows(e)
    BY <2>6 DEF InlineMarkThrows, WebhookCovered
  <2>7. CASE VerifyRewards(e) \/ VerifyRewardsThrow(e)
    BY <2>7 DEF VerifyRewards, VerifyRewardsThrow, WebhookCovered
  <2>8. CASE CrashController(e)
    BY <2>8 DEF CrashController, WebhookCovered
  <2>9. QED
    BY <1>2, <2>1, <2>2, <2>3, <2>4, <2>5, <2>6, <2>7, <2>8 DEF ControllerStep, Controller
<1>3. ASSUME NEW w \in Workers, MarkProcessed(w)
      PROVE  WebhookCovered'
  <2>1. /\ job[w] \in Events
        /\ \A t \in Targets : rows[job[w]][t] > 0
    BY <1>3 DEF MarkProcessed, Coverage, Busy, MarkMeansDone, DoneHaveRows
  <2>2. /\ status' = status \/ status' = [status EXCEPT ![job[w]] = "processed"]
        /\ UNCHANGED prodVars
    BY <1>3 DEF MarkProcessed
  <2>3. QED
    BY <2>1, <2>2 DEF WebhookCovered
<1>4. ASSUME NEW w \in Workers, MarkRetry(w)
      PROVE  WebhookCovered'
  <2>1. /\ status' = status \/ status' = [status EXCEPT ![job[w]] = "failed"]
        /\ UNCHANGED prodVars
    BY <1>4 DEF MarkRetry
  <2>2. QED
    BY <1>1, <2>1
<1>5. ASSUME NEW w \in Workers, WorkerStep(w), ~MarkProcessed(w), ~MarkRetry(w)
      PROVE  WebhookCovered'
  <2>1. UNCHANGED prodVars /\ \A e \in Events : status'[e] = "processed" => status[e] = "processed"
    BY <1>5 DEF WorkerStep, Work, Start, Tick, ClaimOne, NoWork, FindTarget, CreateTarget,
       RecordTarget, FinalHeartbeat, HeartbeatTimer, StepThrows, MarkRetryThrows, Stop,
       Exit, CrashWorker, GoDown
  <2>2. QED
    BY <1>1, <2>1
<1>6. ASSUME NEW e \in Events, LeaseExpires(e) \/ Cleanup(e)
      PROVE  WebhookCovered'
  BY <1>1, <1>6 DEF LeaseExpires, Cleanup
<1>7. ASSUME NEW a \in Admins, AdminStep(a)
      PROVE  WebhookCovered'
  <2>1. UNCHANGED prodVars /\ \A e \in Events : status'[e] = "processed" => status[e] = "processed"
    BY <1>7 DEF AdminStep, ReplayClaim, ReplayRequeue, ReplayLost
  <2>2. QED
    BY <1>1, <2>1
<1>8. CASE UNCHANGED vars
  BY <1>1, <1>8
<1>9. QED
  BY <1>2, <1>3, <1>4, <1>5, <1>6, <1>7, <1>8 DEF Next

\* A webhook's event reads processed only when its side effects exist, in every
\* order of the handler, the workers, their crashes and the administrators
\* (paymentController.js:326-361, paymentOutboxWorker.js:307-402).
THEOREM WebhookProcessedIsCoveredAlways == Spec => []WebhookProcessedIsCovered
<1>1. Init => WebhookCovered
  BY DEF Init, WebhookCovered
<1>2. WebhookCovered => WebhookProcessedIsCovered
  BY DEF WebhookCovered, WebhookProcessedIsCovered, Covered
<1>3. QED
  BY <1>1, <1>2, WebhookCoveredStep, CoverageInvariant, PTL DEF Spec

-----------------------------------------------------------------------------
(* Progress: what an attempt recorded is never forgotten.                  *)

\* A worker whose name is on the document has seen all of its progress.
HolderKnows ==
  \A w \in Workers :
    job[w] # None /\ lockedBy[job[w]] = w => completedTargets[job[w]] \subseteq done[w]

LEMMA HolderKnowsStep ==
  TypeOK /\ Coverage /\ HolderKnows /\ [Next]_vars => HolderKnows'
<1> SUFFICES ASSUME TypeOK, Coverage, HolderKnows, [Next]_vars
             PROVE  HolderKnows'
  OBVIOUS
<1> USE DEF vars, docVars, prodVars, workerVars, adminVars, envVars
<1>t. /\ job \in [Workers -> Events \cup {None}]
      /\ done \in [Workers -> SUBSET Targets]
      /\ lockedBy \in [Events -> Workers \cup Admins \cup {None}]
      /\ completedTargets \in [Events -> SUBSET Targets]
      /\ None \notin Events \cup Workers \cup Admins /\ Workers \cap Admins = {}
  BY OutboxConstants DEF TypeOK
<1> USE <1>t
\* Steps that give the name on a document to no other worker.
<1>1. ASSUME UNCHANGED <<completedTargets, done, job>>,
             \A e \in Events : lockedBy'[e] \in Workers => lockedBy'[e] = lockedBy[e]
      PROVE  HolderKnows'
  BY <1>1 DEF HolderKnows
<1>2. ASSUME NEW w \in Workers, NEW e \in Events, ClaimOne(w, e)
      PROVE  HolderKnows'
  BY <1>2 DEF ClaimOne, HolderKnows
<1>3. ASSUME NEW w \in Workers, FindTarget(w) \/ CreateTarget(w)
      PROVE  HolderKnows'
  <2>1. /\ UNCHANGED <<completedTargets, job, lockedBy>>
        /\ done' = done \/ \E t \in Targets : done' = [done EXCEPT ![w] = @ \cup {t}]
    BY <1>3 DEF FindTarget, CreateTarget
  <2>2. QED
    BY <2>1 DEF HolderKnows
<1>4. ASSUME NEW w \in Workers, RecordTarget(w)
      PROVE  HolderKnows'
  <2>1. job[w] \in Events
    BY <1>4 DEF RecordTarget, Coverage, Busy
  <2>2. /\ UNCHANGED <<done, job, lockedBy>>
        /\ \/ completedTargets' = completedTargets
           \/ /\ lockedBy[job[w]] = w
              /\ completedTargets' = [completedTargets EXCEPT ![job[w]] = done[w]]
    BY <1>4 DEF RecordTarget, Holds
  <2>3. QED
    BY <2>1, <2>2 DEF HolderKnows
<1>5. ASSUME NEW w \in Workers,
             MarkProcessed(w) \/ MarkRetry(w) \/ MarkRetryThrows(w) \/ Exit(w) \/ CrashWorker(w)
      PROVE  HolderKnows'
  <2>1. /\ Release(w)
        /\ UNCHANGED completedTargets
        /\ lockedBy' = lockedBy \/ lockedBy' = [lockedBy EXCEPT ![job[w]] = None]
    BY <1>5 DEF MarkProcessed, MarkRetry, MarkRetryThrows, Exit, CrashWorker, GoDown, Unlock
  <2>2. QED
    BY <2>1 DEF Release, HolderKnows
<1>6. ASSUME NEW w \in Workers, Stop(w)
      PROVE  HolderKnows'
  <2>1. /\ UNCHANGED <<completedTargets, done, job>>
        /\ \A e \in Events : lockedBy'[e] \in {lockedBy[e], None}
    BY <1>6 DEF Stop
  <2>2. QED
    BY <1>1, <2>1
<1>7. ASSUME NEW w \in Workers,
             \/ Start(w) \/ Tick(w) \/ NoWork(w) \/ FinalHeartbeat(w)
             \/ HeartbeatTimer(w) \/ StepThrows(w)
      PROVE  HolderKnows'
  <2>1. UNCHANGED <<completedTargets, done, job, lockedBy>>
    BY <1>7 DEF Start, Tick, NoWork, FinalHeartbeat, HeartbeatTimer, StepThrows
  <2>2. QED
    BY <1>1, <2>1
<1>8. ASSUME NEW e \in Events, ControllerStep(e) \/ LeaseExpires(e) \/ Cleanup(e)
      PROVE  HolderKnows'
  <2>1. UNCHANGED lockedBy
    BY <1>8 DEF ControllerStep, Controller, CommitPayment, InlineEffects, InlineEffectsFail,
       InlineMarkFailed, InlineMarkProcessed, InlineMarkThrows, VerifyRewards,
       VerifyRewardsThrow, CrashController, LeaseExpires, Cleanup
  <2>2. UNCHANGED <<completedTargets, done, job>>
    BY <1>8, BystanderFrame DEF Bystander
  <2>3. QED
    BY <1>1, <2>1, <2>2
<1>9. ASSUME NEW a \in Admins, AdminStep(a)
      PROVE  HolderKnows'
  <2>1. \A e \in Events : lockedBy'[e] \in {lockedBy[e], a, None}
    BY <1>9 DEF AdminStep, ReplayClaim, ReplayRequeue, ReplayLost, Unlock
  <2>2. UNCHANGED <<completedTargets, done, job>>
    BY <1>9, BystanderFrame DEF Bystander
  <2>3. QED
    BY <1>1, <2>1, <2>2
<1>10. CASE UNCHANGED vars
  BY <1>1, <1>10
<1>11. QED
  BY <1>2, <1>3, <1>4, <1>5, <1>6, <1>7, <1>8, <1>9, <1>10 DEF Next, WorkerStep, Work

\* A slow worker never overwrites the progress of its successor
\* (paymentOutboxWorker.js:326-329).
THEOREM ProgressIsKeptAlways == Spec => ProgressIsKept
<1>1. Init => HolderKnows
  BY DEF Init, HolderKnows
<1>2. TypeOK /\ Coverage /\ HolderKnows /\ [Next]_vars
        => [\A e \in Events : completedTargets[e] \subseteq completedTargets'[e]]_vars
  <2> SUFFICES ASSUME TypeOK, Coverage, HolderKnows, Next, NEW e \in Events
               PROVE  completedTargets[e] \subseteq completedTargets'[e]
    OBVIOUS
  <2> USE DEF docVars, prodVars, workerVars, adminVars, envVars
  <2>1. CASE Bystander
    BY <2>1, BystanderFrame
  <2>2. ASSUME NEW w \in Workers, WorkerStep(w), ~RecordTarget(w)
        PROVE  completedTargets' = completedTargets
    BY <2>2 DEF WorkerStep, Work, Start, Tick, ClaimOne, NoWork, FindTarget, CreateTarget,
       FinalHeartbeat, MarkProcessed, MarkRetry, HeartbeatTimer, StepThrows,
       MarkRetryThrows, Stop, Exit, CrashWorker, GoDown
  <2>3. ASSUME NEW w \in Workers, RecordTarget(w)
        PROVE  completedTargets[e] \subseteq completedTargets'[e]
    <3>1. job[w] # None
      BY <2>3 DEF RecordTarget, Coverage, Busy
    <3>2. QED
      BY <2>3, <3>1 DEF RecordTarget, Holds, HolderKnows, TypeOK
  <2>4. QED
    BY <2>1, <2>2, <2>3 DEF Next, Bystander
<1>3. QED
  BY <1>1, <1>2, HolderKnowsStep, CoverageInvariant, PTL DEF Spec, ProgressIsKept

-----------------------------------------------------------------------------
(* Holders: who can be at work on one event at the same time.              *)

\* The controller's verdict on its own side effects is given once.
Verdict ==
  \A e \in Events : /\ prod[e] \in {"idle", "effects"} => inline[e] = "none"
                    /\ prod[e] = "markFailed" => inline[e] = "failed"

\* A worker at work on an event has its name on the document, unless it is
\* stopping or the controller marked the event failed; with its name on it the
\* document is in no claimable status.
Holding ==
  \A w \in Workers, e \in Events : InFlight(w, e) =>
    /\ lockedBy[e] = w \/ life[w] = "stopping" \/ inline[e] = "failed"
    /\ lockedBy[e] = w =>
         inline[e] = "failed" \/ status[e] \in {"processing", "processed", "purged"}

\* A dead letter is exhausted and in no worker's hands.  One that an administrator
\* has claimed is beyond the reach of claims, of a worker's and of another
\* administrator's, unless its controller marked it failed meanwhile.
Exhausted ==
  /\ DeadIsSpent
  /\ \A a \in Admins, e \in Events : adm[a] = e =>
       /\ attempts[e] >= DocMax
       /\ \/ inline[e] = "failed"
          \/ /\ deadLetter[e] /\ status[e] \in {"processing", "processed", "purged"}
             /\ \A b \in Admins : adm[b] = e => b = a

HolderInv == Verdict /\ Holding /\ Exhausted

LEMMA VerdictStep == TypeOK /\ Verdict /\ [Next]_vars => Verdict'
<1> SUFFICES ASSUME TypeOK, Verdict, [Next]_vars
             PROVE  Verdict'
  OBVIOUS
<1> USE DEF vars, docVars, prodVars, workerVars, adminVars, envVars
<1>t. /\ prod \in [Events -> {"idle", "effects", "markProcessed", "markFailed", "after", "end"}]
      /\ inline \in [Events -> {"none", "ok", "failed"}]
  BY DEF TypeOK
<1> USE <1>t
<1>1. ASSUME NEW e \in Events, ControllerStep(e), ~InlineMarkThrows(e)
      PROVE  Verdict'
  BY <1>1 DEF ControllerStep, Controller, CommitPayment, InlineEffects, InlineEffectsFail,
     InlineMarkFailed, InlineMarkProcessed, VerifyRewards, VerifyRewardsThrow,
     CrashController, Verdict
<1>2. ASSUME NEW e \in Events, InlineMarkThrows(e)
      PROVE  Verdict'
  BY <1>2 DEF InlineMarkThrows, Verdict
<1>3. ASSUME UNCHANGED prodVars
      PROVE  Verdict'
  BY <1>3 DEF Verdict
<1>4. ASSUME NEW w \in Workers, WorkerStep(w)
      PROVE  UNCHANGED prodVars
  BY <1>4 DEF WorkerStep, Work, Start, Tick, ClaimOne, NoWork, FindTarget, CreateTarget,
     RecordTarget, FinalHeartbeat, MarkProcessed, MarkRetry, HeartbeatTimer, StepThrows,
     MarkRetryThrows, Stop, Exit, CrashWorker, GoDown
<1>5. ASSUME NEW a \in Admins, AdminStep(a)
      PROVE  UNCHANGED prodVars
  BY <1>5 DEF AdminStep, ReplayClaim, ReplayRequeue, ReplayLost
<1>6. QED
  BY <1>1, <1>2, <1>3, <1>4, <1>5 DEF Next, LeaseExpires, Cleanup

LEMMA HolderStep == TypeOK /\ Coverage /\ HolderInv /\ [Next]_vars => HolderInv'
<1> SUFFICES ASSUME TypeOK, Coverage, HolderInv, [Next]_vars
             PROVE  Holding' /\ Exhausted'
  BY VerdictStep DEF HolderInv
<1> USE DEF vars, docVars, prodVars, workerVars, adminVars, envVars, InFlight
<1>t. /\ status \in [Events -> Statuses]
      /\ attempts \in [Events -> 0 .. ClaimMax]
      /\ deadLetter \in [Events -> BOOLEAN]
      /\ lockedBy \in [Events -> Workers \cup Admins \cup {None}]
      /\ prod \in [Events -> {"idle", "effects", "markProcessed", "markFailed", "after", "end"}]
      /\ inline \in [Events -> {"none", "ok", "failed"}]
      /\ life \in [Workers -> {"new", "up", "stopping", "down"}]
      /\ job \in [Workers -> Events \cup {None}]
      /\ adm \in [Admins -> Events \cup {None}]
      /\ ClaimMax \in Nat /\ DocMax \in Nat
      /\ None \notin Events \cup Workers \cup Admins /\ Workers \cap Admins = {}
  BY OutboxConstants DEF TypeOK
<1> USE <1>t
<1>1. ASSUME NEW e \in Events, ControllerStep(e)
      PROVE  Holding' /\ Exhausted'
  <2>1. UNCHANGED <<attempts, deadLetter, lockedBy, job, life, adm>>
    BY <1>1 DEF ControllerStep, Controller, CommitPayment, InlineEffects, InlineEffectsFail,
       InlineMarkFailed, InlineMarkProcessed, InlineMarkThrows, VerifyRewards,
       VerifyRewardsThrow, CrashController
  <2>3. \A d \in Events : inline[d] = "failed" => inline'[d] = "failed"
    BY <1>1 DEF ControllerStep, Controller, CommitPayment, InlineEffects, InlineEffectsFail,
       InlineMarkFailed, InlineMarkProcessed, InlineMarkThrows, VerifyRewards,
       VerifyRewardsThrow, CrashController, HolderInv, Verdict
  <2>4. \A d \in Events : \/ status'[d] = status[d]
                          \/ status'[d] = "processed"
                          \/ status[d] = "absent"
                          \/ inline[d] = "failed"
    BY <1>1 DEF ControllerStep, Controller, CommitPayment, InlineEffects, InlineEffectsFail,
       InlineMarkFailed, InlineMarkProcessed, InlineMarkThrows, VerifyRewards,
       VerifyRewardsThrow, CrashController, SetStatus, HolderInv, Verdict
  <2>2. Exhausted'
    BY <2>1, <2>3, <2>4 DEF HolderInv, Exhausted, DeadIsSpent
  <2>5. Holding'
    BY <2>1, <2>3, <2>4 DEF HolderInv, Holding
  <2>6. QED
    BY <2>2, <2>5
<1>2. ASSUME NEW w \in Workers, NEW e \in Events, ClaimOne(w, e)
      PROVE  Holding' /\ Exhausted'
  <2>1. /\ status[e] \in {"pending", "failed"} /\ ~deadLetter[e] /\ attempts[e] < ClaimMax
        /\ status' = [status EXCEPT ![e] = "processing"]
        /\ lockedBy' = [lockedBy EXCEPT ![e] = w]
        /\ attempts' = [attempts EXCEPT ![e] = @ + 1]
        /\ job' = [job EXCEPT ![w] = e]
        /\ UNCHANGED <<deadLetter, inline, life, adm>>
    BY <1>2 DEF ClaimOne, Claimable
  <2>2. Exhausted'
    BY <2>1 DEF HolderInv, Exhausted, DeadIsSpent
  <2>3. Holding'
    BY <2>1 DEF HolderInv, Holding
  <2>4. QED
    BY <2>2, <2>3
<1>3. ASSUME NEW w \in Workers, MarkProcessed(w)
      PROVE  Holding' /\ Exhausted'
  <2>1. /\ \/ UNCHANGED <<status, deadLetter, lockedBy>>
           \/ /\ status' = [status EXCEPT ![job[w]] = "processed"]
              /\ deadLetter' = [deadLetter EXCEPT ![job[w]] = FALSE]
              /\ lockedBy' = [lockedBy EXCEPT ![job[w]] = None]
              /\ lockedBy[job[w]] = w
        /\ job' = [job EXCEPT ![w] = None]
        /\ UNCHANGED <<attempts, inline, life, adm>>
    BY <1>3 DEF MarkProcessed, Holds, Release, Unlock
  <2>2. Exhausted'
    BY <2>1 DEF HolderInv, Exhausted, DeadIsSpent
  <2>3. Holding'
    BY <2>1 DEF HolderInv, Holding
  <2>4. QED
    BY <2>2, <2>3
<1>4. ASSUME NEW w \in Workers, MarkRetry(w)
      PROVE  Holding' /\ Exhausted'
  <2>1. /\ \/ UNCHANGED <<status, deadLetter, lockedBy>>
           \/ /\ status' = [status EXCEPT ![job[w]] = "failed"]
              /\ deadLetter' = [deadLetter EXCEPT ![job[w]] = attempts[job[w]] >= DocMax]
              /\ lockedBy' = [lockedBy EXCEPT ![job[w]] = None]
              /\ lockedBy[job[w]] = w
        /\ job' = [job EXCEPT ![w] = None]
        /\ UNCHANGED <<attempts, inline, life, adm>>
    BY <1>4 DEF MarkRetry, Release, Unlock
  <2>2. Exhausted'
    BY <2>1 DEF HolderInv, Exhausted, DeadIsSpent
  <2>3. Holding'
    BY <2>1 DEF HolderInv, Holding
  <2>4. QED
    BY <2>2, <2>3
<1>5. ASSUME NEW w \in Workers, MarkRetryThrows(w) \/ Exit(w) \/ CrashWorker(w)
      PROVE  Holding' /\ Exhausted'
  <2>1. /\ job' = [job EXCEPT ![w] = None]
        /\ life' = life \/ life' = [life EXCEPT ![w] = "down"]
        /\ UNCHANGED <<status, attempts, deadLetter, lockedBy, inline, adm>>
    BY <1>5 DEF MarkRetryThrows, Exit, CrashWorker, GoDown, Release
  <2>2. Exhausted'
    BY <2>1 DEF HolderInv, Exhausted, DeadIsSpent
  <2>3. Holding'
    BY <2>1 DEF HolderInv, Holding
  <2>4. QED
    BY <2>2, <2>3
<1>6. ASSUME NEW w \in Workers, Stop(w)
      PROVE  Holding' /\ Exhausted'
  <2>1. /\ life' = [life EXCEPT ![w] = "stopping"]
        /\ \A e \in Events :
             \/ status'[e] = status[e] /\ lockedBy'[e] = lockedBy[e]
             \/ lockedBy[e] = w /\ lockedBy'[e] = None
        /\ UNCHANGED <<attempts, deadLetter, job, inline, adm>>
    BY <1>6 DEF Stop
  <2>2. Exhausted'
    BY <2>1 DEF HolderInv, Exhausted, DeadIsSpent
  <2>3. Holding'
    BY <2>1 DEF HolderInv, Holding
  <2>4. QED
    BY <2>2, <2>3
<1>7. ASSUME NEW w \in Workers, Start(w)
      PROVE  Holding' /\ Exhausted'
  <2>1. /\ life[w] = "new" /\ life' = [life EXCEPT ![w] = "up"]
        /\ UNCHANGED <<status, attempts, deadLetter, lockedBy, job, inline, adm>>
    BY <1>7 DEF Start
  <2>2. Exhausted'
    BY <2>1 DEF HolderInv, Exhausted, DeadIsSpent
  <2>3. Holding'
    BY <2>1 DEF HolderInv, Holding
  <2>4. QED
    BY <2>2, <2>3
<1>8. ASSUME NEW w \in Workers,
             \/ Tick(w) \/ NoWork(w) \/ FindTarget(w) \/ CreateTarget(w) \/ RecordTarget(w)
             \/ FinalHeartbeat(w) \/ HeartbeatTimer(w) \/ StepThrows(w)
      PROVE  Holding' /\ Exhausted'
  <2>1. UNCHANGED <<status, attempts, deadLetter, lockedBy, job, inline, life, adm>>
    BY <1>8 DEF Tick, NoWork, FindTarget, CreateTarget, RecordTarget, FinalHeartbeat,
       HeartbeatTimer, StepThrows
  <2>2. QED
    BY <2>1 DEF HolderInv, Holding, Exhausted, DeadIsSpent
<1>9. ASSUME NEW e \in Events, LeaseExpires(e) \/ Cleanup(e)
      PROVE  Holding' /\ Exhausted'
  <2>1. /\ \A d \in Events : status'[d] = status[d] \/ status'[d] = "purged"
        /\ UNCHANGED <<attempts, deadLetter, lockedBy, job, inline, life, adm>>
    BY <1>9 DEF LeaseExpires, Cleanup
  <2>2. QED
    BY <2>1 DEF HolderInv, Holding, Exhausted, DeadIsSpent
<1>10. ASSUME NEW a \in Admins, NEW e \in Events, ReplayClaim(a, e)
       PROVE  Holding' /\ Exhausted'
  <2>1. /\ deadLetter[e] /\ status[e] \in {"failed", "pending"}
        /\ status' = [status EXCEPT ![e] = "processing"]
        /\ lockedBy' = [lockedBy EXCEPT ![e] = a]
        /\ adm' = [adm EXCEPT ![a] = e]
        /\ UNCHANGED <<attempts, deadLetter, job, inline, life>>
    BY <1>10 DEF ReplayClaim
  <2>2. Exhausted'
    BY <2>1 DEF HolderInv, Exhausted, DeadIsSpent
  <2>3. Holding'
    BY <2>1 DEF HolderInv, Holding, Exhausted, DeadIsSpent
  <2>4. QED
    BY <2>2, <2>3
<1>11. ASSUME NEW a \in Admins, ReplayRequeue(a)
       PROVE  Holding' /\ Exhausted'
  <2>1. /\ adm[a] # None /\ adm' = [adm EXCEPT ![a] = None]
        /\ UNCHANGED <<attempts, job, inline, life>>
        /\ \/ UNCHANGED <<status, deadLetter, lockedBy>>
           \/ \E b \in BOOLEAN, s \in {"pending", "failed"} :
                /\ status' = [status EXCEPT ![adm[a]] = s]
                /\ deadLetter' = [deadLetter EXCEPT ![adm[a]] = b]
                /\ lockedBy' = [lockedBy EXCEPT ![adm[a]] = None]
    BY <1>11 DEF ReplayRequeue, Unlock
  <2>2. DeadIsSpent'
    BY <2>1 DEF HolderInv, Exhausted, DeadIsSpent
  <2>3. ASSUME NEW c \in Admins, NEW e \in Events, adm'[c] = e
        PROVE  /\ attempts'[e] >= DocMax
               /\ \/ inline'[e] = "failed"
                  \/ /\ deadLetter'[e] /\ status'[e] \in {"processing", "processed", "purged"}
                     /\ \A b \in Admins : adm'[b] = e => b = c
    <3>1. c # a /\ \A b \in Admins : adm'[b] = e => adm[b] = e
      BY <2>1, <2>3
    <3>2. CASE e = adm[a]
      BY <2>1, <2>3, <3>1, <3>2 DEF HolderInv, Exhausted
    <3>3. CASE e # adm[a]
      <4>1. status'[e] = status[e] /\ deadLetter'[e] = deadLetter[e]
        BY <2>1, <3>3
      <4>2. QED
        BY <2>1, <2>3, <3>1, <4>1 DEF HolderInv, Exhausted
    <3>4. QED
      BY <3>2, <3>3
  <2>4. Holding'
    BY <2>1 DEF HolderInv, Holding, Exhausted, DeadIsSpent
  <2>5. QED
    BY <2>2, <2>3, <2>4 DEF Exhausted
<1>12. ASSUME NEW a \in Admins, ReplayLost(a)
       PROVE  Holding' /\ Exhausted'
  <2>1. /\ adm' = [adm EXCEPT ![a] = None]
        /\ UNCHANGED <<status, attempts, deadLetter, lockedBy, job, inline, life>>
    BY <1>12 DEF ReplayLost
  <2>2. QED
    BY <2>1 DEF HolderInv, Holding, Exhausted, DeadIsSpent
<1>13. CASE UNCHANGED vars
  BY <1>13 DEF HolderInv, Holding, Exhausted, DeadIsSpent
<1>14. QED
  BY <1>1, <1>2, <1>3, <1>4, <1>5, <1>6, <1>7, <1>8, <1>9, <1>10, <1>11, <1>12, <1>13
     DEF Next, WorkerStep, Work, AdminStep

LEMMA HolderInvariant == Spec => []HolderInv
<1>1. Init => HolderInv
  BY OutboxConstants DEF Init, HolderInv, Verdict, Holding, Exhausted,
     DeadIsSpent, InFlight
<1>2. TypeOK /\ Coverage /\ HolderInv /\ [Next]_vars => HolderInv'
  BY HolderStep
<1>3. QED
  BY <1>1, <1>2, CoverageInvariant, PTL DEF Spec

\* Two workers replay one event at the same time only through a stop or a failed
\* mark of the controller, whatever the limits of claims and documents are
\* (paymentOutboxWorker.js:195-221).
THEOREM OverlapOnlyAfterTakeoverAlways == Spec => []OverlapOnlyAfterTakeover
<1>1. HolderInv => OverlapOnlyAfterTakeover
  BY DEF HolderInv, Holding, OverlapOnlyAfterTakeover, InFlight
<1>2. QED
  BY <1>1, HolderInvariant, PTL

\* A worker on its way out claims on, so its exit may strand one event more.
Leaving == {w \in Workers : life[w] = "stopping"}

Losses == faults + crashes + stops

StrandInv ==
  /\ IsFiniteSet(Stranded) /\ IsFiniteSet(Leaving)
  /\ Cardinality(Stranded) + Cardinality(Leaving) <= Losses

\* Two finite sets that together stay below a count: one of them may grow by
\* one element when the count does, or when the other loses one.
LEMMA BoundKept ==
  ASSUME NEW S, NEW S1, NEW T, NEW T1, NEW n \in Nat, NEW n1 \in Nat,
         IsFiniteSet(S), IsFiniteSet(T), Cardinality(S) + Cardinality(T) <= n, NEW x,
         \/ S1 \subseteq S /\ T1 \subseteq T /\ n1 >= n
         \/ S1 \subseteq S \cup {x} /\ T1 \subseteq T /\ n1 >= n + 1
         \/ S1 \subseteq S /\ T1 \subseteq T \cup {x} /\ n1 >= n + 1
         \/ S1 \subseteq S \cup {x} /\ (\E y \in T : T1 \subseteq T \ {y}) /\ n1 >= n
  PROVE  IsFiniteSet(S1) /\ IsFiniteSet(T1) /\ Cardinality(S1) + Cardinality(T1) <= n1
<1>1. Cardinality(S) \in Nat /\ Cardinality(T) \in Nat
  BY FS_CardinalityType
<1>2. /\ IsFiniteSet(S \cup {x}) /\ Cardinality(S \cup {x}) <= Cardinality(S) + 1
      /\ IsFiniteSet(T \cup {x}) /\ Cardinality(T \cup {x}) <= Cardinality(T) + 1
  <2>1. ASSUME NEW U, IsFiniteSet(U), Cardinality(U) \in Nat
        PROVE  IsFiniteSet(U \cup {x}) /\ Cardinality(U \cup {x}) <= Cardinality(U) + 1
    <3>1. /\ IsFiniteSet(U \cup {x})
          /\ Cardinality(U \cup {x}) = IF x \in U THEN Cardinality(U) ELSE Cardinality(U) + 1
      BY <2>1, FS_AddElement
    <3>2. QED
      BY <2>1, <3>1
  <2>2. QED
    BY <1>1, <2>1
<1>3. ASSUME NEW y \in T
      PROVE  IsFiniteSet(T \ {y}) /\ Cardinality(T \ {y}) = Cardinality(T) - 1
  BY <1>1, FS_RemoveElement
<1>4. ASSUME NEW U, NEW V, IsFiniteSet(V), U \subseteq V
      PROVE  /\ IsFiniteSet(U) /\ Cardinality(U) \in Nat
             /\ Cardinality(V) \in Nat /\ Cardinality(U) <= Cardinality(V)
  BY <1>4, FS_Subset, FS_CardinalityType
<1>5. CASE S1 \subseteq S /\ T1 \subseteq T /\ n1 >= n
  <2>1. /\ IsFiniteSet(S1) /\ Cardinality(S1) \in Nat /\ Cardinality(S1) <= Cardinality(S)
        /\ IsFiniteSet(T1) /\ Cardinality(T1) \in Nat /\ Cardinality(T1) <= Cardinality(T)
    BY <1>4, <1>5
  <2>2. QED
    BY <1>1, <1>5, <2>1
<1>6. CASE S1 \subseteq S \cup {x} /\ T1 \subseteq T /\ n1 >= n + 1
  <2>1. /\ IsFiniteSet(S1) /\ Cardinality(S1) \in Nat /\ Cardinality(S \cup {x}) \in Nat
        /\ Cardinality(S1) <= Cardinality(S \cup {x})
        /\ IsFiniteSet(T1) /\ Cardinality(T1) \in Nat /\ Cardinality(T1) <= Cardinality(T)
    BY <1>2, <1>4, <1>6
  <2>2. QED
    BY <1>1, <1>2, <1>6, <2>1
<1>7. CASE S1 \subseteq S /\ T1 \subseteq T \cup {x} /\ n1 >= n + 1
  <2>1. /\ IsFiniteSet(S1) /\ Cardinality(S1) \in Nat /\ Cardinality(S1) <= Cardinality(S)
        /\ IsFiniteSet(T1) /\ Cardinality(T1) \in Nat /\ Cardinality(T \cup {x}) \in Nat
        /\ Cardinality(T1) <= Cardinality(T \cup {x})
    BY <1>2, <1>4, <1>7
  <2>2. QED
    BY <1>1, <1>2, <1>7, <2>1
<1>8. CASE S1 \subseteq S \cup {x} /\ (\E y \in T : T1 \subseteq T \ {y}) /\ n1 >= n
  <2>1. PICK y \in T : T1 \subseteq T \ {y}
    BY <1>8
  <2>2. /\ IsFiniteSet(S1) /\ Cardinality(S1) \in Nat /\ Cardinality(S \cup {x}) \in Nat
        /\ Cardinality(S1) <= Cardinality(S \cup {x})
    BY <1>2, <1>4, <1>8
  <2>3. IsFiniteSet(T \ {y}) /\ Cardinality(T \ {y}) = Cardinality(T) - 1
    BY <1>3
  <2> DEFINE V == T \ {y}
  <2>5. IsFiniteSet(T1) /\ Cardinality(T1) \in Nat /\ Cardinality(T1) <= Cardinality(V)
    <3>1. IsFiniteSet(V) /\ T1 \subseteq V
      BY <2>1, <2>3
    <3> HIDE DEF V
    <3>2. QED
      BY <1>4, <3>1
  <2>4. QED
    BY <1>1, <1>2, <1>8, <2>2, <2>3, <2>5
<1>9. QED
  BY <1>5, <1>6, <1>7, <1>8

LEMMA StrandStep == TypeOK /\ Coverage /\ StrandInv /\ [Next]_vars => StrandInv'
<1> SUFFICES ASSUME TypeOK, Coverage, StrandInv, [Next]_vars
             PROVE  StrandInv'
  OBVIOUS
<1> USE DEF vars, docVars, prodVars, workerVars, adminVars, envVars
<1>t. /\ status \in [Events -> Statuses]
      /\ lockedBy \in [Events -> Workers \cup Admins \cup {None}]
      /\ life \in [Workers -> {"new", "up", "stopping", "down"}]
      /\ job \in [Workers -> Events \cup {None}]
      /\ adm \in [Admins -> Events \cup {None}]
      /\ faults \in Nat /\ crashes \in Nat /\ stops \in Nat
      /\ None \notin Events \cup Workers \cup Admins /\ Workers \cap Admins = {}
  BY OutboxConstants DEF TypeOK
<1>u. Losses \in Nat /\ Losses' \in Nat
  <2>1. faults' \in Nat /\ crashes' \in Nat /\ stops' \in Nat
    BY TypeStep, OutboxConstants DEF TypeOK
  <2>2. faults \in Nat /\ crashes \in Nat /\ stops \in Nat
    BY <1>t
  <2>3. Losses \in Nat /\ Losses' \in Nat
    <3>1. \A a, b, c \in Nat : a + b + c \in Nat
      OBVIOUS
    <3>2. QED
      BY ONLY <2>1, <2>2, <3>1 DEF Losses
  <2>4. QED
    BY <2>3
<1> USE <1>t, <1>u
\* Steps that strand nothing, one event, or one that a leaving worker held.
<1>1. ASSUME Stranded' \subseteq Stranded, Leaving' \subseteq Leaving, Losses' >= Losses
      PROVE  StrandInv'
  BY <1>1, BoundKept DEF StrandInv
<1>2. ASSUME NEW x,
             \/ Stranded' \subseteq Stranded \cup {x} /\ Leaving' \subseteq Leaving
             \/ Stranded' \subseteq Stranded /\ Leaving' \subseteq Leaving \cup {x},
             Losses' >= Losses + 1
      PROVE  StrandInv'
  <2>1. /\ IsFiniteSet(Stranded') /\ IsFiniteSet(Leaving')
        /\ Cardinality(Stranded') + Cardinality(Leaving') <= Losses'
    <3>1. CASE Stranded' \subseteq Stranded \cup {x} /\ Leaving' \subseteq Leaving
      BY ONLY StrandInv, <1>u, <1>2, <3>1, BoundKept DEF StrandInv
    <3>2. CASE Stranded' \subseteq Stranded /\ Leaving' \subseteq Leaving \cup {x}
      BY ONLY StrandInv, <1>u, <1>2, <3>2, BoundKept DEF StrandInv
    <3>3. QED
      BY <1>2, <3>1, <3>2
  <2>2. QED
    BY <2>1 DEF StrandInv
<1>3. ASSUME NEW x, NEW w \in Leaving,
             Stranded' \subseteq Stranded \cup {x}, Leaving' \subseteq Leaving \ {w},
             Losses' >= Losses
      PROVE  StrandInv'
  BY <1>3, BoundKept DEF StrandInv
\* What the environment spends, it spends one at a time.
<1>f. ASSUME UNCHANGED <<faults, crashes, stops>>
      PROVE  Losses' >= Losses
  BY <1>f DEF Losses
<1>k. ASSUME Fault \/ Kill
      PROVE  Losses' >= Losses + 1 /\ Losses' >= Losses
  BY <1>k DEF Losses, Fault, Kill
\* An event whose holder keeps it is not stranded.
<1>4. ASSUME NEW x, UNCHANGED <<adm>>,
             \A e \in Events : e # x /\ status'[e] = "processing" =>
               /\ status[e] = "processing" /\ lockedBy'[e] = lockedBy[e]
               /\ \A v \in Workers : job[v] = e /\ lockedBy[e] = v => job'[v] = e
      PROVE  Stranded' \subseteq Stranded \cup {x}
  BY <1>4 DEF Stranded, Tended
<1>5. ASSUME NEW w \in Workers, NEW e \in Events, ClaimOne(w, e)
      PROVE  StrandInv'
  <2>1. /\ status' = [status EXCEPT ![e] = "processing"]
        /\ lockedBy' = [lockedBy EXCEPT ![e] = w]
        /\ job[w] = None /\ job' = [job EXCEPT ![w] = e]
        /\ UNCHANGED <<adm, life, envVars>>
    BY <1>5 DEF ClaimOne, Coverage, Busy
  <2>2. Stranded' \subseteq Stranded \cup {e}
    BY <1>4, <2>1
  <2>3. e \notin Stranded'
    BY <2>1 DEF Stranded, Tended
  <2>4. QED
    BY <1>1, <1>f, <2>1, <2>2, <2>3 DEF Leaving
<1>6. ASSUME NEW w \in Workers, MarkProcessed(w) \/ MarkRetry(w)
      PROVE  StrandInv'
  <2>1. /\ job' = [job EXCEPT ![w] = None]
        /\ UNCHANGED <<adm, life, envVars>>
    BY <1>6 DEF MarkProcessed, MarkRetry, Release
  <2>2. \/ UNCHANGED <<status, lockedBy>> /\ (status[job[w]] # "processing" \/ lockedBy[job[w]] # w)
        \/ \E s \in {"processed", "failed"} :
             /\ status' = [status EXCEPT ![job[w]] = s]
             /\ lockedBy' = [lockedBy EXCEPT ![job[w]] = None]
    BY <1>6 DEF MarkProcessed, MarkRetry, Holds, Unlock
  <2>3. Stranded' \subseteq Stranded
    BY <2>1, <2>2 DEF Stranded, Tended
  <2>4. QED
    BY <1>1, <1>f, <2>1, <2>3 DEF Leaving
<1>7. ASSUME NEW w \in Workers, MarkRetryThrows(w) \/ CrashWorker(w)
      PROVE  StrandInv'
  <2>1. /\ job' = [job EXCEPT ![w] = None]
        /\ life' = life \/ life' = [life EXCEPT ![w] = "down"]
        /\ UNCHANGED <<status, lockedBy, adm>>
        /\ Fault \/ Kill
    BY <1>7 DEF MarkRetryThrows, CrashWorker, GoDown, Release
  <2>2. Stranded' \subseteq Stranded \cup {job[w]}
    BY <1>4, <2>1
  <2>3. Leaving' \subseteq Leaving
    BY <2>1 DEF Leaving
  <2>4. QED
    BY <1>2, <1>k, <2>1, <2>2, <2>3
<1>8. ASSUME NEW w \in Workers, Exit(w)
      PROVE  StrandInv'
  <2>1. /\ job' = [job EXCEPT ![w] = None]
        /\ life[w] = "stopping" /\ life' = [life EXCEPT ![w] = "down"]
        /\ UNCHANGED <<status, lockedBy, adm, envVars>>
    BY <1>8 DEF Exit, GoDown, Release
  <2>2. Stranded' \subseteq Stranded \cup {job[w]}
    BY <1>4, <2>1
  <2>3. w \in Leaving /\ Leaving' \subseteq Leaving \ {w}
    BY <2>1 DEF Leaving
  <2>4. QED
    BY <1>3, <1>f, <2>1, <2>2, <2>3
<1>9. ASSUME NEW w \in Workers, Stop(w)
      PROVE  StrandInv'
  <2>1. /\ \A e \in Events : status'[e] = "processing" =>
              status[e] = "processing" /\ lockedBy'[e] = lockedBy[e]
        /\ life' = [life EXCEPT ![w] = "stopping"]
        /\ UNCHANGED <<adm, job>>
    BY <1>9 DEF Stop
  <2>5. Losses' >= Losses + 1
    BY <1>9 DEF Stop, Losses
  <2>2. Stranded' \subseteq Stranded
    BY <2>1 DEF Stranded, Tended
  <2>3. Leaving' \subseteq Leaving \cup {w}
    BY <2>1 DEF Leaving
  <2>4. QED
    BY <1>2, <2>2, <2>3, <2>5
<1>10. ASSUME NEW w \in Workers,
              \/ Start(w) \/ Tick(w) \/ NoWork(w) \/ FindTarget(w) \/ CreateTarget(w)
              \/ RecordTarget(w) \/ FinalHeartbeat(w) \/ HeartbeatTimer(w) \/ StepThrows(w)
       PROVE  StrandInv'
  <2>1. /\ UNCHANGED <<status, lockedBy, job, adm>>
        /\ life' = life \/ life' = [life EXCEPT ![w] = "up"]
        /\ UNCHANGED envVars \/ Fault
    BY <1>10 DEF Start, Tick, NoWork, FindTarget, CreateTarget, RecordTarget, FinalHeartbeat,
       HeartbeatTimer, StepThrows
  <2>2. Stranded' = Stranded /\ Leaving' \subseteq Leaving
    BY <2>1 DEF Stranded, Tended, Leaving
  <2>3. QED
    BY <1>1, <1>f, <1>k, <2>1, <2>2
<1>11. ASSUME NEW e \in Events, ControllerStep(e) \/ LeaseExpires(e) \/ Cleanup(e)
       PROVE  StrandInv'
  <2>1. /\ UNCHANGED <<lockedBy, job, adm, life>>
        /\ UNCHANGED envVars \/ Fault \/ Kill
        /\ \A d \in Events : status'[d] = "processing" => status[d] = "processing"
    BY <1>11 DEF ControllerStep, Controller, CommitPayment, InlineEffects, InlineEffectsFail,
       InlineMarkFailed, InlineMarkProcessed, InlineMarkThrows, VerifyRewards,
       VerifyRewardsThrow, CrashController, LeaseExpires, Cleanup, SetStatus
  <2>2. Stranded' \subseteq Stranded
    BY <2>1 DEF Stranded, Tended
  <2>3. QED
    BY <1>1, <1>f, <1>k, <2>1, <2>2 DEF Leaving
<1>12. ASSUME NEW a \in Admins, NEW e \in Events, ReplayClaim(a, e)
       PROVE  StrandInv'
  <2>1. /\ status' = [status EXCEPT ![e] = "processing"]
        /\ lockedBy' = [lockedBy EXCEPT ![e] = a]
        /\ adm[a] = None /\ adm' = [adm EXCEPT ![a] = e]
        /\ UNCHANGED <<job, life, faults, crashes, stops>>
    BY <1>12 DEF ReplayClaim
  <2>2. Stranded' \subseteq Stranded
    BY <2>1 DEF Stranded, Tended
  <2>3. QED
    BY <1>1, <1>f, <1>k, <2>1, <2>2 DEF Leaving
<1>13. ASSUME NEW a \in Admins, ReplayRequeue(a)
       PROVE  StrandInv'
  <2>1. /\ adm[a] \in Events /\ adm' = [adm EXCEPT ![a] = None]
        /\ \A e \in Events : status'[e] = "processing" =>
              e # adm[a] /\ status[e] = "processing" /\ lockedBy'[e] = lockedBy[e]
        /\ UNCHANGED <<job, life, envVars>>
    BY <1>13 DEF ReplayRequeue, Unlock
  <2>2. Stranded' \subseteq Stranded
    BY <2>1 DEF Stranded, Tended
  <2>3. QED
    BY <1>1, <1>f, <1>k, <2>1, <2>2 DEF Leaving
<1>14. ASSUME NEW a \in Admins, ReplayLost(a)
       PROVE  StrandInv'
  <2>1. /\ adm[a] \in Events /\ adm' = [adm EXCEPT ![a] = None]
        /\ UNCHANGED <<status, lockedBy, job, life>> /\ Kill
    BY <1>14 DEF ReplayLost
  <2>2. Stranded' \subseteq Stranded \cup {adm[a]}
    BY <2>1 DEF Stranded, Tended
  <2>3. QED
    BY <1>2, <1>k, <2>1, <2>2 DEF Leaving
<1>15. CASE UNCHANGED vars
  BY <1>1, <1>f, <1>15 DEF Stranded, Tended, Leaving
<1>16. QED
  BY <1>5, <1>6, <1>7, <1>8, <1>9, <1>10, <1>11, <1>12, <1>13, <1>14, <1>15
     DEF Next, WorkerStep, Work, AdminStep

\* An event that stays in processing with nobody at work on it is the loss of
\* one failing call, one kill or one shutdown, however many workers, events and
\* replay requests there are (paymentOutboxWorker.js:195-221, 237-305, 480-504).
THEOREM StrandedIsBoundedAlways == Spec => []StrandedIsBounded
<1>1. Init => StrandInv
  <2> SUFFICES ASSUME Init
               PROVE  StrandInv
    OBVIOUS
  <2>1. Stranded = {} /\ Leaving = {} /\ faults = 0 /\ crashes = 0 /\ stops = 0
    BY DEF Init, Stranded, Leaving
  <2>2. QED
    BY <2>1, FS_EmptySet DEF StrandInv, Losses
<1>2. TypeOK /\ StrandInv => StrandedIsBounded
  <2>1. StrandInv => Cardinality(Stranded) \in Nat /\ Cardinality(Leaving) \in Nat
    BY FS_CardinalityType DEF StrandInv
  <2>2. QED
    BY <2>1, OutboxConstants DEF StrandInv, StrandedIsBounded, TypeOK, Losses
<1>3. QED
  BY <1>1, <1>2, StrandStep, CoverageInvariant, PTL DEF Spec
-----------------------------------------------------------------------------
(* The outbox keeps the promise of EffectQueue.                            *)

\* Nobody is at work on an event that is not committed yet.
Committed ==
  \A e \in Events : status[e] = "absent" =>
    /\ prod[e] = "idle" /\ attempts[e] = 0
    /\ \A w \in Workers : job[w] # e
    /\ \A a \in Admins : adm[a] # e

LEMMA CommittedStep == TypeOK /\ Committed /\ [Next]_vars => Committed'
<1> SUFFICES ASSUME TypeOK, Committed, [Next]_vars
             PROVE  Committed'
  OBVIOUS
<1> USE DEF vars, docVars, prodVars, workerVars, adminVars, envVars
<1>t. /\ status \in [Events -> Statuses]
      /\ attempts \in [Events -> 0 .. ClaimMax]
      /\ prod \in [Events -> {"idle", "effects", "markProcessed", "markFailed", "after", "end"}]
      /\ job \in [Workers -> Events \cup {None}]
      /\ adm \in [Admins -> Events \cup {None}]
      /\ None \notin Events
  BY OutboxConstants DEF TypeOK
<1> USE <1>t
\* No step takes an event back to absent, so what must be shown is that only a
\* committed event is taken up.
<1>1. ASSUME \A e \in Events : status'[e] = "absent" =>
               /\ status[e] = "absent" /\ prod'[e] = prod[e] /\ attempts'[e] = attempts[e]
               /\ \A w \in Workers : job'[w] = e => job[w] = e
               /\ \A a \in Admins : adm'[a] = e => adm[a] = e
      PROVE  Committed'
  BY <1>1 DEF Committed
<1>2. ASSUME NEW e \in Events, ControllerStep(e)
      PROVE  Committed'
  <2>1. UNCHANGED <<attempts, job, adm>>
    BY <1>2 DEF ControllerStep, Controller, CommitPayment, InlineEffects, InlineEffectsFail,
       InlineMarkFailed, InlineMarkProcessed, InlineMarkThrows, VerifyRewards,
       VerifyRewardsThrow, CrashController
  <2>2. CASE CommitPayment(e)
    BY <1>1, <2>1, <2>2 DEF CommitPayment
  <2>3. CASE ~CommitPayment(e)
    <3>1. /\ prod[e] # "idle"
          /\ \A d \in Events : d # e => prod'[d] = prod[d]
          /\ \A d \in Events : status'[d] = "absent" => status[d] = "absent"
      BY <1>2, <2>3 DEF ControllerStep, Controller, InlineEffects, InlineEffectsFail,
         InlineMarkFailed, InlineMarkProcessed, InlineMarkThrows, VerifyRewards,
         VerifyRewardsThrow, CrashController, SetStatus
    <3>2. \A d \in Events : status'[d] = "absent" => d # e
      BY <3>1 DEF Committed
    <3>3. QED
      BY <1>1, <2>1, <3>1, <3>2
  <2>4. QED
    BY <2>2, <2>3
<1>3. ASSUME NEW w \in Workers, NEW e \in Events, ClaimOne(w, e)
      PROVE  Committed'
  BY <1>1, <1>3 DEF ClaimOne
<1>4. ASSUME NEW w \in Workers, WorkerStep(w), ~(\E e \in Events : ClaimOne(w, e))
      PROVE  Committed'
  <2>1. /\ UNCHANGED <<prod, attempts, adm>>
        /\ job' = job \/ job' = [job EXCEPT ![w] = None]
        /\ \A e \in Events : status'[e] = "absent" => status[e] = "absent"
    BY <1>4 DEF WorkerStep, Work, Start, Tick, NoWork, FindTarget, CreateTarget, RecordTarget,
       FinalHeartbeat, MarkProcessed, MarkRetry, HeartbeatTimer, StepThrows, MarkRetryThrows,
       Stop, Exit, CrashWorker, GoDown, Release
  <2>2. QED
    BY <1>1, <2>1
<1>5. ASSUME NEW e \in Events, LeaseExpires(e) \/ Cleanup(e)
      PROVE  Committed'
  BY <1>1, <1>5 DEF LeaseExpires, Cleanup
<1>6. ASSUME NEW a \in Admins, NEW e \in Events, ReplayClaim(a, e)
      PROVE  Committed'
  BY <1>1, <1>6 DEF ReplayClaim
<1>7. ASSUME NEW a \in Admins, ReplayRequeue(a) \/ ReplayLost(a)
      PROVE  Committed'
  <2>1. /\ UNCHANGED <<prod, attempts, job>>
        /\ adm' = [adm EXCEPT ![a] = None]
        /\ \A e \in Events : status'[e] = "absent" => status[e] = "absent"
    BY <1>7 DEF ReplayRequeue, ReplayLost
  <2>2. QED
    BY <1>1, <2>1
<1>8. CASE UNCHANGED vars
  BY <1>1, <1>8
<1>9. QED
  BY <1>2, <1>3, <1>4, <1>5, <1>6, <1>7, <1>8 DEF Next, AdminStep

\* What leaves an event waiting with its attempts spent leaves a trace.
LEMMA SpentIsDeadStep ==
  ASSUME DocMax <= ClaimMax
  PROVE  TypeOK /\ Committed /\ Verdict /\ SpentIsDead /\ [Next]_vars => SpentIsDead'
<1> SUFFICES ASSUME TypeOK, Committed, Verdict, SpentIsDead, [Next]_vars
             PROVE  SpentIsDead'
  OBVIOUS
<1> USE DEF vars, docVars, prodVars, workerVars, adminVars, envVars
<1>t. /\ status \in [Events -> Statuses]
      /\ attempts \in [Events -> 0 .. ClaimMax]
      /\ deadLetter \in [Events -> BOOLEAN]
      /\ requeued \in [Events -> BOOLEAN]
      /\ inline \in [Events -> {"none", "ok", "failed"}]
      /\ job \in [Workers -> Events \cup {None}]
      /\ adm \in [Admins -> Events \cup {None}]
      /\ stops \in Nat /\ stops' \in Nat /\ ClaimMax \in Nat \ {0} /\ DocMax \in Nat /\ None \notin Events
  BY TypeStep, OutboxConstants DEF TypeOK
<1> USE <1>t
\* Steps that bring no event back among the waiting.
<1>1. ASSUME UNCHANGED <<deadLetter, requeued>>, stops' >= stops,
             \A e \in Events :
               /\ inline[e] = "failed" => inline'[e] = "failed"
               /\ status'[e] \in {"pending", "failed"} =>
                    status[e] \in {"pending", "failed"} /\ attempts'[e] = attempts[e]
      PROVE  SpentIsDead'
  BY <1>1 DEF SpentIsDead
<1>2. ASSUME NEW e \in Events, ControllerStep(e)
      PROVE  SpentIsDead'
  <2>1. /\ UNCHANGED <<deadLetter, requeued, attempts, stops>>
        /\ \A d \in Events : inline[d] = "failed" => inline'[d] = "failed"
    BY <1>2 DEF ControllerStep, Controller, CommitPayment, InlineEffects, InlineEffectsFail,
       InlineMarkFailed, InlineMarkProcessed, InlineMarkThrows, VerifyRewards,
       VerifyRewardsThrow, CrashController, Verdict, Fault, Kill
  <2>2. CASE InlineMarkFailed(e)
    <3>1. inline'[e] = "failed" /\ \A d \in Events : d # e => status'[d] = status[d]
      BY <2>1, <2>2 DEF InlineMarkFailed, SetStatus, Verdict
    <3>2. QED
      BY <2>1, <3>1 DEF SpentIsDead
  <2>3. CASE CommitPayment(e)
    <3>1. status[e] = "absent" /\ status' = [status EXCEPT ![e] = "pending"] /\ attempts[e] = 0
      BY <2>3 DEF CommitPayment, Committed
    <3>2. QED
      BY <2>1, <3>1 DEF SpentIsDead
  <2>4. CASE ~InlineMarkFailed(e) /\ ~CommitPayment(e)
    <3>1. \A d \in Events : status'[d] = status[d] \/ status'[d] = "processed"
      BY <1>2, <2>4 DEF ControllerStep, Controller, InlineEffects, InlineEffectsFail,
         InlineMarkProcessed, InlineMarkThrows, VerifyRewards, VerifyRewardsThrow,
         CrashController, SetStatus
    <3>2. QED
      BY <1>1, <2>1, <3>1
  <2>5. QED
    BY <2>2, <2>3, <2>4
<1>3. ASSUME NEW w \in Workers, MarkProcessed(w)
      PROVE  SpentIsDead'
  <2>1. /\ UNCHANGED <<requeued, attempts, stops, inline>>
        /\ \/ UNCHANGED <<status, deadLetter>>
           \/ /\ status' = [status EXCEPT ![job[w]] = "processed"]
              /\ deadLetter' = [deadLetter EXCEPT ![job[w]] = FALSE]
    BY <1>3 DEF MarkProcessed
  <2>2. QED
    BY <2>1 DEF SpentIsDead
<1>4. ASSUME NEW w \in Workers, MarkRetry(w)
      PROVE  SpentIsDead'
  <2>1. UNCHANGED <<requeued, attempts, stops, inline>>
    BY <1>4 DEF MarkRetry
  <2>2. \/ UNCHANGED <<status, deadLetter>>
        \/ /\ status' = [status EXCEPT ![job[w]] = "failed"]
           /\ deadLetter' = [deadLetter EXCEPT ![job[w]] = attempts[job[w]] >= DocMax]
    BY <1>4 DEF MarkRetry
  <2>3. CASE UNCHANGED <<status, deadLetter>>
    BY <2>1, <2>3 DEF SpentIsDead
  <2>4. CASE /\ status' = [status EXCEPT ![job[w]] = "failed"]
             /\ deadLetter' = [deadLetter EXCEPT ![job[w]] = attempts[job[w]] >= DocMax]
    <3>1. \A d \in Events : d # job[w] => status'[d] = status[d] /\ deadLetter'[d] = deadLetter[d]
      BY <2>4
    <3>2. job[w] \in Events => deadLetter'[job[w]] = (attempts[job[w]] >= DocMax)
      BY <2>4, Zenon
    <3>3. \A d \in Events : attempts[d] >= ClaimMax => attempts[d] >= DocMax
      BY <1>t
    <3>4. QED
      BY <2>1, <3>1, <3>2, <3>3 DEF SpentIsDead
  <2>5. QED
    BY <2>2, <2>3, <2>4
<1>5. ASSUME NEW w \in Workers, Stop(w)
      PROVE  SpentIsDead'
  BY <1>5 DEF Stop, SpentIsDead
<1>6. ASSUME NEW w \in Workers, WorkerStep(w), ~MarkProcessed(w), ~MarkRetry(w), ~Stop(w)
      PROVE  SpentIsDead'
  <2>1. /\ UNCHANGED <<deadLetter, requeued, inline>> /\ stops' = stops
        /\ \A e \in Events : status'[e] \in {"pending", "failed"} =>
             status[e] \in {"pending", "failed"} /\ attempts'[e] = attempts[e]
    BY <1>6 DEF WorkerStep, Work, Start, Tick, ClaimOne, NoWork, FindTarget, CreateTarget,
       RecordTarget, FinalHeartbeat, HeartbeatTimer, StepThrows, MarkRetryThrows, Exit,
       CrashWorker, GoDown, Fault, Kill
  <2>2. QED
    BY <1>1, <2>1
<1>7. ASSUME NEW e \in Events, LeaseExpires(e) \/ Cleanup(e)
      PROVE  SpentIsDead'
  BY <1>1, <1>7 DEF LeaseExpires, Cleanup
<1>8. ASSUME NEW a \in Admins, NEW e \in Events, ReplayClaim(a, e)
      PROVE  SpentIsDead'
  BY <1>1, <1>8 DEF ReplayClaim
<1>9. ASSUME NEW a \in Admins, ReplayRequeue(a)
      PROVE  SpentIsDead'
  <2>1. UNCHANGED <<attempts, inline, stops>> /\ adm[a] \in Events
    BY <1>9 DEF ReplayRequeue
  <2>2. \/ UNCHANGED <<status, deadLetter, requeued>>
        \/ /\ \A d \in Events : d # adm[a] => /\ status'[d] = status[d]
                                              /\ deadLetter'[d] = deadLetter[d]
                                              /\ requeued'[d] = requeued[d]
           /\ deadLetter'[adm[a]] \/ requeued'[adm[a]]
    BY <1>9, <2>1 DEF ReplayRequeue
  <2>3. QED
    BY <2>1, <2>2 DEF SpentIsDead
<1>10. ASSUME NEW a \in Admins, ReplayLost(a)
       PROVE  SpentIsDead'
  BY <1>1, <1>10 DEF ReplayLost, Kill
<1>11. CASE UNCHANGED vars
  BY <1>1, <1>11
<1>12. QED
  BY <1>2, <1>3, <1>4, <1>5, <1>6, <1>7, <1>8, <1>9, <1>10, <1>11 DEF Next, WorkerStep, Work, AdminStep

\* While the workers' claim limit is not below the documents' (both are 8 as
\* deployed), an event is dead-lettered only after all its attempts, no worker holds a dead
\* letter, and a waiting event with its attempts spent was handed back by a
\* shutdown, requeued by an administrator or marked failed by its controller
\* (paymentOutboxWorker.js:259-305, 480-504, outboxReplayAdminController.js:154-170).
THEOREM DeadLetterIsExhaustedAlways ==
  ASSUME DocMax <= ClaimMax
  PROVE  Spec => []DeadLetterIsExhausted
<1>1. Init => SpentIsDead
  BY OutboxConstants DEF Init, SpentIsDead
<1>4. HolderInv => DeadIsSpent /\ Verdict
  BY DEF HolderInv, Exhausted
<1>5. TypeOK /\ Committed /\ Verdict /\ SpentIsDead /\ [Next]_vars => SpentIsDead'
  BY SpentIsDeadStep
<1>6. Spec => []TypeOK
  BY TypeCorrect
<1>7. Init => Committed
  BY OutboxConstants DEF Init, Committed
<1>8. QED
  BY <1>1, HolderInvariant, <1>4, <1>5, <1>6, <1>7, CommittedStep, PTL DEF Spec, DeadLetterIsExhausted

\* All that the promise rests on.
OutboxInv == TypeOK /\ Coverage /\ HolderKnows /\ HolderInv /\ WebhookCovered /\ Committed

LEMMA OutboxInvariant == Spec => []OutboxInv
<1>1. Init => HolderKnows /\ WebhookCovered /\ Committed
  BY OutboxConstants DEF Init, HolderKnows, WebhookCovered, Committed
<1>2. QED
  BY <1>1, HolderInvariant, CoverageInvariant, HolderKnowsStep, WebhookCoveredStep,
     CommittedStep, PTL DEF Spec, OutboxInv

LEMMA StepKeepsPromise ==
  ASSUME OutboxInv, [Next]_vars
  PROVE  [Effects!EffectsNext]_<<[e \in Events |-> Phase(e)], attempts,
                                 [e \in Events |-> inline[e] = "ok"], rows, completedTargets>>
<1> DEFINE ph == [e \in Events |-> Phase(e)]
           ow == [e \in Events |-> inline[e] = "ok"]
           all == <<ph, attempts, ow, rows, completedTargets>>
<1> USE DEF vars, docVars, prodVars, workerVars, adminVars, envVars
<1>t. /\ status \in [Events -> {"absent", "pending", "processing", "processed", "failed", "purged"}]
      /\ deadLetter \in [Events -> BOOLEAN]
      /\ attempts \in [Events -> 0 .. ClaimMax]
      /\ inline \in [Events -> {"none", "ok", "failed"}]
      /\ rows \in [Events -> [Targets -> Nat]]
      /\ completedTargets \in [Events -> SUBSET Targets]
      /\ job \in [Workers -> Events \cup {None}]
      /\ done \in [Workers -> SUBSET Targets]
      /\ adm \in [Admins -> Events \cup {None}]
      /\ ClaimMax \in Nat /\ DocMax \in Nat \ {0}
      /\ None \notin Events
  BY OutboxConstants DEF OutboxInv, TypeOK, Statuses
\* A dead letter has had its tries, and an event in a worker's hands is none.
<1>d. \A e \in Events : deadLetter[e] => attempts[e] >= DocMax /\ lockedBy[e] \notin Workers
  BY DEF OutboxInv, HolderInv, Exhausted, DeadIsSpent
<1>f. ASSUME UNCHANGED <<status, deadLetter>>
      PROVE  UNCHANGED ph
  BY <1>f DEF Phase
\* One event moves to another phase.
<1>m. ASSUME NEW e \in Events, NEW s \in {"pending", "processing", "processed", "failed", "purged"},
             status' = [status EXCEPT ![e] = s],
             \A d \in Events : d # e => deadLetter'[d] = deadLetter[d]
      PROVE  /\ s \in {"pending", "failed"} => ph' = [ph EXCEPT ![e] = IF deadLetter'[e] THEN "dead" ELSE "waiting"]
             /\ s = "processing" => ph' = [ph EXCEPT ![e] = "taken"]
             /\ s = "processed" => ph' = [ph EXCEPT ![e] = "done"]
             /\ s = "purged" => ph' = [ph EXCEPT ![e] = "forgotten"]
  <2>1. \A d \in Events : d # e => ph'[d] = ph[d]
    BY <1>m, <1>t DEF Phase
  <2>2. status'[e] = s
    BY <1>m, <1>t
  <2>3. /\ s \in {"pending", "failed"} => ph'[e] = IF deadLetter'[e] THEN "dead" ELSE "waiting"
        /\ s = "processing" => ph'[e] = "taken"
        /\ s = "processed" => ph'[e] = "done"
        /\ s = "purged" => ph'[e] = "forgotten"
    BY <2>2 DEF Phase
  <2>4. /\ ph = [d \in Events |-> ph[d]]
        /\ ph' = [d \in Events |-> ph'[d]]
    OBVIOUS
  <2> HIDE DEF ph
  <2>5. \A p : ph'[e] = p => ph' = [ph EXCEPT ![e] = p]
    BY <2>1, <2>4
  <2>6. QED
    BY <2>3, <2>5
<1>p. \A e \in Events :
        /\ status[e] = "absent" <=> ph[e] = "absent"
        /\ status[e] = "purged" <=> ph[e] = "forgotten"
        /\ status[e] = "processing" <=> ph[e] = "taken"
        /\ status[e] = "processed" <=> ph[e] = "done"
  BY <1>t DEF Phase
\* Another try is asked for: by a mark, an administrator, a failed controller.
<1>r. ASSUME NEW e \in Events, NEW s \in {"pending", "failed"},
             status[e] \notin {"absent", "purged"},
             status' = [status EXCEPT ![e] = s],
             \A d \in Events : d # e => deadLetter'[d] = deadLetter[d],
             deadLetter'[e] \in BOOLEAN, deadLetter'[e] => attempts[e] >= DocMax,
             UNCHANGED <<attempts, inline, rows, completedTargets>>
      PROVE  [Effects!EffectsNext]_all
  <2>1. ph' = [ph EXCEPT ![e] = IF deadLetter'[e] THEN "dead" ELSE "waiting"]
    BY <1>m, <1>r
  <2>2. ph[e] \notin {"absent", "forgotten"}
    BY <1>p, <1>r
  <2>3. UNCHANGED ow
    BY <1>r
  <2> HIDE DEF ph, ow
  <2>4. Effects!Return(e)
    BY <1>r, <2>1, <2>2, <2>3 DEF Effects!Return, Effects!Alive, Effects!Move, ph, ow
  <2>5. QED
    BY <2>4 DEF Effects!EffectsNext
<1>1. ASSUME NEW e \in Events, CommitPayment(e)
      PROVE  [Effects!EffectsNext]_all
  <2>1. /\ status[e] = "absent" /\ status' = [status EXCEPT ![e] = "pending"]
        /\ UNCHANGED <<deadLetter, attempts, inline, rows, completedTargets>>
    BY <1>1 DEF CommitPayment
  <2>2. ~deadLetter[e]
    BY <1>t, <1>d, <2>1 DEF OutboxInv, Committed
  <2>3. ph[e] = "absent" /\ ph' = [ph EXCEPT ![e] = "waiting"]
    BY <1>m, <1>p, <2>1, <2>2
  <2>4. Effects!Commit(e)
    BY <2>1, <2>3 DEF Effects!Commit, Effects!Move
  <2>5. QED
    BY <2>4 DEF Effects!EffectsNext
<1>2. ASSUME NEW e \in Events, InlineEffects(e)
      PROVE  [Effects!EffectsNext]_all
  <2>1. /\ prod[e] # "idle" /\ inline' = [inline EXCEPT ![e] = "ok"]
        /\ UNCHANGED <<status, deadLetter, attempts, rows, completedTargets>>
    BY <1>2 DEF InlineEffects
  <2>2. ph[e] # "absent" /\ UNCHANGED ph
    BY <1>f, <1>p, <2>1 DEF OutboxInv, Committed
  <2>3. ow' = [ow EXCEPT ![e] = TRUE]
    BY <1>t, <2>1
  <2>4. Effects!Vouch(e)
    BY <2>1, <2>2, <2>3 DEF Effects!Vouch
  <2>5. QED
    BY <2>4 DEF Effects!EffectsNext
<1>3. ASSUME NEW e \in Events, InlineEffectsFail(e)
      PROVE  [Effects!EffectsNext]_all
  <2>1. /\ inline[e] # "ok" /\ inline' = [inline EXCEPT ![e] = "failed"]
        /\ UNCHANGED <<status, deadLetter, attempts, rows, completedTargets>>
    BY <1>3 DEF InlineEffectsFail, OutboxInv, HolderInv, Verdict
  <2>2. UNCHANGED ow
    BY <1>t, <2>1
  <2>3. QED
    BY <1>f, <2>1, <2>2
<1>4. ASSUME NEW e \in Events, InlineMarkFailed(e)
      PROVE  [Effects!EffectsNext]_all
  <2>1. /\ prod[e] # "idle"
        /\ status' = IF status[e] = "purged" THEN status ELSE [status EXCEPT ![e] = "failed"]
        /\ UNCHANGED <<deadLetter, attempts, inline, rows, completedTargets>>
    BY <1>4 DEF InlineMarkFailed, SetStatus
  <2>2. CASE status[e] = "purged"
    BY <1>f, <2>1, <2>2
  <2>3. CASE status[e] # "purged"
    <3>1. status[e] # "absent"
      BY <2>1 DEF OutboxInv, Committed
    <3>2. QED
      BY <1>r, <1>d, <1>t, <2>1, <2>3, <3>1
  <2>4. QED
    BY <2>2, <2>3
<1>5. ASSUME NEW e \in Events, InlineMarkProcessed(e)
      PROVE  [Effects!EffectsNext]_all
  <2>1. /\ prod[e] = "markProcessed"
        /\ status' = IF status[e] = "purged" THEN status ELSE [status EXCEPT ![e] = "processed"]
        /\ UNCHANGED <<deadLetter, attempts, inline, rows, completedTargets>>
    BY <1>5 DEF InlineMarkProcessed, SetStatus
  <2>2. CASE status[e] = "purged"
    BY <1>f, <2>1, <2>2
  <2>3. CASE status[e] # "purged"
    <3>1. status[e] # "absent" /\ (e \notin VerifyEvents => inline[e] = "ok")
      BY <2>1 DEF OutboxInv, Committed, WebhookCovered
    <3>2. ph[e] \notin {"absent", "forgotten"} /\ ph' = [ph EXCEPT ![e] = "done"]
      BY <1>m, <1>p, <2>1, <2>3, <3>1
    <3>3. (e \in Events \ VerifyEvents => ow[e]) /\ UNCHANGED ow
      BY <2>1, <3>1
    <3>4. Effects!Report(e)
      BY <2>1, <3>2, <3>3 DEF Effects!Report, Effects!Alive, Effects!Move
    <3>5. QED
      BY <3>4 DEF Effects!EffectsNext
  <2>4. QED
    BY <2>2, <2>3
\* A webhook whose mark throws takes back its word; it had not marked the
\* event, so a finished one was finished by a worker.
<1>6. ASSUME NEW e \in Events, InlineMarkThrows(e)
      PROVE  [Effects!EffectsNext]_all
  <2>1. /\ UNCHANGED <<status, deadLetter, attempts, rows, completedTargets>>
        /\ \/ UNCHANGED inline
           \/ /\ prod[e] = "markProcessed" /\ e \notin VerifyEvents
              /\ inline' = [inline EXCEPT ![e] = "failed"]
    BY <1>6 DEF InlineMarkThrows
  <2>2. UNCHANGED ph
    BY <1>f, <2>1
  <2>3. CASE UNCHANGED inline
    BY <2>1, <2>2, <2>3
  <2>4. CASE /\ prod[e] = "markProcessed" /\ e \notin VerifyEvents
             /\ inline' = [inline EXCEPT ![e] = "failed"]
    <3>1. ph[e] = "done" => \A t \in Targets : rows[e][t] > 0
      BY <1>p, <2>4 DEF OutboxInv, WebhookCovered
    <3>2. ow' = [ow EXCEPT ![e] = FALSE]
      BY <1>t, <2>4
    <3>3. Effects!Retract(e)
      BY <2>1, <2>2, <3>1, <3>2 DEF Effects!Retract, Effects!AllProduced
    <3>4. QED
      BY <3>3 DEF Effects!EffectsNext
  <2>5. QED
    BY <2>1, <2>3, <2>4
<1>7. ASSUME NEW e \in Events,
             VerifyRewards(e) \/ VerifyRewardsThrow(e) \/ CrashController(e) \/ LeaseExpires(e)
      PROVE  [Effects!EffectsNext]_all
  <2>1. UNCHANGED <<status, deadLetter, attempts, inline, rows, completedTargets>>
    BY <1>7 DEF VerifyRewards, VerifyRewardsThrow, CrashController, LeaseExpires
  <2>2. QED
    BY <1>f, <2>1
<1>8. ASSUME NEW w \in Workers, NEW e \in Events, ClaimOne(w, e)
      PROVE  [Effects!EffectsNext]_all
  <2>1. /\ status[e] \in {"pending", "failed"} /\ ~deadLetter[e] /\ attempts[e] < ClaimMax
        /\ status' = [status EXCEPT ![e] = "processing"]
        /\ attempts' = [attempts EXCEPT ![e] = @ + 1]
        /\ UNCHANGED <<deadLetter, inline, rows, completedTargets>>
    BY <1>8 DEF ClaimOne, Claimable
  <2>2. ph[e] = "waiting" /\ ph' = [ph EXCEPT ![e] = "taken"]
    BY <1>m, <1>t, <2>1 DEF Phase
  <2>3. Effects!Take(e)
    BY <2>1, <2>2 DEF Effects!Take, Effects!Move
  <2>4. QED
    BY <2>3 DEF Effects!EffectsNext
<1>9. ASSUME NEW w \in Workers, CreateTarget(w)
      PROVE  [Effects!EffectsNext]_all
  <2>1. job[w] \in Events
    BY <1>9, <1>t DEF CreateTarget, OutboxInv, Coverage, Busy
  <2>2. PICK t \in Targets :
          \/ UNCHANGED rows
          \/ /\ t \notin UniqueTargets \/ rows[job[w]][t] = 0
             /\ rows' = [rows EXCEPT ![job[w]][t] = @ + 1]
    BY <1>9 DEF CreateTarget
  <2>3. UNCHANGED <<ph, ow, attempts, completedTargets>>
    BY <1>9, <1>f DEF CreateTarget
  <2>4. status[job[w]] # "absent"
    BY <2>1 DEF OutboxInv, Committed
  <2>5. CASE UNCHANGED rows
    BY <2>3, <2>5
  <2>6. CASE /\ t \notin UniqueTargets \/ rows[job[w]][t] = 0
             /\ rows' = [rows EXCEPT ![job[w]][t] = @ + 1]
    <3>1. ph[job[w]] # "absent"
      BY <1>p, <2>1, <2>4
    <3> HIDE DEF ph, ow
    <3>2. Effects!Produce(job[w], t)
      BY <2>3, <2>6, <3>1 DEF Effects!Produce, ph, ow
    <3>3. QED
      BY <2>1, <3>2 DEF Effects!EffectsNext
  <2>7. QED
    BY <2>2, <2>5, <2>6
<1>10. ASSUME NEW w \in Workers, RecordTarget(w)
       PROVE  [Effects!EffectsNext]_all
  <2>1. job[w] \in Events /\ job[w] # None
    BY <1>10, <1>t DEF RecordTarget, OutboxInv, Coverage, Busy
  <2>2. UNCHANGED <<ph, ow, attempts, rows>>
    BY <1>10, <1>f DEF RecordTarget
  <2>3. CASE ~Holds(w)
    BY <1>10, <2>2, <2>3 DEF RecordTarget
  <2>4. CASE Holds(w)
    <3>1. completedTargets' = [completedTargets EXCEPT ![job[w]] = done[w]]
      BY <1>10, <2>4 DEF RecordTarget
    <3>2. completedTargets[job[w]] \subseteq done[w]
      BY <2>1, <2>4 DEF Holds, OutboxInv, HolderKnows
    <3>3. done[w] \in SUBSET {t \in Targets : rows[job[w]][t] > 0}
      BY <1>t, <2>1 DEF OutboxInv, Coverage, DoneHaveRows
    <3>4. ph[job[w]] = "taken"
      BY <1>p, <2>1, <2>4 DEF Holds
    <3> HIDE DEF ph, ow
    <3>5. Effects!Record(job[w])
      BY <2>2, <3>1, <3>2, <3>3, <3>4 DEF Effects!Record, ph, ow
    <3>6. QED
      BY <2>1, <3>5 DEF Effects!EffectsNext
  <2>5. QED
    BY <2>3, <2>4
<1>11. ASSUME NEW w \in Workers, MarkProcessed(w)
       PROVE  [Effects!EffectsNext]_all
  <2>1. job[w] \in Events /\ UNCHANGED <<ow, attempts, rows, completedTargets>>
    BY <1>11, <1>t DEF MarkProcessed, OutboxInv, Coverage, Busy
  <2>2. CASE ~Holds(w)
    BY <1>11, <1>f, <2>1, <2>2 DEF MarkProcessed
  <2>3. CASE Holds(w)
    <3>1. /\ status[job[w]] = "processing"
          /\ status' = [status EXCEPT ![job[w]] = "processed"]
          /\ \A d \in Events : d # job[w] => deadLetter'[d] = deadLetter[d]
      BY <1>11, <1>t, <2>3 DEF MarkProcessed, Holds
    <3>2. ph[job[w]] = "taken" /\ ph' = [ph EXCEPT ![job[w]] = "done"]
      BY <1>m, <1>p, <2>1, <3>1
    <3>3. \A t \in Targets : rows[job[w]][t] > 0
      BY <1>11, <1>t, <2>1 DEF MarkProcessed, OutboxInv, Coverage, Busy, MarkMeansDone, DoneHaveRows
    <3>4. Effects!Finish(job[w])
      BY <2>1, <3>2, <3>3 DEF Effects!Finish, Effects!AllProduced, Effects!Move
    <3>5. QED
      BY <2>1, <3>4 DEF Effects!EffectsNext
  <2>4. QED
    BY <2>2, <2>3
<1>12. ASSUME NEW w \in Workers, MarkRetry(w)
       PROVE  [Effects!EffectsNext]_all
  <2>1. job[w] \in Events /\ UNCHANGED <<attempts, inline, rows, completedTargets>>
    BY <1>12, <1>t DEF MarkRetry, OutboxInv, Coverage, Busy
  <2>2. CASE UNCHANGED <<status, deadLetter>>
    BY <1>f, <2>1, <2>2
  <2>3. CASE ~UNCHANGED <<status, deadLetter>>
    <3>1. /\ status[job[w]] # "purged"
          /\ status' = [status EXCEPT ![job[w]] = "failed"]
          /\ deadLetter' = [deadLetter EXCEPT ![job[w]] = attempts[job[w]] >= DocMax]
      BY <1>12, <2>3 DEF MarkRetry
    <3>2. status[job[w]] # "absent"
      BY <2>1 DEF OutboxInv, Committed
    <3>3. /\ \A d \in Events : d # job[w] => deadLetter'[d] = deadLetter[d]
          /\ deadLetter'[job[w]] = (attempts[job[w]] >= DocMax)
      BY <1>t, <2>1, <3>1, Zenon
    <3>4. deadLetter'[job[w]] \in BOOLEAN /\ (deadLetter'[job[w]] => attempts[job[w]] >= DocMax)
      <4>1. (attempts[job[w]] >= DocMax) \in BOOLEAN
        OBVIOUS
      <4>2. QED
        BY <3>3, <4>1, Zenon
    <3>5. QED
      BY <1>r, <2>1, <3>1, <3>2, <3>3, <3>4
  <2>4. QED
    BY <2>2, <2>3
<1>13. ASSUME NEW w \in Workers, Stop(w)
       PROVE  [Effects!EffectsNext]_all
  <2> DEFINE mine == {e \in Events : status[e] = "processing" /\ lockedBy[e] = w}
  <2>1. /\ status' = [e \in Events |-> IF e \in mine THEN "failed" ELSE status[e]]
        /\ UNCHANGED <<deadLetter, attempts, ow, rows, completedTargets>>
    BY <1>13 DEF Stop
  <2>2. \A e \in mine : e \in Events /\ status[e] = "processing" /\ ~deadLetter[e]
    BY <1>d
  <2> HIDE DEF mine
  <2>3. ph' = [e \in Events |-> IF e \in mine THEN "waiting" ELSE ph[e]]
    BY <1>t, <2>1, <2>2 DEF Phase
  <2>4. mine \in SUBSET {e \in Events : ph[e] = "taken"}
    BY <1>p, <2>2
  <2> HIDE DEF ph, ow
  <2>5. Effects!HandBack
    BY <2>1, <2>3, <2>4 DEF Effects!HandBack, ph, ow
  <2>6. QED
    BY <2>5 DEF Effects!EffectsNext
<1>14. ASSUME NEW e \in Events, Cleanup(e)
       PROVE  [Effects!EffectsNext]_all
  <2>1. /\ status[e] = "processed" /\ status' = [status EXCEPT ![e] = "purged"]
        /\ UNCHANGED <<deadLetter, attempts, inline, rows, completedTargets>>
    BY <1>14 DEF Cleanup
  <2>2. ph[e] = "done" /\ ph' = [ph EXCEPT ![e] = "forgotten"]
    BY <1>m, <1>p, <2>1
  <2>3. Effects!Forget(e)
    BY <2>1, <2>2 DEF Effects!Forget, Effects!Move
  <2>4. QED
    BY <2>3 DEF Effects!EffectsNext
<1>15. ASSUME NEW a \in Admins, NEW e \in Events, ReplayClaim(a, e)
       PROVE  [Effects!EffectsNext]_all
  <2>1. /\ deadLetter[e] /\ status[e] \in {"failed", "pending"}
        /\ status' = [status EXCEPT ![e] = "processing"]
        /\ UNCHANGED <<deadLetter, attempts, inline, rows, completedTargets>>
    BY <1>15 DEF ReplayClaim
  <2>2. ph[e] = "dead" /\ ph' = [ph EXCEPT ![e] = "taken"]
    BY <1>m, <1>t, <2>1 DEF Phase
  <2>3. Effects!Reopen(e)
    BY <2>1, <2>2 DEF Effects!Reopen, Effects!Move
  <2>4. QED
    BY <2>3 DEF Effects!EffectsNext
<1>16. ASSUME NEW a \in Admins, ReplayRequeue(a)
       PROVE  [Effects!EffectsNext]_all
  <2>1. adm[a] \in Events /\ UNCHANGED <<attempts, inline, rows, completedTargets>>
    BY <1>16, <1>t DEF ReplayRequeue
  <2>2. status[adm[a]] # "absent" /\ attempts[adm[a]] >= DocMax
    BY <2>1 DEF OutboxInv, Committed, HolderInv, Exhausted
  <2>3. CASE UNCHANGED <<status, deadLetter>>
    BY <1>f, <2>1, <2>3
  <2>4. CASE ~UNCHANGED <<status, deadLetter>>
    <3>1. /\ status[adm[a]] # "purged"
          /\ \E s \in {"pending", "failed"}, b \in BOOLEAN :
               /\ status' = [status EXCEPT ![adm[a]] = s]
               /\ deadLetter' = [deadLetter EXCEPT ![adm[a]] = b]
      BY <1>16, <2>4 DEF ReplayRequeue
    <3>2. PICK s \in {"pending", "failed"}, b \in BOOLEAN :
               /\ status' = [status EXCEPT ![adm[a]] = s]
               /\ deadLetter' = [deadLetter EXCEPT ![adm[a]] = b]
      BY <3>1
    <3>3. /\ \A d \in Events : d # adm[a] => deadLetter'[d] = deadLetter[d]
          /\ deadLetter'[adm[a]] \in BOOLEAN
      BY <1>t, <2>1, <3>2
    <3>4. QED
      BY <1>r, <2>1, <2>2, <3>1, <3>2, <3>3
  <2>5. QED
    BY <2>3, <2>4
<1>17. ASSUME NEW w \in Workers,
              \/ Start(w) \/ Tick(w) \/ NoWork(w) \/ FindTarget(w) \/ FinalHeartbeat(w)
              \/ HeartbeatTimer(w) \/ StepThrows(w) \/ MarkRetryThrows(w) \/ Exit(w)
              \/ CrashWorker(w)
       PROVE  [Effects!EffectsNext]_all
  <2>1. UNCHANGED <<status, deadLetter, attempts, inline, rows, completedTargets>>
    BY <1>17 DEF Start, Tick, NoWork, FindTarget, FinalHeartbeat, HeartbeatTimer, StepThrows,
       MarkRetryThrows, Exit, CrashWorker, GoDown
  <2>2. QED
    BY <1>f, <2>1
<1>18. ASSUME NEW a \in Admins, ReplayLost(a)
       PROVE  [Effects!EffectsNext]_all
  <2>1. UNCHANGED <<status, deadLetter, attempts, inline, rows, completedTargets>>
    BY <1>18 DEF ReplayLost
  <2>2. QED
    BY <1>f, <2>1
<1>19. ASSUME UNCHANGED vars
       PROVE  [Effects!EffectsNext]_all
  BY <1>f, <1>19
<1> HIDE DEF ph, ow, all
<1>20. ASSUME NEW e \in Events, ControllerStep(e) \/ LeaseExpires(e) \/ Cleanup(e)
       PROVE  [Effects!EffectsNext]_all
  BY <1>1, <1>2, <1>3, <1>4, <1>5, <1>6, <1>7, <1>14, <1>20 DEF ControllerStep, Controller
<1>21. ASSUME NEW w \in Workers, WorkerStep(w)
       PROVE  [Effects!EffectsNext]_all
  BY <1>8, <1>9, <1>10, <1>11, <1>12, <1>13, <1>17, <1>21 DEF WorkerStep, Work
<1>22. ASSUME NEW a \in Admins, AdminStep(a)
       PROVE  [Effects!EffectsNext]_all
  BY <1>15, <1>16, <1>18, <1>22 DEF AdminStep
<1>23. [Effects!EffectsNext]_all
  BY <1>19, <1>20, <1>21, <1>22 DEF Next
<1>24. QED
  BY <1>23 DEF all, ph, ow

\* The outbox keeps the promise of EffectQueue for any events, workers, targets,
\* limits and trouble: paymentOutboxWorker.js:62-504, paymentController.js:300-361,
\* outboxReplayAdminController.js:42-219.
THEOREM ImplementsEffectQueue == Spec => KeepsItsPromise
<1>1. Init => Effects!EffectsInit
  <2> SUFFICES ASSUME Init
               PROVE  Effects!EffectsInit
    OBVIOUS
  <2>1. [e \in Events |-> Phase(e)] = [e \in Events |-> "absent"]
    BY DEF Init, Phase
  <2>2. [e \in Events |-> inline[e] = "ok"] = [e \in Events |-> FALSE]
    BY DEF Init
  <2>3. /\ attempts = [e \in Events |-> 0]
        /\ rows = [e \in Events |-> [t \in Targets |-> 0]]
        /\ completedTargets = [e \in Events |-> {}]
    BY DEF Init
  <2>4. QED
    BY <2>1, <2>2, <2>3, Zenon DEF Effects!EffectsInit
<1>2. OutboxInv /\ [Next]_vars
        => [Effects!EffectsNext]_<<[e \in Events |-> Phase(e)], attempts,
                                   [e \in Events |-> inline[e] = "ok"], rows, completedTargets>>
  BY StepKeepsPromise
<1>3. QED
  BY <1>1, <1>2, OutboxInvariant, PTL
     DEF Spec, KeepsItsPromise, Effects!EffectsSpec, Effects!effectVars
=============================================================================
