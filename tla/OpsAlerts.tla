----------------------------- MODULE OpsAlerts -----------------------------
(***************************************************************************)
(* Operations alerts: detection raises an alert on an entity (a task, an   *)
(* order), timers put it on a Redis list, lanes of the worker take it off, *)
(* lock its entity and run its action; an admin may run it directly.       *)
(*                                                                         *)
(* Each call of Redis or of the database is one step.  The lock expires by *)
(* itself after 25 s and is released by a GET and a DEL; its owner is the  *)
(* actor and the alert, and all lanes act under one name.                  *)
(***************************************************************************)
EXTENDS Integers, FiniteSets

CONSTANTS
  Alerts, Entities,
  EntityOf,     \* the entity of each alert
  Stuck,        \* the alerts of type STUCK_ORDER
  Lanes,        \* executions of processSingleQueueItem, over all processes
  Admins,       \* executions of runAlertAction
  Uids, UidOf,  \* the users who may run it, and the user of each execution
  Timers,       \* executions of the four timer cycles, over all processes
  MaxRetries,   \* the alert's maxRetries
  MaxCopies,    \* entries of an alert that one list can hold
  MaxLapses,    \* locks that expire under their holder
  MaxCrashes,   \* lanes and timer cycles that die
  MaxFaults,    \* refused entries and failed updates
  NoAlert, NoOwner

Runners == Lanes \cup Admins
Owners == (Uids \cup {"ops-worker"}) \X Alerts

ASSUME OpsConstants ==
  /\ IsFiniteSet(Lanes) /\ IsFiniteSet(Admins)
  /\ Lanes \cap Admins = {}
  /\ EntityOf \in [Alerts -> Entities]
  /\ UidOf \in [Admins -> Uids]
  /\ Stuck \subseteq Alerts
  /\ MaxRetries \in Nat /\ MaxCopies \in Nat \ {0}
  /\ MaxLapses \in Nat /\ MaxCrashes \in Nat /\ MaxFaults \in Nat
  /\ NoAlert \notin Alerts /\ NoOwner \notin Owners

VARIABLES
  status, retryCount,
  backoff,        \* nextRetryAt: none, waiting (ahead) or due
  pending,        \* actionStatus is PENDING
  persists,       \* what raised the alert is still found by every detection
  manual,         \* it was left to a human at least once
  failures,       \* attempts that threw, up to MaxRetries + 1
  cancelled,      \* the fallback cancelled its order
  queue, later,   \* entries in the list, and in the sorted set of delayed ones
  lock,           \* owner of the lock of each entity
  at, subject, copy,     \* a runner's position, alert and retryCount it read
  cycle, about, writes,  \* a timer's position, alert and what it will write
  lapses, crashes, faults

alertVars == <<status, retryCount, backoff, pending, manual, failures>>
historyVars == <<persists, cancelled>>
listVars == <<queue, later>>
runnerVars == <<at, subject, copy>>
timerVars == <<cycle, about, writes>>
boundVars == <<lapses, crashes, faults>>
vars == <<alertVars, historyVars, listVars, lock, runnerVars, timerVars, boundVars>>

Nothing == [wasOpen |-> FALSE, pending |-> FALSE]
Active == {"OPEN", "QUEUED", "PROCESSING", "ESCALATED"}

Init ==
  /\ status = [a \in Alerts |-> "absent"]
  /\ retryCount = [a \in Alerts |-> 0]
  /\ backoff = [a \in Alerts |-> "none"]
  /\ pending = [a \in Alerts |-> TRUE]
  /\ persists = [a \in Alerts |-> TRUE]
  /\ manual = [a \in Alerts |-> FALSE]
  /\ failures = [a \in Alerts |-> 0]
  /\ cancelled = [a \in Alerts |-> FALSE]
  /\ queue = [a \in Alerts |-> 0] /\ later = [a \in Alerts |-> 0]
  /\ lock = [e \in Entities |-> NoOwner]
  /\ at = [l \in Runners |-> "idle"]
  /\ subject = [l \in Runners |-> NoAlert]
  /\ copy = [l \in Runners |-> 0]
  /\ cycle = [t \in Timers |-> "idle"]
  /\ about = [t \in Timers |-> NoAlert]
  /\ writes = [t \in Timers |-> Nothing]
  /\ lapses = 0 /\ crashes = 0 /\ faults = 0

-----------------------------------------------------------------------------
(* The lists.                                                              *)

Put(q, a) == [q EXCEPT ![a] = IF @ < MaxCopies THEN @ + 1 ELSE @]

\* enqueueAlert: taken, deferred under load, or refused.
Enqueue(a) ==
  \/ queue' = Put(queue, a) /\ UNCHANGED <<later, faults>>
  \/ later' = Put(later, a) /\ UNCHANGED <<queue, faults>>
  \/ faults < MaxFaults /\ faults' = faults + 1 /\ UNCHANGED listVars

Goto(l, s) == at' = [at EXCEPT ![l] = s]

Leave(l) ==
  /\ Goto(l, "idle")
  /\ subject' = [subject EXCEPT ![l] = NoAlert]
  /\ copy' = [copy EXCEPT ![l] = 0]

\* promoteDueRetries: due entries are removed from one key, then pushed to the
\* other.  Two lanes that read the same entries push them both: a copy more.
PromoteRem(l, a) ==
  /\ l \in Lanes /\ at[l] = "idle"
  /\ later[a] > 0
  /\ later' = [later EXCEPT ![a] = @ - 1]
  /\ Goto(l, "removed")
  /\ subject' = [subject EXCEPT ![l] = a]
  /\ UNCHANGED <<alertVars, historyVars, queue, lock, copy, timerVars, boundVars>>

PromotePush(l) ==
  /\ at[l] = "removed"
  /\ queue' = Put(queue, subject[l])
  /\ Leave(l)
  /\ UNCHANGED <<alertVars, historyVars, later, lock, timerVars, boundVars>>

\* lPop: from here on the entry is only in this lane.
Dequeue(l, a) ==
  /\ l \in Lanes /\ at[l] = "idle"
  /\ queue[a] > 0
  /\ queue' = [queue EXCEPT ![a] = @ - 1]
  /\ Goto(l, "popped")
  /\ subject' = [subject EXCEPT ![l] = a]
  /\ UNCHANGED <<alertVars, historyVars, later, lock, copy, timerVars, boundVars>>

-----------------------------------------------------------------------------
(* A runner executes an action.                                            *)

Working == {"lock", "begin", "act", "log", "fallback", "release", "delete"}

\* What processSingleQueueItem makes of the alert it reads: nothing when it is
\* over, a delayed entry when it is early or too many retries run, else a lock.
Read(l) ==
  LET a == subject[l] IN
  /\ at[l] = "popped"
  /\ \/ /\ status[a] \notin Active
        /\ Leave(l) /\ UNCHANGED <<listVars, faults>>
     \/ /\ status[a] \in Active
        /\ backoff[a] = "waiting" \/ \E k \in Lanes \ {l} : at[k] \in Working
        /\ \/ later' = Put(later, a) /\ UNCHANGED <<queue, faults>>
           \/ faults < MaxFaults /\ faults' = faults + 1 /\ UNCHANGED listVars
        /\ Leave(l)
     \/ /\ status[a] \in Active /\ backoff[a] # "waiting"
        /\ copy' = [copy EXCEPT ![l] = retryCount[a]]
        /\ Goto(l, "lock")
        /\ UNCHANGED <<subject, listVars, faults>>
  /\ UNCHANGED <<alertVars, historyVars, lock, timerVars, lapses, crashes>>

\* runAlertAction reads the alert, whatever its status.
AdminRead(l, a) ==
  /\ l \in Admins /\ at[l] = "idle"
  /\ status[a] # "absent"
  /\ subject' = [subject EXCEPT ![l] = a]
  /\ copy' = [copy EXCEPT ![l] = retryCount[a]]
  /\ Goto(l, "lock")
  /\ UNCHANGED <<alertVars, historyVars, listVars, lock, timerVars, boundVars>>

OwnerOf(l) == <<IF l \in Admins THEN UidOf[l] ELSE "ops-worker", subject[l]>>

\* Fault seeded for OverlapIsBounded: an owner may take its lock again.
AcquireAgain(l) ==
  LET e == EntityOf[subject[l]] IN
  /\ at[l] = "lock"
  /\ \/ /\ lock[e] \in {NoOwner, OwnerOf(l)}
        /\ lock' = [lock EXCEPT ![e] = OwnerOf(l)]
        /\ Goto(l, "begin")
        /\ UNCHANGED <<subject, copy>>
     \/ /\ lock[e] \notin {NoOwner, OwnerOf(l)}
        /\ Leave(l) /\ UNCHANGED lock
  /\ UNCHANGED <<alertVars, historyVars, listVars, timerVars, boundVars>>

\* acquireEntityLock: SET NX; when it is held the entry is dropped.
Acquire(l) ==
  LET e == EntityOf[subject[l]] IN
  /\ at[l] = "lock"
  /\ \/ /\ lock[e] = NoOwner
        /\ lock' = [lock EXCEPT ![e] = OwnerOf(l)]
        /\ Goto(l, "begin")
        /\ UNCHANGED <<subject, copy>>
     \/ /\ lock[e] # NoOwner
        /\ Leave(l) /\ UNCHANGED lock
  /\ UNCHANGED <<alertVars, historyVars, listVars, timerVars, boundVars>>

Begin(l) ==
  LET a == subject[l] IN
  /\ at[l] = "begin"
  /\ status' = [status EXCEPT ![a] = "PROCESSING"]
  /\ pending' = [pending EXCEPT ![a] = FALSE]
  /\ Goto(l, "act")
  /\ UNCHANGED <<retryCount, backoff, manual, failures, historyVars, listVars,
                 lock, subject, copy, timerVars, boundVars>>

\* markAlertResolved leaves nextRetryAt as it is.
ActDone(l) ==
  LET a == subject[l] IN
  /\ at[l] = "act"
  /\ status' = [status EXCEPT ![a] = "RESOLVED"]
  /\ pending' = [pending EXCEPT ![a] = FALSE]
  /\ Goto(l, "log")
  /\ UNCHANGED <<retryCount, backoff, manual, failures, historyVars, listVars,
                 lock, subject, copy, timerVars, boundVars>>

\* markAlertManualRequired.
ActManual(l) ==
  LET a == subject[l] IN
  /\ at[l] = "act"
  /\ status' = [status EXCEPT ![a] = "ESCALATED"]
  /\ pending' = [pending EXCEPT ![a] = TRUE]
  /\ backoff' = [backoff EXCEPT ![a] = "none"]
  /\ manual' = [manual EXCEPT ![a] = TRUE]
  /\ Goto(l, "log")
  /\ UNCHANGED <<retryCount, failures, historyVars, listVars, lock, subject, copy,
                 timerVars, boundVars>>

\* The outcome is logged.
ActLogged(l) ==
  /\ at[l] = "log"
  /\ Goto(l, "release")
  /\ UNCHANGED <<alertVars, historyVars, listVars, lock, subject, copy, timerVars,
                 boundVars>>

\* Faults seeded into the retry: it is never exhausted; the last one is not made.
ActThrowsForever(l) ==
  LET a == subject[l] IN
  /\ at[l] \in {"begin", "act", "log"}
  /\ failures' = [failures EXCEPT ![a] = IF @ > MaxRetries THEN @ ELSE @ + 1]
  /\ status' = [status EXCEPT ![a] = "QUEUED"]
  /\ pending' = [pending EXCEPT ![a] = TRUE]
  /\ backoff' = [backoff EXCEPT ![a] = "waiting"]
  /\ retryCount' = [retryCount EXCEPT ![a] = copy[l] + 1]
  /\ Goto(l, "release")
  /\ UNCHANGED <<manual, historyVars, listVars, lock, subject, copy, timerVars, boundVars>>

ActThrowsEarly(l) ==
  LET a == subject[l] IN
  /\ at[l] \in {"begin", "act", "log"}
  /\ failures' = [failures EXCEPT ![a] = IF @ > MaxRetries THEN @ ELSE @ + 1]
  /\ IF copy[l] + 1 >= MaxRetries
     THEN /\ status' = [status EXCEPT ![a] = "FAILED"]
          /\ pending' = [pending EXCEPT ![a] = FALSE]
          /\ backoff' = [backoff EXCEPT ![a] = "none"]
          /\ Goto(l, IF a \in Stuck THEN "fallback" ELSE "release")
          /\ UNCHANGED retryCount
     ELSE /\ status' = [status EXCEPT ![a] = "QUEUED"]
          /\ pending' = [pending EXCEPT ![a] = TRUE]
          /\ backoff' = [backoff EXCEPT ![a] = "waiting"]
          /\ retryCount' = [retryCount EXCEPT ![a] = copy[l] + 1]
          /\ Goto(l, "release")
  /\ UNCHANGED <<manual, historyVars, listVars, lock, subject, copy, timerVars, boundVars>>

\* markAlertRetry, which counts from the retryCount that was read.  When it is
\* the log of the outcome that throws, the alert was resolved already.
ActThrows(l) ==
  LET a == subject[l] IN
  /\ at[l] \in {"begin", "act", "log"}
  /\ failures' = [failures EXCEPT ![a] = IF @ > MaxRetries THEN @ ELSE @ + 1]
  /\ IF copy[l] + 1 > MaxRetries
     THEN /\ status' = [status EXCEPT ![a] = "FAILED"]
          /\ pending' = [pending EXCEPT ![a] = FALSE]
          /\ backoff' = [backoff EXCEPT ![a] = "none"]
          /\ Goto(l, IF a \in Stuck THEN "fallback" ELSE "release")
          /\ UNCHANGED retryCount
     ELSE /\ status' = [status EXCEPT ![a] = "QUEUED"]
          /\ pending' = [pending EXCEPT ![a] = TRUE]
          /\ backoff' = [backoff EXCEPT ![a] = "waiting"]
          /\ retryCount' = [retryCount EXCEPT ![a] = copy[l] + 1]
          /\ Goto(l, "release")
  /\ UNCHANGED <<manual, historyVars, listVars, lock, subject, copy, timerVars, boundVars>>

\* An update of the alert fails, in the catch block too.
ActUnsaved(l) ==
  /\ at[l] \in {"begin", "act", "fallback"} /\ faults < MaxFaults
  /\ faults' = faults + 1
  /\ Goto(l, "release")
  /\ UNCHANGED <<alertVars, historyVars, listVars, lock, subject, copy, timerVars,
                 lapses, crashes>>

\* cancelOrderFallback, then markAlertResolved, which a failed log leaves out.
Fallback(l) ==
  LET a == subject[l] IN
  /\ at[l] = "fallback"
  /\ cancelled' = [cancelled EXCEPT ![a] = TRUE]
  /\ \/ /\ status' = [status EXCEPT ![a] = "RESOLVED"]
        /\ pending' = [pending EXCEPT ![a] = FALSE]
        /\ UNCHANGED faults
     \/ /\ faults < MaxFaults /\ faults' = faults + 1
        /\ UNCHANGED <<status, pending>>
  /\ Goto(l, "release")
  /\ UNCHANGED <<retryCount, backoff, manual, failures, persists, listVars, lock,
                 subject, copy, timerVars, lapses, crashes>>

\* releaseEntityLock: GET, then DEL when the owner is the caller's.
ReleaseGet(l) ==
  /\ at[l] = "release"
  /\ IF lock[EntityOf[subject[l]]] = OwnerOf(l)
     THEN Goto(l, "delete") /\ UNCHANGED <<subject, copy>>
     ELSE Leave(l)
  /\ UNCHANGED <<alertVars, historyVars, listVars, lock, timerVars, boundVars>>

ReleaseDel(l) ==
  /\ at[l] = "delete"
  /\ lock' = [lock EXCEPT ![EntityOf[subject[l]]] = NoOwner]
  /\ Leave(l)
  /\ UNCHANGED <<alertVars, historyVars, listVars, timerVars, boundVars>>

-----------------------------------------------------------------------------
(* Time and crashes.                                                       *)

Inside(e) ==
  {l \in Runners : at[l] \in Working \ {"lock"} /\ EntityOf[subject[l]] = e}

\* The lock of a runner that works on expires.
LockLapses(e) ==
  /\ \E l \in Inside(e) : lock[e] = OwnerOf(l)
  /\ lapses < MaxLapses
  /\ lapses' = lapses + 1
  /\ lock' = [lock EXCEPT ![e] = NoOwner]
  /\ UNCHANGED <<alertVars, historyVars, listVars, runnerVars, timerVars, crashes, faults>>

\* A lock that nobody will release expires.
LockExpires(e) ==
  /\ lock[e] # NoOwner
  /\ \A l \in Inside(e) : lock[e] # OwnerOf(l)
  /\ lock' = [lock EXCEPT ![e] = NoOwner]
  /\ UNCHANGED <<alertVars, historyVars, listVars, runnerVars, timerVars, boundVars>>

BackoffElapses(a) ==
  /\ backoff[a] = "waiting"
  /\ backoff' = [backoff EXCEPT ![a] = "due"]
  /\ UNCHANGED <<status, retryCount, pending, manual, failures, historyVars, listVars,
                 lock, runnerVars, timerVars, boundVars>>

RunnerCrash(l) ==
  /\ at[l] # "idle" /\ crashes < MaxCrashes
  /\ crashes' = crashes + 1
  /\ Leave(l)
  /\ UNCHANGED <<alertVars, historyVars, listVars, lock, timerVars, lapses, faults>>

TimerCrash(t) ==
  /\ cycle[t] # "idle" /\ crashes < MaxCrashes
  /\ crashes' = crashes + 1
  /\ cycle' = [cycle EXCEPT ![t] = "idle"]
  /\ about' = [about EXCEPT ![t] = NoAlert]
  /\ writes' = [writes EXCEPT ![t] = Nothing]
  /\ UNCHANGED <<alertVars, historyVars, listVars, lock, runnerVars, lapses, faults>>

-----------------------------------------------------------------------------
(* Detection and the timers.                                               *)

\* The detection of dead tasks and of inconsistent mappings raises an alert, or
\* reopens it, and leaves it to the worker to queue it.
Raise(a) ==
  /\ status[a] \notin {"OPEN", "RESOLVED", "FAILED"}
  /\ status' = [status EXCEPT ![a] = "OPEN"]
  /\ UNCHANGED <<retryCount, backoff, pending, manual, failures, historyVars, listVars,
                 lock, runnerVars, timerVars, boundVars>>

ConditionEnds(a) ==
  /\ status[a] # "absent" /\ persists[a]
  /\ persists' = [persists EXCEPT ![a] = FALSE]
  /\ UNCHANGED <<alertVars, cancelled, listVars, lock, runnerVars, timerVars, boundVars>>

Start(t, a, s) ==
  /\ cycle[t] = "idle"
  /\ cycle' = [cycle EXCEPT ![t] = s]
  /\ about' = [about EXCEPT ![t] = a]

Step(t, from, to) ==
  /\ cycle[t] = from
  /\ cycle' = [cycle EXCEPT ![t] = to]
  /\ about' = IF to = "idle" THEN [about EXCEPT ![t] = NoAlert] ELSE about
  /\ writes' = IF to = "idle" THEN [writes EXCEPT ![t] = Nothing] ELSE writes

Push(t, from, to) ==
  /\ Step(t, from, to)
  /\ Enqueue(about[t])
  /\ UNCHANGED <<alertVars, historyVars, lock, runnerVars, lapses, crashes>>

\* Fault seeded for AlertIsSettled: what was escalated is left to a human.
OpenReadOnly(t, a) ==
  /\ status[a] = "OPEN"
  /\ Start(t, a, "mark open")
  /\ UNCHANGED <<alertVars, historyVars, listVars, lock, runnerVars, writes, boundVars>>

\* queueOpenAlerts.
OpenRead(t, a) ==
  /\ status[a] \in {"OPEN", "ESCALATED"}
  /\ Start(t, a, "mark open")
  /\ UNCHANGED <<alertVars, historyVars, listVars, lock, runnerVars, writes, boundVars>>

OpenMark(t) ==
  /\ Step(t, "mark open", "push open")
  /\ status' = [status EXCEPT ![about[t]] = "QUEUED"]
  /\ pending' = [pending EXCEPT ![about[t]] = TRUE]
  /\ UNCHANGED <<retryCount, backoff, manual, failures, historyVars, listVars, lock,
                 runnerVars, boundVars>>

\* requeueDueRetries.
RetryRead(t, a) ==
  /\ status[a] = "QUEUED" /\ backoff[a] = "due" /\ pending[a]
  /\ Start(t, a, "clear retry")
  /\ UNCHANGED <<alertVars, historyVars, listVars, lock, runnerVars, writes, boundVars>>

RetryClear(t) ==
  /\ Step(t, "clear retry", "push retry")
  /\ backoff' = [backoff EXCEPT ![about[t]] = "none"]
  /\ UNCHANGED <<status, retryCount, pending, manual, failures, historyVars, listVars,
                 lock, runnerVars, boundVars>>

\* runDetectionCycle: it pushes first and marks afterwards.
DetectRead(t, a) ==
  /\ persists[a] /\ status[a] \in {"absent", "OPEN", "ESCALATED"}
  /\ status' = [status EXCEPT ![a] = IF @ = "absent" THEN "OPEN" ELSE @]
  /\ Start(t, a, "push detected")
  /\ UNCHANGED <<retryCount, backoff, pending, manual, failures, historyVars, listVars,
                 lock, runnerVars, writes, boundVars>>

DetectMark(t) ==
  /\ Step(t, "mark detected", "idle")
  /\ status' = [status EXCEPT ![about[t]] = "QUEUED"]
  /\ UNCHANGED <<retryCount, backoff, pending, manual, failures, historyVars, listVars,
                 lock, runnerVars, boundVars>>

\* runEscalationCycle: only what nothing has updated for ten minutes or more,
\* so nothing that a detection still finds.
EscalateRead(t, a) ==
  /\ ~persists[a] /\ status[a] \in {"OPEN", "QUEUED", "ESCALATED"}
  /\ Start(t, a, "mark escalated")
  /\ writes' = [writes EXCEPT ![t] = [wasOpen |-> status[a] = "OPEN",
                                      pending |-> status[a] = "QUEUED" \/ pending[a]]]
  /\ UNCHANGED <<alertVars, historyVars, listVars, lock, runnerVars, boundVars>>

EscalateMark(t) ==
  /\ Step(t, "mark escalated", IF writes[t].wasOpen THEN "push escalated" ELSE "idle")
  /\ status' = [status EXCEPT ![about[t]] = "ESCALATED"]
  /\ pending' = [pending EXCEPT ![about[t]] = writes[t].pending]
  /\ UNCHANGED <<retryCount, backoff, manual, failures, historyVars, listVars, lock,
                 runnerVars, boundVars>>

-----------------------------------------------------------------------------
Execute(l) ==
  \/ PromotePush(l)
  \/ Read(l) \/ Acquire(l) \/ Begin(l)
  \/ ActDone(l) \/ ActManual(l) \/ ActLogged(l) \/ ActThrows(l) \/ Fallback(l)
  \/ ReleaseGet(l) \/ ReleaseDel(l)

Proceed(t) ==
  \/ OpenMark(t) \/ Push(t, "push open", "idle")
  \/ RetryClear(t) \/ Push(t, "push retry", "idle")
  \/ Push(t, "push detected", "mark detected") \/ DetectMark(t)
  \/ EscalateMark(t) \/ Push(t, "push escalated", "idle")

Next ==
  \/ \E l \in Runners : Execute(l) \/ ActUnsaved(l) \/ RunnerCrash(l)
  \/ \E l \in Runners, a \in Alerts : PromoteRem(l, a) \/ Dequeue(l, a) \/ AdminRead(l, a)
  \/ \E t \in Timers : Proceed(t) \/ TimerCrash(t)
  \/ \E t \in Timers, a \in Alerts :
       OpenRead(t, a) \/ RetryRead(t, a) \/ DetectRead(t, a) \/ EscalateRead(t, a)
  \/ \E a \in Alerts : Raise(a) \/ ConditionEnds(a) \/ BackoffElapses(a)
  \/ \E e \in Entities : LockLapses(e) \/ LockExpires(e)

Spec == Init /\ [][Next]_vars

\* The worker's loop and the timers run on, what they started ends, and time
\* passes.  Detection need not find anything, nor an admin do anything.
Fairness ==
  /\ \A l \in Runners : WF_vars(Execute(l))
  /\ \A t \in Timers : WF_vars(Proceed(t))
  /\ \A e \in Entities : WF_vars(LockExpires(e))
  /\ \A a \in Alerts :
       /\ WF_vars(\E l \in Lanes : PromoteRem(l, a))
       /\ SF_vars(\E l \in Lanes : Dequeue(l, a))
       /\ SF_vars(\E t \in Timers : OpenRead(t, a))
       /\ SF_vars(\E t \in Timers : RetryRead(t, a))
       /\ SF_vars(\E t \in Timers : EscalateRead(t, a))
       /\ WF_vars(BackoffElapses(a))

FairSpec == Spec /\ Fairness

-----------------------------------------------------------------------------
(* Properties.                                                             *)

\* The type of each variable.  A busy runner or timer has its alert, an alert
\* is retried at most MaxRetries times, and one more attempt may throw
\* (opsActionService.js:35-67).
TypeOK ==
  /\ status \in [Alerts -> Active \cup {"absent", "RESOLVED", "FAILED"}]
  /\ retryCount \in [Alerts -> 0 .. MaxRetries]
  /\ backoff \in [Alerts -> {"none", "waiting", "due"}]
  /\ pending \in [Alerts -> BOOLEAN] /\ persists \in [Alerts -> BOOLEAN]
  /\ manual \in [Alerts -> BOOLEAN] /\ cancelled \in [Alerts -> BOOLEAN]
  /\ failures \in [Alerts -> 0 .. MaxRetries + 1]
  /\ queue \in [Alerts -> 0 .. MaxCopies] /\ later \in [Alerts -> 0 .. MaxCopies]
  /\ lock \in [Entities -> Owners \cup {NoOwner}]
  /\ at \in [Runners -> Working \cup {"idle", "removed", "popped"}]
  /\ subject \in [Runners -> Alerts \cup {NoAlert}]
  /\ copy \in [Runners -> 0 .. MaxRetries]
  /\ \A l \in Runners : at[l] # "idle" => subject[l] \in Alerts
  /\ \A l \in Runners : at[l] \in {"removed", "popped"} => l \in Lanes
  /\ cycle \in [Timers -> {"idle", "mark open", "push open", "clear retry", "push retry",
                           "push detected", "mark detected", "mark escalated",
                           "push escalated"}]
  /\ about \in [Timers -> Alerts \cup {NoAlert}]
  /\ \A t \in Timers : cycle[t] # "idle" => about[t] \in Alerts
  /\ writes \in [Timers -> [wasOpen : BOOLEAN, pending : BOOLEAN]]
  /\ lapses \in 0 .. MaxLapses /\ crashes \in 0 .. MaxCrashes /\ faults \in 0 .. MaxFaults

\* At most one runner more than locks have expired under their holders is at
\* work on an entity, although all lanes own a lock under one name and the
\* release is a read and a delete (opsLockService.js:53-106).
OverlapIsBounded == \A e \in Entities : Cardinality(Inside(e)) <= 1 + lapses

\* An alert is failed, and its order cancelled, only after more attempts threw
\* than it may retry, although the count is written from a copy that other
\* runners may have overtaken (opsActionService.js:35-67, 302-326).
CancelledIsExhausted ==
  \A a \in Alerts : status[a] = "FAILED" \/ cancelled[a] => failures[a] > MaxRetries

\* An open alert that has its entity to itself is settled: resolved, failed or
\* left to a human.  It can only be stranded in processing by a crash or a failed
\* update, or in the queue by the loss of its last entry, and there for as long
\* as detection still finds its cause and so keeps it from being escalated
\* (opsWorkerService.js:25-91, opsRuntimeService.js:25-107).
Settled(a) == status[a] \in {"RESOLVED", "FAILED"} \/ manual[a]

Unattended(a) ==
  /\ queue[a] = 0 /\ later[a] = 0
  /\ \A l \in Runners : subject[l] # a
  /\ \A t \in Timers : about[t] # a

Stranded(a) ==
  /\ Unattended(a)
  /\ \/ status[a] = "PROCESSING" /\ crashes + faults > 0
     \/ status[a] = "QUEUED" /\ persists[a] /\ (backoff[a] = "none" \/ ~pending[a])

Alone(a) == \A b \in Alerts : EntityOf[b] = EntityOf[a] /\ status[b] # "absent" => b = a

AlertIsSettled ==
  \A a \in Alerts : status[a] = "OPEN" ~> Settled(a) \/ Stranded(a) \/ ~Alone(a)
=============================================================================
