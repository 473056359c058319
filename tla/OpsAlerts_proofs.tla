-------------------------- MODULE OpsAlerts_proofs --------------------------
(***************************************************************************)
(* The alerts, for any numbers of lanes, admins, timers, lapses, crashes   *)
(* and faults: how many runners may be at work on one entity, and when an  *)
(* alert may be given up.                                                  *)
(***************************************************************************)
EXTENDS OpsAlerts, FiniteSetTheorems, TLAPS

(* What a runner has read of the retries never exceeds the attempts that   *)
(* threw, and neither does what is stored.                                 *)
Counted ==
  /\ \A a \in Alerts : retryCount[a] <= failures[a]
  /\ \A l \in Runners :
       /\ at[l] \in {"lock", "begin", "act", "log"} => copy[l] <= failures[subject[l]]
       /\ at[l] = "fallback" => failures[subject[l]] > MaxRetries

(* Of the runners at work on an entity all but one came in after a lapse,  *)
(* and that one only when the lock is still that of a runner at work.      *)
Held(e) == \E l \in Inside(e) : lock[e] = OwnerOf(l)

Overlap ==
  \A e \in Entities : Cardinality(Inside(e)) <= lapses + (IF Held(e) THEN 1 ELSE 0)

-----------------------------------------------------------------------------
(* The types.                                                              *)
AlertTypes ==
  /\ status \in [Alerts -> Active \cup {"absent", "RESOLVED", "FAILED"}]
  /\ retryCount \in [Alerts -> 0 .. MaxRetries]
  /\ backoff \in [Alerts -> {"none", "waiting", "due"}]
  /\ pending \in [Alerts -> BOOLEAN] /\ manual \in [Alerts -> BOOLEAN]
  /\ failures \in [Alerts -> 0 .. MaxRetries + 1]

ListTypes ==
  /\ queue \in [Alerts -> 0 .. MaxCopies] /\ later \in [Alerts -> 0 .. MaxCopies]

RestTypes ==
  /\ persists \in [Alerts -> BOOLEAN] /\ cancelled \in [Alerts -> BOOLEAN]
  /\ lock \in [Entities -> Owners \cup {NoOwner}]
  /\ lapses \in 0 .. MaxLapses /\ crashes \in 0 .. MaxCrashes /\ faults \in 0 .. MaxFaults

RunnersTyped ==
  /\ at \in [Runners -> Working \cup {"idle", "removed", "popped"}]
  /\ subject \in [Runners -> Alerts \cup {NoAlert}]
  /\ copy \in [Runners -> 0 .. MaxRetries]
  /\ \A l \in Runners : at[l] # "idle" => subject[l] \in Alerts
  /\ \A l \in Runners : at[l] \in {"removed", "popped"} => l \in Lanes

TimersTyped ==
  /\ cycle \in [Timers -> {"idle", "mark open", "push open", "clear retry", "push retry",
                           "push detected", "mark detected", "mark escalated",
                           "push escalated"}]
  /\ about \in [Timers -> Alerts \cup {NoAlert}]
  /\ \A t \in Timers : cycle[t] # "idle" => about[t] \in Alerts
  /\ writes \in [Timers -> [wasOpen : BOOLEAN, pending : BOOLEAN]]

\* The types by what they are about.
LEMMA TypeParts == TypeOK <=> AlertTypes /\ ListTypes /\ RestTypes /\ RunnersTyped /\ TimersTyped
BY DEF TypeOK, AlertTypes, ListTypes, RestTypes, RunnersTyped, TimersTyped

\* What is left alone keeps its types.
LEMMA PartsStay ==
  ASSUME TypeOK
  PROVE /\ UNCHANGED alertVars => AlertTypes'
        /\ UNCHANGED listVars => ListTypes'
        /\ UNCHANGED <<historyVars, lock, boundVars>> => RestTypes'
        /\ UNCHANGED runnerVars => RunnersTyped'
        /\ UNCHANGED timerVars => TimersTyped'
BY TypeParts
   DEF AlertTypes, ListTypes, RestTypes, RunnersTyped, TimersTyped,
       alertVars, listVars, historyVars, boundVars, runnerVars, timerVars

\* The parts make the types.
LEMMA TypeWhole ==
  ASSUME AlertTypes', ListTypes', RestTypes', RunnersTyped', TimersTyped'
  PROVE TypeOK'
BY DEF TypeOK, AlertTypes, ListTypes, RestTypes, RunnersTyped, TimersTyped

\* The bounds are numbers.
LEMMA Numbers ==
  /\ MaxRetries \in Nat /\ MaxCopies \in Nat \ {0}
  /\ MaxLapses \in Nat /\ MaxCrashes \in Nat /\ MaxFaults \in Nat
BY OpsConstants

\* An entry more fits into the list.
LEMMA PutTyped ==
  ASSUME NEW q \in [Alerts -> 0 .. MaxCopies], NEW a \in Alerts
  PROVE Put(q, a) \in [Alerts -> 0 .. MaxCopies]
BY Numbers DEF Put

\* A runner that goes on or leaves keeps the types of the runners.
LEMMA RunnerMoves ==
  ASSUME TypeOK, NEW l \in Runners, at[l] # "idle",
         \/ Leave(l)
         \/ /\ UNCHANGED subject
            /\ UNCHANGED copy \/ \E n \in 0 .. MaxRetries : copy' = [copy EXCEPT ![l] = n]
            /\ \E s \in Working : Goto(l, s)
  PROVE RunnersTyped' /\ subject[l] \in Alerts
<1>a. RunnersTyped
  BY TypeParts
<1> USE Numbers, <1>a DEF RunnersTyped, Working
<1>1. CASE Leave(l)
  BY <1>1 DEF Leave, Goto
<1>2. CASE ~Leave(l)
  BY <1>2 DEF Goto
<1>3. QED BY <1>1, <1>2

\* What a step of a runner keeps.
LEMMA RunnerTypes ==
  ASSUME TypeOK, NEW l \in Runners,
         Execute(l) \/ ActUnsaved(l) \/ RunnerCrash(l)
  PROVE TypeOK'
<1>t. AlertTypes /\ ListTypes /\ RestTypes /\ RunnersTyped
  BY TypeParts
<1>1. CASE PromotePush(l)
  <2>1. RunnersTyped' /\ subject[l] \in Alerts
    BY <1>1, RunnerMoves DEF PromotePush
  <2>2. ListTypes'
    BY <1>t, <1>1, <2>1, PutTyped DEF PromotePush, ListTypes
  <2>3. QED BY <1>1, <2>1, <2>2, PartsStay, TypeWhole DEF PromotePush
<1>2. CASE Read(l)
  <2>1. CASE Leave(l)
    <3>1. RunnersTyped' /\ subject[l] \in Alerts
      BY <1>2, <2>1, RunnerMoves DEF Read
    <3>2. Put(later, subject[l]) \in [Alerts -> 0 .. MaxCopies]
      BY <1>t, <3>1, PutTyped DEF ListTypes
    <3>3. ListTypes'
      BY <1>t, <1>2, <3>2 DEF Read, ListTypes, listVars
    <3>4. RestTypes'
      BY <1>t, <1>2, Numbers DEF Read, RestTypes, historyVars
    <3>5. QED BY <1>2, <3>1, <3>3, <3>4, PartsStay, TypeWhole DEF Read
  <2>2. CASE Goto(l, "lock") /\ UNCHANGED <<subject, listVars, faults>>
             /\ copy' = [copy EXCEPT ![l] = retryCount[subject[l]]]
    <3>1. subject[l] \in Alerts /\ "lock" \in Working
      BY <1>t, <1>2 DEF Read, RunnersTyped, Working
    <3>2. retryCount[subject[l]] \in 0 .. MaxRetries
      BY <1>t, <3>1 DEF AlertTypes
    <3>3. RunnersTyped'
      BY <1>2, <2>2, <3>1, <3>2, RunnerMoves DEF Read
    <3>4. RestTypes'
      BY <1>t, <1>2, <2>2 DEF Read, RestTypes, historyVars
    <3>5. QED BY <1>2, <2>2, <3>3, <3>4, PartsStay, TypeWhole DEF Read
  <2>3. QED BY <1>2, <2>1, <2>2 DEF Read
<1>3. CASE Acquire(l)
  <2>1. RunnersTyped' /\ subject[l] \in Alerts
    BY <1>3, RunnerMoves DEF Acquire, Working
  <2>2. OwnerOf(l) \in Owners
    BY <2>1, OpsConstants DEF OwnerOf, Owners, Runners
  <2>3. RestTypes'
    BY <1>t, <1>3, <2>2 DEF Acquire, RestTypes, historyVars, boundVars
  <2>4. QED BY <1>3, <2>1, <2>3, PartsStay, TypeWhole DEF Acquire
<1>4. CASE Begin(l)
  <2>1. RunnersTyped'
    BY <1>4, RunnerMoves DEF Begin, Working
  <2>2. AlertTypes'
    BY <1>t, <1>4 DEF Begin, AlertTypes, Active
  <2>3. QED BY <1>4, <2>1, <2>2, PartsStay, TypeWhole DEF Begin
<1>5. CASE ActDone(l)
  <2>1. RunnersTyped'
    BY <1>5, RunnerMoves DEF ActDone, Working
  <2>2. AlertTypes'
    BY <1>t, <1>5 DEF ActDone, AlertTypes
  <2>3. QED BY <1>5, <2>1, <2>2, PartsStay, TypeWhole DEF ActDone
<1>6. CASE ActManual(l)
  <2>1. RunnersTyped'
    BY <1>6, RunnerMoves DEF ActManual, Working
  <2>2. AlertTypes'
    BY <1>t, <1>6 DEF ActManual, AlertTypes, Active
  <2>3. QED BY <1>6, <2>1, <2>2, PartsStay, TypeWhole DEF ActManual
<1>12. CASE ActLogged(l)
  <2>1. RunnersTyped'
    BY <1>12, RunnerMoves DEF ActLogged, Working
  <2>2. QED BY <1>12, <2>1, PartsStay, TypeWhole DEF ActLogged
<1>7. CASE ActThrows(l)
  <2>1. RunnersTyped'
    BY <1>7, RunnerMoves DEF ActThrows, Working
  <2>2. copy[l] \in 0 .. MaxRetries
    BY <1>t DEF RunnersTyped
  <2>3. failures' \in [Alerts -> 0 .. MaxRetries + 1]
    <3> DEFINE a == subject[l]
               n == IF failures[a] > MaxRetries THEN failures[a] ELSE failures[a] + 1
    <3>1. failures' = [failures EXCEPT ![a] = n]
      BY <1>7 DEF ActThrows
    <3>2. failures \in [Alerts -> 0 .. MaxRetries + 1] /\ a \in Alerts
      BY <1>t, <1>7 DEF ActThrows, AlertTypes, RunnersTyped, Working
    <3>3. n \in 0 .. MaxRetries + 1
      <4>1. failures[a] \in 0 .. MaxRetries + 1
        BY <3>2
      <4>2. QED BY <4>1, Numbers
    <3> HIDE DEF n, a
    <3>4. QED BY <3>1, <3>2, <3>3
  <2>4. CASE copy[l] + 1 > MaxRetries
    BY <1>t, <1>7, <2>1, <2>3, <2>4, PartsStay, TypeWhole DEF ActThrows, AlertTypes
  <2>5. CASE ~(copy[l] + 1 > MaxRetries)
    <3>1. copy[l] + 1 \in 0 .. MaxRetries
      BY <2>2, <2>5, Numbers
    <3>2. AlertTypes'
      BY <1>t, <1>7, <2>3, <2>5, <3>1 DEF ActThrows, AlertTypes, Active
    <3>3. QED BY <1>7, <2>1, <3>2, PartsStay, TypeWhole DEF ActThrows
  <2>6. QED BY <2>4, <2>5
<1>8. CASE Fallback(l)
  <2>1. RunnersTyped'
    BY <1>8, RunnerMoves DEF Fallback, Working
  <2>2. AlertTypes'
    BY <1>t, <1>8 DEF Fallback, AlertTypes
  <2>3. RestTypes'
    <3>1. /\ lapses' = lapses /\ crashes' = crashes
          /\ faults' = faults \/ (faults < MaxFaults /\ faults' = faults + 1)
          /\ cancelled' = [cancelled EXCEPT ![subject[l]] = TRUE]
          /\ UNCHANGED <<persists, lock>>
      BY <1>8 DEF Fallback
    <3>2. faults' \in 0 .. MaxFaults
      BY <1>t, <3>1, Numbers DEF RestTypes
    <3>3. QED BY <1>t, <3>1, <3>2 DEF RestTypes
  <2>4. QED BY <1>8, <2>1, <2>2, <2>3, PartsStay, TypeWhole DEF Fallback
<1>9. CASE ActUnsaved(l) \/ RunnerCrash(l)
  <2>1. RunnersTyped'
    BY <1>9, RunnerMoves DEF ActUnsaved, RunnerCrash, Working
  <2>2. RestTypes'
    BY <1>t, <1>9, Numbers DEF ActUnsaved, RunnerCrash, RestTypes, historyVars
  <2>3. QED BY <1>9, <2>1, <2>2, PartsStay, TypeWhole DEF ActUnsaved, RunnerCrash
<1>10. CASE ReleaseGet(l)
  <2>1. RunnersTyped'
    BY <1>10, RunnerMoves DEF ReleaseGet, Working
  <2>2. QED BY <1>10, <2>1, PartsStay, TypeWhole DEF ReleaseGet
<1>11. CASE ReleaseDel(l)
  <2>1. RunnersTyped'
    BY <1>11, RunnerMoves DEF ReleaseDel
  <2>2. RestTypes'
    BY <1>t, <1>11 DEF ReleaseDel, RestTypes, historyVars, boundVars
  <2>3. QED BY <1>11, <2>1, <2>2, PartsStay, TypeWhole DEF ReleaseDel
<1>13. QED
  BY <1>1, <1>2, <1>3, <1>4, <1>5, <1>6, <1>7, <1>8, <1>9, <1>10, <1>11, <1>12 DEF Execute

\* What the start of a runner keeps.
LEMMA TakeTypes ==
  ASSUME TypeOK, NEW l \in Runners, NEW a \in Alerts,
         PromoteRem(l, a) \/ Dequeue(l, a) \/ AdminRead(l, a)
  PROVE TypeOK'
<1>t. AlertTypes /\ ListTypes /\ RunnersTyped
  BY TypeParts
<1>1. CASE PromoteRem(l, a) \/ Dequeue(l, a)
  <2>1. ListTypes'
    BY <1>1, <1>t, Numbers DEF PromoteRem, Dequeue, ListTypes
  <2>2. RunnersTyped'
    BY <1>1, <1>t DEF PromoteRem, Dequeue, Goto, RunnersTyped, Working
  <2>3. QED BY <1>1, <2>1, <2>2, PartsStay, TypeWhole DEF PromoteRem, Dequeue
<1>2. CASE AdminRead(l, a)
  <2>1. RunnersTyped'
    BY <1>2, <1>t DEF AdminRead, Goto, RunnersTyped, AlertTypes, Working
  <2>2. QED BY <1>2, <2>1, PartsStay, TypeWhole DEF AdminRead
<1>3. QED BY <1>1, <1>2

\* A step of a timer keeps the types of the timers.
LEMMA TimerMoves ==
  ASSUME TypeOK, NEW t \in Timers, NEW from, from # "idle",
         NEW to \in {"idle", "push open", "push retry", "mark detected", "push escalated"},
         Step(t, from, to)
  PROVE TimersTyped' /\ about[t] \in Alerts
<1>1. TimersTyped
  BY TypeParts
<1>2. about[t] \in Alerts
  BY <1>1 DEF Step, TimersTyped
<1>3. cycle' \in [Timers -> {"idle", "mark open", "push open", "clear retry", "push retry",
                           "push detected", "mark detected", "mark escalated", "push escalated"}]
  BY <1>1 DEF Step, TimersTyped
<1>4. about' \in [Timers -> Alerts \cup {NoAlert}]
  BY <1>1 DEF Step, TimersTyped
<1>5. Nothing \in [wasOpen : BOOLEAN, pending : BOOLEAN]
  BY DEF Nothing
<1>6. writes' \in [Timers -> [wasOpen : BOOLEAN, pending : BOOLEAN]]
  BY <1>1, <1>5 DEF Step, TimersTyped
<1>7. \A u \in Timers : cycle'[u] # "idle" => about'[u] \in Alerts
  BY <1>1, <1>2 DEF Step, TimersTyped
<1>8. QED BY <1>2, <1>3, <1>4, <1>6, <1>7 DEF TimersTyped

\* What a step of a timer keeps.
LEMMA TimerTypes ==
  ASSUME TypeOK, NEW t \in Timers, Proceed(t) \/ TimerCrash(t)
  PROVE TypeOK'
<1>t. AlertTypes /\ ListTypes /\ RestTypes /\ TimersTyped
  BY TypeParts
<1>1. CASE TimerCrash(t)
  <2>1. Nothing \in [wasOpen : BOOLEAN, pending : BOOLEAN]
    BY DEF Nothing
  <2>2. TimersTyped'
    BY <1>1, <1>t, <2>1 DEF TimerCrash, TimersTyped
  <2>3. RestTypes'
    BY <1>1, <1>t, Numbers DEF TimerCrash, RestTypes, historyVars
  <2>4. QED BY <1>1, <2>2, <2>3, PartsStay, TypeWhole DEF TimerCrash
<1>2. CASE OpenMark(t)
  <2>1. TimersTyped' /\ about[t] \in Alerts
    BY <1>2, TimerMoves DEF OpenMark
  <2>2. AlertTypes'
    BY <1>2, <1>t DEF OpenMark, AlertTypes, Active
  <2>3. QED BY <1>2, <2>1, <2>2, PartsStay, TypeWhole DEF OpenMark
<1>3. CASE RetryClear(t)
  <2>1. TimersTyped' /\ about[t] \in Alerts
    BY <1>3, TimerMoves DEF RetryClear
  <2>2. AlertTypes'
    BY <1>3, <1>t DEF RetryClear, AlertTypes
  <2>3. QED BY <1>3, <2>1, <2>2, PartsStay, TypeWhole DEF RetryClear
<1>4. CASE DetectMark(t)
  <2>1. TimersTyped' /\ about[t] \in Alerts
    BY <1>4, TimerMoves DEF DetectMark
  <2>2. AlertTypes'
    BY <1>4, <1>t DEF DetectMark, AlertTypes, Active
  <2>3. QED BY <1>4, <2>1, <2>2, PartsStay, TypeWhole DEF DetectMark
<1>5. CASE EscalateMark(t)
  <2>1. TimersTyped' /\ about[t] \in Alerts
    BY <1>5, TimerMoves DEF EscalateMark
  <2>2. writes[t].pending \in BOOLEAN
    BY <1>t DEF TimersTyped
  <2>3. AlertTypes'
    BY <1>5, <1>t, <2>2 DEF EscalateMark, AlertTypes, Active
  <2>4. QED BY <1>5, <2>1, <2>3, PartsStay, TypeWhole DEF EscalateMark
<1>6. CASE \/ Push(t, "push open", "idle") \/ Push(t, "push retry", "idle")
           \/ Push(t, "push detected", "mark detected") \/ Push(t, "push escalated", "idle")
  <2>1. TimersTyped' /\ about[t] \in Alerts
    BY <1>6, TimerMoves DEF Push
  <2>2. Enqueue(about[t]) /\ UNCHANGED <<alertVars, historyVars, lock, runnerVars, lapses, crashes>>
    BY <1>6 DEF Push
  <2>3. /\ Put(queue, about[t]) \in [Alerts -> 0 .. MaxCopies]
        /\ Put(later, about[t]) \in [Alerts -> 0 .. MaxCopies]
    BY <1>t, <2>1, PutTyped DEF ListTypes
  <2>4. ListTypes'
    BY <1>t, <2>2, <2>3 DEF Enqueue, ListTypes, listVars
  <2>5. RestTypes'
    BY <1>t, <2>2, Numbers DEF Enqueue, RestTypes, historyVars
  <2>6. QED BY <2>1, <2>2, <2>4, <2>5, PartsStay, TypeWhole
<1>7. QED BY <1>1, <1>2, <1>3, <1>4, <1>5, <1>6 DEF Proceed

\* What the start of a timer's cycle keeps.
LEMMA CycleTypes ==
  ASSUME TypeOK, NEW t \in Timers, NEW a \in Alerts,
         OpenRead(t, a) \/ RetryRead(t, a) \/ DetectRead(t, a) \/ EscalateRead(t, a)
  PROVE TypeOK'
<1>t. AlertTypes /\ TimersTyped
  BY TypeParts
<1>a. ASSUME NEW s \in {"mark open", "clear retry", "push detected", "mark escalated"}, Start(t, a, s),
             writes' \in [Timers -> [wasOpen : BOOLEAN, pending : BOOLEAN]]
      PROVE TimersTyped'
  BY <1>t, <1>a DEF Start, TimersTyped
<1>1. CASE OpenRead(t, a) \/ RetryRead(t, a)
  <2>1. TimersTyped'
    BY <1>t, <1>a, <1>1 DEF OpenRead, RetryRead, TimersTyped
  <2>2. QED BY <1>1, <2>1, PartsStay, TypeWhole DEF OpenRead, RetryRead
<1>2. CASE DetectRead(t, a)
  <2>1. TimersTyped'
    BY <1>t, <1>a, <1>2 DEF DetectRead, TimersTyped
  <2>2. AlertTypes'
    BY <1>t, <1>2 DEF DetectRead, AlertTypes, Active
  <2>3. QED BY <1>2, <2>1, <2>2, PartsStay, TypeWhole DEF DetectRead
<1>3. CASE EscalateRead(t, a)
  <2>1. pending[a] \in BOOLEAN
    BY <1>t DEF AlertTypes
  <2>2. [wasOpen |-> status[a] = "OPEN", pending |-> status[a] = "QUEUED" \/ pending[a]]
          \in [wasOpen : BOOLEAN, pending : BOOLEAN]
    BY <2>1
  <2>3. writes' \in [Timers -> [wasOpen : BOOLEAN, pending : BOOLEAN]]
    BY <1>t, <1>3, <2>2 DEF EscalateRead, TimersTyped
  <2>4. TimersTyped'
    BY <1>a, <1>3, <2>3 DEF EscalateRead
  <2>5. QED BY <1>3, <2>4, PartsStay, TypeWhole DEF EscalateRead
<1>4. QED BY <1>1, <1>2, <1>3

\* What happens to an alert or a lock by itself keeps the types.
LEMMA WorldTypes ==
  ASSUME TypeOK,
         \/ \E a \in Alerts : Raise(a) \/ ConditionEnds(a) \/ BackoffElapses(a)
         \/ \E e \in Entities : LockLapses(e) \/ LockExpires(e)
  PROVE TypeOK'
<1>t. AlertTypes /\ RestTypes
  BY TypeParts
<1>1. ASSUME NEW a \in Alerts, Raise(a) \/ BackoffElapses(a) PROVE TypeOK'
  <2>1. AlertTypes'
    BY <1>t, <1>1 DEF Raise, BackoffElapses, AlertTypes, Active
  <2>2. QED BY <1>1, <2>1, PartsStay, TypeWhole DEF Raise, BackoffElapses
<1>2. ASSUME NEW a \in Alerts, ConditionEnds(a) PROVE TypeOK'
  <2>1. RestTypes'
    BY <1>t, <1>2 DEF ConditionEnds, RestTypes, boundVars
  <2>2. QED BY <1>2, <2>1, PartsStay, TypeWhole DEF ConditionEnds
<1>3. ASSUME NEW e \in Entities, LockLapses(e) \/ LockExpires(e) PROVE TypeOK'
  <2>1. RestTypes'
    BY <1>t, <1>3, Numbers DEF LockLapses, LockExpires, RestTypes, historyVars, boundVars
  <2>2. QED BY <1>3, <2>1, PartsStay, TypeWhole DEF LockLapses, LockExpires
<1>4. QED BY <1>1, <1>2, <1>3

\* Every step keeps the types.
LEMMA TypesStep ==
  ASSUME TypeOK, [Next]_vars
  PROVE TypeOK'
<1>1. CASE UNCHANGED vars
  BY <1>1, PartsStay, TypeWhole DEF vars
<1>2. QED BY <1>1, RunnerTypes, TakeTypes, TimerTypes, CycleTypes, WorldTypes DEF Next
-----------------------------------------------------------------------------
(* Attempts and their count.                                               *)
Counting == {"lock", "begin", "act", "log"}

\* What a runner reads is what is stored, and later steps leave it alone.
LEMMA CountsStay ==
  ASSUME TypeOK, Counted, CancelledIsExhausted, UNCHANGED <<retryCount, failures, cancelled>>,
         \A a \in Alerts : status'[a] = "FAILED" => status[a] = "FAILED",
         \A l \in Runners :
           \/ at'[l] \notin Counting \cup {"fallback"}
           \/ /\ at'[l] = at[l] \/ (at[l] \in Counting /\ at'[l] \in Counting)
              /\ subject'[l] = subject[l] /\ copy'[l] = copy[l]
           \/ at'[l] = "lock" /\ subject'[l] \in Alerts /\ copy'[l] = retryCount[subject'[l]]
  PROVE Counted' /\ CancelledIsExhausted'
<1>1. \A l \in Runners : at'[l] \in Counting => copy'[l] <= failures[subject'[l]]
  BY DEF Counted, Counting
<1>2. \A l \in Runners : at'[l] = "fallback" => failures[subject'[l]] > MaxRetries
  BY DEF Counted, Counting
<1>3. Counted'
  BY <1>1, <1>2 DEF Counted, Counting
<1>4. QED BY <1>3 DEF CancelledIsExhausted

\* Every step keeps the counts, and no alert is given up before its retries are.
LEMMA CountsStep ==
  ASSUME TypeOK, TypeOK', Counted, CancelledIsExhausted, [Next]_vars
  PROVE Counted' /\ CancelledIsExhausted'
<1>t. AlertTypes /\ RunnersTyped
  BY TypeParts
<1>at. at \in [Runners -> Working \cup {"idle", "removed", "popped"}]
       /\ subject \in [Runners -> Alerts \cup {NoAlert}] /\ copy \in [Runners -> 0 .. MaxRetries]
       /\ \A l \in Runners : at[l] # "idle" => subject[l] \in Alerts
  BY <1>t DEF RunnersTyped
<1>a. ASSUME UNCHANGED <<retryCount, failures, cancelled, runnerVars>>,
             \A a \in Alerts : status'[a] = "FAILED" => status[a] = "FAILED"
      PROVE Counted' /\ CancelledIsExhausted'
  BY <1>a, CountsStay DEF runnerVars
<1>b. ASSUME NEW l \in Runners, UNCHANGED <<retryCount, failures, cancelled>>,
             \A a \in Alerts : status'[a] = "FAILED" => status[a] = "FAILED",
             \/ Leave(l)
             \/ /\ UNCHANGED <<subject, copy>>
                /\ \/ Goto(l, "release") \/ Goto(l, "delete")
                   \/ at[l] \in Counting /\ \E s \in Counting : Goto(l, s)
      PROVE Counted' /\ CancelledIsExhausted'
  <2>1. \A k \in Runners \ {l} : at'[k] = at[k] /\ subject'[k] = subject[k] /\ copy'[k] = copy[k]
    BY <1>at, <1>b DEF Leave, Goto
  <2>2. at'[l] \notin Counting \cup {"fallback"}
          \/ (at[l] \in Counting /\ at'[l] \in Counting /\ subject'[l] = subject[l] /\ copy'[l] = copy[l])
    BY <1>at, <1>b DEF Leave, Goto, Counting
  <2>3. QED BY <1>b, <2>1, <2>2, CountsStay
<1>1. ASSUME NEW l \in Runners, PromotePush(l) \/ ReleaseGet(l) \/ ReleaseDel(l) \/ RunnerCrash(l)
      PROVE Counted' /\ CancelledIsExhausted'
  BY <1>1, <1>b DEF PromotePush, ReleaseGet, ReleaseDel, RunnerCrash, alertVars, historyVars
<1>2. ASSUME NEW l \in Runners, Read(l) PROVE Counted' /\ CancelledIsExhausted'
  <2>1. UNCHANGED <<status, retryCount, failures, cancelled>> /\ at[l] = "popped"
    BY <1>2 DEF Read, alertVars, historyVars
  <2>2. CASE Leave(l)
    BY <1>b, <2>1, <2>2
  <2>3. CASE Goto(l, "lock") /\ UNCHANGED subject /\ copy' = [copy EXCEPT ![l] = retryCount[subject[l]]]
    <3>1. \A k \in Runners \ {l} : at'[k] = at[k] /\ subject'[k] = subject[k] /\ copy'[k] = copy[k]
      BY <1>at, <2>3 DEF Goto
    <3>2. at'[l] = "lock" /\ subject'[l] \in Alerts /\ copy'[l] = retryCount[subject'[l]]
      BY <1>at, <2>1, <2>3 DEF Goto
    <3>3. QED BY <2>1, <3>1, <3>2, CountsStay
  <2>4. QED BY <1>2, <2>2, <2>3 DEF Read
<1>3. ASSUME NEW l \in Runners, Acquire(l) PROVE Counted' /\ CancelledIsExhausted'
  BY <1>3, <1>b DEF Acquire, alertVars, historyVars, Counting
<1>4. ASSUME NEW l \in Runners,
             Begin(l) \/ ActDone(l) \/ ActManual(l) \/ ActLogged(l) \/ ActUnsaved(l)
      PROVE Counted' /\ CancelledIsExhausted'
  <2>1. \A a \in Alerts : status'[a] = "FAILED" => status[a] = "FAILED"
    BY <1>t, <1>4 DEF Begin, ActDone, ActManual, ActLogged, ActUnsaved, alertVars, AlertTypes
  <2>2. UNCHANGED <<retryCount, failures, cancelled, subject, copy>>
    BY <1>4 DEF Begin, ActDone, ActManual, ActLogged, ActUnsaved, alertVars, historyVars
  <2>3. Goto(l, "release") \/ (at[l] \in Counting /\ \E s \in Counting : Goto(l, s))
    BY <1>4 DEF Begin, ActDone, ActManual, ActLogged, ActUnsaved, Counting
  <2>4. QED BY <1>b, <2>1, <2>2, <2>3 DEF Counting
<1>5. ASSUME NEW l \in Runners, ActThrows(l) PROVE Counted' /\ CancelledIsExhausted'
  <2> DEFINE a == subject[l]
  <2>1. /\ a \in Alerts /\ copy[l] \in 0 .. MaxRetries /\ copy[l] <= failures[a]
        /\ UNCHANGED <<cancelled, subject, copy>>
    BY <1>at, <1>5 DEF ActThrows, Counted, historyVars, Working
  <2>2. /\ failures' = [failures EXCEPT ![a] = IF failures[a] > MaxRetries THEN failures[a] ELSE failures[a] + 1]
        /\ failures \in [Alerts -> 0 .. MaxRetries + 1]
    BY <1>5, <1>t DEF ActThrows, AlertTypes
  <2>3. /\ \A b \in Alerts : failures'[b] >= failures[b] /\ failures[b] \in Nat /\ failures'[b] \in Nat
        /\ copy[l] + 1 <= failures'[a]
    BY <2>1, <2>2, Numbers
  <2>4. /\ at' = [at EXCEPT ![l] = at'[l]]
        /\ \A k \in Runners \ {l} : at'[k] = at[k]
        /\ at'[l] \in {"release", "fallback"}
    BY <1>at, <1>5 DEF ActThrows, Goto
  <2>5. CASE copy[l] + 1 > MaxRetries
    <3>1. UNCHANGED retryCount /\ status' = [status EXCEPT ![a] = "FAILED"] /\ failures'[a] > MaxRetries
      BY <1>5, <2>1, <2>3, <2>5, Numbers DEF ActThrows
    <3>2. \A b \in Alerts : status'[b] = "FAILED" => b = a \/ status[b] = "FAILED"
      BY <1>t, <3>1 DEF AlertTypes
    <3> HIDE DEF a
    <3>3. \A b \in Alerts : retryCount[b] \in Nat
      BY <1>t, Numbers DEF AlertTypes
    <3>4. \A k \in Runners : copy[k] \in Nat
      BY <1>at, Numbers
    <3>5. Counted'
      <4>1. \A b \in Alerts : retryCount'[b] <= failures'[b]
        BY <2>3, <3>1, <3>3 DEF Counted
      <4>2. \A k \in Runners : at'[k] \in {"lock", "begin", "act", "log"} => copy'[k] <= failures'[subject'[k]]
        BY <1>at, <2>1, <2>3, <2>4, <3>4 DEF Counted
      <4>3. \A k \in Runners : at'[k] = "fallback" => failures'[subject'[k]] > MaxRetries
        <5>1. \A k \in Runners \ {l} : at[k] = "fallback" => failures'[subject[k]] > MaxRetries
          BY <1>at, <2>3, Numbers DEF Counted
        <5>2. failures'[subject[l]] > MaxRetries
          BY <3>1 DEF a
        <5>3. QED BY <2>1, <2>4, <5>1, <5>2
      <4>4. QED BY <4>1, <4>2, <4>3 DEF Counted
    <3>6. CancelledIsExhausted'
      BY <2>1, <2>3, <3>1, <3>2, Numbers DEF CancelledIsExhausted
    <3>7. QED BY <3>5, <3>6
  <2>6. CASE ~(copy[l] + 1 > MaxRetries)
    <3>1. /\ retryCount' = [retryCount EXCEPT ![a] = copy[l] + 1]
          /\ status' = [status EXCEPT ![a] = "QUEUED"] /\ at'[l] = "release"
      BY <1>at, <1>5, <2>6 DEF ActThrows, Goto
    <3>2. \A b \in Alerts : /\ status'[b] = "FAILED" => status[b] = "FAILED"
                            /\ retryCount[b] \in Nat
                            /\ retryCount'[b] = IF b = a THEN copy[l] + 1 ELSE retryCount[b]
      BY <1>t, <3>1, Numbers DEF AlertTypes
    <3> HIDE DEF a
    <3>3. \A k \in Runners : copy[k] \in Nat
      BY <1>at, Numbers
    <3>4. Counted'
      <4>1. \A b \in Alerts : retryCount'[b] <= failures'[b]
        BY <2>3, <3>2 DEF Counted
      <4>2. \A k \in Runners : at'[k] \in {"lock", "begin", "act", "log"} => copy'[k] <= failures'[subject'[k]]
        BY <1>at, <2>1, <2>3, <2>4, <3>3 DEF Counted
      <4>3. \A k \in Runners : at'[k] = "fallback" => failures'[subject'[k]] > MaxRetries
        BY <1>at, <2>1, <2>3, <2>4, <3>1, Numbers DEF Counted
      <4>4. QED BY <4>1, <4>2, <4>3 DEF Counted
    <3>5. CancelledIsExhausted'
      BY <2>1, <2>3, <3>2, Numbers DEF CancelledIsExhausted
    <3>6. QED BY <3>4, <3>5
  <2>7. QED BY <2>5, <2>6
<1>6. ASSUME NEW l \in Runners, Fallback(l) PROVE Counted' /\ CancelledIsExhausted'
  <2>1. /\ subject[l] \in Alerts /\ failures[subject[l]] > MaxRetries
        /\ UNCHANGED <<retryCount, failures, subject, copy>> /\ Goto(l, "release")
        /\ \A a \in Alerts : status'[a] = "FAILED" => status[a] = "FAILED"
        /\ \A a \in Alerts \ {subject[l]} : cancelled'[a] = cancelled[a]
    BY <1>at, <1>6, <1>t DEF Fallback, Counted, AlertTypes
  <2>2. \A k \in Runners : at'[k] = at[k] \/ at'[k] = "release"
    BY <1>at, <2>1 DEF Goto
  <2>3. Counted'
    BY <2>1, <2>2 DEF Counted
  <2>4. CancelledIsExhausted'
    BY <2>1 DEF CancelledIsExhausted
  <2>5. QED BY <2>3, <2>4
<1>7. ASSUME NEW l \in Runners, NEW a \in Alerts, PromoteRem(l, a) \/ Dequeue(l, a)
      PROVE Counted' /\ CancelledIsExhausted'
  <2>1. UNCHANGED <<status, retryCount, failures, cancelled>>
    BY <1>7 DEF PromoteRem, Dequeue, alertVars, historyVars
  <2>2. \A k \in Runners \ {l} : at'[k] = at[k] /\ subject'[k] = subject[k] /\ copy'[k] = copy[k]
    BY <1>at, <1>7 DEF PromoteRem, Dequeue, Goto
  <2>3. at'[l] \notin Counting \cup {"fallback"}
    BY <1>at, <1>7 DEF PromoteRem, Dequeue, Goto, Counting
  <2>4. QED BY <2>1, <2>2, <2>3, CountsStay
<1>8. ASSUME NEW l \in Runners, NEW a \in Alerts, AdminRead(l, a) PROVE Counted' /\ CancelledIsExhausted'
  <2>1. UNCHANGED <<status, retryCount, failures, cancelled>>
    BY <1>8 DEF AdminRead, alertVars, historyVars
  <2>2. \A k \in Runners \ {l} : at'[k] = at[k] /\ subject'[k] = subject[k] /\ copy'[k] = copy[k]
    BY <1>at, <1>8 DEF AdminRead, Goto
  <2>3. at'[l] = "lock" /\ subject'[l] \in Alerts /\ copy'[l] = retryCount[subject'[l]]
    BY <1>at, <1>8 DEF AdminRead, Goto
  <2>4. QED BY <2>1, <2>2, <2>3, CountsStay
<1>9. ASSUME NEW t \in Timers, Proceed(t) \/ TimerCrash(t) PROVE Counted' /\ CancelledIsExhausted'
  <2>1. UNCHANGED <<retryCount, failures, cancelled, runnerVars>>
    BY <1>9 DEF Proceed, TimerCrash, OpenMark, RetryClear, DetectMark, EscalateMark, Push, alertVars, historyVars
  <2>2. \A a \in Alerts : status'[a] = "FAILED" => status[a] = "FAILED"
    BY <1>9, <1>t DEF Proceed, TimerCrash, OpenMark, RetryClear, DetectMark, EscalateMark, Push, alertVars, AlertTypes
  <2>3. QED BY <1>a, <2>1, <2>2
<1>10. ASSUME NEW t \in Timers, NEW a \in Alerts,
              OpenRead(t, a) \/ RetryRead(t, a) \/ DetectRead(t, a) \/ EscalateRead(t, a)
       PROVE Counted' /\ CancelledIsExhausted'
  <2>1. UNCHANGED <<retryCount, failures, cancelled, runnerVars>>
    BY <1>10 DEF OpenRead, RetryRead, DetectRead, EscalateRead, alertVars, historyVars
  <2>2. \A b \in Alerts : status'[b] = "FAILED" => status[b] = "FAILED"
    BY <1>10, <1>t DEF OpenRead, RetryRead, DetectRead, EscalateRead, alertVars, AlertTypes
  <2>3. QED BY <1>a, <2>1, <2>2
<1>11. ASSUME NEW a \in Alerts, Raise(a) \/ ConditionEnds(a) \/ BackoffElapses(a)
       PROVE Counted' /\ CancelledIsExhausted'
  <2>1. UNCHANGED <<retryCount, failures, cancelled, runnerVars>>
    BY <1>11 DEF Raise, ConditionEnds, BackoffElapses, alertVars, historyVars
  <2>2. \A b \in Alerts : status'[b] = "FAILED" => status[b] = "FAILED"
    BY <1>11, <1>t DEF Raise, ConditionEnds, BackoffElapses, alertVars, AlertTypes
  <2>3. QED BY <1>a, <2>1, <2>2
<1>12. ASSUME NEW e \in Entities, LockLapses(e) \/ LockExpires(e) PROVE Counted' /\ CancelledIsExhausted'
  BY <1>12, <1>a DEF LockLapses, LockExpires, alertVars, historyVars
<1>13. CASE UNCHANGED vars
  BY <1>13, <1>a DEF vars, alertVars, historyVars
<1>14. QED
  BY <1>1, <1>2, <1>3, <1>4, <1>5, <1>6, <1>7, <1>8, <1>9, <1>10, <1>11, <1>12, <1>13 DEF Next, Execute
-----------------------------------------------------------------------------
(* Runners at work on one entity.                                          *)
Inner == Working \ {"lock"}
Bound(e) == Cardinality(Inside(e)) <= lapses + (IF Held(e) THEN 1 ELSE 0)

\* There are finitely many runners.
LEMMA RunnersAreFinite == IsFiniteSet(Runners)
BY OpsConstants, FS_Union DEF Runners

\* A step that takes nobody in and leaves the lock, or takes one out.
LEMMA OverlapStays ==
  ASSUME TypeOK, TypeOK', Overlap, NEW e \in Entities, lapses' = lapses,
         \/ /\ lock'[e] = lock[e]
            /\ \A l \in Runners :
                 /\ at'[l] \in Inner <=> at[l] \in Inner
                 /\ at[l] \in Inner => subject'[l] = subject[l]
         \/ \E l \in Inside(e) :
              /\ at'[l] \notin Inner
              /\ \A k \in Runners \ {l} : at'[k] = at[k] /\ subject'[k] = subject[k]
  PROVE Bound(e)'
<1>1. Bound(e) /\ lapses \in Nat
  BY Numbers, TypeParts DEF Overlap, Bound, RestTypes
<1>2. IsFiniteSet(Inside(e)) /\ Cardinality(Inside(e)) \in Nat
  <2>1. Inside(e) \subseteq Runners
    BY DEF Inside
  <2>2. QED BY <2>1, RunnersAreFinite, FS_Subset, FS_CardinalityType
<1>3. CASE /\ lock'[e] = lock[e]
           /\ \A l \in Runners :
                /\ at'[l] \in Inner <=> at[l] \in Inner
                /\ at[l] \in Inner => subject'[l] = subject[l]
  <2>1. Inside(e)' = Inside(e)
    BY <1>3 DEF Inside, Inner
  <2>2. \A l \in Inside(e) : OwnerOf(l)' = OwnerOf(l)
    BY <1>3 DEF Inside, Inner, OwnerOf
  <2>3. Held(e)' <=> Held(e)
    BY <1>3, <2>1, <2>2 DEF Held
  <2>4. QED BY <1>1, <2>1, <2>3 DEF Bound
<1>4. ASSUME NEW l \in Inside(e), at'[l] \notin Inner,
             \A k \in Runners \ {l} : at'[k] = at[k] /\ subject'[k] = subject[k]
      PROVE Bound(e)'
  <2>1. Inside(e)' = Inside(e) \ {l}
    BY <1>4 DEF Inside, Inner
  <2>2. Cardinality(Inside(e)') = Cardinality(Inside(e)) - 1
    BY <1>2, <1>4, <2>1, FS_RemoveElement
  <2>3. QED BY <1>1, <1>2, <2>2 DEF Bound
<1>5. QED BY <1>3, <1>4

\* Every step bounds the runners at work.
LEMMA OverlapStep ==
  ASSUME TypeOK, TypeOK', Overlap, [Next]_vars
  PROVE Overlap'
<1>t. /\ at \in [Runners -> Working \cup {"idle", "removed", "popped"}]
      /\ subject \in [Runners -> Alerts \cup {NoAlert}]
      /\ \A l \in Runners : at[l] # "idle" => subject[l] \in Alerts
      /\ lock \in [Entities -> Owners \cup {NoOwner}] /\ lapses \in Nat
  BY TypeParts, Numbers DEF RunnersTyped, RestTypes
<1>s. ASSUME \A e \in Entities : Bound(e)' PROVE Overlap'
  BY <1>s DEF Bound, Overlap
<1>a. ASSUME UNCHANGED <<runnerVars, lock, lapses>> PROVE Overlap'
  BY <1>a, <1>s, OverlapStays DEF runnerVars
<1>b. ASSUME NEW l \in Runners, UNCHANGED <<subject, lock, lapses>>,
             \E s \in Working \cup {"idle"} : Goto(l, s) /\ (s \in Inner <=> at[l] \in Inner)
      PROVE Overlap'
  <2>1. \A k \in Runners : at'[k] \in Inner <=> at[k] \in Inner
    BY <1>b, <1>t DEF Goto
  <2>2. QED BY <1>b, <1>s, <2>1, OverlapStays
<1>c. ASSUME NEW l \in Runners, Leave(l), lapses' = lapses,
             \A e \in Entities : l \in Inside(e) \/ lock'[e] = lock[e]
      PROVE Overlap'
  <2>1. /\ at'[l] = "idle"
        /\ \A k \in Runners \ {l} : at'[k] = at[k] /\ subject'[k] = subject[k]
    BY <1>c, <1>t DEF Leave, Goto
  <2>2. ASSUME NEW e \in Entities PROVE Bound(e)'
    <3>1. CASE l \in Inside(e)
      BY <1>c, <2>1, <3>1, OverlapStays DEF Inner, Working
    <3>2. CASE l \notin Inside(e) /\ at[l] \notin Inner
      BY <1>c, <2>1, <3>2, OverlapStays DEF Inner, Working
    <3>3. CASE l \notin Inside(e) /\ at[l] \in Inner
      <4>1. Inside(e)' = Inside(e) /\ lock'[e] = lock[e]
        BY <1>c, <2>1, <3>3 DEF Inside, Inner, Working
      <4>2. \A k \in Inside(e) : OwnerOf(k)' = OwnerOf(k)
        BY <2>1, <3>3 DEF Inside, OwnerOf
      <4>3. Held(e)' <=> Held(e)
        BY <4>1, <4>2 DEF Held
      <4>4. QED BY <1>c, <4>1, <4>3 DEF Bound, Overlap
    <3>4. QED BY <3>1, <3>2, <3>3
  <2>3. QED BY <1>s, <2>2
<1>1. ASSUME NEW l \in Runners, PromotePush(l) \/ RunnerCrash(l) PROVE Overlap'
  BY <1>1, <1>c DEF PromotePush, RunnerCrash, boundVars
<1>2. ASSUME NEW l \in Runners, Read(l) PROVE Overlap'
  <2>1. UNCHANGED <<lock, lapses>> /\ at[l] = "popped"
    BY <1>2 DEF Read
  <2>2. CASE Leave(l)
    BY <1>c, <2>1, <2>2
  <2>3. CASE Goto(l, "lock") /\ UNCHANGED subject
    BY <1>b, <2>1, <2>3 DEF Inner, Working
  <2>4. QED BY <1>2, <2>2, <2>3 DEF Read
<1>3. ASSUME NEW l \in Runners, Acquire(l) PROVE Overlap'
  <2>1. at[l] = "lock" /\ lapses' = lapses
    BY <1>3 DEF Acquire, boundVars
  <2>2. PICK f \in Entities : f = EntityOf[subject[l]]
    BY <1>t, <2>1, OpsConstants
  <2>3. CASE Leave(l) /\ UNCHANGED lock
    BY <1>c, <2>1, <2>3
  <2>4. CASE /\ lock[f] = NoOwner /\ lock' = [lock EXCEPT ![f] = OwnerOf(l)]
             /\ Goto(l, "begin") /\ UNCHANGED subject
    <3>1. /\ at'[l] = "begin" /\ lock'[f] = OwnerOf(l)
          /\ \A k \in Runners \ {l} : at'[k] = at[k]
          /\ \A e \in Entities \ {f} : lock'[e] = lock[e]
      BY <1>t, <2>2, <2>4 DEF Goto
    <3>2. ASSUME NEW e \in Entities, e # f PROVE Bound(e)'
      <4>1. Inside(e)' = Inside(e) /\ lock'[e] = lock[e]
        BY <2>1, <2>2, <2>4, <3>1, <3>2 DEF Inside
      <4>2. \A k \in Inside(e) : OwnerOf(k)' = OwnerOf(k)
        BY <2>4 DEF OwnerOf
      <4>3. Held(e)' <=> Held(e)
        BY <4>1, <4>2 DEF Held
      <4>4. QED BY <2>1, <4>1, <4>3 DEF Bound, Overlap
    <3>3. Bound(f)'
      <4>1. Inside(f)' = Inside(f) \cup {l} /\ l \notin Inside(f)
        BY <2>1, <2>2, <2>4, <3>1 DEF Inside, Working
      <4>2. Held(f)'
        <5>1. OwnerOf(l)' = OwnerOf(l)
          BY <2>4 DEF OwnerOf
        <5>2. l \in Inside(f)'
          BY <4>1
        <5>3. QED BY <2>4, <3>1, <5>1, <5>2 DEF Held
      <4>3. ~Held(f)
        <5>1. \A k \in Inside(f) : OwnerOf(k) \in Owners
          BY <1>t, OpsConstants DEF Inside, OwnerOf, Owners, Working, Runners
        <5>2. NoOwner \notin Owners
          BY OpsConstants
        <5>3. QED BY <2>4, <5>1, <5>2 DEF Held
      <4>4. IsFiniteSet(Inside(f)) /\ Cardinality(Inside(f)) \in Nat
        <5>1. Inside(f) \subseteq Runners
          BY DEF Inside
        <5>2. QED BY <5>1, RunnersAreFinite, FS_Subset, FS_CardinalityType
      <4>5. Cardinality(Inside(f)') = Cardinality(Inside(f)) + 1
        BY <4>1, <4>4, FS_AddElement
      <4>6. Cardinality(Inside(f)) <= lapses
        BY <1>t, <2>2, <4>3, <4>4 DEF Overlap
      <4>7. Cardinality(Inside(f)') <= lapses' + 1
        BY <1>t, <2>1, <4>4, <4>5, <4>6
      <4>8. QED BY <4>2, <4>7 DEF Bound
    <3>4. QED BY <1>s, <3>2, <3>3
  <2>5. QED BY <1>3, <2>2, <2>3, <2>4 DEF Acquire
<1>4. ASSUME NEW l \in Runners,
             \/ Begin(l) \/ ActDone(l) \/ ActManual(l) \/ ActLogged(l)
             \/ ActThrows(l) \/ ActUnsaved(l) \/ Fallback(l)
      PROVE Overlap'
  <2>1. UNCHANGED <<subject, lock, lapses>> /\ at[l] \in {"begin", "act", "log", "fallback"}
    BY <1>4 DEF Begin, ActDone, ActManual, ActLogged, ActThrows, ActUnsaved, Fallback, boundVars
  <2>2. \E s \in {"act", "log", "fallback", "release"} : Goto(l, s)
    BY <1>4 DEF Begin, ActDone, ActManual, ActLogged, ActThrows, ActUnsaved, Fallback
  <2>3. QED BY <1>b, <2>1, <2>2 DEF Inner, Working
<1>5. ASSUME NEW l \in Runners, ReleaseGet(l) PROVE Overlap'
  <2>1. UNCHANGED <<lock, lapses>> /\ at[l] = "release"
    BY <1>5 DEF ReleaseGet, boundVars
  <2>2. CASE Leave(l)
    BY <1>c, <2>1, <2>2
  <2>3. CASE Goto(l, "delete") /\ UNCHANGED subject
    BY <1>b, <2>1, <2>3 DEF Inner, Working
  <2>4. QED BY <1>5, <2>2, <2>3 DEF ReleaseGet
<1>6. ASSUME NEW l \in Runners, ReleaseDel(l) PROVE Overlap'
  <2>1. /\ at[l] = "delete" /\ Leave(l) /\ lapses' = lapses
        /\ lock' = [lock EXCEPT ![EntityOf[subject[l]]] = NoOwner]
    BY <1>6 DEF ReleaseDel, boundVars
  <2>2. \A e \in Entities : l \in Inside(e) \/ lock'[e] = lock[e]
    BY <1>t, <2>1 DEF Inside, Working
  <2>3. QED BY <1>c, <2>1, <2>2
<1>7. ASSUME NEW l \in Runners, NEW a \in Alerts, PromoteRem(l, a) \/ Dequeue(l, a) \/ AdminRead(l, a)
      PROVE Overlap'
  <2>1. UNCHANGED <<lock, lapses>> /\ at[l] = "idle" /\ \E s \in {"removed", "popped", "lock"} : Goto(l, s)
    BY <1>7 DEF PromoteRem, Dequeue, AdminRead, boundVars
  <2>2. \A k \in Runners \ {l} : subject'[k] = subject[k]
    BY <1>7, <1>t DEF PromoteRem, Dequeue, AdminRead
  <2>3. \A k \in Runners : /\ at'[k] \in Inner <=> at[k] \in Inner
                           /\ at[k] \in Inner => subject'[k] = subject[k]
    BY <1>t, <2>1, <2>2 DEF Goto, Inner, Working
  <2>4. QED BY <1>s, <2>1, <2>3, OverlapStays
<1>8. ASSUME NEW t \in Timers, Proceed(t) \/ TimerCrash(t) PROVE Overlap'
  BY <1>8, <1>a DEF Proceed, TimerCrash, OpenMark, RetryClear, DetectMark, EscalateMark, Push, boundVars
<1>9. ASSUME NEW t \in Timers, NEW a \in Alerts,
             OpenRead(t, a) \/ RetryRead(t, a) \/ DetectRead(t, a) \/ EscalateRead(t, a)
      PROVE Overlap'
  BY <1>9, <1>a DEF OpenRead, RetryRead, DetectRead, EscalateRead, boundVars
<1>10. ASSUME NEW a \in Alerts, Raise(a) \/ ConditionEnds(a) \/ BackoffElapses(a) PROVE Overlap'
  BY <1>10, <1>a DEF Raise, ConditionEnds, BackoffElapses, boundVars
<1>11. ASSUME NEW f \in Entities, LockLapses(f) \/ LockExpires(f) PROVE Overlap'
  <2>1. /\ UNCHANGED <<at, subject>> /\ lock' = [lock EXCEPT ![f] = NoOwner]
        /\ lapses' = lapses \/ lapses' = lapses + 1
    BY <1>11 DEF LockLapses, LockExpires, runnerVars, boundVars
  <2>2. \A e \in Entities : Inside(e)' = Inside(e) /\ Cardinality(Inside(e)) \in Nat
    <3>1. ASSUME NEW e \in Entities PROVE Inside(e)' = Inside(e) /\ Cardinality(Inside(e)) \in Nat
      <4>1. Inside(e) \subseteq Runners
        BY DEF Inside
      <4>2. Inside(e)' = Inside(e)
        BY <2>1 DEF Inside
      <4>3. QED BY <4>1, <4>2, RunnersAreFinite, FS_Subset, FS_CardinalityType
    <3>2. QED BY <3>1
  <2>3. ASSUME NEW e \in Entities, e # f PROVE Bound(e)'
    <3>1. lock'[e] = lock[e] /\ \A k \in Inside(e) : OwnerOf(k)' = OwnerOf(k)
      BY <1>t, <2>1, <2>3 DEF OwnerOf
    <3>2. Held(e)' <=> Held(e)
      BY <2>2, <3>1 DEF Held
    <3>3. QED BY <1>t, <2>1, <2>2, <3>2 DEF Bound, Overlap
  <2>4. Cardinality(Inside(f)) <= lapses'
    <3>1. CASE LockLapses(f)
      BY <1>t, <2>2, <3>1 DEF LockLapses, Overlap
    <3>2. CASE LockExpires(f)
      BY <1>t, <2>1, <2>2, <3>2 DEF LockExpires, Overlap, Held, boundVars
    <3>3. QED BY <1>11, <3>1, <3>2
  <2>5. Bound(f)'
    BY <1>t, <2>1, <2>2, <2>4 DEF Bound
  <2>6. QED BY <1>s, <2>3, <2>5
<1>12. CASE UNCHANGED vars
  BY <1>12, <1>a DEF vars, boundVars
<1>13. QED
  BY <1>1, <1>2, <1>3, <1>4, <1>5, <1>6, <1>7, <1>8, <1>9, <1>10, <1>11, <1>12 DEF Next, Execute

-----------------------------------------------------------------------------
(* Alerts in processing.                                                   *)
Troubled == crashes > 0 \/ faults > 0
ActsOn(l, a) == at[l] = "act" /\ subject[l] = a

ProcessingIsTended ==
  \A a \in Alerts : status[a] = "PROCESSING" => Troubled \/ \E l \in Runners : ActsOn(l, a)

\* A step after which no alert is in processing that was not, or that has lost
\* the runner at its action.
LEMMA TendedStays ==
  ASSUME ProcessingIsTended, Troubled => Troubled',
         \A a \in Alerts : status'[a] = "PROCESSING" =>
           \/ Troubled'
           \/ \E l \in Runners : ActsOn(l, a)'
           \/ status[a] = "PROCESSING" /\ \A l \in Runners : ActsOn(l, a) => ActsOn(l, a)'
  PROVE ProcessingIsTended'
BY DEF ProcessingIsTended

\* Every step keeps a runner at the action of an alert in processing.
LEMMA TendedStep ==
  ASSUME TypeOK, ProcessingIsTended, [Next]_vars
  PROVE ProcessingIsTended'
<1>t. /\ at \in [Runners -> Working \cup {"idle", "removed", "popped"}]
      /\ subject \in [Runners -> Alerts \cup {NoAlert}]
      /\ status \in [Alerts -> Active \cup {"absent", "RESOLVED", "FAILED"}]
      /\ crashes \in Nat /\ faults \in Nat
      /\ \A l \in Runners : at[l] # "idle" => subject[l] \in Alerts
  BY TypeParts, Numbers DEF RunnersTyped, AlertTypes, RestTypes
<1>a. ASSUME UNCHANGED <<at, subject>>, Troubled => Troubled',
             \A a \in Alerts : status'[a] = "PROCESSING" => status[a] = "PROCESSING"
      PROVE ProcessingIsTended'
  BY <1>a, TendedStays DEF ActsOn
<1>b. ASSUME NEW l \in Runners, Troubled => Troubled', UNCHANGED status,
             at[l] # "act", Leave(l) \/ (UNCHANGED subject /\ \E s \in Working : Goto(l, s))
      PROVE ProcessingIsTended'
  <2>1. \A k \in Runners : at[k] = "act" => at'[k] = at[k] /\ subject'[k] = subject[k]
    BY <1>t, <1>b DEF Leave, Goto
  <2>2. QED BY <1>b, <2>1, TendedStays DEF ActsOn
<1>1. ASSUME NEW l \in Runners,
             PromotePush(l) \/ Read(l) \/ Acquire(l) \/ ActLogged(l) \/ ReleaseGet(l) \/ ReleaseDel(l)
      PROVE ProcessingIsTended'
  <2>1. at[l] # "act" /\ UNCHANGED status
    BY <1>1 DEF PromotePush, Read, Acquire, ActLogged, ReleaseGet, ReleaseDel, alertVars
  <2>2. Troubled => Troubled'
    BY <1>t, <1>1 DEF PromotePush, Read, Acquire, ActLogged, ReleaseGet, ReleaseDel, boundVars, Troubled
  <2>3. Leave(l) \/ (UNCHANGED subject /\ \E s \in Working : Goto(l, s))
    BY <1>1 DEF PromotePush, Read, Acquire, ActLogged, ReleaseGet, ReleaseDel, Working
  <2>4. QED BY <1>b, <2>1, <2>2, <2>3
<1>2. ASSUME NEW l \in Runners, Begin(l) PROVE ProcessingIsTended'
  <2>1. /\ at[l] = "begin" /\ at' = [at EXCEPT ![l] = "act"]
        /\ status' = [status EXCEPT ![subject[l]] = "PROCESSING"]
        /\ UNCHANGED <<subject, crashes, faults>>
    BY <1>2 DEF Begin, Goto, boundVars
  <2>2. \A a \in Alerts : a # subject[l] => status'[a] = status[a]
    BY <1>t, <2>1
  <2>3. ActsOn(l, subject[l])'
    BY <1>t, <2>1 DEF ActsOn
  <2>4. \A k \in Runners : \A a \in Alerts : ActsOn(k, a) => ActsOn(k, a)'
    BY <1>t, <2>1 DEF ActsOn
  <2>5. Troubled => Troubled'
    BY <2>1 DEF Troubled
  <2>6. QED BY <2>1, <2>2, <2>3, <2>4, <2>5, TendedStays
<1>3. ASSUME NEW l \in Runners,
             ActDone(l) \/ ActManual(l) \/ ActThrows(l) \/ (Fallback(l) /\ UNCHANGED faults)
      PROVE ProcessingIsTended'
  <2>1. /\ UNCHANGED <<subject, crashes, faults>> /\ subject[l] \in Alerts
        /\ \E s \in Working : Goto(l, s)
        /\ \E s \in {"RESOLVED", "ESCALATED", "FAILED", "QUEUED"} :
             status' = [status EXCEPT ![subject[l]] = s]
    BY <1>t, <1>3 DEF ActDone, ActManual, ActThrows, Fallback, boundVars, Working
  <2>2. \A a \in Alerts : status'[a] = "PROCESSING" => a # subject[l] /\ status[a] = "PROCESSING"
    BY <1>t, <2>1
  <2>3. \A k \in Runners \ {l} : at'[k] = at[k]
    BY <1>t, <2>1 DEF Goto
  <2>4. QED BY <2>1, <2>2, <2>3, TendedStays DEF ActsOn, Troubled
<1>4. ASSUME NEW l \in Runners,
             ActUnsaved(l) \/ RunnerCrash(l) \/ (Fallback(l) /\ ~UNCHANGED faults)
      PROVE ProcessingIsTended'
  <2>1. Troubled'
    BY <1>t, <1>4 DEF ActUnsaved, RunnerCrash, Fallback, Troubled
  <2>2. QED BY <2>1, TendedStays
<1>5. ASSUME NEW l \in Runners, NEW a \in Alerts, PromoteRem(l, a) \/ Dequeue(l, a) \/ AdminRead(l, a)
      PROVE ProcessingIsTended'
  <2>1. /\ at[l] = "idle" /\ UNCHANGED <<status, crashes, faults>>
        /\ \A k \in Runners \ {l} : at'[k] = at[k] /\ subject'[k] = subject[k]
    BY <1>t, <1>5 DEF PromoteRem, Dequeue, AdminRead, Goto, alertVars, boundVars
  <2>2. QED BY <2>1, TendedStays DEF ActsOn, Troubled
<1>6. ASSUME NEW t \in Timers, Proceed(t) \/ TimerCrash(t) PROVE ProcessingIsTended'
  <2>1. UNCHANGED <<at, subject>>
    BY <1>6 DEF Proceed, TimerCrash, OpenMark, RetryClear, DetectMark, EscalateMark, Push, runnerVars
  <2>2. Troubled => Troubled'
    <3>1. CASE TimerCrash(t)
      BY <1>t, <3>1 DEF TimerCrash, Troubled
    <3>2. CASE OpenMark(t) \/ RetryClear(t) \/ DetectMark(t) \/ EscalateMark(t)
      BY <3>2 DEF OpenMark, RetryClear, DetectMark, EscalateMark, boundVars, Troubled
    <3>3. ASSUME NEW from, NEW to, Push(t, from, to) PROVE Troubled => Troubled'
      <4>1. UNCHANGED crashes /\ (UNCHANGED faults \/ faults' = faults + 1)
        BY <3>3 DEF Push, Enqueue
      <4>2. QED BY <1>t, <4>1 DEF Troubled
    <3>4. QED BY <1>6, <3>1, <3>2, <3>3 DEF Proceed
  <2>3. \A a \in Alerts : status'[a] = "PROCESSING" => status[a] = "PROCESSING"
    BY <1>t, <1>6 DEF Proceed, TimerCrash, OpenMark, RetryClear, DetectMark, EscalateMark, Push, alertVars
  <2>4. QED BY <1>a, <2>1, <2>2, <2>3
<1>7. ASSUME NEW t \in Timers, NEW a \in Alerts,
             OpenRead(t, a) \/ RetryRead(t, a) \/ DetectRead(t, a) \/ EscalateRead(t, a)
      PROVE ProcessingIsTended'
  <2>1. UNCHANGED <<at, subject, crashes, faults>>
    BY <1>7 DEF OpenRead, RetryRead, DetectRead, EscalateRead, runnerVars, boundVars
  <2>2. \A b \in Alerts : status'[b] = "PROCESSING" => status[b] = "PROCESSING"
    BY <1>t, <1>7 DEF OpenRead, RetryRead, DetectRead, EscalateRead, alertVars
  <2>3. QED BY <1>a, <2>1, <2>2 DEF Troubled
<1>8. ASSUME NEW a \in Alerts, Raise(a) \/ ConditionEnds(a) \/ BackoffElapses(a)
      PROVE ProcessingIsTended'
  <2>1. UNCHANGED <<at, subject, crashes, faults>>
    BY <1>8 DEF Raise, ConditionEnds, BackoffElapses, runnerVars, boundVars
  <2>2. \A b \in Alerts : status'[b] = "PROCESSING" => status[b] = "PROCESSING"
    BY <1>t, <1>8 DEF Raise, ConditionEnds, BackoffElapses, alertVars
  <2>3. QED BY <1>a, <2>1, <2>2 DEF Troubled
<1>9. ASSUME NEW e \in Entities, LockLapses(e) \/ LockExpires(e) PROVE ProcessingIsTended'
  BY <1>9, <1>a DEF LockLapses, LockExpires, alertVars, runnerVars, boundVars, Troubled
<1>10. CASE UNCHANGED vars
  BY <1>10, <1>a DEF vars, alertVars, runnerVars, boundVars, Troubled
<1>11. QED
  BY <1>1, <1>2, <1>3, <1>4, <1>5, <1>6, <1>7, <1>8, <1>9, <1>10 DEF Next, Execute

-----------------------------------------------------------------------------
(* The whole invariant, and what follows from it.                          *)
OpsInv == TypeOK /\ Counted /\ CancelledIsExhausted /\ Overlap /\ ProcessingIsTended

(* The invariant of the alerts and their runners.                          *)
THEOREM OpsInvariance == Spec => []OpsInv
<1>1. Init => OpsInv
  <2> SUFFICES ASSUME Init PROVE OpsInv
    OBVIOUS
  <2>1. AlertTypes /\ ListTypes /\ RestTypes
    BY Numbers DEF Init, AlertTypes, ListTypes, RestTypes
  <2>2. RunnersTyped
    BY Numbers DEF Init, RunnersTyped
  <2>3. TimersTyped
    BY DEF Init, TimersTyped, Nothing
  <2>4. TypeOK
    BY <2>1, <2>2, <2>3, TypeParts DEF TypeOK, AlertTypes, ListTypes, RestTypes, RunnersTyped, TimersTyped
  <2>5. Counted /\ CancelledIsExhausted
    BY Numbers DEF Init, Counted, CancelledIsExhausted
  <2>6. Overlap
    <3>1. ASSUME NEW e \in Entities PROVE Inside(e) = {} /\ ~Held(e)
      BY DEF Init, Inside, Held, Working
    <3>2. lapses = 0 /\ Cardinality({}) = 0
      BY FS_EmptySet DEF Init
    <3>3. QED BY <3>1, <3>2 DEF Overlap
  <2>7. ProcessingIsTended
    BY DEF Init, ProcessingIsTended
  <2>8. QED BY <2>4, <2>5, <2>6, <2>7 DEF OpsInv
<1>2. OpsInv /\ [Next]_vars => OpsInv'
  BY TypesStep, CountsStep, OverlapStep, TendedStep DEF OpsInv
<1>3. QED BY <1>1, <1>2, PTL DEF Spec

\* The types, for any number of lanes, retries and faults: what a runner has
\* read is in range (opsActionService.js:35-67).
THEOREM OpsTypeCorrect == Spec => []TypeOK
<1>1. OpsInv => TypeOK
  BY DEF OpsInv
<1>2. QED BY <1>1, OpsInvariance, PTL

\* However many lanes and admins run, at most one more than locks have expired
\* under their holders is at work on an entity (opsLockService.js:53-106).
THEOREM OverlapIsBoundedAlways == Spec => []OverlapIsBounded
<1>1. OpsInv => OverlapIsBounded
  <2> SUFFICES ASSUME OpsInv, NEW e \in Entities PROVE Cardinality(Inside(e)) <= 1 + lapses
    BY DEF OverlapIsBounded
  <2>1. Inside(e) \subseteq Runners
    BY DEF Inside
  <2>2. Cardinality(Inside(e)) \in Nat /\ lapses \in Nat
    BY <2>1, RunnersAreFinite, FS_Subset, FS_CardinalityType, Numbers, TypeParts DEF OpsInv, RestTypes
  <2>3. QED BY <2>2 DEF OpsInv, Overlap
<1>2. QED BY <1>1, OpsInvariance, PTL

\* No alert is failed, and no order cancelled for it, before more attempts threw
\* than it may retry (opsActionService.js:35-67, 302-326).
THEOREM CancelledIsExhaustedAlways == Spec => []CancelledIsExhausted
<1>1. OpsInv => CancelledIsExhausted
  BY DEF OpsInv
<1>2. QED BY <1>1, OpsInvariance, PTL

\* An alert in processing has a runner at its action, whichever timers and
\* runners write its status meanwhile: it is stranded there only by a crash or a
\* failed update (opsActionService.js:229-330, opsWorkerService.js:25-91).
THEOREM ProcessingIsTendedAlways == Spec => []ProcessingIsTended
<1>1. OpsInv => ProcessingIsTended
  BY DEF OpsInv
<1>2. QED BY <1>1, OpsInvariance, PTL
=============================================================================
