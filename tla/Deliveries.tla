----------------------------- MODULE Deliveries ----------------------------
(***************************************************************************)
(* The delivery tasks of one order.  A manual assignment, a dispatch (in a *)
(* transaction), a batch and the vendor's "ready" each create a task, most *)
(* after checking that the order has no active one; a rider or an admin    *)
(* sets a task's status; alerts reassign or cancel.  ensureEntityMappings  *)
(* then reconciles: it reads the order and the tasks, keeps the newest     *)
(* active task, cancels the others, and gives the order its rider.         *)
(*                                                                         *)
(* A task is its createdAt stamp, taken before it is inserted.  assigned,  *)
(* accepted, picked_up and out_for_delivery are active; delivered and      *)
(* cancelled are closed.                                                   *)
(***************************************************************************)
EXTENDS Integers, FiniteSets, FiniteSetsExt

CONSTANTS
  Executions,   \* of all these handlers at the same time
  Riders,
  MaxTasks,     \* tasks ever created for the order
  MaxLeaks,     \* executions that leave a task behind and do not reconcile
  NoRider

ASSUME DeliveryConstants ==
  /\ IsFiniteSet(Executions)
  /\ MaxTasks \in Nat /\ MaxLeaks \in Nat
  /\ NoRider \notin Riders

VARIABLES
  state, taskRider,    \* of each task
  orderRider,
  job, kind,           \* an execution's position, and what it is (or the accepting rider)
  orderCopy,           \* the order's rider in the copy that it saves
  mine,                \* the task it is about to update
  mapped, found,       \* what a reconciliation read: the order's rider, the active tasks
  activated,           \* it activated a task and has not reconciled yet
  leaks                \* executions that ended so

taskVars == <<state, taskRider>>
jobVars == <<job, kind, orderCopy, mine, mapped, found, activated>>
deliveryVars == <<taskVars, orderRider, jobVars, leaks>>

Tasks == 1 .. MaxTasks
Unread == "unread"
Creators == {"manual", "dispatch", "batch", "ready"}

ActiveTasks == {t \in Tasks : state[t] = "active"}

DeliveriesInit ==
  /\ state = [t \in Tasks |-> "none"]
  /\ taskRider = [t \in Tasks |-> NoRider]
  /\ orderRider = NoRider
  /\ job = [x \in Executions |-> "idle"]
  /\ kind = [x \in Executions |-> "sweep"]
  /\ orderCopy = [x \in Executions |-> NoRider]
  /\ mine = [x \in Executions |-> 0]
  /\ mapped = [x \in Executions |-> Unread]
  /\ found = [x \in Executions |-> {}]
  /\ activated = [x \in Executions |-> FALSE]
  /\ leaks = 0

To(x, s) == job' = [job EXCEPT ![x] = s]

Reconciles(x) ==
  /\ To(x, "map")
  /\ kind' = [kind EXCEPT ![x] = "sweep"]
  /\ orderCopy' = [orderCopy EXCEPT ![x] = NoRider]
  /\ mine' = [mine EXCEPT ![x] = 0]
  /\ UNCHANGED <<mapped, found>>

\* The execution ends, with or without having reconciled what it activated.
Ends(x, leaves) ==
  /\ leaves => leaks < MaxLeaks
  /\ leaks' = IF leaves THEN leaks + 1 ELSE leaks
  /\ To(x, "idle")
  /\ kind' = [kind EXCEPT ![x] = "sweep"]
  /\ orderCopy' = [orderCopy EXCEPT ![x] = NoRider]
  /\ mine' = [mine EXCEPT ![x] = 0]
  /\ mapped' = [mapped EXCEPT ![x] = Unread]
  /\ found' = [found EXCEPT ![x] = {}]
  /\ activated' = [activated EXCEPT ![x] = FALSE]

----------------------------------------------------------------------------
(* Creating a task: manual, dispatch, batch, ready. *)

\* A batch takes orders without a rider; "ready" assigns only such an order.
ReadOrder(x, k) ==
  /\ job[x] = "idle" /\ k \in Creators
  /\ k \in {"batch", "ready"} => orderRider = NoRider
  /\ To(x, IF k = "batch" THEN "checked" ELSE "ordered")
  /\ kind' = [kind EXCEPT ![x] = k]
  /\ orderCopy' = [orderCopy EXCEPT ![x] = orderRider]
  /\ UNCHANGED <<taskVars, orderRider, mine, mapped, found, activated, leaks>>

CheckActive(x) ==
  /\ job[x] = "ordered"
  /\ \/ /\ ActiveTasks = {}
        /\ To(x, "checked")
        /\ UNCHANGED <<kind, orderCopy, mine, mapped, found, activated, leaks>>
     \/ ActiveTasks # {} /\ Ends(x, FALSE)
  /\ UNCHANGED <<taskVars, orderRider>>

Inserts(x, t, r) ==
  /\ state[t] = "none"
  /\ state' = [state EXCEPT ![t] = "active"]
  /\ taskRider' = [taskRider EXCEPT ![t] = r]
  /\ activated' = [activated EXCEPT ![x] = TRUE]

CreateTask(x, t, r) ==
  /\ job[x] = "checked" /\ kind[x] # "dispatch"
  /\ Inserts(x, t, r)
  /\ mine' = [mine EXCEPT ![x] = t]
  /\ To(x, "created")
  /\ UNCHANGED <<orderRider, kind, orderCopy, mapped, found, leaks>>

\* A save writes the rider only where it differs from the copy's.
SavesRider(x, r) == orderRider' = IF r = orderCopy[x] THEN orderRider ELSE r

\* "ready" ends here: nobody reconciles.
SaveOrder(x) ==
  /\ job[x] = "created"
  /\ SavesRider(x, taskRider[mine[x]])
  /\ \/ kind[x] # "ready" /\ Reconciles(x) /\ UNCHANGED <<activated, leaks>>
     \/ kind[x] = "ready" /\ Ends(x, TRUE)
  /\ UNCHANGED taskVars

CommitDispatch(x, t, r) ==
  /\ job[x] = "checked" /\ kind[x] = "dispatch"
  /\ Inserts(x, t, r)
  /\ SavesRider(x, r)
  /\ Reconciles(x)
  /\ UNCHANGED leaks

\* The transaction aborts: withTransaction runs the callback again, or the
\* fallback does without a transaction, step by step as by hand.  The copy of
\* the order may hold the rider of the aborted attempt as if saved.
RetryDispatch(x, r) ==
  /\ job[x] = "checked" /\ kind[x] = "dispatch"
  /\ To(x, "ordered")
  /\ kind' \in {kind, [kind EXCEPT ![x] = "manual"]}
  /\ orderCopy' \in {orderCopy, [orderCopy EXCEPT ![x] = r]}
  /\ UNCHANGED <<taskVars, orderRider, mine, mapped, found, activated, leaks>>

----------------------------------------------------------------------------
(* Other handlers. *)

AcceptRead(x, r) ==
  /\ job[x] = "idle" /\ orderRider \in {NoRider, r}
  /\ To(x, "accept")
  /\ kind' = [kind EXCEPT ![x] = r]
  /\ orderCopy' = [orderCopy EXCEPT ![x] = orderRider]
  /\ UNCHANGED <<taskVars, orderRider, mine, mapped, found, activated, leaks>>

AcceptSave(x) ==
  /\ job[x] = "accept"
  /\ SavesRider(x, kind[x])
  /\ Ends(x, FALSE)
  /\ UNCHANGED taskVars

StatusRead(x, t) ==
  /\ job[x] = "idle" /\ state[t] # "none"
  /\ To(x, "status")
  /\ mine' = [mine EXCEPT ![x] = t]
  /\ UNCHANGED <<taskVars, orderRider, kind, orderCopy, mapped, found, activated, leaks>>

\* Any status may follow any other; the copy's own status is not written.
StatusSave(x) ==
  /\ job[x] = "status"
  /\ \E s \in {"active", "closed", state[mine[x]]} :
       /\ state' = [state EXCEPT ![mine[x]] = s]
       /\ activated' = [activated EXCEPT ![x] = s = "active" /\ state[mine[x]] # "active"]
  /\ Reconciles(x)
  /\ UNCHANGED <<taskRider, orderRider, leaks>>

CancelOrder ==
  /\ state' = [t \in Tasks |-> IF state[t] = "active" THEN "closed" ELSE state[t]]
  /\ UNCHANGED <<taskRider, orderRider, jobVars, leaks>>

\* Reassigning keeps the task that was updated last, whichever it is.
ReassignRead(x, keep) ==
  /\ job[x] = "idle"
  /\ IF ActiveTasks = {}
       THEN keep = 0 /\ ReadOrder(x, "dispatch")
       ELSE /\ keep \in ActiveTasks
            /\ To(x, "reassign")
            /\ found' = [found EXCEPT ![x] = ActiveTasks \ {keep}]
            /\ UNCHANGED <<taskVars, orderRider, kind, orderCopy, mine, mapped, activated, leaks>>

Cancels(tasks) == state' = [t \in Tasks |-> IF t \in tasks THEN "closed" ELSE state[t]]

\* Replacing the task kept then throws: it asks a Set for "includes".
ReassignCancel(x) ==
  /\ job[x] = "reassign"
  /\ Cancels(found[x])
  /\ Ends(x, FALSE)
  /\ UNCHANGED <<taskRider, orderRider>>

----------------------------------------------------------------------------
(* ensureEntityMappings, also run by itself for a stuck task. *)

Sweep(x) ==
  /\ job[x] = "idle"
  /\ Reconciles(x)
  /\ UNCHANGED <<taskVars, orderRider, activated, leaks>>

\* The two reads of Promise.all, in either order.
MapOrder(x) ==
  /\ job[x] \in {"map", "tasks"} /\ mapped[x] = Unread
  /\ mapped' = [mapped EXCEPT ![x] = orderRider]
  /\ UNCHANGED <<taskVars, orderRider, job, kind, orderCopy, mine, found, activated, leaks>>

MapTasks(x) ==
  /\ job[x] = "map"
  /\ found' = [found EXCEPT ![x] = ActiveTasks]
  /\ To(x, "tasks")
  /\ UNCHANGED <<taskVars, orderRider, kind, orderCopy, mine, mapped, activated, leaks>>

Keep(x) == Max(found[x])

\* Fault seeded for OneActiveTask: only a task of another rider counts as a duplicate.
MapCancelOthers(x) ==
  /\ job[x] = "tasks" /\ mapped[x] # Unread
  /\ IF found[x] = {} THEN UNCHANGED state
       ELSE Cancels({t \in found[x] : taskRider[t] # taskRider[Keep(x)]})
  /\ activated' = [activated EXCEPT ![x] = FALSE]
  /\ To(x, "align")
  /\ UNCHANGED <<taskRider, orderRider, kind, orderCopy, mine, mapped, found, leaks>>

MapCancel(x) ==
  /\ job[x] = "tasks" /\ mapped[x] # Unread
  /\ IF found[x] = {} THEN UNCHANGED state ELSE Cancels(found[x] \ {Keep(x)})
  /\ activated' = [activated EXCEPT ![x] = FALSE]
  /\ To(x, "align")
  /\ UNCHANGED <<taskRider, orderRider, kind, orderCopy, mine, mapped, found, leaks>>

MapAlign(x) ==
  /\ job[x] = "align"
  /\ orderRider' = IF found[x] # {} /\ taskRider[Keep(x)] # mapped[x]
                     THEN taskRider[Keep(x)] ELSE orderRider
  /\ Ends(x, FALSE)
  /\ UNCHANGED taskVars

\* A refused write, no rider available, or a crash.
ExecutionFails(x) ==
  /\ job[x] # "idle"
  /\ Ends(x, activated[x])
  /\ UNCHANGED <<taskVars, orderRider>>

DeliveriesNext ==
  \/ \E x \in Executions :
       \/ \E k \in Creators : ReadOrder(x, k)
       \/ \E t \in Tasks, r \in Riders : CreateTask(x, t, r) \/ CommitDispatch(x, t, r)
       \/ \E r \in Riders : RetryDispatch(x, r) \/ AcceptRead(x, r)
       \/ \E t \in Tasks : StatusRead(x, t)
       \/ \E t \in Tasks \cup {0} : ReassignRead(x, t)
       \/ CheckActive(x) \/ SaveOrder(x) \/ AcceptSave(x) \/ StatusSave(x)
       \/ ReassignCancel(x) \/ Sweep(x) \/ MapOrder(x) \/ MapTasks(x) \/ MapCancel(x)
       \/ MapAlign(x) \/ ExecutionFails(x)
  \/ CancelOrder

DeliveriesSpec == DeliveriesInit /\ [][DeliveriesNext]_deliveryVars

----------------------------------------------------------------------------

\* The type of each variable; a task that exists has a rider.
DeliveriesTypeOK ==
  /\ state \in [Tasks -> {"none", "active", "closed"}]
  /\ taskRider \in [Tasks -> Riders \cup {NoRider}]
  /\ \A t \in Tasks : state[t] # "none" => taskRider[t] \in Riders
  /\ orderRider \in Riders \cup {NoRider}
  /\ job \in [Executions -> {"idle", "ordered", "checked", "created", "accept", "status",
                             "reassign", "map", "tasks", "align"}]
  /\ kind \in [Executions -> Creators \cup {"sweep"} \cup Riders]
  /\ orderCopy \in [Executions -> Riders \cup {NoRider}]
  /\ mine \in [Executions -> 0 .. MaxTasks]
  /\ mapped \in [Executions -> Riders \cup {NoRider, Unread}]
  /\ found \in [Executions -> SUBSET Tasks]
  /\ activated \in [Executions -> BOOLEAN]
  /\ leaks \in 0 .. MaxLeaks

\* However the assignments, status updates and reconciliations overlap, an
\* order has at most one active task besides those that an execution under
\* way has just activated and those left by executions that ended without
\* reconciling.  So when all are done and none has leaked, there is one at
\* most, although the check for an active task and its creation are two steps
\* and every reconciliation cancels what it read, whatever it has become.
OneActiveTask ==
  Cardinality(ActiveTasks) <= 1 + Cardinality({x \in Executions : activated[x]}) + leaks
=============================================================================
