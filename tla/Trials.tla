------------------------------ MODULE Trials -------------------------------
(***************************************************************************)
(* A trial-at-home session and everyone who moves it: the customer, the    *)
(* vendor, admins, logistics and the rider.  Each handler reads the        *)
(* document, checks the status of its copy, and saves the fields it        *)
(* changed.  Mongoose checks the version (__v) only of a save that         *)
(* replaces an array, and advances it when a save replaces an array or     *)
(* pushes to one.  The rider's completion then logs an earning.            *)
(*                                                                         *)
(* The fifteen statuses are eight: open is booked and confirmed; coming is *)
(* assigned, en_route and out_for_trial_delivery; in progress is           *)
(* trial_started, trial_active and trial_in_progress; done is completed    *)
(* and the two conversions.                                                *)
(***************************************************************************)
EXTENDS Integers, FiniteSets

CONSTANTS
  Handlers,     \* executions of the session's handlers at the same time
  Photos,       \* the lists of proof photos a rider may send
  MaxStarts,    \* writes that put the trial in progress
  NoPhotos

ASSUME TrialConstants == MaxStarts \in Nat /\ NoPhotos \notin Photos

VARIABLES
  trial,        \* the status
  approval,
  proofPhotos,
  announced,    \* the rider's one-time events that the document has
  starts,       \* the writes that put it in progress so far
  earned,       \* for each start, the earnings of completions with new photos
  phase,        \* a handler: idle, read, or saved when its earning is due
  plan,         \* what its save will change
  seenStart,    \* the start it read
  fresh         \* __v is still what it read

documentOfTrial == <<trial, approval, proofPhotos, announced, starts>>
trialsVars == <<documentOfTrial, earned, phase, plan, seenStart, fresh>>

Settable == {"draft", "open", "coming", "in_progress", "done", "cancelled"}
Statuses == Settable \cup {"arrived", "no_show"}
Events == {"TrialStarted", "TrialCompleted", "NoShow"}

\* What a save may change: the status unless it is Same, the approval, the
\* photos, another array, and the events.
Same == "same"
Plans ==
  [to : Statuses \cup {Same}, approval : {Same, "approved", "rejected"},
   photos : Photos \cup {NoPhotos, Same}, list : BOOLEAN,
   pushes : BOOLEAN, event : Events \cup {Same}, completes : BOOLEAN]

Change(to) ==
  [to |-> to, approval |-> Same, photos |-> Same, list |-> FALSE,
   pushes |-> TRUE, event |-> Same, completes |-> FALSE]
NoPlan == Change(Same)

TrialsInit ==
  /\ \/ trial \in Settable /\ approval = "approved"
     \/ trial = "cancelled" /\ approval = "rejected"
     \/ trial = "draft" /\ approval = "pending"
  /\ proofPhotos = NoPhotos
  /\ announced = {}
  /\ starts = 0
  /\ earned = [n \in 0 .. MaxStarts |-> 0]
  /\ phase = [h \in Handlers |-> "idle"]
  /\ plan = [h \in Handlers |-> NoPlan]
  /\ seenStart = [h \in Handlers |-> 0]
  /\ fresh = [h \in Handlers |-> TRUE]

Reads(h, p) ==
  /\ phase[h] = "idle"
  /\ phase' = [phase EXCEPT ![h] = "read"]
  /\ plan' = [plan EXCEPT ![h] = p]
  /\ seenStart' = [seenStart EXCEPT ![h] = starts]
  /\ fresh' = [fresh EXCEPT ![h] = TRUE]
  /\ UNCHANGED <<documentOfTrial, earned>>

\* A status equal to the copy's is no change; one of the same class may be.
Sets(to) == IF to = trial THEN {Same, to} ELSE {to}

----------------------------------------------------------------------------
(* The handlers, up to their save. *)

Approve(h) ==
  /\ approval = "pending"
  /\ Reads(h, [Change(IF trial = "draft" THEN "open" ELSE Same) EXCEPT !.approval = "approved"])

Reject(h) ==
  /\ approval = "pending"
  /\ \E to \in Sets("cancelled") : Reads(h, [Change(to) EXCEPT !.approval = "rejected"])

\* The customer's handlers refuse some statuses: modify and cancel the final
\* ones, feedback and the conversions a cancelled session.
Modify(h) ==
  /\ trial \notin {"done", "cancelled"}
  /\ \E s \in Settable \cup {trial}, items \in BOOLEAN :
       \E to \in Sets(s) : Reads(h, [Change(to) EXCEPT !.list = items])

Cancel(h) ==
  /\ trial \notin {"done", "cancelled"}
  /\ Reads(h, Change("cancelled"))

Feedback(h) ==
  /\ trial # "cancelled"
  /\ \E s \in Settable : \E to \in Sets(s) : Reads(h, Change(to))

Convert(h) ==
  /\ trial # "cancelled"
  /\ \E to \in Sets("done"), items \in BOOLEAN : Reads(h, [Change(to) EXCEPT !.list = items])

\* The vendor's, the admins' and the logistics handlers refuse none.
VendorUpdate(h) ==
  \E s \in Settable \cup {trial} : \E to \in Sets(s) : Reads(h, Change(to))

VendorFlow(h) ==
  \E s \in {trial, "open", "coming", "done"}, items \in BOOLEAN :
    \E to \in Sets(s), a \in {Same, "approved"} :
      /\ a = "approved" => s = "open"
      /\ Reads(h, [Change(to) EXCEPT !.list = items, !.approval = a])

AdminUpdate(h) ==
  \E s \in {"coming", "open", "cancelled", "done"}, items \in BOOLEAN :
    /\ items => s = "done"
    /\ \E to \in Sets(s) : Reads(h, [Change(to) EXCEPT !.list = items])

AssignTask(h) == \E to \in Sets("coming") : Reads(h, Change(to))

TaskStatus(h) ==
  \E to \in {Same} \cup Sets("in_progress") \cup Sets("done") : Reads(h, Change(to))

\* The rider's handlers.  Each event is pushed unless the copy has it.
Announces(to, e) ==
  [Change(to) EXCEPT !.pushes = e \notin announced, !.event = e]

Arrive(h) ==
  /\ trial = "coming"
  /\ Reads(h, [Change("arrived") EXCEPT !.pushes = FALSE])

Start(h) ==
  /\ trial = "arrived"
  /\ Reads(h, Announces("in_progress", "TrialStarted"))

NoShow(h, photos) ==
  /\ trial = "arrived"
  /\ Reads(h, [Announces("no_show", "NoShow")
                 EXCEPT !.photos = IF photos = proofPhotos THEN Same ELSE photos])

\* Photos are needed unless everything is kept; other events may be new.
Complete(h, photos) ==
  /\ trial = "in_progress"
  /\ \E more \in BOOLEAN :
       Reads(h, [Announces("done", "TrialCompleted")
                   EXCEPT !.photos = IF photos = proofPhotos THEN Same ELSE photos,
                          !.pushes = @ \/ more,
                          !.completes = TRUE])

----------------------------------------------------------------------------
(* The save and what follows. *)

Replaces(p) == p.list \/ p.photos # Same
Restarts(p) == p.to = "in_progress"

Done(h) ==
  /\ phase' = [phase EXCEPT ![h] = "idle"]
  /\ plan' = [plan EXCEPT ![h] = NoPlan]
  /\ seenStart' = [seenStart EXCEPT ![h] = 0]

Forget(h) == Done(h) /\ fresh' = [fresh EXCEPT ![h] = TRUE]

\* Fault seeded for EarnsOncePerStart: the photos are pushed one by one, so the
\* version advances and is not checked.
CanSaveAppended(h) == plan[h].list => fresh[h]

\* The save is not refused by the version check.
CanSave(h) == Replaces(plan[h]) => fresh[h]

Save(h) ==
  LET p == plan[h] IN
  /\ phase[h] = "read" /\ CanSave(h)
  /\ Restarts(p) => starts < MaxStarts
  /\ trial' = IF p.to = Same THEN trial ELSE p.to
  /\ approval' = IF p.approval = Same THEN approval ELSE p.approval
  /\ proofPhotos' = IF p.photos = Same THEN proofPhotos ELSE p.photos
  /\ announced' = IF p.event = Same THEN announced ELSE announced \cup {p.event}
  /\ starts' = IF Restarts(p) THEN starts + 1 ELSE starts
  /\ fresh' = [g \in Handlers |-> g = h \/ (fresh[g] /\ ~p.pushes /\ ~Replaces(p))]
  /\ IF p.completes
       THEN phase' = [phase EXCEPT ![h] = "saved"] /\ UNCHANGED <<plan, seenStart>>
       ELSE Done(h)
  /\ UNCHANGED earned

VersionError(h) ==
  /\ phase[h] = "read" /\ ~CanSave(h)
  /\ Forget(h)
  /\ UNCHANGED <<documentOfTrial, earned>>

\* Two earnings, if items were kept; one is recorded here.
LogEarnings(h) ==
  /\ phase[h] = "saved"
  /\ earned' = IF plan[h].photos = Same THEN earned ELSE [earned EXCEPT ![seenStart[h]] = @ + 1]
  /\ Forget(h)
  /\ UNCHANGED documentOfTrial

\* A refused write, or a crash: after the save, the earning is never logged.
HandlerFails(h) ==
  /\ phase[h] # "idle"
  /\ Forget(h)
  /\ UNCHANGED <<documentOfTrial, earned>>

TrialsNext ==
  \E h \in Handlers :
    \/ Approve(h) \/ Reject(h) \/ Modify(h) \/ Cancel(h) \/ Feedback(h) \/ Convert(h)
    \/ VendorUpdate(h) \/ VendorFlow(h) \/ AdminUpdate(h) \/ AssignTask(h) \/ TaskStatus(h)
    \/ Arrive(h) \/ Start(h)
    \/ \E photos \in Photos \cup {NoPhotos} : NoShow(h, photos) \/ Complete(h, photos)
    \/ Save(h) \/ VersionError(h) \/ LogEarnings(h) \/ HandlerFails(h)

TrialsSpec == TrialsInit /\ [][TrialsNext]_trialsVars

----------------------------------------------------------------------------

\* The type of each variable.
TrialsTypeOK ==
  /\ trial \in Statuses
  /\ approval \in {"pending", "approved", "rejected"}
  /\ proofPhotos \in Photos \cup {NoPhotos}
  /\ announced \subseteq Events
  /\ starts \in 0 .. MaxStarts
  /\ earned \in [0 .. MaxStarts -> Nat]
  /\ phase \in [Handlers -> {"idle", "read", "saved"}]
  /\ plan \in [Handlers -> Plans]
  /\ seenStart \in [Handlers -> 0 .. MaxStarts]
  /\ fresh \in [Handlers -> BOOLEAN]

\* For one start of a trial the rider earns at most once by completions that
\* bring new proof photos, however many completions are sent at once: each
\* has read a trial in progress, but replacing the photos checks the version,
\* and whatever ends or restarts the trial in between has advanced it.  A
\* completion without new photos checks nothing and is not counted here.
EarnsOncePerStart == \A n \in 0 .. MaxStarts : earned[n] <= 1
=============================================================================
