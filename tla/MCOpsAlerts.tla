---------------------------- MODULE MCOpsAlerts ----------------------------
(***************************************************************************)
(* OpsAlerts for TLC: both alerts are on one entity, and the second is     *)
(* raised after the first.  One lapse, crash or fault happens; Focus leaves *)
(* out what combines it with timers and several runners at work, and lets  *)
(* two alerts meet before either has failed.                               *)
(***************************************************************************)
EXTENDS OpsAlerts, TLC

CONSTANTS a1, a2, e1, u1

MCUidOf == [l \in Admins |-> u1]
MCEntityOf == [a \in Alerts |-> e1]
Symmetry == Permutations(Lanes)

Busy == Cardinality({l \in Runners : at[l] # "idle"})
Still == \A t \in Timers : cycle[t] = "idle"

Focus ==
  /\ lapses + crashes + faults <= 1
  /\ Busy = 3 \/ (Busy = 2 /\ lapses > 0) => Still
  /\ crashes + faults > 0 => Busy <= 1
  /\ status[a1] = "absent" => status[a2] = "absent"
  /\ status[a2] # "absent" =>
       /\ \A a \in Alerts : retryCount[a] = 0 /\ later[a] = 0 /\ persists[a]
       /\ Busy > 0 => Still

FocusLive ==
  /\ lapses + crashes + faults <= 1
  /\ crashes > 0 => \E l \in Lanes : at[l] = "idle"
=============================================================================
