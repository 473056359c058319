------------------------------ MODULE JobQueue ------------------------------
(***************************************************************************)
(* What a durable job queue promises to those who submit to it, whatever   *)
(* the number of consumers: a job is taken by one consumer at a time and   *)
(* at most Limit times, a finished job is never taken again, a job is given*)
(* up only after GiveUpAt tries, and only finished jobs are forgotten.     *)
(***************************************************************************)
EXTENDS Naturals

CONSTANTS Jobs, Limit, GiveUpAt

VARIABLES phase, tries

jobVars == <<phase, tries>>

Phases == {"absent", "waiting", "taken", "done", "dead", "forgotten"}

JobsInit == phase = [j \in Jobs |-> "absent"] /\ tries = [j \in Jobs |-> 0]

\* A job whose record is forgotten is as new as one that never was.
Submit(j) ==
  /\ phase[j] \in {"absent", "forgotten"}
  /\ phase' = [phase EXCEPT ![j] = "waiting"]
  /\ tries' = [tries EXCEPT ![j] = 0]

Take(j) ==
  /\ phase[j] = "waiting" /\ tries[j] < Limit
  /\ phase' = [phase EXCEPT ![j] = "taken"]
  /\ tries' = [tries EXCEPT ![j] = @ + 1]

Finish(j) ==
  /\ phase[j] = "taken"
  /\ phase' = [phase EXCEPT ![j] = "done"]
  /\ UNCHANGED tries

GiveUp(j) ==
  /\ phase[j] = "taken" /\ tries[j] >= GiveUpAt
  /\ phase' = [phase EXCEPT ![j] = "dead"]
  /\ UNCHANGED tries

Forget(j) ==
  /\ phase[j] = "done"
  /\ phase' = [phase EXCEPT ![j] = "forgotten"]
  /\ UNCHANGED tries

\* A consumer on its way out hands back all it has in one step.
GiveBack ==
  /\ \E S \in SUBSET {j \in Jobs : phase[j] = "taken"} :
       phase' = [j \in Jobs |-> IF j \in S THEN "waiting" ELSE phase[j]]
  /\ UNCHANGED tries

JobsNext ==
  \/ \E j \in Jobs : Submit(j) \/ Take(j) \/ Finish(j) \/ GiveUp(j) \/ Forget(j)
  \/ GiveBack

JobsSpec == JobsInit /\ [][JobsNext]_jobVars
=============================================================================
