---------------------------- MODULE EffectQueue ----------------------------
(***************************************************************************)
(* What the payment outbox promises to those who rely on it.  A submitter  *)
(* commits a job with its order and may produce its effects itself;        *)
(* consumers take the job, a bounded number of times, and produce what is  *)
(* missing; an operator may reopen a job that was given up.  However they  *)
(* interleave:                                                             *)
(*  - no effect comes before the commit, one of Once comes once;           *)
(*  - what a job records as done is done, and is never forgotten;          *)
(*  - a job is finished only when all its effects were produced, or on the *)
(*    word of its submitter, which a submitter in Sworn gives only when    *)
(*    its own effects exist;                                               *)
(*  - a job is given up only after GiveUpAt tries, and only an operator    *)
(*    reopens it; a job that is forgotten was finished, and stays so.      *)
(***************************************************************************)
EXTENDS Naturals

CONSTANTS Jobs, Sworn, Effects, Once, Limit, GiveUpAt

VARIABLES
  phase, tries,
  own,        \* the submitter's own effects exist
  produced,   \* how often each effect was produced by consumers
  recorded    \* the effects that the job has on record

effectVars == <<phase, tries, own, produced, recorded>>

Phases == {"absent", "waiting", "taken", "done", "dead", "forgotten"}

EffectsInit ==
  /\ phase = [j \in Jobs |-> "absent"]
  /\ tries = [j \in Jobs |-> 0]
  /\ own = [j \in Jobs |-> FALSE]
  /\ produced = [j \in Jobs |-> [t \in Effects |-> 0]]
  /\ recorded = [j \in Jobs |-> {}]

Move(j, p) == phase' = [phase EXCEPT ![j] = p] /\ UNCHANGED <<own, produced, recorded>>

Alive(j) == phase[j] \notin {"absent", "forgotten"}
AllProduced(j) == \A t \in Effects : produced[j][t] > 0

-----------------------------------------------------------------------------
(* The submitter.                                                          *)

Commit(j) == phase[j] = "absent" /\ Move(j, "waiting") /\ UNCHANGED tries

Vouch(j) ==
  /\ phase[j] # "absent"
  /\ own' = [own EXCEPT ![j] = TRUE]
  /\ UNCHANGED <<phase, tries, produced, recorded>>

\* It takes its word back, which then no finished job rests on.
Retract(j) ==
  /\ phase[j] = "done" => AllProduced(j)
  /\ own' = [own EXCEPT ![j] = FALSE]
  /\ UNCHANGED <<phase, tries, produced, recorded>>

Report(j) ==
  /\ Alive(j) /\ (j \in Sworn => own[j])
  /\ Move(j, "done") /\ UNCHANGED tries

\* Submitters, consumers and operators alike may ask for another try; a job
\* that has had its tries may then be given up.
Return(j) ==
  /\ Alive(j)
  /\ \/ Move(j, "waiting")
     \/ tries[j] >= GiveUpAt /\ Move(j, "dead")
  /\ UNCHANGED tries

-----------------------------------------------------------------------------
(* The consumers and the operator.                                         *)

Take(j) ==
  /\ phase[j] = "waiting" /\ tries[j] < Limit
  /\ Move(j, "taken")
  /\ tries' = [tries EXCEPT ![j] = @ + 1]

Produce(j, t) ==
  /\ phase[j] # "absent"
  /\ t \in Once => produced[j][t] = 0
  /\ produced' = [produced EXCEPT ![j][t] = @ + 1]
  /\ UNCHANGED <<phase, tries, own, recorded>>

Record(j) ==
  /\ phase[j] = "taken"
  /\ \E S \in SUBSET {t \in Effects : produced[j][t] > 0} :
       /\ recorded[j] \subseteq S
       /\ recorded' = [recorded EXCEPT ![j] = S]
  /\ UNCHANGED <<phase, tries, own, produced>>

Finish(j) ==
  /\ phase[j] = "taken" /\ AllProduced(j)
  /\ Move(j, "done") /\ UNCHANGED tries

\* A consumer on its way out hands back all it has in one step.
HandBack ==
  /\ \E S \in SUBSET {j \in Jobs : phase[j] = "taken"} :
       phase' = [j \in Jobs |-> IF j \in S THEN "waiting" ELSE phase[j]]
  /\ UNCHANGED <<tries, own, produced, recorded>>

Reopen(j) == phase[j] = "dead" /\ Move(j, "taken") /\ UNCHANGED tries

Forget(j) == phase[j] = "done" /\ Move(j, "forgotten") /\ UNCHANGED tries

EffectsNext ==
  \/ \E j \in Jobs :
       \/ Commit(j) \/ Vouch(j) \/ Retract(j) \/ Report(j) \/ Return(j)
       \/ Take(j) \/ Record(j) \/ Finish(j) \/ Reopen(j) \/ Forget(j)
       \/ \E t \in Effects : Produce(j, t)
  \/ HandBack

EffectsSpec == EffectsInit /\ [][EffectsNext]_effectVars
=============================================================================
