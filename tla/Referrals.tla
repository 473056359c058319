----------------------------- MODULE Referrals -----------------------------
(***************************************************************************)
(* Referral rewards.  A friend applies a referrer's code: a record of the  *)
(* pair, then referredBy on the friend's account.  Every paid order of the *)
(* friend runs processReferralRewardIfEligible: it reads the friend, the   *)
(* record and the referrer, marks the record rewarded, and saves both      *)
(* accounts with balances computed from what it had read.                  *)
(*                                                                         *)
(* Every reward is one unit; friends refer nobody themselves.              *)
(***************************************************************************)
EXTENDS Integers, FiniteSets

CONSTANTS
  Friends, Referrers,
  Applications,   \* executions of applyReferralCode at the same time
  Rewards,        \* executions of processReferralRewardIfEligible
  MaxLost,        \* executions that crash
  Nobody

ASSUME ReferralConstants ==
  /\ IsFiniteSet(Friends) /\ IsFiniteSet(Referrers)
  /\ Nobody \notin Friends \cup Referrers
  /\ MaxLost \in Nat

VARIABLES
  referredBy,       \* of each friend's account
  records,          \* <<referrer, friend>>: the pairs that have a record
  rewardGiven,      \* the pairs whose record says the reward was given
  friendBalance, referrerBalance,
  applying, code, applicant,           \* an application and its request
  stage, friend, referrer,             \* a reward's position, friend, referrer
  friendCopy, referrerCopy,            \* the balances it read
  unsaved,                             \* the accounts it has still to save
  lost                                 \* crashes so far

recordVars == <<records, rewardGiven>>
balanceVars == <<friendBalance, referrerBalance>>
applyVars == <<applying, code, applicant>>
rewardVars == <<stage, friend, referrer, friendCopy, referrerCopy, unsaved>>
referralVars == <<referredBy, recordVars, balanceVars, applyVars, rewardVars, lost>>

ReferralsInit ==
  /\ referredBy = [f \in Friends |-> Nobody]
  /\ records = {} /\ rewardGiven = {}
  /\ friendBalance = [f \in Friends |-> 0]
  /\ referrerBalance = [r \in Referrers |-> 0]
  /\ applying = [a \in Applications |-> "idle"]
  /\ code = [a \in Applications |-> Nobody]
  /\ applicant = [a \in Applications |-> Nobody]
  /\ stage = [w \in Rewards |-> "idle"]
  /\ friend = [w \in Rewards |-> Nobody]
  /\ referrer = [w \in Rewards |-> Nobody]
  /\ friendCopy = [w \in Rewards |-> 0]
  /\ referrerCopy = [w \in Rewards |-> 0]
  /\ unsaved = [w \in Rewards |-> {}]
  /\ lost = 0

----------------------------------------------------------------------------
(* applyReferralCode *)

ApplyTo(a, s, r, f) ==
  /\ applying' = [applying EXCEPT ![a] = s]
  /\ code' = [code EXCEPT ![a] = r]
  /\ applicant' = [applicant EXCEPT ![a] = f]

ApplyRead(a, r, f) ==
  /\ applying[a] = "idle"
  /\ referredBy[f] = Nobody
  /\ ApplyTo(a, "checked", r, f)
  /\ UNCHANGED <<referredBy, recordVars, balanceVars, rewardVars, lost>>

ApplyCreate(a) ==
  /\ applying[a] = "checked"
  /\ <<code[a], applicant[a]>> \notin records
  /\ records' = records \cup {<<code[a], applicant[a]>>}
  /\ ApplyTo(a, "created", code[a], applicant[a])
  /\ UNCHANGED <<referredBy, rewardGiven, balanceVars, rewardVars, lost>>

\* The record is there already, found or refused by its unique index.
ApplyLinked(a) ==
  /\ applying[a] = "checked"
  /\ <<code[a], applicant[a]>> \in records
  /\ ApplyTo(a, "idle", Nobody, Nobody)
  /\ UNCHANGED <<referredBy, recordVars, balanceVars, rewardVars, lost>>

ApplySave(a) ==
  /\ applying[a] = "created"
  /\ referredBy' = [referredBy EXCEPT ![applicant[a]] = code[a]]
  /\ ApplyTo(a, "idle", Nobody, Nobody)
  /\ UNCHANGED <<recordVars, balanceVars, rewardVars, lost>>

ApplyCrash(a) ==
  /\ applying[a] # "idle" /\ lost < MaxLost
  /\ lost' = lost + 1
  /\ ApplyTo(a, "idle", Nobody, Nobody)
  /\ UNCHANGED <<referredBy, recordVars, balanceVars, rewardVars>>

----------------------------------------------------------------------------
(* processReferralRewardIfEligible *)

Record(w) == <<referrer[w], friend[w]>>

Stop(w) ==
  /\ stage' = [stage EXCEPT ![w] = "idle"]
  /\ friend' = [friend EXCEPT ![w] = Nobody]
  /\ referrer' = [referrer EXCEPT ![w] = Nobody]
  /\ friendCopy' = [friendCopy EXCEPT ![w] = 0]
  /\ referrerCopy' = [referrerCopy EXCEPT ![w] = 0]
  /\ unsaved' = [unsaved EXCEPT ![w] = {}]

ReadActor(w, f) ==
  /\ stage[w] = "idle"
  /\ referredBy[f] # Nobody
  /\ stage' = [stage EXCEPT ![w] = "actor"]
  /\ friend' = [friend EXCEPT ![w] = f]
  /\ referrer' = [referrer EXCEPT ![w] = referredBy[f]]
  /\ friendCopy' = [friendCopy EXCEPT ![w] = friendBalance[f]]
  /\ UNCHANGED <<referredBy, recordVars, balanceVars, applyVars, referrerCopy, unsaved, lost>>

ReadRecord(w) ==
  /\ stage[w] = "actor"
  /\ \/ /\ Record(w) \in records \ rewardGiven
        /\ stage' = [stage EXCEPT ![w] = "record"]
        /\ UNCHANGED <<friend, referrer, friendCopy, referrerCopy, unsaved>>
     \/ /\ Record(w) \notin records \ rewardGiven
        /\ Stop(w)
  /\ UNCHANGED <<referredBy, recordVars, balanceVars, applyVars, lost>>

ReadReferrer(w) ==
  /\ stage[w] = "record"
  /\ stage' = [stage EXCEPT ![w] = "referrer"]
  /\ referrerCopy' = [referrerCopy EXCEPT ![w] = referrerBalance[referrer[w]]]
  /\ UNCHANGED <<referredBy, recordVars, balanceVars, applyVars,
                 friend, referrer, friendCopy, unsaved, lost>>

SaveRecord(w) ==
  /\ stage[w] = "referrer"
  /\ rewardGiven' = rewardGiven \cup {Record(w)}
  /\ stage' = [stage EXCEPT ![w] = "accounts"]
  /\ unsaved' = [unsaved EXCEPT ![w] = {"friend", "referrer"}]
  /\ UNCHANGED <<referredBy, records, balanceVars, applyVars,
                 friend, referrer, friendCopy, referrerCopy, lost>>

\* Fault seeded for FriendPaidOnce: the friend's balance is read when it is written.
SaveAccountAdds(w, u) ==
  /\ stage[w] = "accounts" /\ u \in unsaved[w]
  /\ \/ /\ u = "friend"
        /\ friendBalance' = [friendBalance EXCEPT ![friend[w]] = @ + 1]
        /\ UNCHANGED referrerBalance
     \/ /\ u = "referrer"
        /\ referrerBalance' = [referrerBalance EXCEPT ![referrer[w]] = referrerCopy[w] + 1]
        /\ UNCHANGED friendBalance
  /\ unsaved' = [unsaved EXCEPT ![w] = @ \ {u}]
  /\ UNCHANGED <<referredBy, recordVars, applyVars, stage, friend, referrer,
                 friendCopy, referrerCopy, lost>>

\* The two saves of Promise.all, in either order.
SaveAccount(w, u) ==
  /\ stage[w] = "accounts" /\ u \in unsaved[w]
  /\ \/ /\ u = "friend"
        /\ friendBalance' = [friendBalance EXCEPT ![friend[w]] = friendCopy[w] + 1]
        /\ UNCHANGED referrerBalance
     \/ /\ u = "referrer"
        /\ referrerBalance' = [referrerBalance EXCEPT ![referrer[w]] = referrerCopy[w] + 1]
        /\ UNCHANGED friendBalance
  /\ unsaved' = [unsaved EXCEPT ![w] = @ \ {u}]
  /\ UNCHANGED <<referredBy, recordVars, applyVars, stage, friend, referrer,
                 friendCopy, referrerCopy, lost>>

Rewarded(w) ==
  /\ stage[w] = "accounts" /\ unsaved[w] = {}
  /\ Stop(w)
  /\ UNCHANGED <<referredBy, recordVars, balanceVars, applyVars, lost>>

RewardCrash(w) ==
  /\ stage[w] # "idle" /\ lost < MaxLost
  /\ lost' = lost + 1
  /\ Stop(w)
  /\ UNCHANGED <<referredBy, recordVars, balanceVars, applyVars>>

ReferralsNext ==
  \/ \E a \in Applications :
       \/ \E r \in Referrers, f \in Friends : ApplyRead(a, r, f)
       \/ ApplyCreate(a) \/ ApplyLinked(a) \/ ApplySave(a) \/ ApplyCrash(a)
  \/ \E w \in Rewards :
       \/ \E f \in Friends : ReadActor(w, f)
       \/ ReadRecord(w) \/ ReadReferrer(w) \/ SaveRecord(w)
       \/ \E u \in {"friend", "referrer"} : SaveAccount(w, u)
       \/ Rewarded(w) \/ RewardCrash(w)

ReferralsSpec == ReferralsInit /\ [][ReferralsNext]_referralVars

----------------------------------------------------------------------------

Given(f) == {r \in Referrers : <<r, f>> \in rewardGiven}

\* The type of each variable, and that a reward marked given has a record.
ReferralsTypeOK ==
  /\ referredBy \in [Friends -> Referrers \cup {Nobody}]
  /\ records \subseteq Referrers \X Friends
  /\ rewardGiven \subseteq records
  /\ friendBalance \in [Friends -> Nat] /\ referrerBalance \in [Referrers -> Nat]
  /\ applying \in [Applications -> {"idle", "checked", "created"}]
  /\ code \in [Applications -> Referrers \cup {Nobody}]
  /\ applicant \in [Applications -> Friends \cup {Nobody}]
  /\ \A a \in Applications : applying[a] # "idle" => code[a] # Nobody /\ applicant[a] # Nobody
  /\ stage \in [Rewards -> {"idle", "actor", "record", "referrer", "accounts"}]
  /\ friend \in [Rewards -> Friends \cup {Nobody}]
  /\ referrer \in [Rewards -> Referrers \cup {Nobody}]
  /\ \A w \in Rewards : stage[w] # "idle" => friend[w] # Nobody /\ referrer[w] # Nobody
  /\ friendCopy \in [Rewards -> Nat] /\ referrerCopy \in [Rewards -> Nat]
  /\ unsaved \in [Rewards -> SUBSET {"friend", "referrer"}]
  /\ lost \in Nat

\* A friend is never paid more than once for a record, however many of the
\* friend's orders are paid at the same time, although the record is checked
\* and marked in two steps and the balance is written from a copy: the copy is
\* older than the check, so a second payer writes the same balance again.
FriendPaidOnce ==
  \A f \in Friends : friendBalance[f] <= Cardinality(Given(f))
=============================================================================
