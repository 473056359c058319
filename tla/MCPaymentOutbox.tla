-------------------------- MODULE MCPaymentOutbox --------------------------
(***************************************************************************)
(* PaymentOutbox for TLC: two of the four targets, one whose collection    *)
(* has no unique index (audit) and one whose has (settlement).             *)
(***************************************************************************)
EXTENDS PaymentOutbox, TLC

MCTargetOrder == <<"audit", "settlement">>
MCUniqueTargets == {"settlement"}

WorkerSymmetry == Permutations(Workers)
=============================================================================
