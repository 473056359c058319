--------------------------- MODULE Service_proofs ---------------------------
(***************************************************************************)
(* Sessions: for any sessions, refreshes and sign-outs, after a sign-out   *)
(* that named the session, or presented its token, no token of it is       *)
(* accepted.  And the composition of the service's smaller parts, in which *)
(* every part behaves as its own specification says, so that what is       *)
(* proved of the parts holds of the composition.                           *)
(***************************************************************************)
EXTENDS MCService, Checkout_proofs, Fulfilment_proofs

-----------------------------------------------------------------------------
(* A session that was signed out was created; the current token of a       *)
(* sign-out that has not looked yet is still the session's; and what       *)
(* refuses a signed out session lasts: it is gone for good, revoked for    *)
(* good, or expired while no refresh that found it could extend it.        *)
SignedOutExists == \A s \in signedOut : generated[s] # 0

CurrentIsTheirs ==
  \A o \in SignOuts :
    leaving[o] = "asked" /\ current[o] /\ presents[o] # 0 => tokenHash[ends[o]] = presents[o]

RefusedForGood ==
  \A s \in signedOut : s \notin present \/ revoked[s] \/ (expired[s] /\ ~Refreshed(s))

SessionsInv == SessionsTypeOK /\ SignedOutExists /\ CurrentIsTheirs /\ RefusedForGood

\* At the start nothing is signed in.
LEMMA SessionsStart == SessionsInit => SessionsInv
BY SessionConstants DEF SessionsInit, SessionsInv, SessionsTypeOK, SignedOutExists,
   CurrentIsTheirs, RefusedForGood

\* Every step keeps the types: tokens are numbered up to MaxTokens, and an
\* execution under way is about a session that was created.
LEMMA SessionsTypeStep ==
  ASSUME SessionsTypeOK, [SessionsNext]_sessionVars
  PROVE SessionsTypeOK'
<1> USE SessionConstants DEF SessionsTypeOK
<1>1. ASSUME NEW s \in SessionIds, CreateSession(s) PROVE SessionsTypeOK'
  BY <1>1 DEF CreateSession, signOutVars
<1>2. ASSUME NEW s \in SessionIds, NEW r \in Refreshes, NEW t \in 1 .. generated[s], RefreshRead(r, s, t)
      PROVE SessionsTypeOK'
  BY <1>2 DEF RefreshRead, IsActive, documentVars, signOutVars
<1>3. ASSUME NEW r \in Refreshes, RefreshSave(r) PROVE SessionsTypeOK'
  BY <1>3 DEF RefreshSave
<1>4. ASSUME NEW r \in Refreshes, RefreshFails(r) PROVE SessionsTypeOK'
  BY <1>4 DEF RefreshFails, documentVars, signOutVars
<1>5. ASSUME NEW s \in SessionIds, NEW o \in SignOuts, NEW t \in 0 .. generated[s], SignOut(o, s, t)
      PROVE SessionsTypeOK'
  BY <1>5 DEF SignOut, documentVars
<1>6. ASSUME NEW o \in SignOuts, SignOutRead(o) PROVE SessionsTypeOK'
  BY <1>6 DEF SignOutRead, documentVars
<1>7. ASSUME NEW o \in SignOuts, SignOutFindsNothing(o) PROVE SessionsTypeOK'
  BY <1>7 DEF SignOutFindsNothing, SignOutDone, documentVars
<1>8. ASSUME NEW o \in SignOuts, SignOutSave(o) PROVE SessionsTypeOK'
  BY <1>8 DEF SignOutSave, SignOutDone
<1>9. ASSUME NEW o \in SignOuts, SignOutFails(o) PROVE SessionsTypeOK'
  BY <1>9 DEF SignOutFails, SignOutDone, documentVars
<1>10. ASSUME NEW s \in SessionIds, Expires(s) PROVE SessionsTypeOK'
  BY <1>10 DEF Expires, signOutVars
<1>11. ASSUME NEW s \in SessionIds, CleanupExpiredSessions(s) PROVE SessionsTypeOK'
  BY <1>11 DEF CleanupExpiredSessions, signOutVars
<1>12. CASE UNCHANGED sessionVars
  BY <1>12 DEF sessionVars, documentVars, signOutVars
<1>13. QED
  BY <1>1, <1>2, <1>3, <1>4, <1>5, <1>6, <1>7, <1>8, <1>9, <1>10, <1>11, <1>12 DEF SessionsNext

\* Nor does a step undo what refuses a signed out session.  A refresh that
\* saves belongs to a session that is not signed out, or is revoked already;
\* a sign-out that finds nothing has, with its token still current, found a
\* session that is gone, revoked or expired.
LEMMA SessionsStep ==
  ASSUME SessionsInv, [SessionsNext]_sessionVars
  PROVE SessionsInv'
<1> USE DEF SessionsInv
<1>0. SessionsTypeOK'
  BY SessionsTypeStep
<1> DEFINE Rest == SignedOutExists /\ CurrentIsTheirs /\ RefusedForGood
<1> SUFFICES Rest'
  BY <1>0
<1> USE SessionConstants DEF Rest, SessionsTypeOK, SignedOutExists, CurrentIsTheirs, RefusedForGood, Refreshed
<1>1. ASSUME NEW s \in SessionIds, CreateSession(s) PROVE Rest'
  BY <1>1 DEF CreateSession, signOutVars
<1>2. ASSUME NEW s \in SessionIds, NEW r \in Refreshes, NEW t \in 1 .. generated[s], RefreshRead(r, s, t)
      PROVE Rest'
  BY <1>2 DEF RefreshRead, IsActive, documentVars, signOutVars
<1>3. ASSUME NEW r \in Refreshes, RefreshSave(r) PROVE Rest'
  <2>1. SignedOutExists'
    BY <1>3 DEF RefreshSave
  <2>2. CurrentIsTheirs'
    BY <1>3 DEF RefreshSave
  <2>3. RefusedForGood'
    <3> SUFFICES ASSUME NEW s \in signedOut
                 PROVE s \notin present \/ revoked[s] \/ (expired'[s] /\ ~Refreshed(s)')
      BY <1>3 DEF RefreshSave
    <3>1. CASE s = refreshing[r]
      BY <3>1, <1>3 DEF RefreshSave
    <3>2. CASE s # refreshing[r]
      <4>1. s \notin present \/ revoked[s] \/ (expired[s] /\ \A x \in Refreshes : refreshing[x] # s)
        OBVIOUS
      <4>2. expired'[s] = expired[s]
        BY <3>2, <1>3 DEF RefreshSave
      <4>3. \A x \in Refreshes : refreshing'[x] = s => refreshing[x] = s
        BY <3>2, <1>3 DEF RefreshSave
      <4>4. QED BY <4>1, <4>2, <4>3
    <3>3. QED BY <3>1, <3>2
  <2>4. QED BY <2>1, <2>2, <2>3
<1>4. ASSUME NEW r \in Refreshes, RefreshFails(r) PROVE Rest'
  <2>1. \A s \in SessionIds, x \in Refreshes : refreshing'[x] = s => refreshing[x] = s
    BY <1>4 DEF RefreshFails
  <2>2. UNCHANGED <<documentVars, signOutVars, signedOut>>
    BY <1>4 DEF RefreshFails
  <2>3. QED BY <2>1, <2>2 DEF documentVars, signOutVars
<1>5. ASSUME NEW s \in SessionIds, NEW o \in SignOuts, NEW t \in 0 .. generated[s], SignOut(o, s, t)
      PROVE Rest'
  BY <1>5 DEF SignOut, documentVars
<1>6. ASSUME NEW o \in SignOuts, SignOutRead(o) PROVE Rest'
  BY <1>6 DEF SignOutRead, documentVars
<1>7. ASSUME NEW o \in SignOuts, SignOutFindsNothing(o) PROVE Rest'
  <2>1. CurrentIsTheirs'
    BY <1>7 DEF SignOutFindsNothing, SignOutDone, documentVars
  <2>2. ASSUME current[o], ~Refreshed(ends[o])
        PROVE ends[o] \notin present \/ revoked[ends[o]] \/ expired[ends[o]]
    BY <1>7, <2>2 DEF SignOutFindsNothing, SignOutFinds, IsActive
  <2>3. SignedOutExists' /\ RefusedForGood'
    BY <1>7, <2>2 DEF SignOutFindsNothing, SignOutDone, documentVars
  <2>4. QED BY <2>1, <2>3
<1>8. ASSUME NEW o \in SignOuts, SignOutSave(o) PROVE Rest'
  BY <1>8 DEF SignOutSave, SignOutDone
<1>9. ASSUME NEW o \in SignOuts, SignOutFails(o) PROVE Rest'
  BY <1>9 DEF SignOutFails, SignOutDone, documentVars
<1>10. ASSUME NEW s \in SessionIds, Expires(s) PROVE Rest'
  BY <1>10 DEF Expires, signOutVars
<1>11. ASSUME NEW s \in SessionIds, CleanupExpiredSessions(s) PROVE Rest'
  BY <1>11 DEF CleanupExpiredSessions, signOutVars
<1>12. CASE UNCHANGED sessionVars
  BY <1>12 DEF sessionVars, documentVars, signOutVars
<1>13. QED
  BY <1>1, <1>2, <1>3, <1>4, <1>5, <1>6, <1>7, <1>8, <1>9, <1>10, <1>11, <1>12 DEF SessionsNext

\* The invariant holds in every reachable state.
THEOREM SessionsInvariance == SessionsSpec => []SessionsInv
<1>1. SessionsInit => SessionsInv
  BY SessionsStart
<1>2. SessionsInv /\ [SessionsNext]_sessionVars => SessionsInv'
  BY SessionsStep
<1>3. QED BY <1>1, <1>2, PTL DEF SessionsSpec

\* The documents of sessions, and what executions remember of them, are well
\* typed: no more tokens than were generated, no execution about a session
\* that was never created (authSessionService.js:108-304).
THEOREM SessionsTypeCorrect == SessionsSpec => []SessionsTypeOK
<1>1. SessionsInv => SessionsTypeOK
  BY DEF SessionsInv
<1>2. QED BY <1>1, SessionsInvariance, PTL

\* No token of a signed out session is accepted, whatever refreshes were
\* under way (authSessionService.js:165-282).
THEOREM SignedOutIsRefusedAlways == SessionsSpec => []SignedOutIsRefused
<1>1. SessionsInv => SignedOutIsRefused
  BY DEF SessionsInv, RefusedForGood, SignedOutIsRefused, Accepted
<1>2. QED BY <1>1, SessionsInvariance, PTL
-----------------------------------------------------------------------------
(* The parts side by side.                                                 *)

\* A step of the composition is a step of one part, and no other part moves.
LEMMA PartStep ==
  ASSUME [MCNext]_serviceVars
  PROVE  /\ [CouponsNext]_couponVars /\ [ReferralsNext]_referralVars
         /\ [SessionsNext]_sessionVars /\ [TrialsNext]_trialsVars
         /\ [DeliveriesNext]_deliveryVars /\ [InvoicesNext]_invoicesVars
<1>1. CASE UNCHANGED serviceVars
  BY <1>1 DEF serviceVars
<1>2. CASE MCNext
  BY <1>2 DEF MCNext, Others
<1>3. QED
  BY <1>1, <1>2

LEMMA PartsBehave ==
  MCSpec => /\ CouponsSpec /\ ReferralsSpec /\ SessionsSpec
            /\ TrialsSpec /\ DeliveriesSpec /\ InvoicesSpec
<1>1. MCInit => /\ CouponsInit /\ ReferralsInit /\ SessionsInit
                /\ TrialsInit /\ DeliveriesInit /\ InvoicesInit
  BY DEF MCInit
<1>2. [MCNext]_serviceVars =>
         /\ [CouponsNext]_couponVars /\ [ReferralsNext]_referralVars
         /\ [SessionsNext]_sessionVars /\ [TrialsNext]_trialsVars
         /\ [DeliveriesNext]_deliveryVars /\ [InvoicesNext]_invoicesVars
  BY PartStep
<1>3. QED
  BY <1>1, <1>2, PTL DEF MCSpec, CouponsSpec, ReferralsSpec, SessionsSpec, TrialsSpec,
     DeliveriesSpec, InvoicesSpec

\* Side by side the parts stay well typed, whichever of them moves.
THEOREM ServiceTypeCorrect == MCSpec => []ServiceTypeOK
<1>1. ServiceTypeOK <=> /\ CouponsTypeOK /\ ReferralsTypeOK /\ SessionsTypeOK
                        /\ TrialsTypeOK /\ DeliveriesTypeOK /\ InvoicesTypeOK
  BY DEF ServiceTypeOK
<1>2. QED
  BY <1>1, PartsBehave, CouponsTypeCorrect, ReferralsTypeCorrect, SessionsTypeCorrect,
     TrialsTypeCorrect, DeliveriesTypeCorrect, InvoicesTypeCorrect, PTL

\* And what each part promises, it promises beside the others.
THEOREM ServiceKeepsItsPromises ==
  MCSpec => [](/\ UsesAreBounded /\ FriendPaidOnce /\ SignedOutIsRefused
               /\ EarnsOncePerStart /\ OneActiveTask /\ ShowsItsInvoice)
BY PartsBehave, UsesAreBoundedAlways, FriendPaidOnceAlways, SignedOutIsRefusedAlways,
   EarnsOncePerStartAlways, OneActiveTaskAlways, ShowsItsInvoiceAlways, PTL
=============================================================================
