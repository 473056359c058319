------------------------------ MODULE Sessions ------------------------------
(***************************************************************************)
(* Auth sessions: a document per sign-in with the hash of its only valid   *)
(* refresh token.  A refresh finds the session by the token and rotates it *)
(* by saving the fields it changed; a sign-out finds a session by a token  *)
(* or by its id and saves revokedAt; it answers success even when it finds *)
(* nothing.  The cleanup deletes expired and long revoked sessions.        *)
(* The tokens of a session are numbered; request 0 is one by session id.   *)
(***************************************************************************)
EXTENDS Integers, FiniteSets

CONSTANTS
  SessionIds,
  Refreshes,     \* executions of refreshSession at the same time
  SignOuts,      \* executions of logoutAuthSession
  MaxTokens,     \* tokens generated for one session
  NoSession

ASSUME SessionConstants == MaxTokens \in Nat \ {0} /\ NoSession \notin SessionIds

VARIABLES
  present,       \* the sessions that have a document
  tokenHash,     \* the token it holds
  expired,       \* its refreshTokenExpiresAt has passed
  revoked,       \* its revokedAt is set
  generated,     \* tokens generated for it so far
  refreshing,    \* the session each refresh has found
  leaving,       \* each sign-out: idle, asked or found
  ends, presents,    \* the session it is about, and the token it presents
  current,       \* it presents the id, or the token that is still the session's
  signedOut      \* sessions whose sign-out with the current token was answered

documentVars == <<present, tokenHash, expired, revoked, generated>>
signOutVars == <<leaving, ends, presents, current>>
sessionVars == <<documentVars, refreshing, signOutVars, signedOut>>

SessionsInit ==
  /\ present = {}
  /\ tokenHash = [s \in SessionIds |-> 0]
  /\ expired = [s \in SessionIds |-> FALSE]
  /\ revoked = [s \in SessionIds |-> FALSE]
  /\ generated = [s \in SessionIds |-> 0]
  /\ refreshing = [r \in Refreshes |-> NoSession]
  /\ leaving = [o \in SignOuts |-> "idle"]
  /\ ends = [o \in SignOuts |-> NoSession]
  /\ presents = [o \in SignOuts |-> 0]
  /\ current = [o \in SignOuts |-> FALSE]
  /\ signedOut = {}

Refreshed(s) == \E r \in Refreshes : refreshing[r] = s

\* The query of findActiveSessionByRefreshToken.
IsActive(s, t) ==
  s \in present /\ tokenHash[s] = t /\ ~revoked[s] /\ ~expired[s]

CreateSession(s) ==
  /\ generated[s] = 0
  /\ present' = present \cup {s}
  /\ generated' = [generated EXCEPT ![s] = 1]
  /\ tokenHash' = [tokenHash EXCEPT ![s] = 1]
  /\ UNCHANGED <<expired, revoked, refreshing, signOutVars, signedOut>>

RefreshRead(r, s, t) ==
  /\ refreshing[r] = NoSession
  /\ IsActive(s, t)
  /\ refreshing' = [refreshing EXCEPT ![r] = s]
  /\ UNCHANGED <<documentVars, signOutVars, signedOut>>

\* Fault seeded for SignedOutIsRefused: the whole copy is written back, revokedAt as it was read.
RefreshSaveCopy(r) ==
  LET s == refreshing[r] IN
  /\ s \in present
  /\ generated[s] < MaxTokens
  /\ generated' = [generated EXCEPT ![s] = @ + 1]
  /\ tokenHash' = [tokenHash EXCEPT ![s] = generated'[s]]
  /\ expired' = [expired EXCEPT ![s] = FALSE]
  /\ revoked' = [revoked EXCEPT ![s] = FALSE]
  /\ current' = [o \in SignOuts |->
                   current[o] /\ ~(leaving[o] = "asked" /\ ends[o] = s /\ presents[o] # 0)]
  /\ refreshing' = [refreshing EXCEPT ![r] = NoSession]
  /\ UNCHANGED <<present, leaving, ends, presents, signedOut>>

\* The save sets the hash, the expiry and the metadata, and fails when the
\* document is gone.
RefreshSave(r) ==
  LET s == refreshing[r] IN
  /\ s \in present
  /\ generated[s] < MaxTokens
  /\ generated' = [generated EXCEPT ![s] = @ + 1]
  /\ tokenHash' = [tokenHash EXCEPT ![s] = generated'[s]]
  /\ expired' = [expired EXCEPT ![s] = FALSE]
  /\ current' = [o \in SignOuts |->
                   current[o] /\ ~(leaving[o] = "asked" /\ ends[o] = s /\ presents[o] # 0)]
  /\ refreshing' = [refreshing EXCEPT ![r] = NoSession]
  /\ UNCHANGED <<present, revoked, leaving, ends, presents, signedOut>>

\* The account is disabled, the save fails, or the process crashes.
RefreshFails(r) ==
  /\ refreshing[r] # NoSession
  /\ refreshing' = [refreshing EXCEPT ![r] = NoSession]
  /\ UNCHANGED <<documentVars, signOutVars, signedOut>>

SignOut(o, s, t) ==
  /\ leaving[o] = "idle" /\ generated[s] # 0
  /\ leaving' = [leaving EXCEPT ![o] = "asked"]
  /\ ends' = [ends EXCEPT ![o] = s]
  /\ presents' = [presents EXCEPT ![o] = t]
  /\ current' = [current EXCEPT ![o] = t \in {0, tokenHash[s]}]
  /\ UNCHANGED <<documentVars, refreshing, signedOut>>

SignOutDone(o) ==
  /\ leaving' = [leaving EXCEPT ![o] = "idle"]
  /\ ends' = [ends EXCEPT ![o] = NoSession]
  /\ presents' = [presents EXCEPT ![o] = 0]
  /\ current' = [current EXCEPT ![o] = FALSE]

SignOutFinds(o) == 
  IF presents[o] = 0 THEN ends[o] \in present ELSE IsActive(ends[o], presents[o])

SignOutRead(o) ==
  /\ leaving[o] = "asked" /\ SignOutFinds(o)
  /\ leaving' = [leaving EXCEPT ![o] = "found"]
  /\ UNCHANGED <<documentVars, refreshing, ends, presents, current, signedOut>>

\* Nothing is found and the answer is success.
SignOutFindsNothing(o) ==
  /\ leaving[o] = "asked" /\ ~SignOutFinds(o)
  /\ signedOut' = IF current[o] /\ ~Refreshed(ends[o])
                    THEN signedOut \cup {ends[o]} ELSE signedOut
  /\ SignOutDone(o)
  /\ UNCHANGED <<documentVars, refreshing>>

SignOutSave(o) ==
  /\ leaving[o] = "found" /\ ends[o] \in present
  /\ revoked' = [revoked EXCEPT ![ends[o]] = TRUE]
  /\ signedOut' = signedOut \cup {ends[o]}
  /\ SignOutDone(o)
  /\ UNCHANGED <<present, tokenHash, expired, generated, refreshing>>

SignOutFails(o) ==
  /\ leaving[o] # "idle"
  /\ SignOutDone(o)
  /\ UNCHANGED <<documentVars, refreshing, signedOut>>

Expires(s) ==
  /\ s \in present /\ ~expired[s]
  /\ expired' = [expired EXCEPT ![s] = TRUE]
  /\ UNCHANGED <<present, tokenHash, revoked, generated, refreshing, signOutVars, signedOut>>

\* Run after every operation: a revoked session goes once it is a week old.
CleanupExpiredSessions(s) ==
  /\ s \in present /\ (expired[s] \/ revoked[s])
  /\ present' = present \ {s}
  /\ UNCHANGED <<tokenHash, expired, revoked, generated, refreshing, signOutVars, signedOut>>

SessionsNext ==
  \/ \E s \in SessionIds :
       \/ CreateSession(s) \/ Expires(s) \/ CleanupExpiredSessions(s)
       \/ \E r \in Refreshes, t \in 1 .. generated[s] : RefreshRead(r, s, t)
       \/ \E o \in SignOuts, t \in 0 .. generated[s] : SignOut(o, s, t)
  \/ \E r \in Refreshes : RefreshSave(r) \/ RefreshFails(r)
  \/ \E o \in SignOuts :
       SignOutRead(o) \/ SignOutFindsNothing(o) \/ SignOutSave(o) \/ SignOutFails(o)

SessionsSpec == SessionsInit /\ [][SessionsNext]_sessionVars

----------------------------------------------------------------------------

\* The type of each variable; only a session that was created is at stake.
SessionsTypeOK ==
  /\ present \subseteq SessionIds /\ signedOut \subseteq SessionIds
  /\ tokenHash \in [SessionIds -> 0 .. MaxTokens]
  /\ generated \in [SessionIds -> 0 .. MaxTokens]
  /\ expired \in [SessionIds -> BOOLEAN] /\ revoked \in [SessionIds -> BOOLEAN]
  /\ refreshing \in [Refreshes -> SessionIds \cup {NoSession}]
  /\ leaving \in [SignOuts -> {"idle", "asked", "found"}]
  /\ ends \in [SignOuts -> SessionIds \cup {NoSession}]
  /\ presents \in [SignOuts -> 0 .. MaxTokens]
  /\ current \in [SignOuts -> BOOLEAN]
  /\ \A s \in present : generated[s] # 0
  /\ \A r \in Refreshes : refreshing[r] # NoSession => generated[refreshing[r]] # 0
  /\ \A o \in SignOuts : leaving[o] # "idle" => ends[o] \in SessionIds /\ generated[ends[o]] # 0

\* What authMiddleware asks of an access token's session, and
\* findActiveSessionByRefreshToken of a refresh token's.
Accepted(s) == s \in present /\ ~revoked[s] /\ ~expired[s]

\* Once a sign-out that presented the session's id, or the token that was
\* still its token when the sign-out looked, is answered, none of the
\* session's tokens is accepted again: not even when a refresh had found the
\* session before and saves its rotation afterwards.
SignedOutIsRefused == \A s \in signedOut : ~Accepted(s)
=============================================================================
