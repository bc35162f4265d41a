------------------------- MODULE ConsentFlowProofs -------------------------
(***************************************************************************)
(* Proofs of the safety properties of ConsentFlow, for any requests, keys  *)
(* and disconnections.  What makes the turns exclusive is Registered: a    *)
(* lock in use is the registered one, so two requests of one key that use  *)
(* a lock use the same one, however often the entry was pruned before.     *)
(***************************************************************************)
EXTENDS ConsentFlow, TLAPS

\* The stages from lock_for to release, in which the registry knows the lock.
Using == {"waiting", "releasing"} \union InTurn

Keyed == \A r \in Requests :
    /\ pc[r] = "idle" <=> key[r] = None
    /\ pc[r] \notin {"idle", "done"} => key[r] \notin Official

Registered == \A r \in Requests :
    pc[r] \in Using => /\ lockOf[r] \in Requests
                       /\ registry[key[r]] = lockOf[r]

Owned == \A r \in Requests : pc[r] \in InTurn => owner[lockOf[r]] = r

Permitted == \A r \in Requests : pc[r] \in {"spawn", "asking"} => permit = r

Heard == \A r \in Requests :
    pc[r] = "reaping" /\ decision[r] = "Allow" => said[r] = "Allow"

IInv ==
    /\ TypeOK /\ Keyed /\ Registered /\ Owned /\ Permitted /\ Heard
    /\ denied \intersect Official = {}
    /\ NeverAsksAfterDeny
    /\ EveryTokenWasAllowed

\* What the steps of a handler change besides the handler's own stage.
USE DEF Goto, MintFor, DropGuard

-----------------------------------------------------------------------------
\* Owners of one lock are one request, so turns of one key exclude each other
\* (the guard of lock.lock().await in auth_request).
LEMMA TurnsExclude ==
    ASSUME TypeOK, Registered, Owned
    PROVE  OneTurnPerKey
  BY DEF TypeOK, Registered, Owned, OneTurnPerKey, Using, InTurn

\* The daemon starts with no request, no lock and no denial.
LEMMA InitIInv == Init => IInv
  BY KeysAssumption DEF Init, IInv, TypeOK, Keyed, Registered, Owned, Permitted, Heard,
     NeverAsksAfterDeny, EveryTokenWasAllowed, Using, InTurn, Stages, Decisions

\* What a request's decision does keeps the invariant: the deny cache grows by a
\* key whose turn is over, a token is minted for a dialog that was allowed
\* (finalize_consent_decision).
LEMMA FinalizeKeeps ==
    ASSUME IInv, NEW r \in Requests, NEW d \in Decisions,
           pc[r] \in {"spawn", "reaping"}, Finalize(r, d),
           d = "Allow" => said[r] = "Allow",
           permit' = permit \/ (permit = r /\ permit' = None),
           UNCHANGED <<key, lockOf, registry, said>>
    PROVE  IInv'
  <1>1. OneTurnPerKey
    BY TurnsExclude DEF IInv
  <1>2. key[r] \in Keys \ Official
    BY DEF IInv, TypeOK, Keyed
  <1>3. TypeOK'
    BY <1>2 DEF IInv, TypeOK, Finalize, Registered, Using, InTurn, Stages
  <1>4. Keyed' /\ Registered'
    BY DEF IInv, TypeOK, Finalize, Keyed, Registered, Using, InTurn, Stages
  <1>5. Owned'
    BY KeysAssumption DEF IInv, TypeOK, Finalize, Registered, Owned, Using, InTurn, Stages
  <1>6. Permitted' /\ Heard'
    BY DEF IInv, TypeOK, Finalize, Permitted, Heard
  <1>7. (denied \intersect Official = {})'
    BY <1>2 DEF IInv, Finalize
  <1>8. NeverAsksAfterDeny'
    BY <1>1 DEF IInv, TypeOK, Finalize, NeverAsksAfterDeny, OneTurnPerKey, InTurn
  <1>9. EveryTokenWasAllowed'
    BY <1>2 DEF IInv, TypeOK, Finalize, EveryTokenWasAllowed
  <1> QED
    BY <1>3, <1>4, <1>5, <1>6, <1>7, <1>8, <1>9 DEF IInv

\* Every step of every handler, user and client keeps the invariant (auth_request).
LEMMA NextIInv == IInv /\ [Next]_vars => IInv'
  <1> SUFFICES ASSUME IInv, [Next]_vars PROVE IInv'
    OBVIOUS
  <1> USE DEF IInv
  <1>1. ASSUME NEW r \in Requests, NEW k \in Keys, Arrive(r, k) PROVE IInv'
    <2>1. TypeOK'
      BY <1>1 DEF Arrive, TypeOK, Stages, InTurn
    <2>2. Keyed'
      BY <1>1, KeysAssumption DEF Arrive, TypeOK, Keyed
    <2>3. Registered' /\ Owned' /\ Permitted' /\ Heard' /\ NeverAsksAfterDeny'
      BY <1>1 DEF Arrive, TypeOK, Registered, Owned, Permitted, Heard,
         NeverAsksAfterDeny, Using, InTurn
    <2>4. EveryTokenWasAllowed'
      BY <1>1, KeysAssumption DEF Arrive, TypeOK, Keyed, EveryTokenWasAllowed
    <2> QED
      BY <1>1, <2>1, <2>2, <2>3, <2>4 DEF Arrive
  <1>2. ASSUME NEW r \in Requests, LockFor(r) PROVE IInv'
    <2> DEFINE l == IF registry[key[r]] = None THEN r ELSE registry[key[r]]
    <2>1. key[r] \in Keys /\ l \in Requests
      BY <1>2 DEF LockFor, TypeOK, Keyed
    <2>2. TypeOK' /\ Keyed' /\ Permitted' /\ Heard' /\ NeverAsksAfterDeny'
      BY <1>2, <2>1 DEF LockFor, TypeOK, Keyed, Permitted, Heard, NeverAsksAfterDeny,
         Stages, InTurn
    <2>3. Registered'
      BY <1>2, <2>1, KeysAssumption DEF LockFor, TypeOK, Keyed, Registered, Using, InTurn
    <2>4. Owned' /\ EveryTokenWasAllowed'
      BY <1>2, <2>1 DEF LockFor, TypeOK, Owned, EveryTokenWasAllowed, InTurn
    <2> QED
      BY <1>2, <2>2, <2>3, <2>4 DEF LockFor
  <1>3. ASSUME NEW r \in Requests, Acquire(r) PROVE IInv'
    <2>1. lockOf[r] \in Requests /\ registry[key[r]] = lockOf[r]
      BY <1>3 DEF Acquire, Registered, Using
    <2>2. TypeOK' /\ Keyed' /\ Registered' /\ Permitted' /\ Heard'
      BY <1>3, <2>1 DEF Acquire, TypeOK, Keyed, Registered, Permitted, Heard, Using,
         InTurn, Stages
    <2>3. Owned'
      BY <1>3, <2>1, KeysAssumption DEF Acquire, TypeOK, Owned, InTurn
    <2> QED
      BY <1>3, <2>2, <2>3 DEF Acquire, NeverAsksAfterDeny, EveryTokenWasAllowed, TypeOK
  <1>4. ASSUME NEW r \in Requests, Recheck(r) PROVE IInv'
    <2>1. lockOf[r] \in Requests /\ owner[lockOf[r]] = r
      BY <1>4 DEF Recheck, Registered, Owned, Using, InTurn
    <2>2. TypeOK' /\ Keyed' /\ Registered' /\ Permitted' /\ Heard'
      BY <1>4, <2>1 DEF Recheck, TypeOK, Keyed, Registered, Permitted, Heard, Using,
         InTurn, Stages
    <2>3. Owned'
      BY <1>4, <2>1 DEF Recheck, TypeOK, Registered, Owned, Using, InTurn
    <2> QED
      BY <1>4, <2>2, <2>3 DEF Recheck, NeverAsksAfterDeny, EveryTokenWasAllowed, TypeOK
  <1>5. ASSUME NEW r \in Requests, GetPermit(r) PROVE IInv'
    BY <1>5, KeysAssumption DEF GetPermit, TypeOK, Keyed, Registered, Owned, Permitted,
       Heard, NeverAsksAfterDeny, EveryTokenWasAllowed, Using, InTurn, Stages
  <1>6. ASSUME NEW r \in Requests, Spawn(r) PROVE IInv'
    <2>1. permit = r
      BY <1>6 DEF Spawn, Permitted
    <2>2. CASE Finalize(r, "PopupFailed") /\ permit' = None
      BY <1>6, <2>1, <2>2, FinalizeKeeps DEF Spawn, Decisions
    <2>3. CASE pc' = [pc EXCEPT ![r] = "asking"] /\ UNCHANGED <<owner, permit, decision, denied, minted>>
      BY <1>6, <2>3 DEF Spawn, TypeOK, Keyed, Registered, Owned, Permitted, Heard,
         NeverAsksAfterDeny, EveryTokenWasAllowed, Using, InTurn, Stages
    <2> QED
      BY <1>6, <2>2, <2>3 DEF Spawn
  <1>7. ASSUME NEW r \in Requests, HearAnswer(r) PROVE IInv'
    <2> PICK d \in {said[r], "Dismissed"} \ {None} : decision' = [decision EXCEPT ![r] = d]
      BY <1>7 DEF HearAnswer
    <2>1. permit = r /\ d \in Decisions
      BY <1>7 DEF HearAnswer, Permitted, TypeOK, Decisions
    <2>2. TypeOK' /\ Heard'
      BY <1>7, <2>1 DEF HearAnswer, TypeOK, Heard, Stages, InTurn
    <2> QED
      BY <1>7, <2>1, <2>2 DEF HearAnswer, TypeOK, Keyed, Registered, Owned, Permitted,
         NeverAsksAfterDeny, EveryTokenWasAllowed, Using, InTurn
  <1>8. ASSUME NEW r \in Requests, Reap(r) PROVE IInv'
    <2>1. decision[r] \in Decisions /\ (decision[r] = "Allow" => said[r] = "Allow")
      BY <1>8 DEF Reap, TypeOK, Heard
    <2> QED
      BY <1>8, <2>1, FinalizeKeeps DEF Reap
  <1>9. ASSUME NEW r \in Requests, Release(r) PROVE IInv'
    <2>1. key[r] \in Keys /\ lockOf[r] \in Requests /\ registry[key[r]] = lockOf[r]
      BY <1>9 DEF Release, TypeOK, Keyed, Registered, Using
    <2>2. Registered'
      BY <1>9, <2>1 DEF Release, TypeOK, Registered, Using, InTurn
    <2> QED
      BY <1>9, <2>1, <2>2 DEF Release, TypeOK, Keyed, Owned, Permitted, Heard,
         NeverAsksAfterDeny, EveryTokenWasAllowed, InTurn, Stages
  <1>10. ASSUME NEW r \in Requests, Return(r) PROVE IInv'
    BY <1>10 DEF Return, TypeOK, Keyed, Registered, Owned, Permitted, Heard,
       NeverAsksAfterDeny, EveryTokenWasAllowed, Using, InTurn, Stages
  <1>11. ASSUME NEW r \in Requests, NEW d \in Decisions \ {"PopupFailed"}, Click(r, d)
         PROVE  IInv'
    <2>1. EveryTokenWasAllowed'
      BY <1>11, KeysAssumption DEF Click, TypeOK, EveryTokenWasAllowed, Decisions
    <2> QED
      BY <1>11, <2>1 DEF Click, TypeOK, Keyed, Registered, Owned, Permitted, Heard,
         NeverAsksAfterDeny
  <1>12. ASSUME NEW r \in Requests, Disconnect(r) PROVE IInv'
    <2>1. lockOf[r] \in Requests
      BY <1>12 DEF Disconnect, Registered, Using, InTurn
    <2>2. TypeOK' /\ Keyed' /\ Registered' /\ Permitted' /\ Heard'
      BY <1>12, <2>1 DEF Disconnect, TypeOK, Keyed, Registered, Permitted, Heard, Using,
         InTurn, Stages
    <2>3. Owned'
      BY <1>12, <2>1 DEF Disconnect, TypeOK, Registered, Owned, Using, InTurn
    <2> QED
      BY <1>12, <2>2, <2>3 DEF Disconnect, NeverAsksAfterDeny, EveryTokenWasAllowed, TypeOK
  <1>13. CASE UNCHANGED vars
    BY <1>13 DEF vars, TypeOK, Keyed, Registered, Owned, Permitted, Heard,
       NeverAsksAfterDeny, EveryTokenWasAllowed
  <1> QED
    BY KeysAssumption, <1>1, <1>2, <1>3, <1>4, <1>5, <1>6, <1>7, <1>8, <1>9, <1>10, <1>11, <1>12, <1>13
    DEF Next, HandlerStep

-----------------------------------------------------------------------------
\* IInv holds in every reachable state.
LEMMA InductiveInvariant == Spec => []IInv
  BY InitIInv, NextIInv, PTL DEF Spec

\* Of the requests of one key at most one is between the acquisition of the
\* key's lock and the end of its guard (ConsentLocks, auth_request).
THEOREM TurnsNeverOverlap == Spec => []OneTurnPerKey
  <1>1. IInv => OneTurnPerKey
    BY TurnsExclude DEF IInv
  <1> QED
    BY <1>1, InductiveInvariant, PTL

\* At most one dialog is on screen (CONSENT_POPUP in ask_user_for_consent).
THEOREM DialogsNeverStack == Spec => []OneDialog
  <1>1. IInv => OneDialog
    BY DEF IInv, Permitted, OneDialog
  <1> QED
    BY <1>1, InductiveInvariant, PTL

\* Nobody waits for a dialog, or has one, for a key in the deny cache
\* (the second look at the cache in auth_request).
THEOREM DenialIsHeeded == Spec => []NeverAsksAfterDeny
  <1>1. IInv => NeverAsksAfterDeny
    BY DEF IInv
  <1> QED
    BY <1>1, InductiveInvariant, PTL

\* Every token but a first-party one answers an Allow in its own dialog
\* (finalize_consent_decision).
THEOREM TokensAreAllowed == Spec => []EveryTokenWasAllowed
  <1>1. IInv => EveryTokenWasAllowed
    BY DEF IInv
  <1> QED
    BY <1>1, InductiveInvariant, PTL

\* No step mints a token for a key in the deny cache (finalize_consent_decision).
THEOREM DeniedGetsNoToken == Spec => NoTokenAfterDeny
  <1>1. IInv /\ [Next]_vars => [\A k \in denied : minted'[k] = minted[k]]_vars
    <2> SUFFICES ASSUME IInv, Next, NEW c \in denied PROVE minted'[c] = minted[c]
      BY DEF vars
    <2> USE DEF IInv, TypeOK
    <2>1. ASSUME NEW r \in Requests, NEW k \in Keys, Arrive(r, k) PROVE minted'[c] = minted[c]
      BY <2>1 DEF Arrive
    <2>2. ASSUME NEW r \in Requests, Reap(r) PROVE minted'[c] = minted[c]
      BY <2>2 DEF Reap, Finalize, NeverAsksAfterDeny
    <2>3. ASSUME NEW r \in Requests, Spawn(r) PROVE minted'[c] = minted[c]
      BY <2>3 DEF Spawn, Finalize
    <2> QED
      BY KeysAssumption, <2>1, <2>2, <2>3 DEF Next, HandlerStep, LockFor, Acquire, Recheck, GetPermit,
         HearAnswer, Release, Return, Click, Disconnect
  <1> QED
    BY <1>1, InductiveInvariant, PTL DEF Spec, NoTokenAfterDeny

\* What finalize_consent_decision mints follows the user's decisions, the earlier ones too.
THEOREM TokensFollowTheUser == Spec => TokensAsAllowed
  BY TokensAreAllowed, DeniedGetsNoToken, PTL DEF TokensAsAllowed
=============================================================================
