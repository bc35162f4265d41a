---------------------------- MODULE ConsentFlow ----------------------------
(***************************************************************************)
(* POST /auth/request (auth/routes.rs, auth/consent.rs): how concurrent    *)
(* requests for a token are put to the user one at a time.                 *)
(*                                                                         *)
(* A consent key is a caller's identity and the scopes it asks for.  The   *)
(* requests of one key take turns on a lock that lives in a registry only  *)
(* while somebody uses it; whoever has the lock waits for the one permit   *)
(* to show a dialog, and the dialog's answer mints a token, goes into the  *)
(* deny cache or leaves no trace.  A client that disconnects drops its     *)
(* handler at whatever await it stands.  The model is of a release build:   *)
(* AUTO_APPROVE, which skips the dialog in debug builds, is not in it.      *)
(*                                                                         *)
(* Op_Fault is Op with a plausible bug.                                    *)
(***************************************************************************)
EXTENDS Naturals, FiniteSets

CONSTANTS Requests,       \* calls of the endpoint
          Keys,           \* (identity, scopes) pairs
          Wants,          \* the keys each call may turn out to have
          Official,       \* the keys of first-party clients
          MayDisconnect,  \* the requests whose client may go away
          None

Decisions == {"Allow", "Deny", "Dismissed", "PopupFailed"}

ASSUME KeysAssumption ==
    /\ Wants \in [Requests -> SUBSET Keys]
    /\ Official \subseteq Keys /\ MayDisconnect \subseteq Requests
    /\ None \notin Requests \union Keys \union Decisions

VARIABLES
    pc,        \* how far each request has come
    key,       \* its consent key
    lockOf,    \* its clone of the key's lock (named after the request that made it)
    registry,  \* ConsentLocks.inner: the lock of each key, or None
    owner,     \* who holds each lock
    permit,    \* who holds CONSENT_POPUP
    said,      \* what the user clicked in each request's dialog
    decision,  \* what the handler made of it
    denied,    \* DenyCache
    minted     \* for each key, the requests that were given a token

vars == <<pc, key, lockOf, registry, owner, permit, said, decision, denied, minted>>

\* The stages in which a request holds its key's lock.
InTurn == {"recheck", "wantPermit", "spawn", "asking", "reaping"}
Stages == {"idle", "arrived", "waiting", "releasing", "returning", "done", "gone"} \union InTurn

\* A handler that waits for its helper to be reaped has made its decision.
TypeOK ==
    /\ pc \in [Requests -> Stages]
    /\ key \in [Requests -> Keys \union {None}]
    /\ lockOf \in [Requests -> Requests \union {None}]
    /\ registry \in [Keys -> Requests \union {None}]
    /\ owner \in [Requests -> Requests \union {None}]
    /\ permit \in Requests \union {None}
    /\ said \in [Requests -> Decisions \union {None}]
    /\ decision \in [Requests -> Decisions \union {None}]
    /\ \A r \in Requests : pc[r] = "reaping" => decision[r] \in Decisions
    /\ denied \subseteq Keys
    /\ minted \in [Keys -> SUBSET Requests]

Init ==
    /\ pc = [r \in Requests |-> "idle"]
    /\ key = [r \in Requests |-> None]
    /\ lockOf = [r \in Requests |-> None]
    /\ registry = [k \in Keys |-> None]
    /\ owner = [l \in Requests |-> None]
    /\ permit = None
    /\ said = [r \in Requests |-> None]
    /\ decision = [r \in Requests |-> None]
    /\ denied = {}
    /\ minted = [k \in Keys |-> {}]

Goto(r, stage) == pc' = [pc EXCEPT ![r] = stage]
MintFor(r, k) == minted' = [minted EXCEPT ![k] = @ \union {r}]

-----------------------------------------------------------------------------
\* auth_request up to the first look at the deny cache.  A request that is
\* malformed, of another user or of an unknown binary is answered with nothing
\* changed, as a cached denial is; a first-party client is given its token.
Arrive(r, k) ==
    /\ pc[r] = "idle"
    /\ key' = [key EXCEPT ![r] = k]
    /\ \/ Goto(r, "done") /\ UNCHANGED minted
       \/ k \in Official /\ Goto(r, "done") /\ MintFor(r, k)
       \/ k \notin Official \union denied /\ Goto(r, "arrived") /\ UNCHANGED minted
    /\ UNCHANGED <<lockOf, registry, owner, permit, said, decision, denied>>

LockFor_AlwaysFresh(r) ==  \* the registry is not consulted
    /\ pc[r] = "arrived"
    /\ lockOf' = [lockOf EXCEPT ![r] = r]
    /\ registry' = [registry EXCEPT ![key[r]] = r]
    /\ Goto(r, "waiting")
    /\ UNCHANGED <<key, owner, permit, said, decision, denied, minted>>

\* `lock_for`: the registered lock, or a new one.
LockFor(r) ==
    LET l == IF registry[key[r]] = None THEN r ELSE registry[key[r]] IN
    /\ pc[r] = "arrived"
    /\ lockOf' = [lockOf EXCEPT ![r] = l]
    /\ registry' = [registry EXCEPT ![key[r]] = l]
    /\ Goto(r, "waiting")
    /\ UNCHANGED <<key, owner, permit, said, decision, denied, minted>>

\* `lock.lock().await` returns.
Acquire(r) ==
    /\ pc[r] = "waiting"
    /\ owner[lockOf[r]] = None
    /\ owner' = [owner EXCEPT ![lockOf[r]] = r]
    /\ Goto(r, "recheck")
    /\ UNCHANGED <<key, lockOf, registry, permit, said, decision, denied, minted>>

DropGuard(r) == owner' = [owner EXCEPT ![lockOf[r]] = None]

\* The second look at the deny cache, now that it is this request's turn.
Recheck(r) ==
    /\ pc[r] = "recheck"
    /\ IF key[r] \in denied
       THEN Goto(r, "releasing") /\ DropGuard(r)
       ELSE Goto(r, "wantPermit") /\ UNCHANGED owner
    /\ UNCHANGED <<key, lockOf, registry, permit, said, decision, denied, minted>>

GetPermit_Unlimited(r) ==  \* no permit is needed
    /\ pc[r] = "wantPermit"
    /\ Goto(r, "spawn")
    /\ UNCHANGED <<key, lockOf, registry, owner, permit, said, decision, denied, minted>>

\* `CONSENT_POPUP.acquire().await` returns.
GetPermit(r) ==
    /\ pc[r] = "wantPermit"
    /\ permit = None
    /\ permit' = r
    /\ Goto(r, "spawn")
    /\ UNCHANGED <<key, lockOf, registry, owner, said, decision, denied, minted>>

Finalize_MintsUnlessDenied(r, d) ==
    /\ decision' = [decision EXCEPT ![r] = d]
    /\ IF d # "Deny" THEN MintFor(r, key[r]) ELSE UNCHANGED minted
    /\ denied' = IF d = "Deny" THEN denied \union {key[r]} ELSE denied
    /\ DropGuard(r)
    /\ Goto(r, "releasing")

\* finalize_consent_decision, after which the guard's scope ends.
Finalize(r, d) ==
    /\ decision' = [decision EXCEPT ![r] = d]
    /\ IF d = "Allow" THEN MintFor(r, key[r]) ELSE UNCHANGED minted
    /\ denied' = IF d = "Deny" THEN denied \union {key[r]} ELSE denied
    /\ DropGuard(r)
    /\ Goto(r, "releasing")

\* spawn_consent_dialog: the dialog comes up, or no helper can be started.
Spawn(r) ==
    /\ pc[r] = "spawn"
    /\ \/ /\ Goto(r, "asking")
          /\ UNCHANGED <<owner, permit, decision, denied, minted>>
       \/ Finalize(r, "PopupFailed") /\ permit' = None
    /\ UNCHANGED <<key, lockOf, registry, said>>

\* The user decides, and the helper writes one line and closes the dialog.
Click(r, d) ==
    /\ pc[r] = "asking" /\ said[r] = None
    /\ said' = [said EXCEPT ![r] = d]
    /\ UNCHANGED <<pc, key, lockOf, registry, owner, permit, decision, denied, minted>>

HearAnswer_KeepsPermit(r) ==
    /\ pc[r] = "asking"
    /\ \E d \in {said[r], "Dismissed"} \ {None} : decision' = [decision EXCEPT ![r] = d]
    /\ Goto(r, "reaping")
    /\ UNCHANGED <<key, lockOf, registry, owner, permit, said, denied, minted>>

\* The handler has the line, or a minute has passed: the helper is killed and
\* the permit goes back before the helper is reaped.
HearAnswer(r) ==
    /\ pc[r] = "asking"
    /\ \E d \in {said[r], "Dismissed"} \ {None} : decision' = [decision EXCEPT ![r] = d]
    /\ permit' = None
    /\ Goto(r, "reaping")
    /\ UNCHANGED <<key, lockOf, registry, owner, said, denied, minted>>

\* `child.wait().await` returns, and the decision takes effect.
Reap(r) ==
    /\ pc[r] = "reaping"
    /\ Finalize(r, decision[r])
    /\ UNCHANGED <<key, lockOf, registry, permit, said>>

\* `release`: strong_count <= 2 means the registry's clone and this request's
\* own, so no other request holds one.
Release(r) ==
    /\ pc[r] = "releasing"
    /\ registry' = IF \A q \in Requests \ {r} : lockOf[q] # lockOf[r]
                   THEN [registry EXCEPT ![key[r]] = None]
                   ELSE registry
    /\ Goto(r, "returning")
    /\ UNCHANGED <<key, lockOf, owner, permit, said, decision, denied, minted>>

\* The handler returns, and with it goes its clone of the lock.
Return(r) ==
    /\ pc[r] = "returning"
    /\ lockOf' = [lockOf EXCEPT ![r] = None]
    /\ Goto(r, "done")
    /\ UNCHANGED <<key, registry, owner, permit, said, decision, denied, minted>>

\* The client disconnects and the handler is dropped at an await: the dialog is
\* killed, permit, guard and clone go, and `release` never runs.
Disconnect(r) ==
    /\ r \in MayDisconnect
    /\ pc[r] \in {"waiting", "wantPermit", "spawn", "asking", "reaping"}
    /\ IF pc[r] = "waiting" THEN UNCHANGED owner ELSE DropGuard(r)
    /\ permit' = IF permit = r THEN None ELSE permit
    /\ lockOf' = [lockOf EXCEPT ![r] = None]
    /\ Goto(r, "gone")
    /\ UNCHANGED <<key, registry, said, decision, denied, minted>>

HandlerStep(r) ==
    \/ LockFor(r) \/ Acquire(r) \/ Recheck(r) \/ GetPermit(r) \/ Spawn(r)
    \/ HearAnswer(r) \/ Reap(r) \/ Release(r) \/ Return(r)

Next == \E r \in Requests :
    \/ \E k \in Wants[r] : Arrive(r, k)
    \/ HandlerStep(r)
    \/ \E d \in Decisions \ {"PopupFailed"} : Click(r, d)
    \/ Disconnect(r)

\* The runtime polls every handler whose await is ready: tokio's mutex and
\* semaphore are first come first served, the dialog has a timeout, and a helper
\* that was killed is reaped.  The user need never click.
Fairness == \A r \in Requests : WF_vars(HandlerStep(r))

Spec == Init /\ [][Next]_vars
FairSpec == Spec /\ Fairness

-----------------------------------------------------------------------------
\* Two requests of one key are never in their turn together, although the lock
\* that keeps them apart is created, found and pruned while they come and go.
OneTurnPerKey ==
    \A r, q \in Requests :
        r # q /\ pc[r] \in InTurn /\ pc[q] \in InTurn => key[r] # key[q]

\* "At most one consent dialog on screen at a time", over all the keys.
OneDialog == \A r, q \in Requests : pc[r] = "asking" /\ pc[q] = "asking" => r = q

\* "The user already said no, no point asking again": nobody waits to ask, or
\* asks, for a key in the deny cache.  The cache is looked at before the permit
\* is waited for, and must not change in between.
NeverAsksAfterDeny ==
    \A r \in Requests : pc[r] \in {"wantPermit", "spawn", "asking", "reaping"} => key[r] \notin denied

\* A denied key is never given a token again.
NoTokenAfterDeny == [][\A k \in denied : minted'[k] = minted[k]]_vars

\* Every token but a first-party one was allowed by the user in the dialog that
\* named its key, and each dialog is good for one token.
EveryTokenWasAllowed ==
    \A k \in Keys \ Official : \A r \in minted[k] : key[r] = k /\ said[r] = "Allow"

\* What finalize_consent_decision mints follows the user's decisions, the earlier ones too.
TokensAsAllowed == []EveryTokenWasAllowed /\ NoTokenAfterDeny

\* Every request is answered, though the user never clicks: the minute-long
\* dialogs ahead of it run out.
EveryoneIsAnswered ==
    \A r \in Requests : pc[r] # "idle" ~> pc[r] \in {"done", "gone"}

=============================================================================
