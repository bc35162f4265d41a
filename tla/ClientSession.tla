--------------------------- MODULE ClientSession ---------------------------
(***************************************************************************)
(* The client's side of a session: the token cache in memory and in its    *)
(* file (session.rs), calls that obtain a token and retry once when it is  *)
(* refused (with_token), and the self-healing /events subscription         *)
(* (widget_subscription/mod.rs, retry.rs) that shares the cache with them. *)
(* One application process; the daemon is what the client sees of it: it   *)
(* goes down and comes back, drops or wedges a stream, revokes tokens and  *)
(* asks the user.                                                          *)
(***************************************************************************)
EXTENDS Naturals

CONSTANTS
  Calls,        \* concurrent uses of with_token
  Streams,      \* widget subscriptions
  Need,         \* Need[t]: the scopes task t asks for and uses
  Files,        \* what the token file may hold at first: records or NoRecord
  NoRecord, NoTask,
  MaxFaults,    \* bound: revocations, outages, broken streams and dismissals
  MaxTokens,    \* bound: tokens the daemon mints
  MaxAttempt    \* bound: where the model stops counting attempts

Tasks == Calls \cup Streams

ASSUME ClientAssumption ==
  /\ Calls \cap Streams = {} /\ NoTask \notin Tasks
  /\ {MaxFaults, MaxTokens, MaxAttempt} \subseteq Nat
  /\ \A t \in Tasks, k \in 1..MaxTokens:
       [tok |-> k, requested |-> Need[t], granted |-> Need[t]] # NoRecord

VARIABLES
  cache,    \* TOKEN_CACHE's record of this app
  file,     \* the record in the token file
  lock,     \* who holds the app's obtain lock
  pc,       \* how far each task is
  holding,     \* holding[t]: the record task t works with
  second,   \* the calls on their second try
  attempt,  \* attempt[s]: RetryStrategy.attempt
  shown,    \* shown[s]: what the consumer was last told
  up,       \* the daemon answers
  valid,    \* the tokens the daemon honours
  minted,   \* tokens minted so far
  denied,   \* the user has denied this app: the daemon's deny cache
  broken,   \* the subscriptions whose connection is dead or silent
  dialogs,  \* consent dialogs shown so far
  refused,  \* some token was refused
  faults    \* faults so far

clientVars == <<cache, file, lock, pc, holding, second, attempt, shown,
                up, valid, minted, denied, broken, dialogs, refused, faults>>
daemonVars == <<up, valid, minted, denied, broken, dialogs, refused, faults>>

Covers_AnyRecord(r, t) == r # NoRecord  \* any stored token will do

(* Stored::covers: what was requested decides, not what was granted.       *)
Covers(r, t) == r # NoRecord /\ Need[t] \subseteq r.requested

ClientInit ==
  /\ cache = NoRecord /\ file \in Files /\ lock = NoTask
  /\ pc = [t \in Tasks |-> "cache"]
  /\ holding = [t \in Tasks |-> NoRecord]
  /\ second = {} /\ attempt = [s \in Streams |-> 0]
  /\ shown = [s \in Streams |-> "connecting"]
  /\ up = TRUE /\ valid \in SUBSET {0} /\ minted = 0 /\ denied = FALSE
  /\ broken = {} /\ dialogs = 0 /\ refused = FALSE /\ faults = 0

Go(t, where) == pc' = [pc EXCEPT ![t] = where]
Show(s, what) == shown' = [shown EXCEPT ![s] = what]

(* The token is in holding: use it.  The guard of the obtain lock is dropped. *)
Got(t, r) ==
  /\ holding' = [holding EXCEPT ![t] = r]
  /\ lock' = IF lock = t THEN NoTask ELSE lock
  /\ Go(t, "op")

(* ---- obtain ----------------------------------------------------------- *)

(* The cache, first without and then with the lock.                        *)
Lookup(t) ==
  /\ pc[t] \in {"cache", "cache2"}
  /\ IF Covers(cache, t)
     THEN Got(t, cache)
     ELSE Go(t, IF pc[t] = "cache" THEN "file" ELSE "file2") /\ UNCHANGED <<holding, lock>>
  /\ UNCHANGED <<cache, file, second, attempt, shown, daemonVars>>

(* The file, and then the cache is filled from it in a step of its own.    *)
ReadFile(t) ==
  /\ pc[t] \in {"file", "file2"}
  /\ IF Covers(file, t)
     THEN holding' = [holding EXCEPT ![t] = file] /\ Go(t, "keep")
     ELSE Go(t, IF pc[t] = "file" THEN "queue" ELSE "ask") /\ UNCHANGED holding
  /\ UNCHANGED <<cache, file, lock, second, attempt, shown, daemonVars>>

Keep(t) ==
  /\ pc[t] = "keep"
  /\ cache' = holding[t]
  /\ Got(t, holding[t])
  /\ UNCHANGED <<file, second, attempt, shown, daemonVars>>

(* The app's lock, held across the consent.                                *)
Queue(t) ==
  /\ pc[t] = "queue" /\ lock = NoTask
  /\ lock' = t
  /\ Go(t, "cache2")
  /\ UNCHANGED <<cache, file, holding, second, attempt, shown, daemonVars>>

(* auth_request: sent without a timeout.                                   *)
Ask(t) ==
  /\ pc[t] = "ask"
  /\ Go(t, "asking")
  /\ UNCHANGED <<cache, file, lock, holding, second, attempt, shown, daemonVars>>

(* obtain failed.  A call returns the error; the subscription ends when    *)
(* the user denied, and otherwise tells the consumer and backs off.        *)
Fail(t, why) ==
  /\ lock' = NoTask
  /\ IF t \in Calls
     THEN Go(t, "failed") /\ UNCHANGED shown
     ELSE /\ Go(t, IF why = "denied" THEN "blocked" ELSE "backoff")
          /\ Show(t, CASE why = "denied" -> "blocked"
                       [] why = "dismissed" -> "reauth"
                       [] OTHER -> "disconnected")

(* The daemon's answer: the user allows, denies (or has denied before) or  *)
(* dismisses the dialog; a daemon that is down refuses the connection.     *)
Answered(t) ==
  /\ pc[t] = "asking"
  /\ \/ /\ up /\ ~denied /\ minted < MaxTokens
        /\ minted' = minted + 1 /\ valid' = valid \cup {minted + 1}
        /\ holding' = [holding EXCEPT ![t] =
             [tok |-> minted + 1, requested |-> Need[t], granted |-> Need[t]]]
        /\ Go(t, "save")
        /\ UNCHANGED <<lock, shown, denied, faults>>
     \/ /\ up /\ (denied \/ faults < MaxFaults)
        /\ denied' = TRUE
        /\ faults' = IF denied THEN faults ELSE faults + 1
        /\ Fail(t, "denied")
        /\ UNCHANGED <<holding, minted, valid>>
     \/ /\ up /\ ~denied /\ faults < MaxFaults
        /\ faults' = faults + 1
        /\ Fail(t, "dismissed")
        /\ UNCHANGED <<holding, minted, valid, denied>>
     \/ /\ ~up
        /\ Fail(t, "unreachable")
        /\ UNCHANGED <<holding, minted, valid, denied, faults>>
  /\ dialogs' = IF up /\ ~denied THEN dialogs + 1 ELSE dialogs
  /\ UNCHANGED <<cache, file, second, attempt, up, broken, refused>>

(* save: the cache, then the file, whose failure is ignored.               *)
SaveCache(t) ==
  /\ pc[t] = "save"
  /\ cache' = holding[t]
  /\ Go(t, "write")
  /\ UNCHANGED <<file, lock, holding, second, attempt, shown, daemonVars>>

SaveFile(t) ==
  /\ pc[t] = "write"
  /\ file' \in {file, holding[t]}
  /\ Got(t, holding[t])
  /\ UNCHANGED <<cache, second, attempt, shown, daemonVars>>

(* ---- using the token --------------------------------------------------- *)

(* open: nobody listens, or no head of a response within the timeout.      *)
Unreachable == ~up

(* error_for_status: what the daemon makes of the token in holding.           *)
Verdict(t) ==
  CASE Unreachable                        -> "other"
    [] holding[t].tok \notin valid           -> "invalid_session"
    [] ~(Need[t] \subseteq holding[t].granted) -> "scope_denied"
    [] OTHER                              -> "ok"
Refused(t) == Verdict(t) \in {"invalid_session", "scope_denied"}

(* with_token: a refused token is forgotten and the call tried once more.  *)
Call(t) ==
  /\ t \in Calls /\ pc[t] = "op"
  /\ Go(t, CASE Verdict(t) = "ok" -> "done"
             [] Refused(t) /\ t \notin second -> "forget"
             [] OTHER -> "failed")
  /\ refused' = (refused \/ Refused(t))
  /\ UNCHANGED <<cache, file, lock, holding, second, attempt, shown,
                 up, valid, minted, denied, broken, dialogs, faults>>

(* forget: the cache, then the file, whatever token they hold by now.      *)
ForgetCache(t) ==
  /\ pc[t] = "forget"
  /\ cache' = NoRecord
  /\ Go(t, "unlink")
  /\ UNCHANGED <<file, lock, holding, second, attempt, shown, daemonVars>>

ForgetFile(t) ==
  /\ pc[t] = "unlink"
  /\ \/ file' = NoRecord /\ UNCHANGED faults
     \/ file' = file /\ faults < MaxFaults /\ faults' = faults + 1
  /\ Go(t, "cache")
  /\ second' = IF t \in Calls THEN second \cup {t} ELSE second
  /\ shown' = IF t \in Streams THEN [shown EXCEPT ![t] = "reauth"] ELSE shown
  /\ UNCHANGED <<cache, lock, holding, attempt,
                 up, valid, minted, denied, broken, dialogs, refused>>

(* open_stream: connected, or forget and ask again without a delay, or     *)
(* back off.                                                               *)
OpenStream(s) ==
  /\ s \in Streams /\ pc[s] = "op"
  /\ \/ /\ Verdict(s) = "ok"
        /\ Go(s, "reading") /\ Show(s, "connected")
        /\ attempt' = [attempt EXCEPT ![s] = 0]
     \/ /\ Refused(s)
        /\ Go(s, "forget") /\ UNCHANGED <<shown, attempt>>
     \/ /\ Verdict(s) = "other"
        /\ Go(s, "backoff") /\ Show(s, "disconnected") /\ UNCHANGED attempt
  /\ broken' = broken \ {s}
  /\ refused' = (refused \/ Refused(s))
  /\ UNCHANGED <<cache, file, lock, holding, second,
                 up, valid, minted, denied, dialogs, faults>>

(* A `revoked` frame: forget the token, then ask again.                    *)
Revoked(s) ==
  /\ s \in Streams /\ pc[s] = "reading" /\ holding[s].tok \notin valid
  /\ Go(s, "forget")
  /\ UNCHANGED <<cache, file, lock, holding, second, attempt, shown, daemonVars>>

Ended_ReadsOn(s) ==  \* no idle deadline: a silent connection is read for ever
  /\ s \in Streams /\ pc[s] = "reading" /\ holding[s].tok \notin valid
  /\ Go(s, "backoff") /\ Show(s, "disconnected")
  /\ UNCHANGED <<cache, file, lock, holding, second, attempt, daemonVars>>

(* The stream ends, or nothing (not even a keepalive) arrives within       *)
(* idle_timeout: its connection is dead or the daemon closed the session.  *)
Ended(s) ==
  /\ s \in Streams /\ pc[s] = "reading"
  /\ s \in broken \/ holding[s].tok \notin valid
  /\ Go(s, "backoff") /\ Show(s, "disconnected")
  /\ UNCHANGED <<cache, file, lock, holding, second, attempt, daemonVars>>

(* The sleep, and RetryStrategy::should_retry: there is always a next try. *)
Backoff(s) ==
  /\ s \in Streams /\ pc[s] = "backoff"
  /\ attempt' = [attempt EXCEPT ![s] = IF @ < MaxAttempt THEN @ + 1 ELSE @]
  /\ Go(s, "cache")
  /\ UNCHANGED <<cache, file, lock, holding, second, shown, daemonVars>>

(* ---- the daemon -------------------------------------------------------- *)

clientOnly == <<cache, file, lock, pc, holding, second, attempt, shown>>

GoesDown ==
  /\ up /\ faults < MaxFaults
  /\ up' = FALSE /\ faults' = faults + 1
  /\ broken' = Streams
  /\ UNCHANGED <<clientOnly, valid, minted, denied, dialogs, refused>>

(* The deny cache lives as long as the daemon does.                        *)
ComesUp ==
  /\ ~up /\ up' = TRUE /\ denied' = FALSE
  /\ UNCHANGED <<clientOnly, valid, minted, broken, dialogs, refused, faults>>

Revokes ==
  /\ faults < MaxFaults /\ faults' = faults + 1
  /\ \E k \in valid: valid' = valid \ {k}
  /\ UNCHANGED <<clientOnly, up, minted, denied, broken, dialogs, refused>>

(* A connection is reset, or wedged: it stays open and silent.             *)
Breaks(s) ==
  /\ pc[s] = "reading" /\ s \notin broken /\ faults < MaxFaults
  /\ faults' = faults + 1 /\ broken' = broken \cup {s}
  /\ UNCHANGED <<clientOnly, up, valid, minted, denied, dialogs, refused>>

Obtains(t) ==
  \/ Lookup(t) \/ ReadFile(t) \/ Keep(t) \/ Ask(t) \/ Answered(t)
  \/ SaveCache(t) \/ SaveFile(t) \/ ForgetCache(t) \/ ForgetFile(t)
TaskNext(t) == Obtains(t) \/ Queue(t) \/ Call(t)
  \/ OpenStream(t) \/ Revoked(t) \/ Ended(t) \/ Backoff(t)

ClientNext ==
  \/ \E t \in Tasks: TaskNext(t)
  \/ \E s \in Streams: Breaks(s)
  \/ GoesDown \/ ComesUp \/ Revokes

(* Tasks are polled, the daemon answers a consent request within its       *)
(* dialog's timeout, a supervisor restarts the daemon, and the daemon      *)
(* closes a session it revoked, or the idle deadline passes.               *)
ClientFairness ==
  /\ WF_clientVars(ComesUp)
  /\ \A t \in Tasks:
       /\ WF_clientVars(Obtains(t))
       /\ SF_clientVars(Queue(t))
       /\ WF_clientVars(Call(t) \/ OpenStream(t) \/ Backoff(t))
  /\ \A s \in Streams: WF_clientVars(Revoked(s) \/ Ended(s))

ClientSpec == ClientInit /\ [][ClientNext]_clientVars /\ ClientFairness

-----------------------------------------------------------------------------
(* Concurrent callers of one scope set share one consent: as long as no    *)
(* token is refused and nothing fails, the user sees at most one dialog,   *)
(* however they interleave (session.rs:253-257).  Of several scope sets    *)
(* the one record of an app holds the last that was asked for.             *)
BatchAsksOnce ==
  (\A t, u \in Tasks: Need[t] = Need[u]) /\ ~refused /\ faults = 0 => dialogs <= 1

(* A task presents a token only when that token was requested with the     *)
(* scopes the task needs, whichever task obtained it (session.rs:32-43).   *)
NeverShortOfScopes ==
  \A t \in Tasks: pc[t] \in {"op", "reading"} => Need[t] \subseteq holding[t].requested

(* The subscription heals: after the last fault it reads a live stream for *)
(* good, unless the user denied it, and every call returns                 *)
(* (widget_subscription/mod.rs:4-28).                                      *)
Heals ==
  /\ \A s \in Streams: <>[](pc[s] = "blocked" \/ (pc[s] = "reading" /\ s \notin broken))
  /\ \A t \in Calls: <>(pc[t] \in {"done", "failed"})

=============================================================================
