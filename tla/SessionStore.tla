---------------------------- MODULE SessionStore ----------------------------
(***************************************************************************)
(* The session tokens a daemon has issued (auth/tokens.rs) and the secrets *)
(* file that keeps them across restarts (secrets.rs).                      *)
(*                                                                         *)
(* Request handlers change the in-memory map and submit a snapshot of it   *)
(* to a one-place mailbox; a single task takes the latest snapshot and     *)
(* writes it, on a blocking thread, to the file the backends' API keys     *)
(* live in too.  The process can stop at any instant, a write can fail     *)
(* before the new file is in place or only after it is (the directory's    *)
(* fsync), and a token expires whenever its time comes.                    *)
(*                                                                         *)
(* Every change of the map has a version, which the code does not keep: it *)
(* says how recent a snapshot is.  Op_Fault is Op with a plausible bug.    *)
(***************************************************************************)
EXTENDS Naturals, Sequences, FiniteSets

CONSTANTS Tokens,        \* session tokens; 32 random bytes never repeat
          Keys,          \* names of backend secrets
          Flushes,       \* calls of flush_persisted_sessions
          MaxVersion,    \* bound on the changes of the map
          MaxFailures,   \* bound on the failed writes
          MaxStops       \* bound on the process exits

ASSUME BoundsAssumption == MaxVersion \in Nat /\ MaxFailures \in Nat /\ MaxStops \in Nat
ASSUME WakeAssumption == "wake" \notin Flushes

VARIABLES
    up,        \* the daemon runs
    inner,     \* TokenStore.inner: the tokens that are in the map
    ver,       \* the version of inner
    waking,    \* a handler holds inner's lock and is about to send Wake
    pending,   \* SessionPersister.pending: {} or {snapshot}
    chan,      \* the persist task's channel: "wake" or a flush
    task,      \* where the persist task stands
    ack,       \* its flush_ack: {} or {flush}
    job,       \* the snapshot it is writing: {} or {snapshot}
    contents,  \* Secrets.contents
    file,      \* the secrets file (an absent file is an empty one)
    health,    \* whether the file can be read and parsed
    \* the environment and the callers
    minted,    \* the tokens handed out so far
    expired,   \* the tokens whose expires_at has passed
    flush,     \* what each flush's caller knows
    failures, stops,
    \* history
    lastOk,    \* the last snapshot written was written without an error
    promised,  \* the keys whose last change returned Ok and was a set
    unsure,    \* the keys whose last change returned Err after the rename
    flushVer,  \* the version the map had when the flush was sent
    flushGone, \* the tokens that had left the map by then
    aside      \* the files that were moved out of the way

storeVars == <<inner, ver, waking, pending>>
taskVars  == <<task, ack, job>>
diskVars  == <<contents, file, health, aside, failures>>
flushVars == <<flush, flushVer, flushGone>>
keyVars   == <<promised, unsure>>
vars == <<up, storeVars, chan, taskVars, diskVars, minted, expired, flushVars, stops, lastOk, keyVars>>

Snapshots == [ver : Nat, tokens : SUBSET Tokens]
Contents  == [sessions : Snapshots, keys : SUBSET Keys]
Empty == [sessions |-> [ver |-> 0, tokens |-> {}], keys |-> {}]

\* The mailbox has one place: no two snapshots are ever in it.
TypeOK ==
    /\ up \in BOOLEAN /\ waking \in BOOLEAN /\ lastOk \in BOOLEAN
    /\ inner \subseteq Tokens /\ minted \subseteq Tokens /\ expired \subseteq Tokens
    /\ ver \in Nat /\ failures \in Nat /\ stops \in Nat
    /\ pending \subseteq Snapshots /\ job \subseteq Snapshots
    /\ \A s, r \in pending : s = r
    /\ chan \in Seq(Flushes \union {"wake"})
    /\ task \in {"recv", "drain", "take", "write", "ack"}
    /\ ack \subseteq Flushes
    /\ contents \in Contents /\ file \in Contents /\ aside \subseteq Contents
    /\ health \in {"fine", "garbled", "unreadable"}
    /\ flush \in [Flushes -> {"idle", "sent", "durable", "acked", "unanswered"}]
    /\ flushVer \in [Flushes -> Nat]
    /\ flushGone \in [Flushes -> SUBSET Tokens]
    /\ promised \subseteq Keys /\ unsure \subseteq Keys

Init ==
    /\ up = TRUE /\ waking = FALSE /\ lastOk = TRUE
    /\ inner = {} /\ minted = {} /\ expired = {}
    /\ ver = 0 /\ failures = 0 /\ stops = 0
    /\ pending = {} /\ job = {} /\ ack = {}
    /\ chan = <<>> /\ task = "recv"
    /\ contents = Empty /\ file = Empty /\ aside = {} /\ health = "fine"
    /\ flush = [f \in Flushes |-> "idle"]
    /\ flushVer = [f \in Flushes |-> 0]
    /\ flushGone = [f \in Flushes |-> {}]
    /\ promised = {} /\ unsure = {}

-----------------------------------------------------------------------------
(***************************************************************************)
(* Changing the map.  The caller holds inner's lock from the change until  *)
(* the Wake is sent, so only the persist task runs in between.             *)
(***************************************************************************)
Submit_OldWins(tokens) ==  \* a full mailbox keeps the older snapshot
    /\ ver < MaxVersion
    /\ inner' = tokens
    /\ ver' = ver + 1
    /\ pending' = IF pending = {} THEN {[ver |-> ver + 1, tokens |-> tokens]} ELSE pending
    /\ waking' = (pending = {})

\* The new map goes to the mailbox; only an empty mailbox needs a Wake.
Submit(tokens) ==
    /\ ver < MaxVersion
    /\ inner' = tokens
    /\ ver' = ver + 1
    /\ pending' = {[ver |-> ver + 1, tokens |-> tokens]}
    /\ waking' = (pending = {})

OffLock == UNCHANGED <<up, chan, taskVars, diskVars, flushVars, stops, lastOk, keyVars>>

\* `mint`: a fresh token.
Mint(t) ==
    /\ up /\ ~waking
    /\ t \notin minted
    /\ minted' = minted \union {t}
    /\ Submit(inner \union {t})
    /\ UNCHANGED expired /\ OffLock

\* `revoke`: a token that is not there changes nothing.
Revoke(t) ==
    /\ up /\ ~waking
    /\ t \in inner
    /\ Submit(inner \ {t})
    /\ UNCHANGED <<minted, expired>> /\ OffLock

\* `validate` of an expired token evicts it; any other call only reads.
Evict(t) ==
    /\ up /\ ~waking
    /\ t \in inner \intersect expired
    /\ Submit(inner \ {t})
    /\ UNCHANGED <<minted, expired>> /\ OffLock

SendWake ==
    /\ waking
    /\ waking' = FALSE
    /\ chan' = Append(chan, "wake")
    /\ UNCHANGED <<up, inner, ver, pending, taskVars, diskVars, minted, expired, flushVars,
                   stops, lastOk, keyVars>>

\* Time passes for a token that was handed out.
Expire(t) ==
    /\ t \in minted \ expired
    /\ expired' = expired \union {t}
    /\ UNCHANGED <<up, storeVars, chan, taskVars, diskVars, minted, flushVars, stops, lastOk, keyVars>>

-----------------------------------------------------------------------------
(***************************************************************************)
(* secrets.rs `update`: change a copy, write it atomically, then keep it,  *)
(* under one lock.  The write succeeds, fails with the old file in place,  *)
(* or fails with the new one in place.                                     *)
(***************************************************************************)
Written(next) ==
    /\ file' = next /\ contents' = next
    /\ UNCHANGED <<health, aside, failures>>

WriteFailed(next) ==
    /\ failures < MaxFailures
    /\ failures' = failures + 1
    /\ file' \in {file, next}
    /\ UNCHANGED <<contents, health, aside>>

\* `set_sessions` replaces the sessions and keeps the keys.
WithSessions(s) == [contents EXCEPT !.sessions = s]

\* A key is stored or deleted, and the sessions are kept.
WithKeys(keys) == [contents EXCEPT !.keys = keys]

\* `set_backend_secret` and `delete_backend_secret`.
ChangeKey(k, keys) ==
    LET next == WithKeys(keys) IN
    /\ up
    /\ \/ /\ Written(next)
          /\ promised' = IF k \in keys THEN promised \union {k} ELSE promised \ {k}
          /\ unsure' = unsure \ {k}
       \/ /\ WriteFailed(next)
          /\ UNCHANGED promised
          /\ unsure' = IF file' # file THEN unsure \union {k} ELSE unsure
    /\ UNCHANGED <<up, storeVars, chan, taskVars, minted, expired, flushVars, stops, lastOk>>

SetKey(k) == ChangeKey(k, contents.keys \union {k})
DeleteKey(k) == ChangeKey(k, contents.keys \ {k})

-----------------------------------------------------------------------------
(***************************************************************************)
(* The persist task.                                                       *)
(***************************************************************************)
\* The sender of an earlier flush's ack is dropped: its caller learns nothing.
Collect(m) ==
    IF m = "wake"
    THEN UNCHANGED <<ack, flush>>
    ELSE /\ ack' = {m}
         /\ flush' = [f \in Flushes |->
                        IF f \in ack \ {m} /\ flush[f] = "sent" THEN "unanswered" ELSE flush[f]]

TaskOnly == UNCHANGED <<up, inner, ver, waking, minted, expired, flushVer, flushGone, stops, keyVars>>

\* `rx.recv().await`.
Recv ==
    /\ up /\ task = "recv" /\ chan # <<>>
    /\ chan' = Tail(chan)
    /\ Collect(Head(chan))
    /\ task' = "drain"
    /\ TaskOnly /\ UNCHANGED <<pending, job, diskVars, lastOk>>

\* `rx.try_recv()` until the channel is empty.
Drain ==
    /\ up /\ task = "drain"
    /\ IF chan = <<>>
       THEN task' = "take" /\ UNCHANGED <<chan, ack, flush>>
       ELSE chan' = Tail(chan) /\ Collect(Head(chan)) /\ UNCHANGED task
    /\ TaskOnly /\ UNCHANGED <<pending, job, diskVars, lastOk>>

Take_Copies ==  \* leaves the snapshot in the mailbox
    /\ up /\ task = "take"
    /\ job' = pending
    /\ task' = IF pending = {} THEN "ack" ELSE "write"
    /\ TaskOnly /\ UNCHANGED <<chan, ack, flush, pending, diskVars, lastOk>>

Take_FlushSkipsWrite ==  \* a flush is acked without writing what was pending
    /\ up /\ task = "take"
    /\ job' = pending
    /\ pending' = {}
    /\ task' = IF pending = {} \/ ack # {} THEN "ack" ELSE "write"
    /\ TaskOnly /\ UNCHANGED <<chan, ack, flush, diskVars, lastOk>>

\* `pending.lock().take()`.
Take ==
    /\ up /\ task = "take"
    /\ job' = pending
    /\ pending' = {}
    /\ task' = IF pending = {} THEN "ack" ELSE "write"
    /\ TaskOnly /\ UNCHANGED <<chan, ack, flush, diskVars, lastOk>>

\* `persist_snapshot`: an error is logged and the snapshot is gone.
Persist ==
    /\ up /\ task = "write"
    /\ \E s \in job :
         \/ Written(WithSessions(s)) /\ lastOk' = TRUE
         \/ WriteFailed(WithSessions(s)) /\ lastOk' = FALSE
    /\ job' = {}
    /\ task' = "ack"
    /\ TaskOnly /\ UNCHANGED <<chan, ack, flush, pending>>

\* `ack.send(())`, which a caller that timed out no longer hears.
Ack ==
    /\ up /\ task = "ack"
    /\ flush' = [f \in Flushes |->
                    IF f \in ack /\ flush[f] = "sent"
                    THEN IF lastOk THEN "durable" ELSE "acked"
                    ELSE flush[f]]
    /\ ack' = {}
    /\ task' = "recv"
    /\ TaskOnly /\ UNCHANGED <<chan, job, pending, diskVars, lastOk>>

\* `flush_persisted_sessions` sends, then waits a bounded time.
Flush(f) ==
    /\ up /\ flush[f] = "idle"
    /\ flush' = [flush EXCEPT ![f] = "sent"]
    /\ flushVer' = [flushVer EXCEPT ![f] = ver]
    /\ flushGone' = [flushGone EXCEPT ![f] = minted \ inner]
    /\ chan' = Append(chan, f)
    /\ UNCHANGED <<up, storeVars, taskVars, diskVars, minted, expired, stops, lastOk, keyVars>>

FlushTimesOut(f) ==
    /\ flush[f] = "sent"
    /\ flush' = [flush EXCEPT ![f] = "unanswered"]
    /\ UNCHANGED <<up, storeVars, chan, taskVars, diskVars, minted, expired, flushVer, flushGone,
                   stops, lastOk, keyVars>>

-----------------------------------------------------------------------------
(***************************************************************************)
(* The process exits, orderly or not, and is started again.                *)
(***************************************************************************)
Stop ==
    /\ up /\ stops < MaxStops
    /\ stops' = stops + 1
    /\ up' = FALSE
    /\ inner' = {} /\ ver' = 0 /\ waking' = FALSE /\ pending' = {}
    /\ chan' = <<>> /\ task' = "recv" /\ ack' = {} /\ job' = {}
    /\ contents' = Empty
    /\ flush' = [f \in Flushes |-> IF flush[f] = "sent" THEN "unanswered" ELSE flush[f]]
    /\ UNCHANGED <<file, health, aside, failures, minted, expired, flushVer, flushGone, lastOk, keyVars>>

\* While the daemon is down the file may become unusable, or usable again.
Damage ==
    /\ ~up
    /\ health = "fine"
    /\ health' \in {"garbled", "unreadable"}
    /\ UNCHANGED <<up, storeVars, chan, taskVars, contents, file, aside, failures, minted, expired,
                   flushVars, stops, lastOk, keyVars>>

Repair ==
    /\ ~up /\ health = "unreadable"
    /\ health' = "fine"
    /\ UNCHANGED <<up, storeVars, chan, taskVars, contents, file, aside, failures, minted, expired,
                   flushVars, stops, lastOk, keyVars>>

\* `Secrets::at`, then `load_persisted`: the expired tokens are pruned, and the
\* pruned set is written back before the first request.
Load(found) ==
    LET live   == found.sessions.tokens \ expired
        pruned == [found EXCEPT !.sessions.tokens = live]
    IN  /\ up' = TRUE
        /\ inner' = live
        /\ ver' = found.sessions.ver
        /\ lastOk' = TRUE
        /\ \/ /\ live = found.sessions.tokens
              /\ file' = found /\ contents' = found /\ UNCHANGED failures
           \/ /\ live # found.sessions.tokens
              /\ file' = pruned /\ contents' = pruned /\ UNCHANGED failures
           \/ /\ live # found.sessions.tokens
              /\ failures < MaxFailures /\ failures' = failures + 1
              /\ file' \in {found, pruned} /\ contents' = found
        /\ UNCHANGED <<waking, pending, chan, taskVars, minted, expired, flushVars, stops>>

\* A file that does not parse is moved aside; the daemon starts with nothing.
SetAside ==
    /\ ~up /\ health = "garbled"
    /\ aside' = aside \union {file}
    /\ health' = "fine"
    /\ promised' = {} /\ unsure' = {}
    /\ Load(Empty)

Start_Whatever ==  \* a file that cannot be read counts as an empty one
    /\ ~up
    /\ health' = "fine"
    /\ IF health = "fine" THEN Load(file) ELSE Load(Empty)
    /\ UNCHANGED <<aside, promised, unsure>>

\* A file that cannot be read keeps the daemon from starting.
Start ==
    /\ ~up /\ health = "fine"
    /\ Load(file)
    /\ UNCHANGED <<health, aside, keyVars>>

TaskStep == Recv \/ Drain \/ Take \/ Persist \/ Ack

Next ==
    \/ \E t \in Tokens : Mint(t) \/ Revoke(t) \/ Evict(t) \/ Expire(t)
    \/ SendWake
    \/ \E k \in Keys : SetKey(k) \/ DeleteKey(k)
    \/ TaskStep
    \/ \E f \in Flushes : Flush(f) \/ FlushTimesOut(f)
    \/ Stop \/ Damage \/ Repair \/ SetAside \/ Start

\* The runtime keeps polling the persist task, a handler that holds the lock
\* goes on to send, and a flush's timer fires.
Fairness ==
    /\ WF_vars(TaskStep)
    /\ WF_vars(SendWake)
    /\ \A f \in Flushes : WF_vars(FlushTimesOut(f))

Spec == Init /\ [][Next]_vars
FairSpec == Spec /\ Fairness

-----------------------------------------------------------------------------
Wakes == {i \in DOMAIN chan : chan[i] = "wake"}

\* tokens.rs, persist_loop: "a new `submit` after this take re-arms `pending`
\* and sends a fresh Wake, so nothing is lost".  A snapshot in the mailbox
\* always has somebody on the way to it, though the Wake is sent after the
\* mailbox is unlocked and the task empties the mailbox on its own.
NoLostWakeup ==
    up /\ pending # {} => waking \/ Wakes # {} \/ task \in {"drain", "take"}

\* The mailbox holds the latest map, and nothing older than it is on its way
\* to the file after it: file <= the task's snapshot <= mailbox <= map.
LatestWins ==
    up => /\ \A s \in pending : s.ver = ver /\ s.tokens = inner
          /\ \A s \in job : contents.sessions.ver <= s.ver /\ s.ver <= ver
          /\ \A s \in job : pending # {} => s.ver < ver
          /\ contents.sessions.ver <= ver

\* When the task has nothing left to do and its last write succeeded, the file
\* holds the map: a restart at this point brings back the same sessions.
QuietMeansSaved ==
    up /\ task = "recv" /\ chan = <<>> /\ ~waking /\ lastOk
        => /\ file.sessions.ver = ver
           /\ file.sessions.tokens \ expired = inner \ expired

\* tokens.rs, `mint`: no order of handlers, task, failures and restarts may end
\* in "resurrecting a revoked token across restart".  A token that had left the
\* map when a flush was sent stays out of the map and of the file for good, once
\* that flush was acked and its write had succeeded.  (An expired token may stay
\* in the file when the pruned set could not be written; no load brings it back.)
NoResurrection ==
    \A f \in Flushes : flush[f] = "durable" =>
        /\ flushGone[f] \intersect inner = {}
        /\ flushGone[f] \intersect file.sessions.tokens \subseteq expired

\* A flush acked after a successful write is on disk, and stays there through
\* later writes of either kind, failures and restarts, unless the file was
\* damaged and set aside.
FlushIsDurable ==
    \A f \in Flushes : flush[f] = "durable" =>
        \E c \in {file} \union aside : c.sessions.ver >= flushVer[f]

\* The sessions and the keys share one file, and each writer rewrites all of
\* it: a key is in the file exactly when its last change that returned Ok set
\* it, whatever was written since.  (After an Err from behind the rename the
\* file may have either.)
KeysAsPromised == \A k \in Keys \ unsure : k \in file.keys <=> k \in promised

\* secrets.rs, `at`: "The daemon must not start then: its first write would
\* replace a file it never read."  What could not be read or parsed is
\* replaced only once it has been moved aside, whatever the daemon does next.
NeverReplacesUnread ==
    [][file' # file => health = "fine" \/ file \in aside']_vars

\* Writes land in the order of the changes: the file never goes back to an
\* older map, except after a write that failed behind the rename, or when a
\* file that does not parse is moved aside.
FileNeverGoesBack ==
    [][file'.sessions.ver >= file.sessions.ver
         \/ (up /\ file # contents) \/ health = "garbled"]_vars

\* Every change gets to the file in the end, unless a write fails or the
\* process stops first.
SavedInTheEnd ==
    \A v \in 1..MaxVersion :
        (up /\ ver >= v) ~> (~up \/ ~lastOk \/ file.sessions.ver >= v)

-----------------------------------------------------------------------------
=============================================================================
