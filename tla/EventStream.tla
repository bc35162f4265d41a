---------------------------- MODULE EventStream -----------------------------
(***************************************************************************)
(* events.rs: one GET /events subscription.                                *)
(*                                                                         *)
(* The handler subscribes to each topic's ring and spawns a forwarder for  *)
(* it, then sends the `subscribed` ack, then spawns the task that keeps    *)
(* the stream alive and watches the peer's binary.  All of them push       *)
(* frames into one bounded channel that the client reads; a frame that     *)
(* finds it full is dropped.  The tasks run on several threads from the    *)
(* moment they are spawned and share a cancellation token.                 *)
(*                                                                         *)
(* Events of a topic are numbered from 1.  Op_Fault is Op with a plausible *)
(* bug.                                                                    *)
(***************************************************************************)
EXTENDS Integers, Sequences, FiniteSets

CONSTANTS Topics, Granted,  \* the topics, and those the token's scopes grant
          Ring,             \* depth of a topic's ring
          Capacity,         \* SSE_CHANNEL_CAPACITY
          MaxEvents         \* bound: how many events each topic has

ASSUME SizesAssumption ==
    /\ Granted \subseteq Topics
    /\ Ring \in Nat \ {0} /\ Capacity \in Nat \ {0} /\ MaxEvents \in [Topics -> Nat]
    /\ Topics \intersect {"subscribed", "keepalive", "revoked"} = {}

VARIABLES
    handler,    \* how far `stream` has come
    wanted,     \* the topics asked for
    published,  \* how many events each topic has had
    pos,        \* how many of them each receiver has taken or skipped
    task,       \* each topic's forwarder
    hand,       \* the event a forwarder has received and not yet sent, or 0
    watch,      \* the keepalive and exe-watch task
    cancelled,  \* the shared CancellationToken
    chan,       \* the frames in the channel
    open,       \* the response body exists: the client is connected
    seen,       \* the events of each topic the client has read
    closed,     \* the daemon has dropped the event bus
    hasPid,     \* the peer is a process, not a web page
    identity,   \* what the peer's binary looks like now
    revoked,    \* the session token has been revoked
    ackedAt,    \* history: published when the ack was sent, or -1
    shed        \* history: topics that lost an event to a full ring or channel

vars == <<handler, wanted, published, pos, task, hand, watch, cancelled, chan, open, seen,
          closed, hasPid, identity, revoked, ackedAt, shed>>

Frame(name, n) == [name |-> name, n |-> n]
Frames == [name : Topics \union {"subscribed", "keepalive", "revoked"}, n : Nat]

\* Only granted topics are subscribed, and the channel keeps to its capacity.
TypeOK ==
    /\ handler \in {"idle", "subscribing", "acked", "returned"}
    /\ wanted \subseteq Granted
    /\ published \in [Topics -> Nat] /\ pos \in [Topics -> Nat]
    /\ task \in [Topics -> {"none", "on", "done"}]
    /\ hand \in [Topics -> Nat]
    /\ watch \in {"none", "on", "revoking", "cancelling", "done"}
    /\ cancelled \in BOOLEAN /\ open \in BOOLEAN /\ closed \in BOOLEAN
    /\ hasPid \in BOOLEAN /\ revoked \in BOOLEAN
    /\ chan \in Seq(Frames) /\ Len(chan) <= Capacity
    /\ seen \in [Topics -> SUBSET Nat]
    /\ identity \in {"same", "other", "unreadable"}
    /\ ackedAt \in [Topics -> Nat \union {-1}]
    /\ shed \subseteq Topics

Init ==
    /\ handler = "idle" /\ wanted = {}
    /\ published = [t \in Topics |-> 0] /\ pos = [t \in Topics |-> 0]
    /\ task = [t \in Topics |-> "none"] /\ hand = [t \in Topics |-> 0]
    /\ watch = "none" /\ cancelled = FALSE
    /\ chan = <<>> /\ open = TRUE /\ seen = [t \in Topics |-> {}]
    /\ closed = FALSE /\ hasPid \in BOOLEAN
    /\ identity = "same" /\ revoked = FALSE
    /\ ackedAt = [t \in Topics |-> -1] /\ shed = {}

Full == Len(chan) >= Capacity

-----------------------------------------------------------------------------
\* parse_topics and the scope gate: a request for nothing, for an unknown topic
\* or for one that is not granted opens no stream.
Open(ts) ==
    /\ handler = "idle"
    /\ ts # {} /\ ts \subseteq Granted
    /\ wanted' = ts /\ handler' = "subscribing"
    /\ UNCHANGED <<published, pos, task, hand, watch, cancelled, chan, open, seen, closed,
                   hasPid, identity, revoked, ackedAt, shed>>

\* A receiver starts behind the last event, and its forwarder runs at once.
Subscribe(t) ==
    /\ handler = "subscribing" /\ t \in wanted /\ task[t] = "none"
    /\ pos' = [pos EXCEPT ![t] = published[t]]
    /\ task' = [task EXCEPT ![t] = "on"]
    /\ UNCHANGED <<handler, wanted, published, hand, watch, cancelled, chan, open, seen, closed,
                   hasPid, identity, revoked, ackedAt, shed>>

Ack_First ==
    /\ handler = "subscribing" /\ ackedAt = [t \in Topics |-> -1]
    /\ ackedAt' = published
    /\ chan' = IF Full THEN chan ELSE Append(chan, Frame("subscribed", 0))
    /\ handler' = IF \A t \in wanted : task[t] # "none" THEN "acked" ELSE handler
    /\ UNCHANGED <<wanted, published, pos, task, hand, watch, cancelled, open, seen, closed,
                   hasPid, identity, revoked, shed>>

\* The ack, once every topic is subscribed to.
Ack ==
    /\ handler = "subscribing" /\ \A t \in wanted : task[t] # "none"
    /\ ackedAt' = published
    /\ chan' = IF Full THEN chan ELSE Append(chan, Frame("subscribed", 0))
    /\ handler' = "acked"
    /\ UNCHANGED <<wanted, published, pos, task, hand, watch, cancelled, open, seen, closed,
                   hasPid, identity, revoked, shed>>

\* The watch task is spawned and the response returned.
Return ==
    /\ handler = "acked"
    /\ handler' = "returned" /\ watch' = "on"
    /\ UNCHANGED <<wanted, published, pos, task, hand, cancelled, chan, open, seen, closed,
                   hasPid, identity, revoked, ackedAt, shed>>

\* The daemon publishes an event.  (Those of the topics this subscription did not
\* ask for do not concern it.)
Publish(t) ==
    /\ t \in wanted /\ published[t] < MaxEvents[t] /\ ~closed
    /\ published' = [published EXCEPT ![t] = @ + 1]
    /\ UNCHANGED <<handler, wanted, pos, task, hand, watch, cancelled, chan, open, seen, closed,
                   hasPid, identity, revoked, ackedAt, shed>>

CloseBus ==
    /\ ~closed /\ closed' = TRUE
    /\ UNCHANGED <<handler, wanted, published, pos, task, hand, watch, cancelled, chan, open, seen,
                   hasPid, identity, revoked, ackedAt, shed>>

-----------------------------------------------------------------------------
\* The forwarder of t is at its `select!`.
AtSelect(t) == task[t] = "on" /\ hand[t] = 0

\* The next event, or where a receiver that was overrun goes on: RecvError::Lagged.
Recv(t) ==
    /\ AtSelect(t) /\ ~cancelled
    /\ pos[t] < published[t]
    /\ IF published[t] - pos[t] > Ring
       THEN /\ pos' = [pos EXCEPT ![t] = published[t] - Ring]
            /\ shed' = shed \union {t}
            /\ UNCHANGED hand
       ELSE /\ pos' = [pos EXCEPT ![t] = @ + 1]
            /\ hand' = [hand EXCEPT ![t] = pos[t] + 1]
            /\ UNCHANGED shed
    /\ UNCHANGED <<handler, wanted, published, task, watch, cancelled, chan, open, seen, closed,
                   hasPid, identity, revoked, ackedAt>>

\* try_emit_sse_event: sent, dropped, or the end of the forwarder.
Emit(t) ==
    /\ hand[t] # 0
    /\ hand' = [hand EXCEPT ![t] = 0]
    /\ IF open
       THEN /\ chan' = IF Full THEN chan ELSE Append(chan, Frame(t, hand[t]))
            /\ shed' = IF Full THEN shed \union {t} ELSE shed
            /\ UNCHANGED task
       ELSE /\ task' = [task EXCEPT ![t] = "done"]
            /\ UNCHANGED <<chan, shed>>
    /\ UNCHANGED <<handler, wanted, published, pos, watch, cancelled, open, seen, closed,
                   hasPid, identity, revoked, ackedAt>>

\* Cancelled, or the bus is gone and its ring read to the end.
Finish(t) ==
    /\ AtSelect(t)
    /\ cancelled \/ (closed /\ pos[t] = published[t])
    /\ task' = [task EXCEPT ![t] = "done"]
    /\ UNCHANGED <<handler, wanted, published, pos, hand, watch, cancelled, chan, open, seen, closed,
                   hasPid, identity, revoked, ackedAt, shed>>

Keepalive_NeverCancels ==
    /\ watch = "on" /\ ~cancelled
    /\ IF open
       THEN /\ chan' = IF Full THEN chan ELSE Append(chan, Frame("keepalive", 0))
            /\ UNCHANGED <<watch, cancelled>>
       ELSE watch' = "done" /\ UNCHANGED <<chan, cancelled>>
    /\ UNCHANGED <<handler, wanted, published, pos, task, hand, open, seen, closed,
                   hasPid, identity, revoked, ackedAt, shed>>

\* The keepalive tick: it finds out that the client has gone.
Keepalive ==
    /\ watch = "on" /\ ~cancelled
    /\ IF open
       THEN /\ chan' = IF Full THEN chan ELSE Append(chan, Frame("keepalive", 0))
            /\ UNCHANGED <<watch, cancelled>>
       ELSE cancelled' = TRUE /\ watch' = "done" /\ UNCHANGED chan
    /\ UNCHANGED <<handler, wanted, published, pos, task, hand, open, seen, closed,
                   hasPid, identity, revoked, ackedAt, shed>>

ExeWatch_SkipsFull ==
    /\ watch = "on" /\ ~cancelled /\ hasPid /\ identity # "same" /\ ~Full
    /\ chan' = IF ~open THEN chan ELSE Append(chan, Frame("revoked", 0))
    /\ watch' = "revoking"
    /\ UNCHANGED <<handler, wanted, published, pos, task, hand, cancelled, open, seen, closed,
                   hasPid, identity, revoked, ackedAt, shed>>

\* The exe-watch tick of a peer that is not the one the token was given to, or
\* cannot be identified: it says so,
ExeWatch ==
    /\ watch = "on" /\ ~cancelled /\ hasPid /\ identity # "same"
    /\ chan' = IF Full \/ ~open THEN chan ELSE Append(chan, Frame("revoked", 0))
    /\ watch' = "revoking"
    /\ UNCHANGED <<handler, wanted, published, pos, task, hand, cancelled, open, seen, closed,
                   hasPid, identity, revoked, ackedAt, shed>>

\* revokes the token,
Revoke ==
    /\ watch = "revoking"
    /\ revoked' = TRUE /\ watch' = "cancelling"
    /\ UNCHANGED <<handler, wanted, published, pos, task, hand, cancelled, chan, open, seen, closed,
                   hasPid, identity, ackedAt, shed>>

\* and cancels the forwarders.
CancelAll ==
    /\ watch = "cancelling"
    /\ cancelled' = TRUE /\ watch' = "done"
    /\ UNCHANGED <<handler, wanted, published, pos, task, hand, chan, open, seen, closed,
                   hasPid, identity, revoked, ackedAt, shed>>

-----------------------------------------------------------------------------
\* The client reads a frame.
Read ==
    /\ open /\ chan # <<>>
    /\ chan' = Tail(chan)
    /\ seen' = IF Head(chan).name \in Topics
               THEN [seen EXCEPT ![Head(chan).name] = @ \union {Head(chan).n}]
               ELSE seen
    /\ UNCHANGED <<handler, wanted, published, pos, task, hand, watch, cancelled, open, closed,
                   hasPid, identity, revoked, ackedAt, shed>>

\* The client goes away, and the channel with it.
Disconnect ==
    /\ open /\ handler = "returned"
    /\ open' = FALSE /\ chan' = <<>>
    /\ UNCHANGED <<handler, wanted, published, pos, task, hand, watch, cancelled, seen, closed,
                   hasPid, identity, revoked, ackedAt, shed>>

\* The binary is replaced for good, or /proc cannot be read for a while.
PeerChanges ==
    /\ identity # "other"
    /\ identity' \in {"same", "other", "unreadable"} \ {identity}
    /\ UNCHANGED <<handler, wanted, published, pos, task, hand, watch, cancelled, chan, open, seen,
                   closed, hasPid, revoked, ackedAt, shed>>

Forwarder(t) == Recv(t) \/ Emit(t) \/ Finish(t)
Subscriber == (\E t \in Topics : Subscribe(t)) \/ Ack \/ Return

Next ==
    \/ \E ts \in SUBSET Topics : Open(ts)
    \/ Subscriber
    \/ \E t \in Topics : Publish(t) \/ Forwarder(t)
    \/ CloseBus
    \/ Keepalive \/ ExeWatch \/ Revoke \/ CancelAll
    \/ Read \/ Disconnect \/ PeerChanges

\* Every task is polled, and each of the two timers keeps ticking (a select that
\* prefers the keepalive finds only the other one ready on its next turn).
Fairness ==
    /\ WF_vars(Subscriber)
    /\ \A t \in Topics : WF_vars(Forwarder(t))
    /\ WF_vars(Keepalive) /\ WF_vars(ExeWatch) /\ WF_vars(Revoke \/ CancelAll)

Spec == Init /\ [][Next]_vars
FairSpec == Spec /\ Fairness

-----------------------------------------------------------------------------
InChan(t) == {chan[i].n : i \in {i \in 1 .. Len(chan) : chan[i].name = t}}

\* The client reads the events of a topic in the order they were published, and
\* none twice.
InOrder ==
    \A t \in Topics :
        /\ \A i, j \in 1 .. Len(chan) :
              i < j /\ chan[i].name = t /\ chan[j].name = t => chan[i].n < chan[j].n
        /\ \A n \in InChan(t), m \in seen[t] : m < n

\* "once we send the `subscribed` ack the client is entitled to assume every
\* subsequent event reaches it": what a receiver has taken since the ack was read,
\* or is on its way, unless the topic shed something.
NoGapAfterAck ==
    \A t \in wanted \ shed : open /\ ackedAt[t] >= 0 =>
        \A n \in ackedAt[t] + 1 .. pos[t] : n \in seen[t] \union InChan(t) \union {hand[t]}

\* A peer whose binary was replaced loses its token and its stream, unless it is
\* gone before the next tick.
ChangedIsRevoked ==
    (watch = "on" /\ hasPid /\ identity = "other") ~> ((revoked /\ cancelled) \/ ~open)

\* However it ends, no task outlives the subscription.
TornDown ==
    (handler = "returned" /\ (~open \/ revoked))
        ~> (watch = "done" /\ \A t \in Topics : task[t] # "on")
=============================================================================
