-------------------------- MODULE MCClientSession --------------------------
(* The client.  ClientSession: calls and a subscription of one process that *)
(* need the same two scopes; the token file is absent, from a version that *)
(* asked for less, or holds a token of which the daemon honours fewer      *)
(* scopes than were granted.  EventWire: one connection of the             *)
(* subscription.  They share no state; `what` says which one a behaviour   *)
(* exercises.                                                              *)
EXTENDS ClientSession, EventWire

Both == {"status", "settings"}
MCNeed == [t \in Tasks |-> Both]
MCFiles == {NoRecord,
            [tok |-> 0, requested |-> {"status"}, granted |-> {"status"}],
            [tok |-> 0, requested |-> Both, granted |-> Both],
            [tok |-> 0, requested |-> Both, granted |-> {"status"}]}

VARIABLE what
subscriberVars == <<clientVars, wireVars, what>>

SubscriberInit ==
  /\ what \in {"session", "wire"} /\ ClientInit /\ WireInit
  /\ what = "wire" => file = NoRecord /\ valid = {}

SubscriberNext ==
  /\ UNCHANGED what
  /\ \/ what = "session" /\ ClientNext /\ UNCHANGED wireVars
     \/ what = "wire" /\ WireNext /\ UNCHANGED clientVars

OfSession(A) == what = "session" /\ A /\ UNCHANGED <<wireVars, what>>
SubscriberFairness ==
  /\ WF_subscriberVars(OfSession(ComesUp))
  /\ \A t \in Tasks:
       /\ WF_subscriberVars(OfSession(Obtains(t)))
       /\ SF_subscriberVars(OfSession(Queue(t)))
       /\ WF_subscriberVars(OfSession(Call(t) \/ OpenStream(t) \/ Backoff(t)))
  /\ \A s \in Streams: WF_subscriberVars(OfSession(Revoked(s) \/ Ended(s)))

SubscriberSpec == SubscriberInit /\ [][SubscriberNext]_subscriberVars /\ SubscriberFairness

(* Heals, of the behaviours in which the client's tasks run: the subscription reads a   *)
(* live stream for good or is blocked, and every call returns                            *)
(* (widget_subscription/mod.rs:4-28).                                                    *)
SubscriptionHeals == what = "session" => Heals

(* A token is presented only for scopes it was requested with, and the calls of a batch  *)
(* that starts without one cost a single dialog (session.rs:253-257).                    *)
AsksForWhatItNeeds == NeverShortOfScopes /\ BatchAsksOnce

(* Events come out whole and in order wherever the connection is cut into frames, and    *)
(* the reader gives up only a connection on which nothing came (http_client/sse.rs).     *)
StreamIsRead == FramedInOrder /\ GivesUpOnlyTheSilent
=============================================================================
