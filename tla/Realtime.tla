------------------------------ MODULE Realtime ------------------------------
(***************************************************************************)
(* wasm/realtime.rs: one realtime session.  The guest holds a socket to    *)
(* its consumer (a bounded channel the endpoint's task fills) and opens    *)
(* one to its upstream; it waits on either or on both at once.  Asking     *)
(* whether a socket is readable takes a frame off it, which is parked for  *)
(* the recv that follows.                                                  *)
(*                                                                         *)
(* The consumer, the upstream and the guest are external.  A frame is its  *)
(* number on its socket.  Op_Fault is Op with a plausible bug.             *)
(***************************************************************************)
EXTENDS Egress, Sequences, SequencesExt

CONSTANTS Urls,          \* what the guest may connect to, as values of Egress
          SessionHosts,  \* the manifest's list
          SessionUser,   \* the user's entries, of the session's store
          CONSUMER_INCOMING_CAPACITY,
          MaxFrames      \* bound: frames sent on one socket

Sockets == {"consumer", "upstream"}

\* What recv may return besides the number of a frame.
Close == -1      \* the upstream's close frame
Failed == -2     \* WsError::RecvFailed
Closed == -3     \* WsError::Closed
NoFrame == 0
\* On the wire of the upstream only: a ping, and a connection that broke.
Ping == -4
Broken == -5

VARIABLES session,  \* whether the session is "none", "running" or "over"
          open,     \* the host's side of each socket is Some
          inbox,    \* what is on its way to the guest
          parked,   \* the lookahead
          waiting,  \* the sockets the guest waits on, and how: poll or recv
          far,      \* what the other side does: "talking" or "gone"
          sent,     \* history: frames the other side sent
          got       \* history: what recv returned

realtimeVars == <<session, open, inbox, parked, waiting, far, sent, got>>

NotWaiting == [how |-> "free", on |-> {}]

RealtimeInit ==
    /\ session = "none" /\ waiting = NotWaiting
    /\ open = [s \in Sockets |-> FALSE] /\ far = [s \in Sockets |-> "talking"]
    /\ inbox = [s \in Sockets |-> <<>>] /\ got = [s \in Sockets |-> <<>>]
    /\ parked = [s \in Sockets |-> NoFrame] /\ sent = [s \in Sockets |-> 0]

\* --------------------------------------------------------- the other sides ---

\* The endpoint's task awaits room in the channel; the upstream's socket has its own
\* buffers.
Room(s) == s = "consumer" => Len(inbox[s]) < CONSUMER_INCOMING_CAPACITY

SendFrame(s) ==
    /\ open[s] /\ far[s] = "talking" /\ sent[s] < MaxFrames /\ Room(s)
    /\ sent' = [sent EXCEPT ![s] = @ + 1]
    /\ inbox' = [inbox EXCEPT ![s] = Append(@, sent'[s])]
    /\ UNCHANGED <<session, open, parked, waiting, far, got>>

SendPing ==
    /\ open["upstream"] /\ far["upstream"] = "talking"
    /\ ~Contains(inbox["upstream"], Ping)
    /\ inbox' = [inbox EXCEPT !["upstream"] = Append(@, Ping)]
    /\ UNCHANGED <<session, open, parked, waiting, far, sent, got>>

\* The consumer just goes; the upstream goes, closes, or breaks and loses what it likes of
\* what was on its way.
HangUp(s, last, kept) ==
    /\ open[s] /\ far[s] = "talking" /\ (s = "consumer" => last = <<>>)
    /\ kept = Len(inbox[s]) \/ last = <<Broken>>
    /\ far' = [far EXCEPT ![s] = "gone"]
    /\ inbox' = [inbox EXCEPT ![s] = SubSeq(@, 1, kept) \o last]
    /\ UNCHANGED <<session, open, parked, waiting, sent, got>>

\* ------------------------------------------------------------- the session ---

StartSession ==
    /\ session = "none" /\ session' = "running"
    /\ open' = [open EXCEPT !["consumer"] = TRUE]
    /\ UNCHANGED <<inbox, parked, waiting, far, sent, got>>

MayConnect(url) ==
    /\ url.scheme \in {"ws", "wss"} /\ url.host # NoHost
    /\ CheckHostAllowed(SessionHosts, SessionUser, url.host,
                        IF url.port = 0 THEN DefaultPort(url.scheme) ELSE url.port, FALSE)

\* One upstream: a socket the guest dropped is not opened again.
Connect(url) ==
    /\ session = "running" /\ waiting = NotWaiting
    /\ ~open["upstream"] /\ far["upstream"] = "talking" /\ got["upstream"] = <<>>
    /\ MayConnect(url)
    /\ open' = [open EXCEPT !["upstream"] = TRUE]
    /\ UNCHANGED <<session, inbox, parked, waiting, far, sent, got>>

\* next_frame, when it can answer: the frame, the rest of the inbox, and whether the
\* socket stays Some.
Result(frame, rest, stays) == [frame |-> frame, rest |-> rest, stays |-> stays]

ConsumerFrame ==
    LET queue == inbox["consumer"]
    IN  IF queue # <<>> THEN {Result(Head(queue), Tail(queue), TRUE)}
        ELSE IF open["consumer"] /\ far["consumer"] = "talking" THEN {}
        ELSE {Result(Closed, <<>>, FALSE)}

\* Pings are read over; a close frame or an error ends the stream.
UpstreamFrame ==
    LET queue == inbox["upstream"]
        frames == {i \in DOMAIN queue : queue[i] # Ping}
        frame == queue[Min(frames)]
    IN  IF frames # {}
        THEN {Result(IF frame = Broken THEN Failed ELSE frame,
                     SubSeq(queue, Min(frames) + 1, Len(queue)), frame \notin {Close, Broken})}
        ELSE IF open["upstream"] /\ far["upstream"] = "talking" THEN {}
        ELSE {Result(Closed, <<>>, FALSE)}

NextFrame(s) == IF s = "consumer" THEN ConsumerFrame ELSE UpstreamFrame

\* The guest's calls.  A socket it never opened has no handle to wait on.
Opened == {"consumer"} \union
           {s \in {"upstream"} : open[s] \/ far[s] = "gone" \/ got[s] # <<>>}

Wait(how, on) ==
    /\ session = "running" /\ waiting = NotWaiting /\ on # {} /\ on \subseteq Opened
    /\ how = "recv" => Cardinality(on) = 1
    /\ waiting' = [how |-> how, on |-> on]
    /\ UNCHANGED <<session, open, inbox, parked, far, sent, got>>

Ready_Again(s, next) ==  \* ready reads on although a frame is parked
    /\ parked' = [parked EXCEPT ![s] = next.frame]
Ready(s, next) ==
    /\ parked[s] = NoFrame
    /\ parked' = [parked EXCEPT ![s] = next.frame]

\* A poll drives the readiness of all its sockets and may park a frame of each.
Park(s) ==
    /\ waiting.how = "poll" /\ s \in waiting.on
    /\ \E next \in NextFrame(s) :
         /\ Ready(s, next)
         /\ inbox' = [inbox EXCEPT ![s] = next.rest] /\ open' = [open EXCEPT ![s] = next.stays]
    /\ UNCHANGED <<session, waiting, far, sent, got>>

\* It returns when one is readable, and drops the other futures.
PollReturns ==
    /\ waiting.how = "poll" /\ \E s \in waiting.on : parked[s] # NoFrame
    /\ waiting' = NotWaiting
    /\ UNCHANGED <<session, open, inbox, parked, far, sent, got>>

\* What recv returns again and again after the end is recorded once.
Return(s, frame) ==
    got' = IF frame = Closed /\ got[s] # <<>> /\ Last(got[s]) = Closed
           THEN got ELSE [got EXCEPT ![s] = Append(@, frame)]

\* The parked frame first, then the socket.
Recv(s) ==
    /\ waiting.how = "recv" /\ s \in waiting.on
    /\ waiting' = NotWaiting
    /\ \/ /\ parked[s] # NoFrame /\ Return(s, parked[s])
          /\ parked' = [parked EXCEPT ![s] = NoFrame]
          /\ UNCHANGED <<inbox, open>>
       \/ /\ parked[s] = NoFrame /\ UNCHANGED parked
          /\ \E next \in NextFrame(s) :
               /\ Return(s, next.frame)
               /\ inbox' = [inbox EXCEPT ![s] = next.rest] /\ open' = [open EXCEPT ![s] = next.stays]
    /\ UNCHANGED <<session, far, sent>>

\* Close takes the stream, or both directions of the consumer's transport; what was on
\* its way is lost, and what is parked stays.
Shut(s) ==
    /\ session = "running" /\ waiting = NotWaiting /\ open[s]
    /\ open' = [open EXCEPT ![s] = FALSE] /\ inbox' = [inbox EXCEPT ![s] = <<>>]
    /\ far' = [far EXCEPT ![s] = "gone"]
    /\ UNCHANGED <<session, parked, waiting, sent, got>>
CloseUpstream == Shut("upstream")
CloseConsumer == Shut("consumer")

\* The handler returns: its store goes with all it holds.
SessionEnds ==
    /\ session = "running" /\ waiting = NotWaiting
    /\ session' = "over"
    /\ open' = [s \in Sockets |-> FALSE] /\ inbox' = [s \in Sockets |-> <<>>]
    /\ parked' = [s \in Sockets |-> NoFrame] /\ far' = [s \in Sockets |-> "gone"]
    /\ UNCHANGED <<waiting, sent, got>>

GuestCalls ==
    \/ \E on \in SUBSET Sockets : Wait("poll", on) \/ Wait("recv", on)
    \/ CloseUpstream \/ CloseConsumer
    \/ \E url \in Urls : Connect(url)
    \/ SessionEnds
HostAnswers == PollReturns \/ \E s \in Sockets : Park(s) \/ Recv(s)

RealtimeNext ==
    \/ StartSession \/ GuestCalls \/ HostAnswers \/ SendPing
    \/ \E s \in Sockets : SendFrame(s)
    \/ \E s \in Sockets, last \in {<<>>, <<Close>>, <<Broken>>} :
          \E kept \in 0 .. Len(inbox[s]) : HangUp(s, last, kept)

\* ------------------------------------------------------------ properties ---

\* The frames in seq are those from a + 1 to b, each once and in order.
Carries(seq, a, b) ==
    /\ \A i \in DOMAIN seq : seq[i] > 0 => seq[i] \in a + 1 .. b
    /\ \A x \in a + 1 .. b : \E i \in DOMAIN seq : seq[i] = x
    /\ \A i, j \in DOMAIN seq : i < j /\ seq[i] > 0 /\ seq[j] > 0 => seq[i] < seq[j]
ParkedFrame(s) == IF parked[s] > 0 THEN <<parked[s]>> ELSE <<>>

\* "every frame `ready` observes is still delivered by `recv`": what the guest received,
\* what is parked and what is on its way are together the first frames sent, each once and
\* in order, whichever sockets it polls and whichever futures a poll drops; and while a
\* socket is open and not broken they are all of them.
RelayInOrder ==
    \A s \in Sockets : \E n \in 0 .. sent[s] :
        /\ Carries(got[s] \o ParkedFrame(s) \o inbox[s], 0, n)
        /\ open[s] /\ ~Contains(inbox[s], Broken) => n = sent[s]

=============================================================================
