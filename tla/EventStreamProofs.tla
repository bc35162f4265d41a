------------------------- MODULE EventStreamProofs --------------------------
(***************************************************************************)
(* Proofs of the order and the completeness of a subscription, for any     *)
(* topics, ring depths and channel capacities.  An event is in one place   *)
(* at a time: behind the receiver's position it is with the forwarder, in  *)
(* the channel or with the client, and each place is ahead of the next.    *)
(* And of the client that reads it: what it asks the user for              *)
(* (ClientSession), and what it makes of one connection's bytes            *)
(* (EventWire).  There, what is buffered and what is under way is one      *)
(* sequence of whole blocks, wherever the body is cut, and the blocks that *)
(* follow those already told; a keepalive that is due is in it.            *)
(***************************************************************************)
EXTENDS EventStream, MCClientSession, SequenceTheorems, FiniteSetTheorems, WellFoundedInduction, TLAPS

Held == \A t \in Topics : pos[t] <= published[t] /\ hand[t] \in {0, pos[t]}

\* What is in the channel, or was read, is behind what the forwarder holds.
ChanBehind == \A i \in 1 .. Len(chan), t \in Topics : chan[i].name = t =>
    chan[i].n <= pos[t] /\ (hand[t] # 0 => chan[i].n < hand[t])
SeenBehind == \A t \in Topics : \A n \in seen[t] :
    n <= pos[t] /\ (hand[t] # 0 => n < hand[t])

Ascending == \A i, j \in 1 .. Len(chan), t \in Topics :
    i < j /\ chan[i].name = t /\ chan[j].name = t => chan[i].n < chan[j].n
ReadFirst == \A i \in 1 .. Len(chan), t \in Topics : chan[i].name = t =>
    \A m \in seen[t] : m < chan[i].n

AckedLast == handler \in {"idle", "subscribing"} => \A t \in Topics : ackedAt[t] = -1

Queued(t, n) == \E i \in 1 .. Len(chan) : chan[i].name = t /\ chan[i].n = n

\* NoGapAfterAck, with the place in the channel named.
Complete == \A t \in wanted \ shed : open /\ ackedAt[t] >= 0 =>
    \A n \in Nat : ackedAt[t] < n /\ n <= pos[t] =>
        n \in seen[t] \/ n = hand[t] \/ Queued(t, n)

IInv == /\ TypeOK /\ Held /\ ChanBehind /\ SeenBehind /\ Ascending /\ ReadFirst
        /\ AckedLast /\ Complete

\* Only a running forwarder holds an event.
Idle == \A t \in Topics : task[t] # "on" => hand[t] = 0

Controls == {"subscribed", "keepalive", "revoked"}

-----------------------------------------------------------------------------
\* A subscription starts with nothing published, read or under way.
LEMMA InitIInv == Init => IInv
  <1> SUFFICES ASSUME Init PROVE IInv
    OBVIOUS
  <1>1. TypeOK
    <2>1. chan \in Seq(Frames) /\ Len(chan) <= Capacity
      BY SizesAssumption DEF Init
    <2>2. /\ published \in [Topics -> Nat] /\ pos \in [Topics -> Nat]
          /\ hand \in [Topics -> Nat] /\ seen \in [Topics -> SUBSET Nat]
          /\ ackedAt \in [Topics -> Nat \union {-1}]
          /\ task \in [Topics -> {"none", "on", "done"}]
      BY DEF Init
    <2> QED
      BY <2>1, <2>2 DEF Init, TypeOK
  <1>2. Held /\ ChanBehind /\ SeenBehind /\ Ascending /\ ReadFirst /\ AckedLast /\ Complete
    BY DEF Init, Held, ChanBehind, SeenBehind, Ascending, ReadFirst, AckedLast, Complete
  <1> QED
    BY <1>1, <1>2 DEF IInv

\* A control frame (try_emit_sse_event of the ack, a keepalive, a revocation)
\* goes behind the events in the channel and is none itself.
LEMMA ControlFrame ==
    ASSUME IInv, NEW c \in Controls,
           chan' = chan \/ (~Full /\ chan' = Append(chan, Frame(c, 0))),
           UNCHANGED <<published, pos, hand, seen>>
    PROVE  /\ chan' \in Seq(Frames) /\ Len(chan') <= Capacity
           /\ Held' /\ ChanBehind' /\ SeenBehind' /\ Ascending' /\ ReadFirst'
           /\ \A t \in Topics, n \in Nat : Queued(t, n) => Queued(t, n)'
  <1> USE DEF IInv, TypeOK, Controls
  <1>1. CASE chan' = chan
    BY <1>1 DEF Held, ChanBehind, SeenBehind, Ascending, ReadFirst, Queued
  <1>2. CASE ~Full /\ chan' = Append(chan, Frame(c, 0))
    <2>1. Frame(c, 0) \in Frames /\ Frame(c, 0).name \notin Topics
      BY SizesAssumption DEF Frame, Frames
    <2>2. /\ chan' \in Seq(Frames) /\ Len(chan') = Len(chan) + 1
          /\ \A i \in 1 .. Len(chan) : chan'[i] = chan[i]
          /\ chan'[Len(chan) + 1] = Frame(c, 0)
      BY <1>2, <2>1
    <2>3. Len(chan') <= Capacity
      BY <1>2, <2>2, SizesAssumption DEF Full
    <2>4. Held' /\ SeenBehind'
      BY DEF Held, SeenBehind
    <2>5. \A i \in 1 .. Len(chan') : chan'[i].name \in Topics => i \in 1 .. Len(chan)
      BY <2>1, <2>2
    <2>6. ChanBehind'
      BY <2>2, <2>5 DEF ChanBehind
    <2>7. Ascending'
      BY <2>2, <2>5 DEF Ascending
    <2>8. ReadFirst'
      BY <2>2, <2>5 DEF ReadFirst
    <2> QED
      BY <2>2, <2>3, <2>4, <2>6, <2>7, <2>8 DEF Queued
  <1> QED
    BY <1>1, <1>2

\* The steps of the handler and of the watch task.
LEMMA ControlSteps ==
    ASSUME IInv, Ack \/ Keepalive \/ ExeWatch
    PROVE  IInv'
  <1>1. PICK c \in Controls : chan' = chan \/ (~Full /\ chan' = Append(chan, Frame(c, 0)))
    BY DEF Ack, Keepalive, ExeWatch, Controls
  <1>2. UNCHANGED <<published, pos, hand, seen, wanted, shed, open>>
    BY DEF Ack, Keepalive, ExeWatch
  <1>3. /\ chan' \in Seq(Frames) /\ Len(chan') <= Capacity
        /\ Held' /\ ChanBehind' /\ SeenBehind' /\ Ascending' /\ ReadFirst'
        /\ \A t \in Topics, n \in Nat : Queued(t, n) => Queued(t, n)'
    BY <1>1, <1>2, ControlFrame
  <1>4. CASE Ack
    <2>1. TypeOK'
      BY <1>3, <1>4 DEF Ack, IInv, TypeOK
    <2>2. AckedLast'
      BY <1>4 DEF Ack, AckedLast
    <2>3. Complete'
      BY <1>2, <1>4, SizesAssumption DEF Ack, IInv, TypeOK, Held, Complete
    <2> QED
      BY <1>3, <2>1, <2>2, <2>3 DEF IInv
  <1>5. CASE Keepalive \/ ExeWatch
    <2>1. TypeOK'
      BY <1>3, <1>5 DEF Keepalive, ExeWatch, IInv, TypeOK
    <2>2. handler' = handler /\ ackedAt' = ackedAt
      BY <1>5 DEF Keepalive, ExeWatch
    <2>3. AckedLast'
      BY <2>2 DEF IInv, AckedLast
    <2>4. Complete'
      BY <1>2, <1>3, <2>2, SizesAssumption DEF IInv, TypeOK, Complete
    <2> QED
      BY <1>3, <2>1, <2>3, <2>4 DEF IInv
  <1> QED
    BY <1>4, <1>5

\* What the steps below need of the types.
Typed ==
    /\ wanted \subseteq Topics
    /\ published \in [Topics -> Nat] /\ pos \in [Topics -> Nat] /\ hand \in [Topics -> Nat]
    /\ chan \in Seq(Frames) /\ seen \in [Topics -> SUBSET Nat]
    /\ ackedAt \in [Topics -> Nat \union {-1}]

LEMMA TypesOfIInv == IInv => Typed
  BY SizesAssumption DEF IInv, TypeOK, Typed

\* recv_json_str: the next event goes to the forwarder, or the ring overran it.
LEMMA RecvStep ==
    ASSUME IInv, NEW t \in Topics, Recv(t)
    PROVE  IInv'
  <1>1. Typed /\ Held /\ ChanBehind /\ SeenBehind /\ Ascending /\ ReadFirst /\ AckedLast /\ Complete
    BY TypesOfIInv DEF IInv
  <1>2. /\ hand[t] = 0 /\ pos[t] < published[t]
        /\ UNCHANGED <<handler, wanted, published, chan, open, seen, ackedAt>>
    BY DEF Recv, AtSelect
  <1>3. \E p \in Nat : /\ pos' = [pos EXCEPT ![t] = p]
                       /\ pos[t] < p /\ p <= published[t]
                       /\ \/ hand' = hand /\ shed' = shed \union {t}
                          \/ hand' = [hand EXCEPT ![t] = p] /\ p = pos[t] + 1 /\ shed' = shed
    <2>0. pos[t] \in Nat /\ published[t] \in Nat /\ Ring \in Nat
      BY <1>1, SizesAssumption DEF Typed
    <2>1. CASE published[t] - pos[t] > Ring
      <3>1. published[t] - Ring \in Nat /\ pos[t] < published[t] - Ring /\ published[t] - Ring <= published[t]
        BY <2>0, <2>1
      <3>2. /\ pos' = [pos EXCEPT ![t] = published[t] - Ring]
            /\ hand' = hand /\ shed' = shed \union {t}
        BY <2>1 DEF Recv
      <3> QED
        BY <3>1, <3>2
    <2>2. CASE ~(published[t] - pos[t] > Ring)
      <3>1. pos[t] + 1 \in Nat /\ pos[t] < pos[t] + 1 /\ pos[t] + 1 <= published[t]
        BY <1>2, <2>0
      <3>2. /\ pos' = [pos EXCEPT ![t] = pos[t] + 1]
            /\ hand' = [hand EXCEPT ![t] = pos[t] + 1] /\ shed' = shed
        BY <2>2 DEF Recv
      <3> QED
        BY <3>1, <3>2
    <2> QED
      BY <2>1, <2>2
  <1>4. PICK p \in Nat : /\ pos' = [pos EXCEPT ![t] = p]
                         /\ pos[t] < p /\ p <= published[t]
                         /\ \/ hand' = hand /\ shed' = shed \union {t}
                            \/ hand' = [hand EXCEPT ![t] = p] /\ p = pos[t] + 1 /\ shed' = shed
    BY <1>3
  <1>5. TypeOK'
    <2>1. pos' \in [Topics -> Nat] /\ hand' \in [Topics -> Nat] /\ shed' \subseteq Topics
      BY <1>1, <1>4 DEF Typed, IInv, TypeOK
    <2>2. UNCHANGED <<handler, wanted, published, task, watch, cancelled, chan, open, seen, closed,
                      hasPid, identity, revoked, ackedAt>>
      BY DEF Recv
    <2> QED
      BY <2>1, <2>2 DEF IInv, TypeOK
  <1>6. Held' /\ Ascending' /\ ReadFirst' /\ AckedLast'
    BY <1>1, <1>2, <1>4 DEF Typed, Held, Ascending, ReadFirst, AckedLast
  <1>7. ChanBehind'
    <2> SUFFICES ASSUME NEW i \in 1 .. Len(chan), NEW u \in Topics, chan[i].name = u
                 PROVE  chan[i].n <= pos'[u] /\ (hand'[u] # 0 => chan[i].n < hand'[u])
      BY <1>2 DEF ChanBehind
    <2>1. chan[i].n \in Nat
      <3>1. chan[i] \in Frames
        BY <1>1 DEF Typed
      <3> QED
        BY <3>1 DEF Frames
    <2>2. chan[i].n <= pos[u] /\ (hand[u] # 0 => chan[i].n < hand[u])
      BY <1>1 DEF ChanBehind
    <2> QED
      BY <1>1, <1>2, <1>4, <2>1, <2>2 DEF Typed
  <1>8. SeenBehind'
    BY <1>1, <1>2, <1>4 DEF Typed, SeenBehind
  <1>9. \A u \in Topics, n \in Nat : Queued(u, n) => Queued(u, n)'
    BY <1>2 DEF Queued
  <1>10. Complete'
    <2> SUFFICES ASSUME NEW u \in wanted \ shed', open, ackedAt[u] >= 0,
                        NEW n \in Nat, ackedAt[u] < n, n <= pos'[u]
                 PROVE  n \in seen[u] \/ n = hand'[u] \/ Queued(u, n)'
      BY <1>2 DEF Complete
    <2>1. u \in Topics /\ u \in wanted \ shed
      BY <1>1, <1>4 DEF Typed
    <2>2. n <= pos[u] => n \in seen[u] \/ n = hand[u] \/ Queued(u, n)
      BY <1>1, <2>1 DEF Complete
    <2>3. CASE u = t
      <3>1. hand' = [hand EXCEPT ![t] = p] /\ p = pos[t] + 1 /\ hand'[t] = p /\ pos'[t] = p
        BY <1>1, <1>4, <2>1, <2>3 DEF Typed
      <3>2. CASE n = p
        BY <2>3, <3>1, <3>2
      <3>3. CASE n # p
        <4>1. n <= pos[t] /\ n # 0
          <5>1. pos[t] \in Nat /\ ackedAt[u] \in Int
            BY <1>1, <2>1 DEF Typed
          <5> QED
            BY <2>3, <3>1, <3>3, <5>1
        <4> QED
          BY <1>2, <1>9, <2>1, <2>2, <2>3, <4>1
      <3> QED
        BY <3>2, <3>3
    <2>4. CASE u # t
      BY <1>1, <1>4, <1>9, <2>1, <2>2, <2>4 DEF Typed
    <2> QED
      BY <2>3, <2>4
  <1> QED
    BY <1>5, <1>6, <1>7, <1>8, <1>10 DEF IInv

\* try_emit_sse_event of an event: sent behind the older ones, shed, or the end.
LEMMA EmitStep ==
    ASSUME IInv, NEW t \in Topics, Emit(t)
    PROVE  IInv'
  <1>1. Typed /\ Held /\ ChanBehind /\ SeenBehind /\ Ascending /\ ReadFirst /\ AckedLast /\ Complete
    BY TypesOfIInv DEF IInv
  <1>2. PICK h \in Nat : h = hand[t]
    BY <1>1 DEF Typed
  <1>3. /\ h # 0 /\ h = pos[t] /\ hand' = [hand EXCEPT ![t] = 0]
        /\ UNCHANGED <<handler, wanted, published, pos, open, seen, ackedAt>>
    BY <1>1, <1>2 DEF Emit, Held
  <1>4. Held' /\ SeenBehind' /\ AckedLast'
    BY <1>1, <1>2, <1>3 DEF Typed, Held, SeenBehind, AckedLast
  <1>5. hand' \in [Topics -> Nat] /\ task' \in [Topics -> {"none", "on", "done"}] /\ shed' \subseteq Topics
    <2>1. hand' \in [Topics -> Nat]
      BY <1>1, <1>3 DEF Typed
    <2>2. task \in [Topics -> {"none", "on", "done"}] /\ shed \subseteq Topics
      BY DEF IInv, TypeOK
    <2>3. CASE open
      BY <2>1, <2>2, <2>3 DEF Emit
    <2>4. CASE ~open
      BY <2>1, <2>2, <2>4 DEF Emit
    <2> QED
      BY <2>3, <2>4
  <1>6. UNCHANGED <<handler, wanted, published, pos, watch, cancelled, open, seen, closed,
                    hasPid, identity, revoked, ackedAt>>
    BY DEF Emit
  <1>7. CASE chan' = chan /\ (open => t \in shed') /\ shed \subseteq shed'
    <2>1. TypeOK'
      BY <1>5, <1>6, <1>7 DEF IInv, TypeOK
    <2>2. ChanBehind' /\ Ascending' /\ ReadFirst'
      BY <1>1, <1>2, <1>3, <1>7 DEF Typed, ChanBehind, Ascending, ReadFirst
    <2>3. \A u \in Topics, n \in Nat : Queued(u, n) => Queued(u, n)'
      BY <1>7 DEF Queued
    <2>4. Complete'
      BY <1>1, <1>3, <1>7, <2>3 DEF Typed, Complete
    <2> QED
      BY <1>4, <2>1, <2>2, <2>4 DEF IInv
  <1>8. CASE ~Full /\ chan' = Append(chan, Frame(t, h)) /\ shed' = shed
    <2>1. Frame(t, h) \in Frames /\ Frame(t, h).name = t /\ Frame(t, h).n = h
      BY DEF Frame, Frames
    <2>2. /\ chan' \in Seq(Frames) /\ Len(chan) \in Nat /\ Len(chan') = Len(chan) + 1
          /\ \A i \in 1 .. Len(chan) : chan'[i] = chan[i]
          /\ chan'[Len(chan) + 1].name = t /\ chan'[Len(chan) + 1].n = h
      BY <1>1, <1>8, <2>1 DEF Typed
    <2>3. TypeOK'
      <3>1. Len(chan') <= Capacity
        BY <1>8, <2>2, SizesAssumption DEF Full
      <3> QED
        BY <1>5, <1>6, <2>2, <3>1 DEF IInv, TypeOK
    <2>4. \A i \in 1 .. Len(chan) : chan[i].name = t => chan[i].n < h
      BY <1>1, <1>2, <1>3 DEF ChanBehind
    <2>5. \A m \in seen[t] : m < h
      BY <1>1, <1>2, <1>3 DEF SeenBehind
    <2>6. \A i \in 1 .. Len(chan') : i \in 1 .. Len(chan) \/ i = Len(chan) + 1
      BY <2>2
    <2>7. ChanBehind'
      <3> SUFFICES ASSUME NEW i \in 1 .. Len(chan'), NEW u \in Topics, chan'[i].name = u
                   PROVE  chan'[i].n <= pos[u] /\ (hand'[u] # 0 => chan'[i].n < hand'[u])
        BY <1>3 DEF ChanBehind
      <3>1. CASE i = Len(chan) + 1
        BY <1>1, <1>3, <2>2, <3>1 DEF Typed
      <3>2. CASE i \in 1 .. Len(chan)
        BY <1>1, <1>3, <2>2, <3>2 DEF Typed, ChanBehind
      <3> QED
        BY <2>6, <3>1, <3>2
    <2>8. Ascending'
      <3> SUFFICES ASSUME NEW i \in 1 .. Len(chan'), NEW j \in 1 .. Len(chan'), NEW u \in Topics,
                          i < j, chan'[i].name = u, chan'[j].name = u
                   PROVE  chan'[i].n < chan'[j].n
        BY DEF Ascending
      <3>1. i \in 1 .. Len(chan)
        BY <2>2, <2>6
      <3>2. CASE j = Len(chan) + 1
        BY <2>2, <2>4, <3>1, <3>2
      <3>3. CASE j \in 1 .. Len(chan)
        BY <1>1, <2>2, <3>1, <3>3 DEF Ascending
      <3> QED
        BY <2>6, <3>2, <3>3
    <2>9. ReadFirst'
      <3> SUFFICES ASSUME NEW i \in 1 .. Len(chan'), NEW u \in Topics, chan'[i].name = u,
                          NEW m \in seen[u]
                   PROVE  m < chan'[i].n
        BY <1>3 DEF ReadFirst
      <3>1. CASE i = Len(chan) + 1
        BY <2>2, <2>5, <3>1
      <3>2. CASE i \in 1 .. Len(chan)
        BY <1>1, <2>2, <3>2 DEF ReadFirst
      <3> QED
        BY <2>6, <3>1, <3>2
    <2>10. (\A u \in Topics, n \in Nat : Queued(u, n) => Queued(u, n)') /\ Queued(t, h)'
      BY <2>2 DEF Queued
    <2>11. Complete'
      BY <1>1, <1>2, <1>3, <1>8, <2>10 DEF Typed, Complete
    <2> QED
      BY <1>4, <2>3, <2>7, <2>8, <2>9, <2>11 DEF IInv
  <1> QED
    BY <1>2, <1>7, <1>8 DEF Emit

\* The client takes the oldest frame, so what is left is behind what it has read.
LEMMA ReadStep ==
    ASSUME IInv, Read
    PROVE  IInv'
  <1>1. Typed /\ Held /\ ChanBehind /\ SeenBehind /\ Ascending /\ ReadFirst /\ AckedLast /\ Complete
    BY TypesOfIInv DEF IInv
  <1>2. /\ chan # <<>> /\ chan' = Tail(chan)
        /\ UNCHANGED <<handler, wanted, published, pos, task, hand, watch, cancelled, open, closed,
                       hasPid, identity, revoked, ackedAt, shed>>
    BY DEF Read
  <1>3. /\ chan' \in Seq(Frames) /\ Len(chan) \in Nat /\ Len(chan) >= 1 /\ Len(chan') = Len(chan) - 1
        /\ \A i \in 1 .. Len(chan') : chan'[i] = chan[i + 1] /\ i + 1 \in 1 .. Len(chan)
        /\ Head(chan) = chan[1] /\ chan[1] \in Frames
    BY <1>1, <1>2 DEF Typed
  <1>4. PICK f \in Frames : f = chan[1]
    BY <1>3
  <1>5. f.n \in Nat
    BY DEF Frames
  <1>6. /\ f.name \in Topics => seen' = [seen EXCEPT ![f.name] = @ \union {f.n}]
        /\ f.name \notin Topics => seen' = seen
    BY <1>3, <1>4 DEF Read
  <1>7. seen' \in [Topics -> SUBSET Nat]
    BY <1>1, <1>5, <1>6 DEF Typed
  <1>8. \A t \in Topics : \A m \in seen'[t] : m \in seen[t] \/ (f.name = t /\ m = f.n)
    <2>1. CASE f.name \in Topics
      <3> SUFFICES ASSUME NEW t \in Topics, NEW m \in seen'[t]
                   PROVE  m \in seen[t] \/ (f.name = t /\ m = f.n)
        OBVIOUS
      <3>1. seen \in [Topics -> SUBSET Nat] /\ seen' = [seen EXCEPT ![f.name] = @ \union {f.n}]
        BY <1>1, <1>6, <2>1 DEF Typed
      <3>2. CASE t = f.name
        BY <2>1, <3>1, <3>2
      <3>3. CASE t # f.name
        BY <2>1, <3>1, <3>3
      <3> QED
        BY <3>2, <3>3
    <2>2. CASE f.name \notin Topics
      BY <1>6, <2>2
    <2> QED
      BY <2>1, <2>2
  <1>9. TypeOK'
    <2>1. Len(chan') <= Capacity
      BY <1>3, SizesAssumption DEF IInv, TypeOK
    <2> QED
      BY <1>2, <1>3, <1>7, <2>1 DEF IInv, TypeOK
  <1>10. Held' /\ AckedLast'
    BY <1>1, <1>2 DEF Held, AckedLast
  <1>11. ChanBehind'
    BY <1>1, <1>2, <1>3 DEF ChanBehind
  <1>12. SeenBehind'
    <2> SUFFICES ASSUME NEW t \in Topics, NEW m \in seen'[t]
                 PROVE  m <= pos[t] /\ (hand[t] # 0 => m < hand[t])
      BY <1>2 DEF SeenBehind
    <2>1. CASE m \in seen[t]
      BY <1>1, <2>1 DEF SeenBehind
    <2>2. CASE f.name = t /\ m = f.n
      BY <1>1, <1>3, <1>4, <2>2 DEF ChanBehind
    <2> QED
      BY <1>8, <2>1, <2>2
  <1>13. Ascending'
    <2> SUFFICES ASSUME NEW i \in 1 .. Len(chan'), NEW j \in 1 .. Len(chan'), NEW t \in Topics,
                        i < j, chan'[i].name = t, chan'[j].name = t
                 PROVE  chan'[i].n < chan'[j].n
      BY DEF Ascending
    <2>1. i + 1 \in 1 .. Len(chan) /\ j + 1 \in 1 .. Len(chan) /\ i + 1 < j + 1
      BY <1>3
    <2>2. chan'[i] = chan[i + 1] /\ chan'[j] = chan[j + 1]
      BY <1>3
    <2> QED
      BY <1>1, <2>1, <2>2 DEF Ascending
  <1>14. ReadFirst'
    <2> SUFFICES ASSUME NEW i \in 1 .. Len(chan'), NEW t \in Topics, chan'[i].name = t,
                        NEW m \in seen'[t]
                 PROVE  m < chan'[i].n
      BY DEF ReadFirst
    <2>1. i + 1 \in 1 .. Len(chan) /\ 1 < i + 1 /\ chan'[i] = chan[i + 1]
      BY <1>3
    <2>2. CASE m \in seen[t]
      BY <1>1, <2>1, <2>2 DEF ReadFirst
    <2>3. CASE f.name = t /\ m = f.n
      <3>1. 1 \in 1 .. Len(chan)
        BY <1>3
      <3> QED
        BY <1>1, <1>4, <2>1, <2>3, <3>1 DEF Ascending
    <2> QED
      BY <1>8, <2>2, <2>3
  <1>15. Complete'
    <2> SUFFICES ASSUME NEW t \in wanted \ shed, open, ackedAt[t] >= 0,
                        NEW n \in Nat, ackedAt[t] < n, n <= pos[t]
                 PROVE  n \in seen'[t] \/ n = hand[t] \/ Queued(t, n)'
      BY <1>2 DEF Complete
    <2>1. t \in Topics
      BY <1>1 DEF Typed
    <2>2. n \in seen[t] \/ n = hand[t] \/ Queued(t, n)
      BY <1>1 DEF Complete
    <2>3. seen[t] \subseteq seen'[t]
      BY <1>1, <1>6, <2>1 DEF Typed
    <2>4. CASE Queued(t, n)
      <3>1. PICK i \in 1 .. Len(chan) : chan[i].name = t /\ chan[i].n = n
        BY <2>4 DEF Queued
      <3>2. CASE i = 1
        <4>1. f.name = t /\ f.n = n
          BY <1>4, <3>1, <3>2
        <4> QED
          BY <1>1, <1>6, <2>1, <4>1 DEF Typed
      <3>3. CASE i # 1
        <4>1. i - 1 \in 1 .. Len(chan') /\ chan'[i - 1] = chan[i]
          BY <1>3, <3>3
        <4> QED
          BY <3>1, <4>1 DEF Queued
      <3> QED
        BY <3>2, <3>3
    <2> QED
      BY <2>2, <2>3, <2>4
  <1> QED
    BY <1>9, <1>10, <1>11, <1>12, <1>13, <1>14, <1>15 DEF IInv

\* The channel goes with the client: nothing is promised any more.
LEMMA DisconnectStep ==
    ASSUME IInv, Disconnect
    PROVE  IInv'
  <1>1. /\ chan' = <<>> /\ Len(chan') = 0 /\ open' = FALSE
        /\ UNCHANGED <<handler, wanted, published, pos, task, hand, watch, cancelled, seen, closed,
                       hasPid, identity, revoked, ackedAt, shed>>
    BY DEF Disconnect
  <1>2. chan' \in Seq(Frames) /\ Len(chan') <= Capacity
    BY <1>1, SizesAssumption
  <1>3. TypeOK'
    BY <1>1, <1>2, ZenonT(60) DEF IInv, TypeOK
  <1>4. ChanBehind' /\ Ascending' /\ ReadFirst'
    BY <1>1 DEF ChanBehind, Ascending, ReadFirst
  <1>5. Held' /\ SeenBehind' /\ AckedLast' /\ Complete'
    BY <1>1 DEF IInv, Held, SeenBehind, AckedLast, Complete
  <1> QED
    BY <1>3, <1>4, <1>5 DEF IInv

\* The steps that touch no event on its way: all that can move is how much was
\* published, how far a task or the handler is, and where a receiver starts.
LEMMA QuietStep ==
    ASSUME IInv, TypeOK', UNCHANGED <<hand, chan, open, seen, ackedAt, shed>>,
           \/ UNCHANGED <<pos, wanted, handler>>
           \/ UNCHANGED pos /\ handler \in {"idle", "acked"} /\ handler' \notin {"idle"}
              /\ (handler = "acked" => handler' = "returned" /\ wanted' = wanted),
           \A t \in Topics : published[t] <= published'[t]
    PROVE  IInv'
  <1>1. Typed /\ Typed' /\ Held /\ ChanBehind /\ SeenBehind /\ Ascending /\ ReadFirst /\ AckedLast /\ Complete
    BY TypesOfIInv, SizesAssumption DEF IInv, TypeOK, Typed
  <1>2. pos' = pos
    OBVIOUS
  <1>3. Held'
    BY <1>1, <1>2 DEF Typed, Held
  <1>4. ChanBehind' /\ SeenBehind' /\ Ascending' /\ ReadFirst'
    BY <1>1, <1>2 DEF ChanBehind, SeenBehind, Ascending, ReadFirst
  <1>5. AckedLast'
    BY <1>1 DEF AckedLast
  <1>6. \A t \in Topics, n \in Nat : Queued(t, n)' = Queued(t, n)
    BY DEF Queued
  <1>7. Complete'
    <2>1. CASE wanted' = wanted
      BY <1>1, <1>2, <1>6, <2>1 DEF Typed, Complete
    <2>2. CASE handler = "idle"
      BY <1>1, <2>2 DEF Typed, AckedLast, Complete
    <2> QED
      BY <2>1, <2>2
  <1> QED
    BY <1>3, <1>4, <1>5, <1>7 DEF IInv

\* A receiver starts where the topic is, before the ack.
LEMMA SubscribeStep ==
    ASSUME IInv, Idle, NEW t \in Topics, Subscribe(t)
    PROVE  IInv'
  <1>1. Typed /\ Held /\ ChanBehind /\ SeenBehind /\ Ascending /\ ReadFirst /\ AckedLast /\ Complete
    BY TypesOfIInv DEF IInv
  <1>2. /\ handler = "subscribing" /\ hand[t] = 0 /\ pos' = [pos EXCEPT ![t] = published[t]]
        /\ UNCHANGED <<handler, wanted, published, hand, watch, cancelled, chan, open, seen, closed,
                       hasPid, identity, revoked, ackedAt, shed>>
    BY DEF Subscribe, Idle
  <1>3. TypeOK'
    <2>1. pos' \in [Topics -> Nat]
      BY <1>1, <1>2 DEF Typed
    <2>2. task' \in [Topics -> {"none", "on", "done"}]
      BY DEF IInv, TypeOK, Subscribe
    <2> QED
      BY <1>2, <2>1, <2>2 DEF IInv, TypeOK
  <1>4. \A u \in Topics : pos[u] \in Nat /\ pos'[u] \in Nat /\ pos[u] <= pos'[u] /\ pos'[u] <= published[u]
                          /\ (u # t => pos'[u] = pos[u]) /\ published[u] \in Nat
    BY <1>1, <1>2 DEF Typed, Held
  <1>5. Held'
    BY <1>1, <1>2, <1>4 DEF Held
  <1>6. ChanBehind'
    <2> SUFFICES ASSUME NEW i \in 1 .. Len(chan), NEW u \in Topics, chan[i].name = u
                 PROVE  chan[i].n <= pos'[u] /\ (hand[u] # 0 => chan[i].n < hand[u])
      BY <1>2 DEF ChanBehind
    <2>1. chan[i] \in Frames
      BY <1>1 DEF Typed
    <2>2. chan[i].n \in Nat
      BY <2>1 DEF Frames
    <2> QED
      BY <1>1, <1>4, <2>2 DEF ChanBehind
  <1>7. SeenBehind'
    <2> SUFFICES ASSUME NEW u \in Topics, NEW n \in seen[u]
                 PROVE  n <= pos'[u] /\ (hand[u] # 0 => n < hand[u])
      BY <1>2 DEF SeenBehind
    <2>1. n \in Nat
      BY <1>1 DEF Typed
    <2> QED
      BY <1>1, <1>4, <2>1 DEF SeenBehind
  <1>8. Ascending' /\ ReadFirst' /\ AckedLast'
    BY <1>1, <1>2 DEF Ascending, ReadFirst, AckedLast
  <1>9. Complete'
    <2>1. \A u \in Topics : ~(ackedAt'[u] >= 0)
      BY <1>1, <1>2 DEF AckedLast
    <2> QED
      BY <1>1, <1>2, <2>1 DEF Typed, Complete
  <1> QED
    BY <1>3, <1>5, <1>6, <1>7, <1>8, <1>9 DEF IInv

\* A forwarder ends with empty hands, at its select or when the client is gone.
LEMMA IdleStep ==
    ASSUME TypeOK, Idle, [Next]_vars
    PROVE  Idle'
  <1>1. task \in [Topics -> {"none", "on", "done"}] /\ hand \in [Topics -> Nat]
    BY DEF TypeOK
  <1>2. CASE UNCHANGED <<task, hand>>
    BY <1>2 DEF Idle
  <1>3. ASSUME NEW t \in Topics, Subscribe(t) \/ Emit(t) \/ Finish(t) \/ Recv(t) PROVE Idle'
    <2>1. CASE Subscribe(t)
      BY <1>1, <2>1 DEF Subscribe, Idle
    <2>2. CASE Emit(t)
      <3>1. hand' = [hand EXCEPT ![t] = 0] /\ (task' = task \/ task' = [task EXCEPT ![t] = "done"])
        BY <2>2 DEF Emit
      <3> QED
        BY <1>1, <3>1 DEF Idle
    <2>3. CASE Finish(t)
      BY <1>1, <2>3 DEF Finish, AtSelect, Idle
    <2>4. CASE Recv(t)
      <3>1. task' = task /\ task[t] = "on" /\ (hand' = hand \/ hand' = [hand EXCEPT ![t] = pos[t] + 1])
        BY <2>4 DEF Recv, AtSelect
      <3> QED
        BY <1>1, <3>1 DEF Idle
    <2> QED
      BY <1>3, <2>1, <2>2, <2>3, <2>4
  <1>4. ASSUME NEW ts \in SUBSET Topics, Open(ts) PROVE Idle'
    BY <1>2, <1>4 DEF Open
  <1>5. ASSUME NEW t \in Topics, Publish(t) PROVE Idle'
    BY <1>2, <1>5 DEF Publish
  <1>6. CASE \/ Ack \/ Return \/ CloseBus \/ Keepalive \/ ExeWatch \/ Revoke \/ CancelAll
             \/ Read \/ Disconnect \/ PeerChanges \/ UNCHANGED vars
    <2>1. UNCHANGED <<task, hand>>
      BY <1>6 DEF Ack, Return, CloseBus, Keepalive, ExeWatch, Revoke, CancelAll, Read, Disconnect,
                  PeerChanges, vars
    <2> QED
      BY <1>2, <2>1
  <1> QED
    BY <1>3, <1>4, <1>5, <1>6 DEF Next, Subscriber, Forwarder

LEMMA NextIInv ==
    ASSUME IInv, Idle, [Next]_vars
    PROVE  IInv'
  <1>1. ASSUME NEW ts \in SUBSET Topics, Open(ts) PROVE IInv'
    <2>1. TypeOK'
      BY <1>1 DEF Open, IInv, TypeOK
    <2>2. \A u \in Topics : published[u] <= published'[u]
      BY <1>1 DEF Open, IInv, TypeOK
    <2> QED
      BY <1>1, <2>1, <2>2, QuietStep DEF Open
  <1>2. ASSUME NEW t \in Topics, Subscribe(t) PROVE IInv'
    BY <1>2, SubscribeStep
  <1>3. ASSUME NEW t \in Topics, Recv(t) \/ Emit(t) PROVE IInv'
    BY <1>3, RecvStep, EmitStep
  <1>4. ASSUME NEW t \in Topics, Publish(t) \/ Finish(t) PROVE IInv'
    <2>1. CASE Publish(t)
      <3>1. published' \in [Topics -> Nat]
        BY <2>1 DEF Publish, IInv, TypeOK
      <3>2. \A u \in Topics : published[u] <= published'[u]
        BY <2>1 DEF Publish, IInv, TypeOK
      <3>3. TypeOK'
        BY <2>1, <3>1 DEF Publish, IInv, TypeOK
      <3> QED
        BY <2>1, <3>2, <3>3, QuietStep DEF Publish
    <2>2. CASE Finish(t)
      <3>1. task' \in [Topics -> {"none", "on", "done"}]
        BY <2>2 DEF Finish, IInv, TypeOK
      <3>2. TypeOK'
        BY <2>2, <3>1 DEF Finish, IInv, TypeOK
      <3>3. \A u \in Topics : published[u] <= published'[u]
        BY <2>2 DEF Finish, IInv, TypeOK
      <3> QED
        BY <2>2, <3>2, <3>3, QuietStep DEF Finish
    <2> QED
      BY <1>4, <2>1, <2>2
  <1>5. CASE Ack \/ Keepalive \/ ExeWatch
    BY <1>5, ControlSteps
  <1>6. CASE Read \/ Disconnect
    BY <1>6, ReadStep, DisconnectStep
  <1>7. CASE Return \/ CloseBus \/ Revoke \/ CancelAll \/ PeerChanges
    <2>1. TypeOK'
      <3>1. CASE Return
        BY <3>1 DEF Return, IInv, TypeOK
      <3>2. CASE CloseBus
        BY <3>2 DEF CloseBus, IInv, TypeOK
      <3>3. CASE Revoke
        BY <3>3 DEF Revoke, IInv, TypeOK
      <3>4. CASE CancelAll
        BY <3>4 DEF CancelAll, IInv, TypeOK
      <3>5. CASE PeerChanges
        BY <3>5 DEF PeerChanges, IInv, TypeOK
      <3> QED
        BY <1>7, <3>1, <3>2, <3>3, <3>4, <3>5
    <2>2. UNCHANGED <<hand, chan, open, seen, ackedAt, shed, pos, wanted, published>>
      BY <1>7 DEF Return, CloseBus, Revoke, CancelAll, PeerChanges
    <2>3. handler' = handler \/ (handler = "acked" /\ handler' = "returned")
      BY <1>7 DEF Return, CloseBus, Revoke, CancelAll, PeerChanges
    <2>4. \A u \in Topics : published[u] <= published'[u]
      BY <2>2 DEF IInv, TypeOK
    <2> QED
      BY <2>1, <2>2, <2>3, <2>4, QuietStep
  <1>8. CASE UNCHANGED vars
    <2>1. TypeOK'
      BY <1>8 DEF vars, IInv, TypeOK
    <2>2. \A u \in Topics : published[u] <= published'[u]
      BY <1>8 DEF vars, IInv, TypeOK
    <2> QED
      BY <1>8, <2>1, <2>2, QuietStep DEF vars
  <1> QED
    BY <1>1, <1>2, <1>3, <1>4, <1>5, <1>6, <1>7, <1>8 DEF Next, Subscriber, Forwarder

THEOREM InductiveInvariant == Spec => [](IInv /\ Idle)
  <1>1. Init => IInv /\ Idle
    BY InitIInv DEF Init, Idle
  <1>2. IInv /\ Idle /\ [Next]_vars => (IInv /\ Idle)'
    BY NextIInv, IdleStep DEF IInv
  <1> QED
    BY <1>1, <1>2, PTL DEF Spec

\* What the client reads of a topic is in the order it was published, for any
\* topics, ring depth and channel capacity: try_emit_sse_event drops frames, and
\* never reorders or repeats them.
THEOREM EventsInOrder == Spec => []InOrder
  <1>1. IInv => InOrder
    <2> SUFFICES ASSUME IInv, NEW t \in Topics
                 PROVE  /\ \A i, j \in 1 .. Len(chan) :
                             i < j /\ chan[i].name = t /\ chan[j].name = t => chan[i].n < chan[j].n
                        /\ \A n \in InChan(t), m \in seen[t] : m < n
      BY DEF InOrder
    <2>1. \A n \in InChan(t) : \E i \in 1 .. Len(chan) : chan[i].name = t /\ n = chan[i].n
      BY DEF InChan
    <2> QED
      BY <2>1 DEF IInv, Ascending, ReadFirst
  <1> QED
    BY <1>1, InductiveInvariant, PTL

\* Subscribing before the ack leaves no gap: every event after it that a topic's
\* forwarder took is read or under way, unless the topic shed one.
THEOREM NothingMissedAfterAck == Spec => []NoGapAfterAck
  <1>1. IInv => NoGapAfterAck
    <2> SUFFICES ASSUME IInv, NEW t \in wanted \ shed, open, ackedAt[t] >= 0,
                        NEW n \in ackedAt[t] + 1 .. pos[t]
                 PROVE  n \in seen[t] \union InChan(t) \union {hand[t]}
      BY DEF NoGapAfterAck
    <2>1. t \in Topics /\ ackedAt[t] \in Nat /\ pos[t] \in Nat
      BY SizesAssumption DEF IInv, TypeOK
    <2>2. n \in Nat /\ ackedAt[t] < n /\ n <= pos[t]
      BY <2>1
    <2>3. n \in seen[t] \/ n = hand[t] \/ Queued(t, n)
      BY <2>2 DEF IInv, Complete
    <2>4. Queued(t, n) => n \in InChan(t)
      BY DEF Queued, InChan
    <2> QED
      BY <2>3, <2>4
  <1> QED
    BY <1>1, InductiveInvariant, PTL

-----------------------------------------------------------------------------
\* The client's side (ClientSession): whoever asks the user holds the app's lock, and looks
\* once more into the cache before.

ClientStages == {"cache", "file", "keep", "queue", "cache2", "file2", "ask", "asking", "save", "write", "op",
                 "done", "failed", "forget", "unlink", "backoff", "blocked", "reading"}

ClientTyped ==
    /\ pc \in [Tasks -> ClientStages] /\ DOMAIN holding = Tasks
    /\ minted \in Nat /\ dialogs \in Nat /\ faults \in Nat /\ lock \in Tasks \union {NoTask}

\* What a task works with was requested with the scopes the task needs.
HoldsWhatItNeeds == \A t \in Tasks :
    pc[t] \in {"keep", "save", "write", "op", "reading"} => Covers(holding[t], t)

\* What is looked up again, asked and saved is so under the lock.
OneAsks == \A t \in Tasks :
    pc[t] \in {"cache2", "file2", "ask", "asking", "save", "write"} => lock = t

Undisturbed == ~refused /\ faults = 0
NothingForgotten == Undisturbed =>
    /\ up /\ ~denied
    /\ \A t \in Tasks : /\ pc[t] \notin {"forget", "unlink"}
                        /\ pc[t] = "reading" => holding[t].tok \in valid

\* The dialog that was shown is the last: its record is in the cache, or about to be.
OneSuffices == Undisturbed /\ (\A t, u \in Tasks : Need[t] = Need[u]) =>
    /\ dialogs = 0 \/ (dialogs = 1 /\ ((\E t \in Tasks : pc[t] = "save") \/ (\A t \in Tasks : Covers(cache, t))))
    /\ (\E t \in Tasks : pc[t] \in {"file2", "ask", "asking"}) => dialogs = 0

ClientInv == ClientTyped /\ HoldsWhatItNeeds /\ OneAsks /\ NothingForgotten /\ OneSuffices

LEMMA ClientStarts == ClientInit => ClientInv
  BY DEF ClientInit, ClientInv, ClientTyped, ClientStages, HoldsWhatItNeeds, OneAsks, NothingForgotten,
     OneSuffices

LEMMA LookupKeeps ==
    ASSUME ClientInv, NEW t \in Tasks, Lookup(t)
    PROVE  ClientInv'
<1>. USE DEF ClientInv
<1>1. /\ UNCHANGED <<cache, file, second, attempt, shown, up, valid, minted, denied, broken, dialogs, refused, faults>>
      /\ pc[t] \in {"cache", "cache2"}
  BY DEF Lookup, daemonVars
<1>2. CASE Covers(cache, t)
  <2>1. /\ holding' = [holding EXCEPT ![t] = cache] /\ pc' = [pc EXCEPT ![t] = "op"]
        /\ lock' = IF lock = t THEN NoTask ELSE lock
    BY <1>2 DEF Lookup, Got, Go
  <2>2. ClientTyped'
    BY <1>1, <2>1 DEF ClientTyped, ClientStages
  <2>3. HoldsWhatItNeeds'
    BY <1>1, <1>2, <2>1 DEF ClientTyped, HoldsWhatItNeeds, Covers
  <2>4. OneAsks'
    BY <2>1 DEF ClientTyped, OneAsks
  <2>5. NothingForgotten'
    BY <1>1, <2>1 DEF ClientTyped, NothingForgotten, Undisturbed
  <2>6. OneSuffices'
    BY <1>1, <2>1 DEF ClientTyped, OneSuffices, Undisturbed, Covers
  <2>. QED
    BY <2>2, <2>3, <2>4, <2>5, <2>6
<1>3. CASE ~Covers(cache, t)
  <2>1. /\ pc' = [pc EXCEPT ![t] = IF pc[t] = "cache" THEN "file" ELSE "file2"]
        /\ UNCHANGED <<holding, lock>>
    BY <1>3 DEF Lookup, Go
  <2>2. ClientTyped'
    BY <1>1, <2>1 DEF ClientTyped, ClientStages
  <2>3. HoldsWhatItNeeds' /\ OneAsks' /\ NothingForgotten'
    BY <1>1, <2>1 DEF ClientTyped, HoldsWhatItNeeds, OneAsks, NothingForgotten, Undisturbed, Covers
  <2>4. OneSuffices'
    <3>1. CASE pc[t] = "cache"
      BY <1>1, <2>1, <3>1 DEF ClientTyped, OneSuffices, Undisturbed, Covers
    <3>2. CASE pc[t] = "cache2"
      <4>1. \A u \in Tasks : pc[u] # "save"
        BY <3>2 DEF OneAsks
      <4>. QED
        BY <1>1, <1>3, <2>1, <3>2, <4>1 DEF ClientTyped, OneSuffices, Undisturbed, Covers
    <3>. QED
      BY <1>1, <3>1, <3>2
  <2>. QED
    BY <2>2, <2>3, <2>4
<1>. QED
  BY <1>2, <1>3

LEMMA ReadsAndWaits ==
    ASSUME ClientInv, NEW t \in Tasks, ReadFile(t) \/ Queue(t) \/ Ask(t)
    PROVE  ClientInv'
<1>. USE DEF ClientInv
<1>1. UNCHANGED <<cache, file, second, attempt, shown, up, valid, minted, denied, broken, dialogs, refused, faults>>
  BY DEF ReadFile, Queue, Ask, daemonVars
<1>2. CASE ReadFile(t)
  <2>1. /\ pc[t] \in {"file", "file2"} /\ lock' = lock
        /\ \/ /\ Covers(file, t) /\ holding' = [holding EXCEPT ![t] = file]
              /\ pc' = [pc EXCEPT ![t] = "keep"]
           \/ /\ pc' = [pc EXCEPT ![t] = IF pc[t] = "file" THEN "queue" ELSE "ask"]
              /\ holding' = holding
    BY <1>2 DEF ReadFile, Go
  <2>2. ClientTyped'
    BY <1>1, <2>1 DEF ClientTyped, ClientStages
  <2>3. HoldsWhatItNeeds'
    BY <1>1, <2>1 DEF ClientTyped, HoldsWhatItNeeds, Covers
  <2>4. OneAsks' /\ NothingForgotten'
    BY <1>1, <2>1 DEF ClientTyped, OneAsks, NothingForgotten, Undisturbed
  <2>5. OneSuffices'
    BY <1>1, <2>1 DEF ClientTyped, OneSuffices, Undisturbed, Covers
  <2>. QED
    BY <2>2, <2>3, <2>4, <2>5
<1>3. CASE Queue(t)
  <2>1. /\ pc[t] = "queue" /\ lock = NoTask /\ lock' = t /\ pc' = [pc EXCEPT ![t] = "cache2"]
        /\ holding' = holding
    BY <1>3 DEF Queue, Go
  <2>2. ClientTyped'
    BY <1>1, <2>1 DEF ClientTyped, ClientStages
  <2>3. OneAsks'
    BY <2>1, ClientAssumption DEF ClientTyped, OneAsks
  <2>4. HoldsWhatItNeeds' /\ NothingForgotten'
    BY <1>1, <2>1 DEF ClientTyped, HoldsWhatItNeeds, NothingForgotten, Undisturbed, Covers
  <2>5. OneSuffices'
    BY <1>1, <2>1 DEF ClientTyped, OneSuffices, Undisturbed, Covers
  <2>. QED
    BY <2>2, <2>3, <2>4, <2>5
<1>4. CASE Ask(t)
  <2>1. pc[t] = "ask" /\ pc' = [pc EXCEPT ![t] = "asking"] /\ lock' = lock /\ holding' = holding
    BY <1>4 DEF Ask, Go
  <2>2. ClientTyped'
    BY <1>1, <2>1 DEF ClientTyped, ClientStages
  <2>3. HoldsWhatItNeeds' /\ OneAsks' /\ NothingForgotten'
    BY <1>1, <2>1 DEF ClientTyped, HoldsWhatItNeeds, OneAsks, NothingForgotten, Undisturbed, Covers
  <2>4. OneSuffices'
    BY <1>1, <2>1 DEF ClientTyped, OneSuffices, Undisturbed, Covers
  <2>. QED
    BY <2>2, <2>3, <2>4
<1>. QED
  BY <1>2, <1>3, <1>4

LEMMA CacheFills ==
    ASSUME ClientInv, NEW t \in Tasks, Keep(t) \/ SaveCache(t) \/ SaveFile(t)
    PROVE  ClientInv'
<1>. USE DEF ClientInv
<1>1. UNCHANGED <<second, attempt, shown, up, valid, minted, denied, broken, dialogs, refused, faults>>
  BY DEF Keep, SaveCache, SaveFile, daemonVars
<1>2. CASE Keep(t) \/ SaveFile(t)
  <2>1. /\ pc[t] \in {"keep", "write"} /\ pc' = [pc EXCEPT ![t] = "op"]
        /\ holding' = [holding EXCEPT ![t] = holding[t]]
        /\ lock' = IF lock = t THEN NoTask ELSE lock
        /\ cache' \in {cache, holding[t]}
    BY <1>2 DEF Keep, SaveFile, Got, Go
  <2>2. ClientTyped' /\ \A u \in Tasks : holding'[u] = holding[u]
    BY <1>1, <2>1 DEF ClientTyped, ClientStages
  <2>3. Covers(holding[t], t)
    BY <2>1 DEF HoldsWhatItNeeds
  <2>4. HoldsWhatItNeeds' /\ NothingForgotten'
    BY <1>1, <2>1, <2>2, <2>3 DEF ClientTyped, HoldsWhatItNeeds, NothingForgotten, Undisturbed, Covers
  <2>5. OneAsks'
    BY <2>1 DEF ClientTyped, OneAsks
  <2>6. OneSuffices'
    BY <1>1, <2>1, <2>3 DEF ClientTyped, OneSuffices, Undisturbed, Covers
  <2>. QED
    BY <2>2, <2>4, <2>5, <2>6
<1>3. CASE SaveCache(t)
  <2>1. /\ pc[t] = "save" /\ pc' = [pc EXCEPT ![t] = "write"] /\ cache' = holding[t]
        /\ UNCHANGED <<holding, lock>>
    BY <1>3 DEF SaveCache, Go
  <2>2. ClientTyped' /\ Covers(holding[t], t)
    BY <1>1, <2>1 DEF ClientTyped, ClientStages, HoldsWhatItNeeds
  <2>3. HoldsWhatItNeeds' /\ OneAsks' /\ NothingForgotten'
    BY <1>1, <2>1 DEF ClientTyped, HoldsWhatItNeeds, OneAsks, NothingForgotten, Undisturbed, Covers
  <2>4. OneSuffices'
    BY <1>1, <2>1, <2>2 DEF ClientTyped, OneSuffices, Undisturbed, Covers
  <2>. QED
    BY <2>2, <2>3, <2>4
<1>. QED
  BY <1>2, <1>3

LEMMA AnsweredKeeps ==
    ASSUME ClientInv, NEW t \in Tasks, Answered(t)
    PROVE  ClientInv'
<1>. USE DEF ClientInv
<1>. DEFINE new == [tok |-> minted + 1, requested |-> Need[t], granted |-> Need[t]]
<1>1. /\ pc[t] = "asking" /\ lock = t
      /\ dialogs' = IF up /\ ~denied THEN dialogs + 1 ELSE dialogs
      /\ UNCHANGED <<cache, file, second, attempt, up, broken, refused>>
  BY DEF Answered, OneAsks
<1>2. \A u \in Tasks \ {t} : pc[u] \notin {"cache2", "file2", "ask", "asking", "save", "write"}
  BY <1>1 DEF OneAsks
<1>3. CASE /\ up /\ ~denied /\ minted < MaxTokens /\ minted' = minted + 1
           /\ valid' = valid \union {minted + 1} /\ holding' = [holding EXCEPT ![t] = new]
           /\ pc' = [pc EXCEPT ![t] = "save"] /\ UNCHANGED <<lock, shown, denied, faults>>
  <2>1. minted + 1 \in 1..MaxTokens
    BY <1>3, ClientAssumption DEF ClientTyped
  <2>2. new # NoRecord /\ new.requested = Need[t]
    BY <2>1, ClientAssumption
  <2>. HIDE DEF new
  <2>3. ClientTyped'
    BY <1>1, <1>3 DEF ClientTyped, ClientStages
  <2>4. HoldsWhatItNeeds'
    BY <1>1, <1>3, <2>2 DEF ClientTyped, HoldsWhatItNeeds, Covers
  <2>5. OneAsks' /\ NothingForgotten'
    BY <1>1, <1>3 DEF ClientTyped, OneAsks, NothingForgotten, Undisturbed
  <2>6. OneSuffices'
    BY <1>1, <1>2, <1>3 DEF ClientTyped, OneSuffices, Undisturbed, Covers
  <2>. QED
    BY <2>3, <2>4, <2>5, <2>6
<1>4. CASE /\ UNCHANGED <<holding, minted, valid>> /\ lock' = NoTask
           /\ (faults' = faults + 1 \/ (faults' = faults /\ (denied \/ ~up)))
           /\ \E p \in {"failed", "blocked", "backoff"} : pc' = [pc EXCEPT ![t] = p]
  <2>1. ~Undisturbed'
    BY <1>1, <1>4 DEF ClientTyped, NothingForgotten, Undisturbed
  <2>2. ClientTyped'
    BY <1>1, <1>4 DEF ClientTyped, ClientStages
  <2>3. HoldsWhatItNeeds'
    BY <1>1, <1>4 DEF ClientTyped, HoldsWhatItNeeds, Covers
  <2>4. OneAsks'
    BY <1>1, <1>2, <1>4 DEF ClientTyped, OneAsks
  <2>. QED
    BY <2>1, <2>2, <2>3, <2>4 DEF NothingForgotten, OneSuffices
<1>. QED
  BY <1>3, <1>4 DEF Answered, Fail, Go

LEMMA CallKeeps ==
    ASSUME ClientInv, NEW t \in Tasks, Call(t) \/ OpenStream(t)
    PROVE  ClientInv'
<1>. USE DEF ClientInv
<1>1. /\ UNCHANGED <<cache, file, lock, holding, up, valid, minted, denied, dialogs, faults>>
      /\ pc[t] = "op" /\ refused' = (refused \/ Refused(t))
  BY DEF Call, OpenStream
<1>2. PICK p \in {"done", "failed", "forget", "reading", "backoff"} :
        /\ pc' = [pc EXCEPT ![t] = p]
        /\ p = "forget" => Refused(t)
        /\ p = "reading" => holding[t].tok \in valid
  <2>1. CASE Call(t)
    <3>. DEFINE where == CASE Verdict(t) = "ok" -> "done"
                           [] Refused(t) /\ t \notin second -> "forget"
                           [] OTHER -> "failed"
    <3>1. pc' = [pc EXCEPT ![t] = where]
      BY <2>1 DEF Call, Go
    <3>2. CASE Verdict(t) = "ok"
      <4>1. where = "done"
        BY <3>2 DEF Refused
      <4>. QED
        BY <3>1, <4>1
    <3>3. CASE Verdict(t) # "ok" /\ Refused(t) /\ t \notin second
      <4>1. where = "forget"
        BY <3>3
      <4>. QED
        BY <3>1, <3>3, <4>1
    <3>4. CASE Verdict(t) # "ok" /\ ~(Refused(t) /\ t \notin second)
      <4>1. where = "failed"
        BY <3>4
      <4>. QED
        BY <3>1, <4>1
    <3>. QED
      BY <3>2, <3>3, <3>4
  <2>2. CASE OpenStream(t)
    BY <2>2 DEF OpenStream, Go, Verdict
  <2>. QED
    BY <2>1, <2>2
<1>3. ClientTyped' /\ OneAsks'
  BY <1>1, <1>2 DEF ClientTyped, ClientStages, OneAsks
<1>4. HoldsWhatItNeeds'
  BY <1>1, <1>2 DEF ClientTyped, HoldsWhatItNeeds, Covers
<1>5. NothingForgotten'
  BY <1>1, <1>2 DEF ClientTyped, NothingForgotten, Undisturbed
<1>6. OneSuffices'
  BY <1>1, <1>2 DEF ClientTyped, OneSuffices, Undisturbed, Covers
<1>. QED
  BY <1>3, <1>4, <1>5, <1>6

LEMMA ForgettingKeeps ==
    ASSUME ClientInv, NEW t \in Tasks, ForgetCache(t) \/ ForgetFile(t)
    PROVE  ClientInv'
<1>. USE DEF ClientInv
<1>1. /\ UNCHANGED <<lock, holding, up, valid, minted, denied, dialogs, refused>>
      /\ pc[t] \in {"forget", "unlink"} /\ faults' \in {faults, faults + 1}
      /\ \E p \in {"unlink", "cache"} : pc' = [pc EXCEPT ![t] = p]
  BY DEF ForgetCache, ForgetFile, Go, daemonVars
<1>2. ~Undisturbed'
  BY <1>1 DEF ClientTyped, NothingForgotten, Undisturbed
<1>3. ClientTyped'
  BY <1>1 DEF ClientTyped, ClientStages
<1>4. HoldsWhatItNeeds' /\ OneAsks'
  BY <1>1 DEF ClientTyped, HoldsWhatItNeeds, OneAsks, Covers
<1>. QED
  BY <1>2, <1>3, <1>4 DEF NothingForgotten, OneSuffices

LEMMA StreamKeeps ==
    ASSUME ClientInv, NEW t \in Tasks, Revoked(t) \/ Ended(t) \/ Backoff(t)
    PROVE  ClientInv'
<1>. USE DEF ClientInv
<1>1. /\ UNCHANGED <<cache, file, lock, holding, up, valid, minted, denied, broken, dialogs, refused, faults>>
      /\ pc[t] \in {"reading", "backoff"}
      /\ \E p \in {"forget", "backoff", "cache"} :
            /\ pc' = [pc EXCEPT ![t] = p]
            /\ p = "forget" => pc[t] = "reading" /\ holding[t].tok \notin valid
  BY DEF Revoked, Ended, Backoff, Go, daemonVars
<1>2. ClientTyped' /\ OneAsks'
  BY <1>1 DEF ClientTyped, ClientStages, OneAsks
<1>3. HoldsWhatItNeeds' /\ NothingForgotten'
  BY <1>1 DEF ClientTyped, HoldsWhatItNeeds, NothingForgotten, Undisturbed, Covers
<1>4. OneSuffices'
  BY <1>1 DEF ClientTyped, OneSuffices, Undisturbed, Covers
<1>. QED
  BY <1>2, <1>3, <1>4

LEMMA DaemonKeeps ==
    ASSUME ClientInv, GoesDown \/ ComesUp \/ Revokes \/ \E s \in Streams : Breaks(s)
    PROVE  ClientInv'
<1>. USE DEF ClientInv
<1>1. UNCHANGED <<cache, lock, pc, holding, minted, dialogs, refused>>
  BY DEF GoesDown, ComesUp, Revokes, Breaks, clientOnly
<1>2. faults' = faults + 1 \/ (~up /\ faults' = faults)
  BY DEF GoesDown, ComesUp, Revokes, Breaks
<1>3. ~Undisturbed'
  BY <1>1, <1>2 DEF ClientTyped, NothingForgotten, Undisturbed
<1>4. ClientTyped' /\ HoldsWhatItNeeds' /\ OneAsks'
  BY <1>1, <1>2 DEF ClientTyped, HoldsWhatItNeeds, OneAsks, Covers
<1>. QED
  BY <1>3, <1>4 DEF NothingForgotten, OneSuffices

LEMMA ClientKeeps == ClientInv /\ [ClientNext]_clientVars => ClientInv'
<1>. SUFFICES ASSUME ClientInv, [ClientNext]_clientVars PROVE ClientInv'
  OBVIOUS
<1>1. ASSUME NEW t \in Tasks, TaskNext(t) PROVE ClientInv'
  BY <1>1, LookupKeeps, ReadsAndWaits, CacheFills, AnsweredKeeps, CallKeeps, ForgettingKeeps, StreamKeeps
     DEF TaskNext, Obtains
<1>2. CASE UNCHANGED clientVars
  BY <1>2 DEF clientVars, ClientInv, ClientTyped, HoldsWhatItNeeds, OneAsks, NothingForgotten, OneSuffices,
     Undisturbed, Covers
<1>. QED
  BY <1>1, <1>2, DaemonKeeps DEF ClientNext

LEMMA ClientInvSuffices == ClientInv => AsksForWhatItNeeds
<1>. SUFFICES ASSUME ClientInv PROVE AsksForWhatItNeeds
  OBVIOUS
<1>1. NeverShortOfScopes
  BY DEF ClientInv, HoldsWhatItNeeds, NeverShortOfScopes, Covers
<1>2. BatchAsksOnce
  BY DEF ClientInv, OneSuffices, Undisturbed, BatchAsksOnce
<1>. QED
  BY <1>1, <1>2 DEF AsksForWhatItNeeds

\* A task presents a token only for scopes it was requested with, and tasks that need the
\* same scopes ask the user once, however many start at a time (session.rs:32-43, 253-257).
THEOREM ClientsAskForWhatTheyNeed == SubscriberSpec => []AsksForWhatItNeeds
<1>1. SubscriberInit => ClientInv
  BY ClientStarts DEF SubscriberInit
<1>2. ClientInv /\ [SubscriberNext]_subscriberVars => ClientInv'
  BY ClientKeeps DEF SubscriberNext, subscriberVars
<1>. QED
  BY <1>1, <1>2, ClientInvSuffices, PTL DEF SubscriberSpec

-----------------------------------------------------------------------------
(* The wire. *)

\* One connection: what it carries, wherever it has got to.
Stream == buffer \o wire

LineEnds == {LF, CR}
Byte == LineEnds \cup {Text("comment", 0)} \cup [is: {"event", "garbled", "idle"}, id: Nat \ {0}]

BlankAt(s, i) ==
    \/ i + 1 <= Len(s) /\ s[i] = LF /\ s[i + 1] = LF
    \/ i + 3 <= Len(s) /\ s[i] = CR /\ s[i + 1] = LF /\ s[i + 2] = CR /\ s[i + 3] = LF
BlankEnd(s, i) == IF s[i] = LF THEN i + 1 ELSE i + 3

\* Blocks one after the other: each starts with text and ends with its first blank line,
\* and the line that makes an event is its block's last.
StartsWithText(s) == s # <<>> => s[1] \notin LineEnds
EndsBlank(s) == s # <<>> => \E i \in DOMAIN s: BlankAt(s, i) /\ BlankEnd(s, i) = Len(s)
TextFollows(s) == \A i \in DOMAIN s:
    BlankAt(s, i) /\ BlankEnd(s, i) < Len(s) => s[BlankEnd(s, i) + 1] \notin LineEnds
LastLine(s) == \A i \in DOMAIN s: s[i].id # 0 => BlankAt(s, i + 1)
Framed(s) == StartsWithText(s) /\ EndsBlank(s) /\ TextFollows(s) /\ LastLine(s)

\* The line of the k-th block that names its event.
Line(w, k) == Text(IF w[k] = "commented" THEN "event" ELSE w[k], k)

\* The blocks after the n-th are in these bytes, and no others.
Unread(s, w, n) ==
    /\ \A k \in n + 1 .. Len(w): \E p \in DOMAIN s: s[p] = Line(w, k)
    /\ \A p \in DOMAIN s: s[p].id # 0 => s[p].id \in n + 1 .. Len(w) /\ s[p] = Line(w, s[p].id)
    /\ \A p, q \in DOMAIN s: p < q /\ s[p].id # 0 /\ s[q].id # 0 => s[p].id < s[q].id
Told(n) ==
    /\ Len(told) = Cardinality(Shown(n))
    /\ \A k \in Shown(n):
          told[Cardinality(Shown(k))] =
              IF wrote[k] = "garbled" THEN [name |-> "error", id |-> 0] ELSE [name |-> "event", id |-> k]

HasComment(s) == \E i \in DOMAIN s: s[i].is = "comment"
CommentCut(s) == \E i, j \in DOMAIN s: i < j /\ s[i].is = "comment" /\ BlankAt(s, j)

WireTyped ==
    /\ wire \in Seq(Byte) /\ buffer \in Seq(Byte) /\ wrote \in Seq(Kinds)
    /\ told \in Seq([name: {"event", "error"}, id: Nat])
    /\ late \in Nat /\ due \in 0 .. KEEPALIVE /\ idle \in Nat

\* A keepalive that is due since the last event is under way or read, and in time.
Paced == link = "open" =>
    /\ idle > KEEPALIVE - due => HasComment(Stream)
    /\ idle <= KEEPALIVE + late \/ CommentCut(buffer)
    /\ late <= LATENCY /\ idle <= KEEPALIVE + LATENCY

WireInv == WireTyped /\ Framed(Stream) /\ (\E n \in 0 .. Len(wrote): Told(n) /\ Unread(Stream, wrote, n)) /\ Paced

-----------------------------------------------------------------------------

LEMMA SomeIsLeast ==
  ASSUME NEW T, T \subseteq Nat, T # {}
  PROVE  \E i \in T: \A j \in T: i <= j
<1>. DEFINE Below == {ss \in Nat \X Nat: ss[1] < ss[2]}
<1>1. IsWellFoundedOn(Below, Nat)
  BY Zenon, NatLessThanWellFounded DEF OpToRel
<1>2. PICK i \in T: \A j \in T: <<j, i>> \notin Below
  BY <1>1, WFMin, Zenon
<1>3. ASSUME NEW j \in T
      PROVE  i <= j
  <2>1. <<j, i>> \notin Below /\ i \in Nat /\ j \in Nat
    BY <1>2
  <2>. QED
    BY <2>1
<1>. QED
  BY <1>3

\* The first blank line is a blank line and none comes before it.
LEMMA FirstBlank ==
  ASSUME NEW s \in Seq(Byte)
  PROVE  /\ FindBlankLine(s).end = 0 => \A i \in DOMAIN s: ~BlankAt(s, i)
         /\ FindBlankLine(s).end # 0 =>
              /\ FindBlankLine(s).start \in DOMAIN s /\ BlankAt(s, FindBlankLine(s).start)
              /\ FindBlankLine(s).end = BlankEnd(s, FindBlankLine(s).start)
              /\ \A i \in DOMAIN s: BlankAt(s, i) => FindBlankLine(s).start <= i
<1>. DEFINE at == {i \in DOMAIN s: IsBoundary(s, i, <<LF, LF>>) \/ IsBoundary(s, i, <<CR, LF, CR, LF>>)}
            i0 == CHOOSE i \in at: \A j \in at: i <= j
<1>1. DOMAIN s = 1 .. Len(s) /\ Len(s) \in Nat
  OBVIOUS
<1>2. ASSUME NEW i \in DOMAIN s
      PROVE  i \in at <=> BlankAt(s, i)
  <2>1. IsBoundary(s, i, <<LF, LF>>) <=> i + 1 <= Len(s) /\ s[i] = LF /\ s[i + 1] = LF
    <3>1. DOMAIN <<LF, LF>> = 1 .. 2 /\ <<LF, LF>>[1] = LF /\ <<LF, LF>>[2] = LF /\ Len(<<LF, LF>>) = 2
      OBVIOUS
    <3>2. (\A k \in 1 .. 2: s[i + k - 1] = <<LF, LF>>[k]) <=> s[i] = LF /\ s[i + 1] = LF
      BY <1>1, <3>1
    <3>. QED
      BY <1>1, <3>1, <3>2 DEF IsBoundary
  <2>2. IsBoundary(s, i, <<CR, LF, CR, LF>>) <=>
           i + 3 <= Len(s) /\ s[i] = CR /\ s[i + 1] = LF /\ s[i + 2] = CR /\ s[i + 3] = LF
    <3>. DEFINE t == <<CR, LF, CR, LF>>
    <3>1. DOMAIN t = 1 .. 4 /\ t[1] = CR /\ t[2] = LF /\ t[3] = CR /\ t[4] = LF /\ Len(t) = 4
      OBVIOUS
    <3>. HIDE DEF t
    <3>2. (\A k \in 1 .. 4: s[i + k - 1] = t[k]) <=>
             s[i] = CR /\ s[i + 1] = LF /\ s[i + 2] = CR /\ s[i + 3] = LF
      BY <1>1, <3>1
    <3>3. IsBoundary(s, i, t) <=> i + 3 <= Len(s) /\ (\A k \in 1 .. 4: s[i + k - 1] = t[k])
      BY <1>1, <3>1 DEF IsBoundary
    <3>. QED
      BY <3>2, <3>3 DEF t
  <2>. QED
    BY <2>1, <2>2 DEF BlankAt
<1>3. FindBlankLine(s) = IF at = {} THEN [start |-> 0, end |-> 0]
                         ELSE [start |-> i0, end |-> IF s[i0] = LF THEN i0 + 1 ELSE i0 + 3]
  BY Zenon DEF FindBlankLine
<1>4. at \subseteq DOMAIN s /\ at \subseteq Nat
  BY <1>1
<1>. HIDE DEF at
<1>5. CASE at = {}
  BY <1>2, <1>3, <1>5
<1>6. CASE at # {}
  <2>1. \E i \in at: \A j \in at: i <= j
    BY <1>4, <1>6, SomeIsLeast
  <2>2. i0 \in at /\ \A j \in at: i0 <= j
    BY <2>1, Zenon
  <2>. HIDE DEF i0
  <2>3. FindBlankLine(s).start = i0 /\ FindBlankLine(s).end = BlankEnd(s, i0)
    BY <1>3, <1>6 DEF BlankEnd
  <2>4. FindBlankLine(s).end # 0
    BY <1>1, <1>4, <2>2, <2>3 DEF BlankEnd
  <2>. QED
    BY <1>2, <1>4, <2>2, <2>3, <2>4
<1>. QED
  BY <1>5, <1>6

\* A blank line is inside its sequence and made of line ends.
LEMMA BlankBytes ==
  ASSUME NEW s \in Seq(Byte), NEW i \in DOMAIN s, BlankAt(s, i)
  PROVE  /\ BlankEnd(s, i) \in i + 1 .. Len(s)
         /\ \A j \in i .. BlankEnd(s, i): s[j] \in LineEnds
<1>1. LF # CR
  BY DEF LF, CR
<1>2. Len(s) \in Nat /\ i \in 1 .. Len(s)
  OBVIOUS
<1>. QED
  BY <1>1, <1>2 DEF BlankAt, BlankEnd, LineEnds

\* Where the bytes of a sequence are in two that follow each other.
LEMMA Joined ==
  ASSUME NEW h \in Seq(Byte), NEW r \in Seq(Byte)
  PROVE  /\ h \o r \in Seq(Byte) /\ Len(h \o r) = Len(h) + Len(r)
         /\ Len(h) \in Nat /\ Len(r) \in Nat
         /\ DOMAIN h = 1 .. Len(h) /\ DOMAIN r = 1 .. Len(r) /\ DOMAIN (h \o r) = 1 .. Len(h) + Len(r)
         /\ \A i \in 1 .. Len(h): (h \o r)[i] = h[i]
         /\ \A i \in 1 .. Len(r): (h \o r)[Len(h) + i] = r[i]
         /\ \A i \in 1 .. Len(h) + Len(r): i <= Len(h) \/ i - Len(h) \in 1 .. Len(r)
  OBVIOUS

\* The blank lines of the first of two sequences, and of the second, are blank lines of both.
LEMMA BlanksJoined ==
  ASSUME NEW h \in Seq(Byte), NEW r \in Seq(Byte)
  PROVE  /\ \A i \in DOMAIN h: BlankAt(h, i) =>
              BlankAt(h \o r, i) /\ BlankEnd(h \o r, i) = BlankEnd(h, i)
         /\ \A i \in DOMAIN h: BlankAt(h \o r, i) /\ BlankEnd(h \o r, i) <= Len(h) =>
              BlankAt(h, i) /\ BlankEnd(h, i) = BlankEnd(h \o r, i)
         /\ \A i \in DOMAIN r: (BlankAt(r, i) <=> BlankAt(h \o r, Len(h) + i))
         /\ \A i \in DOMAIN r: BlankEnd(h \o r, Len(h) + i) = Len(h) + BlankEnd(r, i)
<1>. DEFINE s == h \o r
<1>1. /\ s \in Seq(Byte) /\ Len(s) = Len(h) + Len(r) /\ Len(h) \in Nat /\ Len(r) \in Nat
      /\ DOMAIN h = 1 .. Len(h) /\ DOMAIN r = 1 .. Len(r)
      /\ \A i \in 1 .. Len(h): s[i] = h[i]
      /\ \A i \in 1 .. Len(r): s[Len(h) + i] = r[i]
  BY Joined
<1>. HIDE DEF s
<1>2. LF # CR
  BY DEF LF, CR
<1>3. ASSUME NEW i \in DOMAIN h, BlankAt(h, i)
      PROVE  BlankAt(s, i) /\ BlankEnd(s, i) = BlankEnd(h, i)
  <2>1. i \in Nat /\ s[i] = h[i]
    BY <1>1
  <2>2. \A d \in 1 .. 3: i + d <= Len(h) => s[i + d] = h[i + d] /\ i + d <= Len(s)
    BY <1>1
  <2>. QED
    BY <2>1, <2>2, <1>3 DEF BlankAt, BlankEnd
<1>4. ASSUME NEW i \in DOMAIN h, BlankAt(s, i), BlankEnd(s, i) <= Len(h)
      PROVE  BlankAt(h, i) /\ BlankEnd(h, i) = BlankEnd(s, i)
  <2>1. i \in Nat /\ s[i] = h[i] /\ Len(h) \in Nat
    BY <1>1
  <2>2. \A d \in 1 .. 3: i + d <= Len(h) => s[i + d] = h[i + d]
    BY <1>1
  <2>3. \A d \in 1 .. 3: i + d <= BlankEnd(s, i) => i + d <= Len(h)
    BY <1>4, <2>1 DEF BlankEnd
  <2>4. CASE s[i] = LF
    <3>1. BlankEnd(s, i) = i + 1 /\ s[i + 1] = LF
      BY <1>2, <1>4, <2>4 DEF BlankAt, BlankEnd
    <3>. QED
      BY <2>1, <2>2, <2>3, <2>4, <3>1 DEF BlankAt, BlankEnd
  <2>5. CASE s[i] # LF
    <3>1. BlankEnd(s, i) = i + 3 /\ s[i] = CR /\ s[i + 1] = LF /\ s[i + 2] = CR /\ s[i + 3] = LF
      BY <1>4, <2>5 DEF BlankAt, BlankEnd
    <3>2. i + 1 <= Len(h) /\ i + 2 <= Len(h) /\ i + 3 <= Len(h)
      BY <1>4, <2>1, <3>1
    <3>3. h[i + 1] = LF /\ h[i + 2] = CR /\ h[i + 3] = LF
      BY <2>2, <3>1, <3>2
    <3>. QED
      BY <2>1, <2>5, <3>1, <3>2, <3>3 DEF BlankAt, BlankEnd
  <2>. QED
    BY <2>4, <2>5
<1>5. ASSUME NEW i \in DOMAIN r
      PROVE  /\ BlankAt(r, i) <=> BlankAt(s, Len(h) + i)
             /\ BlankEnd(s, Len(h) + i) = Len(h) + BlankEnd(r, i)
  <2>1. i \in 1 .. Len(r) /\ s[Len(h) + i] = r[i] /\ Len(s) = Len(h) + Len(r)
    BY <1>1
  <2>2. ASSUME NEW d \in 1 .. 3, i + d <= Len(r)
        PROVE  s[Len(h) + i + d] = r[i + d]
    <3>1. i + d \in 1 .. Len(r) /\ Len(h) + (i + d) = Len(h) + i + d
      BY <1>1, <2>1, <2>2
    <3>2. s[Len(h) + (i + d)] = r[i + d]
      BY <1>1, <3>1
    <3>. QED
      BY <3>1, <3>2
  <2>3. \A d \in 1 .. 3: Len(h) + i + d <= Len(s) <=> i + d <= Len(r)
    BY <1>1, <2>1
  <2>4. Len(h) \in Nat /\ i \in Nat
    BY <1>1
  <2>5. \A d \in 1 .. 3: (Len(h) + i) + d <= Len(s) /\ s[(Len(h) + i) + d] = LF
                       <=> i + d <= Len(r) /\ r[i + d] = LF
    BY <2>2, <2>3
  <2>6. \A d \in 1 .. 3: (Len(h) + i) + d <= Len(s) /\ s[(Len(h) + i) + d] = CR
                       <=> i + d <= Len(r) /\ r[i + d] = CR
    BY <2>2, <2>3
  <2>7. (i + 3 <= Len(r) => i + 1 <= Len(r) /\ i + 2 <= Len(r))
        /\ (Len(h) + i + 3 <= Len(s) => Len(h) + i + 1 <= Len(s) /\ Len(h) + i + 2 <= Len(s))
    BY <1>1, <2>4
  <2>8. BlankAt(r, i) <=> BlankAt(s, Len(h) + i)
    <3>1. Len(h) + i + 1 <= Len(s) /\ s[Len(h) + i + 1] = LF <=> i + 1 <= Len(r) /\ r[i + 1] = LF
      BY <2>5
    <3>2. Len(h) + i + 2 <= Len(s) /\ s[Len(h) + i + 2] = CR <=> i + 2 <= Len(r) /\ r[i + 2] = CR
      BY <2>6
    <3>3. Len(h) + i + 3 <= Len(s) /\ s[Len(h) + i + 3] = LF <=> i + 3 <= Len(r) /\ r[i + 3] = LF
      BY <2>5
    <3>. QED
      BY <2>1, <3>1, <3>2, <3>3, <2>7, Zenon DEF BlankAt
  <2>. QED
    BY <2>1, <2>4, <2>8, <1>1 DEF BlankEnd
<1>. QED
  BY <1>3, <1>4, <1>5 DEF s

\* No blank line goes past where text starts.
LEMMA NoneStraddles ==
  ASSUME NEW s \in Seq(Byte), NEW e \in Nat, e < Len(s), s[e + 1] \notin LineEnds,
         NEW i \in DOMAIN s, BlankAt(s, i), i <= e
  PROVE  BlankEnd(s, i) <= e
<1>1. BlankEnd(s, i) \in i + 1 .. Len(s) /\ \A j \in i .. BlankEnd(s, i): s[j] \in LineEnds
  BY BlankBytes
<1>2. i \in 1 .. Len(s) /\ Len(s) \in Nat
  OBVIOUS
<1>. QED
  BY <1>1, <1>2

\* A blank line leaves room for its two bytes at least.
LEMMA BlankRoom ==
  ASSUME NEW s \in Seq(Byte), NEW i \in Nat, BlankAt(s, i)
  PROVE  i + 1 <= Len(s) /\ BlankEnd(s, i) >= i + 1
<1>1. Len(s) \in Nat
  OBVIOUS
<1>. QED
  BY <1>1 DEF BlankAt, BlankEnd

\* What follows a block is framed as well.
LEMMA FramedRest ==
  ASSUME NEW h \in Seq(Byte), NEW r \in Seq(Byte), Framed(h \o r),
         NEW c \in DOMAIN h, BlankAt(h \o r, c), BlankEnd(h \o r, c) = Len(h)
  PROVE  Framed(r)
<1>. DEFINE s == h \o r
<1>1. /\ s \in Seq(Byte) /\ Len(s) = Len(h) + Len(r) /\ Len(h) \in Nat /\ Len(r) \in Nat
      /\ DOMAIN h = 1 .. Len(h) /\ DOMAIN r = 1 .. Len(r) /\ DOMAIN s = 1 .. Len(s)
      /\ \A i \in 1 .. Len(r): s[Len(h) + i] = r[i]
  BY Joined
<1>2. \A i \in DOMAIN r: /\ BlankAt(r, i) <=> BlankAt(s, Len(h) + i)
                         /\ BlankEnd(s, Len(h) + i) = Len(h) + BlankEnd(r, i)
  BY BlanksJoined
<1>3. Framed(s) /\ BlankAt(s, c) /\ BlankEnd(s, c) = Len(h) /\ c \in DOMAIN s
  BY <1>1
<1>. HIDE DEF s
<1>4. r # <<>> => r[1] \notin LineEnds /\ s[Len(h) + 1] = r[1] /\ 1 \in 1 .. Len(r)
  <2>1. r # <<>> => 1 \in 1 .. Len(r)
    BY <1>1
  <2>2. r # <<>> => s[Len(h) + 1] = r[1]
    BY <1>1, <2>1
  <2>3. r # <<>> => s[Len(h) + 1] \notin LineEnds
    <3>1. r # <<>> => Len(h) < Len(s)
      BY <1>1, <2>1
    <3>2. \A i \in DOMAIN s: BlankAt(s, i) /\ BlankEnd(s, i) < Len(s) => s[BlankEnd(s, i) + 1] \notin LineEnds
      BY <1>3 DEF Framed, TextFollows
    <3>. QED
      BY <1>3, <3>1, <3>2, Zenon
  <2>. QED
    BY <2>1, <2>2, <2>3
<1>5. EndsBlank(r)
  <2>. SUFFICES ASSUME r # <<>>
                PROVE  \E i \in DOMAIN r: BlankAt(r, i) /\ BlankEnd(r, i) = Len(r)
    BY DEF EndsBlank
  <2>1. s # <<>> /\ Len(h) < Len(s)
    BY <1>1, <1>4
  <2>2. PICK b \in DOMAIN s: BlankAt(s, b) /\ BlankEnd(s, b) = Len(s)
    BY <1>3, <2>1 DEF Framed, EndsBlank
  <2>3. b > Len(h)
    <3>1. s[Len(h) + 1] \notin LineEnds
      BY <1>4
    <3>2. b <= Len(h) => BlankEnd(s, b) <= Len(h)
      BY <1>1, <2>1, <2>2, <3>1, NoneStraddles
    <3>. QED
      BY <1>1, <2>1, <2>2, <3>2
  <2>4. b - Len(h) \in DOMAIN r /\ Len(h) + (b - Len(h)) = b
    BY <1>1, <2>3
  <2>5. BlankAt(r, b - Len(h)) /\ Len(s) = Len(h) + BlankEnd(r, b - Len(h))
    BY <1>2, <2>2, <2>4
  <2>6. BlankEnd(r, b - Len(h)) \in Nat
    <3>1. b - Len(h) \in Nat
      BY <1>1, <2>4
    <3>. QED
      BY <3>1 DEF BlankEnd
  <2>7. BlankEnd(r, b - Len(h)) = Len(r)
    BY <1>1, <2>5, <2>6
  <2>. QED
    BY <2>4, <2>5, <2>7
<1>6. TextFollows(r)
  <2>. SUFFICES ASSUME NEW i \in DOMAIN r, BlankAt(r, i), BlankEnd(r, i) < Len(r)
                PROVE  r[BlankEnd(r, i) + 1] \notin LineEnds
    BY DEF TextFollows
  <2>1. Len(h) + i \in DOMAIN s /\ i \in Nat
    BY <1>1
  <2>2. BlankEnd(r, i) \in Nat
    <3>1. i \in Nat
      BY <2>1
    <3>. QED
      BY <3>1 DEF BlankEnd
  <2>3. BlankAt(s, Len(h) + i) /\ BlankEnd(s, Len(h) + i) = Len(h) + BlankEnd(r, i)
    BY <1>2
  <2>4. s[(Len(h) + BlankEnd(r, i)) + 1] \notin LineEnds
    BY <1>1, <1>3, <2>1, <2>2, <2>3, SMTT(30) DEF Framed, TextFollows
  <2>5. BlankEnd(r, i) + 1 \in 1 .. Len(r) /\ Len(h) + (BlankEnd(r, i) + 1) = (Len(h) + BlankEnd(r, i)) + 1
    BY <1>1, <2>2
  <2>6. s[Len(h) + (BlankEnd(r, i) + 1)] = r[BlankEnd(r, i) + 1]
    BY <1>1, <2>5
  <2>. QED
    BY <2>4, <2>5, <2>6
<1>7. LastLine(r)
  <2>. SUFFICES ASSUME NEW i \in DOMAIN r, r[i].id # 0
                PROVE  BlankAt(r, i + 1)
    BY DEF LastLine
  <2>1. Len(h) + i \in DOMAIN s /\ s[Len(h) + i] = r[i] /\ i \in Nat
    <3>1. i \in 1 .. Len(r)
      BY <1>1
    <3>2. s[Len(h) + i] = r[i]
      BY <1>1, <3>1
    <3>. QED
      BY <1>1, <3>1, <3>2
  <2>2. BlankAt(s, (Len(h) + i) + 1) /\ (Len(h) + i) + 1 = Len(h) + (i + 1)
    BY <1>1, <1>3, <2>1 DEF Framed, LastLine
  <2>3. (Len(h) + i) + 1 + 1 <= Len(s)
    BY <1>1, <2>1, <2>2, BlankRoom
  <2>4. i + 1 \in DOMAIN r
    BY <1>1, <2>1, <2>3, SMTT(30)
  <2>. QED
    BY <1>2, <2>2, <2>4
<1>. QED
  BY <1>4, <1>5, <1>6, <1>7 DEF Framed, StartsWithText

\* Blocks after blocks are framed.
LEMMA FramedJoin ==
  ASSUME NEW h \in Seq(Byte), NEW r \in Seq(Byte), Framed(h), Framed(r), r # <<>>
  PROVE  Framed(h \o r)
<1>. DEFINE s == h \o r
<1>1. /\ s \in Seq(Byte) /\ Len(s) = Len(h) + Len(r) /\ Len(h) \in Nat /\ Len(r) \in Nat
      /\ DOMAIN h = 1 .. Len(h) /\ DOMAIN r = 1 .. Len(r) /\ DOMAIN s = 1 .. Len(s)
      /\ \A i \in 1 .. Len(h): s[i] = h[i]
      /\ \A i \in 1 .. Len(r): s[Len(h) + i] = r[i]
  BY Joined
<1>2. \A i \in DOMAIN r: /\ BlankAt(r, i) <=> BlankAt(s, Len(h) + i)
                         /\ BlankEnd(s, Len(h) + i) = Len(h) + BlankEnd(r, i)
  BY BlanksJoined
<1>3. /\ \A i \in DOMAIN h: BlankAt(h, i) => BlankAt(s, i) /\ BlankEnd(s, i) = BlankEnd(h, i)
      /\ \A i \in DOMAIN h: BlankAt(s, i) /\ BlankEnd(s, i) <= Len(h) =>
              BlankAt(h, i) /\ BlankEnd(h, i) = BlankEnd(s, i)
  BY BlanksJoined
<1>. HIDE DEF s
<1>4. 1 \in 1 .. Len(r) /\ Len(h) < Len(s) /\ r[1] \notin LineEnds /\ s[Len(h) + 1] = r[1]
  <2>1. 1 \in 1 .. Len(r)
    BY <1>1
  <2>. QED
    BY <1>1, <2>1 DEF Framed, StartsWithText
<1>5. StartsWithText(s)
  <2>1. CASE h = <<>>
    BY <1>1, <1>4, <2>1 DEF StartsWithText
  <2>2. CASE h # <<>>
    <3>1. 1 \in 1 .. Len(h)
      BY <1>1, <2>2
    <3>. QED
      BY <1>1, <2>2, <3>1 DEF Framed, StartsWithText
  <2>. QED
    BY <2>1, <2>2
<1>6. EndsBlank(s)
  <2>1. PICK b \in DOMAIN r: BlankAt(r, b) /\ BlankEnd(r, b) = Len(r)
    BY DEF Framed, EndsBlank
  <2>2. Len(h) + b \in DOMAIN s
    BY <1>1
  <2>3. BlankAt(s, Len(h) + b) /\ BlankEnd(s, Len(h) + b) = Len(s)
    BY <1>1, <1>2, <2>1
  <2>. QED
    BY <2>2, <2>3 DEF EndsBlank
<1>7. TextFollows(s)
  <2>. SUFFICES ASSUME NEW i \in DOMAIN s, BlankAt(s, i), BlankEnd(s, i) < Len(s)
                PROVE  s[BlankEnd(s, i) + 1] \notin LineEnds
    BY DEF TextFollows
  <2>1. CASE i <= Len(h)
    <3>1. BlankEnd(s, i) <= Len(h) /\ i \in DOMAIN h
      BY <1>1, <1>4, <2>1, NoneStraddles, SMTT(30)
    <3>2. BlankAt(h, i) /\ BlankEnd(h, i) = BlankEnd(s, i)
      BY <1>3, <3>1
    <3>3. BlankEnd(h, i) \in i + 1 .. Len(h) /\ i \in Nat
      BY <1>1, <3>1, <3>2, BlankBytes
    <3>4. CASE BlankEnd(h, i) = Len(h)
      BY <1>4, <3>2, <3>4
    <3>5. CASE BlankEnd(h, i) < Len(h)
      <4>1. h[BlankEnd(h, i) + 1] \notin LineEnds
        BY <3>1, <3>2, <3>5 DEF Framed, TextFollows
      <4>2. BlankEnd(h, i) + 1 \in 1 .. Len(h)
        BY <1>1, <3>3, <3>5
      <4>3. s[BlankEnd(h, i) + 1] = h[BlankEnd(h, i) + 1]
        BY <1>1, <4>2
      <4>. QED
        BY <3>2, <4>1, <4>3
    <3>. QED
      BY <1>1, <3>3, <3>4, <3>5
  <2>2. CASE i > Len(h)
    <3>. DEFINE j == i - Len(h)
    <3>1. j \in DOMAIN r /\ Len(h) + j = i /\ j \in Nat
      BY <1>1, <2>2
    <3>. HIDE DEF j
    <3>2. BlankAt(r, j) /\ BlankEnd(s, i) = Len(h) + BlankEnd(r, j)
      BY <1>2, <3>1
    <3>3. BlankEnd(r, j) \in Nat
      BY <3>1, SMTT(30) DEF BlankEnd
    <3>4. BlankEnd(r, j) < Len(r)
      BY <1>1, <3>2, <3>3
    <3>5. r[BlankEnd(r, j) + 1] \notin LineEnds
      BY <3>1, <3>2, <3>4 DEF Framed, TextFollows
    <3>6. BlankEnd(r, j) + 1 \in 1 .. Len(r)
          /\ Len(h) + (BlankEnd(r, j) + 1) = (Len(h) + BlankEnd(r, j)) + 1
      BY <1>1, <3>3, <3>4
    <3>7. s[Len(h) + (BlankEnd(r, j) + 1)] = r[BlankEnd(r, j) + 1]
      BY <1>1, <3>6
    <3>. QED
      BY <3>2, <3>5, <3>6, <3>7
  <2>. QED
    BY <1>1, <2>1, <2>2
<1>8. LastLine(s)
  <2>. SUFFICES ASSUME NEW i \in DOMAIN s, s[i].id # 0
                PROVE  BlankAt(s, i + 1)
    BY DEF LastLine
  <2>1. CASE i <= Len(h)
    <3>1. i \in DOMAIN h /\ h[i] = s[i] /\ i \in Nat
      BY <1>1, <2>1
    <3>2. BlankAt(h, i + 1)
      BY <3>1 DEF Framed, LastLine
    <3>3. (i + 1) + 1 <= Len(h)
      BY <3>1, <3>2, BlankRoom
    <3>4. i + 1 \in DOMAIN h
      BY <1>1, <3>1, <3>3
    <3>. QED
      BY <1>3, <3>2, <3>4
  <2>2. CASE i > Len(h)
    <3>. DEFINE j == i - Len(h)
    <3>1. j \in DOMAIN r /\ Len(h) + j = i /\ j \in Nat /\ Len(h) + (j + 1) = i + 1
      BY <1>1, <2>2
    <3>. HIDE DEF j
    <3>2. r[j] = s[i]
      BY <1>1, <3>1
    <3>3. BlankAt(r, j + 1)
      BY <3>1, <3>2 DEF Framed, LastLine
    <3>4. (j + 1) + 1 <= Len(r)
      BY <3>1, <3>3, BlankRoom
    <3>5. j + 1 \in DOMAIN r
      BY <1>1, <3>1, <3>4
    <3>. QED
      BY <1>2, <3>1, <3>3, <3>5
  <2>. QED
    BY <1>1, <2>1, <2>2
<1>. QED
  BY <1>5, <1>6, <1>7, <1>8 DEF Framed, s

Comment == Text("comment", 0)
Shapes(t) == {<<t, LF, LF>>, <<t, CR, LF, CR, LF>>, <<Comment, LF, t, LF, LF>>,
              <<Comment, CR, LF, t, CR, LF, CR, LF>>}

\* A line and a blank one, after a comment line or not, is a block.
LEMMA ShapesAreFramed ==
  ASSUME NEW t \in Byte, t \notin LineEnds, NEW b \in Shapes(t)
  PROVE  /\ b \in Seq(Byte) /\ Framed(b) /\ b # <<>>
         /\ \E p \in DOMAIN b: b[p] = t /\ \A q \in DOMAIN b: q # p => b[q].id = 0
<1>1. /\ LF # CR /\ t # LF /\ t # CR /\ Comment # LF /\ Comment # CR
      /\ LF.id = 0 /\ CR.id = 0 /\ Comment.id = 0
      /\ LF \in Byte /\ CR \in Byte /\ Comment \in Byte
      /\ Comment \notin LineEnds
  BY DEF LF, CR, Comment, Text, LineEnds, Byte
<1>2. CASE b = <<t, LF, LF>>
  <2>1. /\ Len(b) = 3 /\ DOMAIN b = 1 .. 3 /\ b \in Seq(Byte)
        /\ b[1] = t /\ b[2] = LF /\ b[3] = LF
    BY <1>1, <1>2
  <2>2. \A q \in 1 .. 3: q # 1 => b[q].id = 0
    BY <1>1, <2>1
  <2>3. \A i \in 1 .. 3: BlankAt(b, i) <=> i = 2
    BY <1>1, <2>1 DEF BlankAt
  <2>4. BlankEnd(b, 2) = 3
    BY <1>1, <2>1 DEF BlankEnd
  <2>5. StartsWithText(b)
    BY <1>1, <2>1 DEF StartsWithText
  <2>6. EndsBlank(b) /\ TextFollows(b) /\ LastLine(b)
    BY <2>1, <2>2, <2>3, <2>4 DEF EndsBlank, TextFollows, LastLine
  <2>7. b # <<>>
    <3>1. Len(b) # 0
      BY <2>1
    <3>. QED
      BY <3>1
  <2>. QED
    BY <2>1, <2>2, <2>5, <2>6, <2>7 DEF Framed
<1>3. CASE b = <<t, CR, LF, CR, LF>>
  <2>1. /\ Len(b) = 5 /\ DOMAIN b = 1 .. 5 /\ b \in Seq(Byte)
        /\ b[1] = t /\ b[2] = CR /\ b[3] = LF /\ b[4] = CR /\ b[5] = LF
    BY <1>1, <1>3
  <2>2. \A q \in 1 .. 5: q # 1 => b[q].id = 0
    BY <1>1, <2>1
  <2>3. \A i \in 1 .. 5: BlankAt(b, i) <=> i = 2
    BY <1>1, <2>1 DEF BlankAt
  <2>4. BlankEnd(b, 2) = 5
    BY <1>1, <2>1 DEF BlankEnd
  <2>5. StartsWithText(b)
    BY <1>1, <2>1 DEF StartsWithText
  <2>6. EndsBlank(b) /\ TextFollows(b) /\ LastLine(b)
    BY <2>1, <2>2, <2>3, <2>4 DEF EndsBlank, TextFollows, LastLine
  <2>7. b # <<>>
    <3>1. Len(b) # 0
      BY <2>1
    <3>. QED
      BY <3>1
  <2>. QED
    BY <2>1, <2>2, <2>5, <2>6, <2>7 DEF Framed
<1>4. CASE b = <<Comment, LF, t, LF, LF>>
  <2>1. /\ Len(b) = 5 /\ DOMAIN b = 1 .. 5 /\ b \in Seq(Byte)
        /\ b[1] = Comment /\ b[2] = LF /\ b[3] = t /\ b[4] = LF /\ b[5] = LF
    BY <1>1, <1>4
  <2>2. \A q \in 1 .. 5: q # 3 => b[q].id = 0
    BY <1>1, <2>1
  <2>3. \A i \in 1 .. 5: BlankAt(b, i) <=> i = 4
    BY <1>1, <2>1 DEF BlankAt
  <2>4. BlankEnd(b, 4) = 5
    BY <1>1, <2>1 DEF BlankEnd
  <2>5. StartsWithText(b)
    BY <1>1, <2>1 DEF StartsWithText
  <2>6. EndsBlank(b) /\ TextFollows(b) /\ LastLine(b)
    BY <2>1, <2>2, <2>3, <2>4 DEF EndsBlank, TextFollows, LastLine
  <2>7. b # <<>>
    <3>1. Len(b) # 0
      BY <2>1
    <3>. QED
      BY <3>1
  <2>. QED
    BY <2>1, <2>2, <2>5, <2>6, <2>7 DEF Framed
<1>5. CASE b = <<Comment, CR, LF, t, CR, LF, CR, LF>>
  <2>1. /\ Len(b) = 8 /\ DOMAIN b = 1 .. 8 /\ b \in Seq(Byte)
        /\ b[1] = Comment /\ b[2] = CR /\ b[3] = LF /\ b[4] = t /\ b[5] = CR /\ b[6] = LF /\ b[7] = CR /\ b[8] = LF
    BY <1>1, <1>5
  <2>2. \A q \in 1 .. 8: q # 4 => b[q].id = 0
    BY <1>1, <2>1
  <2>3. \A i \in 1 .. 8: BlankAt(b, i) <=> i = 5
    BY <1>1, <2>1 DEF BlankAt
  <2>4. BlankEnd(b, 5) = 8
    BY <1>1, <2>1 DEF BlankEnd
  <2>5. StartsWithText(b)
    BY <1>1, <2>1 DEF StartsWithText
  <2>6. EndsBlank(b) /\ TextFollows(b) /\ LastLine(b)
    BY <2>1, <2>2, <2>3, <2>4 DEF EndsBlank, TextFollows, LastLine
  <2>7. b # <<>>
    <3>1. Len(b) # 0
      BY <2>1
    <3>. QED
      BY <3>1
  <2>. QED
    BY <2>1, <2>2, <2>5, <2>6, <2>7 DEF Framed
<1>. QED
  BY <1>2, <1>3, <1>4, <1>5 DEF Shapes

\* The bytes of the four shapes, one by one.
LEMMA SpellPlain ==
  ASSUME NEW l, NEW t
  PROVE  (<<t>> \o <<l>>) \o <<l>> = <<t, l, l>>
<1>. DEFINE T == {l, t}
            x == (<<t>> \o <<l>>) \o <<l>>
            y == <<t, l, l>>
<1>1. x \in Seq(T) /\ y \in Seq(T)
  OBVIOUS
<1>2. Len(x) = 3 /\ Len(y) = 3
  OBVIOUS
<1>3. x[1] = t /\ x[2] = l /\ x[3] = l
  OBVIOUS
<1>4. \A i \in 1 .. 3: x[i] = y[i]
  BY <1>3
<1>. QED
  BY <1>1, <1>2, <1>4, SeqEqual

LEMMA SpellPlainCr ==
  ASSUME NEW r, NEW l, NEW t
  PROVE  (<<t>> \o <<r, l>>) \o <<r, l>> = <<t, r, l, r, l>>
<1>. DEFINE T == {r, l, t}
            x == (<<t>> \o <<r, l>>) \o <<r, l>>
            y == <<t, r, l, r, l>>
<1>1. x \in Seq(T) /\ y \in Seq(T)
  OBVIOUS
<1>2. Len(x) = 5 /\ Len(y) = 5
  OBVIOUS
<1>3. x[1] = t /\ x[2] = r /\ x[3] = l /\ x[4] = r /\ x[5] = l
  OBVIOUS
<1>4. \A i \in 1 .. 5: x[i] = y[i]
  BY <1>3
<1>. QED
  BY <1>1, <1>2, <1>4, SeqEqual

LEMMA SpellCommented ==
  ASSUME NEW c, NEW l, NEW t
  PROVE  (((<<c>> \o <<l>>) \o <<t>>) \o <<l>>) \o <<l>> = <<c, l, t, l, l>>
<1>. DEFINE T == {c, l, t}
            x == (((<<c>> \o <<l>>) \o <<t>>) \o <<l>>) \o <<l>>
            y == <<c, l, t, l, l>>
<1>1. x \in Seq(T) /\ y \in Seq(T)
  OBVIOUS
<1>2. Len(x) = 5 /\ Len(y) = 5
  OBVIOUS
<1>3. x[1] = c /\ x[2] = l /\ x[3] = t /\ x[4] = l /\ x[5] = l
  OBVIOUS
<1>4. \A i \in 1 .. 5: x[i] = y[i]
  BY <1>3
<1>. QED
  BY <1>1, <1>2, <1>4, SeqEqual

LEMMA SpellCommentedCr ==
  ASSUME NEW c, NEW r, NEW l, NEW t
  PROVE  (((<<c>> \o <<r, l>>) \o <<t>>) \o <<r, l>>) \o <<r, l>> = <<c, r, l, t, r, l, r, l>>
<1>. DEFINE T == {c, r, l, t}
            x == (((<<c>> \o <<r, l>>) \o <<t>>) \o <<r, l>>) \o <<r, l>>
            y == <<c, r, l, t, r, l, r, l>>
<1>1. x \in Seq(T) /\ y \in Seq(T)
  OBVIOUS
<1>2. Len(x) = 8 /\ Len(y) = 8
  OBVIOUS
<1>3. x[1] = c /\ x[2] = r /\ x[3] = l /\ x[4] = t /\ x[5] = r /\ x[6] = l /\ x[7] = r /\ x[8] = l
  OBVIOUS
<1>4. \A i \in 1 .. 8: x[i] = y[i]
  BY <1>3
<1>. QED
  BY <1>1, <1>2, <1>4, SeqEqual

\* The block of an event has one of these shapes, and so does a keepalive.
LEMMA BlockShapes ==
  ASSUME NEW kind \in Kinds, NEW id \in Nat \ {0}, NEW eol \in {<<LF>>, <<CR, LF>>}
  PROVE  Block(kind, id, eol) \in Shapes(Text(IF kind = "commented" THEN "event" ELSE kind, id))
<1>. DEFINE t == Text(IF kind = "commented" THEN "event" ELSE kind, id)
<1>2. CASE kind = "commented"
  <2>. DEFINE lines == <<Comment, t>>
  <2>1. Block(kind, id, eol) =
          (IF Len(lines) = 2 THEN <<lines[1]>> \o eol ELSE <<>>) \o <<lines[Len(lines)]>> \o eol \o eol
    BY <1>2, Zenon DEF Block, Comment
  <2>2. Len(lines) = 2 /\ lines[1] = Comment /\ lines[2] = t
    OBVIOUS
  <2>. HIDE DEF lines, t
  <2>3. Block(kind, id, eol) = (((<<Comment>> \o eol) \o <<t>>) \o eol) \o eol
    BY <2>1, <2>2
  <2>4. (((<<Comment>> \o <<LF>>) \o <<t>>) \o <<LF>>) \o <<LF>> = <<Comment, LF, t, LF, LF>>
    BY SpellCommented, Zenon
  <2>5. (((<<Comment>> \o <<CR, LF>>) \o <<t>>) \o <<CR, LF>>) \o <<CR, LF>>
          = <<Comment, CR, LF, t, CR, LF, CR, LF>>
    BY SpellCommentedCr, Zenon
  <2>6. Block(kind, id, eol) \in Shapes(t)
    BY <2>3, <2>4, <2>5, Zenon DEF Shapes
  <2>. QED
    BY <2>6 DEF t
<1>3. CASE kind # "commented"
  <2>. DEFINE lines == <<t>>
  <2>1. Block(kind, id, eol) =
          (IF Len(lines) = 2 THEN <<lines[1]>> \o eol ELSE <<>>) \o <<lines[Len(lines)]>> \o eol \o eol
    BY <1>3, Zenon DEF Block
  <2>2. Len(lines) = 1 /\ lines[1] = t
    OBVIOUS
  <2>. HIDE DEF lines, t
  <2>3. Block(kind, id, eol) = (<<t>> \o eol) \o eol
    <3>1. Block(kind, id, eol) = ((<<>> \o <<t>>) \o eol) \o eol
      BY <2>1, <2>2
    <3>2. <<t>> \in Seq({t})
      OBVIOUS
    <3>3. <<>> \o <<t>> = <<t>>
      BY <3>2, ConcatEmptySeq
    <3>. QED
      BY <3>1, <3>3
  <2>4. (<<t>> \o <<LF>>) \o <<LF>> = <<t, LF, LF>>
    BY SpellPlain, Zenon
  <2>5. (<<t>> \o <<CR, LF>>) \o <<CR, LF>> = <<t, CR, LF, CR, LF>>
    BY SpellPlainCr, Zenon
  <2>6. Block(kind, id, eol) \in Shapes(t)
    BY <2>3, <2>4, <2>5, Zenon DEF Shapes
  <2>. QED
    BY <2>6 DEF t
<1>. QED
  BY <1>2, <1>3

LEMMA KeepaliveShape == KeepaliveBytes \in Shapes(Comment)
  BY DEF KeepaliveBytes, Shapes, Comment

LEMMA Regrouped ==
  ASSUME NEW x \in Seq(Byte), NEW y \in Seq(Byte), NEW z \in Seq(Byte)
  PROVE  (x \o y) \o z = x \o (y \o z)
  BY ConcatAssociative

\* The part of a sequence from one place to another.
LEMMA Parts ==
  ASSUME NEW s \in Seq(Byte), NEW e \in 0 .. Len(s)
  PROVE  /\ SubSeq(s, 1, e) \in Seq(Byte) /\ Len(SubSeq(s, 1, e)) = e
         /\ \A i \in 1 .. e: SubSeq(s, 1, e)[i] = s[i]
         /\ SubSeq(s, e + 1, Len(s)) \in Seq(Byte) /\ Len(SubSeq(s, e + 1, Len(s))) = Len(s) - e
         /\ \A i \in 1 .. Len(s) - e: SubSeq(s, e + 1, Len(s))[i] = s[e + i]
         /\ SubSeq(s, 1, e) \o SubSeq(s, e + 1, Len(s)) = s
<1>1. Len(s) \in Nat /\ e \in Nat /\ e <= Len(s)
  OBVIOUS
<1>. DEFINE h == SubSeq(s, 1, e)
            r == SubSeq(s, e + 1, Len(s))
<1>2. h \in Seq(Byte) /\ Len(h) = e /\ \A i \in 1 .. e: h[i] = s[i]
  <2>1. \A i \in 1 .. e: s[i] \in Byte
    BY <1>1
  <2>. QED
    BY <1>1, <2>1
<1>3. r \in Seq(Byte) /\ Len(r) = Len(s) - e /\ \A i \in 1 .. Len(s) - e: r[i] = s[e + i]
  <2>1. \A i \in e + 1 .. Len(s): s[i] \in Byte
    BY <1>1
  <2>. QED
    BY <1>1, <2>1
<1>. HIDE DEF h, r
<1>4. h \o r = s
  <2>1. /\ h \o r \in Seq(Byte) /\ Len(h \o r) = Len(s)
        /\ \A i \in 1 .. Len(h): (h \o r)[i] = h[i]
        /\ \A i \in 1 .. Len(r): (h \o r)[Len(h) + i] = r[i]
    BY <1>1, <1>2, <1>3, Joined
  <2>2. ASSUME NEW i \in 1 .. Len(s)
        PROVE  (h \o r)[i] = s[i]
    <3>1. CASE i <= e
      BY <1>1, <1>2, <2>1, <3>1
    <3>2. CASE i > e
      <4>1. i - e \in 1 .. Len(s) - e /\ e + (i - e) = i
        BY <1>1, <3>2
      <4>2. (h \o r)[e + (i - e)] = r[i - e] /\ r[i - e] = s[e + (i - e)]
        BY <1>2, <1>3, <2>1, <4>1
      <4>. QED
        BY <4>1, <4>2
    <3>3. i <= e \/ i > e
      BY <1>1
    <3>. QED
      BY <3>1, <3>2, <3>3
  <2>. QED
    BY <2>1, <2>2, SeqEqual
<1>. QED
  BY <1>2, <1>3, <1>4 DEF h, r

\* What is cut at the first blank line is one block, and what makes an event of it is its
\* last line.
LEMMA CutsOne ==
  ASSUME NEW b \in Seq(Byte), NEW w \in Seq(Byte), Framed(b \o w), FindBlankLine(b).end # 0,
         NEW c, c = FindBlankLine(b).start, NEW e, e = FindBlankLine(b).end
  PROVE  /\ c \in 2 .. Len(b) /\ e \in c + 1 .. Len(b)
         /\ b[1] \notin LineEnds
         /\ \A i \in 1 .. c - 2: b[i].id = 0
         /\ \A i \in c .. e: b[i] \in LineEnds
         /\ Framed(SubSeq(b, e + 1, Len(b)) \o w)
         /\ b \o w = SubSeq(b, 1, e) \o (SubSeq(b, e + 1, Len(b)) \o w)
<1>. DEFINE s == b \o w
            h == SubSeq(b, 1, e)
            q == SubSeq(b, e + 1, Len(b))
            r == q \o w
<1>1. /\ c \in DOMAIN b /\ BlankAt(b, c) /\ e = BlankEnd(b, c)
      /\ \A i \in DOMAIN b: BlankAt(b, i) => c <= i
  BY FirstBlank
<1>2. e \in c + 1 .. Len(b) /\ \A i \in c .. e: b[i] \in LineEnds
  BY <1>1, BlankBytes
<1>3. /\ s \in Seq(Byte) /\ Len(s) = Len(b) + Len(w) /\ Len(b) \in Nat /\ Len(w) \in Nat
      /\ DOMAIN b = 1 .. Len(b) /\ DOMAIN s = 1 .. Len(s)
      /\ \A i \in 1 .. Len(b): s[i] = b[i]
  BY Joined
<1>4. c \in 1 .. Len(b) /\ c \in Nat /\ e \in Nat /\ e \in 0 .. Len(b)
  BY <1>1, <1>2, <1>3
<1>5. /\ h \in Seq(Byte) /\ Len(h) = e /\ q \in Seq(Byte) /\ b = h \o q /\ Len(q) = Len(b) - e
  BY <1>4, Parts
<1>. HIDE DEF h, q
<1>6. s = h \o r /\ r \in Seq(Byte)
  <2>1. h \in Seq(Byte) /\ q \in Seq(Byte) /\ w \in Seq(Byte)
    BY <1>5
  <2>2. (h \o q) \o w = h \o (q \o w)
    BY <2>1, Regrouped
  <2>. QED
    BY <1>5, <2>2, Joined
<1>7. BlankAt(s, c) /\ BlankEnd(s, c) = e /\ c \in DOMAIN s
  <2>1. \A i \in DOMAIN b: BlankAt(b, i) => BlankAt(s, i) /\ BlankEnd(s, i) = BlankEnd(b, i)
    BY BlanksJoined
  <2>. QED
    BY <1>1, <1>3, <1>4, <2>1
<1>8. \A i \in DOMAIN b: BlankAt(s, i) /\ BlankEnd(s, i) <= Len(b) => BlankAt(b, i)
  BY BlanksJoined
<1>9. Framed(s)
  OBVIOUS
<1>10. Framed(r)
  <2>1. c \in DOMAIN h /\ BlankAt(h \o r, c) /\ BlankEnd(h \o r, c) = Len(h) /\ Framed(h \o r)
    BY <1>2, <1>4, <1>5, <1>6, <1>7, <1>9
  <2>. HIDE DEF s, r
  <2>. QED
    BY <1>5, <1>6, <2>1, FramedRest
<1>. HIDE DEF s, r
<1>11. s[1] \notin LineEnds /\ b[1] \notin LineEnds
  <2>1. s # <<>> /\ 1 \in 1 .. Len(b)
    BY <1>3, <1>4
  <2>. QED
    BY <1>3, <1>9, <2>1 DEF Framed, StartsWithText
<1>12. c # 1
  BY <1>2, <1>4, <1>11
<1>13. ASSUME NEW i \in 1 .. c - 2, b[i].id # 0
       PROVE  FALSE
  <2>1. /\ i \in DOMAIN s /\ s[i] = b[i] /\ i \in Nat /\ i + 1 \in DOMAIN b /\ i + 1 \in DOMAIN s
        /\ i + 1 < c /\ i + 1 <= e
    <3>1. i \in Nat /\ i >= 1 /\ i + 1 < c /\ c < e /\ e <= Len(b) /\ c <= Len(b)
      BY <1>2, <1>4
    <3>2. i \in 1 .. Len(b) /\ i + 1 \in 1 .. Len(b) /\ i \in 1 .. Len(s) /\ i + 1 \in 1 .. Len(s)
          /\ i + 1 <= e
      BY <1>3, <1>4, <3>1, SMTT(30)
    <3>. QED
      BY <1>3, <3>1, <3>2
  <2>2. BlankAt(s, i + 1)
    BY <1>9, <1>13, <2>1 DEF Framed, LastLine
  <2>3. BlankEnd(s, i + 1) <= Len(b)
    <3>1. BlankEnd(s, i + 1) \in (i + 1) + 1 .. Len(s)
      BY <1>3, <2>1, <2>2, BlankBytes
    <3>2. CASE e = Len(s)
      BY <1>3, <1>4, <3>1, <3>2
    <3>3. CASE e < Len(s)
      <4>1. s[e + 1] \notin LineEnds
        <5>1. \A j \in DOMAIN s: BlankAt(s, j) /\ BlankEnd(s, j) < Len(s) => s[BlankEnd(s, j) + 1] \notin LineEnds
          BY <1>9 DEF Framed, TextFollows
        <5>. QED
          BY <1>7, <3>3, <5>1, Zenon
      <4>2. BlankEnd(s, i + 1) <= e
        BY <1>3, <1>4, <2>1, <2>2, <3>3, <4>1, NoneStraddles
      <4>. QED
        BY <1>3, <1>4, <3>1, <4>2
    <3>4. e = Len(s) \/ e < Len(s)
      BY <1>3, <1>4, SMTT(30)
    <3>. QED
      BY <3>2, <3>3, <3>4
  <2>4. BlankAt(b, i + 1)
    BY <1>8, <2>1, <2>2, <2>3
  <2>5. c <= i + 1
    BY <1>1, <2>1, <2>4
  <2>. QED
    BY <1>4, <2>1, <2>5
<1>14. c \in 2 .. Len(b)
  BY <1>4, <1>12
<1>. QED
  BY <1>2, <1>6, <1>10, <1>11, <1>13, <1>14 DEF s, r, h, q

\* What a block says is in its last line, and a comment is never mistaken for silence.
LEMMA BlockMeans ==
  ASSUME NEW k \in Seq(Byte), k # <<>>, k[1] \notin LineEnds,
         \A i \in 1 .. Len(k) - 1: k[i].id = 0
  PROVE  /\ k[Len(k)].is = "garbled" => EventOf(k) = [name |-> "error", id |-> 0]
         /\ k[Len(k)].is = "event" => EventOf(k) = [name |-> "event", id |-> k[Len(k)].id]
         /\ k[Len(k)].is \notin {"event", "garbled"} => EventOf(k).name \notin {"event", "error"}
         /\ HasComment(k) \/ k[Len(k)].id = 0 => EventOf(k).name # "none"
<1>. DEFINE n == Len(k)
            named == {i \in DOMAIN k: k[i].is = "event"}
            comment == \E i \in DOMAIN k: k[i].is = "comment"
<1>1. n \in Nat /\ n >= 1 /\ DOMAIN k = 1 .. n /\ \A i \in 1 .. n: k[i] \in Byte
  OBVIOUS
<1>2. \A x \in Byte: /\ x.id = 0 => x.is \in {"lf", "cr", "comment"}
                     /\ x.id # 0 => x.is \in {"event", "garbled", "idle"}
                     /\ x.id = 0 /\ x \notin LineEnds => x.is = "comment"
  BY DEF Byte, LineEnds, LF, CR, Text
<1>3. ASSUME NEW i \in 1 .. n, i # n
      PROVE  k[i].is \in {"lf", "cr", "comment"}
  <2>1. i \in 1 .. n - 1
    BY <1>1, <1>3
  <2>2. k[i].id = 0 /\ k[i] \in Byte
    BY <1>1, <2>1
  <2>. QED
    BY <1>2, <2>2
<1>4. named = IF k[n].is = "event" THEN {n} ELSE {}
  <2>1. \A i \in named: i = n
    BY <1>1, <1>3
  <2>2. n \in named <=> k[n].is = "event"
    BY <1>1
  <2>. HIDE DEF named, n
  <2>. QED
    BY <2>1, <2>2, SMTT(30)
<1>5. k[n].is = "event" => Max(named) = n
  <2>1. \A x: x \in {n} /\ (\A y \in {n}: x >= y) <=> x = n
    BY <1>1
  <2>2. (CHOOSE x \in {n}: \A y \in {n}: x >= y) = n
    BY <2>1
  <2>. QED
    BY <1>4, <2>2, Zenon DEF Max
<1>6. (\E i \in DOMAIN k: k[i].is = "garbled") <=> k[n].is = "garbled"
  <2>1. n \in DOMAIN k
    BY <1>1, SMTT(30)
  <2>2. \A i \in DOMAIN k: k[i].is = "garbled" => i = n
    BY <1>1, <1>3
  <2>. HIDE DEF n
  <2>. QED
    BY <2>1, <2>2
<1>7. ParseFields(k) = [event |-> IF named = {} THEN 0 ELSE k[Max(named)].id, comment |-> comment]
  BY Zenon DEF ParseFields
<1>. HIDE DEF n, named, comment
<1>8. /\ k[n].is = "event" => ParseFields(k).event = k[n].id /\ k[n].id # 0
      /\ k[n].is # "event" => ParseFields(k).event = 0
      /\ ParseFields(k).comment = comment
  <2>1. k[n].is = "event" => k[n].id # 0
    BY <1>1, <1>2
  <2>. QED
    BY <1>4, <1>5, <1>7, <2>1
<1>9. k[n].id = 0 => comment
  <2>1. k[n].id = 0 => k[1].id = 0 /\ 1 \in DOMAIN k
    BY <1>1 DEF n
  <2>. QED
    BY <1>1, <1>2, <2>1 DEF comment
<1>10. CASE k[n].is = "garbled"
  BY <1>6, <1>10, Zenon DEF EventOf, n
<1>11. CASE k[n].is = "event"
  <2>1. EventOf(k) = ParseWidgetBlock(k)
    BY <1>6, <1>11 DEF EventOf
  <2>2. ParseWidgetBlock(k) = [name |-> "event", id |-> k[n].id]
    BY <1>8, <1>11 DEF ParseWidgetBlock
  <2>. QED
    BY <1>11, <2>1, <2>2 DEF n
<1>12. CASE k[n].is \notin {"event", "garbled"}
  <2>1. EventOf(k) = ParseWidgetBlock(k)
    BY <1>6, <1>12 DEF EventOf
  <2>2. ParseWidgetBlock(k) = IF comment THEN [name |-> "keepalive", id |-> 0] ELSE NoEvent
    BY <1>8, <1>12 DEF ParseWidgetBlock
  <2>3. HasComment(k) <=> comment
    BY DEF HasComment, comment
  <2>. QED
    BY <1>9, <1>12, <2>1, <2>2, <2>3 DEF n, NoEvent
<1>. QED
  BY <1>10, <1>11, <1>12 DEF n

-----------------------------------------------------------------------------
\* Bytes that name no event leave what is unread as it is, after it and before it.
LEMMA QuietBytes ==
  ASSUME NEW h \in Seq(Byte), NEW r \in Seq(Byte), NEW w \in Seq(Kinds), NEW n \in 0 .. Len(w)
  PROVE  /\ (\A p \in DOMAIN r: r[p].id = 0) /\ Unread(h, w, n) => Unread(h \o r, w, n)
         /\ (\A p \in DOMAIN h: h[p].id = 0) /\ Unread(h \o r, w, n) => Unread(r, w, n)
<1>. DEFINE s == h \o r
<1>1. /\ s \in Seq(Byte) /\ Len(s) = Len(h) + Len(r) /\ Len(h) \in Nat /\ Len(r) \in Nat
      /\ DOMAIN h = 1 .. Len(h) /\ DOMAIN r = 1 .. Len(r) /\ DOMAIN s = 1 .. Len(h) + Len(r)
      /\ \A i \in 1 .. Len(h): s[i] = h[i]
      /\ \A i \in 1 .. Len(r): s[Len(h) + i] = r[i]
      /\ \A i \in 1 .. Len(h) + Len(r): i <= Len(h) \/ i - Len(h) \in 1 .. Len(r)
  BY Joined
<1>. HIDE DEF s
<1>2. \A k: Line(w, k).id = k
  BY DEF Line, Text
<1>3. ASSUME \A p \in DOMAIN r: r[p].id = 0, Unread(h, w, n)
      PROVE  Unread(s, w, n)
  <2>1. ASSUME NEW p \in DOMAIN s, s[p].id # 0
        PROVE  p \in DOMAIN h /\ s[p] = h[p]
    <3>1. CASE p <= Len(h)
      BY <1>1, <3>1
    <3>2. CASE p - Len(h) \in 1 .. Len(r)
      <4>1. Len(h) + (p - Len(h)) = p /\ s[Len(h) + (p - Len(h))] = r[p - Len(h)]
        BY <1>1, <3>2
      <4>. QED
        BY <1>1, <1>3, <2>1, <3>2, <4>1
    <3>. QED
      BY <1>1, <3>1, <3>2
  <2>2. \A p \in DOMAIN h: p \in DOMAIN s /\ s[p] = h[p]
    BY <1>1
  <2>3. \A k \in n + 1 .. Len(w): \E p \in DOMAIN s: s[p] = Line(w, k)
    BY <1>3, <2>2, Zenon DEF Unread
  <2>4. \A p \in DOMAIN s: s[p].id # 0 => s[p].id \in n + 1 .. Len(w) /\ s[p] = Line(w, s[p].id)
    BY <1>3, <2>1, Zenon DEF Unread
  <2>5. \A p, q \in DOMAIN s: p < q /\ s[p].id # 0 /\ s[q].id # 0 => s[p].id < s[q].id
    <3>1. \A p, q \in DOMAIN h: p < q /\ h[p].id # 0 /\ h[q].id # 0 => h[p].id < h[q].id
      BY <1>3, Zenon DEF Unread
    <3>. QED
      BY <2>1, <3>1, Zenon
  <2>. QED
    BY <2>3, <2>4, <2>5, Zenon DEF Unread
<1>4. ASSUME \A p \in DOMAIN h: h[p].id = 0, Unread(s, w, n)
      PROVE  Unread(r, w, n)
  <2>. DEFINE d == Len(h)
  <2>1. \A p \in DOMAIN r: d + p \in DOMAIN s /\ s[d + p] = r[p]
    BY <1>1
  <2>2. ASSUME NEW p \in DOMAIN s, s[p].id # 0
        PROVE  \E q \in DOMAIN r: r[q] = s[p]
    <3>1. p - Len(h) \in 1 .. Len(r)
      BY <1>1, <1>4, <2>2
    <3>2. Len(h) + (p - Len(h)) = p /\ s[Len(h) + (p - Len(h))] = r[p - Len(h)]
      BY <1>1, <3>1
    <3>. QED
      BY <1>1, <3>1, <3>2
  <2>3. ASSUME NEW k \in n + 1 .. Len(w)
        PROVE  \E p \in DOMAIN r: r[p] = Line(w, k)
    <3>1. PICK p \in DOMAIN s: s[p] = Line(w, k)
      BY <1>4, Zenon DEF Unread
    <3>2. s[p].id # 0
      BY <1>2, <3>1
    <3>. QED
      BY <2>2, <3>1, <3>2, Zenon
  <2>4. \A p \in DOMAIN r: r[p].id # 0 => r[p].id \in n + 1 .. Len(w) /\ r[p] = Line(w, r[p].id)
    BY <1>4, <2>1, Zenon DEF Unread
  <2>5. ASSUME NEW p \in DOMAIN r, NEW q \in DOMAIN r, p < q, r[p].id # 0, r[q].id # 0
        PROVE  r[p].id < r[q].id
    <3>1. d + p < d + q
      BY <1>1, <2>5
    <3>2. \A i, j \in DOMAIN s: i < j /\ s[i].id # 0 /\ s[j].id # 0 => s[i].id < s[j].id
      BY <1>4, Zenon DEF Unread
    <3>3. d + p \in DOMAIN s /\ d + q \in DOMAIN s /\ s[d + p] = r[p] /\ s[d + q] = r[q]
      BY <2>1
    <3>. HIDE DEF d
    <3>. QED
      BY <2>5, <3>1, <3>2, <3>3
  <2>. QED
    BY <2>3, <2>4, <2>5, Zenon DEF Unread
<1>. QED
  BY <1>3, <1>4, Zenon DEF s

\* A block that is written becomes the last of what is unread.
LEMMA WrittenLast ==
  ASSUME NEW s \in Seq(Byte), NEW b \in Seq(Byte), NEW w \in Seq(Kinds), NEW n \in 0 .. Len(w),
         NEW kind \in Kinds, Unread(s, w, n),
         NEW p \in DOMAIN b, b[p] = Line(Append(w, kind), Len(w) + 1), \A q \in DOMAIN b: q # p => b[q].id = 0
  PROVE  Unread(s \o b, Append(w, kind), n)
<1>. DEFINE all == s \o b
            w1 == Append(w, kind)
            last == Len(w) + 1
<1>1. /\ all \in Seq(Byte) /\ Len(all) = Len(s) + Len(b) /\ Len(s) \in Nat /\ Len(b) \in Nat
      /\ DOMAIN s = 1 .. Len(s) /\ DOMAIN b = 1 .. Len(b) /\ DOMAIN all = 1 .. Len(s) + Len(b)
      /\ \A i \in 1 .. Len(s): all[i] = s[i]
      /\ \A i \in 1 .. Len(b): all[Len(s) + i] = b[i]
      /\ \A i \in 1 .. Len(s) + Len(b): i <= Len(s) \/ i - Len(s) \in 1 .. Len(b)
  BY Joined
<1>2. Len(w) \in Nat /\ Len(w1) = last /\ (\A k \in 1 .. Len(w): w1[k] = w[k]) /\ n \in Nat /\ n <= Len(w)
  OBVIOUS
<1>3. \A k: Line(w, k).id = k /\ Line(w1, k).id = k
  BY DEF Line, Text
<1>4. \A k \in n + 1 .. Len(w): Line(w1, k) = Line(w, k)
  BY <1>2 DEF Line
<1>5. b[p] = Line(w1, last)
  OBVIOUS
<1>. HIDE DEF all, w1, last
<1>6. Len(s) + p \in DOMAIN all /\ all[Len(s) + p] = Line(w1, last)
  BY <1>1, <1>5
<1>7. ASSUME NEW q \in DOMAIN all, all[q].id # 0
      PROVE  (q \in DOMAIN s /\ all[q] = s[q]) \/ q = Len(s) + p
  <2>1. CASE q <= Len(s)
    BY <1>1, <2>1
  <2>2. CASE q - Len(s) \in 1 .. Len(b)
    <3>1. Len(s) + (q - Len(s)) = q /\ all[Len(s) + (q - Len(s))] = b[q - Len(s)]
      BY <1>1, <2>2
    <3>2. b[q - Len(s)].id # 0
      BY <1>7, <3>1
    <3>3. q - Len(s) = p
      BY <1>1, <2>2, <3>2
    <3>. QED
      BY <3>1, <3>3
  <2>. QED
    BY <1>1, <2>1, <2>2
<1>8. ASSUME NEW k \in n + 1 .. Len(w1)
      PROVE  \E q \in DOMAIN all: all[q] = Line(w1, k)
  <2>1. CASE k = last
    BY <1>6, <2>1
  <2>2. CASE k # last
    <3>1. k \in n + 1 .. Len(w)
      BY <1>2, <2>2 DEF last
    <3>2. PICK q \in DOMAIN s: s[q] = Line(w, k)
      BY <3>1, Zenon DEF Unread
    <3>3. q \in DOMAIN all /\ all[q] = s[q]
      BY <1>1
    <3>. QED
      BY <1>4, <3>1, <3>2, <3>3
  <2>. QED
    BY <2>1, <2>2
<1>9. ASSUME NEW q \in DOMAIN all, all[q].id # 0
      PROVE  all[q].id \in n + 1 .. Len(w1) /\ all[q] = Line(w1, all[q].id)
  <2>1. CASE q \in DOMAIN s /\ all[q] = s[q]
    <3>1. s[q].id \in n + 1 .. Len(w) /\ s[q] = Line(w, s[q].id)
      BY <1>9, <2>1, Zenon DEF Unread
    <3>2. s[q].id \in n + 1 .. Len(w1)
      BY <1>2, <3>1 DEF last
    <3>. QED
      BY <1>4, <2>1, <3>1, <3>2
  <2>2. CASE q = Len(s) + p
    <3>1. all[q] = Line(w1, last) /\ all[q].id = last
      BY <1>3, <1>6, <2>2
    <3>2. last \in n + 1 .. Len(w1)
      BY <1>2 DEF last
    <3>. QED
      BY <3>1, <3>2
  <2>. QED
    BY <1>7, <1>9, <2>1, <2>2
<1>10. ASSUME NEW i \in DOMAIN all, NEW j \in DOMAIN all, i < j, all[i].id # 0, all[j].id # 0
       PROVE  all[i].id < all[j].id
  <2>1. i \in DOMAIN s /\ all[i] = s[i]
    <3>1. i # Len(s) + p
      <4>1. \/ j \in 1 .. Len(s)
            \/ j = Len(s) + p
        BY <1>1, <1>7, <1>10
      <4>2. p \in 1 .. Len(b)
        BY <1>1
      <4>. QED
        BY <1>1, <1>10, <4>1, <4>2
    <3>. QED
      BY <1>7, <1>10, <3>1
  <2>2. CASE j \in DOMAIN s /\ all[j] = s[j]
    BY <1>10, <2>1, <2>2, Zenon DEF Unread
  <2>3. CASE j = Len(s) + p
    <3>1. all[j].id = last
      BY <1>3, <1>6, <2>3
    <3>2. s[i].id \in n + 1 .. Len(w)
      BY <1>10, <2>1, Zenon DEF Unread
    <3>. QED
      BY <1>2, <2>1, <3>1, <3>2 DEF last
  <2>. QED
    BY <1>7, <1>10, <2>2, <2>3
<1>. QED
  BY <1>8, <1>9, <1>10, Zenon DEF Unread, all, w1

\* The first line that names an event is the next block's, and what follows it holds the
\* blocks after that one.
LEMMA CutIsNext ==
  ASSUME NEW h \in Seq(Byte), NEW r \in Seq(Byte), NEW w \in Seq(Kinds), NEW n \in 0 .. Len(w),
         Unread(h \o r, w, n), NEW m \in DOMAIN h, h[m].id # 0, \A q \in DOMAIN h: q # m => h[q].id = 0
  PROVE  n + 1 \in 1 .. Len(w) /\ h[m] = Line(w, n + 1) /\ Unread(r, w, n + 1)
<1>. DEFINE s == h \o r
            d == Len(h)
<1>1. /\ s \in Seq(Byte) /\ Len(s) = d + Len(r) /\ d \in Nat /\ Len(r) \in Nat
      /\ DOMAIN h = 1 .. d /\ DOMAIN r = 1 .. Len(r) /\ DOMAIN s = 1 .. d + Len(r)
      /\ \A i \in 1 .. d: s[i] = h[i]
      /\ \A i \in 1 .. Len(r): s[d + i] = r[i]
      /\ \A i \in 1 .. d + Len(r): i <= d \/ i - d \in 1 .. Len(r)
  BY Joined
<1>2. Len(w) \in Nat /\ n \in Nat /\ n <= Len(w)
  OBVIOUS
<1>3. \A k: Line(w, k).id = k
  BY DEF Line, Text
<1>4. Unread(s, w, n)
  OBVIOUS
<1>. HIDE DEF s, d
<1>5. m \in DOMAIN s /\ s[m] = h[m] /\ m <= d
  BY <1>1
<1>6. s[m].id \in n + 1 .. Len(w) /\ s[m] = Line(w, s[m].id)
  BY <1>4, <1>5, Zenon DEF Unread
<1>7. \A i, j \in DOMAIN s: i < j /\ s[i].id # 0 /\ s[j].id # 0 => s[i].id < s[j].id
  BY <1>4, Zenon DEF Unread
<1>8. ASSUME NEW q \in DOMAIN s, s[q].id # 0, q # m
      PROVE  q > m /\ s[q].id > s[m].id /\ \E i \in DOMAIN r: r[i] = s[q]
  <2>1. ~(q <= d)
    <3>1. q <= d => q \in DOMAIN h /\ s[q] = h[q]
      BY <1>1
    <3>. QED
      BY <1>8, <3>1
  <2>2. q - d \in 1 .. Len(r)
    BY <1>1, <2>1
  <2>3. d + (q - d) = q /\ s[d + (q - d)] = r[q - d]
    <3>1. s[d + (q - d)] = r[q - d]
      BY <1>1, <2>2
    <3>. QED
      BY <1>1, <3>1
  <2>4. q > m
    BY <1>1, <1>5, <2>1
  <2>5. s[m].id < s[q].id
    BY <1>5, <1>7, <1>8, <2>4
  <2>6. s[m].id \in Nat
    BY <1>2, <1>6
  <2>7. s[q].id \in n + 1 .. Len(w)
    BY <1>4, <1>8, Zenon DEF Unread
  <2>. QED
    BY <1>1, <1>2, <2>2, <2>3, <2>4, <2>5, <2>6, <2>7
<1>9. s[m].id = n + 1
  <2>1. n + 1 \in n + 1 .. Len(w)
    BY <1>2, <1>6
  <2>2. PICK q \in DOMAIN s: s[q] = Line(w, n + 1)
    BY <1>4, <2>1, Zenon DEF Unread
  <2>3. s[q].id = n + 1
    BY <1>3, <2>2
  <2>4. CASE q = m
    BY <2>3, <2>4
  <2>5. CASE q # m
    <3>1. s[q].id > s[m].id
      BY <1>2, <1>8, <2>3, <2>5
    <3>. QED
      BY <1>2, <1>6, <2>3, <3>1
  <2>. QED
    BY <2>4, <2>5
<1>10. n + 1 \in 1 .. Len(w) /\ h[m] = Line(w, n + 1)
  BY <1>2, <1>5, <1>6, <1>9
<1>11. \A p \in DOMAIN r: d + p \in DOMAIN s /\ s[d + p] = r[p] /\ d + p # m
  BY <1>1, <1>5
<1>12. ASSUME NEW k \in (n + 1) + 1 .. Len(w)
       PROVE  \E p \in DOMAIN r: r[p] = Line(w, k)
  <2>1. k \in n + 1 .. Len(w) /\ k # n + 1 /\ k # 0
    BY <1>2
  <2>2. PICK q \in DOMAIN s: s[q] = Line(w, k)
    BY <1>4, <2>1, Zenon DEF Unread
  <2>3. s[q].id # 0 /\ q # m
    BY <1>3, <1>9, <2>1, <2>2
  <2>. QED
    BY <1>8, <2>2, <2>3
<1>13. ASSUME NEW p \in DOMAIN r, r[p].id # 0
       PROVE  r[p].id \in (n + 1) + 1 .. Len(w) /\ r[p] = Line(w, r[p].id)
  <2>1. s[d + p].id \in n + 1 .. Len(w) /\ s[d + p] = Line(w, s[d + p].id)
    BY <1>4, <1>11, <1>13, Zenon DEF Unread
  <2>2. s[d + p].id > s[m].id
    BY <1>8, <1>11, <1>13
  <2>. QED
    BY <1>2, <1>9, <1>11, <2>1, <2>2
<1>14. ASSUME NEW p \in DOMAIN r, NEW q \in DOMAIN r, p < q, r[p].id # 0, r[q].id # 0
       PROVE  r[p].id < r[q].id
  <2>1. d + p < d + q
    BY <1>1, <1>14
  <2>2. d + p \in DOMAIN s /\ d + q \in DOMAIN s /\ s[d + p] = r[p] /\ s[d + q] = r[q]
    BY <1>11
  <2>. QED
    BY <1>7, <1>14, <2>1, <2>2
<1>. QED
  BY <1>10, <1>12, <1>13, <1>14, Zenon DEF Unread

-----------------------------------------------------------------------------
\* The count of the blocks shown grows by one with each that makes an event.
LEMMA ShownCounts ==
  ASSUME wrote \in Seq(Kinds), NEW n \in 0 .. Len(wrote)
  PROVE  /\ IsFiniteSet(Shown(n)) /\ Cardinality(Shown(n)) \in Nat
         /\ \A k \in Shown(n): k \in 1 .. n /\ Cardinality(Shown(k)) \in 1 .. Cardinality(Shown(n))
         /\ n + 1 <= Len(wrote) =>
              Shown(n + 1) = (IF wrote[n + 1] = "idle" THEN Shown(n) ELSE Shown(n) \cup {n + 1})
         /\ n + 1 \notin Shown(n)
<1>1. n \in Nat /\ Len(wrote) \in Nat
  OBVIOUS
<1>2. \A k \in 0 .. n: IsFiniteSet(Shown(k)) /\ Cardinality(Shown(k)) \in Nat
  <2>1. \A k \in 0 .. n: IsFiniteSet(1 .. k)
    BY <1>1, FS_Interval
  <2>2. \A k \in 0 .. n: Shown(k) \subseteq 1 .. k
    BY DEF Shown
  <2>3. \A k \in 0 .. n: IsFiniteSet(Shown(k))
    BY <2>1, <2>2, FS_Subset
  <2>. QED
    BY <2>3, FS_CardinalityType
<1>3. n \in 0 .. n
  BY <1>1
<1>4. ASSUME NEW k \in Shown(n)
      PROVE  k \in 1 .. n /\ Cardinality(Shown(k)) \in 1 .. Cardinality(Shown(n))
  <2>1. k \in 1 .. n /\ k \in Nat /\ k \in 0 .. n
    BY <1>1 DEF Shown
  <2>2. Shown(k) \subseteq Shown(n) /\ k \in Shown(k)
    BY <1>1, <2>1 DEF Shown
  <2>3. Cardinality(Shown(k)) <= Cardinality(Shown(n))
    BY <1>2, <1>3, <2>2, FS_Subset
  <2>4. Cardinality(Shown(k)) # 0
    BY <1>2, <2>1, <2>2, FS_EmptySet
  <2>. QED
    BY <1>2, <1>3, <2>1, <2>3, <2>4
<1>5. ASSUME n + 1 <= Len(wrote)
      PROVE  Shown(n + 1) = (IF wrote[n + 1] = "idle" THEN Shown(n) ELSE Shown(n) \cup {n + 1})
  <2>1. 1 .. n + 1 = (1 .. n) \cup {n + 1}
    BY <1>1
  <2>. QED
    BY <2>1 DEF Shown
<1>6. n + 1 \notin Shown(n)
  BY <1>1 DEF Shown
<1>. QED
  BY <1>2, <1>3, <1>4, <1>5, <1>6

\* What was told of the blocks so far stays so, and one more block is one more event or none.
LEMMA TellsNext ==
  ASSUME WireTyped, NEW n \in 0 .. Len(wrote), Told(n), UNCHANGED wrote
  PROVE  /\ UNCHANGED told => Told(n)'
         /\ n + 1 <= Len(wrote) /\ wrote[n + 1] = "idle" /\ UNCHANGED told => Told(n + 1)'
         /\ n + 1 <= Len(wrote) /\ wrote[n + 1] # "idle"
              /\ told' = Append(told, IF wrote[n + 1] = "garbled" THEN [name |-> "error", id |-> 0]
                                      ELSE [name |-> "event", id |-> n + 1])
              => Told(n + 1)'
<1>. DEFINE ev(k) == IF wrote[k] = "garbled" THEN [name |-> "error", id |-> 0] ELSE [name |-> "event", id |-> k]
            c(k) == Cardinality(Shown(k))
<1>1. \A k: Shown(k)' = Shown(k)
  BY DEF Shown
<1>2. \A k: Told(k)' <=> Len(told') = c(k) /\ \A j \in Shown(k): told'[c(j)] = ev(j)
  BY <1>1 DEF Told
<1>3. Len(told) = c(n) /\ \A j \in Shown(n): told[c(j)] = ev(j)
  BY DEF Told
<1>4. wrote \in Seq(Kinds) /\ told \in Seq([name: {"event", "error"}, id: Nat]) /\ n \in Nat /\ Len(wrote) \in Nat
  BY DEF WireTyped
<1>5. /\ IsFiniteSet(Shown(n)) /\ c(n) \in Nat
      /\ \A j \in Shown(n): j \in 1 .. n /\ c(j) \in 1 .. c(n)
      /\ n + 1 <= Len(wrote) => Shown(n + 1) = (IF wrote[n + 1] = "idle" THEN Shown(n) ELSE Shown(n) \cup {n + 1})
      /\ n + 1 \notin Shown(n)
  BY <1>4, ShownCounts
<1>6. ASSUME UNCHANGED told
      PROVE  Told(n)'
  BY <1>2, <1>3, <1>6
<1>7. ASSUME n + 1 <= Len(wrote), wrote[n + 1] = "idle", UNCHANGED told
      PROVE  Told(n + 1)'
  <2>1. Shown(n + 1) = Shown(n)
    BY <1>5, <1>7
  <2>. QED
    BY <1>2, <1>3, <1>7, <2>1
<1>8. ASSUME n + 1 <= Len(wrote), wrote[n + 1] # "idle", told' = Append(told, ev(n + 1))
      PROVE  Told(n + 1)'
  <2>1. Shown(n + 1) = Shown(n) \cup {n + 1}
    BY <1>5, <1>8
  <2>2. c(n + 1) = c(n) + 1
    BY <1>5, <2>1, FS_AddElement
  <2>. HIDE DEF ev, c
  <2>3. Len(told') = c(n) + 1 /\ told'[c(n) + 1] = ev(n + 1) /\ \A i \in 1 .. c(n): told'[i] = told[i]
    <3>1. told \in Seq([name: {"event", "error"}, id: Nat]) /\ Len(told) = c(n)
      BY <1>3, <1>4
    <3>. QED
      BY <1>8, <3>1
  <2>4. \A j \in Shown(n): told'[c(j)] = ev(j)
    BY <1>3, <1>5, <2>3
  <2>. QED
    BY <1>2, <2>1, <2>2, <2>3, <2>4
<1>. QED
  BY <1>6, <1>7, <1>8

-----------------------------------------------------------------------------
\* The comments of two sequences are those of both.
LEMMA CommentsJoined ==
  ASSUME NEW h \in Seq(Byte), NEW r \in Seq(Byte)
  PROVE  HasComment(h \o r) <=> HasComment(h) \/ HasComment(r)
<1>. DEFINE s == h \o r
<1>1. /\ Len(h) \in Nat /\ Len(r) \in Nat
      /\ DOMAIN h = 1 .. Len(h) /\ DOMAIN r = 1 .. Len(r) /\ DOMAIN s = 1 .. Len(h) + Len(r)
      /\ \A i \in 1 .. Len(h): s[i] = h[i]
      /\ \A i \in 1 .. Len(r): s[Len(h) + i] = r[i]
      /\ \A i \in 1 .. Len(h) + Len(r): i <= Len(h) \/ i - Len(h) \in 1 .. Len(r)
  BY Joined
<1>. HIDE DEF s
<1>2. \A i \in DOMAIN h: i \in DOMAIN s /\ s[i] = h[i]
  BY <1>1
<1>3. \A i \in DOMAIN r: Len(h) + i \in DOMAIN s /\ s[Len(h) + i] = r[i]
  BY <1>1
<1>4. ASSUME NEW i \in DOMAIN s
      PROVE  (i \in DOMAIN h /\ s[i] = h[i]) \/ \E j \in DOMAIN r: s[i] = r[j]
  <2>1. CASE i <= Len(h)
    BY <1>1, <2>1
  <2>2. CASE i - Len(h) \in 1 .. Len(r)
    <3>1. s[Len(h) + (i - Len(h))] = r[i - Len(h)]
      BY <1>1, <2>2
    <3>2. Len(h) + (i - Len(h)) = i
      BY <1>1
    <3>. QED
      BY <1>1, <2>2, <3>1, <3>2
  <2>. QED
    BY <1>1, <2>1, <2>2
<1>5. HasComment(s) => HasComment(h) \/ HasComment(r)
  BY <1>4 DEF HasComment
<1>6. HasComment(h) \/ HasComment(r) => HasComment(s)
  BY <1>2, <1>3, Zenon DEF HasComment
<1>. QED
  BY <1>5, <1>6 DEF s

\* Where blocks are whole, a comment has a blank line after it.
LEMMA CommentIsCut ==
  ASSUME NEW s \in Seq(Byte), Framed(s), HasComment(s)
  PROVE  CommentCut(s)
<1>1. PICK i \in DOMAIN s: s[i].is = "comment"
  BY DEF HasComment
<1>2. s # <<>>
  BY <1>1
<1>3. PICK j \in DOMAIN s: BlankAt(s, j) /\ BlankEnd(s, j) = Len(s)
  BY <1>2 DEF Framed, EndsBlank
<1>4. \A q \in j .. Len(s): s[q] \in LineEnds
  BY <1>3, BlankBytes
<1>5. s[i] \notin LineEnds
  BY <1>1 DEF LineEnds, LF, CR
<1>6. i \in 1 .. Len(s) /\ j \in 1 .. Len(s) /\ Len(s) \in Nat
  OBVIOUS
<1>7. i < j
  BY <1>4, <1>5, <1>6
<1>. QED
  BY <1>1, <1>3, <1>7 DEF CommentCut

LEMMA StreamTyped == WireTyped => Stream \in Seq(Byte) /\ buffer \in Seq(Byte) /\ wire \in Seq(Byte)
  BY Joined DEF WireTyped, Stream

LEMMA WireStarts == WireInit => WireInv
<1>. SUFFICES ASSUME WireInit
              PROVE  WireInv
  OBVIOUS
<1>1. Stream = <<>>
  <2>1. <<>> \in Seq(Byte)
    OBVIOUS
  <2>. QED
    BY <2>1, ConcatEmptySeq DEF WireInit, Stream
<1>2. WireTyped
  BY WireAssumption DEF WireInit, WireTyped
<1>3. Framed(Stream)
  BY <1>1 DEF Framed, StartsWithText, EndsBlank, TextFollows, LastLine
<1>4. Told(0)
  <2>1. Shown(0) = {}
    BY DEF Shown
  <2>. QED
    BY <2>1, FS_EmptySet DEF WireInit, Told
<1>5. Unread(Stream, wrote, 0) /\ 0 \in 0 .. Len(wrote)
  BY <1>1 DEF WireInit, Unread
<1>6. Paced
  BY WireAssumption DEF WireInit, Paced
<1>. QED
  BY <1>2, <1>3, <1>4, <1>5, <1>6 DEF WireInv

\* A write puts a block behind everything else.
LEMMA WriteKeeps ==
  ASSUME WireInv, NEW kind \in Kinds, NEW eol \in {<<LF>>, <<CR, LF>>}, Write(kind, eol)
  PROVE  WireInv'
<1>. DEFINE b == Block(kind, Len(wrote) + 1, eol)
            t == Line(Append(wrote, kind), Len(wrote) + 1)
<1>1. /\ WireTyped /\ Framed(Stream) /\ Paced
      /\ Stream \in Seq(Byte) /\ buffer \in Seq(Byte) /\ wire \in Seq(Byte) /\ wrote \in Seq(Kinds)
  BY StreamTyped DEF WireInv, WireTyped
<1>2. wrote' = Append(wrote, kind) /\ wrote' \in Seq(Kinds) /\ Len(wrote') = Len(wrote) + 1 /\ Len(wrote) \in Nat
      /\ wrote'[Len(wrote) + 1] = kind /\ \A k \in 1 .. Len(wrote): wrote'[k] = wrote[k]
  <2>1. wrote' = Append(wrote, kind)
    BY DEF Write
  <2>. QED
    BY <1>1, <2>1
<1>3. t = Text(IF kind = "commented" THEN "event" ELSE kind, Len(wrote) + 1)
  BY <1>2 DEF Line
<1>4. b \in Shapes(t)
  <2>1. Len(wrote) + 1 \in Nat \ {0}
    BY <1>2
  <2>. QED
    BY <1>3, <2>1, BlockShapes
<1>5. t \in Byte /\ t \notin LineEnds
  BY <1>2, <1>3 DEF Kinds, Byte, Text, LineEnds, LF, CR
<1>6. wire' = wire \o b
  BY <1>2 DEF Write
<1>. HIDE DEF b, t
<1>7. b \in Seq(Byte) /\ Framed(b) /\ b # <<>>
      /\ \E p \in DOMAIN b: b[p] = t /\ \A q \in DOMAIN b: q # p => b[q].id = 0
  BY <1>4, <1>5, ShapesAreFramed
<1>8. Stream' = Stream \o b /\ wire' \in Seq(Byte)
  <2>1. (buffer \o wire) \o b = buffer \o (wire \o b)
    BY <1>1, <1>7, Regrouped
  <2>2. wire \o b \in Seq(Byte)
    BY <1>1, <1>7, Joined
  <2>. QED
    BY <1>6, <2>1, <2>2 DEF Stream, Write
<1>9. WireTyped'
  BY <1>1, <1>2, <1>8 DEF WireTyped, Write
<1>10. Framed(Stream)'
  <2>1. Framed(Stream \o b)
    BY <1>1, <1>7, FramedJoin
  <2>. QED
    BY <1>8, <2>1
<1>11. ASSUME NEW n \in 0 .. Len(wrote), Told(n), Unread(Stream, wrote, n)
       PROVE  Told(n)' /\ Unread(Stream, wrote, n)' /\ n \in 0 .. Len(wrote')
  <2>1. PICK p \in DOMAIN b: b[p] = t /\ \A q \in DOMAIN b: q # p => b[q].id = 0
    BY <1>7
  <2>2. Unread(Stream \o b, Append(wrote, kind), n)
    BY <1>1, <1>7, <1>11, <2>1, WrittenLast DEF t
  <2>3. Unread(Stream, wrote, n)'
    BY <1>2, <1>8, <2>2
  <2>4. Shown(n)' = Shown(n) /\ \A k \in Shown(n): Shown(k)' = Shown(k) /\ wrote'[k] = wrote[k]
    <3>1. \A k \in 0 .. n: Shown(k)' = Shown(k)
      BY <1>2 DEF Shown
    <3>2. \A k \in Shown(n): k \in 1 .. n /\ k \in 0 .. n
      BY <1>2 DEF Shown
    <3>. QED
      BY <1>2, <3>1, <3>2
  <2>5. Told(n)'
    BY <1>11, <2>4 DEF Told, Write
  <2>. QED
    BY <1>2, <2>3, <2>5
<1>12. Paced'
  <2>1. HasComment(Stream) => HasComment(Stream \o b)
    BY <1>1, <1>7, CommentsJoined
  <2>. QED
    BY <1>1, <1>8, <2>1 DEF Paced, Write
<1>. QED
  BY <1>9, <1>10, <1>11, <1>12 DEF WireInv

\* A keepalive says nothing of an event.
LEMMA KeepaliveKeeps ==
  ASSUME WireInv, WriteKeepalive
  PROVE  WireInv'
<1>. DEFINE b == KeepaliveBytes
<1>1. /\ WireTyped /\ Framed(Stream) /\ Paced
      /\ Stream \in Seq(Byte) /\ buffer \in Seq(Byte) /\ wire \in Seq(Byte) /\ wrote \in Seq(Kinds)
  BY StreamTyped DEF WireInv, WireTyped
<1>2. Comment \in Byte /\ Comment \notin LineEnds /\ Comment.id = 0 /\ Comment.is = "comment"
  BY DEF Comment, Byte, Text, LineEnds, LF, CR
<1>3. b \in Seq(Byte) /\ Framed(b) /\ b # <<>> /\ (\A p \in DOMAIN b: b[p].id = 0) /\ HasComment(b)
  <2>1. b \in Seq(Byte) /\ Framed(b) /\ b # <<>>
        /\ \E p \in DOMAIN b: b[p] = Comment /\ \A q \in DOMAIN b: q # p => b[q].id = 0
    BY <1>2, KeepaliveShape, ShapesAreFramed
  <2>. HIDE DEF b
  <2>2. PICK p \in DOMAIN b: b[p] = Comment /\ \A q \in DOMAIN b: q # p => b[q].id = 0
    BY <2>1
  <2>. QED
    BY <1>2, <2>1, <2>2 DEF HasComment
<1>4. wire' = wire \o b
  BY DEF WriteKeepalive
<1>. HIDE DEF b
<1>5. Stream' = Stream \o b /\ wire' \in Seq(Byte)
  <2>1. (buffer \o wire) \o b = buffer \o (wire \o b)
    BY <1>1, <1>3, Regrouped
  <2>2. wire \o b \in Seq(Byte)
    BY <1>1, <1>3, Joined
  <2>. QED
    BY <1>4, <2>1, <2>2 DEF Stream, WriteKeepalive
<1>6. WireTyped'
  BY <1>1, <1>5, WireAssumption DEF WireTyped, WriteKeepalive
<1>7. Framed(Stream)'
  <2>1. Framed(Stream \o b)
    BY <1>1, <1>3, FramedJoin
  <2>. QED
    BY <1>5, <2>1
<1>8. ASSUME NEW n \in 0 .. Len(wrote), Told(n), Unread(Stream, wrote, n)
      PROVE  Told(n)' /\ Unread(Stream, wrote, n)' /\ n \in 0 .. Len(wrote')
  <2>1. wrote' = wrote /\ told' = told
    BY DEF WriteKeepalive
  <2>2. Unread(Stream \o b, wrote, n)
    BY <1>1, <1>3, <1>8, QuietBytes
  <2>3. Told(n)'
    BY <1>1, <1>8, <2>1, TellsNext
  <2>. QED
    BY <1>5, <2>1, <2>2, <2>3
<1>9. Paced'
  <2>1. HasComment(Stream \o b)
    BY <1>1, <1>3, CommentsJoined
  <2>. QED
    BY <1>1, <1>5, <2>1 DEF Paced, WriteKeepalive
<1>. QED
  BY <1>6, <1>7, <1>8, <1>9 DEF WireInv

\* What a frame brings changes hands, and nothing else.
LEMMA ArriveKeeps ==
  ASSUME WireInv, NEW n \in 1 .. Len(wire), Arrive(n)
  PROVE  WireInv'
<1>. DEFINE h == SubSeq(wire, 1, n)
            r == SubSeq(wire, n + 1, Len(wire))
<1>1. /\ WireTyped /\ Framed(Stream) /\ Paced
      /\ Stream \in Seq(Byte) /\ buffer \in Seq(Byte) /\ wire \in Seq(Byte) /\ wrote \in Seq(Kinds)
  BY StreamTyped DEF WireInv, WireTyped
<1>2. h \in Seq(Byte) /\ r \in Seq(Byte) /\ h \o r = wire
  <2>1. n \in 0 .. Len(wire)
    BY <1>1
  <2>. QED
    BY <1>1, <2>1, Parts
<1>3. /\ buffer' = buffer \o h /\ wire' = r /\ late' = (IF wire' = <<>> THEN 0 ELSE late)
      /\ UNCHANGED <<link, due, idle, tries, delay, wrote, told>>
  BY DEF Arrive
<1>. HIDE DEF h, r
<1>4. Stream' = Stream
  <2>1. (buffer \o h) \o r = buffer \o (h \o r)
    BY <1>1, <1>2, Regrouped, ZenonT(60)
  <2>. QED
    BY <1>2, <1>3, <2>1 DEF Stream
<1>5. WireTyped'
  <2>1. buffer \o h \in Seq(Byte)
    BY <1>1, <1>2, Joined
  <2>. QED
    BY <1>1, <1>2, <1>3, <2>1 DEF WireTyped
<1>6. ASSUME NEW k \in 0 .. Len(wrote), Told(k), Unread(Stream, wrote, k)
      PROVE  Told(k)' /\ Unread(Stream, wrote, k)' /\ k \in 0 .. Len(wrote')
  <2>1. Told(k)'
    BY <1>1, <1>3, <1>6, TellsNext
  <2>. QED
    BY <1>3, <1>4, <1>6, <2>1
<1>7. Paced'
  <2>. SUFFICES ASSUME link = "open"
                PROVE  /\ idle > KEEPALIVE - due => HasComment(Stream)
                       /\ idle <= KEEPALIVE + late' \/ CommentCut(buffer')
                       /\ late' <= LATENCY /\ idle <= KEEPALIVE + LATENCY
    BY <1>3, <1>4 DEF Paced
  <2>1. /\ idle > KEEPALIVE - due => HasComment(Stream)
        /\ idle <= KEEPALIVE + late \/ CommentCut(buffer)
        /\ late <= LATENCY /\ idle <= KEEPALIVE + LATENCY
    BY <1>1 DEF Paced
  <2>2. late' <= LATENCY
    BY <1>3, <2>1, WireAssumption
  <2>3. CASE wire' # <<>>
    <3>1. ~CommentCut(buffer)
      BY <1>1, FirstBlank DEF Arrive, CommentCut
    <3>. QED
      BY <1>3, <2>1, <2>2, <2>3, <3>1
  <2>4. CASE wire' = <<>>
    <3>1. buffer' = Stream
      <4>1. buffer' \in Seq(Byte)
        BY <1>5 DEF WireTyped
      <4>2. buffer' \o <<>> = buffer'
        BY <4>1, ConcatEmptySeq
      <4>. QED
        BY <1>4, <2>4, <4>2 DEF Stream
    <3>2. CASE HasComment(Stream)
      BY <1>1, <2>1, <2>2, <3>1, <3>2, CommentIsCut
    <3>3. CASE ~HasComment(Stream)
      <4>1. idle <= KEEPALIVE
        BY <1>1, <2>1, <3>3, WireAssumption, SMTT(30) DEF WireTyped
      <4>2. late' = 0
        BY <1>3, <2>4
      <4>. QED
        BY <2>1, <2>2, <4>1, <4>2, WireAssumption
    <3>. QED
      BY <3>2, <3>3
  <2>. QED
    BY <2>3, <2>4
<1>. QED
  BY <1>1, <1>4, <1>5, <1>6, <1>7 DEF WireInv

\* A block that is cut is the next one written, or a keepalive; one with a comment is
\* never taken for silence.
LEMMA CutKeeps ==
  ASSUME WireInv, CutBlock
  PROVE  WireInv'
<1>. DEFINE c == FindBlankLine(buffer).start
            e == FindBlankLine(buffer).end
            k == SubSeq(buffer, 1, c - 1)
            h == SubSeq(buffer, 1, e)
            q == SubSeq(buffer, e + 1, Len(buffer))
            m == c - 1
            event == EventOf(k)
<1>1. /\ WireTyped /\ Framed(Stream) /\ Paced
      /\ Stream \in Seq(Byte) /\ buffer \in Seq(Byte) /\ wire \in Seq(Byte) /\ wrote \in Seq(Kinds)
  BY StreamTyped DEF WireInv, WireTyped
<1>2. /\ e # 0 /\ buffer' = q
      /\ idle' = (IF event = NoEvent THEN idle ELSE 0)
      /\ told' = (IF event.name \in {"event", "error"} THEN Append(told, event) ELSE told)
      /\ UNCHANGED <<link, wire, late, due, tries, delay, wrote>>
  BY DEF CutBlock
<1>. HIDE DEF c, e
<1>3. /\ c \in 2 .. Len(buffer) /\ e \in c + 1 .. Len(buffer)
      /\ buffer[1] \notin LineEnds
      /\ \A i \in 1 .. c - 2: buffer[i].id = 0
      /\ \A i \in c .. e: buffer[i] \in LineEnds
      /\ Framed(q \o wire)
      /\ Stream = h \o (q \o wire)
  <2>1. Framed(buffer \o wire) /\ FindBlankLine(buffer).end # 0
    BY <1>1, <1>2 DEF Stream, e
  <2>2. c = FindBlankLine(buffer).start /\ e = FindBlankLine(buffer).end
    BY DEF c, e
  <2>3. /\ c \in 2 .. Len(buffer) /\ e \in c + 1 .. Len(buffer)
        /\ buffer[1] \notin LineEnds
        /\ \A i \in 1 .. c - 2: buffer[i].id = 0
        /\ \A i \in c .. e: buffer[i] \in LineEnds
        /\ Framed(SubSeq(buffer, e + 1, Len(buffer)) \o wire)
        /\ buffer \o wire = SubSeq(buffer, 1, e) \o (SubSeq(buffer, e + 1, Len(buffer)) \o wire)
    <3>1. buffer \in Seq(Byte) /\ wire \in Seq(Byte)
      BY <1>1
    <3>. HIDE DEF h, q, k, m, event
    <3>. QED
      BY <2>1, <2>2, <3>1, CutsOne, ZenonT(60)
  <2>. QED
    BY <2>3 DEF Stream
<1>4. Len(buffer) \in Nat /\ c \in Nat /\ e \in Nat /\ m \in 0 .. Len(buffer) /\ e \in 0 .. Len(buffer)
      /\ m >= 1 /\ m < e
  BY <1>1, <1>3
<1>5. /\ h \in Seq(Byte) /\ Len(h) = e /\ q \in Seq(Byte) /\ buffer = h \o q
      /\ \A i \in 1 .. e: h[i] = buffer[i]
  BY <1>1, <1>4, Parts
<1>6. k \in Seq(Byte) /\ Len(k) = m /\ \A i \in 1 .. m: k[i] = buffer[i]
  BY <1>1, <1>4, Parts
<1>. HIDE DEF h, q, k
<1>7. Stream' = q \o wire /\ q \o wire \in Seq(Byte)
  BY <1>1, <1>2, <1>5, Joined DEF Stream
<1>. HIDE DEF event
<1>8. /\ buffer[m].is = "garbled" => event = [name |-> "error", id |-> 0]
      /\ buffer[m].is = "event" => event = [name |-> "event", id |-> buffer[m].id]
      /\ buffer[m].is \notin {"event", "garbled"} => event.name \notin {"event", "error"}
      /\ HasComment(k) \/ buffer[m].id = 0 => event # NoEvent
  <2>1. k # <<>> /\ k[1] = buffer[1] /\ k[m] = buffer[m]
    BY <1>4, <1>6
  <2>2. \A i \in 1 .. Len(k) - 1: k[i].id = 0
    BY <1>3, <1>4, <1>6, SMTT(30)
  <2>3. /\ k[Len(k)].is = "garbled" => EventOf(k) = [name |-> "error", id |-> 0]
        /\ k[Len(k)].is = "event" => EventOf(k) = [name |-> "event", id |-> k[Len(k)].id]
        /\ k[Len(k)].is \notin {"event", "garbled"} => EventOf(k).name \notin {"event", "error"}
        /\ HasComment(k) \/ k[Len(k)].id = 0 => EventOf(k).name # "none"
    BY <1>3, <1>6, <2>1, <2>2, BlockMeans
  <2>. QED
    BY <1>6, <2>1, <2>3 DEF event, NoEvent
<1>9. \A x \in LineEnds: x.id = 0 /\ x.is # "comment"
  BY DEF LineEnds, LF, CR
<1>10. ASSUME NEW i \in DOMAIN h, i # m
       PROVE  h[i].id = 0
  <2>1. i \in 1 .. c - 2 \/ i \in c .. e
    BY <1>4, <1>5, <1>10
  <2>2. h[i] = buffer[i]
    BY <1>5
  <2>. QED
    BY <1>3, <1>9, <2>1, <2>2
<1>11. m \in DOMAIN h /\ h[m] = buffer[m] /\ buffer[m] \in Byte
  BY <1>1, <1>4, <1>5
<1>12. WireTyped'
  <2>1. idle' \in Nat
    BY <1>1, <1>2 DEF WireTyped
  <2>2. event.name \in {"event", "error"} => event \in [name: {"event", "error"}, id: Nat]
    <3>1. buffer[m].is = "event" => buffer[m].id \in Nat
      BY <1>11 DEF Byte, LF, CR, LineEnds, Text
    <3>. QED
      BY <1>8, <3>1
  <2>3. told' \in Seq([name: {"event", "error"}, id: Nat])
    <3>. DEFINE T == [name: {"event", "error"}, id: Nat]
    <3>1. told \in Seq(T)
      BY <1>1 DEF WireTyped
    <3>2. event.name \in {"event", "error"} => event \in T
      BY <2>2
    <3>3. told' = Append(told, event) \/ told' = told
      BY <1>2
    <3>4. told' # told => event.name \in {"event", "error"}
      BY <1>2
    <3>. HIDE DEF T
    <3>5. told' \in Seq(T)
      BY <3>1, <3>2, <3>3, <3>4
    <3>. QED
      BY <3>5 DEF T
  <2>. QED
    BY <1>1, <1>2, <1>5, <2>1, <2>3 DEF WireTyped
<1>13. ASSUME NEW n \in 0 .. Len(wrote), Told(n), Unread(Stream, wrote, n)
       PROVE  \E n1 \in 0 .. Len(wrote): Told(n1)' /\ Unread(q \o wire, wrote, n1)
  <2>1. Unread(h \o (q \o wire), wrote, n)
    BY <1>3, <1>13
  <2>2. CASE buffer[m].id = 0
    <3>1. \A i \in DOMAIN h: h[i].id = 0
      BY <1>10, <1>11, <2>2
    <3>2. Unread(q \o wire, wrote, n)
      BY <1>1, <1>5, <1>7, <2>1, <3>1, QuietBytes
    <3>3. buffer[m].is \notin {"event", "garbled"}
      BY <1>11, <2>2 DEF Byte, LF, CR, LineEnds, Text
    <3>4. told' = told
      BY <1>2, <1>8, <3>3
    <3>5. Told(n)'
      BY <1>1, <1>2, <1>13, <3>4, TellsNext
    <3>. QED
      BY <3>2, <3>5
  <2>3. CASE buffer[m].id # 0
    <3>1. \A i \in DOMAIN h: i # m => h[i].id = 0
      BY <1>10
    <3>. HIDE DEF m
    <3>2. n + 1 \in 1 .. Len(wrote) /\ h[m] = Line(wrote, n + 1) /\ Unread(q \o wire, wrote, n + 1)
      <4>. DEFINE r == q \o wire
      <4>1. /\ h \in Seq(Byte) /\ r \in Seq(Byte) /\ wrote \in Seq(Kinds)
            /\ Unread(h \o r, wrote, n) /\ m \in DOMAIN h /\ h[m].id # 0
            /\ \A i \in DOMAIN h: i # m => h[i].id = 0
        BY <1>1, <1>5, <1>7, <1>11, <2>1, <2>3, <3>1 DEF m
      <4>. HIDE DEF r
      <4>2. n + 1 \in 1 .. Len(wrote) /\ h[m] = Line(wrote, n + 1) /\ Unread(r, wrote, n + 1)
        BY <4>1, CutIsNext
      <4>. QED
        BY <4>2 DEF r
    <3>3. /\ buffer[m].is = (IF wrote[n + 1] = "commented" THEN "event" ELSE wrote[n + 1])
          /\ buffer[m].id = n + 1 /\ wrote[n + 1] \in Kinds
      BY <1>1, <1>11, <3>2 DEF Line, Text
    <3>4. n + 1 \in 0 .. Len(wrote) /\ n + 1 <= Len(wrote)
      BY <1>1, <3>2
    <3>5. CASE wrote[n + 1] = "idle"
      <4>1. told' = told
        BY <1>2, <1>8, <3>3, <3>5
      <4>. QED
        BY <1>1, <1>2, <1>13, <3>2, <3>4, <3>5, <4>1, TellsNext
    <3>6. CASE wrote[n + 1] # "idle"
      <4>1. event = IF wrote[n + 1] = "garbled" THEN [name |-> "error", id |-> 0]
                    ELSE [name |-> "event", id |-> n + 1]
        BY <1>8, <3>3, <3>6 DEF Kinds
      <4>2. event.name \in {"event", "error"}
        BY <4>1
      <4>3. told' = Append(told, event)
        BY <1>2, <4>2
      <4>. QED
        BY <1>1, <1>2, <1>13, <3>2, <3>4, <3>6, <4>1, <4>3, TellsNext
    <3>. QED
      BY <3>5, <3>6
  <2>. QED
    BY <2>2, <2>3
<1>14. event = NoEvent => \A i \in 1 .. e: buffer[i].is # "comment"
  <2>. SUFFICES ASSUME event = NoEvent, NEW i \in 1 .. e, buffer[i].is = "comment"
                PROVE  FALSE
    OBVIOUS
  <2>1. i \in 1 .. m \/ i \in c .. e
    BY <1>4
  <2>2. CASE i \in 1 .. m
    <3>1. i \in DOMAIN k /\ k[i].is = "comment"
      BY <1>6, <2>2
    <3>. QED
      BY <1>8, <3>1 DEF HasComment
  <2>3. CASE i \in c .. e
    BY <1>3, <1>9, <2>3
  <2>. QED
    BY <2>1, <2>2, <2>3
<1>15. Paced'
  <2>. SUFFICES ASSUME link = "open"
                PROVE  /\ idle' > KEEPALIVE - due => HasComment(q \o wire)
                       /\ idle' <= KEEPALIVE + late \/ CommentCut(q)
                       /\ late <= LATENCY /\ idle' <= KEEPALIVE + LATENCY
    BY <1>2, <1>7 DEF Paced
  <2>1. /\ idle > KEEPALIVE - due => HasComment(Stream)
        /\ idle <= KEEPALIVE + late \/ CommentCut(buffer)
        /\ late <= LATENCY /\ idle <= KEEPALIVE + LATENCY
        /\ due \in 0 .. KEEPALIVE /\ late \in Nat /\ KEEPALIVE \in Nat /\ LATENCY \in Nat
    BY <1>1, WireAssumption DEF Paced, WireTyped
  <2>2. CASE event # NoEvent
    BY <1>2, <2>1, <2>2
  <2>3. CASE event = NoEvent
    <3>1. idle' = idle
      BY <1>2, <2>3
    <3>2. ~HasComment(h)
      BY <1>5, <1>14, <2>3 DEF HasComment
    <3>3. HasComment(Stream) => HasComment(q \o wire)
      BY <1>3, <1>5, <1>7, <3>2, CommentsJoined
    <3>4. ASSUME CommentCut(buffer)
          PROVE  CommentCut(q)
      <4>1. PICK i \in DOMAIN buffer, j \in DOMAIN buffer: i < j /\ buffer[i].is = "comment" /\ BlankAt(buffer, j)
        BY <3>4 DEF CommentCut
      <4>2. /\ \A p \in DOMAIN q: BlankAt(q, p) <=> BlankAt(h \o q, Len(h) + p)
        BY <1>5, BlanksJoined
      <4>3. /\ DOMAIN q = 1 .. Len(q) /\ Len(q) \in Nat
            /\ \A p \in 1 .. Len(q): (h \o q)[Len(h) + p] = q[p]
            /\ Len(buffer) = e + Len(q) /\ DOMAIN buffer = 1 .. Len(buffer)
        BY <1>5, Joined
      <4>4. i > e
        BY <1>4, <1>14, <2>3, <4>1, <4>3
      <4>5. i - e \in 1 .. Len(q) /\ j - e \in 1 .. Len(q) /\ i - e < j - e /\ e + (i - e) = i /\ e + (j - e) = j
        <5>1. i \in Nat /\ j \in Nat /\ e \in Nat /\ Len(q) \in Nat /\ j <= e + Len(q) /\ i < j /\ i > e
          BY <1>4, <4>1, <4>3, <4>4
        <5>2. e + (i - e) = i /\ e + (j - e) = j
          BY <5>1
        <5>3. i - e \in 1 .. Len(q) /\ j - e \in 1 .. Len(q) /\ i - e < j - e
          BY ONLY <5>1
        <5>. QED
          BY <5>2, <5>3
      <4>6. q[i - e].is = "comment"
        BY <1>5, <4>1, <4>3, <4>5
      <4>7. BlankAt(q, j - e)
        BY <1>5, <4>1, <4>2, <4>3, <4>5
      <4>. QED
        BY <4>3, <4>5, <4>6, <4>7 DEF CommentCut
    <3>. QED
      BY <2>1, <3>1, <3>3, <3>4
  <2>. QED
    BY <2>2, <2>3
<1>16. \E n \in 0 .. Len(wrote'): Told(n)' /\ Unread(Stream, wrote, n)'
  BY <1>2, <1>7, <1>13 DEF WireInv
<1>17. Framed(Stream)'
  BY <1>3, <1>7
<1>. QED
  BY <1>12, <1>15, <1>16, <1>17 DEF WireInv

\* While time passes nothing lies uncut: a keepalive that was due by then is under way, and
\* for LATENCY at most.
LEMMA TickKeeps ==
  ASSUME WireInv, WireTick
  PROVE  WireInv'
<1>1. /\ WireTyped /\ Framed(Stream) /\ Paced
      /\ Stream \in Seq(Byte) /\ buffer \in Seq(Byte) /\ wire \in Seq(Byte) /\ wrote \in Seq(Kinds)
  BY StreamTyped DEF WireInv, WireTyped
<1>2. UNCHANGED <<link, wire, buffer, tries, wrote, told>> /\ Stream' = Stream
  BY DEF WireTick, Stream
<1>3. ASSUME NEW k \in 0 .. Len(wrote), Told(k), Unread(Stream, wrote, k)
      PROVE  Told(k)' /\ Unread(Stream, wrote, k)' /\ k \in 0 .. Len(wrote')
  <2>1. Told(k)'
    BY <1>1, <1>2, <1>3, TellsNext
  <2>. QED
    BY <1>2, <1>3, <2>1
<1>4. WireTyped' /\ Paced'
  <2>1. CASE link = "open"
    <3>1. /\ idle < IDLE /\ due > 0 /\ (wire # <<>> => late < LATENCY)
          /\ due' = due - 1 /\ idle' = idle + 1
          /\ late' = (IF wire = <<>> THEN 0 ELSE late + 1)
      BY <2>1 DEF WireTick
    <3>2. due \in 0 .. KEEPALIVE /\ late \in Nat /\ idle \in Nat /\ KEEPALIVE \in Nat /\ LATENCY \in Nat
      BY <1>1, WireAssumption DEF WireTyped
    <3>3. WireTyped'
      BY <1>1, <1>2, <3>1, <3>2 DEF WireTyped
    <3>4. ~CommentCut(buffer)
      BY <1>1, FirstBlank DEF WireTick, CommentCut
    <3>5. /\ idle > KEEPALIVE - due => HasComment(Stream)
          /\ idle <= KEEPALIVE + late /\ late <= LATENCY /\ idle <= KEEPALIVE + LATENCY
      BY <1>1, <2>1, <3>4 DEF Paced
    <3>6. wire = <<>> => idle <= KEEPALIVE - due
      <4>1. wire = <<>> => Stream = buffer
        BY <1>1, ConcatEmptySeq DEF Stream
      <4>2. HasComment(Stream) => CommentCut(Stream)
        BY <1>1, CommentIsCut
      <4>. QED
        BY <3>2, <3>4, <3>5, <4>1, <4>2
    <3>7. idle' > KEEPALIVE - due' => HasComment(Stream)
      BY <3>1, <3>2, <3>5
    <3>8. idle' <= KEEPALIVE + late' /\ late' <= LATENCY /\ idle' <= KEEPALIVE + LATENCY
      BY <3>1, <3>2, <3>5, <3>6
    <3>. QED
      BY <1>2, <3>3, <3>7, <3>8 DEF Paced
  <2>2. CASE link # "open"
    <3>1. link' # "open" /\ due' = due /\ late' = late /\ idle' \in Nat
      BY <1>1, <2>2 DEF WireTick, WireTyped
    <3>. QED
      BY <1>1, <1>2, <3>1 DEF WireTyped, Paced
  <2>. QED
    BY <2>1, <2>2
<1>. QED
  BY <1>1, <1>2, <1>3, <1>4 DEF WireInv

\* An attempt that leaves the stream alone leaves what was read of it.
LEMMA QuietKeeps ==
  ASSUME WireInv, UNCHANGED <<wire, buffer, late, due, idle, wrote, told>>, link' = "open" => link = "open"
  PROVE  WireInv'
<1>1. WireTyped /\ WireTyped' /\ Stream' = Stream /\ Paced'
  BY DEF WireInv, WireTyped, Stream, Paced
<1>2. ASSUME NEW k \in 0 .. Len(wrote), Told(k), Unread(Stream, wrote, k)
      PROVE  Told(k)' /\ Unread(Stream, wrote, k)' /\ k \in 0 .. Len(wrote')
  <2>1. Told(k)'
    BY <1>1, <1>2, TellsNext
  <2>. QED
    BY <1>1, <1>2, <2>1
<1>. QED
  BY <1>1, <1>2 DEF WireInv

\* A connection that is made anew starts anew.
LEMMA ReconnectKeeps ==
  ASSUME WireInv, Reconnect
  PROVE  WireInv'
<1>1. CASE Sleep
  BY <1>1, QuietKeeps DEF Sleep
<1>2. CASE ~Sleep
  <2>1. /\ wire' = <<>> /\ buffer' = <<>> /\ wrote' = <<>> /\ told' = <<>>
        /\ idle' = 0 /\ due' = KEEPALIVE /\ late' = 0
    BY <1>2 DEF Reconnect
  <2>2. Stream' = <<>>
    <3>1. <<>> \in Seq(Byte)
      OBVIOUS
    <3>. QED
      BY <2>1, <3>1, ConcatEmptySeq DEF Stream
  <2>3. WireTyped'
    BY <2>1, WireAssumption DEF WireTyped
  <2>4. Framed(Stream)'
    BY <2>2 DEF Framed, StartsWithText, EndsBlank, TextFollows, LastLine
  <2>5. Told(0)'
    <3>1. Shown(0)' = {}
      BY DEF Shown
    <3>. QED
      BY <2>1, <3>1, FS_EmptySet DEF Told
  <2>6. Unread(Stream, wrote, 0)' /\ 0 \in 0 .. Len(wrote')
    BY <2>1, <2>2 DEF Unread
  <2>7. Paced'
    BY <2>1, WireAssumption DEF Paced
  <2>. QED
    BY <2>3, <2>4, <2>5, <2>6, <2>7 DEF WireInv
<1>. QED
  BY <1>1, <1>2

LEMMA WireKeeps == WireInv /\ [WireNext]_wireVars => WireInv'
<1>. SUFFICES ASSUME WireInv, [WireNext]_wireVars
              PROVE  WireInv'
  OBVIOUS
<1>1. CASE UNCHANGED wireVars
  BY <1>1, QuietKeeps DEF wireVars
<1>2. CASE \E kind \in Kinds, eol \in {<<LF>>, <<CR, LF>>}: Write(kind, eol)
  BY <1>2, WriteKeeps
<1>3. CASE WriteKeepalive
  BY <1>3, KeepaliveKeeps
<1>4. CASE Wedges \/ Ends
  BY <1>4, QuietKeeps DEF Wedges, Ends
<1>5. CASE \E n \in 1 .. Len(wire): Arrive(n)
  BY <1>5, ArriveKeeps
<1>6. CASE CutBlock
  BY <1>6, CutKeeps
<1>7. CASE IdleTimeout \/ StreamEnds
  BY <1>7, QuietKeeps DEF IdleTimeout, StreamEnds, Sleep
<1>8. CASE Reconnect
  BY <1>8, ReconnectKeeps
<1>9. CASE WireTick
  BY <1>9, TickKeeps
<1>. QED
  BY <1>1, <1>2, <1>3, <1>4, <1>5, <1>6, <1>7, <1>8, <1>9 DEF WireNext

LEMMA WireInvSuffices == WireInv => StreamIsRead
<1>. SUFFICES ASSUME WireInv
              PROVE  StreamIsRead
  OBVIOUS
<1>1. FramedInOrder
  BY Zenon DEF WireInv, Told, FramedInOrder
<1>2. GivesUpOnlyTheSilent
  BY WireAssumption DEF WireInv, WireTyped, Paced, GivesUpOnlyTheSilent
<1>. QED
  BY <1>1, <1>2 DEF StreamIsRead

\* Wherever the body is cut, the events that come out are the ones written, in order, and a
\* connection whose keepalives arrive in time is not given up (internal/sse.rs,
\* widget_subscription/mod.rs).
THEOREM StreamsAreRead == SubscriberSpec => []StreamIsRead
<1>1. SubscriberInit => WireInv
  BY WireStarts DEF SubscriberInit
<1>2. WireInv /\ [SubscriberNext]_subscriberVars => WireInv'
  BY WireKeeps DEF SubscriberNext, subscriberVars, wireVars
<1>. QED
  BY <1>1, <1>2, WireInvSuffices, PTL DEF SubscriberSpec
=============================================================================
