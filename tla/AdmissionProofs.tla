-------------------------- MODULE AdmissionProofs ---------------------------
(***************************************************************************)
(* What the load gate, the gateway and the instance lock promise, for any  *)
(* requests, clients, tokens, offers and daemons.                          *)
(*                                                                         *)
(* Gateway: a token that was lost to another caller is not live, so a      *)
(* request that came after that can never pass the session guard; and what *)
(* passed the identity check was, at that moment, what the request         *)
(* remembers of its caller.  Whatever passed the limiter in the last       *)
(* minute is still in the history of its client, and a client that is      *)
(* forgotten had nothing in it: so the quota holds in any minute.          *)
(* Instance: whoever is past the lock holds it.                            *)
(* LoadGate: the gate's owner is who is past the line, and the line is the *)
(* waiters, so loads never overlap, the gate is never lost, and the loads  *)
(* that start implement LoadSlot.                                          *)
(***************************************************************************)
EXTENDS MCAdmission, SequenceTheorems, FiniteSetTheorems, WellFoundedInduction, TLAPS

-----------------------------------------------------------------------------
(* The instance lock.                                                      *)

Starts == {"off", "building", "built", "cleared", "serving", "closing", "unlinked"}

InstanceInv ==
  /\ up \in [Daemons -> Starts]
  /\ \A d \in Daemons: up[d] # "off" => lock = d
  /\ ServingIsReachable

\* A daemon that ends takes nothing from the others: if one of them were past the
\* lock, the lock would be that one's.
LEMMA EndKeeps ==
  ASSUME InstanceInv, NEW d \in Daemons, up[d] # "off", End(d)
  PROVE  InstanceInv'
<1>1. \A e \in Daemons \ {d}: up[e] = "off"
  BY DEF InstanceInv
<1>2. \A e \in Daemons: up'[e] = "off"
  BY <1>1 DEF End, InstanceInv
<1>. QED
  BY <1>2 DEF End, InstanceInv, Starts, ServingIsReachable

LEMMA InstanceStep ==
  ASSUME InstanceInv, [InstanceNext]_instanceVars
  PROVE  InstanceInv'
<1>1. ASSUME NEW d \in Daemons, Acquire(d)
      PROVE  InstanceInv'
  BY <1>1, InstanceAssumption DEF Acquire, InstanceInv, Starts, ServingIsReachable
<1>2. ASSUME NEW d \in Daemons, Build(d)
      PROVE  InstanceInv'
  <2>1. CASE End(d)
    BY <1>2, <2>1, EndKeeps DEF Build
  <2>2. CASE up' = [up EXCEPT ![d] = "built"] /\ UNCHANGED <<lock, socket, leftover>>
    BY <1>2, <2>2 DEF Build, InstanceInv, Starts, ServingIsReachable
  <2>. QED
    BY <1>2, <2>1, <2>2 DEF Build
<1>3. ASSUME NEW d \in Daemons, RemoveStale(d)
      PROVE  InstanceInv'
  BY <1>3 DEF RemoveStale, InstanceInv, Starts, ServingIsReachable
<1>4. ASSUME NEW d \in Daemons, BindSocket(d)
      PROVE  InstanceInv'
  <2>1. CASE End(d)
    BY <1>4, <2>1, EndKeeps DEF BindSocket
  <2>2. CASE ~leftover
    BY <1>4, <2>1, <2>2 DEF BindSocket, InstanceInv, Starts, ServingIsReachable
  <2>. QED
    BY <1>4, <2>1, <2>2 DEF BindSocket
<1>5. ASSUME NEW d \in Daemons, Signal(d)
      PROVE  InstanceInv'
  <2>1. CASE End(d)
    BY <1>5, <2>1, EndKeeps DEF Signal
  <2>2. CASE ~End(d)
    BY <1>5, <2>2 DEF Signal, InstanceInv, Starts, ServingIsReachable
  <2>. QED
    BY <2>1, <2>2
<1>6. ASSUME NEW d \in Daemons, Unlink(d)
      PROVE  InstanceInv'
  BY <1>6 DEF Unlink, InstanceInv, Starts, ServingIsReachable
<1>7. ASSUME NEW d \in Daemons, LetGo(d) \/ Kill(d)
      PROVE  InstanceInv'
  BY <1>7, EndKeeps DEF LetGo, Kill
<1>8. CASE UNCHANGED instanceVars
  BY <1>8 DEF instanceVars, InstanceInv, ServingIsReachable
<1>. QED
  BY <1>1, <1>2, <1>3, <1>4, <1>5, <1>6, <1>7, <1>8 DEF InstanceNext

\* instance.rs:4-10: a daemon that serves keeps its socket, however many others are
\* started, stopped or killed on the same path.
THEOREM ADaemonThatServesIsReachable == InstanceSpec => []ServingIsReachable
<1>1. InstanceInit => InstanceInv
  BY DEF InstanceInit, InstanceInv, Starts, ServingIsReachable
<1>2. InstanceInv /\ [InstanceNext]_instanceVars => InstanceInv'
  BY InstanceStep
<1>3. InstanceInv => ServingIsReachable
  BY DEF InstanceInv
<1>. QED
  BY <1>1, <1>2, <1>3, PTL DEF InstanceSpec

-----------------------------------------------------------------------------
(* The gateway.                                                            *)

Guards == {"valid", "bound", "quota"}
Request == [at : {"arrived", "guards"}, tok : {o[2] : o \in Offers}, need : {o[3] : o \in Offers},
            passed : SUBSET Guards, seen : SUBSET Procs, late : BOOLEAN]

GatewayTyped ==
  /\ conn \subseteq Clients
  /\ proc \in [Native -> Procs]
  /\ req \in [Clients -> {Idle} \cup Request]

\* The caller was the grantee of its token, and the grant covers the route.
BoundAsGranted(c, r) ==
  LET g == Grants[r.tok] IN
  /\ \/ c \in Web /\ g.to = <<"web", c>>
     \/ \E p \in r.seen: g.to = <<"native", p.exe, p.box>>
  /\ r.need \in g.scopes \cup {"any"}

\* What is known of a request on its way.
RequestInv(c, r) ==
  /\ r.late => r.tok \in gone /\ "valid" \notin r.passed
  /\ c \in Native => proc[c] \in r.seen
  /\ c \in Web /\ r.at = "guards" => IsOriginAllowed(c)
  /\ r.at = "arrived" => r.passed = {}
  /\ "bound" \in r.passed => BoundAsGranted(c, r)

GatewayInv ==
  /\ GatewayTyped
  /\ gone \cap live = {}
  /\ \A c \in Clients: req[c] # Idle => RequestInv(c, req[c])

\* A step that moves only one request keeps the invariant if it keeps that request's
\* part of it.
LEMMA OneRequest ==
  ASSUME GatewayInv, NEW c \in Clients, NEW r \in {Idle} \cup Request,
         req' = [req EXCEPT ![c] = r], conn' = conn, proc' = proc,
         gone \subseteq gone', (gone \cap live)' = {},
         r # Idle => RequestInv(c, r)'
  PROVE  GatewayInv'
<1>1. GatewayTyped'
  BY DEF GatewayInv, GatewayTyped
<1>2. ASSUME NEW e \in Clients, req'[e] # Idle
      PROVE  RequestInv(e, req[e])'
  <2>1. CASE e = c
    BY <1>2, <2>1 DEF GatewayInv, GatewayTyped, RequestInv, BoundAsGranted
  <2>2. CASE e # c
    <3>1. req'[e] = req[e]
      BY <2>2 DEF GatewayInv, GatewayTyped
    <3>2. RequestInv(e, req[e])
      BY <1>2, <3>1 DEF GatewayInv
    <3>. QED
      BY <3>1, <3>2 DEF RequestInv, BoundAsGranted, IsOriginAllowed
  <2>. QED
    BY <2>1, <2>2
<1>. QED
  BY <1>1, <1>2 DEF GatewayInv

\* A request that is answered is forgotten.
LEMMA Answered ==
  ASSUME GatewayInv, NEW c \in Clients, Done(c), conn' = conn, proc' = proc,
         gone \subseteq gone', (gone \cap live)' = {}
  PROVE  GatewayInv'
BY OneRequest DEF Done

\* A request that passes a guard keeps everything else.
LEMMA PassedOne ==
  ASSUME GatewayInv, NEW c \in Clients, NEW guard \in Guards, req[c] # Idle,
         req[c].at = "guards", Pass(c, guard), conn' = conn, proc' = proc, gone' = gone,
         live' = live, guard = "valid" => req[c].tok \in live,
         guard = "bound" => BoundAsGranted(c, req[c])
  PROVE  GatewayInv'
<1>1. req[c] \in Request /\ RequestInv(c, req[c])
  BY DEF GatewayInv, GatewayTyped
<1>2. PICK r \in Request :
         /\ req' = [req EXCEPT ![c] = r] /\ r.passed = req[c].passed \cup {guard}
         /\ r.at = req[c].at /\ r.tok = req[c].tok /\ r.need = req[c].need
         /\ r.seen = req[c].seen /\ r.late = req[c].late
  <2>. DEFINE r == [req[c] EXCEPT !.passed = @ \cup {guard}]
  <2>1. r \in Request /\ r.passed = req[c].passed \cup {guard}
        /\ r.at = req[c].at /\ r.tok = req[c].tok /\ r.need = req[c].need
        /\ r.seen = req[c].seen /\ r.late = req[c].late
    BY <1>1 DEF Request
  <2>2. req' = [req EXCEPT ![c] = r]
    BY DEF Pass, GatewayInv, GatewayTyped
  <2>. QED
    BY <2>1, <2>2
<1>3. RequestInv(c, r)'
  BY <1>1, <1>2 DEF RequestInv, GatewayInv, BoundAsGranted, IsOriginAllowed
<1>4. (gone \cap live)' = {}
  BY DEF GatewayInv
<1>. QED
  BY <1>2, <1>3, <1>4, OneRequest

\* One step of the gateway.
LEMMA GatewayStep ==
  ASSUME GatewayInv, [GatewayNext]_gatewayVars
  PROVE  GatewayInv'
<1>. USE GatewayAssumption
<1>1. CASE Cleanup \/ Tick \/ UNCHANGED gatewayVars
  BY <1>1 DEF Cleanup, Tick, gatewayVars, GatewayInv, GatewayTyped, RequestInv, BoundAsGranted,
              IsOriginAllowed
<1>2. ASSUME NEW c \in Clients, Connect(c) \/ Close(c)
      PROVE  GatewayInv'
  BY <1>2 DEF Connect, Close, GatewayInv, GatewayTyped, RequestInv, BoundAsGranted,
              IsOriginAllowed
<1>3. ASSUME NEW c \in Clients, Origin(c)
      PROVE  GatewayInv'
  <2>1. CASE Done(c)
    BY <1>3, <2>1, Answered DEF Origin, GatewayInv
  <2>2. CASE req' = [req EXCEPT ![c].at = "guards"] /\ (c \in Native \/ IsOriginAllowed(c))
    <3>1. req[c] \in Request /\ RequestInv(c, req[c]) /\ req[c].at = "arrived"
      BY <1>3 DEF Origin, GatewayInv, GatewayTyped, Idle
    <3>2. PICK r \in Request :
             /\ req' = [req EXCEPT ![c] = r] /\ r.passed = req[c].passed
             /\ r.at = "guards" /\ r.tok = req[c].tok /\ r.need = req[c].need
             /\ r.seen = req[c].seen /\ r.late = req[c].late
      <4>. DEFINE r == [req[c] EXCEPT !.at = "guards"]
      <4>1. r \in Request /\ r.passed = req[c].passed
            /\ r.at = "guards" /\ r.tok = req[c].tok /\ r.need = req[c].need
            /\ r.seen = req[c].seen /\ r.late = req[c].late
        BY <3>1 DEF Request
      <4>2. req' = [req EXCEPT ![c] = r]
        BY <2>2 DEF GatewayInv, GatewayTyped
      <4>. QED
        BY <4>1, <4>2
    <3>3. UNCHANGED <<conn, proc, live, gone>>
      BY <1>3 DEF Origin
    <3>4. RequestInv(c, r)'
      BY <2>2, <3>1, <3>2, <3>3 DEF RequestInv, BoundAsGranted, IsOriginAllowed
    <3>. QED
      BY <3>2, <3>3, <3>4, OneRequest DEF GatewayInv
  <2>. QED
    BY <1>3, <2>1, <2>2 DEF Origin
<1>4. ASSUME NEW c \in Clients, Validate(c)
      PROVE  GatewayInv'
  <2>1. req[c].at = "guards" /\ req[c] # Idle /\ UNCHANGED <<conn, proc, gone>>
    BY <1>4 DEF Validate, Idle
  <2>2. CASE Pass(c, "valid") /\ live' = live /\ req[c].tok \in live
    BY <2>1, <2>2, PassedOne DEF Guards
  <2>3. CASE Done(c) /\ live' = live \ {req[c].tok}
    BY <2>1, <2>3, Answered DEF GatewayInv
  <2>. QED
    BY <1>4, <2>2, <2>3 DEF Validate
<1>5. ASSUME NEW c \in Clients, Bind(c)
      PROVE  GatewayInv'
  <2>. DEFINE t == req[c].tok
              id == ResolvePeerIdentity(c)
  <2>1. /\ req[c].at = "guards" /\ req[c] # Idle /\ UNCHANGED <<conn, proc>>
        /\ gone \subseteq gone' /\ (gone \cap live)' = {}
    BY <1>5 DEF Bind, Idle, GatewayInv
  <2>2. CASE Done(c)
    BY <2>1, <2>2, Answered
  <2>3. CASE ~Done(c)
    <3>1. /\ Pass(c, "bound") /\ id = Grants[t].to /\ id # NoIdentity
          /\ req[c].need \in Grants[t].scopes \cup {"any"}
          /\ gone' = gone /\ live' = live
      BY <1>5, <2>3 DEF Bind
    <3>2. RequestInv(c, req[c])
      BY <2>1 DEF GatewayInv
    <3>3. \/ c \in Web /\ Grants[t].to = <<"web", c>>
          \/ \E p \in req[c].seen: Grants[t].to = <<"native", p.exe, p.box>>
      BY <3>1, <3>2 DEF RequestInv, ResolvePeerIdentity, IdentityOf, Clients
    <3>4. BoundAsGranted(c, req[c])
      BY <3>1, <3>3 DEF BoundAsGranted
    <3>. QED
      BY <2>1, <3>1, <3>4, PassedOne DEF Guards
  <2>. QED
    BY <2>2, <2>3
<1>6. ASSUME NEW c \in Clients, Quota(c)
      PROVE  GatewayInv'
  <2>1. req[c].at = "guards" /\ req[c] # Idle /\ UNCHANGED <<conn, proc, live, gone>>
    BY <1>6 DEF Quota, Idle
  <2>2. CASE Done(c)
    BY <2>1, <2>2, Answered DEF GatewayInv
  <2>3. CASE Pass(c, "quota")
    BY <2>1, <2>3, PassedOne DEF Guards
  <2>. QED
    BY <1>6, <2>2, <2>3 DEF Quota
<1>7. ASSUME NEW c \in Clients, Serve(c)
      PROVE  GatewayInv'
  BY <1>7, Answered DEF Serve, GatewayInv
<1>8. ASSUME NEW o \in Offers, Arrive(o[1], o[2], o[3])
      PROVE  GatewayInv'
  <2>. DEFINE c == o[1]
  <2>1. c \in Clients /\ req[c] = Idle /\ UNCHANGED <<conn, proc, live, gone>>
    BY <1>8 DEF Arrive, GatewayInv, GatewayTyped
  <2>2. PICK r :
           /\ r = [at |-> "arrived", tok |-> o[2], need |-> o[3], passed |-> {},
                   seen |-> IF c \in Native THEN {proc[c]} ELSE {}, late |-> o[2] \in gone]
           /\ req' = [req EXCEPT ![c] = r]
    BY <1>8 DEF Arrive
  <2>3. r \in Request
    BY <2>2 DEF Request, GatewayInv, GatewayTyped
  <2>4. RequestInv(c, r)'
    BY <2>1, <2>2 DEF RequestInv
  <2>. QED
    BY <2>1, <2>2, <2>3, <2>4, OneRequest DEF GatewayInv
<1>9. ASSUME NEW c \in Native, NEW p \in Procs, Exec(c, p)
      PROVE  GatewayInv'
  <2>1. c \in Clients /\ proc' = [proc EXCEPT ![c] = p] /\ UNCHANGED <<conn, live, gone>>
    BY <1>9 DEF Exec, Clients
  <2>2. CASE req[c] = Idle
    <3>1. req' = req
      BY <1>9, <2>2 DEF Exec
    <3>. QED
      BY <2>1, <2>2, <3>1 DEF GatewayInv, GatewayTyped, RequestInv, BoundAsGranted, IsOriginAllowed
  <2>3. CASE req[c] # Idle
    <3>1. req[c] \in Request /\ RequestInv(c, req[c])
      BY <2>1, <2>3 DEF GatewayInv, GatewayTyped
    <3>2. PICK r \in Request :
             /\ req' = [req EXCEPT ![c] = r] /\ r.seen = req[c].seen \cup {p}
             /\ r.at = req[c].at /\ r.tok = req[c].tok /\ r.need = req[c].need
             /\ r.passed = req[c].passed /\ r.late = req[c].late
      <4>. DEFINE r == [req[c] EXCEPT !.seen = @ \cup {p}]
      <4>1. r \in Request /\ r.seen = req[c].seen \cup {p}
            /\ r.at = req[c].at /\ r.tok = req[c].tok /\ r.need = req[c].need
            /\ r.passed = req[c].passed /\ r.late = req[c].late
        BY <3>1 DEF Request
      <4>2. req' = [req EXCEPT ![c] = r]
        BY <1>9, <2>1, <2>3 DEF Exec, GatewayInv, GatewayTyped
      <4>. QED
        BY <4>1, <4>2
    <3>3. GatewayTyped'
      BY <2>1, <3>2 DEF GatewayInv, GatewayTyped
    <3>4. ASSUME NEW e \in Clients, req'[e] # Idle
          PROVE  RequestInv(e, req[e])'
      <4>1. CASE e = c
        BY <2>1, <3>1, <3>2, <4>1 DEF GatewayInv, GatewayTyped, RequestInv, BoundAsGranted,
                                     IsOriginAllowed
      <4>2. CASE e # c
        BY <2>1, <3>2, <3>4, <4>2 DEF GatewayInv, GatewayTyped, RequestInv, BoundAsGranted,
                                     IsOriginAllowed
      <4>. QED
        BY <4>1, <4>2
    <3>. QED
      BY <2>1, <3>3, <3>4 DEF GatewayInv
  <2>. QED
    BY <2>2, <2>3
<1>. QED
  BY <1>1, <1>2, <1>3, <1>4, <1>5, <1>6, <1>7, <1>8, <1>9 DEF GatewayNext

\* The invariant holds from the start.
LEMMA GatewayAlways == GatewaySpec => []GatewayInv
<1>1. GatewayInit => GatewayInv
  BY GatewayAssumption DEF GatewayInit, GatewayInv, GatewayTyped
<1>2. GatewayInv /\ [GatewayNext]_gatewayVars => GatewayInv'
  BY GatewayStep
<1>. QED
  BY <1>1, <1>2, PTL DEF GatewaySpec

\* middleware.rs:320-322: a token that another binary or page presented is over; no
\* request that comes after that refusal is served with it.
THEOREM AStolenSessionIsOver == GatewaySpec => StolenIsOver
<1>1. GatewayInv => \A c \in Clients: Serve(c) => ~req[c].late
  BY DEF GatewayInv, RequestInv, Serve, Idle
<1>. QED
  BY <1>1, GatewayAlways, PTL DEF StolenIsOver

\* middleware.rs `verify_peer_binding` and the origin gate: a request is served only if
\* its caller was the grantee while it was in flight, from an allowed origin, within its
\* scopes.
THEOREM OnlyTheGranteeIsServed == GatewaySpec => ServedAsGranted
<1>1. GatewayInv => \A c \in Clients: Serve(c) =>
         LET g == Grants[req[c].tok] IN
         /\ \/ c \in Web /\ IsOriginAllowed(c) /\ g.to = <<"web", c>>
            \/ \E p \in req[c].seen: g.to = <<"native", p.exe, p.box>>
         /\ req[c].need \in g.scopes \cup {"any"}
  BY DEF GatewayInv, RequestInv, BoundAsGranted, Serve, Idle
<1>. QED
  BY <1>1, GatewayAlways, PTL DEF ServedAsGranted

-----------------------------------------------------------------------------
(* The quota.                                                              *)

\* How many of these times are less than a minute before the instant.
Young(times, instant) == {k \in DOMAIN times: times[k] + Minute > instant}
CountAt(times, instant) == Cardinality(Young(times, instant))

Ascending(times) == \A j, k \in DOMAIN times: j <= k => times[j] <= times[k]

\* An entry of the table: its times ascend up to its last request.
Entry(e) ==
  /\ e.last \in Nat /\ e.last <= now
  /\ e.hist \in Seq(Nat) /\ Ascending(e.hist)
  /\ \A k \in DOMAIN e.hist: e.hist[k] <= now

\* What passed is counted by the entry, now and at any later instant; without an entry
\* there is nothing to count.
Counted(i) ==
  /\ \A k \in DOMAIN accepted[i]: accepted[i][k] <= now
  /\ i \in DOMAIN table => \A k \in DOMAIN accepted[i]: accepted[i][k] <= table[i].last
  /\ \A instant \in Nat: instant >= now =>
       IF i \in DOMAIN table THEN CountAt(accepted[i], instant) <= CountAt(table[i].hist, instant)
       ELSE CountAt(accepted[i], instant) = 0

QuotaInv ==
  /\ now \in Nat
  /\ \A i \in DOMAIN table: Entry(table[i])
  /\ accepted \in [Ids -> Seq(Nat)]
  /\ DOMAIN table \subseteq Ids
  /\ \A i \in Ids: Counted(i)
  /\ QuotaPerMinute

LEMMA YoungIsFinite ==
  ASSUME NEW times \in Seq(Nat), NEW instant
  PROVE  /\ IsFiniteSet(Young(times, instant)) /\ CountAt(times, instant) \in Nat
         /\ Young(times, instant) \subseteq DOMAIN times
<1>1. IsFiniteSet(1 .. Len(times)) /\ DOMAIN times = 1 .. Len(times)
  BY FS_Interval
<1>2. Young(times, instant) \in SUBSET (1 .. Len(times))
  BY <1>1 DEF Young
<1>3. IsFiniteSet(Young(times, instant))
  BY <1>1, <1>2, FS_Subset
<1>. QED
  BY <1>1, <1>2, <1>3, FS_CardinalityType DEF CountAt

\* Time only takes requests out of the window.
LEMMA CountFalls ==
  ASSUME NEW times \in Seq(Nat), NEW early \in Nat, NEW late \in Nat, early <= late
  PROVE  CountAt(times, late) <= CountAt(times, early)
<1>1. Minute \in Nat /\ \A k \in DOMAIN times: times[k] \in Nat
  BY GatewayAssumption
<1>2. Young(times, late) \in SUBSET Young(times, early)
  BY <1>1 DEF Young
<1>. QED
  BY <1>2, YoungIsFinite, FS_Subset DEF CountAt

LEMMA NothingYoung ==
  ASSUME NEW times \in Seq(Nat), NEW instant \in Nat,
         \A k \in DOMAIN times: times[k] + Minute <= instant
  PROVE  CountAt(times, instant) = 0
<1>1. Minute \in Nat /\ \A k \in DOMAIN times: times[k] \in Nat
  BY GatewayAssumption
<1>2. Young(times, instant) = {}
  BY <1>1 DEF Young
<1>. QED
  BY <1>2, FS_EmptySet DEF CountAt

\* One more request, at an instant of the present.
LEMMA CountOneMore ==
  ASSUME NEW times \in Seq(Nat), NEW t \in Nat, NEW instant \in Nat
  PROVE  CountAt(Append(times, t), instant) =
           IF t + Minute > instant THEN CountAt(times, instant) + 1 ELSE CountAt(times, instant)
<1>. DEFINE more == Append(times, t)
<1>1. /\ more \in Seq(Nat) /\ Len(more) = Len(times) + 1 /\ more[Len(times) + 1] = t
      /\ \A k \in 1 .. Len(times): more[k] = times[k]
  BY AppendProperties
<1>. HIDE DEF more
<1>2. DOMAIN times = 1 .. Len(times) /\ Len(times) \in Nat /\ DOMAIN more = 1 .. Len(times) + 1
  BY <1>1
<1>3. \A k \in DOMAIN more: k \in DOMAIN times \/ k = Len(times) + 1
  BY <1>2
<1>4. Len(times) + 1 \in DOMAIN more /\ Len(times) + 1 \notin DOMAIN times
      /\ \A k \in DOMAIN times: k \in DOMAIN more /\ more[k] = times[k]
  BY <1>1, <1>2
<1>5. CASE t + Minute > instant
  <2>1. Young(more, instant) = Young(times, instant) \cup {Len(times) + 1}
    BY <1>1, <1>3, <1>4, <1>5 DEF Young
  <2>2. Len(times) + 1 \notin Young(times, instant)
    BY <1>4 DEF Young
  <2>3. Cardinality(Young(times, instant) \cup {Len(times) + 1}) = Cardinality(Young(times, instant)) + 1
    BY <2>2, YoungIsFinite, FS_AddElement
  <2>. QED
    BY <1>5, <2>1, <2>3 DEF CountAt, more
<1>6. CASE ~(t + Minute > instant)
  <2>1. Young(more, instant) = Young(times, instant)
    BY <1>1, <1>3, <1>4, <1>6 DEF Young
  <2>. QED
    BY <1>6, <2>1 DEF CountAt, more
<1>. QED
  BY <1>5, <1>6

LEMMA SomeIsLeast ==
  ASSUME NEW T, T \subseteq Nat, T # {}
  PROVE  \E i \in T: \A j \in T: i <= j
<1>. DEFINE Below == {ss \in Nat \X Nat: ss[1] < ss[2]}
<1>1. IsWellFoundedOn(Below, Nat)
  BY Zenon, NatLessThanWellFounded DEF OpToRel
<1>2. PICK i \in T: \A j \in T: <<j, i>> \notin Below
  BY <1>1, WFMin, Zenon
<1>3. ASSUME NEW j \in T
      PROVE  i <= j
  <2>1. <<j, i>> \notin Below /\ i \in Nat /\ j \in Nat
    BY <1>2
  <2>. QED
    BY <2>1
<1>. QED
  BY <1>3

\* What is retained of times that ascend are those of the age and no others; no count of a
\* younger window changes.
LEMMA RetainedIsTheLast ==
  ASSUME NEW times \in Seq(Nat), Ascending(times), now \in Nat, NEW instant \in Nat, instant >= now
  PROVE  /\ Retained(times, Hour) \in Seq(Nat) /\ Ascending(Retained(times, Hour))
         /\ \A k \in DOMAIN Retained(times, Hour):
              \E j \in DOMAIN times: Retained(times, Hour)[k] = times[j]
         /\ CountAt(times, instant) <= CountAt(Retained(times, Hour), instant)
<1>. DEFINE hourOld == {k \in DOMAIN times: times[k] + Hour > now}
            first == Len(times) - Cardinality(hourOld) + 1
            kept == SubSeq(times, first, Len(times))
<1>1. /\ Len(times) \in Nat /\ DOMAIN times = 1 .. Len(times) /\ \A k \in DOMAIN times: times[k] \in Nat
      /\ Hour \in Nat /\ Minute \in Nat /\ Minute <= Hour
  BY GatewayAssumption, SMTT(30)
<1>2. /\ first \in 1 .. Len(times) + 1
      /\ \A k \in DOMAIN times: k < first => times[k] + Hour <= now
  <2>1. CASE hourOld = {}
    <3>1. Cardinality(hourOld) = 0
      BY <2>1, FS_EmptySet
    <3>2. first = Len(times) + 1
      BY <1>1, <3>1
    <3>3. \A k \in DOMAIN times: times[k] + Hour <= now
      <4>1. \A k \in DOMAIN times: ~(times[k] + Hour > now)
        BY <2>1
      <4>. QED
        BY <1>1, <4>1
    <3>. QED
      BY <1>1, <3>2, <3>3
  <2>2. CASE hourOld # {}
    <3>1. hourOld \subseteq Nat
      BY <1>1
    <3>2. PICK m \in hourOld: \A k \in hourOld: m <= k
      BY <2>2, <3>1, SomeIsLeast
    <3>3. m \in 1 .. Len(times) /\ times[m] + Hour > now
      BY <1>1
    <3>4. hourOld = m .. Len(times)
      <4>1. ASSUME NEW k \in m .. Len(times)
            PROVE  k \in hourOld
        <5>1. k \in DOMAIN times /\ m \in DOMAIN times /\ m <= k
          BY <1>1, <3>3
        <5>2. times[m] <= times[k]
          BY <5>1 DEF Ascending
        <5>. QED
          BY <1>1, <3>3, <5>1, <5>2
      <4>2. ASSUME NEW k \in hourOld
            PROVE  k \in m .. Len(times)
        <5>1. m <= k /\ k \in 1 .. Len(times)
          BY <1>1, <3>2
        <5>. QED
          BY <3>3, <5>1
      <4>. QED
        BY <4>1, <4>2
    <3>5. Cardinality(m .. Len(times)) = Len(times) - m + 1
      BY <1>1, <3>3, FS_Interval
    <3>6. first = m
      <4>1. Cardinality(hourOld) = Len(times) - m + 1
        BY <3>4, <3>5
      <4>. HIDE DEF hourOld
      <4>. QED
        BY <1>1, <3>3, <4>1
    <3>7. \A k \in DOMAIN times: k < m => times[k] + Hour <= now
      <4>1. ASSUME NEW k \in DOMAIN times, k < m, times[k] + Hour > now
            PROVE  FALSE
        <5>1. k \in hourOld /\ k \in Nat
          BY <1>1, <4>1
        <5>. HIDE DEF hourOld, first
        <5>2. m <= k
          BY <3>2, <5>1
        <5>. QED
          BY <3>3, <4>1, <5>1, <5>2
      <4>. QED
        BY <1>1, <4>1
    <3>. HIDE DEF hourOld, first
    <3>8. m \in 1 .. Len(times) + 1
      BY <1>1, <3>3
    <3>. QED
      BY <3>6, <3>7, <3>8, Zenon
  <2>. QED
    BY <2>1, <2>2
<1>3. Retained(times, Hour) = kept
  BY DEF Retained, CountInWindow
<1>. HIDE DEF first
<1>4. /\ kept \in Seq(Nat) /\ DOMAIN kept = 1 .. Len(times) - first + 1
      /\ \A k \in DOMAIN kept: k + first - 1 \in DOMAIN times /\ kept[k] = times[k + first - 1]
  <2>1. /\ first \in Int /\ Len(times) \in Int /\ \A k \in first .. Len(times): times[k] \in Nat
    BY <1>1, <1>2
  <2>2. /\ kept \in Seq(Nat) /\ Len(kept) = IF first <= Len(times) THEN Len(times) - first + 1 ELSE 0
        /\ \A k \in 1 .. Len(times) - first + 1: kept[k] = times[first + k - 1]
    BY <2>1, SubSeqProperties
  <2>. HIDE DEF kept
  <2>3. Len(kept) = Len(times) - first + 1
    BY <1>1, <1>2, <2>2
  <2>4. DOMAIN kept = 1 .. Len(times) - first + 1
    BY <2>2, <2>3
  <2>5. \A k \in 1 .. Len(times) - first + 1:
          k + first - 1 \in DOMAIN times /\ first + k - 1 = k + first - 1
    BY <1>1, <1>2
  <2>. QED
    BY <2>2, <2>4, <2>5
<1>. HIDE DEF kept
<1>5. Ascending(kept)
  <2>1. ASSUME NEW j \in DOMAIN kept, NEW k \in DOMAIN kept, j <= k
        PROVE  kept[j] <= kept[k]
    <3>1. j + first - 1 <= k + first - 1
      BY <1>1, <1>2, <1>4, <2>1
    <3>. QED
      BY <1>4, <3>1 DEF Ascending
  <2>. QED
    BY <2>1 DEF Ascending
<1>6. CountAt(times, instant) <= CountAt(kept, instant)
  <2>. DEFINE f == [k \in Young(times, instant) |-> k - first + 1]
  <2>1. ASSUME NEW k \in Young(times, instant)
        PROVE  k - first + 1 \in Young(kept, instant) /\ k \in Nat
    <3>1. k \in DOMAIN times /\ times[k] + Minute > instant
      BY DEF Young
    <3>2. ~(k < first)
      BY <1>1, <1>2, <3>1
    <3>3. k - first + 1 \in 1 .. Len(times) - first + 1 /\ (k - first + 1) + first - 1 = k
      BY <1>1, <1>2, <3>1, <3>2, SMTT(30)
    <3>4. kept[k - first + 1] = times[k] /\ k - first + 1 \in DOMAIN kept
      BY <1>4, <3>3
    <3>. QED
      BY <1>1, <3>1, <3>4 DEF Young
  <2>2. f \in Injection(Young(times, instant), Young(kept, instant))
    <3>1. f \in [Young(times, instant) -> Young(kept, instant)]
      BY <2>1
    <3>2. \A j, k \in Young(times, instant): f[j] = f[k] => j = k
      BY <1>1, <1>2, <2>1
    <3>. HIDE DEF f
    <3>. QED
      BY <3>1, <3>2, Zenon DEF Injection, IsInjective
  <2>3. IsFiniteSet(Young(kept, instant))
    BY <1>4, YoungIsFinite
  <2>. HIDE DEF f
  <2>. QED
    BY <2>2, <2>3, FS_Injection DEF CountAt
<1>. QED
  BY <1>3, <1>4, <1>5, <1>6

\* A step that leaves the clock, the table and what passed alone.
LEMMA NothingCountedMoves ==
  ASSUME QuotaInv, UNCHANGED <<now, table, accepted>>
  PROVE  QuotaInv'
BY DEF QuotaInv, Entry, Counted, Ascending, CountAt, Young, QuotaPerMinute, CountInWindow

LEMMA OfTheMinute ==
  ASSUME NEW times
  PROVE  CountInWindow(times, Minute) = CountAt(times, now)
BY DEF CountInWindow, CountAt, Young

\* A client that registers starts an entry; it has nothing that still counts.
LEMMA RegisteredCounts ==
  ASSUME QuotaInv, NEW i \in Ids, table' = Registered(i), UNCHANGED <<now, accepted>>
  PROVE  QuotaInv'
<1>1. CASE i \in DOMAIN table
  BY <1>1, NothingCountedMoves DEF Registered
<1>2. CASE i \notin DOMAIN table
  <2>1. /\ DOMAIN table' = DOMAIN table \cup {i} /\ table'[i] = NewEntry
        /\ \A j \in DOMAIN table: j # i /\ table'[j] = table[j]
    BY <1>2 DEF Registered
  <2>2. Entry(NewEntry)'
    <3>1. <<>> \in Seq(Nat) /\ DOMAIN <<>> = {}
      OBVIOUS
    <3>2. Entry(NewEntry)
      BY <3>1 DEF Entry, NewEntry, QuotaInv, Ascending
    <3>. QED
      BY <3>2 DEF Entry, NewEntry, Ascending
  <2>3. \A j \in DOMAIN table': Entry(table[j])'
    <3>1. ASSUME NEW j \in DOMAIN table'
          PROVE  Entry(table[j])'
      <4>1. CASE j = i
        BY <2>1, <2>2, <4>1 DEF Entry, NewEntry, Ascending
      <4>2. CASE j # i
        <5>1. j \in DOMAIN table /\ table'[j] = table[j]
          BY <2>1, <4>2
        <5>. QED
          BY <5>1 DEF Entry, QuotaInv, Ascending
      <4>. QED
        BY <4>1, <4>2
    <3>. QED
      BY <3>1
  <2>4. \A j \in Ids: Counted(j)'
    <3>1. ASSUME NEW j \in Ids
          PROVE  Counted(j)'
      <4>1. CASE j = i
        <5>1. \A instant \in Nat: instant >= now => CountAt(accepted[i], instant) = 0
          BY <1>2 DEF QuotaInv, Counted
        <5>2. table'[i].last = now /\ table'[i].hist = <<>> /\ i \in DOMAIN table'
          BY <2>1 DEF NewEntry
        <5>3. \A instant \in Nat: CountAt(<<>>, instant) = 0
          <6>1. <<>> \in Seq(Nat) /\ DOMAIN <<>> = {}
            OBVIOUS
          <6>. QED
            BY <6>1, NothingYoung
        <5>4. \A instant \in Nat: instant >= now =>
                 CountAt(accepted[i], instant) <= CountAt(table'[i].hist, instant)
          BY <5>1, <5>2, <5>3
        <5>5. \A k \in DOMAIN accepted[i]: accepted[i][k] <= now
          BY DEF QuotaInv, Counted
        <5>. QED
          BY <4>1, <5>2, <5>4, <5>5 DEF Counted, CountAt, Young
      <4>2. CASE j # i
        <5>1. (j \in DOMAIN table' <=> j \in DOMAIN table)
              /\ (j \in DOMAIN table => table'[j] = table[j])
          BY <2>1, <4>2
        <5>2. Counted(j)
          BY DEF QuotaInv
        <5>. QED
          BY <5>1, <5>2 DEF Counted, CountAt, Young
      <4>. QED
        BY <4>1, <4>2
    <3>. QED
      BY <3>1
  <2>. QED
    BY <2>1, <2>3, <2>4 DEF QuotaInv, QuotaPerMinute, CountInWindow
<1>. QED
  BY <1>1, <1>2

\* An entry that is dropped was idle for a minute at least: nothing that passed still counts.
LEMMA CleanupCounts ==
  ASSUME QuotaInv, Cleanup
  PROVE  QuotaInv'
<1>. DEFINE idle(i) == IsTimedOut(table[i])
<1>1. /\ UNCHANGED <<now, accepted>>
      /\ \A i: i \in DOMAIN table' <=> i \in DOMAIN table /\ ~idle(i)
      /\ \A i \in DOMAIN table': table'[i] = table[i]
  BY DEF Cleanup
<1>. HIDE DEF idle
<1>2. \A i \in DOMAIN table': Entry(table[i])'
  BY <1>1 DEF QuotaInv, Entry, Ascending
<1>3. ASSUME NEW i \in Ids
      PROVE  Counted(i)'
  <2>1. Counted(i)
    BY DEF QuotaInv
  <2>2. CASE i \in DOMAIN table'
    BY <1>1, <2>1, <2>2 DEF Counted, CountAt, Young
  <2>3. CASE i \notin DOMAIN table
    BY <1>1, <2>1, <2>3 DEF Counted, CountAt, Young
  <2>4. CASE i \in DOMAIN table /\ idle(i)
    <3>1. /\ now \in Nat /\ table[i].last \in Nat /\ now - table[i].last > ConnectionTimeout
          /\ accepted[i] \in Seq(Nat)
          /\ \A k \in DOMAIN accepted[i]: accepted[i][k] <= table[i].last /\ accepted[i][k] <= now
      BY <2>1, <2>4 DEF idle, IsTimedOut, QuotaInv, Entry, Counted
    <3>2. Minute \in Nat /\ ConnectionTimeout \in Nat /\ Minute <= ConnectionTimeout
          /\ \A k \in DOMAIN accepted[i]: accepted[i][k] \in Nat
      <4>1. Minute \in Nat /\ ConnectionTimeout \in Nat /\ Minute <= ConnectionTimeout
        BY GatewayAssumption
      <4>2. accepted[i] \in Seq(Nat)
        BY <3>1
      <4>3. \A k \in DOMAIN accepted[i]: accepted[i][k] \in Nat
        BY <4>2
      <4>. QED
        BY <4>1, <4>3
    <3>3. \A k \in DOMAIN accepted[i]: accepted[i][k] + Minute <= now
      BY <3>1, <3>2, SMTT(30)
    <3>4. ASSUME NEW instant \in Nat, instant >= now
          PROVE  CountAt(accepted[i], instant) = 0
      <4>1. \A k \in DOMAIN accepted[i]: accepted[i][k] + Minute <= instant
        BY <3>1, <3>2, <3>3, <3>4
      <4>. QED
        BY <3>1, <4>1, NothingYoung
    <3>5. i \notin DOMAIN table'
      BY <1>1, <2>4
    <3>. QED
      BY <1>1, <3>1, <3>4, <3>5 DEF Counted, CountAt, Young
  <2>. QED
    BY <1>1, <2>2, <2>3, <2>4
<1>. QED
  BY <1>1, <1>2, <1>3 DEF QuotaInv, QuotaPerMinute, CountInWindow

LEMMA TickCounts ==
  ASSUME QuotaInv, Tick
  PROVE  QuotaInv'
<1>1. now \in Nat /\ now' = now + 1 /\ UNCHANGED <<table, accepted>>
  BY DEF Tick, QuotaInv
<1>2. \A i \in DOMAIN table': Entry(table[i])'
  <2>1. ASSUME NEW i \in DOMAIN table
        PROVE  Entry(table[i])'
    <3>1. Entry(table[i]) /\ \A k \in DOMAIN table[i].hist: table[i].hist[k] \in Nat
      BY DEF QuotaInv, Entry
    <3>. QED
      BY <1>1, <3>1 DEF Entry, Ascending
  <2>. QED
    BY <1>1, <2>1
<1>3. ASSUME NEW i \in Ids
      PROVE  Counted(i)'
  <2>1. Counted(i) /\ \A k \in DOMAIN accepted[i]: accepted[i][k] \in Nat
    BY DEF QuotaInv
  <2>2. \A k \in DOMAIN accepted[i]: accepted[i][k] <= now + 1
    BY <1>1, <2>1 DEF Counted
  <2>3. \A instant \in Nat: instant >= now + 1 => instant >= now
    BY <1>1
  <2>. QED
    BY <1>1, <2>1, <2>2, <2>3 DEF Counted, CountAt, Young
<1>4. QuotaPerMinute'
  <2>1. ASSUME NEW i \in Ids
        PROVE  CountAt(accepted[i], now + 1) <= MaxPerMinute
    <3>1. accepted[i] \in Seq(Nat) /\ CountAt(accepted[i], now) <= MaxPerMinute
      BY OfTheMinute DEF QuotaInv, QuotaPerMinute
    <3>2. CountAt(accepted[i], now + 1) <= CountAt(accepted[i], now)
      BY <1>1, <3>1, CountFalls
    <3>3. CountAt(accepted[i], now) \in Nat /\ CountAt(accepted[i], now + 1) \in Nat
      BY <3>1, YoungIsFinite
    <3>. QED
      BY <3>1, <3>2, <3>3, GatewayAssumption
  <2>. QED
    BY <1>1, <2>1 DEF QuotaPerMinute, CountInWindow, CountAt, Young
<1>. QED
  BY <1>1, <1>2, <1>3, <1>4 DEF QuotaInv

\* One request is recorded: its entry ascends to now and still counts what it counted, and
\* the request itself.
LEMMA RecordedCounts ==
  ASSUME NEW e, Entry(e), now \in Nat
  PROVE  /\ Entry(AddRequest(e)) /\ AddRequest(e).last = now
         /\ \A instant \in Nat: instant >= now =>
              CountAt(Append(e.hist, now), instant) <= CountAt(AddRequest(e).hist, instant)
<1>. DEFINE h == Append(e.hist, now)
<1>1. e.hist \in Seq(Nat) /\ Ascending(e.hist) /\ \A k \in DOMAIN e.hist: e.hist[k] <= now
  BY DEF Entry
<1>2. /\ h \in Seq(Nat) /\ Len(h) = Len(e.hist) + 1 /\ h[Len(e.hist) + 1] = now
      /\ \A k \in 1 .. Len(e.hist): h[k] = e.hist[k]
  BY <1>1, AppendProperties
<1>3. AddRequest(e).last = now
      /\ (AddRequest(e).hist = h \/ AddRequest(e).hist = Retained(h, Hour))
  BY DEF AddRequest
<1>. HIDE DEF h
<1>4. /\ DOMAIN h = 1 .. Len(e.hist) + 1 /\ DOMAIN e.hist = 1 .. Len(e.hist) /\ Len(e.hist) \in Nat
      /\ \A k \in DOMAIN h: h[k] \in Nat
  BY <1>1, <1>2
<1>5. ASSUME NEW k \in DOMAIN h
      PROVE  h[k] <= now
  <2>1. k \in 1 .. Len(e.hist) \/ k = Len(e.hist) + 1
    BY <1>4
  <2>2. CASE k \in 1 .. Len(e.hist)
    <3>1. e.hist[k] <= now
      BY <1>1, <1>4, <2>2
    <3>. QED
      BY <1>2, <2>2, <3>1
  <2>. QED
    BY <1>2, <2>1, <2>2
<1>6. Ascending(h)
  <2>1. ASSUME NEW j \in DOMAIN h, NEW k \in DOMAIN h, j <= k
        PROVE  h[j] <= h[k]
    <3>1. CASE k = Len(e.hist) + 1
      BY <1>2, <1>5, <3>1
    <3>2. CASE k # Len(e.hist) + 1
      <4>1. k \in 1 .. Len(e.hist) /\ j \in 1 .. Len(e.hist)
        BY <1>4, <2>1, <3>2
      <4>2. e.hist[j] <= e.hist[k]
        BY <1>1, <1>4, <2>1, <4>1 DEF Ascending
      <4>. QED
        BY <1>2, <4>1, <4>2
    <3>. QED
      BY <3>1, <3>2
  <2>. QED
    BY <2>1 DEF Ascending
<1>7. CASE AddRequest(e).hist = h
  <2>1. \A instant \in Nat: CountAt(h, instant) \in Nat
    BY <1>2, YoungIsFinite
  <2>2. Entry(AddRequest(e))
    BY <1>2, <1>3, <1>5, <1>6, <1>7 DEF Entry
  <2>3. \A instant \in Nat: CountAt(h, instant) <= CountAt(AddRequest(e).hist, instant)
    BY <1>7, <2>1
  <2>. QED
    BY <1>3, <2>2, <2>3 DEF h
<1>8. CASE AddRequest(e).hist = Retained(h, Hour)
  <2>1. /\ Retained(h, Hour) \in Seq(Nat) /\ Ascending(Retained(h, Hour))
        /\ \A k \in DOMAIN Retained(h, Hour): \E j \in DOMAIN h: Retained(h, Hour)[k] = h[j]
    <3>1. now \in Nat /\ now >= now
      OBVIOUS
    <3>. QED
      BY <1>2, <1>6, <3>1, RetainedIsTheLast
  <2>2. \A instant \in Nat: instant >= now =>
           CountAt(h, instant) <= CountAt(Retained(h, Hour), instant)
    BY <1>2, <1>6, RetainedIsTheLast
  <2>3. Entry(AddRequest(e))
    BY <1>3, <1>5, <1>8, <2>1 DEF Entry
  <2>. QED
    BY <1>3, <1>8, <2>2, <2>3 DEF h
<1>. QED
  BY <1>3, <1>7, <1>8

\* The limit: what passes is in the entry's count, and that count is within the limit.
LEMMA QuotaCounts ==
  ASSUME QuotaInv, NEW c \in Clients, Quota(c)
  PROVE  QuotaInv'
<1>1. now' = now /\ now \in Nat /\ c \in Ids
  BY DEF Quota, QuotaInv, Ids
<1>2. CASE UNCHANGED <<table, accepted>>
  BY <1>1, <1>2, NothingCountedMoves
<1>3. CASE c \in DOMAIN table /\ table' = [table EXCEPT ![c] = AddRequest(@)]
  <2>. DEFINE e == AddRequest(table[c])
  <2>1. /\ DOMAIN table' = DOMAIN table /\ table'[c] = e
        /\ \A i \in DOMAIN table: i # c => table'[i] = table[i]
    BY <1>3
  <2>2. /\ Entry(e) /\ e.last = now
        /\ \A instant \in Nat: instant >= now =>
              CountAt(Append(table[c].hist, now), instant) <= CountAt(e.hist, instant)
    BY <1>1, <1>3, RecordedCounts DEF QuotaInv
  <2>3. \/ accepted' = accepted
        \/ /\ accepted' = [accepted EXCEPT ![c] = Append(@, now)]
           /\ CountInWindow(e.hist, Minute) <= MaxPerMinute
    BY <1>3, <2>1 DEF Quota, ClientId, WithinLimits
  <2>. HIDE DEF e
  <2>4. \A i \in DOMAIN table': Entry(table[i])'
    BY <1>1, <2>1, <2>2 DEF QuotaInv, Entry, Ascending
  <2>5. ASSUME NEW i \in Ids, i # c
        PROVE  /\ Counted(i)' /\ accepted'[i] = accepted[i]
               /\ CountAt(accepted'[i], now) <= MaxPerMinute
    <3>1. Counted(i) /\ CountAt(accepted[i], now) <= MaxPerMinute
      BY OfTheMinute DEF QuotaInv, QuotaPerMinute
    <3>2. accepted'[i] = accepted[i]
      BY <2>3, <2>5 DEF QuotaInv
    <3>3. (i \in DOMAIN table' <=> i \in DOMAIN table)
          /\ (i \in DOMAIN table => table'[i] = table[i])
      BY <2>1, <2>5
    <3>. QED
      BY <1>1, <3>1, <3>2, <3>3 DEF Counted, CountAt, Young
  <2>. DEFINE a == accepted[c]
              h == table[c].hist
  <2>6. /\ a \in Seq(Nat) /\ h \in Seq(Nat)
        /\ \A k \in DOMAIN a: a[k] <= now
        /\ \A instant \in Nat: instant >= now => CountAt(a, instant) <= CountAt(h, instant)
        /\ CountAt(a, now) <= MaxPerMinute
    BY <1>1, <1>3, OfTheMinute DEF QuotaInv, Counted, QuotaPerMinute, Entry
  <2>. HIDE DEF a, h
  <2>7. ASSUME NEW instant \in Nat, instant >= now
        PROVE  /\ CountAt(Append(a, now), instant) <= CountAt(e.hist, instant)
               /\ CountAt(a, instant) <= CountAt(e.hist, instant)
    <3>1. /\ CountAt(a, instant) \in Nat /\ CountAt(h, instant) \in Nat
          /\ CountAt(e.hist, instant) \in Nat
      BY <2>2, <2>6, YoungIsFinite DEF Entry
    <3>2. CountAt(Append(a, now), instant) =
            IF now + Minute > instant THEN CountAt(a, instant) + 1 ELSE CountAt(a, instant)
      BY <1>1, <2>6, CountOneMore
    <3>3. CountAt(Append(h, now), instant) =
            IF now + Minute > instant THEN CountAt(h, instant) + 1 ELSE CountAt(h, instant)
      BY <1>1, <2>6, CountOneMore
    <3>4. CountAt(a, instant) <= CountAt(h, instant)
      BY <2>6, <2>7
    <3>5. CountAt(Append(h, now), instant) <= CountAt(e.hist, instant)
      BY <2>2, <2>7 DEF h
    <3>. QED
      BY <3>1, <3>2, <3>3, <3>4, <3>5
  <2>8. CASE accepted' = accepted
    <3>1. Counted(c)'
      BY <1>1, <1>3, <2>1, <2>2, <2>6, <2>7, <2>8 DEF Counted, CountAt, Young, a
    <3>. QED
      BY <1>1, <2>1, <2>4, <2>5, <2>8, <3>1 DEF QuotaInv, QuotaPerMinute, CountInWindow
  <2>9. CASE /\ accepted' = [accepted EXCEPT ![c] = Append(@, now)]
             /\ CountInWindow(e.hist, Minute) <= MaxPerMinute
    <3>1. accepted'[c] = Append(a, now) /\ accepted' \in [Ids -> Seq(Nat)]
      BY <1>1, <2>9 DEF QuotaInv, a
    <3>2. /\ Len(Append(a, now)) = Len(a) + 1 /\ Append(a, now)[Len(a) + 1] = now
          /\ \A k \in 1 .. Len(a): Append(a, now)[k] = a[k]
          /\ Append(a, now) \in Seq(Nat) /\ Len(a) \in Nat /\ DOMAIN a = 1 .. Len(a)
      BY <1>1, <2>6, AppendProperties
    <3>3. \A k \in DOMAIN Append(a, now): Append(a, now)[k] <= now
      <4>1. DOMAIN Append(a, now) = 1 .. Len(a) + 1
        BY <3>2
      <4>2. \A k \in 1 .. Len(a) + 1: k \in 1 .. Len(a) \/ k = Len(a) + 1
        BY <3>2
      <4>. QED
        BY <1>1, <2>6, <3>2, <4>1, <4>2
    <3>4. Counted(c)'
      BY <1>1, <1>3, <2>1, <2>2, <2>7, <3>1, <3>3 DEF Counted, CountAt, Young
    <3>5. CountAt(accepted'[c], now) <= MaxPerMinute
      <4>1. CountAt(Append(a, now), now) <= CountAt(e.hist, now)
        BY <1>1, <2>7
      <4>2. CountAt(Append(a, now), now) \in Nat /\ CountAt(e.hist, now) \in Nat
        BY <1>1, <2>2, <3>2, YoungIsFinite DEF Entry
      <4>3. CountAt(e.hist, now) <= MaxPerMinute
        BY <2>9, OfTheMinute
      <4>. QED
        BY <3>1, <4>1, <4>2, <4>3, GatewayAssumption
    <3>6. \A i \in Ids: CountAt(accepted'[i], now) <= MaxPerMinute /\ Counted(i)'
      BY <2>5, <3>4, <3>5
    <3>. QED
      BY <1>1, <2>1, <2>4, <3>1, <3>6 DEF QuotaInv, QuotaPerMinute, CountInWindow, CountAt, Young
  <2>. QED
    BY <2>3, <2>8, <2>9
<1>. QED
  BY <1>2, <1>3 DEF Quota, ClientId

LEMMA QuotaAlways == GatewaySpec => []QuotaInv
<1>1. GatewayInit => QuotaInv
  <2>1. ASSUME GatewayInit
        PROVE  QuotaInv
    <3>1. /\ now = 0 /\ table = <<>> /\ accepted = [i \in Ids |-> <<>>] /\ DOMAIN table = {}
      BY <2>1 DEF GatewayInit
    <3>2. <<>> \in Seq(Nat) /\ DOMAIN <<>> = {} /\ MaxPerMinute \in Nat
      BY GatewayAssumption
    <3>3. \A instant \in Nat: CountAt(<<>>, instant) = 0
      BY <3>2, NothingYoung
    <3>4. ASSUME NEW i \in Ids
          PROVE  Counted(i) /\ CountInWindow(accepted[i], Minute) <= MaxPerMinute
      <4>1. accepted[i] = <<>>
        BY <3>1
      <4>2. CountInWindow(accepted[i], Minute) = 0
        BY <3>1, <3>3, <4>1, OfTheMinute
      <4>. QED
        BY <3>1, <3>2, <3>3, <4>1, <4>2 DEF Counted
    <3>. QED
      BY <3>1, <3>2, <3>4 DEF QuotaInv, QuotaPerMinute
  <2>. QED
    BY <2>1
<1>2. ASSUME QuotaInv, [GatewayNext]_gatewayVars
      PROVE  QuotaInv'
  <2>0. QuotaInv
    BY <1>2
  <2>1. CASE Cleanup
    BY <2>0, <2>1, CleanupCounts
  <2>2. CASE Tick
    BY <2>0, <2>2, TickCounts
  <2>3. ASSUME NEW c \in Clients, Connect(c)
        PROVE  QuotaInv'
    <3>1. AcceptId(c) \in Ids
      BY DEF AcceptId, Ids
    <3>. QED
      BY <2>0, <2>3, <3>1, RegisteredCounts DEF Connect
  <2>4. ASSUME NEW c \in Clients, Origin(c)
        PROVE  QuotaInv'
    <3>1. c \in Ids
      BY DEF Ids
    <3>. QED
      BY <2>0, <2>4, <3>1, RegisteredCounts, NothingCountedMoves DEF Origin
  <2>5. ASSUME NEW c \in Clients, Quota(c)
        PROVE  QuotaInv'
    BY <2>0, <2>5, QuotaCounts
  <2>6. ASSUME NEW c \in Clients, Close(c) \/ Validate(c) \/ Bind(c) \/ Serve(c)
        PROVE  QuotaInv'
    BY <2>0, <2>6, NothingCountedMoves DEF Close, Validate, Bind, Serve
  <2>7. ASSUME NEW o \in Offers, Arrive(o[1], o[2], o[3])
        PROVE  QuotaInv'
    BY <2>0, <2>7, NothingCountedMoves DEF Arrive
  <2>8. ASSUME NEW c \in Native, NEW p \in Procs, Exec(c, p)
        PROVE  QuotaInv'
    BY <2>0, <2>8, NothingCountedMoves DEF Exec
  <2>9. CASE UNCHANGED gatewayVars
    BY <2>0, <2>9, NothingCountedMoves DEF gatewayVars
  <2>. QED
    BY <1>2, <2>1, <2>2, <2>3, <2>4, <2>5, <2>6, <2>7, <2>8, <2>9 DEF GatewayNext
<1>. QED
  BY <1>1, <1>2, PTL DEF GatewaySpec

\* manager.rs:60-70: however a client reconnects, goes idle and is forgotten, no more than
\* its quota passes the limiter in any minute.
THEOREM NobodyPassesItsQuota == GatewaySpec => []QuotaPerMinute
<1>1. QuotaInv => QuotaPerMinute
  BY DEF QuotaInv
<1>. QED
  BY <1>1, QuotaAlways, PTL

\* The gateway's part of the daemon the runs check is the gateway.
LEMMA TheGatewayIsAGate == AdmissionSpec => GatewaySpec
<1>1. AdmissionInit => GatewayInit
  BY DEF AdmissionInit
<1>2. [AdmissionNext]_allVars => [GatewayNext]_gatewayVars
  BY DEF AdmissionNext, allVars, gatewayVars
<1>. QED
  BY <1>1, <1>2, PTL DEF AdmissionSpec, GatewaySpec

\* middleware.rs, manager.rs: what is admitted is within the quota, was granted to that very
\* caller, and was not stolen before.
THEOREM WhatIsAdmittedWasGranted == AdmissionSpec => AdmittedAsGranted
BY TheGatewayIsAGate, NobodyPassesItsQuota, OnlyTheGranteeIsServed, AStolenSessionIsOver, PTL
   DEF AdmittedAsGranted

-----------------------------------------------------------------------------
(* The load gate.                                                          *)

\* The gate's owner is the one request that is past the line.
OwnerPassedTheLine ==
    /\ holder # NoOne => pc[holder] \in {"woken", "loading"}
    /\ \A r \in Requests : pc[r] \in {"woken", "loading"} => holder = r

\* The line holds exactly the requests that wait, each once.
LineIsTheWaiters ==
    /\ holder = NoOne => line = <<>>
    /\ \A r \in Requests : pc[r] = "lining" <=> \E i \in DOMAIN line : line[i] = r
    /\ \A i, j \in DOMAIN line : i # j => line[i] # line[j]

\* Tickets are handed out once each, and never beyond `newest`.
TicketsAreDistinct ==
    /\ \A r \in Requests : ticket[r] <= newest /\ (pc[r] = "idle" <=> ticket[r] = 0)
    /\ \A r, q \in Requests : ticket[r] = ticket[q] /\ ticket[r] # 0 => r = q

\* The inductive invariant: the properties above need all three facts.
IInv == TypeOK /\ OwnerPassedTheLine /\ LineIsTheWaiters /\ TicketsAreDistinct

-----------------------------------------------------------------------------
\* What is left when the waiter at position i leaves the line.
LEMMA RemoveAtIsTheRest ==
    ASSUME NEW S, NEW s \in Seq(S), NEW i \in DOMAIN s
    PROVE  /\ RemoveAt(s, i) \in Seq(S)
           /\ Len(RemoveAt(s, i)) = Len(s) - 1
           /\ \A j \in 1..(Len(s) - 1) :
                  RemoveAt(s, i)[j] = IF j < i THEN s[j] ELSE s[j + 1]
<1> DEFINE a == SubSeq(s, 1, i - 1)
           b == SubSeq(s, i + 1, Len(s))
<1>0. Len(s) \in Nat /\ i \in 1..Len(s)
    OBVIOUS
<1>1. /\ a \in Seq(S) /\ Len(a) = i - 1
      /\ \A j \in 1..(i - 1) : a[j] = s[j]
    <2>1. \A j \in 1..(i - 1) : s[j] \in S
        BY <1>0
    <2> QED BY <1>0, <2>1, SubSeqProperties
<1>2. /\ b \in Seq(S) /\ Len(b) = Len(s) - i
      /\ \A j \in 1..(Len(s) - i) : b[j] = s[i + j]
    <2>1. \A j \in (i + 1)..Len(s) : s[j] \in S
        BY <1>0
    <2>2. /\ b \in Seq(S)
          /\ Len(b) = IF i + 1 <= Len(s) THEN Len(s) - (i + 1) + 1 ELSE 0
          /\ \A j \in 1..(Len(s) - (i + 1) + 1) : b[j] = s[(i + 1) + j - 1]
        BY <1>0, <2>1, SubSeqProperties
    <2> QED BY <1>0, <2>2
<1> HIDE DEF a, b
<1>3. /\ a \o b \in Seq(S) /\ Len(a \o b) = Len(a) + Len(b)
      /\ \A j \in 1..(Len(a) + Len(b)) :
             (a \o b)[j] = IF j <= Len(a) THEN a[j] ELSE b[j - Len(a)]
    BY <1>1, <1>2, ConcatProperties
<1>4. ASSUME NEW j \in 1..(Len(s) - 1)
      PROVE  (a \o b)[j] = IF j < i THEN s[j] ELSE s[j + 1]
    <2>1. CASE j < i
        <3>1. j \in 1..(i - 1) /\ j \in 1..(Len(a) + Len(b)) /\ j <= Len(a)
            BY <1>0, <1>1, <1>2, <2>1
        <3>2. (a \o b)[j] = a[j] /\ a[j] = s[j]
            BY <1>1, <1>3, <3>1
        <3> QED BY <2>1, <3>2
    <2>2. CASE ~(j < i)
        <3>0. j \in 1..(Len(a) + Len(b)) /\ ~(j <= Len(a)) /\ Len(a) = i - 1
            BY <1>0, <1>1, <1>2, <2>2
        <3>1. (a \o b)[j] = b[j - (i - 1)] /\ j - (i - 1) \in 1..(Len(s) - i)
            <4>1. (a \o b)[j] = b[j - Len(a)]
                BY <1>3, <3>0
            <4>2. j - Len(a) = j - (i - 1)
                BY <3>0
            <4>3. j - (i - 1) \in 1..(Len(s) - i)
                BY <1>0, <2>2
            <4> QED BY <4>1, <4>2, <4>3
        <3>2. i + (j - (i - 1)) = j + 1
            BY <1>0
        <3> QED BY <1>2, <2>2, <3>1, <3>2
    <2> QED BY <2>1, <2>2
<1>5. RemoveAt(s, i) = a \o b
    BY DEF RemoveAt, a, b
<1>6. Len(a \o b) = Len(s) - 1
    BY <1>0, <1>1, <1>2, <1>3
<1> QED BY <1>3, <1>4, <1>5, <1>6

\* Leaving the line takes out one waiter and no other.
LEMMA RemoveAtKeepsTheOthers ==
    ASSUME NEW S, NEW s \in Seq(S), NEW i \in DOMAIN s,
           \A j, k \in DOMAIN s : j # k => s[j] # s[k]
    PROVE  /\ RemoveAt(s, i) \in Seq(S)
           /\ \A r : (\E j \in DOMAIN RemoveAt(s, i) : RemoveAt(s, i)[j] = r)
                     <=> (r # s[i] /\ \E j \in DOMAIN s : s[j] = r)
           /\ \A j, k \in DOMAIN RemoveAt(s, i) :
                  j # k => RemoveAt(s, i)[j] # RemoveAt(s, i)[k]
<1> DEFINE t == RemoveAt(s, i)
<1>1. /\ t \in Seq(S)
      /\ Len(t) = Len(s) - 1
      /\ \A j \in 1..(Len(s) - 1) : t[j] = IF j < i THEN s[j] ELSE s[j + 1]
    BY RemoveAtIsTheRest
<1>2. DOMAIN t = 1..(Len(s) - 1) /\ DOMAIN s = 1..Len(s) /\ Len(s) \in Nat /\ i \in 1..Len(s)
    BY <1>1
<1> HIDE DEF t
<1>3. ASSUME NEW r, NEW j \in DOMAIN t, t[j] = r
      PROVE  r # s[i] /\ \E k \in DOMAIN s : s[k] = r
    <2>1. CASE j < i
        BY <1>1, <1>2, <1>3, <2>1
    <2>2. CASE ~(j < i)
        <3>1. j + 1 \in DOMAIN s /\ j + 1 # i /\ s[j + 1] = r
            BY <1>1, <1>2, <1>3, <2>2
        <3> QED BY <3>1
    <2> QED BY <2>1, <2>2
<1>4. ASSUME NEW r, r # s[i], NEW j \in DOMAIN s, s[j] = r
      PROVE  \E k \in DOMAIN t : t[k] = r
    <2>1. CASE j < i
        <3>1. j \in DOMAIN t /\ t[j] = r
            BY <1>1, <1>2, <1>4, <2>1
        <3> QED BY <3>1
    <2>2. CASE ~(j < i)
        <3>1. j - 1 \in DOMAIN t /\ ~(j - 1 < i) /\ t[j - 1] = s[(j - 1) + 1]
            BY <1>1, <1>2, <1>4, <2>2
        <3>2. (j - 1) + 1 = j
            BY <1>2
        <3> QED BY <3>1, <3>2, <1>4
    <2> QED BY <2>1, <2>2
<1>5. ASSUME NEW j \in DOMAIN t, NEW k \in DOMAIN t, j # k
      PROVE  t[j] # t[k]
    <2> DEFINE from(n) == IF n < i THEN n ELSE n + 1
    <2>1. \A n \in DOMAIN t : from(n) \in DOMAIN s /\ t[n] = s[from(n)]
        BY <1>1, <1>2
    <2>2. from(j) # from(k)
        BY <1>2, <1>5
    <2> HIDE DEF from
    <2> QED BY <2>1, <2>2
<1> QED BY <1>1, <1>3, <1>4, <1>5 DEF t

\* Serving the head of the line takes out that waiter and no other.
LEMMA TailKeepsTheOthers ==
    ASSUME NEW S, NEW s \in Seq(S), s # <<>>,
           \A j, k \in DOMAIN s : j # k => s[j] # s[k]
    PROVE  /\ Tail(s) \in Seq(S)
           /\ Head(s) \in S
           /\ \E j \in DOMAIN s : s[j] = Head(s)
           /\ \A r : (\E j \in DOMAIN Tail(s) : Tail(s)[j] = r)
                     <=> (r # Head(s) /\ \E j \in DOMAIN s : s[j] = r)
           /\ \A j, k \in DOMAIN Tail(s) : j # k => Tail(s)[j] # Tail(s)[k]
<1>1. /\ Tail(s) \in Seq(S) /\ Head(s) = s[1] /\ Len(s) \in Nat \ {0}
      /\ DOMAIN s = 1..Len(s) /\ DOMAIN Tail(s) = 1..(Len(s) - 1)
      /\ \A j \in 1..(Len(s) - 1) : Tail(s)[j] = s[j + 1]
    OBVIOUS
<1>2. ASSUME NEW r, r # s[1], NEW j \in DOMAIN s, s[j] = r
      PROVE  \E k \in DOMAIN Tail(s) : Tail(s)[k] = r
    <2>1. j - 1 \in DOMAIN Tail(s) /\ (j - 1) + 1 = j
        BY <1>1, <1>2
    <2> QED BY <1>1, <1>2, <2>1
<1>3. ASSUME NEW j \in DOMAIN Tail(s)
      PROVE  Tail(s)[j] # s[1] /\ j + 1 \in DOMAIN s /\ Tail(s)[j] = s[j + 1]
    BY <1>1
<1>4. 1 \in DOMAIN s
    BY <1>1
<1> QED BY <1>1, <1>2, <1>3, <1>4

-----------------------------------------------------------------------------
\* Dropping the guard passes the gate on and disturbs nobody else.
LEMMA ReleaseKeepsTheGate ==
    ASSUME IInv, NEW r \in Requests, holder = r,
           NEW stage \in {"superseded", "loaded", "dropped"},
           Release(r, stage), ticket' = ticket, newest' = newest
    PROVE  IInv' /\ pc'[r] = stage
           /\ \A q \in Requests \ {r} : pc'[q] = pc[q]
                   \/ (pc[q] = "lining" /\ pc'[q] = "woken")
<1> USE DEF IInv, TypeOK, Stages, Waiting
<1>0. r # NoOne /\ pc[r] # "idle" /\ pc[r] # "lining"
    BY NoOneAssumption DEF OwnerPassedTheLine
<1>1. CASE line = <<>>
    <2>1. holder' = NoOne /\ pc' = [pc EXCEPT ![r] = stage] /\ line' = line
        BY <1>1 DEF Release
    <2>2. TypeOK'
        BY <2>1
    <2>3. OwnerPassedTheLine'
        BY <2>1 DEF OwnerPassedTheLine
    <2>4. LineIsTheWaiters'
        BY <2>1, <1>0, <1>1 DEF LineIsTheWaiters
    <2>5. TicketsAreDistinct'
        BY <2>1, <1>0 DEF TicketsAreDistinct
    <2> QED BY <2>1, <2>2, <2>3, <2>4, <2>5
<1>2. CASE line # <<>>
    <2> DEFINE h == Head(line)
    <2>1. /\ holder' = h /\ line' = Tail(line)
          /\ pc' = [pc EXCEPT ![r] = stage, ![h] = "woken"]
        BY <1>2 DEF Release
    <2>2. /\ Tail(line) \in Seq(Requests)
          /\ h \in Requests
          /\ \E j \in DOMAIN line : line[j] = h
          /\ \A q : (\E j \in DOMAIN Tail(line) : Tail(line)[j] = q)
                     <=> (q # h /\ \E j \in DOMAIN line : line[j] = q)
          /\ \A j, k \in DOMAIN Tail(line) : j # k => Tail(line)[j] # Tail(line)[k]
        <3>1. line \in Seq(Requests) /\ \A j, k \in DOMAIN line : j # k => line[j] # line[k]
            BY DEF LineIsTheWaiters
        <3> QED BY <1>2, <3>1, TailKeepsTheOthers, Zenon
    <2> HIDE DEF h
    <2>3. pc[h] = "lining" /\ h # r /\ h # NoOne
        BY <2>2, <1>0, NoOneAssumption DEF LineIsTheWaiters
    <2>4. TypeOK'
        BY <2>1, <2>2
    <2>5. OwnerPassedTheLine'
        BY <2>1, <2>2, <2>3 DEF OwnerPassedTheLine
    <2>6. ASSUME NEW q \in Requests
          PROVE  pc'[q] = "lining" <=> \E j \in DOMAIN Tail(line) : Tail(line)[j] = q
        <3>1. pc'[q] = "lining" <=> pc[q] = "lining" /\ q # h
            BY <2>1, <2>2, <2>3, <1>0
        <3>2. pc[q] = "lining" <=> \E j \in DOMAIN line : line[j] = q
            BY DEF LineIsTheWaiters
        <3> QED BY <2>2, <3>1, <3>2
    <2>7. LineIsTheWaiters'
        <3>1. holder' # NoOne
            BY <2>1, <2>3
        <3>2. \A q \in Requests : pc'[q] = "lining" <=> \E j \in DOMAIN line' : line'[j] = q
            BY <2>1, <2>6
        <3>3. \A j, k \in DOMAIN line' : j # k => line'[j] # line'[k]
            BY <2>1, <2>2
        <3> QED BY <3>1, <3>2, <3>3 DEF LineIsTheWaiters
    <2>8. TicketsAreDistinct'
        BY <2>1, <2>2, <2>3, <1>0 DEF TicketsAreDistinct
    <2> QED BY <2>1, <2>2, <2>3, <2>4, <2>5, <2>7, <2>8
<1> QED BY <1>1, <1>2

\* The same for the line itself: only the dropped request leaves it.
LEMMA LeavingTheLine ==
    ASSUME line \in Seq(Requests), NEW i \in DOMAIN line,
           \A j, k \in DOMAIN line : j # k => line[j] # line[k]
    PROVE  /\ RemoveAt(line, i) \in Seq(Requests)
           /\ \A q : (\E j \in DOMAIN RemoveAt(line, i) : RemoveAt(line, i)[j] = q)
                     <=> (q # line[i] /\ \E j \in DOMAIN line : line[j] = q)
           /\ \A j, k \in DOMAIN RemoveAt(line, i) :
                  j # k => RemoveAt(line, i)[j] # RemoveAt(line, i)[k]
BY RemoveAtKeepsTheOthers, Zenon

\* Each step of a request keeps the invariant.
LEMMA StepKeepsIInv ==
    ASSUME IInv, [Next]_vars
    PROVE  IInv'
<1> USE DEF IInv, TypeOK, Stages, Waiting
<1>1. ASSUME NEW r \in Requests, Ticket(r)
      PROVE  IInv'
    <2>1. TypeOK' /\ OwnerPassedTheLine' /\ LineIsTheWaiters'
        BY <1>1 DEF Ticket, OwnerPassedTheLine, LineIsTheWaiters
    <2>2. TicketsAreDistinct'
        BY <1>1 DEF Ticket, TicketsAreDistinct
    <2> QED BY <2>1, <2>2
<1>2. ASSUME NEW r \in Requests, Lock(r)
      PROVE  IInv'
    <2>0. r # NoOne /\ ticket' = ticket /\ newest' = newest /\ pc[r] = "ticketed"
        BY <1>2, NoOneAssumption DEF Lock
    <2>1. CASE holder = NoOne
        <3>1. /\ holder' = r /\ line' = line /\ pc' = [pc EXCEPT ![r] = "woken"]
            BY <1>2, <2>1 DEF Lock
        <3>2. TypeOK' /\ OwnerPassedTheLine'
            <4>1. TypeOK'
                BY <2>0, <3>1
            <4>2. \A q \in Requests : pc[q] \notin {"woken", "loading"}
                BY <2>1, NoOneAssumption DEF OwnerPassedTheLine
            <4> QED BY <2>0, <3>1, <4>1, <4>2 DEF OwnerPassedTheLine
        <3>4. \A q \in Requests : pc'[q] = "lining" <=> pc[q] = "lining"
            BY <2>0, <3>1
        <3>5. LineIsTheWaiters'
            BY <2>0, <3>1, <3>4 DEF LineIsTheWaiters
        <3>3. TicketsAreDistinct'
            BY <2>0, <3>1 DEF TicketsAreDistinct
        <3> QED BY <3>2, <3>3, <3>5
    <2>2. CASE holder # NoOne
        <3>1. /\ holder' = holder /\ line' = Append(line, r)
              /\ pc' = [pc EXCEPT ![r] = "lining"]
            BY <1>2, <2>2 DEF Lock
        <3>2. TypeOK' /\ OwnerPassedTheLine'
            BY <2>0, <2>2, <3>1 DEF OwnerPassedTheLine
        <3>3. \A i \in DOMAIN line : line[i] # r
            BY <2>0 DEF LineIsTheWaiters
        <3>4. /\ DOMAIN line' = DOMAIN line \union {Len(line) + 1}
              /\ Len(line) + 1 \notin DOMAIN line
              /\ \A i \in DOMAIN line : line'[i] = line[i]
              /\ line'[Len(line) + 1] = r
            BY <3>1
        <3>5. LineIsTheWaiters'
            BY <2>0, <2>2, <3>1, <3>3, <3>4 DEF LineIsTheWaiters
        <3>6. TicketsAreDistinct'
            BY <2>0, <3>1 DEF TicketsAreDistinct
        <3> QED BY <3>2, <3>5, <3>6
    <2> QED BY <2>1, <2>2
<1>3. ASSUME NEW r \in Requests, Enter(r)
      PROVE  IInv'
    BY <1>3 DEF Enter, OwnerPassedTheLine, LineIsTheWaiters, TicketsAreDistinct
<1>4. ASSUME NEW r \in Requests, GiveUp(r)
      PROVE  IInv'
    BY <1>4, ReleaseKeepsTheGate DEF GiveUp, OwnerPassedTheLine
<1>5. ASSUME NEW r \in Requests, Finish(r)
      PROVE  IInv'
    BY <1>5, ReleaseKeepsTheGate DEF Finish, OwnerPassedTheLine
<1>6. ASSUME NEW r \in Requests, Drop(r)
      PROVE  IInv'
    <2>0. ticket' = ticket /\ newest' = newest
        BY <1>6 DEF Drop
    <2>1. CASE /\ pc[r] = "ticketed"
               /\ pc' = [pc EXCEPT ![r] = "dropped"]
               /\ UNCHANGED <<holder, line>>
        BY <2>0, <2>1 DEF OwnerPassedTheLine, LineIsTheWaiters, TicketsAreDistinct
    <2>2. ASSUME pc[r] = "lining",
                 pc' = [pc EXCEPT ![r] = "dropped"],
                 NEW i \in DOMAIN line, line[i] = r, line' = RemoveAt(line, i),
                 holder' = holder
          PROVE  IInv'
        <3>1. /\ RemoveAt(line, i) \in Seq(Requests)
              /\ \A q : (\E j \in DOMAIN RemoveAt(line, i) : RemoveAt(line, i)[j] = q)
                        <=> (q # line[i] /\ \E j \in DOMAIN line : line[j] = q)
              /\ \A j, k \in DOMAIN RemoveAt(line, i) :
                     j # k => RemoveAt(line, i)[j] # RemoveAt(line, i)[k]
            <4>1. line \in Seq(Requests) /\ \A j, k \in DOMAIN line : j # k => line[j] # line[k]
                BY DEF LineIsTheWaiters
            <4> QED BY <4>1, LeavingTheLine, Zenon
        <3>2. TypeOK' /\ OwnerPassedTheLine'
            <4>1. TypeOK'
                BY <2>0, <2>2, <3>1
            <4>2. r # holder
                BY <2>2, NoOneAssumption DEF OwnerPassedTheLine
            <4> QED BY <2>2, <4>1, <4>2 DEF OwnerPassedTheLine
        <3>3. holder # NoOne
            BY <2>2 DEF LineIsTheWaiters
        <3>4. ASSUME NEW q \in Requests
              PROVE  pc'[q] = "lining" <=> \E j \in DOMAIN line' : line'[j] = q
            <4>1. pc'[q] = "lining" <=> pc[q] = "lining" /\ q # r
                BY <2>2
            <4> QED BY <2>2, <3>1, <4>1 DEF LineIsTheWaiters
        <3>5. LineIsTheWaiters'
            BY <2>2, <3>1, <3>3, <3>4 DEF LineIsTheWaiters
        <3>6. TicketsAreDistinct'
            BY <2>0, <2>2 DEF TicketsAreDistinct
        <3> QED BY <3>2, <3>5, <3>6
    <2>3. CASE pc[r] = "woken" /\ Release(r, "dropped")
        BY <2>0, <2>3, ReleaseKeepsTheGate DEF OwnerPassedTheLine
    <2> QED BY <1>6, <2>1, <2>2, <2>3 DEF Drop
<1>7. CASE UNCHANGED vars
    BY <1>7 DEF vars, OwnerPassedTheLine, LineIsTheWaiters, TicketsAreDistinct
<1> QED BY <1>1, <1>2, <1>3, <1>4, <1>5, <1>6, <1>7 DEF Next

\* The inductive invariant holds in every reachable state.
THEOREM InductiveInvariant == Spec => []IInv
<1>1. Init => IInv
    BY NoOneAssumption DEF Init, IInv, TypeOK, Stages, Waiting, OwnerPassedTheLine,
           LineIsTheWaiters, TicketsAreDistinct
<1>2. IInv /\ [Next]_vars => IInv'
    BY StepKeepsIInv
<1> QED BY <1>1, <1>2, PTL DEF Spec

-----------------------------------------------------------------------------
\* load_gate.rs `enter`: for any number of requests, two loads never overlap
\* and the running load owns the gate.
THEOREM LoadsNeverOverlap == Spec => []OneLoadAtATime
<1>1. IInv => OneLoadAtATime
    BY DEF IInv, OwnerPassedTheLine, OneLoadAtATime
<1> QED BY <1>1, InductiveInvariant, PTL

\* load_gate.rs `gate`: a gate that is released is never lost, so a waiter
\* always has somebody before it that will let it through.
THEOREM TheGateIsNeverLost == Spec => []GateNeverLost
<1>1. IInv => GateNeverLost
    BY NoOneAssumption DEF IInv, TypeOK, OwnerPassedTheLine, LineIsTheWaiters, GateNeverLost
<1> QED BY <1>1, InductiveInvariant, PTL

\* load_gate.rs `newest`: of all the requests that wait, at most one can load.
THEOREM OnlyOneMoreLoad == Spec => []AtMostOneMoreLoad
<1>1. IInv => AtMostOneMoreLoad
    BY DEF IInv, TypeOK, TicketsAreDistinct, AtMostOneMoreLoad, Waiting
<1> QED BY <1>1, InductiveInvariant, PTL

-----------------------------------------------------------------------------
\* The gate implements the slot: loads start one at a time in ticket order.
THEOREM GateImplementsSlot == Spec => NewestWins
<1> DEFINE R == {ticket[r] : r \in {q \in Requests : pc[q] = "loading"}}
           S == {ticket[r] : r \in {q \in Requests : Started(q)}}
<1>1. Init => Slot!SlotInit
    BY DEF Init, Slot!SlotInit, Started
<1>2. ASSUME IInv, [Next]_vars
      PROVE  [Slot!SlotNext]_(Slot!slotVars)
    <2> USE <1>2 DEF IInv, TypeOK, Stages, Waiting
    <2> SUFFICES \/ R' = R /\ S' = S
                 \/ R # {} /\ R' = {} /\ S' = S
                 \/ \E t \in R' : /\ R = {} /\ R' = {t} /\ S' = S \union {t}
                                  /\ \A s \in S : s < t
        BY DEF Slot!SlotNext, Slot!slotVars, Slot!EndLoad, Slot!StartLoad
    \* Nobody begins or ends a load: both images are what they were.
    <2>0. ASSUME ticket' = ticket,
                 \A q \in Requests : (pc'[q] = "loading" <=> pc[q] = "loading")
                                     /\ (pc'[q] = "loaded" <=> pc[q] = "loaded")
          PROVE  R' = R /\ S' = S
        BY <2>0 DEF Started
    <2>1. ASSUME NEW r \in Requests, Ticket(r)
          PROVE  R' = R /\ S' = S
        BY <2>1 DEF Ticket, Started
    <2>2. ASSUME NEW r \in Requests, Lock(r)
          PROVE  R' = R /\ S' = S
        BY <2>0, <2>2 DEF Lock
    <2>3. ASSUME NEW r \in Requests, Enter(r)
          PROVE  \E t \in R' : /\ R = {} /\ R' = {t} /\ S' = S \union {t}
                               /\ \A s \in S : s < t
        <3>1. ticket' = ticket /\ pc' = [pc EXCEPT ![r] = "loading"] /\ pc[r] = "woken"
            BY <2>3 DEF Enter
        <3>2. \A q \in Requests : pc[q] # "loading"
            BY <3>1 DEF OwnerPassedTheLine
        <3>3. R = {} /\ R' = {ticket[r]}
            BY <3>1, <3>2
        <3>4. S' = S \union {ticket[r]}
            BY <3>1 DEF Started
        <3>5. ASSUME NEW q \in Requests, Started(q)
              PROVE  ticket[q] < ticket[r]
            BY <2>3, <3>1, <3>5 DEF Enter, Started, TicketsAreDistinct
        <3>6. \A s \in S : s < ticket[r]
            BY <3>5
        <3>7. ticket[r] \in R'
            BY <3>3
        <3> HIDE DEF R, S
        <3> QED BY <3>3, <3>4, <3>6, <3>7
    <2>4. ASSUME NEW r \in Requests, GiveUp(r)
          PROVE  R' = R /\ S' = S
        <3>1. /\ pc'[r] = "superseded" /\ pc[r] = "woken" /\ ticket' = ticket
              /\ \A q \in Requests \ {r} : pc'[q] = pc[q]
                     \/ (pc[q] = "lining" /\ pc'[q] = "woken")
            BY <2>4, ReleaseKeepsTheGate DEF GiveUp, OwnerPassedTheLine
        <3> QED BY <2>0, <3>1
    <2>5. ASSUME NEW r \in Requests, Finish(r)
          PROVE  R # {} /\ R' = {} /\ S' = S
        <3>1. /\ pc'[r] = "loaded" /\ pc[r] = "loading" /\ ticket' = ticket
              /\ \A q \in Requests \ {r} : pc'[q] = pc[q]
                     \/ (pc[q] = "lining" /\ pc'[q] = "woken")
            BY <2>5, ReleaseKeepsTheGate DEF Finish, OwnerPassedTheLine
        <3>2. \A q \in Requests : pc'[q] # "loading"
            BY <3>1 DEF OwnerPassedTheLine
        <3>3. \A q \in Requests : (pc'[q] \in {"loading", "loaded"})
                                  <=> (pc[q] \in {"loading", "loaded"})
            BY <3>1
        <3>4. S' = S
            BY <3>1, <3>3 DEF Started
        <3> QED BY <3>1, <3>2, <3>4
    <2>6. ASSUME NEW r \in Requests, Drop(r)
          PROVE  R' = R /\ S' = S
        <3>1. CASE pc[r] = "woken" /\ Release(r, "dropped")
            <4>1. /\ pc'[r] = "dropped" /\ ticket' = ticket
                  /\ \A q \in Requests \ {r} : pc'[q] = pc[q]
                         \/ (pc[q] = "lining" /\ pc'[q] = "woken")
                BY <2>6, <3>1, ReleaseKeepsTheGate DEF Drop, OwnerPassedTheLine
            <4> QED BY <2>0, <3>1, <4>1
        <3>2. CASE pc[r] \in {"ticketed", "lining"} /\ pc' = [pc EXCEPT ![r] = "dropped"]
            BY <2>0, <2>6, <3>2 DEF Drop
        <3> QED BY <2>6, <3>1, <3>2 DEF Drop
    <2>7. CASE UNCHANGED vars
        BY <2>0, <2>7 DEF vars
    <2> QED BY <2>1, <2>2, <2>3, <2>4, <2>5, <2>6, <2>7 DEF Next
<1> QED BY <1>1, <1>2, InductiveInvariant, PTL DEF Spec, NewestWins, Slot!SlotSpec

=============================================================================
