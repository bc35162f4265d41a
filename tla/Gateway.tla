------------------------------ MODULE Gateway ------------------------------
(***************************************************************************)
(* What stands between a connection and a handler: the client table with   *)
(* its rate limits (resource_management/), the accept step                 *)
(* (http/server.rs), the origin gate, the session guard with its per       *)
(* request identity check, and the rate limit (auth/middleware.rs,         *)
(* auth/identity.rs).  The guards are layers the product stacks around its *)
(* routes; the model lets the session guard and the rate limit run in      *)
(* either order.  Time is a bounded counter; the sixty seconds, the hour,  *)
(* the idle timeout and the limits are constants.                          *)
(***************************************************************************)
EXTENDS Naturals, Sequences, FiniteSets

CONSTANTS
  Native,          \* callers on the Unix socket, one per uid:pid
  Web,             \* pages on the TCP listener, one per origin
  AllowedOrigins,  \* [http.tcp].allowed_origins, which may hold "*"
  Procs,           \* what /proc can say of a process: [exe, box]
  Firsts,          \* Firsts[c]: what it says of native caller c at first
  Tokens,          \* the session tokens minted before
  Grants,          \* Grants[t]: [to, scopes, expires]
  Offers,          \* the requests callers send: <<caller, bearer token, need>>
  MaxConnections, MaxPerMinute, MaxPerHour,     \* ResourceLimits
  Minute, Hour, ConnectionTimeout,              \* 60 s, 3600 s and the idle timeout
  CleanEvery, CleanAfter,                       \* "every 10 requests or 5 minutes"
  MaxTime, MaxEvents                            \* the model's bounds

Clients == Native \cup Web
Unreadable == [exe |-> "", box |-> "host"]
NoIdentity == <<"nobody">>

(* A TCP connection is nobody's until a request names its origin.          *)
Anonymous == "unknown"
Ids == Clients \cup {Anonymous}

ASSUME GatewayAssumption ==
  /\ {Minute, Hour, ConnectionTimeout} \subseteq Nat \ {0}
  /\ {CleanEvery, CleanAfter, MaxConnections} \subseteq Nat \ {0}
  /\ {MaxPerMinute, MaxPerHour} \subseteq Nat
  /\ Minute <= ConnectionTimeout /\ Minute <= Hour
  /\ Anonymous \notin Clients /\ Native \cap Web = {}
  /\ Firsts \in [Native -> Procs]

VARIABLES
  now,       \* the clock
  table,     \* connections: client id -> [last, hist, cleaned]
  conn,      \* the callers with an open connection
  proc,      \* proc[c]: what /proc says of native caller c now
  live,      \* the tokens in the store
  req,       \* req[c]: the request caller c has in flight
  gone,      \* tokens some request was refused with for another caller's identity
  accepted,  \* accepted[i]: when requests of client id i passed the rate limit
  events     \* requests sent and binaries replaced so far

gatewayVars == <<now, table, conn, proc, live, req, gone, accepted, events>>

Idle == [at |-> "idle"]

(* ---- resource_management -------------------------------------------- *)

(* count_requests_in_window: strictly younger than the window.             *)
CountInWindow(hist, window) ==
  Cardinality({k \in DOMAIN hist: hist[k] + window > now})

(* cleanup_old_entries: the times ascend, so those it retains are the last. *)
Retained(hist, age) ==
  SubSeq(hist, Len(hist) - CountInWindow(hist, age) + 1, Len(hist))

(* add_request, with the sweep that keeps an hour of history.              *)
AddRequest(e) ==
  LET h == Append(e.hist, now)
      sweep == Len(h) % CleanEvery = 0 \/ now - e.cleaned > CleanAfter
  IN  [last    |-> now,
       hist    |-> IF sweep THEN Retained(h, Hour) ELSE h,
       cleaned |-> IF sweep THEN now ELSE e.cleaned]

(* add_request_and_check_limits: a refused request is recorded as well.    *)
WithinLimits(e) ==
  /\ CountInWindow(e.hist, Minute) <= MaxPerMinute
  /\ CountInWindow(e.hist, Hour) <= MaxPerHour

NewEntry == [last |-> now, hist |-> <<>>, cleaned |-> now]

IsTimedOut(e) == now - e.last > ConnectionTimeout

(* register_connection: a client that is known keeps its history.          *)
CanRegister(i) ==
  i \in DOMAIN table \/ Cardinality(DOMAIN table) < MaxConnections

Registered(i) ==
  IF i \in DOMAIN table THEN table
  ELSE [j \in DOMAIN table \cup {i} |-> IF j = i THEN NewEntry ELSE table[j]]

(* cleanup_task: one tick drops every entry idle past the timeout, whether *)
(* or not its connection is open.                                          *)
Cleanup ==
  /\ \E i \in DOMAIN table: IsTimedOut(table[i])
  /\ table' = [i \in {j \in DOMAIN table: ~IsTimedOut(table[j])} |-> table[i]]
  /\ UNCHANGED <<now, conn, proc, live, req, gone, accepted, events>>

(* ---- connections ----------------------------------------------------- *)

(* PeerInfo::client_id, at accept and once the origin is known.            *)
AcceptId(c) == IF c \in Native THEN c ELSE Anonymous
ClientId(c) == c

(* serve_connection: register, or write the 503 and drop the stream.  Closing  *)
(* does not unregister.                                                    *)
Connect(c) ==
  /\ c \notin conn
  /\ CanRegister(AcceptId(c))
  /\ table' = Registered(AcceptId(c))
  /\ conn' = conn \cup {c}
  /\ UNCHANGED <<now, proc, live, req, gone, accepted, events>>

Close(c) ==
  /\ c \in conn /\ req[c] = Idle
  /\ conn' = conn \ {c}
  /\ UNCHANGED <<now, table, proc, live, req, gone, accepted, events>>

(* A process executes another binary, or can no longer be read; a request  *)
(* in flight remembers, for the properties, who its caller was meanwhile.  *)
Exec(c, p) ==
  /\ p # proc[c] /\ events < MaxEvents
  /\ events' = events + 1
  /\ proc' = [proc EXCEPT ![c] = p]
  /\ req' = IF req[c] = Idle THEN req ELSE [req EXCEPT ![c].seen = @ \cup {p}]
  /\ UNCHANGED <<now, table, conn, live, gone, accepted>>

Tick ==
  /\ now < MaxTime
  /\ now' = now + 1
  /\ UNCHANGED <<table, conn, proc, live, req, gone, accepted, events>>

(* ---- one request ------------------------------------------------------ *)

(* A request arrives on an open connection with a bearer token (or none)   *)
(* for a route that needs a scope ("any" for /ping), or as a preflight.    *)
Arrive(c, t, need) ==
  /\ c \in conn /\ req[c] = Idle /\ events < MaxEvents
  /\ req' = [req EXCEPT ![c] =
       [at |-> "arrived", tok |-> t, need |-> need, passed |-> {},
        seen |-> IF c \in Native THEN {proc[c]} ELSE {}, late |-> t \in gone]]
  /\ events' = events + 1
  /\ UNCHANGED <<now, table, conn, proc, live, gone, accepted>>

Done(c) == req' = [req EXCEPT ![c] = Idle]
Pass(c, guard) == req' = [req EXCEPT ![c].passed = @ \cup {guard}]

IsOriginAllowed(o) == AllowedOrigins \cap {"*", o} # {}

(* require_allowed_origin: a Unix caller passes; a page is refused, has its *)
(* preflight answered, or is registered under its origin.                  *)
Origin(c) ==
  /\ req[c].at = "arrived"
  /\ \/ /\ c \in Native \/ (/\ IsOriginAllowed(c)
                            /\ req[c].need # "preflight"
                            /\ CanRegister(c))
        /\ table' = IF c \in Web THEN Registered(c) ELSE table
        /\ req' = [req EXCEPT ![c].at = "guards"]
     \/ /\ c \in Web
        /\ ~IsOriginAllowed(c) \/ req[c].need = "preflight" \/ ~CanRegister(c)
        /\ Done(c)
        /\ UNCHANGED table
  /\ UNCHANGED <<now, conn, proc, live, gone, accepted, events>>

(* TokenStore::validate: an expired token is removed.                      *)
Validate(c) ==
  LET t == req[c].tok IN
  /\ req[c].at = "guards" /\ "valid" \notin req[c].passed
  /\ IF t \in live /\ Grants[t].expires >= now
     THEN Pass(c, "valid") /\ UNCHANGED live
     ELSE Done(c) /\ live' = live \ {t}
  /\ UNCHANGED <<now, table, conn, proc, gone, accepted, events>>

IdentityOf_PathOnly(c, p) ==  \* a sandboxed caller is named by its path alone
  IF c \in Web THEN <<"web", c>>
  ELSE IF p.exe = "" \/ p.box = "nameless" THEN NoIdentity
  ELSE <<"native", p.exe, "host">>

(* resolve_peer_identity: the origin of a page; the binary of a process    *)
(* together with the sandbox it names, and nobody when either is unknown.  *)
IdentityOf(c, p) ==
  IF c \in Web THEN <<"web", c>>
  ELSE IF p.exe = "" \/ p.box = "nameless" THEN NoIdentity
  ELSE <<"native", p.exe, p.box>>
ResolvePeerIdentity(c) == IdentityOf(c, IF c \in Native THEN proc[c] ELSE Unreadable)

(* verify_peer_binding, then the scope: an unreadable caller is refused,   *)
(* another one than the grantee also ends the session.                     *)
Bind(c) ==
  LET t == req[c].tok
      id == ResolvePeerIdentity(c)
      other == id # NoIdentity /\ id # Grants[t].to
  IN  /\ req[c].at = "guards" /\ "valid" \in req[c].passed
      /\ "bound" \notin req[c].passed
      /\ IF id # NoIdentity /\ id = Grants[t].to /\ req[c].need \in Grants[t].scopes \cup {"any"}
         THEN Pass(c, "bound")
         ELSE Done(c)
      /\ live' = IF other THEN live \ {t} ELSE live
      /\ gone' = IF other THEN gone \cup {t} ELSE gone
      /\ UNCHANGED <<now, table, conn, proc, accepted, events>>

(* require_rate_limit: an id that is not in the table is refused as well.  *)
Quota(c) ==
  LET i == ClientId(c) IN
  /\ req[c].at = "guards" /\ "quota" \notin req[c].passed
  /\ \/ /\ i \notin DOMAIN table
        /\ Done(c) /\ UNCHANGED <<table, accepted>>
     \/ /\ i \in DOMAIN table
        /\ table' = [table EXCEPT ![i] = AddRequest(@)]
        /\ IF WithinLimits(table'[i])
           THEN /\ Pass(c, "quota")
                /\ accepted' = [accepted EXCEPT ![i] = Append(@, now)]
           ELSE Done(c) /\ UNCHANGED accepted
  /\ UNCHANGED <<now, conn, proc, live, gone, events>>

(* Both guards passed: the handler runs and answers.                       *)
Serve(c) ==
  /\ req[c].at = "guards" /\ req[c].passed = {"valid", "bound", "quota"}
  /\ Done(c)
  /\ UNCHANGED <<now, table, conn, proc, live, gone, accepted, events>>

GatewayInit ==
  /\ now = 0 /\ table = <<>> /\ conn = {} /\ events = 0
  /\ proc = Firsts
  /\ live = Tokens /\ gone = {}
  /\ req = [c \in Clients |-> Idle]
  /\ accepted = [i \in Ids |-> <<>>]

GatewayNext ==
  \/ Cleanup
  \/ Tick
  \/ \E c \in Clients:
       \/ Connect(c)
       \/ Close(c)
       \/ Origin(c)
       \/ Validate(c)
       \/ Bind(c)
       \/ Quota(c)
       \/ Serve(c)
  \/ \E o \in Offers: Arrive(o[1], o[2], o[3])
  \/ \E c \in Native, p \in Procs: Exec(c, p)

GatewaySpec == GatewayInit /\ [][GatewayNext]_gatewayVars

-----------------------------------------------------------------------------
(* However a client reconnects, goes idle and is forgotten, no more than   *)
(* max_requests_per_minute of its requests pass the limiter in any minute  *)
(* (manager.rs:60-70: a new connection does not reset the window).         *)
QuotaPerMinute ==
  \A i \in Ids: CountInWindow(accepted[i], Minute) <= MaxPerMinute

(* A token that was once presented by another binary or page than the one  *)
(* the user allowed is over: no request that arrives after that refusal is *)
(* served with it, whoever sends it (middleware.rs:320-322).               *)
StolenIsOver ==
  [][\A c \in Clients: Serve(c) => ~req[c].late]_gatewayVars

(* A request is served only to the grantee of its token: the caller was    *)
(* that binary (or page) at some moment while the request was in flight,   *)
(* its origin was allowed and the grant covers the route.                  *)
ServedAsGranted ==
  [][\A c \in Clients: Serve(c) =>
       LET g == Grants[req[c].tok] IN
       /\ \/ c \in Web /\ IsOriginAllowed(c) /\ g.to = <<"web", c>>
          \/ \E p \in req[c].seen: g.to = <<"native", p.exe, p.box>>
       /\ req[c].need \in g.scopes \cup {"any"}]_gatewayVars

=============================================================================
