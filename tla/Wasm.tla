-------------------------------- MODULE Wasm --------------------------------
(***************************************************************************)
(* wasm/mod.rs: a backend that runs as a component inside the daemon: what *)
(* is linked when it is loaded, how a change of the user's base_url reaches *)
(* it, and the requests it serves.  A request reads the headers first      *)
(* (they carry the endpoint to dial) and the egress lists when its store   *)
(* is made; reconfigure writes the same two under two locks.  The guest    *)
(* and the reader of its response run side by side over a bounded body.    *)
(*                                                                         *)
(* The guest is not trusted: it dials what it was told or any target.      *)
(* Op_Fault is Op with a plausible bug.                                    *)
(***************************************************************************)
EXTENDS Egress, Sequences

CONSTANTS Calls,         \* requests in flight
          Components,    \* [websocket, imports, exports] that may be loaded
          Packages,      \* the realtime packages, this daemon's own first
          Settings,      \* values of base_url the user may save
          AllowedHosts,  \* the manifest's list: <<host, port>>, port 0 for a bare host
          Targets,       \* <<host, port>> the guest may dial by itself
          PIPE,          \* chunks of a body the reader may lag behind
          MaxSaves,      \* bound: settings saved
          MaxChunks      \* bound: chunks of one body

\* Port 0 is a bare host's, so nobody dials it; the realtime packages are none of WASI's.
ASSUME WasmAssumption ==
    /\ Settings \subseteq AnyValue /\ Targets \subseteq AnyHost \X (Nat \ {0})
    /\ \A i \in DOMAIN Packages : Packages[i] \notin {"wasi:sockets", "wasi:filesystem"}
    /\ Packages \in Seq(STRING) /\ MaxChunks \in Nat

VARIABLES loaded,   \* the component that is linked, or NoComponent
          headers,  \* request_headers: the canonical base_url
          hosts,    \* user_allowed_hosts
          swap,     \* reconfigure's second write, still to be made
          past,     \* history: the values the component was configured with
          calls,    \* the requests
          reached   \* history: what connected, under which configuration

wasmVars == <<loaded, headers, hosts, swap, past, calls, reached>>

NoComponent == [websocket |-> FALSE, imports |-> {}, exports |-> {}]
NoSwap == {<<NoHost, 0>>}
Idle == [phase |-> "idle", told |-> NoValue, toldAt |-> 0, hooks |-> {}, at |-> 0,
         guest |-> "none", reader |-> "none", body |-> "none", pipe |-> 0, left |-> 0,
         refused |-> FALSE]

WasmInit ==
    /\ loaded = NoComponent /\ headers = NoValue /\ hosts = {} /\ swap = NoSwap /\ past = <<NoValue>>
    /\ calls = [c \in Calls |-> Idle] /\ reached = {}

\* ------------------------------------------------------------------ load ---

WasiPackages == {"wasi:cli", "wasi:http", "wasi:io", "wasi:clocks", "wasi:random"}

\* The first package the component's realtime interfaces are under, or "none".
RealtimePackage(component) ==
    LET under == {i \in DOMAIN Packages :
                    {<<Packages[i], "ws">>, <<Packages[i], "ws-server">>}
                        \intersect (component.imports \union component.exports) # {}}
    IN  IF under = {} THEN "none" ELSE Packages[CHOOSE i \in under : \A j \in under : i <= j]

VerifyImports(component, package) ==
    \A i \in component.imports : i[1] \in WasiPackages \union {package}

\* Every function of `ws` is there, under the name the component was built against.
WsInterface(package) == <<package, "ws">>

\* The whole wasi command world is linked, sockets and files included.
Linked(package) ==
    {<<w, "any">> : w \in WasiPackages \union {"wasi:sockets", "wasi:filesystem"}}
        \union {WsInterface(package)}

LoadComponent(component) ==
    LET package == IF component.websocket THEN RealtimePackage(component) ELSE "none"
    IN  /\ loaded = NoComponent
        /\ component.websocket => package # "none"
        /\ VerifyImports(component, package)
        /\ component.imports \subseteq Linked(package)
        /\ loaded' = component
        /\ UNCHANGED <<headers, hosts, swap, past, calls, reached>>

\* ----------------------------------------------------------- reconfigure ---

\* A value no host can be read from fails, and nothing is swapped.
ReconfigureHeaders(v) ==
    LET canonical == CanonicalizeOverride(TRUE, v)
    IN  /\ loaded # NoComponent /\ swap = NoSwap /\ Len(past) <= MaxSaves
        /\ canonical.ok
        /\ headers' = canonical.value
        /\ swap' = EgressHosts(TRUE, canonical.value)
        /\ past' = Append(past, canonical.value)
        /\ UNCHANGED <<loaded, hosts, calls, reached>>

ReconfigureHosts ==
    /\ swap # NoSwap
    /\ hosts' = swap /\ swap' = NoSwap
    /\ UNCHANGED <<loaded, headers, past, calls, reached>>

\* -------------------------------------------------------------- requests ---

SetCall(c, record) == calls' = [calls EXCEPT ![c] = record]
KeepConfig == UNCHANGED <<loaded, headers, hosts, swap, past>>

\* The configuration hosts belongs to.
HostsAt == IF swap = NoSwap THEN Len(past) ELSE Len(past) - 1

RequestHeaders(c) ==
    /\ loaded # NoComponent /\ calls[c].phase = "idle"
    /\ SetCall(c, [calls[c] EXCEPT !.phase = "told", !.told = headers, !.toldAt = Len(past)])
    /\ KeepConfig /\ UNCHANGED reached

\* The store with its hooks is made, and guest and reader start.
Invoke(c) ==
    /\ calls[c].phase = "told"
    /\ SetCall(c, [calls[c] EXCEPT !.phase = "running", !.hooks = hosts, !.at = HostsAt,
                                   !.guest = "running", !.reader = "waiting", !.left = MaxChunks])
    /\ KeepConfig /\ UNCHANGED reached

Running(c) == calls[c].phase = "running" /\ calls[c].guest = "running"

\* What the guest was told to dial, if anything.
Told(c) == IF calls[c].told = NoValue THEN {} ELSE {Authority(calls[c].told)}

\* send_request and ws.connect: the check, then the connection.  A list that is the
\* other configuration's, or an address nothing authorises, excuses a refusal.
SendRequest(c, target) ==
    LET allowed == CheckHostAllowed(AllowedHosts, calls[c].hooks, target[1], target[2], FALSE)
        excused == calls[c].toldAt # calls[c].at \/ target[1].addrs = {}
                   \/ \E a \in target[1].addrs : NeverRoutable(a)
    IN  /\ Running(c) /\ target \in Told(c) \union Targets
        /\ reached' = IF allowed THEN reached \union {<<target, calls[c].at>>} ELSE reached
        /\ SetCall(c, [calls[c] EXCEPT
                !.refused = @ \/ (~allowed /\ ~excused /\ target \in Told(c))])
        /\ KeepConfig

PublishHead(c) ==
    /\ Running(c) /\ calls[c].body = "none"
    /\ SetCall(c, [calls[c] EXCEPT !.body = "open"])
    /\ KeepConfig /\ UNCHANGED reached

\* A reader that gave up has dropped the body: the chunk goes nowhere.
WriteChunk(c) ==
    /\ Running(c) /\ calls[c].body = "open" /\ calls[c].left > 0
    /\ calls[c].pipe < PIPE \/ calls[c].reader = "err"
    /\ SetCall(c, [calls[c] EXCEPT !.left = @ - 1,
                                   !.pipe = IF calls[c].reader = "err" THEN @ ELSE @ + 1])
    /\ KeepConfig /\ UNCHANGED reached

\* The guest ends the body and returns, or ends before it is whole.
GuestReturns(c) ==
    /\ Running(c) /\ (calls[c].body = "open" => calls[c].left = 0)
    /\ SetCall(c, [calls[c] EXCEPT !.guest = "returned",
                                   !.body = IF @ = "open" THEN "ended" ELSE @])
    /\ KeepConfig /\ UNCHANGED reached
GuestTraps(c) ==
    /\ Running(c)
    /\ SetCall(c, [calls[c] EXCEPT !.guest = "trapped", !.body = IF @ = "open" THEN "cut" ELSE @])
    /\ KeepConfig /\ UNCHANGED reached

\* The reader's next step, of which it has one at most: the head, a chunk, the end.
Read_AfterGuest(c) ==  \* the guest is awaited to completion first
    [calls[c] EXCEPT
        !.reader = CASE calls[c].guest = "running" -> @
                     [] calls[c].body = "ended" -> "ok" [] OTHER -> "err"]
Read(c) ==
    LET call == calls[c]
    IN  CASE call.reader = "waiting" /\ call.body # "none" -> [call EXCEPT !.reader = "reading"]
          [] call.reader = "waiting" /\ call.guest # "running" -> [call EXCEPT !.reader = "err"]
          [] call.reader = "reading" /\ call.pipe > 0 -> [call EXCEPT !.pipe = @ - 1]
          [] call.reader = "reading" /\ call.pipe = 0 /\ call.body = "ended" ->
                [call EXCEPT !.reader = "ok"]
          [] call.reader = "reading" /\ call.pipe = 0 /\ call.body = "cut" ->
                [call EXCEPT !.reader = "err"]
          [] OTHER -> call
Reads(c) ==
    /\ calls[c].phase = "running" /\ Read(c) # calls[c] /\ SetCall(c, Read(c))
    /\ KeepConfig /\ UNCHANGED reached

\* What the caller makes of the response may fail.
ReaderFails(c) ==
    /\ calls[c].phase = "running" /\ calls[c].reader = "reading"
    /\ SetCall(c, [calls[c] EXCEPT !.reader = "err", !.pipe = 0])
    /\ KeepConfig /\ UNCHANGED reached

Joined(c) ==
    /\ calls[c].phase = "running" /\ calls[c].guest \in {"returned", "trapped"}
    /\ calls[c].reader \in {"ok", "err"}
    /\ SetCall(c, [calls[c] EXCEPT !.phase =
            IF calls[c].reader = "err" THEN "read error"
            ELSE IF calls[c].guest = "trapped" THEN "guest error" ELSE "ok"])
    /\ KeepConfig /\ UNCHANGED reached

CallStep(c) ==
    \/ RequestHeaders(c) \/ Invoke(c) \/ PublishHead(c) \/ WriteChunk(c)
    \/ GuestReturns(c) \/ GuestTraps(c) \/ Reads(c) \/ ReaderFails(c) \/ Joined(c)
    \/ \E target \in Targets \union Told(c) : SendRequest(c, target)

WasmNext ==
    \/ \E component \in Components : LoadComponent(component)
    \/ \E v \in Settings : ReconfigureHeaders(v)
    \/ ReconfigureHosts
    \/ \E c \in Calls : CallStep(c)

\* ------------------------------------------------------------ properties ---

\* A connection goes to an address that routes, and to a local one only where the user's
\* value then in force named that very host and port: whatever way an address is written,
\* whatever else the manifest or the bare host of the user's endpoint allows, and although
\* the lists change while calls run.  And a component has no other way out: the linker
\* holds sockets and files, and one that loaded imports neither.
StaysInside ==
  /\ \A i \in loaded.imports : i[1] \notin {"wasi:sockets", "wasi:filesystem"}
  /\ \A r \in reached : \A a \in r[1][1].addrs :
        /\ a.net \notin {"linklocal", "unspecified", "broadcast"}
        /\ a.net \in {"loopback", "private"} =>
              past[r[2]] # NoValue /\ r[1] = Authority(past[r[2]])

\* The endpoint a guest is told to dial is the one its lists let it dial, unless the two
\* came from two configurations: the port and the scheme that the canonical value implies
\* are those of the entry that was authorised.
ToldIsAllowed == \A c \in Calls : ~calls[c].refused

\* Every request ends, although the body is bounded and the guest writes it before it
\* returns: the reader drains it meanwhile, or has dropped it.
EveryCallEnds ==
    \A c \in Calls : (calls[c].phase = "running") ~> (calls[c].phase \in {"ok", "read error", "guest error"})

=============================================================================
