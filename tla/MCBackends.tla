----------------------------- MODULE MCBackends -----------------------------
(***************************************************************************)
(* The kinds of backend for TLC: a subprocess under systemd or under       *)
(* sandbox-exec, what either is started with, and a WASM component with    *)
(* its requests or with one realtime session.  They share no state; `what` *)
(* says which one a behaviour exercises.                                   *)
(***************************************************************************)
EXTENDS BackendLifecycle, Wasm, Realtime, Sandboxed, LaunchPlan, Settings, Beeper

CONSTANTS c1, c2, p1, p2

Addr(fam, net, form) == [fam |-> fam, net |-> net, form |-> form]
Host(name, kind, addrs) == [name |-> name, kind |-> kind, addrs |-> addrs]

Vendor == Host("api.vendor.com", "name", {Addr(4, "public", "bare"), Addr(6, "public", "nat64")})
Here == Host("localhost", "localhost", {Addr(4, "loopback", "bare"), Addr(6, "loopback", "bare")})
Lan == Host("192.168.0.9", "literal", {Addr(4, "private", "bare")})
LanNat64 == Host("[64:ff9b::c0a8:9]", "literal", {Addr(6, "private", "nat64")})
Metadata == Host("[::ffff:169.254.169.254]", "literal", {Addr(6, "linklocal", "mapped")})
Gone == Host("gone.example", "name", {})

\* What the user may save.  No scheme is one thing for a name and another for a literal.
TheSettings == {Value("none", Lan, 0, TRUE), Value("none", Vendor, 0, FALSE),
                Value("ws", Here, 8080, TRUE), Value("https", LanNat64, 0, FALSE),
                Value("http", Metadata, 0, FALSE), Value("https", NoHost, 8080, FALSE), Blank}

TheAllowedHosts == {<<Vendor, 0>>, <<Here, 0>>, <<LanNat64, 443>>, <<Metadata, 80>>, <<Gone, 0>>}
TheTargets == {<<Vendor, 8443>>, <<Lan, 22>>, <<Here, 22>>, <<LanNat64, 443>>, <<Metadata, 80>>}

Wasi == {<<"wasi:http", "any">>, <<"wasi:cli", "any">>}
TheComponents == {
    [websocket |-> FALSE, imports |-> Wasi, exports |-> {}],
    [websocket |-> FALSE, imports |-> Wasi \union {<<"wasi:sockets", "any">>}, exports |-> {}],
    [websocket |-> TRUE, imports |-> Wasi, exports |-> {}],
    [websocket |-> TRUE, imports |-> Wasi \union {<<"old", "ws">>}, exports |-> {<<"old", "ws-server">>}]}
ThePackages == <<"super-engine:realtime", "old">>

TheUrls == {Value("wss", Vendor, 0, FALSE), Value("ws", Lan, 0, FALSE), Value("https", Vendor, 0, FALSE)}

Letters == {"a", "b", "p", "t"}
Digits == {"0", "1", "2"}

\* Backends whose names differ only in where the dashes are, a name that ends in an owner,
\* a name too long for its socket, and directories with a quote, or with no room at all.
TheLaunches ==
    [dir : {<<"a">>, <<"a", ".", "b">>}, model : {<<"b", "-", "1">>, <<"-", "p", "1", "-", "t", "2">>, <<"1">>},
     gpu : BOOLEAN, socketDir : {<<"r">>, <<"r", "\"", "a">>, <<"r", "/", "r", "/", "r", "/", "r">>},
     cacheRoot : {<<"c", "\\">>}]
TheOwners == {<<<<"1">>, <<"2">>>>, <<<<"1", "2">>, <<"0">>>>}
TheRenderNodes == {{}, {"renderD128", "renderD129"}}

TheHosts == {{}, {"cuda"}, {"rocm", "vulkan"}, {"metal"}}
TheInstalls == {<<>>, <<"cpu">>, <<"cuda", "rocm">>, <<"cpu", "metal">>, <<"wasm">>}
TheDeclared == {{"cpu"}, {"gpu"}, {"cpu", "gpu"}, {"none"}}

\* A file of this release, one with nothing in it, one with a section missing, a stale device.
TheFiles ==
    {[kind |-> k] : k \in {"missing", "unreadable", "garbled"}} \union
    {[kind |-> "ron", fields |-> f] : f \in
        {[tcp |-> FALSE, origins |-> "none", device |-> "gpu"], [device |-> "gpu"],
         [tcp |-> FALSE, origins |-> "some", device |-> "stale"]}}

\* Tagalog by either name, Chinese by script, and a language with two regions.
TheLanguages ==
    [multilingual : BOOLEAN,
     override : {<<>>, <<"auto">>, <<"fil">>, <<"es", "MX">>},
     global : {<<"auto">>, <<"tl", "PH">>, <<"es", "419">>, <<"zh", "Hans">>},
     supported : {{<<"tl">>}, {<<"fil", "PH">>, <<"tl">>}, {<<"es">>, <<"es", "419">>}, {<<"yue">>, <<"zh", "Hant">>}}]
TheEquivalent == {<<"fil", "tl">>, <<"he", "iw">>}

\* No tone, one, and two that end within a buffer and at the end of one.
TheCues == {[tones |-> 0, per |-> 3], [tones |-> 1, per |-> 5], [tones |-> 2, per |-> 3]}

NoSpeech == CHOOSE q \in TheLanguages : ~q.multilingual
NoFile == [kind |-> "missing"]

VARIABLE what
backendVars == <<vars, wasmVars, realtimeVars, procVars, launchVars, settingsVars, beeperVars, what>>

Is(kind, variables) == IF what = kind THEN TRUE ELSE UNCHANGED variables

\* Only the variables of what is exercised move; the rest stay at one initial value.
BackendsInit ==
    /\ what \in {"process", "component", "session", "sandboxed", "launch", "settings", "cue"}
    /\ Init /\ WasmInit /\ RealtimeInit /\ SandboxedInit
    /\ IF what = "launch" THEN LaunchInit
       ELSE launches = <<>> /\ owner = <<>> /\ dri = {} /\ started = <<>>
    /\ IF what = "settings"
       THEN /\ SettingsInit
            /\ \/ speech = NoSpeech /\ file = NoFile
               \/ <<host, installed, declared>> = <<{}, <<>>, {"none"}>>
       ELSE /\ host = {} /\ installed = <<>> /\ declared = {} /\ preferred = "cpu" /\ actual = "cpu"
            /\ config = <<>> /\ file = <<>> /\ starts = 0 /\ speech = NoSpeech
    /\ IF what = "cue" THEN BeeperInit
       ELSE /\ cue = "over" /\ sound = <<>> /\ lat = 0 /\ timed = FALSE /\ now = 0 /\ due = Never
            /\ clock = 0 /\ before = Never /\ finished = FALSE /\ toneEnd = Never /\ until = 0
            /\ player = "idle" /\ wake = 0 /\ played = Never /\ cut = Never

BackendsNext ==
    /\ UNCHANGED what
    /\ Is("process", vars) /\ Is("component", wasmVars) /\ Is("session", realtimeVars)
    /\ Is("sandboxed", procVars) /\ Is("launch", launchVars)
    /\ Is("settings", settingsVars) /\ Is("cue", beeperVars)
    /\ \/ what = "process" /\ Next
       \/ what = "component" /\ WasmNext
       \/ what = "session" /\ RealtimeNext
       \/ what = "sandboxed" /\ SandboxedNext
       \/ what = "launch" /\ LaunchNext
       \/ what = "settings" /\ SettingsNext
       \/ what = "cue" /\ BeeperNext

OfComponent(A) == what = "component" /\ A /\ UNCHANGED <<vars, realtimeVars, procVars, launchVars, settingsVars, beeperVars, what>>
OfSession(A) == what = "session" /\ A /\ UNCHANGED <<vars, wasmVars, procVars, launchVars, settingsVars, beeperVars, what>>
OfCue(A) == what = "cue" /\ A /\ UNCHANGED <<vars, wasmVars, realtimeVars, procVars, launchVars, settingsVars, what>>
\* A guest's code runs to its end (it writes its body, then returns), and what the host
\* can answer it answers; nobody has to send, to dial or to hang up.
BackendsFairness ==
    /\ \A c \in Calls : /\ WF_backendVars(OfComponent(PublishHead(c) \/ WriteChunk(c)))
                        /\ WF_backendVars(OfComponent(GuestReturns(c)))
                        /\ WF_backendVars(OfComponent(Reads(c)))
                        /\ WF_backendVars(OfComponent(Joined(c)))
    /\ WF_backendVars(OfSession(HostAnswers))
    /\ WF_backendVars(OfCue(BeeperNext))

BackendsSpec == BackendsInit /\ [][BackendsNext]_backendVars /\ BackendsFairness

-----------------------------------------------------------------------------
(* A component, run as a call or as a session, reaches only what its manifest and *)
(* its settings allow it, and is only told addresses it may connect to            *)
(* (wasm/mod.rs, wasm/realtime.rs).                                               *)
Contained == StaysInside /\ ToldIsAllowed

(* A backend's process, a unit or a sandboxed one, is never out of the daemon's    *)
(* reach while it runs, its next run included; it finds its socket's path free,   *)
(* and no stranger that was given its pid is signalled (systemd.rs,               *)
(* sandbox_exec.rs).                                                              *)
ProcessesInHand == EveryBackendOwned /\ NeverOutOfReach /\ RoomToBind /\ SparesStrangers

(* What the daemon decides about a start is what the backend gets: a sandbox and  *)
(* a socket that fit the machine, an owner the next daemon reads back, the        *)
(* settings of the file, an accelerator and a language the backend offers and the *)
(* user asked for (subprocess/mod.rs, config.rs, devices.rs, language.rs).        *)
StartsAsDecided ==
    /\ SandboxFits /\ SocketFits /\ OwnerReadBack
    /\ LoadsAsWritten /\ OfferedIsHonoured /\ AskedLanguage

(* A cue is heard to its last sample, and nothing of it sounds once it is over    *)
(* (audio/beeper.rs).                                                             *)
CueIsHeard == HeardWhole /\ SilentAfterPlayed
=============================================================================
