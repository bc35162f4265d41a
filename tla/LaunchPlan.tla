----------------------------- MODULE LaunchPlan -----------------------------
(***************************************************************************)
(* What a backend instance is started with (subprocess/mod.rs, systemd.rs, *)
(* sandbox_exec.rs): the name it goes by, the unit that name is part of,   *)
(* the environment it is handed and the sandbox it is put in.  A name or a *)
(* path is the sequence of its characters, for the properties are about    *)
(* what is cut, replaced, escaped and read back.                           *)
(***************************************************************************)
EXTENDS Integers, SequencesExt

CONSTANTS
    Digit, Letter,      \* the characters a sanitized name keeps
    Launches,           \* [dir, model, gpu, socketDir, cacheRoot]: what may be started
    Owners,             \* the daemons: <<the digits of a pid, of a start time>>
    RenderNodes,        \* what /dev/dri may hold: a set of sets of nodes
    SUN_PATH_MAX, DIGEST_LEN, MAX_INSTANCE_KEY

ASSUME LaunchAssumption ==
    /\ Digit \subseteq STRING /\ Letter \subseteq STRING
    /\ {"-", "p", "t"} \intersect Digit = {}
    /\ Launches \subseteq [dir : Seq(STRING), model : Seq(STRING), gpu : BOOLEAN,
                           socketDir : Seq(STRING), cacheRoot : Seq(STRING)]
    /\ Owners \subseteq (Seq(Digit) \ {<<>>}) \X (Seq(Digit) \ {<<>>})
    /\ {SUN_PATH_MAX, DIGEST_LEN, MAX_INSTANCE_KEY} \subseteq Nat
    /\ MAX_INSTANCE_KEY >= DIGEST_LEN + 2

VARIABLES
    launches,       \* the two instances a daemon is asked to start, one after the other
    owner,          \* the daemon that starts them
    dri,            \* the render nodes of the machine
    started         \* what each start made of its launch
launchVars == <<launches, owner, dri, started>>

Sanitize(s) == [i \in DOMAIN s |-> IF s[i] \in Digit \union Letter THEN s[i] ELSE "-"]

---------------------------------------------------------------------------
(* Names.                                                                  *)

MIN_INSTANCE_KEY == DIGEST_LEN + 2
SockSuffix == <<".", "s", "o", "c", "k">>

\* 0: the directory is too deep, and the start is refused.
MaxInstanceKey(socketDir) ==
    LET budget == SUN_PATH_MAX - (Len(socketDir) + 1 + Len(SockSuffix) + 1) IN
    IF budget < MIN_INSTANCE_KEY THEN 0
    ELSE IF budget < MAX_INSTANCE_KEY THEN budget ELSE MAX_INSTANCE_KEY

\* A key cut short ends in a hash of the whole: `of` is what was hashed.
InstanceKey(dir, model, max) ==
    LET key == Sanitize(dir) \o <<"-">> \o Sanitize(model) IN
    IF Len(key) <= max THEN [text |-> key, of |-> <<>>]
    ELSE [text |-> SubSeq(key, 1, max - DIGEST_LEN - 1) \o <<"-">> \o [i \in 1..DIGEST_LEN |-> "0"],
          of |-> key]

\* <slug>-backend-<instance>-p<pid>-t<start>; the prefix plays no part in reading it.
UnitName(key, o) == key \o <<"-", "p">> \o o[1] \o <<"-", "t">> \o o[2]
\* A unit of a release that had no start time in the name.
OldUnitName(key, o) == key \o <<"-">> \o o[1]

Marks(s, letter) == {i \in 1..(Len(s) - 1) : s[i] = "-" /\ s[i + 1] = letter}
IsNumber(s) == s # <<>> /\ \A i \in DOMAIN s : s[i] \in Digit

UnitOwner_BareNumbers(unit) ==  \* the last two numbers, whatever stands before them
    LET dashes == {i \in DOMAIN unit : unit[i] = "-"}
        t == Max(dashes)
        rest == SubSeq(unit, 1, t - 1)
        ps == {i \in DOMAIN rest : rest[i] = "-"}
        Bare(s) == IF s # <<>> /\ s[1] \in {"p", "t"} THEN Tail(s) ELSE s IN
    IF ps = {} THEN <<>>
    ELSE LET pid == Bare(SubSeq(rest, Max(ps) + 1, Len(rest)))
             start == Bare(SubSeq(unit, t + 1, Len(unit))) IN
         IF IsNumber(pid) /\ IsNumber(start) THEN <<pid, start>> ELSE <<>>

\* rsplit_once("-t"), then rsplit_once("-p"): <<>> when the name ends in no owner.
UnitOwner(unit) ==
    LET ts == Marks(unit, "t") IN
    IF ts = {} THEN <<>>
    ELSE LET t == Max(ts)
             rest == SubSeq(unit, 1, t - 1)
             ps == Marks(rest, "p") IN
         IF ps = {} THEN <<>>
         ELSE LET pid == SubSeq(rest, Max(ps) + 2, Len(rest))
                  start == SubSeq(unit, t + 2, Len(unit)) IN
              IF IsNumber(pid) /\ IsNumber(start) THEN <<pid, start>> ELSE <<>>

---------------------------------------------------------------------------
(* Environment and sandbox.                                                *)

Join(dir, name) == dir \o <<"/">> \o name
SocketOf(l, key) == Join(l.socketDir, key.text \o SockSuffix)
BackendCacheDir(l) == Join(l.cacheRoot, Sanitize(l.dir))

\* The paths a backend is told to write to; macOS adds TMPDIR, Linux has a private /tmp.
BackendEnv(l, key) ==
    [socket |-> SocketOf(l, key), cache |-> BackendCacheDir(l),
     cuda |-> Join(BackendCacheDir(l), <<"n", "v">>),
     tmp |-> Join(l.socketDir, key.text \o <<".", "t", "m", "p">>)]

Escaped(c) == IF c \in {"\\", "\""} THEN <<"\\", c>> ELSE <<c>>
SbplEscape(path) == FlattenSeq([i \in DOMAIN path |-> Escaped(path[i])])

\* What the profile's reader makes of a quoted literal: up to the quote that ends it.
LiteralRead(text) ==
    LET read[i \in 1..(Len(text) + 2)] ==
            IF i > Len(text) \/ text[IF i > Len(text) THEN 1 ELSE i] = "\"" THEN <<>>
            ELSE IF text[i] = "\\" /\ i < Len(text) THEN <<text[i + 1]>> \o read[i + 2]
            ELSE <<text[i]>> \o read[i + 1]
    IN read[1]

FallbackRenderNode == "renderD128"
GpuDeviceNodes(found) ==
    {"nvidia", "kfd"} \union (IF found = {} THEN {FallbackRenderNode} ELSE found)

HardeningParams(l) ==
    [writable |-> {l.socketDir, BackendCacheDir(l)},
     privateDevices |-> ~l.gpu,
     allowed |-> IF l.gpu THEN GpuDeviceNodes(dri) ELSE {}]

Profile(l) == {LiteralRead(SbplEscape(l.socketDir)), LiteralRead(SbplEscape(BackendCacheDir(l)))}

---------------------------------------------------------------------------
LaunchInit ==
    /\ launches \in Launches \X Launches
    /\ owner \in Owners
    /\ dri \in RenderNodes
    /\ started = <<>>

\* A start names the instance, and hands the name, the environment and the sandbox to the
\* platform; or is refused for a socket directory too deep.
StartWith(l) ==
    LET max == MaxInstanceKey(l.socketDir)
        key == InstanceKey(l.dir, l.model, max) IN
    IF max = 0 THEN [refused |-> TRUE]
    ELSE [refused |-> FALSE, key |-> key, unit |-> UnitName(key.text, owner),
          env |-> BackendEnv(l, key), linux |-> HardeningParams(l), macos |-> Profile(l)]

StartOne ==
    /\ Len(started) < Len(launches)
    /\ started' = Append(started, StartWith(launches[Len(started) + 1]))
    /\ UNCHANGED <<launches, owner, dri>>

LaunchNext == StartOne

---------------------------------------------------------------------------
Accepted == {i \in DOMAIN started : ~started[i].refused}
Within(path, dir) == IsPrefix(Append(dir, "/"), path) \/ path = dir

\* The sweep of a later daemon reads back from a unit's name exactly the daemon that spawned
\* it, whatever the instance's own name ends in, and reads no owner out of a name of the
\* releases before the start time was part of it: it never stops a living daemon's backend.
OwnerReadBack ==
    \A i \in Accepted :
        LET key == started[i].key.text IN
        /\ UnitOwner(started[i].unit) = owner
        /\ UnitOwner(OldUnitName(key, owner)) = <<>>

\* The nodes of this machine a unit may open.  The allowlist is enforced by the system manager
\* and only recorded by a user's; the private /dev holds under either.
GpuNodes == {"nvidia", "kfd"} \union dri
MayOpen(sandbox, enforced) ==
    {n \in GpuNodes : ~sandbox.privateDevices /\ (enforced => n \in sandbox.allowed)}

\* Whatever path the environment tells a backend to write to, the sandbox of the platform lets
\* it write to; and a model that declares a GPU may open every GPU node of the machine, one that
\* declares none may open none, whether or not the manager enforces the allowlist.
SandboxFits ==
    \A i \in Accepted :
        LET s == started[i]
            told == {s.env.socket, s.env.cache, s.env.cuda} IN
        /\ \A p \in told : \E d \in s.linux.writable : Within(p, d)
        /\ \A p \in told \union {s.env.tmp} : \E d \in s.macos : Within(p, d)
        /\ \A enforced \in BOOLEAN :
              MayOpen(s.linux, enforced) = IF launches[i].gpu THEN GpuNodes ELSE {}

\* Every socket the daemon makes the backend bind fits sun_path with its terminator, and no
\* name is cut to nothing but its hash (max_instance_key, instance_key).
SocketFits ==
    \A i \in Accepted :
        /\ Len(started[i].env.socket) + 1 <= SUN_PATH_MAX
        /\ LET key == started[i].key IN
           key.of # <<>> => Len(key.text) >= MIN_INSTANCE_KEY /\ key.text[1] = key.of[1]
=============================================================================
