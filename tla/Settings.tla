------------------------------ MODULE Settings ------------------------------
(***************************************************************************)
(* What a daemon settles before a model runs: the settings file read at    *)
(* startup (config.rs), the device a model is offered, set to and loaded   *)
(* on (devices.rs), and the language it is asked for (language.rs).  A     *)
(* language tag is the sequence of its subtags.                            *)
(***************************************************************************)
EXTENDS Naturals, FiniteSets, SequencesExt

CONSTANTS
    Hosts,          \* the accelerators a machine may have: a set of sets
    Installs,       \* the accelerators an installed build may declare, in its order
    Declared,       \* the devices a model may declare: a set of sets
    Files,          \* settings files a daemon may find
    Languages,      \* [multilingual, override, global, supported]
    EquivalentBases \* pairs of subtags that are one language

Defaults == [tcp |-> TRUE, origins |-> "all", device |-> "cpu"]
Accelerators == {"cuda", "metal", "rocm", "vulkan"}
Tags == Seq(STRING) \ {<<>>}

ASSUME SettingsAssumption ==
    /\ Hosts \subseteq SUBSET Accelerators
    /\ Installs \subseteq Seq(Accelerators \union {"cpu", "wasm"})
    /\ Declared \subseteq SUBSET {"cpu", "gpu", "none"}
    /\ \A f \in Files : f.kind = "ron" => DOMAIN f.fields \subseteq DOMAIN Defaults
    /\ \A q \in Languages : /\ q.multilingual \in BOOLEAN /\ q.supported \subseteq Tags
                           /\ {q.override, q.global} \subseteq Tags \union {<<>>}
    /\ IsFiniteSet(EquivalentBases) /\ EquivalentBases \subseteq STRING \X STRING

VARIABLES
    host, installed, declared,  \* the machine, the build and the model
    preferred, actual,          \* the device asked for, and what the backend runs on
    config, file, starts,        \* the settings in memory and on disk, and how often they were read
    speech                      \* the language question
settingsVars == <<host, installed, declared, preferred, actual, config, file, starts, speech>>

---------------------------------------------------------------------------
(* Devices.                                                                *)

\* cuda and metal are older spellings of gpu; none is a model's property, not a preference.
ParseDevicePreference(label) ==
    CASE label = "cpu" -> "cpu"
      [] label \in {"gpu", "cuda", "metal"} -> "gpu"
      [] OTHER -> "refused"

PreferenceAxis(device) == IF device \in Accelerators THEN "gpu" ELSE device
SwitchIsSatisfied(requested) == preferred = requested /\ PreferenceAxis(actual) = requested

HostAvailableDevices == {"cpu"} \union (IF host # {} THEN {"gpu"} ELSE {})

ModelAvailableDevices ==
    IF "none" \in declared THEN {}
    ELSE LET accels == ToSet(installed) \ {"wasm"}
             accelerated == accels = {} \/ accels # {"cpu"} IN
         {d \in declared \intersect HostAvailableDevices : d = "cpu" \/ accelerated}

DeviceRejected(device) == "none" \in declared \/ device \notin declared

\* The first accelerator of the build the host can run, else the first that is not the CPU,
\* else nothing: the backend is left to choose.
ResolveAccel(preference) ==
    IF preference = "cpu" THEN "cpu"
    ELSE LET first(S) == SelectInSeq(installed, LAMBDA a : a \in S)
             runs == first(host)
             other == first(ToSet(installed) \ {"cpu"}) IN
         IF runs # 0 THEN installed[runs] ELSE IF other # 0 THEN installed[other] ELSE ""

\* A client sets a device, and the model is loaded on what it resolved to, or on the CPU when
\* that does not come up; a backend told nothing picks what the machine has.
SetDevice ==
    \E label \in {"cpu", "gpu", "cuda", "metal", "none"} :
        LET d == ParseDevicePreference(label) IN
        /\ d # "refused" /\ ~DeviceRejected(d) /\ ~SwitchIsSatisfied(d)
        /\ preferred' = d
        /\ actual' \in IF ResolveAccel(d) = "" THEN host \union {"cpu"} ELSE {ResolveAccel(d), "cpu"}
        /\ UNCHANGED <<host, installed, declared, config, file, starts, speech>>

---------------------------------------------------------------------------
(* The settings file.                                                      *)

\* A value of an older vocabulary is repaired by the product.
Repair(c) == [c EXCEPT !.device = IF @ = "stale" THEN Defaults.device ELSE @]

WithDefaults(fields) ==
    [f \in DOMAIN Defaults |-> IF f \in DOMAIN fields THEN fields[f] ELSE Defaults[f]]

\* Every field has a default of its own; what does not parse at all is reset as a whole.
ParseOrReset(f) ==
    IF f.kind = "ron" THEN [config |-> Repair(WithDefaults(f.fields)), reset |-> FALSE]
    ELSE [config |-> Defaults, reset |-> TRUE]

Canonical(c) == [kind |-> "ron", fields |-> c]

\* A file that is missing or cannot be read is left alone; one that is reset, or not in the
\* canonical form, is written again, which may fail.
LoadConfig ==
    /\ starts < 2
    /\ starts' = starts + 1
    /\ IF file.kind \in {"missing", "unreadable"} THEN config' = Defaults /\ UNCHANGED file
       ELSE /\ config' = ParseOrReset(file).config
            /\ file' \in {file, Canonical(config')}
    /\ UNCHANGED <<host, installed, declared, preferred, actual, speech>>

---------------------------------------------------------------------------
(* Languages.                                                              *)

NoTag == <<>>
AutoTag == <<"auto">>

BaseSpellings(b) ==
    <<b>> \o SetToSeq({IF p[1] = b THEN p[2] ELSE p[1] : p \in {q \in EquivalentBases : b \in {q[1], q[2]}}})

\* The tag as the model spells it, or the base of a tag with a region, or nothing.
Adapt(tag, supported) ==
    IF tag = NoTag \/ tag = AutoTag THEN tag
    ELSE LET spelled == BaseSpellings(tag[1])
             whole == SelectInSeq(spelled, LAMBDA b : <<b>> \o Tail(tag) \in supported)
             bare == SelectInSeq(spelled, LAMBDA b : <<b>> \in supported) IN
         IF whole # 0 THEN <<spelled[whole]>> \o Tail(tag)
         ELSE IF Len(tag) > 1 /\ bare # 0 THEN <<spelled[bare]>> ELSE NoTag

ResolveLanguage(q) ==
    LET over == Adapt(q.override, q.supported)
        global == Adapt(q.global, q.supported) IN
    IF ~q.multilingual THEN [wire |-> NoTag, source |-> "default"]
    ELSE IF over # NoTag THEN [wire |-> over, source |-> "override"]
    ELSE IF global # NoTag THEN [wire |-> global, source |-> "global"]
    ELSE [wire |-> NoTag, source |-> "default"]

---------------------------------------------------------------------------
SettingsInit ==
    /\ host \in Hosts /\ installed \in Installs /\ declared \in Declared
    /\ preferred = "cpu" /\ actual = "cpu"
    /\ config = Defaults /\ file \in Files /\ starts = 0
    /\ speech \in Languages

SettingsNext == SetDevice \/ LoadConfig

---------------------------------------------------------------------------
\* What a client is offered is what it gets: a device offered for a model is never refused,
\* and resolves to an accelerator of its own axis, one the machine has if the build has such
\* a one; so that once the model runs on it, asking again reloads nothing.  Builds whose
\* record names the WASM transport are left out: resolve_accel answers "wasm" for those.
OfferedIsHonoured ==
    "wasm" \notin ToSet(installed) =>
    \A d \in ModelAvailableDevices :
        /\ ~DeviceRejected(d)
        /\ ResolveAccel(d) # "" => PreferenceAxis(ResolveAccel(d)) = d
        /\ d = "gpu" /\ ToSet(installed) # {} => ResolveAccel(d) # ""
        /\ d = "gpu" /\ ToSet(installed) \intersect host # {} => ResolveAccel(d) \in host
        /\ preferred = d /\ actual \in {ResolveAccel(d)} \ {""} => SwitchIsSatisfied(d)

\* The language a model is asked for is the one asked for: the override if the model serves
\* it at all, else the global one if it serves that, in the model's own spelling, exactly
\* with its region or at least as its base, and never another language.
AskedLanguage ==
    LET same(a, b) == a = b \/ \E p \in EquivalentBases : {p[1], p[2]} = {a, b}
        serves(s, tag) == same(s[1], tag[1]) /\ (Tail(s) = Tail(tag) \/ (Len(tag) > 1 /\ Len(s) = 1))
        reaches(tag) == tag = AutoTag \/ (tag # NoTag /\ \E s \in speech.supported : serves(s, tag))
        answer == ResolveLanguage(speech)
        from == IF answer.source = "override" THEN speech.override ELSE speech.global
    IN IF ~speech.multilingual \/ (~reaches(speech.override) /\ ~reaches(speech.global))
       THEN answer.wire = NoTag
       ELSE /\ answer.source = IF reaches(speech.override) THEN "override" ELSE "global"
            /\ from # AutoTag => answer.wire \in speech.supported /\ serves(answer.wire, from)
            /\ from \in speech.supported => answer.wire = from

\* A field of the settings file that parses and is still valid is what the daemon runs with,
\* whatever else in the file is missing or stale, and the next start reads the same settings
\* from what this one left on disk.
LoadsAsWritten ==
    starts > 0 =>
        /\ file.kind = "ron" =>
               \A f \in DOMAIN file.fields :
                   \/ config[f] = file.fields[f]
                   \/ f = "device" /\ file.fields[f] = "stale"
        /\ file.kind # "missing" /\ file.kind # "unreadable" => ParseOrReset(file).config = config
=============================================================================
