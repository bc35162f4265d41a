------------------------------ MODULE Install -------------------------------
(***************************************************************************)
(* registry/install.rs and registry/endpoints.rs: installing a backend.    *)
(* A job is a request to install or update one: it is marked in flight,    *)
(* resolved, staged beside the backends, and swapped into its directory;   *)
(* a directory that served the backend before is retired.  The host scans  *)
(* the backends directory whenever it likes (backends/discovery.rs) and    *)
(* has duplicates reconciled (registry/reconcile.rs), next to any install. *)
(*                                                                         *)
(* A directory is what its manifest says of it.  Names are numbered in     *)
(* their lexicographic order; a version that does not parse is 0.  Every   *)
(* step may fail, and a recursive removal may leave some or all behind.    *)
(* Op_Fault is Op with a plausible bug.                                    *)
(***************************************************************************)
EXTENDS Integers

CONSTANTS Jobs, Keys, Sources, Names, Versions,
          Key,      \* what the client sent: a source, a repository URL or a path
          Source,   \* the source of the entry it resolves to,
          Name,     \* install_dir_name of that entry,
          Id,       \* the id its manifest declares, or 0,
          Version,  \* and its version
          Updates,  \* the jobs that came through `update`
          Local,    \* the jobs that import a directory
          Layouts   \* how the backends directory may look at first

Dir == [source : Sources \union {"none", "absent"}, version : Nat, id : Nat]
Absent == [source |-> "absent", version |-> 0, id |-> 0]
\* A directory without a manifest that can be read.
Broken == [source |-> "none", version |-> 0, id |-> 0]
Paths == Names \X {"live", "old"}
Live(n) == <<n, "live">>
\* swap_into_place's sidecar.
Old(n) == <<n, "old">>
NoPath == <<0, "live">>

ASSUME JobsAssumption ==
    /\ Key \in [Jobs -> Keys] /\ Source \in [Jobs -> Sources] /\ Name \in [Jobs -> Names]
    /\ Id \in [Jobs -> Nat] /\ Version \in [Jobs -> Versions] /\ Versions \subseteq Nat
    /\ Names \subseteq Nat \ {0} /\ {"none", "absent"} \intersect Sources = {}
    /\ Updates \subseteq Jobs /\ Local \subseteq Jobs /\ Layouts \subseteq [Paths -> Dir]

VARIABLES
    at,        \* the directories that a scan of the backends directory sees
    staging,   \* .staging/<name>-<version>
    inFlight,  \* Registry.in_flight
    pc,        \* how far each job has come
    victim,    \* the predecessor it retires
    catalog,   \* the host's backends as of its last scan: where, and which version
    dupes,     \* <<loser, winner>>: what that scan wants reconciled
    doomed,    \* the loser reconcile_dirs is about to remove
    exposed    \* no state of the program: the backends an install has put at risk, see Brings

vars == <<at, staging, inFlight, pc, victim, catalog, dupes, doomed, exposed>>

Handling == {"resolve"}
Pipeline == {"fetch", "stage", "unpack", "manifest", "check", "carry", "clear", "aside",
             "place", "replace", "rollback", "drop", "retire", "retiring", "refresh", "done"}
Over == {"refused", "completed", "failed", "dead"}

\* What the directories, the staging area, the jobs and the host's catalog may hold.
TypeOK ==
    /\ at \in [Paths -> Dir] /\ staging \in [Names \X Versions -> Dir]
    /\ inFlight \subseteq Keys
    /\ pc \in [Jobs -> {"idle"} \union Handling \union Pipeline \union Over]
    /\ victim \in [Jobs -> Paths \union {NoPath}]
    /\ catalog \in [Sources -> [path : Paths \union {NoPath}, version : Nat]]
    /\ dupes \subseteq Paths \X Paths /\ doomed \in Paths \union {NoPath}
    /\ exposed \subseteq Sources

-----------------------------------------------------------------------------
Parses(p) == at[p].source \in Sources
Serving(s) == {p \in Paths : at[p].source = s}

\* dedup_sources: the newest, then the one named after its id, then the first.
IdNamed(p) == p[2] = "live" /\ at[p].id = p[1]
Before(p, q) == p[1] < q[1] \/ (p[1] = q[1] /\ p[2] = "live" /\ q[2] = "old")
Beats(p, q) ==
    \/ at[p].version > at[q].version
    \/ /\ at[p].version = at[q].version
       /\ \/ IdNamed(p) /\ ~IdNamed(q)
          \/ IdNamed(p) = IdNamed(q) /\ Before(p, q)
Wins(p) == Parses(p) /\ \A q \in Serving(at[p].source) \ {p} : Beats(p, q)

\* discover.
Found ==
    [s \in Sources |->
        IF Serving(s) = {} THEN [path |-> NoPath, version |-> 0]
        ELSE LET w == CHOOSE p \in Serving(s) : Wins(p)
             IN  [path |-> w, version |-> at[w].version]]
Losers == {pair \in Paths \X Paths :
              Parses(pair[1]) /\ Wins(pair[2]) /\ pair[1] # pair[2] /\ at[pair[1]].source = at[pair[2]].source}

\* installed_version_for_source: the manifest now, else the version of the scan.
Installed(s) ==
    IF Parses(catalog[s].path) THEN at[catalog[s].path].version ELSE catalog[s].version

Init ==
    /\ at \in Layouts
    /\ staging = [nv \in Names \X Versions |-> Absent]
    /\ inFlight = {} /\ pc = [j \in Jobs |-> "idle"] /\ victim = [j \in Jobs |-> NoPath]
    /\ catalog = Found /\ dupes = Losers /\ doomed = NoPath /\ exposed = {}

Goto(j, step) == pc' = [pc EXCEPT ![j] = step]
Step(j, step) == Goto(j, step) /\ UNCHANGED <<inFlight, victim>>
Release(j, step) ==
    /\ Goto(j, step) /\ inFlight' = inFlight \ {Key[j]} /\ victim' = [victim EXCEPT ![j] = NoPath]

\* remove_dir_all: what may be left of it.
Remove(p) == \E d \in {Absent, Broken, at[p]} : at' = [at EXCEPT ![p] = IF @ = Absent THEN @ ELSE d]
Rename(p, q) == at' = [at EXCEPT ![p] = Absent, ![q] = at[p]]
\* A directory is renamed onto nothing, or onto an empty one.
Vacant(p) == ~Parses(p)

\* What somebody is about to remove, by its path.
Condemned == {pair[1] : pair \in dupes} \union {doomed} \union {victim[j] : j \in Jobs}

\* A backend is at risk from the moment that a rename brings a copy of it to a path on
\* that list, or to where another copy wins (older than it, or equal and elsewhere); that
\* the copy which wins is cleared as a sidecar; or that two jobs for it, or for a
\* directory of its name, are run side by side.  A restart scans anew, and ends it.
Brings(p) ==
    exposed' = IF Wins(p)' /\ p \notin Condemned THEN exposed
               ELSE exposed \union ({at'[p].source} \intersect Sources)
Clears(p) == exposed' = IF Wins(p) THEN exposed \union {at[p].source} ELSE exposed
SideBySide(i, j) == Source[i] = Source[j] \/ Name[i] = Name[j]
Joins(j) ==
    exposed' = exposed \union
        UNION {{Source[i], Source[j]} : i \in {i \in Jobs \ {j} : pc[i] \in Pipeline /\ SideBySide(i, j)}}

Stage(j) == <<Name[j], Version[j]>>
Staged(j, d) == staging' = [staging EXCEPT ![Stage(j)] = d]
Manifest(j) == [source |-> Source[j], version |-> Version[j], id |-> Id[j]]

-----------------------------------------------------------------------------
\* InFlightMarker::acquire, or 409.
Request(j) ==
    /\ pc[j] = "idle"
    /\ IF Key[j] \in inFlight
       THEN Step(j, "refused")
       ELSE Goto(j, "resolve") /\ inFlight' = inFlight \union {Key[j]} /\ UNCHANGED victim
    /\ UNCHANGED <<at, staging, catalog, dupes, doomed, exposed>>

\* Fault: an early return forgets the marker.
Resolve_KeepsKey(j) ==
    /\ pc[j] = "resolve"
    /\ \/ Step(j, IF j \in Local THEN "stage" ELSE "fetch") /\ Joins(j)
       \/ Step(j, "refused") /\ UNCHANGED exposed
    /\ UNCHANGED <<at, staging, catalog, dupes, doomed>>

\* The rest of the handler.  An update needs an older version installed; a handler
\* that answers an error, or is dropped, drops its marker; otherwise the pipeline
\* takes it over.
Resolve(j) ==
    /\ pc[j] = "resolve"
    /\ \/ /\ j \in Updates => catalog[Source[j]].path # NoPath /\ Installed(Source[j]) < Version[j]
          /\ Step(j, IF j \in Local THEN "stage" ELSE "fetch") /\ Joins(j)
       \/ Release(j, "refused") /\ UNCHANGED exposed
    /\ UNCHANGED <<at, staging, catalog, dupes, doomed>>

\* Any error, and the InFlightGuard of a pipeline that unwinds: the source is
\* released and `Failed` published.
Fail(j) ==
    /\ pc[j] \in Pipeline
    /\ Release(j, "failed")
    /\ UNCHANGED <<at, staging, catalog, dupes, doomed, exposed>>

\* download_and_verify.
Fetch(j) ==
    /\ pc[j] = "fetch" /\ Step(j, "stage")
    /\ UNCHANGED <<at, staging, catalog, dupes, doomed, exposed>>

\* A stale staging directory is wiped, if that works.
Wipe(j) ==
    /\ pc[j] = "stage" /\ Step(j, "unpack")
    /\ \E d \in {Absent, Broken, staging[Stage(j)]} :
          Staged(j, IF staging[Stage(j)] = Absent THEN Absent ELSE d)
    /\ UNCHANGED <<at, catalog, dupes, doomed, exposed>>

\* extract_tarball, or the copy of the imported directory.
Unpack(j) ==
    /\ pc[j] = "unpack" /\ Step(j, "manifest")
    /\ Staged(j, IF staging[Stage(j)] = Absent THEN Broken ELSE staging[Stage(j)])
    /\ UNCHANGED <<at, catalog, dupes, doomed, exposed>>

\* fetch_verified_manifest, written verbatim, and installed.json.
WriteManifest(j) ==
    /\ pc[j] = "manifest" /\ Step(j, "check")
    /\ staging[Stage(j)] # Absent /\ Staged(j, Manifest(j))
    /\ UNCHANGED <<at, catalog, dupes, doomed, exposed>>

\* Fault: whoever is there is replaced.
Check_AnyOccupant(j) ==
    /\ pc[j] = "check" /\ Step(j, "carry")
    /\ UNCHANGED <<at, staging, catalog, dupes, doomed, exposed>>

\* ensure_dir_free_for.
Check(j) ==
    /\ pc[j] = "check"
    /\ Parses(Live(Name[j])) => Source[j] = at[Live(Name[j])].source
    /\ Step(j, "carry")
    /\ UNCHANGED <<at, staging, catalog, dupes, doomed, exposed>>

\* previous_dir_for and preserve_models, which move model files only.
Carry(j) ==
    /\ pc[j] = "carry" /\ Step(j, "clear")
    /\ UNCHANGED <<at, staging, catalog, dupes, doomed, exposed>>

-----------------------------------------------------------------------------
\* swap_into_place: whether there is anything to move aside, and room for it;
ClearOld(j) ==
    /\ pc[j] = "clear"
    /\ IF at[Live(Name[j])] = Absent
       THEN Step(j, "place") /\ UNCHANGED <<at, exposed>>
       ELSE Step(j, "aside") /\ Remove(Old(Name[j])) /\ Clears(Old(Name[j]))
    /\ UNCHANGED <<staging, catalog, dupes, doomed>>

\* the directory becomes the sidecar,
MoveAside(j) ==
    /\ pc[j] = "aside" /\ Step(j, "replace")
    /\ at[Live(Name[j])] # Absent /\ Vacant(Old(Name[j])) /\ Rename(Live(Name[j]), Old(Name[j]))
    /\ Brings(Old(Name[j])) /\ UNCHANGED <<staging, catalog, dupes, doomed>>

\* and staging the directory,
Place(j) ==
    /\ pc[j] \in {"place", "replace"}
    /\ \/ /\ staging[Stage(j)] # Absent /\ Vacant(Live(Name[j]))
          /\ at' = [at EXCEPT ![Live(Name[j])] = staging[Stage(j)]] /\ Staged(j, Absent)
          /\ Step(j, IF pc[j] = "place" THEN "retire" ELSE "drop") /\ Brings(Live(Name[j]))
       \/ pc[j] = "replace" /\ Step(j, "rollback") /\ UNCHANGED <<at, staging, exposed>>
    /\ UNCHANGED <<catalog, dupes, doomed>>

\* unless that fails: then the sidecar is put back, if it can be.
Rollback(j) ==
    /\ pc[j] = "rollback" /\ Release(j, "failed")
    /\ at[Old(Name[j])] # Absent /\ Vacant(Live(Name[j])) /\ Rename(Old(Name[j]), Live(Name[j]))
    /\ Brings(Live(Name[j])) /\ UNCHANGED <<staging, catalog, dupes, doomed>>

DropOld(j) ==
    /\ pc[j] = "drop" /\ Step(j, "retire")
    /\ Remove(Old(Name[j]))
    /\ UNCHANGED <<staging, catalog, dupes, doomed, exposed>>

\* Fault: the directory just installed counts as a predecessor.
FindOld_KeepsNone(j) ==
    /\ pc[j] = "retire"
    /\ \E p \in Serving(Source[j]) :
          Goto(j, "retiring") /\ victim' = [victim EXCEPT ![j] = p] /\ UNCHANGED inFlight
    /\ UNCHANGED <<at, staging, catalog, dupes, doomed, exposed>>

\* retire_previous_dir: some other directory that serves the source, unless there is
\* none, or the scan fails,
FindOld(j) ==
    /\ pc[j] = "retire"
    /\ \/ \E p \in Serving(Source[j]) \ {Live(Name[j])} :
            Goto(j, "retiring") /\ victim' = [victim EXCEPT ![j] = p] /\ UNCHANGED inFlight
       \/ Step(j, "refresh")
    /\ UNCHANGED <<at, staging, catalog, dupes, doomed, exposed>>

Retire(j) ==
    /\ pc[j] = "retiring"
    /\ Remove(victim[j])
    /\ Goto(j, "refresh") /\ victim' = [victim EXCEPT ![j] = NoPath] /\ UNCHANGED inFlight
    /\ UNCHANGED <<staging, catalog, dupes, doomed, exposed>>

\* refresh_backends is awaited,
Refresh(j) ==
    /\ pc[j] = "refresh" /\ Step(j, "done")
    /\ catalog' = Found /\ dupes' = dupes \union Losers
    /\ UNCHANGED <<at, staging, doomed, exposed>>

\* and `Completed` published, the guard disarmed.
Complete(j) ==
    /\ pc[j] = "done" /\ Release(j, "completed")
    /\ UNCHANGED <<at, staging, catalog, dupes, doomed, exposed>>

-----------------------------------------------------------------------------
\* The host scans of its own accord.
Rescan ==
    /\ catalog' = Found /\ dupes' = dupes \union Losers
    /\ UNCHANGED <<at, staging, inFlight, pc, victim, doomed, exposed>>

\* reconcile_dirs, for each loser: nothing is done for a winner or a loser whose
\* manifest does not parse, nor when carrying its files fails;
Reconcile ==
    /\ doomed = NoPath
    /\ \E pair \in dupes :
        /\ dupes' = dupes \ {pair}
        /\ \/ Parses(pair[1]) /\ Parses(pair[2]) /\ doomed' = pair[1]
           \/ UNCHANGED doomed
    /\ UNCHANGED <<at, staging, inFlight, pc, victim, catalog, exposed>>

\* then the loser is removed.
RemoveLoser ==
    /\ doomed # NoPath
    /\ Remove(doomed) /\ doomed' = NoPath
    /\ UNCHANGED <<staging, inFlight, pc, victim, catalog, dupes, exposed>>

\* The daemon is killed and started again: it scans.
Crash ==
    /\ \E j \in Jobs : pc[j] \in Handling \union Pipeline
    /\ pc' = [j \in Jobs |-> IF pc[j] \in Handling \union Pipeline THEN "dead" ELSE pc[j]]
    /\ inFlight' = {} /\ victim' = [j \in Jobs |-> NoPath]
    /\ catalog' = Found /\ dupes' = Losers /\ doomed' = NoPath /\ exposed' = {}
    /\ UNCHANGED <<at, staging>>

Work(j) ==
    \/ Resolve(j) \/ Fail(j) \/ Fetch(j) \/ Wipe(j) \/ Unpack(j) \/ WriteManifest(j)
    \/ Check(j) \/ Carry(j) \/ ClearOld(j) \/ MoveAside(j) \/ Place(j) \/ Rollback(j)
    \/ DropOld(j) \/ FindOld(j) \/ Retire(j) \/ Refresh(j) \/ Complete(j)

Next ==
    \/ \E j \in Jobs : Request(j) \/ Work(j)
    \/ Rescan \/ Reconcile \/ RemoveLoser
    \/ Crash

Spec == Init /\ [][Next]_vars
FairSpec == Spec /\ \A j \in Jobs : WF_vars(Work(j))

-----------------------------------------------------------------------------
\* A key is in flight exactly while a job with that key is being handled or run, and
\* then only one is: a key that stayed would answer 409 for ever.
InFlightExact ==
    /\ \A k \in inFlight : \E j \in Jobs : Key[j] = k /\ pc[j] \in Handling \union Pipeline
    /\ \A j \in Jobs : pc[j] \in Handling \union Pipeline =>
          /\ Key[j] \in inFlight
          /\ \A i \in Jobs \ {j} : Key[i] = Key[j] => pc[i] \notin Handling \union Pipeline

\* A backend that is installed stays installed: at every moment, in the middle of a
\* swap and after a crash there, some directory that a scan sees serves it.
NeverLost == [][\A s \in Sources : Serving(s) # {} => Serving(s)' # {}]_vars

\* No install, update, failed rename, retirement, reconciliation or crash takes the last
\* copy of a backend, unless a swap put that backend at risk since the daemon started.
LastCopySafe ==
    [][\A s \in Sources \ exposed' : Serving(s) # {} => Serving(s)' # {}]_vars

\* When a job is announced `Completed`, its directory serves what it installed, with the
\* same exception.
CompletedIsServed ==
    [][\A j \in Jobs : pc'[j] = "completed" /\ pc[j] # "completed" /\ Source[j] \notin exposed =>
            at[Live(Name[j])] = Manifest(j)]_vars

\* Every install comes to an end, and its key is free again.
EveryKeyIsFreed == \A k \in Keys : k \in inFlight ~> k \notin inFlight
=============================================================================
