------------------------------ MODULE Catalog ------------------------------
(***************************************************************************)
(* What a daemon makes of the index: the catalog it lists, the backends it *)
(* installs from the registry, a repo or a directory, the ones it serves,  *)
(* and the model files it fetches for them (registry/endpoints.rs,         *)
(* install.rs, custom_repo.rs, local_dir.rs, carry_over.rs, and            *)
(* backends/discovery.rs).  An install is one step here: its interleavings *)
(* and crashes are those of Install.  The machine may get another GPU and  *)
(* the daemon another build at any time.                                   *)
(***************************************************************************)
EXTENDS Indexer, Compat

CONSTANTS
  RepoName,     \* RepoName[r]: the last part of the repo's path
  Hosts,        \* the machines the daemon may find itself on
  DaemonBuilds, \* its builds, in the order they are released
  LocalDirs     \* the drafts a developer has in a directory

\* A later build is of the same product and knows no fewer contracts (Contract::ALL).
ASSUME CatalogAssumption ==
  /\ DaemonBuilds \in Seq(ToSet(DaemonBuilds))
  /\ \A i \in DOMAIN DaemonBuilds: DaemonBuilds[i].latest \in Nat
  /\ \A i, j \in DOMAIN DaemonBuilds: i < j =>
       /\ DaemonBuilds[i].product = DaemonBuilds[j].product
       /\ DaemonBuilds[i].latest <= DaemonBuilds[j].latest
  /\ \A d \in LocalDirs: IsManifest(d.manifest)

VARIABLES
  version, host,
  dirs,     \* dirs[name]: the backend installed there, if any
  outcome   \* what the last operation came to
catalogVars == <<version, host, dirs, outcome>>

Daemon   == DaemonBuilds[version]
DirNames == Keys \cup {d.manifest.id: d \in Drafts \cup LocalDirs} \cup {RepoName[r]: r \in Repos}
Nothing  == [is |-> "nothing", source |-> <<"", "">>, dir |-> "", how |-> "", model |-> 0, manifest |-> None]

CatalogInit ==
  /\ version = 1 /\ host \in Hosts
  /\ dirs = [d \in DirNames |-> None] /\ outcome = Nothing

-----------------------------------------------------------------------------
(* load and load_installed, of what is in a directory.                     *)
Loads(d)          == dirs[d] # None /\ Parse(Daemon, Head(dirs[d]).manifest)
LoadsInstalled(d) == dirs[d] # None /\ ParseInstalled(Daemon, Head(dirs[d]).manifest)
SourceIn(d)       == Head(dirs[d]).manifest.source

(* discover with load_backend; dedup_sources picks one directory a source. *)
LoadBackend(d) ==
  LoadsInstalled(d) /\ LET m == Head(dirs[d]).manifest IN ValidateRuntime(m) /\ ValidateSupportedDevices(m)
Served == {SourceIn(d): d \in {d \in DirNames: LoadBackend(d)}}
InstalledVersion(source) ==
  LET at == {d \in DirNames: LoadBackend(d) /\ SourceIn(d) = source} IN
  Max({0} \cup {Head(dirs[d]).manifest.version: d \in at})

(* list, preview: an entry as the catalog shows it.                        *)
MapEntry(entry) ==
  LET sel == Select(Daemon, host, entry)
      installed == InstalledVersion(entry.source) IN
  [compatible |-> ~Reason(sel), needs_client_update |-> sel.is = "needs_client_update",
   installed |-> installed,
   update_available |-> ~Reason(sel) /\ installed # 0 /\ entry.version > installed]

(* custom_repo::resolve and local_dir::resolve: an entry without digests.  *)
IdFromSource(source) == IF source[2] # "" THEN source[2] ELSE RepoName[source[1]]
ResolveRepo(repo) ==
  LET e == [repo |-> repo, prefix |-> "", cap |-> 0]
      latest == {i \in Listed(e): TRUE}
      r == forge[repo][Max(latest)] IN
  IF latest # {} /\ r.complete /\ Parse(Daemon, r.manifest) /\ UnderRepo(r.manifest.source, repo)
     /\ (IF r.manifest.kind = "wasm" THEN r.manifest.wasm ELSE r.manifest.assets # <<>>)
  THEN Some(FromManifest(IdFromSource(r.manifest.source), r.manifest, r.version, r.tar, None))
  ELSE None
ResolveLocal(draft) ==
  IF Parse(Daemon, draft.manifest) /\ ValidateRuntime(draft.manifest)
  THEN Some(FromManifest(IdFromSource(draft.manifest.source), draft.manifest, 1, draft.tar, None))
  ELSE None

-----------------------------------------------------------------------------
(* carry_over::declared: a destination's urls in order, or None when two   *)
(* models disagree; survivors.                                             *)
UrlsOf(model, d) ==
  LET urls[n \in 0..Len(model.files)] ==
        IF n = 0 THEN <<>>
        ELSE IF model.files[n].destination = d THEN Append(urls[n - 1], model.files[n].url)
        ELSE urls[n - 1]
  IN urls[Len(model.files)]
Declaring(m, d)  == {UrlsOf(m.models[i], d): i \in DOMAIN m.models} \ {<<>>}

Survivors_ByName(old, new) ==  \* the url is not compared
  {d \in UNION {Destinations(new.models[i].files): i \in DOMAIN new.models}: Declaring(old, d) # {}}

Survivors(old, new) ==
  {d \in UNION {Destinations(new.models[i].files): i \in DOMAIN new.models}:
     Cardinality(Declaring(new, d)) = 1 /\ Declaring(old, d) = Declaring(new, d)}

(* The checks of run, in their order; of run_local only the last.          *)
VerifyManifest(entry) ==
  Parse(Daemon, entry.manifest) /\ ValidateRuntime(entry.manifest)
EnsureDirFreeFor(final, source) == Loads(final) => SourceIn(final) = source
Check(entry, sel) ==
  CASE Reason(sel) -> "incompatible"
    [] sel.is = "subprocess" /\ ~EntriesSafe(entry.tar) -> "tarball_unsafe"
    [] sel.is = "subprocess" /\ TarBudget(entry.tar.entries, UnpackCap(Compressed(entry.tar))) = -1
         -> "tarball_unsafe"
    [] sel.is = "wasm" /\ entry.entrypoint = "nested" -> "install_io_error"
    [] OTHER -> IF ~VerifyManifest(entry) THEN "manifest_invalid" ELSE "installed"

(* The rest of run: the directory is free, the old one's files are carried *)
(* into the new one, which replaces it; retire_previous_dir drops another. *)
Place(entry) ==
  LET final == InstallDirName(entry)
      serving == {d \in DirNames: Loads(d) /\ SourceIn(d) = entry.source}
      carried(d) == IF ~Loads(d) THEN {} ELSE
                      {w \in Head(dirs[d]).weights:
                         w[1] \in Survivors(Head(dirs[d]).manifest, entry.manifest)} IN
  \E from \in IF serving = {} THEN {final} ELSE serving:
    dirs' = [d \in DirNames |->
               IF d = final THEN Some([manifest |-> entry.manifest, weights |-> carried(from)])
               ELSE IF d \in serving THEN None ELSE dirs[d]]

Install(entry, sel, how) ==
  LET code == IF how = "local" THEN "installed" ELSE Check(entry, sel)
      free == EnsureDirFreeFor(InstallDirName(entry), entry.source) IN
  /\ outcome' = [is |-> IF code = "installed" /\ ~free THEN "install_dir_conflict" ELSE code,
                 source |-> entry.source, dir |-> InstallDirName(entry),
                 how |-> how, model |-> 0, manifest |-> Some(entry.manifest)]
  /\ IF code = "installed" /\ free THEN Place(entry) ELSE UNCHANGED dirs
  /\ UNCHANGED <<version, host>>

InstallFromRegistry(key) ==
  LET entry == index.backends[key] IN Install(entry, Select(Daemon, host, entry), "registry")
InstallFromRepo(repo) ==
  /\ ResolveRepo(repo) # None
  /\ LET entry == Head(ResolveRepo(repo)) IN Install(entry, Select(Daemon, host, entry), "repo")
InstallFromDir(draft) ==
  /\ ResolveLocal(draft) # None
  /\ Install(Head(ResolveLocal(draft)), [is |-> "wasm", index |-> 0], "local")

(* update: only of what is installed, and only upwards.                    *)
Update(key) ==
  LET shown == MapEntry(index.backends[key]) IN
  /\ shown.installed # 0 /\ index.backends[key].version > shown.installed
  /\ Install(index.backends[key], Select(Daemon, host, index.backends[key]), "update")

Uninstall(d) ==
  /\ dirs[d] # None /\ dirs' = [dirs EXCEPT ![d] = None] /\ outcome' = Nothing
  /\ UNCHANGED <<version, host>>

(* A model is loaded: its files are resolved for this machine, and each is *)
(* kept when usable_existing says so, else downloaded.                     *)
UsableExisting(weights, f) ==
  \E w \in weights: w[1] = f.destination /\ (f.sha256 => w[2] = f.url)
Load(d, i) ==
  /\ LoadBackend(d) /\ i \in DOMAIN Head(dirs[d]).manifest.models
  /\ LET had == Head(dirs[d]).weights
         files == Head(dirs[d]).manifest.models[i].files
         sel == SelectFiles(host, files)
         fetch == {files[j]: j \in {j \in sel.files: ~UsableExisting(had, files[j])}} IN
     /\ sel.ok
     /\ dirs' = [dirs EXCEPT ![d] = Some([@[1] EXCEPT !.weights =
                   {w \in had: \A f \in fetch: f.destination # w[1]}
                   \cup {<<f.destination, f.url>>: f \in fetch}])]
     /\ outcome' = [is |-> "loaded", source |-> SourceIn(d), dir |-> d, how |-> "",
                    model |-> i, manifest |-> None]
  /\ UNCHANGED <<version, host>>

UpgradeDaemon ==
  /\ version < Len(DaemonBuilds) /\ version' = version + 1 /\ outcome' = Nothing
  /\ UNCHANGED <<host, dirs>>
ChangeHost(h) ==
  /\ h # host /\ host' = h /\ outcome' = Nothing
  /\ UNCHANGED <<version, dirs>>

CatalogNext ==
  \/ \E key \in DOMAIN index.backends: InstallFromRegistry(key) \/ Update(key)
  \/ \E repo \in Repos: InstallFromRepo(repo)
  \/ \E draft \in LocalDirs: InstallFromDir(draft)
  \/ \E d \in DirNames: Uninstall(d) \/ \E i \in 1..2: Load(d, i)
  \/ UpgradeDaemon
  \/ \E h \in Hosts: ChangeHost(h)
-----------------------------------------------------------------------------
(* Whatever is published offers only what the daemon takes from a user.    *)
OffersAccepted ==
  \A k \in DOMAIN index.backends: \A o \in ToSet(index.backends[k].options): OffersAreAccepted(o)

(* On every machine, the build that is taken is the best that runs there,  *)
(* and a model's files resolve to one variant of each that fits.           *)
BestForThisHost ==
  /\ \A k \in DOMAIN index.backends: SelectsBest(Daemon, host, index.backends[k])
  /\ \A d \in DirNames: dirs[d] # None =>
       \A i \in DOMAIN Head(dirs[d]).manifest.models:
         FilesResolve(host, Head(dirs[d]).manifest.models[i].files)

(* Through updates, retired directories and changes of the machine, a file *)
(* on disk is one the backend's manifest names for that place, and a load  *)
(* leaves every file that declares its digest as the variant for this      *)
(* machine (carry_over.rs:1-20).                                           *)
LoadedFiles == LET files == Head(dirs[outcome.dir]).manifest.models[outcome.model].files
               IN {files[j]: j \in SelectFiles(host, files).files}
RightWeights ==
  /\ \A d \in DirNames: dirs[d] # None => \A w \in Head(dirs[d]).weights:
       \E u \in Declaring(Head(dirs[d]).manifest, w[1]): w[2] \in ToSet(u)
  /\ outcome.is = "loaded" => \A f \in LoadedFiles:
       f.sha256 => <<f.destination, f.url>> \in Head(dirs[outcome.dir]).weights

(* A backend that is served stays served: another build of the daemon with *)
(* new rules for manifests does not drop it (manifest.rs:1303-1322), and   *)
(* an install of another source does not replace it.  A directory whose    *)
(* manifest breaks the rules of this build is no backend to either: what   *)
(* it holds may be replaced, by any source (install.rs:623).               *)
ServedStaysServed ==
  [][/\ version' # version => Served \subseteq Served'
     /\ outcome'.is = "installed" =>
          \A d \in DirNames: Loads(d) /\ SourceIn(d) # outcome'.source => dirs'[d] = dirs[d]
    ]_<<indexerVars, catalogVars>>

(* "A backend that passes publishing also installs" (verify.rs:3): from    *)
(* the registry, a daemon of the indexer's own build installs what its     *)
(* catalog calls compatible, and then serves it.  Excepted is a release    *)
(* that breaks what only the daemon checks (Installable): it is published  *)
(* all the same, and refused or not served after the download.             *)
Installable(m) ==
  /\ ValidateRuntime(m) /\ ValidateSupportedDevices(m)
  /\ ~(m.kind = "wasm" /\ m.entrypoint = "nested")
InstallsAndServes ==
  outcome.is \in {"installed", "install_dir_conflict"} /\
  (outcome.is = "installed" => outcome.source \in Served)
FromRegistry == Daemon = IndexerBuild /\ outcome.how = "registry" /\ outcome.is # "incompatible"
PublishedInstalls == FromRegistry /\ Installable(Head(outcome.manifest)) => InstallsAndServes

=============================================================================
