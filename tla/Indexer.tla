------------------------------ MODULE Indexer ------------------------------
(***************************************************************************)
(* The registry's indexer (super-engine-indexer): once a day it builds     *)
(* index.json from registry.toml and the releases of the repos it names.   *)
(* An entry that fails keeps its last good release for MAX_STALENESS_DAYS. *)
(* Authors release, maintainers edit the registry and downloads fail       *)
(* between any two steps.  A source is <<repo, directory>>, "" the root.   *)
(***************************************************************************)
EXTENDS Manifest, Options, Verify

CONSTANTS
  Repos,
  Registries,          \* the registry.toml files the maintainers may commit
  Drafts,              \* what an author may release: [repo, prefix, status, manifest, tar, ...]
  IndexerBuild,        \* the contracts and rules the indexer was built with
  MAX_STALENESS_DAYS,
  MaxReleases,         \* bound: releases of a repo
  LastDay              \* bound

ASSUME IndexerAssumption == MAX_STALENESS_DAYS \in Nat /\ MaxReleases \in Nat /\ LastDay \in Nat

VARIABLES
  day, forge, registry,
  index,     \* the published file: the day it was built, its entries by key
  build,     \* the build that runs
  failing    \* failing[key]: the day of the first published build that did not
             \* build the key, -1 when the last one did (what no build reads)

indexerVars == <<day, forge, registry, index, build, failing>>

Keys == UNION {DOMAIN reg: reg \in Registries}

\* An id has dots in it (backend_id.rs:17-33), and a key has none (registry_toml.rs:74-76).
ASSUME DraftsAssumption ==
  /\ \A reg \in Registries: \A k \in DOMAIN reg: reg[k].repo \in Repos
  /\ \A d \in Drafts:
       /\ {"manifest", "version", "tar", "complete", "magic"} \subseteq DOMAIN d
       /\ {"id", "id_valid", "version", "options", "assets", "models"} \subseteq DOMAIN d.manifest
       /\ d.repo \in Repos /\ IsManifest(d.manifest) /\ \A o \in ToSet(d.manifest.options): IsOpt(o)
       /\ d.manifest.id # "" /\ d.manifest.id_valid => d.manifest.id \notin Keys
NoBuild == [pc |-> "idle", at |-> 0, todo |-> {}, key |-> "", picked |-> None, out |-> <<>>]

IndexerInit ==
  /\ day = 0 /\ forge = [r \in Repos |-> <<>>] /\ registry \in Registries
  /\ index = [at |-> 0, backends |-> <<>>] /\ build = NoBuild /\ failing = [k \in Keys |-> -1]

-----------------------------------------------------------------------------
(* registry_toml: validate_entry, the ids, validate_monorepo_groups.       *)
ValidateEntry(e) == e.repo # "" /\ e.id_valid /\ (e.id # "" \/ e.grandfathered)
RegistryParses(reg) ==
  /\ \A k \in DOMAIN reg: ValidateEntry(reg[k])
  /\ \A a, b \in DOMAIN reg: reg[a].id # "" /\ reg[a].id = reg[b].id => a = b
  /\ \A a, b \in DOMAIN reg:
       a # b /\ reg[a].repo = reg[b].repo /\ ~reg[a].removed /\ ~reg[b].removed
         => reg[a].prefix # "" /\ reg[b].prefix # "" /\ reg[a].prefix # reg[b].prefix

(* resolve and select_release: the highest published version under the     *)
(* entry's cap, of its prefix in a monorepo, else of the latest release.   *)
Listed(e) ==
  LET all == forge[e.repo]
      latest == {i \in DOMAIN all: all[i].status = "published"} IN
  IF e.prefix # "" THEN DOMAIN all
  ELSE {i \in latest: \A j \in latest: j <= i}
SelectRelease(e) ==
  LET ok == {i \in Listed(e): LET r == forge[e.repo][i] IN
               /\ r.status = "published" /\ r.prefix = e.prefix
               /\ r.version # 0 /\ (e.cap # 0 => r.version <= e.cap)}
      best == {i \in ok: \A j \in ok: forge[e.repo][i].version >= forge[e.repo][j].version} IN
  IF best = {} THEN <<>> ELSE <<forge[e.repo][Min(best)]>>

UnderRepo(source, repo) == source[1] = repo

(* manifest::validate.                                                     *)
Validate(m, version, e) ==
  /\ m.version = version
  /\ UnderRepo(m.source, e.repo)
  /\ e.id # "" => m.id = e.id
  /\ IF m.kind = "wasm" THEN m.wasm ELSE m.assets # <<>>
  /\ "base_url" \notin m.defaulted
  /\ \A o \in ToSet(m.options): PublishesOption(o)
  /\ m.license

ValidTarball_AnyEntry(tar) == EntriesSafe(tar)  \* a bundle over its budget is published

(* validate_subprocess_parts and validate_tarball_read.                    *)
ValidTarball(tar) ==
  /\ EntriesSafe(tar)
  /\ TarBudget(tar.entries, UnpackCap(Compressed(tar))) # -1
  /\ \E i \in DOMAIN tar.entries: tar.entries[i].path \in {"entry", "bin/entry"}

(* resolve_index_assets: every file the release names is there and whole.  *)
ResolveIndexAssets(r) ==
  /\ r.complete
  /\ r.manifest.wasm => r.magic
  /\ r.manifest.assets # <<>> => ValidTarball(r.tar)

(* IndexBackend::from_manifest with model_support; the manifest and the    *)
(* assets are pinned by their digests, so the entry carries what they hold.*)
FromManifest(key, m, version, tar, pin) ==
  [key |-> key, id |-> m.id, source |-> m.source, version |-> version, contract |-> m.contract,
   kind |-> m.kind, entrypoint |-> m.entrypoint, wasm |-> m.wasm, assets |-> m.assets,
   options |-> m.options, manifest |-> m, tar |-> tar, pin |-> pin, stale |-> -1]

(* build_entry, once the release is resolved.                              *)
BuildsEntry(e, r) ==
  Parse(IndexerBuild, r.manifest) /\ Validate(r.manifest, r.version, e) /\ ResolveIndexAssets(r)

(* maybe_carry_forward: the count starts with the first build that failed. *)
MaybeCarryForward(key, at) ==
  IF key \notin DOMAIN index.backends THEN None
  ELSE LET was == index.backends[key]
           since == IF was.stale = -1 THEN at ELSE was.stale IN
       IF at - since > MAX_STALENESS_DAYS THEN None ELSE Some([was EXCEPT !.stale = since])

-----------------------------------------------------------------------------
(* run_build, up to its loop; a registry that does not parse ends it.      *)
StartBuild ==
  /\ build.pc = "idle" /\ RegistryParses(registry)
  /\ build' = [NoBuild EXCEPT !.pc = "next", !.at = day,
                 !.todo = {k \in DOMAIN registry: ~registry[k].removed}]
  /\ UNCHANGED <<day, forge, registry, index, failing>>

(* The next entry's release; the forge may not answer.                     *)
ResolveEntry(key) ==
  /\ build.pc = "next" /\ key \in build.todo
  /\ \E picked \in {SelectRelease(registry[key]), None}:
       build' = [build EXCEPT !.pc = "fetch", !.key = key, !.picked = picked, !.todo = @ \ {key}]
  /\ UNCHANGED <<day, forge, registry, index, failing>>

(* The entry is built, or fails (also by the network) and is carried.      *)
FetchEntry ==
  /\ build.pc = "fetch"
  /\ LET put(entry) == [build EXCEPT !.pc = "next", !.picked = None,
                          !.out = IF entry = None THEN @ ELSE
                                    [k \in {build.key} \cup DOMAIN @ |->
                                       IF k = build.key THEN Head(entry) ELSE @[k]]] IN
     \/ /\ build.picked # None /\ BuildsEntry(registry[build.key], Head(build.picked))
        /\ LET r == Head(build.picked) IN
           build' = put(Some(FromManifest(build.key, r.manifest, r.version, r.tar, Some(r.manifest))))
     \/ build' = put(MaybeCarryForward(build.key, build.at))
  /\ UNCHANGED <<day, forge, registry, index, failing>>

(* ensure_unique_sources and ensure_unique_backend_ids.                    *)
EnsureUnique_Fresh(out) ==  \* only the entries built today are compared
  \A a, b \in DOMAIN out:
    out[a].stale = -1 /\ out[b].stale = -1 /\ out[a].source = out[b].source => a = b
EnsureUnique(out) ==
  \A a, b \in DOMAIN out:
    out[a].source = out[b].source \/ (out[a].id # "" /\ out[a].id = out[b].id) => a = b

(* The file is replaced whole, or the build fails and the last one stays.  *)
WriteIndex ==
  /\ build.pc = "next" /\ build.todo = {}
  /\ build' = NoBuild
  /\ IF EnsureUnique(build.out)
     THEN /\ index' = [at |-> build.at, backends |-> build.out]
          /\ failing' = [k \in Keys |->
               IF k \in DOMAIN build.out /\ build.out[k].stale = -1 THEN -1
               ELSE IF failing[k] = -1 THEN build.at ELSE failing[k]]
     ELSE UNCHANGED <<index, failing>>
  /\ UNCHANGED <<day, forge, registry>>

CancelBuild ==
  /\ build.pc # "idle" /\ build' = NoBuild
  /\ UNCHANGED <<day, forge, registry, index, failing>>

(* What the indexer does not do itself.  A build reads registry.toml once. *)
Release(draft) ==
  /\ Len(forge[draft.repo]) < MaxReleases
  /\ LET v == Len(forge[draft.repo]) + 1 IN
     forge' = [forge EXCEPT ![draft.repo] =
       Append(@, [draft EXCEPT !.version = v, !.manifest.version = IF draft.version = 0 THEN 0 ELSE v])]
  /\ UNCHANGED <<day, registry, index, build, failing>>
EditRegistry(reg) ==
  /\ build.pc = "idle" /\ reg # registry /\ registry' = reg
  /\ UNCHANGED <<day, forge, index, build, failing>>
NextDay ==
  /\ day < LastDay /\ build.pc = "idle" /\ day' = day + 1
  /\ UNCHANGED <<forge, registry, index, build, failing>>

IndexerNext ==
  \/ StartBuild \/ FetchEntry \/ WriteIndex \/ CancelBuild \/ NextDay
  \/ \E key \in build.todo: ResolveEntry(key)
  \/ \E draft \in Drafts: Release(draft)
  \/ \E reg \in Registries: EditRegistry(reg)

-----------------------------------------------------------------------------
(* install_dir_name: the directory an entry is installed into.             *)
InstallDirName(entry) == IF entry.id # "" THEN entry.id ELSE entry.key

(* However many builds fail, and in whatever pattern, an entry that stopped*)
(* building is gone MAX_STALENESS_DAYS after the first published build     *)
(* that failed it (carryforward.rs:7-10).                                  *)
CarriedAtMost ==
  \A k \in DOMAIN index.backends:
    failing[k] # -1 => index.at - failing[k] <= MAX_STALENESS_DAYS

(* Two backends of a published index never share their identity or their   *)
(* directory, the ones carried over from an older index included: "the     *)
(* second install replaces the first, taking its downloaded model files    *)
(* with it" (lib.rs:387-389).                                              *)
PublishedApart ==
  \A a, b \in DOMAIN index.backends: a # b =>
    /\ index.backends[a].source # index.backends[b].source
    /\ InstallDirName(index.backends[a]) # InstallDirName(index.backends[b])
=============================================================================
