----------------------------- MODULE MCPublish -----------------------------
(* From a release to a loaded model, and from a release of a product to    *)
(* its installed files.  `topic` limits what the authors release and which *)
(* machines there are, so that each topic is explored in full and the      *)
(* topics do not multiply.                                                 *)
EXTENDS Catalog, Installer

VARIABLE topic
publishVars == <<indexerVars, catalogVars, installerVars, topic>>

CONSTANT Topics

\* Machines: plain, NVIDIA, AMD (of a family and before it), a Vulkan laptop, a Mac.
Probe(target, driver, cc, cudnn, gfx, gpus, loader, macos) ==
  [target |-> target, driver |-> driver, cc |-> cc, cudnn |-> cudnn, gfx |-> gfx,
   gpus |-> gpus, loader |-> loader, macos |-> macos]
Plain  == Detect(Probe("linux", 0, <<0, 0>>, FALSE, {}, 0, 3, FALSE))
Nvidia == Detect(Probe("linux", 12, <<8, 6>>, TRUE, {}, 1, 3, FALSE))
Nvidia11 == Detect(Probe("linux", 11, <<7, 5>>, FALSE, {}, 1, 0, FALSE))
Amd    == Detect(Probe("linux", 0, <<0, 0>>, FALSE, {<<10, 3, 1>>}, 1, 2, FALSE))
OldAmd == Detect(Probe("linux", 0, <<0, 0>>, FALSE, {<<9, 0, 6>>}, 2, 0, FALSE))
Mac    == Detect(Probe("mac", 0, <<0, 0>>, FALSE, {}, 1, 0, TRUE))
MacMoltenVk == Detect(Probe("mac", 0, <<0, 0>>, FALSE, {}, 1, 2, TRUE))
MCHosts == {Plain, Nvidia, Nvidia11, Amd, OldAmd, Mac, MacMoltenVk}

\* Builds: the second knows a contract more, and a field of it.
Field == ContractField(2, "added", "models", "new")
MCIndexerBuild == [product |-> "p", latest |-> 1, rules |-> {}]
MCDaemonBuilds == <<MCIndexerBuild, [product |-> "p", latest |-> 2, rules |-> {Field}]>>

\* Manifests.
Entry(path, size) == [path |-> path, size |-> size, symlink |-> FALSE]
Tar(parts, entries) == [parts |-> parts, entries |-> entries]
GoodTar == Tar(<<1>>, <<Entry("entry", 1)>>)
Cpu     == SubprocessAsset("a", <<>>, "linux", {"cpu"}, 0, 0, FALSE, {}, 0)
Model(files) ==
  [devices |-> {"cpu"}, primary_language |-> "en", supported_languages |-> {"en"},
   multilingual |-> FALSE, realtime |-> FALSE, prepare_files |-> {}, files |-> files]
Manifest0 ==
  [product |-> "p", contract |-> 1, raw |-> [models |-> {{}}], entrypoint |-> "flat", id_valid |-> TRUE,
   id |-> "", source |-> <<"x/who", "">>, version |-> 1, kind |-> "subprocess", wasm |-> FALSE,
   assets |-> <<Cpu>>, models |-> <<Model(<<>>)>>, options |-> <<>>, websocket |-> FALSE,
   allowed_hosts |-> {}, names |-> {}, defaulted |-> {}, license |-> TRUE, valid |-> TRUE]
Draft(m) ==
  [repo |-> m.source[1], prefix |-> "", status |-> "published", version |-> 1,
   manifest |-> m, tar |-> GoodTar, complete |-> TRUE, magic |-> TRUE]

\* "options": one option.
Values == {IntegerValue(2), FloatValue(2), BoolValue(2), StringValue(Word), StringValue(IntText(2)), StringValue(Lines)}
Optional(S) == {None} \cup {Some(x): x \in S}
Opts == {Opt(t, d, c, lo, hi, st):
           t \in Optional({"integer", "float", "bool"}), d \in Optional(Values),
           c \in {<<>>, <<IntegerValue(2), FloatValue(2)>>, <<IntegerValue(2), IntegerValue(2)>>}
                 \cup {<<v>>: v \in Values},
           lo \in Optional({0, 3}), hi \in Optional({2, 3}), st \in Optional({0, 2})}
OptionDrafts == {Draft([Manifest0 EXCEPT !.options = <<o>>]): o \in Opts}

\* "builds": two assets.
Cuda(major, sm, cudnn) == SubprocessAsset("a", <<>>, "linux", {"cuda"}, major, sm, cudnn, {}, 0)
Rocm(gfx)      == SubprocessAsset("a", <<>>, "linux", {"rocm"}, 0, 0, FALSE, {gfx}, 0)
Vulkan(target, more, api) == SubprocessAsset("a", <<>>, target, {"vulkan"} \cup more, 0, 0, FALSE, {}, api)
Assets == {Cpu, Cuda(11, 0, FALSE), Cuda(12, 0, FALSE), Cuda(12, 86, FALSE), Cuda(12, 86, TRUE),
           Cuda(0, 0, FALSE), [Cuda(12, 0, FALSE) EXCEPT !.accel = {"cuda", "vulkan", "cpu"}],
           Rocm(<<10, 3, 0>>), Rocm(<<10, 3, 1>>), Rocm(<<9, 0, 0>>), Rocm(<<9, 0, 6>>),
           Vulkan("linux", {}, 0), Vulkan("linux", {"cpu"}, 3), Vulkan("linux", {}, Malformed),
           Vulkan("mac", {}, 2), Vulkan("mac", {"metal"}, 0),
           SubprocessAsset("", <<"a", "b">>, "mac", {"metal"}, 0, 0, FALSE, {}, 0)}
BuildDrafts == {Draft([Manifest0 EXCEPT !.assets = <<a, b>>]): a, b \in Assets}

\* "bundles": what publishing and installing check.
BundleDrafts ==
  LET tarred(tar) == [Draft(Manifest0) EXCEPT !.tar = tar]
      ofModel(f, v) == Draft([Manifest0 EXCEPT !.models = <<[@[1] EXCEPT ![f] = v]>>])
      wasm == [Manifest0 EXCEPT !.kind = "wasm", !.wasm = TRUE, !.assets = <<>>] IN
  {tarred(Tar(<<1>>, <<Entry("bin/entry", 4), Entry("lib", 1)>>)),    \* at the cap
   tarred(Tar(<<1>>, <<Entry("entry", 4), Entry("lib", 2)>>)),        \* one over it
   tarred(Tar(<<1, 1>>, <<Entry("entry", 4), Entry("lib", 4), Entry("doc", 2)>>)),
   tarred(Tar(<<0>>, <<Entry("entry", 4)>>)),                         \* at the floor
   tarred(Tar(<<2>>, <<Entry("entry", 5)>>)), tarred(Tar(<<1>>, <<Entry("lib", 1)>>)),
   tarred(Tar(<<1>>, <<Entry("entry", 1), Entry("escapes", 1)>>)),
   tarred(Tar(<<1>>, <<[Entry("entry", 1) EXCEPT !.symlink = TRUE]>>)),
   [Draft(Manifest0) EXCEPT !.complete = FALSE], [Draft(Manifest0) EXCEPT !.version = 0],
   Draft(wasm), Draft([wasm EXCEPT !.entrypoint = "nested"]), Draft([wasm EXCEPT !.wasm = FALSE]),
   [Draft(wasm) EXCEPT !.magic = FALSE], Draft([Manifest0 EXCEPT !.entrypoint = "escapes"]),
   Draft([Manifest0 EXCEPT !.product = "q"]), Draft([Manifest0 EXCEPT !.contract = 2]),
   Draft([Manifest0 EXCEPT !.defaulted = {"base_url"}]), Draft([Manifest0 EXCEPT !.license = FALSE]),
   Draft([Manifest0 EXCEPT !.websocket = TRUE]), Draft([Manifest0 EXCEPT !.names = {"list"}]),
   ofModel("devices", {}), ofModel("devices", {"none", "cpu"}), ofModel("supported_languages", {}),
   ofModel("realtime", TRUE), ofModel("prepare_files", {"d"})}

\* "updates": model files, in a checkout that is installed over and over.
File(url, sha256, accel) ==
  FileSpec(url, sha256, "d", accel, 0, {}, {}, 0, FALSE)
Variants1 == {File("u1", TRUE, {}), File("u1", FALSE, {}), File("u2", TRUE, {"cuda"}),
              File("u2", FALSE, {"cuda"}), [File("u3", TRUE, {"rocm"}) EXCEPT !.optional = TRUE]}
FileDrafts(sums) ==
  LET of == {f \in Variants1: f.sha256 \in sums} IN
  {Draft([Manifest0 EXCEPT !.models = ms]): ms \in
     {<<Model(<<f>>)>>: f \in of} \cup {<<Model(<<f, g>>)>>: f, g \in of}
     \cup {<<Model(<<f>>), Model(<<g>>)>>: f, g \in of}}

\* "rules": two repos of one name, and a field a later contract claims.
RuleDrafts ==
  {Draft([Manifest0 EXCEPT !.source = <<r, "">>, !.raw = [models |-> {{"new"}}]]): r \in {"x/who", "y/who"}}
  \cup {Draft([Manifest0 EXCEPT !.source = <<"y/who", "">>, !.contract = c]): c \in {1, 2}}
  \cup {Draft([Manifest0 EXCEPT !.source = <<"x/who", "">>, !.id = "i.d.x"])}

\* "entries": two entries of one repo, whose releases fail, collide and stop.
Of(prefix, id, sub) ==
  [Draft([Manifest0 EXCEPT !.id = id, !.source = <<"x/who", sub>>]) EXCEPT !.prefix = prefix]
EntryDrafts ==
  {Of("a", "i.d.x", "a"), Of("b", "i.d.x", "b"), Of("b", "", "a"), Of("b", "", "b"),
   [Of("a", "", "a") EXCEPT !.manifest.license = FALSE], [Of("b", "", "b") EXCEPT !.status = "draft"]}
InRegistry(prefix) == [repo |-> "x/who", prefix |-> prefix, id |-> "", id_valid |-> TRUE,
                       grandfathered |-> TRUE, removed |-> FALSE, cap |-> 0]
One == ("who" :> InRegistry(""))
Two == ("ka" :> InRegistry("a")) @@ ("kb" :> InRegistry("b"))
TwoRegistries == {Two, ("ka" :> InRegistry("a")) @@ ("kb" :> [InRegistry("b") EXCEPT !.removed = TRUE]),
                  ("ka" :> InRegistry("")) @@ ("kb" :> InRegistry("b"))}

-----------------------------------------------------------------------------
CONSTANT Sums   \* whether model files declare their digest
DraftsOf == [t \in Topics |->
  CASE t = "options" -> OptionDrafts [] t = "builds" -> BuildDrafts [] t = "bundles" -> BundleDrafts
    [] t = "rules" -> RuleDrafts [] t = "entries" -> EntryDrafts [] OTHER -> {}]
LocalOf == [t \in Topics |-> IF t = "updates" THEN FileDrafts(Sums) ELSE {}]
HostsOf == [t \in Topics |->
  CASE t = "builds" -> MCHosts [] t = "updates" -> {Plain, Nvidia} [] OTHER -> {Plain}]
RegistriesOf == [t \in Topics |-> IF t = "entries" THEN TwoRegistries ELSE {One}]
MCDrafts     == OptionDrafts \cup BuildDrafts \cup BundleDrafts \cup RuleDrafts \cup EntryDrafts
MCLocalDirs  == FileDrafts(Sums)
MCRegistries == {One} \cup TwoRegistries
MCRepos      == {"x/who", "y/who"}
MCRepoName   == [r \in MCRepos |-> "who"]

CONSTANTS p1, p2
ASSUME ProductsAssumption == {p1, p2} \subseteq Products
ASSUME TopicsAssumption ==
  \A t \in Topics: /\ DraftsOf[t] \subseteq Drafts /\ RegistriesOf[t] \subseteq Registries
                   /\ LocalOf[t] \subseteq LocalDirs

PublishInit ==
  /\ topic \in Topics /\ IndexerInit /\ CatalogInit /\ InstallerInit
  /\ registry \in RegistriesOf[topic] /\ host \in HostsOf[topic]
  \* "setup": one product with its desktop; "setups": two products, their files only.
  /\ topic # "setup" => panel = "none" /\ \A p \in Products: windows[p] = {} /\ ~legacy[p].bin
  /\ topic \notin {"setup", "setups"} => disk = [f \in Files |-> 0]
  /\ topic = "setup" => /\ ~legacy[p2].bin /\ windows[p2] = {} /\ disk[<<p2, "daemon">>] = 0

SetupNext ==
  \/ topic = "setups" /\ ((\E p \in Products: InstallerStep(p)) \/ NewRelease(Shared))
  \/ topic = "setup" /\ (InstallerStep(p1) \/ OpenApp(p1) \/ NewRelease(p1) \/ NewRelease(Shared))
  \/ topic \in {"setup", "setups"} /\ PowerCut

\* Outside "rules" and "entries", one release is enough: all are of one repo.
MayRelease == IF topic \in {"rules", "entries"} \/ forge["x/who"] = <<>> THEN DraftsOf[topic] ELSE {}

ListNext ==
  \/ /\ topic # "updates" /\ UNCHANGED catalogVars
     /\ \/ StartBuild \/ FetchEntry \/ WriteIndex \/ CancelBuild
        \/ \E key \in build.todo: ResolveEntry(key)
        \/ \E draft \in MayRelease:
             (topic = "entries" \/ draft.manifest.id # "" \/ forge[draft.repo] = <<>>) /\ Release(draft)
        \/ \E reg \in RegistriesOf[topic]: EditRegistry(reg)
        \/ topic = "entries" /\ NextDay
  \/ /\ topic # "entries" /\ UNCHANGED indexerVars
     /\ \/ \E key \in DOMAIN index.backends: InstallFromRegistry(key) \/ Update(key)
        \/ \E repo \in Repos: topic = "rules" /\ InstallFromRepo(repo)
        \/ \E draft \in LocalOf[topic]: InstallFromDir(draft)
        \/ \E d \in DirNames: topic = "rules" /\ Uninstall(d)
        \/ \E d \in DirNames, i \in 1..2: topic = "updates" /\ Load(d, i)
        \/ topic = "rules" /\ UpgradeDaemon
        \/ \E h \in HostsOf[topic]: ChangeHost(h)

PublishNext ==
  /\ UNCHANGED topic
  /\ \/ SetupNext /\ UNCHANGED <<indexerVars, catalogVars>>
     \/ topic \notin {"setup", "setups"} /\ ListNext /\ UNCHANGED installerVars

PublishSpec == PublishInit /\ [][PublishNext]_publishVars

-----------------------------------------------------------------------------
(* What the index lists is recent enough, and no two of its backends share an     *)
(* identity or a directory (carryforward.rs:7-10, indexer lib.rs:387-389).        *)
IndexIsSound == CarriedAtMost /\ PublishedApart

(* On every machine the best build that runs there is taken, and of a model the   *)
(* variant for that build (compat.rs).                                            *)
BestIsTaken == BestForThisHost /\ RightWeights

(* What is published installs, if it keeps what only the daemon checks, and the   *)
(* values its options offer are accepted (verify.rs:3, options.rs).               *)
PublishedIsUsable == PublishedInstalls /\ OffersAccepted

(* An installer's run that says it is complete left one whole release, one that   *)
(* was refused touched nothing, and no run takes the user's applet away, however  *)
(* it fails or is killed, unless the shared applet was left without its launchers *)
(* (super-engine-installer).                                                      *)
SetupIsWhole == [](CompleteIsWhole /\ DeniedTouchesNothing) /\ AppletAlwaysThere
=============================================================================
