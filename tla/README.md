# TLA+ models of Super Engine

Super Engine is a family of Rust crates for desktop products that put one daemon per user
in front of interchangeable model backends. The daemon hands out session tokens after asking
the user, downloads and verifies model files, installs and updates backends from a registry,
runs each backend as a sandboxed subprocess or as a WASM component, and streams events to its
clients. Beside it there are a client library, the indexer that publishes the registry, and
the installer of the products. This directory holds TLA+ models of the parts in which order,
concurrency, failure, restarts, or rules that two programs have to share matter; TLC checks
them on small instances and TLAPS proves the main safety properties for every instance.

Run a model with `tlc -config Admission.cfg MCAdmission`, a proof with
`tlapm AdmissionProofs.tla`. `PROJECT.json` lists the runs, maps each definition to the source
lines it stands for, and lists the hazards, the findings and the theorems. In every module an
operator `Op_Fault` (the name of another operator, an underscore, and what is wrong, as
`Enter_Unchecked`) is `Op` with one plausible bug; no specification uses it. Put in the place of
`Op`, it makes the property it is listed for fail, which shows that the property would notice.

- [Inventory](#inventory)
- [Modules and the code they model](#modules-and-the-code-they-model)
- [Runs](#runs)
- [Bounds](#bounds) and [fairness](#fairness)
- [Proofs](#proofs)
- [Findings](#findings) and [observations](#observations)
- [What is not modelled](#what-is-not-modelled)
- [Plan](#plan)

## Inventory

| crate | what it is |
|---|---|
| `super-engine-spec` | the backend contract: manifest, index, versions, archive and file helpers |
| `super-engine-forge` | HTTP client of GitHub/Forgejo releases |
| `super-engine-protocol` | names, paths, scopes and wire types shared by daemon and clients |
| `super-engine-daemon` | the daemon library: everything with state lives here |
| `super-engine-client` | client library: session cache, transport, event subscription with retry |
| `super-engine-indexer` | builds the registry index from the backends' releases |
| `super-engine-installer` | installs a product: a user stage, a root phase, post-install steps |
| `super-engine-test-daemon` | a daemon for tests |

The stateful components, by run.

| component | state | operations | hard because | correct when |
|---|---|---|---|---|
| **Load gate** (`load_gate.rs`) | ticket counter, FIFO async mutex | `ticket`, `enter`, drop of a future | a request may be overtaken while it waits, or dropped at its await | loads never overlap; the newest request wins; the gate is never lost |
| **Rate limits, identity, guards** (`resource_management/`, `auth/middleware.rs`, `auth/identity.rs`, accept step of `http/server.rs`) | client table, request history, sessions, what a pid runs | connect, origin gate, validate, bind, quota, cleanup | the table is keyed before the session is known and evicts clients that are connected; a process executes another binary between accept and check | nobody gets more than the quota through; what is served was granted to that binary or page; a stolen token is over |
| **Instance lock, server** (`instance.rs`, `http/server.rs`) | lock file, socket path | acquire, build, bind, serve, stop, crash | a start removes the socket file it finds, a stop unlinks the path | a daemon that serves is reachable |
| **Session tokens** (`auth/tokens.rs`) | map, one-place mailbox, persist task, channel | mint, validate, revoke, load, flush | a snapshot taken under a lock is written by another task; the wake is sent after the mailbox is unlocked; flush has a timeout; process exit | no older map over a newer one, no revoked token back after a flush |
| **Secrets file** (`secrets.rs`, `spec/fs.rs`) | contents in memory, one file for sessions and API keys | open, set aside, set, delete, set_sessions | two writers of one file; errors before and after the rename; a file that does not parse | neither writer loses the other's data; a file that was not read is never replaced |
| **Consent** (`auth/consent.rs`, `auth/routes.rs`, `auth/middleware.rs`) | lock registry, dialog semaphore, deny cache | `POST /auth/request` | locks created and pruned while others look them up; timeouts; clients that go away | one turn per key, one dialog, a denial is heeded, every request is answered |
| **Subprocess backends** (`subprocess/`) | claims, handles, units or pids, socket files, launch parameters | start, load (and restart), shutdown, drop, orphan sweep | everything is addressed by name or pid, so a handle can act on what it did not start; stops fail; futures are cancelled; the daemon dies; names are cut to fit | a handle speaks for its own backend; every process has somebody who will stop it; the sandbox holds what the backend is told to use |
| **WASM backends** (`wasm/`) | component, headers and egress list, streams, parked frames | load, reconfigure, call, realtime session | two locks read one after the other; polls race and drop the loser; a bounded body between guest and reader | it reaches only what it may; frames arrive once and in order; every call ends |
| **Settings, devices, language** (`config.rs`, `devices.rs`, `language.rs`) | settings file, choices | load and repair, set device, choose the language | offered, refused and resolved are three functions | what was offered is honoured |
| **Audio cues** (`beeper.rs`) | device callbacks, flag, end of the tone | beep, preview | the flag and the instant are raised at different ends of a callback | a cue is heard whole, and nothing of it after its end |
| **Event streams** (`events.rs`) | broadcast rings, forwarders, bounded channel, cancellation token | subscribe, ack, forward, keepalive, exe watch | forwarders run before the ack; full channels shed; lagging receivers | nothing lost after the ack unless shed; a changed binary loses its token; no task outlives the stream |
| **Client session and subscription** (`session.rs`, `widget_subscription/`, `retry.rs`, `http_client/`) | token cache and file, connection, backoff, buffer | obtain, with_token, forget, connect, read, reconnect | a token refused while another is obtained; bytes cut anywhere; wedged connections | scopes are asked for once and never short; the subscription heals; the stream is read whole |
| **Provisioning, load report** (`download*.rs`, `LoadWatch`) | model files, stamps, trackers, throttle | load, cancel, poll, report | two slots share a file, and their models may pin it differently; crash between rename and stamp; cancel and load write one status | a stamp never vouches for the wrong bytes; a load's report is true and has an end |
| **Backend installs** (`registry/install.rs`, `endpoints.rs`, `reconcile.rs`, `backends/discovery.rs`) | backends directory, staging, in-flight keys, catalog | install, update, import, scan, reconcile | renames of directories next to a scan and a reconciliation that remove them; rollback; crash | the last copy of a backend is not removed; what is announced is served; keys are freed |
| **Registry index, self-update check** (`registry/client.rs`, `self_update.rs`) | index in memory and on disk, ETag, candidate | get, refresh, check | coalesced calls that may be dropped at any await; a file written behind the lock; a channel that changes | a shared answer is as fresh as the call; no candidate of another channel |
| **Publishing** (`super-engine-indexer`, `super-engine-spec`, `registry/compat.rs`, `host.rs`, `carry_over.rs`) | releases, registry, index, installed directories, model files | build the index, install, update, load | two programs of different builds apply two sets of rules to one manifest | what is published installs; the best build is taken; what is served stays served |
| **Installer** (`super-engine-installer`) | files, service, windows, panel, leftovers of old installs | resolve, plan, stage, escalate, place, remove, post-install | killed between files; refused; run twice; two products share an applet | a run that says complete is whole; a refused one changed nothing |

How they interact. A request passes the **guards**, or asks for a token (**consent**), which
mints it in the **session tokens**; those submit snapshots to their task, which writes them
through the **secrets file**, and the backends' API keys go to the same file. With a token a
client opens an **event stream**, whose exe watch revokes the token again, or asks for a
model: the host takes a ticket at the **load gate** of the slot, **provisions** the model's
files, starts a **backend** for it with the **settings'** device and language, and reports the
load. **Installs** take entries of the **index** and change the directories that the host's
scan turns into the catalog; a scan's duplicates are handed to the reconciliation. The host
itself (the product's binary) is outside this repository: what the code expects of it is
modelled as an action that may happen at any time, and marked external in the map.

`PROJECT.json` lists every component, also those that are not modelled, and the forty hazards
that are the hardest to test.

## Modules and the code they model

**LoadGate** (`load_gate.rs`). `newest` is the atomic counter, `holder` and `line` the tokio
mutex with its FIFO queue. `Ticket` is `ticket`; `Lock`, `Enter`, `GiveUp` are the three ways
through `enter` (join the line or take the gate; go on; find oneself overtaken), `Finish` the
end of the load, `Drop` the drop of the future at any await, which leaves the line or releases
the gate. **LoadSlot** is the abstract specification: loads start one at a time, in the order
of their tickets. LoadGate implements it (`Slot == INSTANCE LoadSlot WITH ...`, property
`NewestWins`), by the mapping of `running` to the tickets that are loading and `started` to
those that ever got there.

**Gateway** (`resource_management/manager.rs`, `auth/middleware.rs`, `auth/identity.rs`, the
accept step of `http/server.rs`). A connection is accepted (`Connect`: the limit of
connections, the entry in the client table), a request arrives and passes the origin gate, the
session guard (`Validate`, then `Bind`, the identity check that revokes a stolen session) and
the quota in the order the product stacks them, and is served. `Cleanup` evicts, `Exec`
replaces what a process runs, `Tick` moves a bounded clock.

**Instance** (`instance.rs`, `http/server.rs`). Several daemons on one path: `Acquire` the
lock, `Build`, `RemoveStale` and `BindSocket`, `Signal`, `Unlink`, `LetGo`, or `Kill` at any
moment.

**SessionStore** (`auth/tokens.rs`, `secrets.rs`). `inner` is the map, `pending` the mailbox,
`chan` the task's channel, `task`/`ack`/`job` the persist task between its steps, `contents`
and `file` the secrets in memory and on disk. `Mint`, `Revoke`, `Evict` (the lazy expiry of
`validate`) change the map and submit in one step, because the code holds the map's lock for
both; the Wake is a step of its own (`SendWake`), because the mailbox is already unlocked
then. `TaskStep` is receive, drain, take, write and ack. A write succeeds, fails before the
rename (nothing changed), or fails behind it (the file changed and the memory did not).
`Flush` and `FlushTimesOut` are `flush_persisted_sessions`; `SetKey` and `DeleteKey` the API
keys; `Stop`, `Damage`, `Repair`, `SetAside`, `Start` a process exit, a file that becomes
unreadable or unparseable, and the next start. Every change of the map has a version, which
the code does not keep; it only serves to say how recent a snapshot is.

**ConsentFlow** (`auth/routes.rs`, `auth/consent.rs`). One request is `Arrive` (the metadata
is checked and gives the key), then the handler's steps: the cached denial, `LockFor`, the
lock, `Recheck`, the permit, the spawn of the dialog, the answer or the end of the minute, the
reaping of the helper, `Finalize`, `Release`, the return. `lockOf` is the request's clone of
the `Arc`, counted by `Release` as `Arc::strong_count` is. `Click` is the user and
`Disconnect` the client, who drops the handler at any await.

**BackendLifecycle** (`subprocess/mod.rs`, `subprocess/systemd.rs`). One instance (a backend
with a model), any number of handles. `own`, `stopped` and `stage` are a handle's state,
`claim` the process-wide claim on the instance, `unit` what systemd runs under the unit name of
each daemon life, `socket` whose socket the path leads to. The actions are the awaits of
`start`, `load` with its restart of a dead backend, `shutdown` and `Drop`, their failures and
their cancellation, the crash of the daemon, and the orphan sweep of the next life.
**Sandboxed** is the macOS supervisor (`sandbox_exec.rs`), which knows its child by a pid and a
pid file: the spawn, the two writes of the file, both teardowns and a cancelled one, a killed
daemon, the sweep of the next one, and pids that are handed out again. **LaunchPlan** computes
what either is started with, over sequences of characters: the instance key cut to the socket's
path, the unit's name and its owner read back, the environment, the writable paths of the
sandbox.

**Egress**, **Wasm**, **Realtime** (`wasm/`). Egress reads a base_url the way `base_url.rs`
does and decides with `host.rs` where a component may connect; Wasm loads a component, changes
its headers and then its hosts (two locks, two actions), and serves calls, in which the guest
and the reader run side by side over a pipe; Realtime is one session's receiving side with its
parked frames and its races.

**Settings**, **Beeper**. Settings reads and repairs the settings file, offers, sets and
resolves a device, and picks the language a model is asked for. Beeper follows a cue's buffers
in frames: the callback that fills them, the flag, the end of the tone, the player's polling,
and the drop of the stream.

**EventStream** (`events.rs`). One `GET /events`: `Open` is the topic and scope gate,
`Subscribe` creates a receiver and starts its forwarder, `Ack` sends `subscribed`, then the
keepalive and exe-watch task starts. `Forwarder` receives, lags, sends or ends; `Keepalive`
and `ExeWatch` are the two ticks, `Revoke` and `CancelAll` the two steps behind a changed
binary. `Read`, `Disconnect`, `PeerChanges`, `Publish` and `CloseBus` are the environment.

**ClientSession**, **EventWire** (`super-engine-client`). ClientSession has the calls and the
subscriptions of one process as tasks over the cache, the token file and the lock: obtain,
ask, save, present, forget, try once more; connect, read, back off, be blocked. The daemon is
what the client sees of it. EventWire is one connection below that: bytes that arrive cut
anywhere, blocks found in a buffer, comments, the idle deadline, the delays of `retry.rs`.

**Provision** (`download.rs`, `download_stream.rs`, `download_progress.rs`). Each slot runs its
plan file by file: check what is there, read the stamp, open and hash, write the stamp; or fetch,
stream, verify the tail, rename, look again, stamp. A plan's items carry the digest of their own
model's manifest, so two slots, or one slot before and after an update of the manifest, may pin
one destination differently; nothing in the code compares them. `lost` and `overtaken` are
history: where a load under one pin had another's file renamed over its own. Bytes stand for
their digest, and every write gives a file an mtime of its own. Cancellation, failure at each
await and a killed daemon come at any point; the user edits files only between loads.
**LoadReport** is one load as its client is told of it: the tracker and its throttle through the
files, then the polls of `SubprocessBackend::load` with their `LoadWatch`, next to a cancel, a
backend that dies, moves or hangs, and the time.

**Install** (`registry/install.rs`, `registry/endpoints.rs`, `registry/reconcile.rs`,
`backends/discovery.rs`). A job is a request; its steps are the in-flight key, resolution,
staging, unpacking, the manifest, the check of the occupant, the carried files, the swap with
its `.old` sidecar and rollback, the retired predecessor, the refresh, the announcement.
`Rescan`, `Reconcile` and `RemoveLoser` run next to any of it. A directory is what its
manifest says of it (source, version, id). `exposed` is history: the backends that an install has
put at risk since the daemon started, in one of the three ways the module names (`Brings`,
`Clears`, `Joins`). **IndexClient** has `get` and `refresh` with their
lock, the conditional request and the cache file written behind the lock; **SelfUpdate** the
check, its channel, its sharing, and what `status_for` shows.

**Options**, **Manifest**, **Verify**, **Compat** are the rules, as operators: what a manifest
must be to be read, installed and served, what an option accepts, what a tarball may hold,
which build a host takes. **Indexer** publishes with them (releases, the registry's edits and
failing downloads between any two steps; `MaybeCarryForward`, `EnsureUnique`, `WriteIndex`),
and **Catalog** EXTENDS it with the daemons that list, install, update, serve and load what
was published, while the machine's GPU and the daemon's build change. An install is one step
there; its interleavings are Install's.

**Installer** (`super-engine-installer`). `disk` has a version per file, `inst[p]` the run of
a product's installer: `ResolveRelease`, `PlanRun`, `StageRun`, `Escalate`, then as root
`PlaceEntry` and `RemoveReplaced` one file at a time, and the steps of `post_install::plan` in
its order: units reloaded, the legacy unit removed, the unit enabled, the service restarted, the app's
windows quit and opened again, the panel restarted, the legacy files removed. `PowerCut` ends
everything at any moment. An applet is two files: its binary, which alone decides whether the
next run takes it for current, and what the panel finds it by (the desktop files and the icon),
which is placed after it. A machine may start with an install in the user's home, and its window.

The **MC modules** compose. Components that share no state are put side by side under one
variable (`part`, `what` or `topic`) that says which of them a behaviour exercises; the others
keep their initial states, so that each is explored in full and they do not multiply. There
the runs' grouped properties are stated: a conjunction, named for what its parts say together
of one hazard's area (`Contained == StaysInside /\ ToldIsAllowed`).


## Runs

A property in italics is a group: a conjunction stated in the run's MC module, whose parts
are named behind the colon and stated, each with its comment, in the modules of the components.

| run | states | what it asks | properties |
|---|---|---|---|
| `admission` | 603,312 | load gate, gateway and instance lock, each on its own | `ServingIsReachable`; the refinement `NewestWins` of LoadSlot; `NewestLoads`: the newest request loads unless it is dropped or overtaken; *`AdmittedAsGranted`*: `QuotaPerMinute`, `ServedAsGranted`, `StolenIsOver` |
| `session_store` | 655,062 | mailbox, task, two flushes, two writers of one file, a failed write, a restart | `LatestWins`, `NoResurrection`, `FlushIsDurable`, `NeverReplacesUnread`, `SavedInTheEnd` |
| `consent` | 345,407 | three requests, three keys, a client that goes away, a user who may never click | `OneDialog`; *`TokensAsAllowed`*: `EveryTokenWasAllowed`, `NoTokenAfterDeny`; `EveryoneIsAnswered` |
| `backend_lifecycle` | 745,637 | a backend however it is run, what it is started with, and the cue | `HandleSpeaks`, `NeverStranded`, `RelayInOrder`, `EveryCallEnds`; *`Contained`*: `StaysInside`, `ToldIsAllowed`; *`ProcessesInHand`*: `EveryBackendOwned`, `NeverOutOfReach`, `RoomToBind`, `SparesStrangers`; *`StartsAsDecided`*: `SandboxFits`, `SocketFits`, `OwnerReadBack`, `LoadsAsWritten`, `OfferedIsHonoured`, `AskedLanguage`; *`CueIsHeard`*: `HeardWhole`, `SilentAfterPlayed` |
| `event_stream` | 393,384 | lag, shedding, stalled and vanished clients | `NoGapAfterAck`, `ChangedIsRevoked`, `TornDown` |
| `client_session` | 435,308 | a call and a subscription that share a token, and one connection's bytes | *`AsksForWhatItNeeds`*: `NeverShortOfScopes`, `BatchAsksOnce`; *`StreamIsRead`*: `FramedInOrder`, `GivesUpOnlyTheSilent`; `SubscriptionHeals` |
| `provision` | 454,024 | two slots that share a file and pin it alike or not, and one load as its client is told of it | `StampSound`, `OkMeansPinned`, `CancelHeeded`; *`LoadIsToldTruly`*: `SeenIsCurrent`, `EndIsSeen`, `MovingIsNotCut`; *`LoadsEnd`*: `EveryLoadEnds`, `LoadEnds` |
| `install` | 254,755 | installs next to scans and reconciliations; the index; the self-update check | `LastCopySafe`, `CompletedIsServed`, `EveryKeyIsFreed`; *`SharedAnswersAreTrue`*: `RefreshIsFresh`, `EtagNamesIndex`, `SharedResultIsFresh`, `CandidateOfItsChannel` |
| `publish` | 1,049,102 | from a release to a loaded model, and a product's installer | *`IndexIsSound`*: `CarriedAtMost`, `PublishedApart`; *`BestIsTaken`*: `BestForThisHost`, `RightWeights`; *`PublishedIsUsable`*: `PublishedInstalls`, `OffersAccepted`; `ServedStaysServed`; *`SetupIsWhole`*: `CompleteIsWhole`, `DeniedTouchesNothing`, `AppletAlwaysThere` |
| `load_never_answered` | violation | what the doc of `load` says of a backend that does not report | `InAll` |
| `install_swap_race` | violation | what `swap_into_place` says of a crash in it | `NeverLost` |
| `stamp_of_another` | violation | what the doc of the stamp says of the bytes it vouches for | `StampIsOfTheseBytes` |

What a property excepts is a state the code can reach, kept as a history variable, never an
assumption on what is asked for or on disk:

- `LastCopySafe` and `CompletedIsServed` hold of every backend that is not `exposed`. A backend is
  exposed, until the next start, once two jobs for it (under two keys) or for a directory of its
  name run side by side; once a rename brings a copy of it to a path that somebody is about to
  remove (a stale sidecar, as in `install_swap_race`), or to where another copy wins (an older
  build imported beside a newer one); or once a swap clears a sidecar that wins (the only copy, or
  the newest). These are all the ways in which the modelled code loses a last copy: the theorem
  says so for any jobs and layouts.
- `StampSound` and `OkMeansPinned` except what a load under another pin renamed over a load that
  had verified its own file, as in `stamp_of_another`.
- `SetupIsWhole` excepts the launchers of a shared applet that a run found current by its binary,
  and a window of the copy in `~/.local/bin`.
- `NeverStranded` excepts a handle that is dropped after its `shutdown`.

Deadlock is checked in `provision`, where something may always happen. It is off elsewhere,
where a finite supply of requests, calls, spawns or releases ends and the system is at rest.

## Bounds

- **admission**. LoadGate: four requests, of which one loads, one waits, one overtakes it and
  one is dropped. Gateway: one native process and two web pages, of which one origin is
  allowed, two tokens, one request a minute and two an hour, three units of time against an
  eviction after two, three events (`MaxEvents`), so that a client can be evicted with its
  connection open and come back inside its minute. Instance: three daemons, one that serves,
  one that waits and one that starts after a crash.
- **session_store**. One token, one key, two flushes, `MaxVersion` 2, one failed write, one
  exit. Two changes of the map are enough for an older and a newer snapshot (one in the
  mailbox, one with the task), two flushes for one that replaces the other's ack, a failure and
  a restart for every mix of memory and file.
- **consent**. `r1` asks as an ordinary client or as a first-party one and may disconnect,
  `r2` has the same key or another one, `r3` the same key: two share a lock while a third is
  elsewhere, or three share it (owner, waiter, and one that prunes or finds it pruned).
- **backend_lifecycle**. Two handles, four spawns (each may restart once), two lives (one to
  crash and one to sweep); a third handle adds nothing, since at most one holds the claim. Two
  pids and three boots, so that a pid is handed to a stranger after either of two crashes.
  One call, two saves of the settings, two chunks over a pipe of one: the guest is ahead of the
  reader, behind it, or gone. Three frames over a queue of two. A socket path of 16
  characters, a digest of two and keys of at most nine stand for 108, 16 and 64: every way a
  name fits or is cut occurs. Cues of none, one and two tones over buffers of three frames.
- **event_stream**. A topic with two events and a ring of one, so that it lags; a topic that
  does not; a topic that is not granted; a channel of two, which the ack or a keepalive and one
  event fill. The real sizes are larger and the same cases happen later.
- **client_session**. One call and one subscription, two faults (an outage, a revocation, a
  stream that breaks or is wedged), four tokens (`MaxTokens`), an initial file that is missing,
  fits, or is short of a scope. On one connection: two blocks, a keepalive every two ticks and a
  deadline of four, two attempts.
- **provision**. Two slots that share a weights file, which the second one's manifest pins as the
  first one's does or otherwise; the first wants an unpinned file before it. Two downloads, one
  edit. The weights are at first an earlier manifest's, verified and stamped, and the edit or a
  load makes them anything else. LoadReport: two files of one size in two chunks, of which one
  may be lost to the throttle; a stall after two ticks and an end after three.
- **install**. Three names, and two jobs at a time: an update and its retry, or an update and an
  import of an older build under another name. Six layouts of the directory at start: the backend
  in its old directory, in the new one, only in a sidecar, in the old one beside an unreadable
  new one, with a leftover sidecar, and in a sidecar beside an unreadable directory.
  `install_swap_race` starts from a leftover sidecar. Two callers, two published indexes, two
  fetches, a time to live of one and a clock of two. Two checkers, three checks, and releases up
  to a fourth, of which two are betas.
- **publish**. `topic` picks what authors release and on which machines: options (every
  option over a few values), builds (every pair of seventeen assets on seven machines),
  bundles, rules (two builds of the daemon), entries (two of one repository, two releases,
  four days against a staleness of two), updates (every pair of model files). `setup` is one
  product with its desktop, `setups` two products that share the applet; two releases, two
  runs: one that is killed between the applet's binary and its launchers, and the next.
  Outside `rules` and `entries` one release is published: all would be of one repository.

Counters that grow without end in the code are capped in the guards of the actions that
count (`MaxVersion`, `MaxSpawns`, `MaxTime`, `MaxTokens`, ...); each cap is a CONSTANT of its
module, with a comment that says what it stands for. The proofs have no bound but those caps,
for any value.

## Fairness

Fairness of steps that the runtime, a FIFO lock or a timer guarantees; never of users, peers,
clients, failures or the network. It is weak but for two waits in a FIFO queue, where the wait
is enabled and disabled with its turns and strong fairness says what the queue does.

- **LoadGate**: a request with a ticket is a task; tokio polls a future whose wait is over
  (`Lock`, `Enter \/ GiveUp`), and a load returns (`Finish`).
- **SessionStore**: the persist task is polled (`TaskStep`), a handler that holds the lock goes
  on to send (`SendWake`), and the flush's timer fires (`FlushTimesOut`).
- **ConsentFlow**: each handler (`HandlerStep`). The dialog has its minute, the mutex and the
  semaphore are FIFO, and a killed helper is reaped. The user need not click.
- **EventStream**: the handler, each forwarder, the keepalive and the exe-watch tick (after the
  biased select takes the keepalive, only the other tick is ready), and the two steps behind
  it. Neither the client's reading nor its leaving is fair.
- **Wasm, Realtime, Beeper**: a guest's code runs to its end (it writes its body, then
  returns), the reader and the join are polled, what the host can answer it answers, and the
  audio device calls back. Nobody has to send, to dial or to hang up. BackendLifecycle,
  Sandboxed, LaunchPlan and Settings are checked for safety only.
- **ClientSession**: the tasks are polled, the backoff's timer fires, a daemon that went down
  comes back up (`ComesUp`: the service restarts it; with a daemon that never does,
  `SubscriptionHeals` has nothing to say), and the session's tokio mutex is FIFO (`SF` of
  `Queue`).
- **Provision**, **Install**: each load or job goes on (`Work`): the HTTP clients have
  timeouts, and a step that cannot succeed fails. **LoadReport**: the files' stream and the polls
  go on, time passes, and a poll is answered as long as the backend has not hung, which is the
  case `load_never_answered` is about.
- **IndexClient**: the refresh lock is FIFO (`SF` of `TakeLock`), a caller that holds it goes
  on, and a blocking write that was started ends.
- Gateway, Instance, SelfUpdate, and everything in `publish` are checked for safety only.
  `AppletAlwaysThere` and `ServedStaysServed` are action properties.

## Proofs

Each `...Proofs` module proves `Spec => []IInv` for an inductive invariant and derives the
theorems from it. The assumptions are the `ASSUME`s of the modules, which say how the constants
are typed (`NoOneAssumption`, `BoundsAssumption`, `KeysAssumption`, ...); TLC evaluates them on
every run. What is asked for and what is on disk at the start is typed and no more: any keys,
any layout of the backends directory, any pins. `CatalogAssumption` says that the builds of a
daemon belong to one product and that their latest contract only grows from one build to the
next, and `DeviceAssumption` that the audio device's callback is no later than the padding and
the grace the code adds make up for (the observations say what happens otherwise).
`WireAssumption` says the same of a keepalive: written when it is due and delayed no longer than
`LATENCY`, it comes before the reader's deadline (15 s and 45 s in the code).
`LaunchAssumption` says that an owner is two numbers in digits, that the marks of a name (`-`,
`p`, `t`) are no digits, and that the cap on a key leaves room for the shortest one
(`MAX_INSTANCE_KEY`, 64, and `MIN_INSTANCE_KEY`, 18); names and paths are any texts.
`SettingsAssumption` types what a machine, a build, a model and a settings file may hold: a file
that parses has only fields the daemon knows, and a tag has a base. `WasmAssumption`,
`ClientAssumption`, `DraftsAssumption` and `TopicsAssumption` type constants. Nothing else is
assumed: requests, tokens, handles, topics, sockets, drafts and slots may be any set.
Where one module of proofs serves several components it has a part for each, over that
component's own specification (`GatewaySpec`, `InstanceSpec`, `SandboxedSpec`, `IndexSpec`,
`SelfUpdateSpec`, `ReportSpec`, `InstallerSpec`, ...). `AdmissionProofs`, `BackendLifecycleProofs`,
`EventStreamProofs`, `ProvisionProofs`, `InstallProofs` and `PublishProofs` extend the MC module
(`EventStreamProofs` that of the client) to conclude for the composed specification that the run
checks, whose steps are each a step of one component and a stutter of the others.

| module | theorems | what makes the invariant inductive |
|---|---|---|
| AdmissionProofs | `LoadsNeverOverlap`, `TheGateIsNeverLost`, `OnlyOneMoreLoad`, `GateImplementsSlot`, `ADaemonThatServesIsReachable`, `AStolenSessionIsOver`, `OnlyTheGranteeIsServed`, `NobodyPassesItsQuota`, `WhatIsAdmittedWasGranted` | the owner of the gate is exactly who is past the line (`OwnerPassedTheLine`), the line holds exactly the waiters (`LineIsTheWaiters`), tickets are distinct and at most `newest` (`TicketsAreDistinct`). The refinement follows from the last one: whoever enters has `ticket = newest`, and every other ticket, started or not, is smaller. Whoever is past the instance lock holds it, so a daemon that unlinks or binds is the only one up (`InstanceInv`). A token that was lost is not live, a late request is one of a lost token, and what passed the identity check was at that moment what the request remembers of its caller (`RequestInv`). What passed the limiter in the last minute is counted by the history of its client at this and at every later instant, and a client without a history has nothing that still counts (`Counted`): a sweep keeps an hour, and an entry is dropped only after an idle time of a minute at least |
| SessionStoreProofs | `Typed`, `NoWakeupIsLost`, `SnapshotsInOrder`, `IdleMeansSaved`, `RevokedStaysRevoked`, `AckedFlushIsDurable`, `KeysKept`, `FileMovesForward`, `UnreadIsKept` | a version determines its map (`VersionsAreMaps`), so order of versions is order of maps; a stopped process has no memory (`DownIsBlank`), a snapshot is held only while it is written (`JobOnlyInWrite`), memory and file agree after a good write (`GoodWriteAgrees`), and an unanswered flush belongs to the present run (`FlushIsOfThisRun`). `UnreadIsKept` needs only that a daemon that runs has read its file (`RunsOnWhatItRead`) |
| ConsentFlowProofs | `TurnsNeverOverlap`, `DialogsNeverStack`, `DenialIsHeeded`, `TokensAreAllowed`, `DeniedGetsNoToken`, `TokensFollowTheUser` | whoever uses a lock of a key uses the registered one (`Registered`): `Release` removes an entry only when nobody else has a clone. Then the lock's owner is the only one in its turn (`Owned`), and only that one can deny the key |
| BackendLifecycleProofs | `HandlesSpeakForTheirOwn`, `NoBackendIsForgotten`, `NoSocketIsStranded`, `ClaimNeverLeaks`, `SandboxedStayInHand`, `ProcessesStayInHand`, `ComponentsStayInside`, `CuesAreHeard`, `FramesArriveInOrder`, `BackendsStartAsDecided` | the claim is held exactly in certain stages (`ClaimIsExact`), so of two handles only one acts on unit and socket; who answers behind the socket (`Answers`), and that a restart stopped its predecessor first (`Restopped`). Of a sandboxed process: a leader is the daemon's child until it is reaped, so its pid is not handed out (`LeaderInHand`), and who runs is the child or what the pid file names to the next sweep (`NamedOrHeld`). Of a component: the endpoint a call was given, and the lists it asks, are those of one configuration each, whatever is swapped meanwhile. Of a cue: the instant at which its last sample is heard, and until when the stream is held, are known from the moment it is written. Of a socket: what the guest received, what is parked and what is on its way carry consecutive frames, each part ascending and the next one beginning where it ends (`Flow`). Of a launch: each start that was recorded fits as it was decided (`LaunchInv`). A key is cut to what the socket directory leaves; the last marks of a unit's name are those the owner was put behind, whatever stands before them (`NamedOwnerIsRead`), and a name without them has no owner (`OldNameHasNoOwner`); a path written to the profile with its escapes is read back (`EscapedReadsBack`). Of the settings: the file on disk and the configuration in memory are read back as each other (`SettingsInv`), what is offered is decided on the list that is resolved (`OfferedAreHonoured`), and a tag is looked for under each spelling of its base (`LanguageIsAsked`) |
| EventStreamProofs | `EventsInOrder`, `NothingMissedAfterAck`, `ClientsAskForWhatTheyNeed`, `StreamsAreRead` | per topic `seen < channel < hand <= pos <= published` (`SeenBehind`, `ChanBehind`, `Held`), the channel ascending (`Ascending`), and everything between the ack and `pos` in one of the three (`Complete`). Of the client: what a task holds was requested with what it needs (`HoldsWhatItNeeds`), and of one scope set only the owner of the session's mutex asks, once as long as nothing fails (`OneAsks`, `OneSuffices`). Of its bytes: what is buffered and what is under way are together a sequence of whole blocks (`Framed`: each starts with text, ends with its first blank line, and names its event on its last line) that holds the blocks after those told, in order (`Unread`), so a cut at the first blank line is one block and leaves whole ones. A keepalive due since the last event is among them, and late by no more than `LATENCY` (`Paced`) |
| ProvisionProofs | `StampsAreTrue`, `OkIsPinned`, `CancelStopsTheLoop`, `ClientsAreToldTruly` | what each step of a load knows of its file (`Local`): its digest is that of the mtime it saw, if the file still has that mtime, and otherwise what is there is its own pin's or the load is known to have lost it; a rename puts there only the renaming load's pin, under an mtime nobody has seen; mtimes are never given twice and none is ahead of the clock (`Unseen`, `Bounded`); files already passed are pinned or lost (`Done`). Of a report: the throttle drops only what is close to the payload seen last (`SeenIsCurrent`), the end is marked before it is sent (`EndIsMarked`), and the watch has stood still no longer than the backend's report has (`WatchIsOfTheReport`) |
| InstallProofs | `KeysAreExact`, `TheLastCopyStays`, `WhatCompletesIsServed`, `InstallsAreSafe`, `RefreshesAreFresh`, `EtagsStayWithTheirIndex`, `SharedChecksAreFresh`, `CandidatesKeepTheirChannel`, `SharedAnswers` | `KeysInv`: the jobs' stages and the set of keys together. `DirsInv`: of the copies of a backend one wins (`OneWinner`), and nobody is about to remove it (`WinnersStay`); two jobs that could disturb each other are known to (`RivalsKnown`); and each job knows what it staged, which of directory and sidecar holds the backend while it swaps, and that what it placed wins (`JobsKnow`). Each of the three is claimed of the backends that are not `exposed`, and every step that could break it for one exposes that one. Of the index: one call is past the lock (`OneRefresh`), it waits for at most one write (`OneWrite`), and a fetch that ended while a call waited is in memory (`SharedIsFresh`). Of the check: the generation counts the conclusions, so one that ended meanwhile is told from one that did not (`SelfUpdateInv`) |
| PublishProofs | `CompletedRunsAreWhole`, `NoRunTakesTheApplet`, `SetupsAreWhole`, `IndexesAreSound`, `WhatIsPublishedIsUsable`, `ServedBackendsStay`, `TheBestIsTaken` | what a run is to place is in place or still in its queue, and its removals wait for an empty queue (`FilesKnow`), so whatever an earlier run left half done is overwritten before this one is complete, and the shared applet's binary, with its launchers if this run places them, is there before a product's own goes. What a run does not place, it found by the binary alone, which is why a torn applet is excepted (`Torn`). A window is restarted unless it is of the copy in the user's home (`WindowsKnow`). The steps after that are in the order of the plan, and each that is over has left what it is for (`PostKnows`): the legacy unit is gone before `enable` makes systemd read the units again, which comes before the restart. A failure of the root phase is told from a refusal by its exit code (`RootEndsHolds`). Of the index: an entry that could not be built is dated since the first published build that failed it, through every carry-over (`StaleIsSince`, `CarriedIsSince`), and identities and directories are kept apart (`Apart`). Of a selection: after each candidate the choice is the first of the best so far (`IsBest`), in the lexicographic order of the scores; the files kept on disk are ones the manifest there names (`DirsInv`, `Keeps`), and what an upgrade loads it had accepted (`LoadedRight`) |

Some of these theorems are about properties that no run lists (`OneLoadAtATime`, `GateNeverLost`,
`AtMostOneMoreLoad`, `NoLostWakeup`, `QuietMeansSaved`, `KeysAsPromised`, `FileNeverGoesBack`,
`OneTurnPerKey`, `NeverAsksAfterDeny`, `ClaimIsExact`, `InOrder`, `InFlightExact`, `TypeOK`): TLC
found no counterexample to them in the same models, and the proof now stands for the run.

The texts of a launch are written by recursive functions. A theorem about one of them holds for
texts of any length: two such functions that take the same step agree everywhere, because there
is no least place at which they differ (`SomeIsLeast`, `EscapeSpells`, `LiteralReads`). The
library's induction theorems, which take a predicate as a parameter, are not needed for it.

Every invariant and action property of a passing run is stated by a theorem, or is a part of one.
Only model-checked is liveness, which the prover has no means for: `NewestLoads`,
`SavedInTheEnd`, `EveryoneIsAnswered`, `ChangedIsRevoked`, `TornDown`, `EveryCallEnds`,
`SubscriptionHeals`, `LoadsEnd`, `EveryKeyIsFreed`.

## Findings

1. **A load is not cut off when its backend stops answering** (`load_never_answered`;
   `subprocess/mod.rs:562`). `load` polls the backend's status with a request that has no
   timeout, and looks at the clock only once an answer is in. A backend that takes the
   connection and stays silent is waited for without end; the doc of `load` gives it
   `LOAD_TIMEOUT` in all.
2. **A reconciliation can remove the only copy** (`install_swap_race`;
   `registry/reconcile.rs:70`). A leftover `<final>.old` that was found as a duplicate may, by
   the time it is removed, be where a swap has put the live directory. A crash, or a failed
   rename, then leaves no backend; `swap_into_place` promises a recoverable sidecar.
3. **A stamp can vouch for bytes of another pin** (`stamp_of_another`; `download.rs:354`). A
   manifest's models, and a manifest before and after an update, may pin one destination
   differently (`manifest.rs` checks no such thing). A load that has verified and renamed its
   file reads the metadata by path; when a load under the other pin has renamed its own over it
   in between, the first one stamps the other's file with its own digest, and trusts it from then
   on. The doc of the stamp (`download.rs:74-91`) has it vouch for exactly these bytes.

## Observations

Read in the code while modelling; the models behave the same way, and no run states them as
violations.

- A flush is acked although its write failed: `persist_snapshot` only logs it
  (`auth/tokens.rs:152`). `FlushIsDurable` is stated with that exception.
- Of two consent requests that release a lock together, each counts the other's clone and
  neither removes the registry's entry; a dropped handler never releases (`auth/consent.rs:78`).
- A handle dropped after its `shutdown` unlinks the socket of the next handle's backend
  (`subprocess/mod.rs:747`); this is the exception of `NeverStranded`.
- What a client sent is marked in flight before it is resolved, so a source and its
  repository's URL are two keys for one backend (`registry/endpoints.rs:789`).
- An import of an older version into another directory than the installed one can lose both
  (`registry/reconcile.rs`): a rescan between the swap and the retirement finds the new directory
  to be the older duplicate and removes it, while the pipeline retires the other. And a swap
  first removes the sidecar of its directory, which is the only copy when a crash left it there
  beside an unreadable directory (`install.rs:647`). Both expose the backend in Install.
- A cache file of the index that does not parse hides the registry: the error of reading it leaves
  `refresh` before the registry is asked (`registry/client.rs:168`), and nothing removes the file.
  The doc of `get` (`registry/client.rs:115`) allows `Unavailable` only when the network is
  unreachable.
- Two instance keys collide when a dash moves from the directory's name to the model's
  (`subprocess/mod.rs:1040`).
- A WASM component's headers and its egress list are two locks, changed one after the other; a
  request between them sends the new headers by the old list (`wasm/mod.rs:236-248`).
- A poll parks a frame, and a later `recv` delivers it also after the socket was closed locally.
- A native client that is idle past the timeout leaves the table although its connection is open, and
  its next request is refused (`manager.rs:172`).
- Of two calls refused with one token, the slower forgets whatever is stored by then, the
  other's new token included, and the user is asked again (`client/session.rs:354`).
- A subscription is `Connected` for its user before the daemon has subscribed it.
- The doc of the event stream names shutdown among what ends a subscription (`events.rs:511-519`);
  the code cancels it for a client that left and for a changed binary. `TornDown` is about these.
- A cancel that a load has not looked at yet is shown as `cancelled` only until `mark_verifying`
  or `mark_downloading` of the file at hand writes the status (`download.rs:246`, `282`).
- A settings file that does not parse is reset as a whole, and the TCP listener's origins become
  `["*"]` (`config.rs:103`).
- A model file variant without a digest is neither carried over nor fetched again when its
  URL changes (`carry_over.rs:15`, `download.rs:168`): `RightWeights` is about files that were
  fetched, and about digests.
- A backend installed by an older daemon whose manifest the newer rules refuse counts as
  unreadable: an install of another source under its name replaces it, for `ensure_dir_free_for`
  protects what loads strictly (`install.rs:623`). `ServedStaysServed` says so.
- What the indexer accepts, the daemon may refuse: it alone checks a manifest's capabilities
  (`validate_runtime`, `backends/mod.rs:62`) and devices (`backends/discovery.rs:276`), and a
  WASM component must lie at the top of its directory; and a daemon of an older contract refuses
  more (`indexer/manifest.rs:113`). `Installable` in Catalog.
- A root phase that ends after the shared applet's binary and before its desktop files leaves an
  applet the panel cannot find. The next run asks only the binary for its version (`applet.rs:61`),
  finds it current, places nothing, removes the product's own applet (`stage.rs:417`) and reports
  complete. In the same way a newer binary may keep older launchers.
- A window of the app in `~/.local/bin` is not restarted: `runs_app` matches the installed path
  and its deleted file only (`post_install.rs:239`).
- The installer reads the applet's version before minutes of downloading (`installer/lib.rs:280`);
  a first install that was killed after its first file looks like an update (`stage.rs:120`); and
  the unit files are reloaded before the legacy unit is removed, so that a failing `enable`, which
  is only logged, leaves the old build to be started by a run that reports complete.
- An audio callback that is later than the silence padding makes up for loses the end of a cue on
  a device that tells no time (`beeper.rs`); `DeviceAssumption` excludes it.
- A session keeps one record per application: an application that uses several scope sets
  replaces the record with each, and can show more than one dialog per set (`client/session.rs`).
  `BatchAsksOnce` is about calls that need the same.
- On macOS a cancelled stop leaves its pid file, and a daemon killed between spawning a backend
  and writing its pid file loses the process (`sandbox_exec.rs:137`); `lost` in Sandboxed.

## What is not modelled

Within the modelled components:

- LoadGate: the wrap of the 64-bit ticket counter.
- Gateway: CORS headers, the draining of a refused body, statistics. Instance: the TCP listener.
- SessionStore: the metadata of a token; the instant at which `expires_at` equals now.
- ConsentFlow: the metadata checks, `AUTO_APPROVE` (debug builds), the helper's command line.
- BackendLifecycle: the requests to a backend once it serves. Sandboxed: the descendants of the
  leader. LaunchPlan: the rest of the environment.
- Wasm and Realtime: what the guest sends, the handshake, a name that resolves differently
  between the check and the connection (which the code notes). Egress abstracts an address to
  its network and its form.
- Settings: the GPU report on the wire. Beeper: the waveform and its fades.
- ClientSession: request builders and JSON; EventWire takes an event for its block.
- Provision: a power loss (the order in which data, rename and directory reach the disk).
- Install: the contents of an artifact (Verify's), and a scan that sees half of a change (a scan
  is one step). IndexClient: an index is one that parses or one that does not.
- Indexer: `local.rs` (an index of local checkouts, for development) and `license.rs` (a
  comparison of texts). Options, Manifest: TOML, the grammars of versions and paths, and the
  JSON schema generator; they are what they answer. Compat: the probes of the machine are inputs.
- Installer: progress events, the dry run, the wrapper script, the product's own hook.

Not modelled at all: the forge client (HTTP calls; its failures and timeouts are failures in the
modules that call it), the protocol crate (names and wire types; the scope table is EventStream's
`Granted`), the test daemon, `audio/analysis.rs`, and generated or vendored files.
`PROJECT.json` gives the reason for each.

## Plan

Done: the load gate, the sessions, the consent, the subprocess backends, the event streams, the
provisioning and the installs; then what surrounds them: admission, the macOS supervisor, launch
parameters, WASM, settings and cues, the client's session and wire, the load report, the index
and the self-update, the contract's rules with the indexer and the catalog, and the installer.
Of each component the safety properties are proved.

Left, in this order:

1. The conditions under which the three violations cannot happen, as theorems: a backend that
   answers each request within a bound, a reconciliation that looks again before it removes, a
   stamp taken from the file that was verified instead of from its path.
2. The forge client (a single page of releases is read), the product's own post-install hook, the
   development index of `local.rs` and the licences of `license.rs`, and a name that resolves
   differently between a component's check and its connection.
