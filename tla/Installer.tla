----------------------------- MODULE Installer -----------------------------
(***************************************************************************)
(* The installer and self-updater (super-engine-installer): resolve a      *)
(* release, stage it, escalate, place the files one rename at a time as    *)
(* root, and restart what runs.  Each product has its own installer; the   *)
(* COSMIC applet is shared.  A run may fail at any step, be refused, or be *)
(* killed between two files, and be started again.  A version is a number, *)
(* 0 a file that is not there.                                             *)
(***************************************************************************)
EXTENDS Naturals, Sequences, SequencesExt, FiniteSetsExt

CONSTANTS
  Products,
  Shared,       \* the applet's own repo
  BetaReleases, \* the versions that are prereleases
  LastRelease,  \* bound: every repo releases 1..LastRelease in turn
  Selections,   \* the values of --components, or "detect"
  MaxRuns       \* bound: runs started

ASSUME InstallerAssumption == Shared \notin Products /\ LastRelease \in Nat

VARIABLES
  disk,     \* disk[<<owner, file>>]: the version of an installed file
  service,  \* service[p]: the version p's daemon runs, 0 when stopped
  newest,   \* newest[r]: the newest version released in repo r
  legacy,   \* legacy[p]: what an install from before /usr/local left in p's home
  windows,  \* windows[p]: the app windows open, of which one may have launched the run
  panel,    \* the panel's copy of the applet: "none", "fresh" or "stale"
  inst,     \* inst[p]: the run of p's installer
  runs      \* runs started

hostVars      == <<legacy, windows, panel>>
installerVars == <<disk, service, newest, hostVars, inst, runs>>

ProductRepos        == Products \cup {Shared}
ProductFiles == {"install", "daemon", "unit", "app", "applet", "launchers"}
Binaries     == ProductFiles \ {"unit", "launchers"}  \* what lies in <prefix>/bin
SharedApplet    == <<Shared, "applet">>     \* an applet's binary, and the .desktop files
SharedLaunchers == <<Shared, "launchers">>  \* and the icon the panel finds it by
Legacy       == LastRelease + 1  \* the build in ~/.local/bin, as a version
SharedFiles  == {SharedApplet, SharedLaunchers}
Files        == (Products \X ProductFiles) \cup SharedFiles

Idle == [pc |-> "done", code |-> "none", beta |-> FALSE, target |-> 0, applet |-> 0,
         comps |-> {}, todo |-> <<>>, removals |-> {}, by |-> "none", systemd |-> TRUE,
         touched |-> FALSE, changes |-> FALSE, steps |-> <<>>, pids |-> {}, clean |-> TRUE,
         stayed |-> FALSE]

(* A machine with nothing installed, with a release from before the shared *)
(* applet, or with one in the user's home, whose app may be open.          *)
InstallerInit ==
  /\ \E old \in SUBSET Products:
       /\ disk = [f \in Files |-> IF f[1] \in old /\ f[2] # "install" THEN 1 ELSE 0]
       /\ legacy \in [Products -> {[unit |-> b, bin |-> b, loaded |-> b]: b \in BOOLEAN}]
       /\ \A p \in old: ~legacy[p].bin
       /\ service = [p \in Products |-> IF legacy[p].bin THEN Legacy ELSE IF p \in old THEN 1 ELSE 0]
       /\ windows \in [Products -> {{}} \cup {{[version |-> v, launcher |-> FALSE]}: v \in {1, Legacy}}]
       /\ \A p \in Products: \A w \in windows[p]: IF w.version = Legacy THEN legacy[p].bin ELSE p \in old
       /\ panel \in {"none", "fresh"} /\ (old = {} => panel = "none")
  /\ newest = [r \in ProductRepos |-> 1]
  /\ inst = [p \in Products |-> Idle] /\ runs = 0

-----------------------------------------------------------------------------
Step(p, from, new) == inst[p].pc = from /\ inst' = [inst EXCEPT ![p] = new]

(* The run ends and reports its code, the wire contract with the app.      *)
Report(p, code) == [Idle EXCEPT !.code = code, !.touched = inst[p].touched]
Complete(p, run) == [Report(p, "complete") EXCEPT !.target = run.target, !.comps = run.comps,
                       !.applet = run.applet, !.systemd = run.systemd, !.clean = run.clean, !.stayed = run.stayed]

(* resolve::pick_release: the highest version of the channel, or a pin.    *)
PickRelease(r, beta) == Max({0} \cup {v \in 1..newest[r]: v \in BetaReleases => beta})

(* resolve_release: "not_resolved" stands for the codes of an unsupported  *)
(* architecture, an unreachable forge, no release, a missing asset.        *)
ResolveRelease(p) ==
  /\ runs < MaxRuns /\ runs' = runs + 1
  /\ \E beta \in BOOLEAN, pin \in {0} \cup 1..newest[p]:
       LET v == IF pin # 0 THEN pin ELSE PickRelease(p, beta) IN
       \/ v # 0 /\ Step(p, "done", [Idle EXCEPT !.pc = "resolved", !.beta = beta, !.target = v])
       \/ Step(p, "done", [Idle EXCEPT !.code = "not_resolved"])
  /\ \E from \in {{}} \cup {{w}: w \in windows[p]}:  \* started from a terminal, or by the app
       windows' = [windows EXCEPT ![p] = {[w EXCEPT !.launcher = w \in from]: w \in @}]
  /\ UNCHANGED <<disk, service, newest, legacy, panel>>

(* stage::plan_components: a selection is taken as it is, an update        *)
(* refreshes what is there, a fresh install takes the daemon and the app.  *)
PlanComponents(p, selection, cosmic) ==
  CASE selection = "all" -> {"daemon", "app", "applet"}
    [] selection = "all_but_applet" -> {"daemon", "app"}
    [] selection \in {"daemon", "app", "applet"} -> {selection}
    [] \E f \in Binaries: disk[<<p, f>>] # 0 ->
         {"daemon"} \cup {c \in {"app"}: disk[<<p, "app">>] # 0}
                    \cup {c \in {"applet"}: disk[<<p, "applet">>] + disk[SharedApplet] # 0}
    [] OTHER -> {"daemon", "app"} \cup {c \in {"applet"}: cosmic}

(* applet::should_install; an applet that does not say its version counts  *)
(* as none.  Only the binary is asked: not whether its launchers are there.*)
ShouldInstall(installed, candidate) == installed = 0 \/ candidate > installed

(* The menu, plan_components and resolve_applet.                           *)
PlanRun(p) ==
  /\ \/ \E selection \in Selections, cosmic \in BOOLEAN, answers \in BOOLEAN:
          LET comps == PlanComponents(p, selection, cosmic)
              candidate == PickRelease(Shared, inst[p].beta)
              installed == IF answers THEN disk[SharedApplet] ELSE 0
              planned == [inst[p] EXCEPT !.pc = "planned", !.comps = comps, !.beta = FALSE,
                            !.applet = IF "applet" \in comps /\ ShouldInstall(installed, candidate)
                                       THEN candidate ELSE 0] IN
          IF "applet" \in comps /\ candidate = 0
          THEN Step(p, "resolved", Report(p, "not_resolved"))
          ELSE Step(p, "resolved", planned)
     \/ Step(p, "resolved", Report(p, "none"))   \* q in the menu
  /\ UNCHANGED <<disk, service, newest, hostVars, runs>>

AppletChanges(p) == \/ inst[p].applet # 0 /\ disk[SharedApplet] # 0
                    \/ disk[<<p, "applet">>] # 0

(* stage::build_manifest: the entries in the order they are placed.  The   *)
(* files of a component are written together by every run that takes it,   *)
(* so one stands for them, but an applet's binary alone decides whether    *)
(* the next run takes it: its launchers come after it.                     *)
Entries(p) ==
  LET e(owner, file, v) == [file |-> <<owner, file>>, version |-> v]
      v == inst[p].target IN
  <<e(p, "install", v)>>
  \o (IF "daemon" \in inst[p].comps THEN <<e(p, "daemon", v), e(p, "unit", v)>> ELSE <<>>)
  \o (IF "app" \in inst[p].comps THEN <<e(p, "app", v)>> ELSE <<>>)
  \o (IF inst[p].applet # 0 THEN <<e(Shared, "applet", inst[p].applet), e(Shared, "launchers", inst[p].applet)>> ELSE <<>>)

OwnApplet(p) == {<<p, "applet">>, <<p, "launchers">>}  \* stage::product_applet_files

(* download_verified, extract_tarball and the manifest; "not_staged" is a  *)
(* failure of one of them.  A dry run changes nothing either.             *)
StageRun(p) ==
  /\ \/ Step(p, "planned", [inst[p] EXCEPT !.pc = "staged", !.todo = Entries(p),
               !.changes = AppletChanges(p),
               !.removals = IF "applet" \in inst[p].comps THEN OwnApplet(p) ELSE {}])
     \/ Step(p, "planned", Report(p, "not_staged"))
  /\ UNCHANGED <<disk, service, newest, hostVars, runs>>

-----------------------------------------------------------------------------

(* root_phase::run's own exit code for a failure.                          *)
RootFailure == 3

(* escalate::pick_method and classify_failure; 0 stands for a signal.      *)
PickMethod(tty, sudo, pkexec) ==
  IF tty /\ sudo THEN "sudo" ELSE IF pkexec THEN "pkexec" ELSE "unavailable"
ClassifyFailure(escalator, code) ==
  IF \/ escalator = "pkexec" /\ code \in {126, 127}
     \/ escalator = "sudo" /\ code = 1
  THEN "escalation_denied" ELSE "install_failed"

(* run_root_phase: no escalator, a refusal, or the root phase begins; it   *)
(* may fail before it touches a file, on the manifest or one of its checks.*)
Escalate(p) ==
  /\ \E tty, sudo, pkexec \in BOOLEAN:
       LET m == PickMethod(tty, sudo, pkexec) IN
       IF m = "unavailable" THEN Step(p, "staged", Report(p, "escalation_unavailable"))
       ELSE \/ Step(p, "staged", [inst[p] EXCEPT !.pc = "placing", !.by = m])
            \/ \E code \in {RootFailure} \cup (IF m = "sudo" THEN {1} ELSE {126, 127}):
                 Step(p, "staged", Report(p, ClassifyFailure(m, code)))
  /\ UNCHANGED <<disk, service, newest, hostVars, runs>>

(* The panel keeps the binary of an applet that is replaced or removed.    *)
PanelAfter(f) == IF f[2] = "applet" /\ disk[f] # 0 /\ panel # "none" THEN "stale" ELSE panel

(* apply_manifest: the next entry is written beside its place and renamed. *)
PlaceEntry(p) ==
  /\ inst[p].todo # <<>>
  /\ Step(p, "placing", [inst[p] EXCEPT !.todo = Tail(@), !.touched = TRUE])
  /\ LET e == Head(inst[p].todo) IN
       /\ disk' = [disk EXCEPT ![e.file] = e.version]
       /\ panel' = PanelAfter(e.file)
  /\ UNCHANGED <<service, newest, legacy, windows, runs>>

(* Then what the entries replace goes, the binary first.                   *)
RemoveReplaced(p, f) ==
  /\ inst[p].todo = <<>> /\ f \in inst[p].removals
  /\ <<p, "applet">> \in inst[p].removals => f = <<p, "applet">>
  /\ Step(p, "placing", [inst[p] EXCEPT !.removals = @ \ {f}, !.touched = TRUE])
  /\ disk' = [disk EXCEPT ![f] = 0]
  /\ panel' = PanelAfter(f)
  /\ UNCHANGED <<service, newest, legacy, windows, runs>>

(* The root phase fails on an entry or a removal, or is killed.            *)
RootEnds(p) ==
  /\ inst[p].todo # <<>> \/ inst[p].removals # {}
  /\ \E code \in {RootFailure, 0}:
       Step(p, "placing", Report(p, ClassifyFailure(inst[p].by, code)))
  /\ UNCHANGED <<disk, service, newest, hostVars, runs>>

-----------------------------------------------------------------------------
(* post_install::plan: what to do once every file is placed, in order.     *)
PlanSteps(comps, changes, systemctl, panelRunning, appRunning) ==
  (IF "daemon" \in comps /\ systemctl
   THEN <<"daemon_reload", "remove_legacy_unit", "enable", "restart_or_start">> ELSE <<>>)
  \o (IF "app" \in comps /\ appRunning THEN <<"restart_app">> ELSE <<>>)
  \o (IF "applet" \in comps /\ changes /\ panelRunning THEN <<"restart_panel">> ELSE <<>>)
  \o (IF comps # {"daemon"} THEN <<"nudge_launchers">> ELSE <<>>)
  \o <<"cleanup_legacy">>

RunsApp_NotDeleted(p, w) ==  \* " (deleted)" is not stripped: a window of the replaced copy is missed
  w.version = disk[<<p, "app">>]

(* runs_app: on the installed binary, or on a copy replaced there; not on  *)
(* the one in the user's home.                                             *)
RunsApp(p, w) == w.version # Legacy

(* running_app_pids leaves out whoever launched this installer.            *)
RunningAppPids(p) == {w \in windows[p]: ~w.launcher /\ RunsApp(p, w)}

BeginPostInstall(p) ==
  /\ inst[p].todo = <<>> /\ inst[p].removals = {}
  /\ \E systemctl \in BOOLEAN:
       LET pids == IF "app" \in inst[p].comps THEN RunningAppPids(p) ELSE {} IN
       Step(p, "placing",
            [inst[p] EXCEPT !.pc = "post", !.pids = pids, !.systemd = systemctl,
               !.steps = PlanSteps(inst[p].comps, inst[p].changes, systemctl, panel # "none", pids # {})])
  /\ UNCHANGED <<disk, service, newest, hostVars, runs>>

(* The step at hand is over: the next one, or the run is complete.         *)
StepDone(p, new) ==
  LET rest == Tail(inst[p].steps) IN
  IF rest = <<>> THEN Complete(p, new) ELSE [new EXCEPT !.steps = rest]
AtStep(p, name) == inst[p].steps # <<>> /\ Head(inst[p].steps) = name

(* systemd reads the units again; the one in the user's home shadows the   *)
(* packaged one.                                                           *)
Reloaded(p) == [legacy EXCEPT ![p].loaded = legacy[p].unit]

(* step_daemon_reload, step_enable: a failure is only logged.  Enabling    *)
(* makes systemd reload too.                                               *)
StepSystemd(p) ==
  /\ \E name \in {"daemon_reload", "enable"}, ok \in BOOLEAN:
       /\ AtStep(p, name)
       /\ legacy' = IF ok THEN Reloaded(p) ELSE legacy
       /\ Step(p, "post", StepDone(p, [inst[p] EXCEPT !.clean = @ /\ (name = "enable" => ok)]))
  /\ UNCHANGED <<disk, service, newest, windows, panel, runs>>

(* step_remove_legacy_unit, cleanup_legacy: a file that stays is not told. *)
StepLegacy(p) ==
  /\ \/ AtStep(p, "remove_legacy_unit") /\ legacy' = [legacy EXCEPT ![p].unit = FALSE]
     \/ AtStep(p, "cleanup_legacy") /\ legacy' = [legacy EXCEPT ![p].bin = FALSE]
  /\ Step(p, "post", StepDone(p, inst[p]))
  /\ UNCHANGED <<disk, service, newest, windows, panel, runs>>

(* What the loaded unit starts, 0 when its binary is not there.            *)
Starts(p) == IF ~legacy[p].loaded THEN disk[<<p, "daemon">>]
             ELSE IF legacy[p].bin THEN Legacy ELSE 0

(* step_restart_or_start: the one failure that is the run's.               *)
StepRestart(p) ==
  /\ AtStep(p, "restart_or_start")
  /\ \/ /\ Starts(p) # 0 /\ service' = [service EXCEPT ![p] = Starts(p)]
        /\ Step(p, "post", StepDone(p, inst[p]))
     \/ /\ service' \in {service, [service EXCEPT ![p] = 0]}
        /\ Step(p, "post", Report(p, "post_install_failed"))
  /\ UNCHANGED <<disk, newest, hostVars, runs>>

(* step_restart_app: the new window is started once every old one has      *)
(* quit, and not at all when one is still there after APP_QUIT_TIMEOUT.    *)
StepRestartApp(p) ==
  /\ AtStep(p, "restart_app")
  /\ \E stay \in SUBSET (inst[p].pids \cap windows[p]), starts \in BOOLEAN:
       LET new == IF stay = {} /\ starts
                  THEN {[version |-> disk[<<p, "app">>], launcher |-> FALSE]} ELSE {} IN
       /\ windows' = [windows EXCEPT ![p] = (@ \ inst[p].pids) \cup stay \cup new]
       /\ Step(p, "post", StepDone(p, [inst[p] EXCEPT !.stayed = stay # {}]))
  /\ UNCHANGED <<disk, service, newest, legacy, panel, runs>>

(* step_restart_panel and step_nudge_launchers: they respawn on demand.    *)
StepDesktop(p) ==
  /\ \/ AtStep(p, "restart_panel") /\ panel' \in {panel, "fresh"}
     \/ AtStep(p, "nudge_launchers") /\ UNCHANGED panel
  /\ Step(p, "post", StepDone(p, inst[p]))
  /\ UNCHANGED <<disk, service, newest, legacy, windows, runs>>

PostInstall(p) == \/ BeginPostInstall(p) \/ StepSystemd(p) \/ StepLegacy(p) \/ StepRestart(p)
                  \/ StepRestartApp(p) \/ StepDesktop(p)

(* The machine or the installer goes down; the daemon's unit starts again  *)
(* from what is on disk.                                                   *)
PowerCut ==
  /\ \E p \in Products: inst[p].pc # "done"
  /\ inst' = [p \in Products |-> Idle]
  /\ legacy' = [p \in Products |-> [legacy[p] EXCEPT !.loaded = legacy[p].unit]]
  /\ service' = [p \in Products |-> IF ~legacy[p].unit THEN disk[<<p, "daemon">>]
                                    ELSE IF legacy[p].bin THEN Legacy ELSE 0]
  /\ windows' = [p \in Products |-> {}] /\ UNCHANGED panel
  /\ UNCHANGED <<disk, newest, runs>>

(* The user opens the app, the installed one or the one in the home.       *)
OpenApp(p) ==
  /\ \A w \in windows[p]: w.launcher
  /\ \E v \in ({disk[<<p, "app">>]} \ {0}) \cup (IF legacy[p].bin THEN {Legacy} ELSE {}):
       windows' = [windows EXCEPT ![p] = @ \cup {[version |-> v, launcher |-> FALSE]}]
  /\ UNCHANGED <<disk, service, newest, legacy, panel, inst, runs>>

NewRelease(r) ==
  /\ newest[r] < LastRelease
  /\ newest' = [newest EXCEPT ![r] = @ + 1]
  /\ UNCHANGED <<disk, service, hostVars, inst, runs>>

InstallerStep(p) ==
  \/ ResolveRelease(p) \/ PlanRun(p) \/ StageRun(p) \/ Escalate(p) \/ PlaceEntry(p)
  \/ \E f \in inst[p].removals: RemoveReplaced(p, f)
  \/ RootEnds(p) \/ PostInstall(p)

InstallerNext ==
  \/ \E p \in Products: InstallerStep(p) \/ OpenApp(p)
  \/ PowerCut
  \/ \E r \in ProductRepos: NewRelease(r)

-----------------------------------------------------------------------------
(* A root phase that ended after the shared applet's binary, or one of the *)
(* other product that has not come further, left it without its launchers. *)
(* The next run finds the binary current and places nothing (applet.rs:61).*)
Torn == disk[SharedApplet] # 0 /\ disk[SharedLaunchers] = 0

(* A user who has an applet for p to put on the panel, its own or the      *)
(* shared one, binary and launchers, has one at every moment, through      *)
(* failures, kills and the other product's install ("Only now, with every  *)
(* replacement in place", root_phase.rs:257).  But not when the shared one *)
(* is torn: a run that found it current takes p's own away all the same.   *)
HasApplet(p) == \/ \A f \in OwnApplet(p): disk[f] # 0
                \/ \A f \in SharedFiles: disk[f] # 0
AppletAlwaysThere == [][\A p \in Products: HasApplet(p) => HasApplet(p)' \/ Torn]_installerVars

(* A run that reports complete has left no file of a run that failed or    *)
(* was killed before it among the components it installs; the shared       *)
(* applet has taken the place of the product's own, with its launchers     *)
(* unless the run found it current and so placed none of it; the daemon    *)
(* runs the binary of that release, not the one an older install left in   *)
(* the user's home (unless enabling the unit failed); and every app window *)
(* but the one that asked for the update runs it too, unless one would not *)
(* quit, or runs the copy in the user's home, which runs_app does not know *)
(* ("Left alone, a window keeps running the previous release, and the      *)
(* daemon refuses its session", post_install.rs:193-196).                  *)
CompleteIsWhole ==
  \A p \in Products: inst[p].pc = "done" /\ inst[p].code = "complete" =>
    LET r == inst[p] IN
    /\ "daemon" \in r.comps =>
         disk[<<p, "daemon">>] = r.target /\ disk[<<p, "unit">>] = r.target
    /\ "app" \in r.comps => disk[<<p, "app">>] = r.target
    /\ "applet" \in r.comps =>
         /\ \A f \in OwnApplet(p): disk[f] = 0
         /\ disk[SharedApplet] # 0 /\ (r.applet # 0 => ~Torn)
    /\ "daemon" \in r.comps /\ r.systemd /\ r.clean => service[p] = r.target
    /\ "app" \in r.comps /\ ~r.stayed =>
         \A w \in windows[p]: w.launcher \/ w.version \in {r.target, Legacy}

(* A run that tells the app "authorization was denied" has changed         *)
(* nothing (root_phase.rs:353-366, escalate.rs:78-82).                     *)
DeniedTouchesNothing ==
  \A p \in Products: inst[p].code = "escalation_denied" => ~inst[p].touched

=============================================================================
