--------------------------- MODULE PublishProofs ----------------------------
(***************************************************************************)
(* What a run of the installer leaves behind, for any products, releases   *)
(* and selections, however many runs there are and whenever one fails or   *)
(* is killed; and what the indexer publishes, for any drafts, registries   *)
(* and order of builds, and a daemon installs of it.                       *)
(*                                                                         *)
(* Each file that a run is to place is in its place or still to come       *)
(* (FilesKnow), and a run has nothing to remove before everything is in    *)
(* place, so the shared applet's binary is there before the one it         *)
(* replaces goes, and so are its launchers if the run places any.  Of the  *)
(* steps after that, those still to come are in the order they were        *)
(* planned in, and each that is over left what it is for (PostKnows).      *)
(*                                                                         *)
(* Each entry of an index is what FromManifest makes of a release that was *)
(* checked (IsEntry), the day it says it is stale since is the day of the  *)
(* first build that failed it (StaleIsSince), and the entries that a build *)
(* has carried so far are those of the published index (CarriedIsSince).   *)
(***************************************************************************)
EXTENDS MCPublish, SequenceTheorems, WellFoundedInduction, TLAPS

Components == {"daemon", "app", "applet"}
\* The versions there may be; PickRelease takes the highest of some of 0..n.
Highest(n, b) == Max({0} \cup {v \in 1..n: v \in BetaReleases => b})
Releases == Nat \cup {Highest(n, b): n \in Nat, b \in BOOLEAN}
EntryRecords == [file: Files, version: Releases]
StepNames == {"daemon_reload", "remove_legacy_unit", "enable", "restart_or_start", "restart_app",
              "restart_panel", "nudge_launchers", "cleanup_legacy"}
Codes == {"none", "not_resolved", "not_staged", "escalation_unavailable", "escalation_denied",
          "install_failed", "post_install_failed", "complete"}
Windows == [version: Releases, launcher: BOOLEAN]
RunRecords == [pc: {"done", "resolved", "planned", "staged", "placing", "post"}, code: Codes,
         beta: BOOLEAN, target: Releases, applet: Releases, comps: SUBSET Components,
         todo: Seq(EntryRecords), removals: SUBSET Files, by: {"none", "sudo", "pkexec"},
         systemd: BOOLEAN, touched: BOOLEAN, changes: BOOLEAN, steps: Seq(StepNames),
         pids: SUBSET Windows, clean: BOOLEAN, stayed: BOOLEAN]

InstallerTyped ==
  /\ disk \in [Files -> Releases] /\ service \in [Products -> Releases]
  /\ newest \in [ProductRepos -> Nat]
  /\ legacy \in [Products -> [unit: BOOLEAN, bin: BOOLEAN, loaded: BOOLEAN]]
  /\ windows \in [Products -> SUBSET Windows]
  /\ inst \in [Products -> RunRecords]

-----------------------------------------------------------------------------
\* The files a run of p leaves at its target.
Wanted(p) ==
  {<<p, f>>: f \in (IF "daemon" \in inst[p].comps THEN {"daemon", "unit"} ELSE {})
                   \cup (IF "app" \in inst[p].comps THEN {"app"} ELSE {})}
OwnFiles(p) == {<<p, f>>: f \in {"install", "daemon", "unit", "app"}}
Pending(p, f) == \E e \in Range(inst[p].todo): e.file = f

InPost(p) == inst[p].pc = "post" \/ (inst[p].pc = "done" /\ inst[p].code = "complete")

\* Before it places anything, a run has touched nothing; a run that was told it may not
\* go on has not.
RunKnows(p) ==
  /\ inst[p].pc \in {"resolved", "planned", "staged"} => ~inst[p].touched
  /\ inst[p].code = "escalation_denied" => ~inst[p].touched
  /\ inst[p].pc # "done" => inst[p].target # 0 /\ inst[p].code = "none"
  /\ inst[p].pc \in {"resolved", "planned", "staged", "placing"} => ~inst[p].stayed /\ inst[p].clean
  /\ inst[p].pc = "resolved" => inst[p].comps = {}
  /\ inst[p].pc # "done" /\ "applet" \in inst[p].comps =>
       inst[p].applet # 0 \/ disk[SharedApplet] # 0
  /\ inst[p].pc = "placing" => inst[p].by \in {"sudo", "pkexec"}
  /\ inst[p].pc = "done" => inst[p].steps = <<>>

\* From staging on: what is to be placed is in place or still to come, and only once all
\* of it is in place does what it replaces go.
FilesKnow(p) ==
  inst[p].pc \in {"staged", "placing"} \/ InPost(p) =>
    /\ \A e \in Range(inst[p].todo):
         \/ e.file \in SharedFiles /\ e.version # 0
         \/ e.file \in OwnFiles(p) /\ e.version = inst[p].target
    /\ \A f \in Wanted(p): disk[f] = inst[p].target \/ Pending(p, f)
    /\ inst[p].removals \subseteq OwnApplet(p)
    /\ inst[p].removals # {} => "applet" \in inst[p].comps
    /\ "applet" \in inst[p].comps =>
         /\ disk[SharedApplet] # 0 \/ Pending(p, SharedApplet)
         /\ inst[p].applet # 0 => disk[SharedLaunchers] # 0 \/ Pending(p, SharedLaunchers)
         /\ \A f \in OwnApplet(p): disk[f] = 0 \/ f \in inst[p].removals
    /\ InPost(p) => inst[p].todo = <<>> /\ inst[p].removals = {}

\* The order of post_install::plan.
Rank == [n \in StepNames |->
  CASE n = "daemon_reload" -> 1 [] n = "remove_legacy_unit" -> 2 [] n = "enable" -> 3
    [] n = "restart_or_start" -> 4 [] n = "restart_app" -> 5 [] n = "restart_panel" -> 6
    [] n = "nudge_launchers" -> 7 [] n = "cleanup_legacy" -> 8]
Ordered(s) == \A i, k \in 1..Len(s): i < k => Rank[s[i]] < Rank[s[k]]
Left(p, n) == n \in Range(inst[p].steps)

\* After that: what the steps that are over have left.
UnitKnows(p) ==
  InPost(p) /\ "daemon" \in inst[p].comps /\ inst[p].systemd =>
    /\ ~Left(p, "remove_legacy_unit") => ~legacy[p].unit
    /\ ~Left(p, "enable") => ~legacy[p].unit /\ (inst[p].clean => ~legacy[p].loaded)
    /\ ~Left(p, "restart_or_start") /\ inst[p].clean => service[p] = inst[p].target
WindowsKnow(p) ==
  /\ \A w \in windows[p]: w.version # 0
  /\ InPost(p) =>
       /\ Left(p, "restart_app") => "app" \in inst[p].comps /\ ~inst[p].stayed
       /\ "app" \in inst[p].comps /\ ~inst[p].stayed =>
            \A w \in windows[p]: \/ w.launcher \/ w.version \in {inst[p].target, Legacy}
                                 \/ Left(p, "restart_app") /\ w \in inst[p].pids
PostKnows(p) == (InPost(p) => Ordered(inst[p].steps)) /\ UnitKnows(p) /\ WindowsKnow(p)

RunHolds(p) == RunKnows(p) /\ FilesKnow(p) /\ PostKnows(p)
InstallerInv == InstallerTyped /\ \A p \in Products: RunHolds(p)

-----------------------------------------------------------------------------
LEMMA Named ==
  /\ SharedApplet \in Files /\ SharedLaunchers \in Files /\ SharedApplet # SharedLaunchers
  /\ \A p \in Products: /\ (\A f \in ProductFiles: <<p, f>> \in Files /\ <<p, f>> \notin SharedFiles)
                         /\ <<p, "applet">> \in Files /\ <<p, "daemon">> \in Files
                         /\ <<p, "unit">> \in Files /\ <<p, "app">> \in Files
                         /\ <<p, "install">> \in Files
  BY InstallerAssumption DEF Files, ProductFiles, SharedFiles, SharedApplet, SharedLaunchers

LEMMA FilesApart ==
  ASSUME NEW p \in Products
  PROVE  /\ SharedFiles \subseteq Files /\ OwnFiles(p) \subseteq Files /\ OwnApplet(p) \subseteq Files
         /\ SharedFiles \cap OwnFiles(p) = {} /\ SharedFiles \cap OwnApplet(p) = {}
         /\ OwnFiles(p) \cap OwnApplet(p) = {} /\ Wanted(p) \subseteq OwnFiles(p)
         /\ SharedApplet \in SharedFiles /\ SharedLaunchers \in SharedFiles
<1>1. \A f \in ProductFiles: <<p, f>> \in Files /\ <<p, f>> \notin SharedFiles
  BY Named
<1>2. /\ \A f \in {"install", "daemon", "unit", "app"}: f \in ProductFiles /\ f \notin {"applet", "launchers"}
      /\ {"applet", "launchers"} \subseteq ProductFiles
  BY DEF ProductFiles
<1>3. OwnFiles(p) \subseteq Files /\ SharedFiles \cap OwnFiles(p) = {}
  BY <1>1, <1>2 DEF OwnFiles
<1>4. OwnApplet(p) \subseteq Files /\ SharedFiles \cap OwnApplet(p) = {}
  BY <1>1, <1>2 DEF OwnApplet
<1>5. OwnFiles(p) \cap OwnApplet(p) = {}
  BY <1>2 DEF OwnFiles, OwnApplet
<1>6. Wanted(p) \subseteq OwnFiles(p)
  BY DEF Wanted, OwnFiles
<1>7. SharedFiles \subseteq Files /\ SharedApplet \in SharedFiles /\ SharedLaunchers \in SharedFiles
  BY Named DEF SharedFiles
<1>. QED
  BY <1>3, <1>4, <1>5, <1>6, <1>7

LEMMA IdleIsRun ==
  /\ Idle \in RunRecords /\ Idle.pc = "done" /\ Idle.code = "none" /\ ~Idle.touched
  /\ ~Idle.stayed /\ Idle.clean /\ Idle.comps = {} /\ Idle.todo = <<>> /\ Idle.removals = {}
  /\ Idle.steps = <<>> /\ Idle.pids = {}
  BY DEF Idle, RunRecords, Codes, Releases

\* A release that is picked is one that there may be.
LEMMA PickTyped ==
  ASSUME InstallerTyped, NEW r \in ProductRepos, NEW b \in BOOLEAN
  PROVE  PickRelease(r, b) \in Releases
<1>1. newest[r] \in Nat
  BY DEF InstallerTyped
<1>2. PickRelease(r, b) = Highest(newest[r], b)
  BY Zenon DEF PickRelease, Highest
<1>. QED
  BY <1>1, <1>2 DEF Releases

\* A queue in order loses its head, which comes before all that is left and not again.
LEMMA TailFacts ==
  ASSUME NEW S, NEW s \in Seq(S), s # <<>>
  PROVE  /\ Head(s) \in S /\ Tail(s) \in Seq(S)
         /\ Range(s) = {Head(s)} \cup Range(Tail(s))
<1>1. /\ Head(s) \in S /\ Tail(s) \in Seq(S) /\ Len(Tail(s)) = Len(s) - 1
      /\ \A i \in 1..Len(Tail(s)): Tail(s)[i] = s[i + 1]
  BY HeadTailProperties
<1>2. /\ Len(s) \in Nat \ {0} /\ DOMAIN s = 1..Len(s) /\ DOMAIN Tail(s) = 1..Len(Tail(s))
      /\ Head(s) = s[1]
  BY <1>1, LenProperties, EmptySeq
<1>3. ASSUME NEW x \in Range(s)
      PROVE  x = Head(s) \/ x \in Range(Tail(s))
  <2>1. PICK i \in 1..Len(s): x = s[i]
    BY <1>2 DEF Range
  <2>2. CASE i = 1
    BY <1>2, <2>1, <2>2
  <2>3. CASE i # 1
    <3>1. i - 1 \in 1..Len(Tail(s)) /\ Tail(s)[i - 1] = s[i]
      BY <1>1, <1>2, <2>3
    <3>. QED
      BY <1>2, <2>1, <3>1 DEF Range
  <2>. QED
    BY <2>2, <2>3
<1>4. ASSUME NEW x \in Range(Tail(s))
      PROVE  x \in Range(s)
  <2>1. PICK i \in 1..Len(Tail(s)): x = Tail(s)[i]
    BY <1>2 DEF Range
  <2>2. i + 1 \in 1..Len(s) /\ x = s[i + 1]
    BY <1>1, <1>2, <2>1
  <2>. QED
    BY <1>2, <2>2 DEF Range
<1>5. Head(s) \in Range(s)
  BY <1>2 DEF Range
<1>. QED
  BY <1>1, <1>3, <1>4, <1>5

LEMMA OrderedTail ==
  ASSUME NEW s \in Seq(StepNames), s # <<>>, Ordered(s)
  PROVE  /\ Ordered(Tail(s))
         /\ \A n \in Range(Tail(s)): Rank[Head(s)] < Rank[n]
<1>1. /\ Len(Tail(s)) = Len(s) - 1 /\ Tail(s) \in Seq(StepNames)
      /\ \A i \in 1..Len(Tail(s)): Tail(s)[i] = s[i + 1]
  BY HeadTailProperties
<1>2. Len(s) \in Nat \ {0} /\ DOMAIN Tail(s) = 1..Len(Tail(s)) /\ Head(s) = s[1]
  BY <1>1, LenProperties, EmptySeq
<1>3. ASSUME NEW i \in 1..Len(Tail(s)), NEW k \in 1..Len(Tail(s)), i < k
      PROVE  Rank[Tail(s)[i]] < Rank[Tail(s)[k]]
  <2>1. i + 1 \in 1..Len(s) /\ k + 1 \in 1..Len(s) /\ i + 1 < k + 1
    BY <1>1, <1>2, <1>3
  <2>. QED
    BY <1>1, <2>1 DEF Ordered
<1>4. ASSUME NEW n \in Range(Tail(s))
      PROVE  Rank[Head(s)] < Rank[n]
  <2>1. PICK i \in 1..Len(Tail(s)): n = Tail(s)[i]
    BY <1>2 DEF Range
  <2>2. i + 1 \in 1..Len(s) /\ n = s[i + 1] /\ 1 \in 1..Len(s) /\ 1 < i + 1
    BY <1>1, <1>2, <2>1
  <2>. QED
    BY <1>2, <2>2 DEF Ordered
<1>. QED
  BY <1>3, <1>4 DEF Ordered

\* One plan after another, when what comes second ranks higher.
LEMMA OrderedConcat ==
  ASSUME NEW s \in Seq(StepNames), NEW t \in Seq(StepNames), Ordered(s), Ordered(t),
         \A m \in Range(s), n \in Range(t): Rank[m] < Rank[n]
  PROVE  Ordered(s \o t)
<1>1. /\ Len(s \o t) = Len(s) + Len(t)
      /\ \A i \in 1..Len(s) + Len(t): (s \o t)[i] = IF i <= Len(s) THEN s[i] ELSE t[i - Len(s)]
  BY ConcatProperties
<1>2. Len(s) \in Nat /\ Len(t) \in Nat /\ DOMAIN s = 1..Len(s) /\ DOMAIN t = 1..Len(t)
  BY LenProperties
<1>3. ASSUME NEW i \in 1..Len(s \o t), NEW k \in 1..Len(s \o t), i < k
      PROVE  Rank[(s \o t)[i]] < Rank[(s \o t)[k]]
  <2>1. CASE k <= Len(s)
    <3>1. (s \o t)[i] = s[i] /\ (s \o t)[k] = s[k] /\ i \in 1..Len(s) /\ k \in 1..Len(s)
      BY <1>1, <1>2, <1>3, <2>1
    <3>. QED
      BY <1>3, <3>1 DEF Ordered
  <2>2. CASE i > Len(s)
    <3>1. /\ (s \o t)[i] = t[i - Len(s)] /\ (s \o t)[k] = t[k - Len(s)]
          /\ i - Len(s) \in 1..Len(t) /\ k - Len(s) \in 1..Len(t) /\ i - Len(s) < k - Len(s)
      BY <1>1, <1>2, <1>3, <2>2
    <3>. QED
      BY <3>1 DEF Ordered
  <2>3. CASE i <= Len(s) /\ k > Len(s)
    <3>1. /\ (s \o t)[i] = s[i] /\ (s \o t)[k] = t[k - Len(s)]
          /\ i \in 1..Len(s) /\ k - Len(s) \in 1..Len(t)
      BY <1>1, <1>2, <1>3, <2>3
    <3>2. s[i] \in Range(s) /\ t[k - Len(s)] \in Range(t)
      BY <1>2, <3>1 DEF Range
    <3>. QED
      BY <3>1, <3>2
  <2>. QED
    BY <1>1, <1>2, <1>3, <2>1, <2>2, <2>3
<1>. QED
  BY <1>3 DEF Ordered

LEMMA Joined ==
  ASSUME NEW S
  PROVE  /\ <<>> \in Seq(S) /\ Range(<<>>) = {}
         /\ \A x \in S: <<x>> \in Seq(S) /\ Range(<<x>>) = {x}
         /\ \A x, y \in S: <<x, y>> \in Seq(S) /\ Range(<<x, y>>) = {x, y}
         /\ \A s, t \in Seq(S): s \o t \in Seq(S) /\ Range(s \o t) = Range(s) \cup Range(t)
<1>1. \A x \in S: <<x>> \in Seq(S) /\ Range(<<x>>) = {x}
  BY DEF Range
<1>2. \A x, y \in S: <<x, y>> \in Seq(S) /\ Range(<<x, y>>) = {x, y}
  BY DEF Range
<1>3. <<>> \in Seq(S) /\ Range(<<>>) = {}
  BY DEF Range
<1>4. \A s, t \in Seq(S): s \o t \in Seq(S) /\ Range(s \o t) = Range(s) \cup Range(t)
  BY ConcatProperties, RangeConcatenation
<1>. QED
  BY <1>1, <1>2, <1>3, <1>4

\* What build_manifest lists.
LEMMA EntriesFacts ==
  ASSUME InstallerTyped, NEW p \in Products
  PROVE  /\ Entries(p) \in Seq(EntryRecords)
         /\ \A e \in Range(Entries(p)):
              \/ e.file \in SharedFiles /\ e.version = inst[p].applet /\ inst[p].applet # 0
              \/ e.file \in OwnFiles(p) /\ e.version = inst[p].target
         /\ \A f \in Wanted(p): \E e \in Range(Entries(p)): e.file = f
         /\ inst[p].applet # 0 => \A f \in SharedFiles: \E e \in Range(Entries(p)): e.file = f
<1>. DEFINE v == inst[p].target
            R(f, w) == [file |-> f, version |-> w]
            A == <<R(<<p, "install">>, v)>>
            B == IF "daemon" \in inst[p].comps THEN <<R(<<p, "daemon">>, v), R(<<p, "unit">>, v)>> ELSE <<>>
            C == IF "app" \in inst[p].comps THEN <<R(<<p, "app">>, v)>> ELSE <<>>
            shared == <<R(SharedApplet, inst[p].applet), R(SharedLaunchers, inst[p].applet)>>
            D == IF inst[p].applet # 0 THEN shared ELSE <<>>
            S == EntryRecords
<1>1. v \in Releases /\ inst[p].applet \in Releases /\ inst[p].comps \subseteq Components
  BY DEF InstallerTyped, RunRecords
<1>2. /\ R(<<p, "install">>, v) \in S /\ R(<<p, "daemon">>, v) \in S /\ R(<<p, "unit">>, v) \in S
      /\ R(<<p, "app">>, v) \in S /\ R(SharedApplet, inst[p].applet) \in S
      /\ R(SharedLaunchers, inst[p].applet) \in S
  <2>1. \A f \in Files, w \in Releases: R(f, w) \in S
    BY DEF EntryRecords
  <2>2. /\ <<p, "install">> \in Files /\ <<p, "daemon">> \in Files /\ <<p, "unit">> \in Files
        /\ <<p, "app">> \in Files /\ SharedApplet \in Files /\ SharedLaunchers \in Files
    BY Named, Zenon
  <2>. HIDE DEF R, S
  <2>. QED
    BY <1>1, <2>1, <2>2
<1>3. Entries(p) = ((A \o B) \o C) \o D
  BY DEF Entries, SharedApplet, SharedLaunchers
<1>4. /\ A \in Seq(S) /\ Range(A) = {R(<<p, "install">>, v)}
      /\ B \in Seq(S)
      /\ Range(B) = IF "daemon" \in inst[p].comps THEN {R(<<p, "daemon">>, v), R(<<p, "unit">>, v)} ELSE {}
      /\ C \in Seq(S) /\ Range(C) = IF "app" \in inst[p].comps THEN {R(<<p, "app">>, v)} ELSE {}
      /\ D \in Seq(S)
      /\ Range(D) = IF inst[p].applet # 0
                    THEN {R(SharedApplet, inst[p].applet), R(SharedLaunchers, inst[p].applet)} ELSE {}
  <2>. HIDE DEF R, S
  <2>1. /\ <<>> \in Seq(S) /\ Range(<<>>) = {}
        /\ \A x \in S: <<x>> \in Seq(S) /\ Range(<<x>>) = {x}
        /\ \A x, y \in S: <<x, y>> \in Seq(S) /\ Range(<<x, y>>) = {x, y}
    BY Joined, Zenon
  <2>2. A \in Seq(S) /\ Range(A) = {R(<<p, "install">>, v)}
    BY <1>2, <2>1
  <2>3. /\ B \in Seq(S)
        /\ Range(B) = IF "daemon" \in inst[p].comps THEN {R(<<p, "daemon">>, v), R(<<p, "unit">>, v)} ELSE {}
    BY <1>2, <2>1
  <2>4. C \in Seq(S) /\ Range(C) = IF "app" \in inst[p].comps THEN {R(<<p, "app">>, v)} ELSE {}
    BY <1>2, <2>1
  <2>5. /\ D \in Seq(S)
        /\ Range(D) = IF inst[p].applet # 0
                      THEN {R(SharedApplet, inst[p].applet), R(SharedLaunchers, inst[p].applet)} ELSE {}
    BY <1>2, <2>1
  <2>. QED
    BY <2>2, <2>3, <2>4, <2>5
<1>. HIDE DEF A, B, C, D
<1>5. \A s, t \in Seq(S): s \o t \in Seq(S) /\ Range(s \o t) = Range(s) \cup Range(t)
  BY Joined, Zenon
<1>6. A \o B \in Seq(S) /\ Range(A \o B) = Range(A) \cup Range(B)
  BY <1>4, <1>5
<1>7. (A \o B) \o C \in Seq(S) /\ Range((A \o B) \o C) = Range(A) \cup Range(B) \cup Range(C)
  BY <1>4, <1>5, <1>6
<1>8. /\ Entries(p) \in Seq(S)
      /\ Range(Entries(p)) = Range(A) \cup Range(B) \cup Range(C) \cup Range(D)
  BY <1>3, <1>4, <1>5, <1>7, ZenonT(60)
<1>9. \A e \in Range(Entries(p)):
          \/ e.file \in SharedFiles /\ e.version = inst[p].applet /\ inst[p].applet # 0
          \/ e.file \in OwnFiles(p) /\ e.version = inst[p].target
  BY <1>4, <1>8 DEF OwnFiles, SharedFiles
<1>10. \A f \in Wanted(p): \E e \in Range(Entries(p)): e.file = f
  <2>1. ASSUME NEW f \in {"daemon", "unit"}, "daemon" \in inst[p].comps
        PROVE  \E e \in Range(Entries(p)): e.file = <<p, f>>
    <3>1. R(<<p, f>>, v) \in Range(Entries(p))
      BY <1>4, <1>8, <2>1
    <3>. QED
      BY <3>1
  <2>2. ASSUME "app" \in inst[p].comps
        PROVE  \E e \in Range(Entries(p)): e.file = <<p, "app">>
    <3>1. R(<<p, "app">>, v) \in Range(Entries(p))
      BY <1>4, <1>8, <2>2
    <3>. QED
      BY <3>1
  <2>. QED
    BY <2>1, <2>2 DEF Wanted
<1>11. ASSUME inst[p].applet # 0
       PROVE  \A f \in SharedFiles: \E e \in Range(Entries(p)): e.file = f
  <2>1. \A f \in SharedFiles: R(f, inst[p].applet) \in Range(Entries(p))
    BY <1>4, <1>8, <1>11 DEF SharedFiles
  <2>. QED
    BY <2>1
<1>. QED
  BY <1>8, <1>9, <1>10, <1>11

\* What post_install::plan lists, in its order.
LEMMA PlanFacts ==
  ASSUME NEW comps, NEW changes, NEW systemctl, NEW panelRunning, NEW appRunning
  PROVE  LET s == PlanSteps(comps, changes, systemctl, panelRunning, appRunning) IN
         /\ s \in Seq(StepNames) /\ Ordered(s)
         /\ "daemon" \in comps /\ systemctl =>
              {"remove_legacy_unit", "enable", "restart_or_start"} \subseteq Range(s)
         /\ "restart_app" \in Range(s) <=> ("app" \in comps /\ appRunning)
<1>. DEFINE A == IF "daemon" \in comps /\ systemctl
                 THEN <<"daemon_reload", "remove_legacy_unit", "enable", "restart_or_start">> ELSE <<>>
            B == IF "app" \in comps /\ appRunning THEN <<"restart_app">> ELSE <<>>
            C == IF "applet" \in comps /\ changes /\ panelRunning THEN <<"restart_panel">> ELSE <<>>
            D == IF comps # {"daemon"} THEN <<"nudge_launchers">> ELSE <<>>
            E == <<"cleanup_legacy">>
            S == StepNames
<1>1. /\ A \in Seq(S)
      /\ Range(A) = IF "daemon" \in comps /\ systemctl
                    THEN {"daemon_reload", "remove_legacy_unit", "enable", "restart_or_start"} ELSE {}
  <2>1. <<"daemon_reload", "remove_legacy_unit", "enable", "restart_or_start">> \in Seq(S)
    BY DEF StepNames
  <2>2. Range(<<"daemon_reload", "remove_legacy_unit", "enable", "restart_or_start">>)
          = {"daemon_reload", "remove_legacy_unit", "enable", "restart_or_start"}
    BY DEF Range
  <2>3. <<>> \in Seq(S) /\ Range(<<>>) = {}
    BY Joined, Zenon
  <2>. QED
    BY <2>1, <2>2, <2>3
<1>2. /\ B \in Seq(S) /\ Range(B) = IF "app" \in comps /\ appRunning THEN {"restart_app"} ELSE {}
      /\ C \in Seq(S)
      /\ Range(C) = IF "applet" \in comps /\ changes /\ panelRunning THEN {"restart_panel"} ELSE {}
      /\ D \in Seq(S) /\ Range(D) = IF comps # {"daemon"} THEN {"nudge_launchers"} ELSE {}
      /\ E \in Seq(S) /\ Range(E) = {"cleanup_legacy"}
  <2>1. /\ "restart_app" \in S /\ "restart_panel" \in S /\ "nudge_launchers" \in S
        /\ "cleanup_legacy" \in S
    BY DEF StepNames
  <2>. HIDE DEF S
  <2>2. /\ <<>> \in Seq(S) /\ Range(<<>>) = {}
        /\ \A x \in S: <<x>> \in Seq(S) /\ Range(<<x>>) = {x}
    BY Joined, Zenon
  <2>. QED
    BY <2>1, <2>2
<1>3. /\ Rank["daemon_reload"] = 1 /\ Rank["remove_legacy_unit"] = 2 /\ Rank["enable"] = 3
      /\ Rank["restart_or_start"] = 4 /\ Rank["restart_app"] = 5 /\ Rank["restart_panel"] = 6
      /\ Rank["nudge_launchers"] = 7 /\ Rank["cleanup_legacy"] = 8
  BY DEF Rank, StepNames
<1>4. Ordered(A) /\ Ordered(B) /\ Ordered(C) /\ Ordered(D) /\ Ordered(E)
  <2>1. Ordered(<<"daemon_reload", "remove_legacy_unit", "enable", "restart_or_start">>)
    BY <1>3 DEF Ordered
  <2>2. \A x: Ordered(<<x>>)
    BY DEF Ordered
  <2>3. Ordered(<<>>)
    BY DEF Ordered
  <2>. QED
    BY <2>1, <2>2, <2>3
<1>. HIDE DEF A, B, C, D, E
<1>5. \A s, t \in Seq(S):
        Ordered(s) /\ Ordered(t) /\ (\A m \in Range(s), n \in Range(t): Rank[m] < Rank[n])
          => s \o t \in Seq(S) /\ Range(s \o t) = Range(s) \cup Range(t) /\ Ordered(s \o t)
  BY Joined, OrderedConcat
<1>6. A \o B \in Seq(S) /\ Range(A \o B) = Range(A) \cup Range(B) /\ Ordered(A \o B)
  <2>1. \A m \in Range(A), n \in Range(B): Rank[m] < Rank[n]
    BY <1>1, <1>2, <1>3
  <2>. QED
    BY <1>1, <1>2, <1>4, <1>5, <2>1
<1>7. /\ A \o B \o C \in Seq(S) /\ Range(A \o B \o C) = Range(A) \cup Range(B) \cup Range(C)
      /\ Ordered(A \o B \o C)
  <2>. DEFINE T == A \o B
  <2>1. \A m \in Range(T), n \in Range(C): Rank[m] < Rank[n]
    BY <1>1, <1>2, <1>3, <1>6
  <2>2. T \in Seq(S) /\ Ordered(T) /\ C \in Seq(S) /\ Ordered(C)
    BY <1>2, <1>4, <1>6
  <2>. HIDE DEF T
  <2>3. T \o C \in Seq(S) /\ Range(T \o C) = Range(T) \cup Range(C) /\ Ordered(T \o C)
    BY <1>5, <2>1, <2>2
  <2>. QED
    BY <1>6, <2>3 DEF T
<1>8. /\ A \o B \o C \o D \in Seq(S)
      /\ Range(A \o B \o C \o D) = Range(A) \cup Range(B) \cup Range(C) \cup Range(D)
      /\ Ordered(A \o B \o C \o D)
  <2>1. \A m \in Range(A \o B \o C), n \in Range(D): Rank[m] < Rank[n]
    BY <1>1, <1>2, <1>3, <1>7
  <2>. QED
    BY <1>1, <1>2, <1>4, <1>5, <1>7, <2>1, ZenonT(60)
<1>9. /\ A \o B \o C \o D \o E \in Seq(S)
      /\ Range(A \o B \o C \o D \o E) = Range(A) \cup Range(B) \cup Range(C) \cup Range(D) \cup Range(E)
      /\ Ordered(A \o B \o C \o D \o E)
  <2>1. \A m \in Range(A \o B \o C \o D), n \in Range(E): Rank[m] < Rank[n]
    BY <1>1, <1>2, <1>3, <1>8
  <2>. QED
    BY <1>1, <1>2, <1>4, <1>5, <1>8, <2>1, ZenonT(60)
<1>10. PlanSteps(comps, changes, systemctl, panelRunning, appRunning) = A \o B \o C \o D \o E
  BY DEF PlanSteps, A, B, C, D, E
<1>. HIDE DEF S
<1>. DEFINE s == PlanSteps(comps, changes, systemctl, panelRunning, appRunning)
<1>11. s \in Seq(S) /\ Ordered(s)
  BY <1>9, <1>10
<1>12. ASSUME "daemon" \in comps, systemctl
       PROVE  {"remove_legacy_unit", "enable", "restart_or_start"} \subseteq Range(s)
  BY <1>1, <1>9, <1>10, <1>12
<1>13. "restart_app" \in Range(s) <=> ("app" \in comps /\ appRunning)
  <2>. HIDE DEF s
  <2>0. Range(s) = Range(A) \cup Range(B) \cup Range(C) \cup Range(D) \cup Range(E)
    BY <1>9, <1>10 DEF s
  <2>1. "restart_app" \in Range(s) <=> "restart_app" \in Range(B)
    BY <1>1, <1>2, <2>0
  <2>. QED
    BY <1>2, <2>1
<1>. QED
  BY <1>11, <1>12, <1>13 DEF S

-----------------------------------------------------------------------------
LEMMA ReportFacts ==
  ASSUME InstallerTyped, NEW p \in Products, NEW code \in Codes
  PROVE  LET r == Report(p, code) IN
         /\ r \in RunRecords /\ r.pc = "done" /\ r.code = code /\ r.touched = inst[p].touched
         /\ r.comps = {} /\ r.todo = <<>> /\ r.removals = {} /\ r.steps = <<>> /\ r.pids = {}
         /\ r.stayed = FALSE /\ r.clean = TRUE
<1>1. inst[p].touched \in BOOLEAN
  BY DEF InstallerTyped, RunRecords
<1>2. 0 \in Releases
  BY DEF Releases
<1>3. Report(p, code) = [Idle EXCEPT !.code = code, !.touched = inst[p].touched]
  BY DEF Report
<1>. QED
  BY <1>1, <1>2, <1>3, IdleIsRun, ZenonT(60) DEF RunRecords

LEMMA CompleteFacts ==
  ASSUME InstallerTyped, NEW p \in Products, NEW run \in RunRecords
  PROVE  LET r == Complete(p, run) IN
         /\ r \in RunRecords /\ r.pc = "done" /\ r.code = "complete" /\ r.touched = inst[p].touched
         /\ r.comps = run.comps /\ r.target = run.target /\ r.systemd = run.systemd
         /\ r.clean = run.clean /\ r.stayed = run.stayed /\ r.applet = run.applet
         /\ r.todo = <<>> /\ r.removals = {} /\ r.steps = <<>> /\ r.pids = {}
<1>1. inst[p].touched \in BOOLEAN
  BY DEF InstallerTyped, RunRecords
<1>2. 0 \in Releases /\ "complete" \in Codes
  BY DEF Releases, Codes
<1>3. Report(p, "complete") = [Idle EXCEPT !.code = "complete", !.touched = inst[p].touched]
  BY DEF Report
<1>4. /\ run.target \in Releases /\ run.comps \in SUBSET Components /\ run.systemd \in BOOLEAN
      /\ run.clean \in BOOLEAN /\ run.stayed \in BOOLEAN /\ run.applet \in Releases
  BY DEF RunRecords
<1>5. Complete(p, run) = [Idle EXCEPT !.code = "complete", !.touched = inst[p].touched,
           !.target = run.target, !.comps = run.comps, !.applet = run.applet, !.systemd = run.systemd,
           !.clean = run.clean, !.stayed = run.stayed]
  BY <1>3 DEF Complete, Idle
<1>. DEFINE r == Complete(p, run)
<1>. HIDE DEF r
<1>6. Idle \in RunRecords
  BY IdleIsRun
<1>7. r \in RunRecords
  BY <1>1, <1>2, <1>4, <1>5, <1>6, ZenonT(60) DEF RunRecords, r
<1>8. /\ r.pc = Idle.pc /\ r.code = "complete" /\ r.touched = inst[p].touched
      /\ r.comps = run.comps /\ r.target = run.target /\ r.systemd = run.systemd
  BY <1>5, <1>6 DEF RunRecords, r
<1>9. /\ r.clean = run.clean /\ r.stayed = run.stayed /\ r.applet = run.applet /\ r.todo = Idle.todo
      /\ r.removals = Idle.removals /\ r.steps = Idle.steps /\ r.pids = Idle.pids
  BY <1>5, <1>6 DEF RunRecords, r
<1>. QED
  BY <1>7, <1>8, <1>9, IdleIsRun DEF r

\* A run that is over, and was not completed, says nothing of the files.
LEMMA Ended ==
  ASSUME NEW p \in Products, inst'[p].pc = "done", inst'[p].code # "complete", inst'[p].steps = <<>>,
         inst'[p].code = "escalation_denied" => ~inst'[p].touched,
         \A w \in windows'[p]: w.version # 0
  PROVE  RunHolds(p)'
<1>1. ~InPost(p)'
  BY DEF InPost
<1>2. RunKnows(p)'
  BY DEF RunKnows
<1>3. FilesKnow(p)'
  BY <1>1 DEF FilesKnow
<1>4. PostKnows(p)'
  BY <1>1 DEF PostKnows, UnitKnows, WindowsKnow
<1>. QED
  BY <1>2, <1>3, <1>4 DEF RunHolds

\* What a product's run has left is disturbed by nothing but its own runs and what
\* systemd, the user and the other products' runs do not do: they leave the shared applet.
LEMMA Undisturbed ==
  ASSUME NEW p \in Products, RunHolds(p), inst'[p] = inst[p], legacy'[p] = legacy[p],
         windows'[p] = windows[p], service'[p] = service[p],
         \A f \in OwnFiles(p) \cup OwnApplet(p): disk'[f] = disk[f],
         \A f \in SharedFiles: disk[f] # 0 => disk'[f] # 0
  PROVE  RunHolds(p)'
<1>1. InPost(p)' <=> InPost(p)
  BY DEF InPost
<1>2. /\ \A n: Left(p, n)' <=> Left(p, n)
      /\ \A f: Pending(p, f)' <=> Pending(p, f)
  BY DEF Left, Pending
<1>3. Wanted(p)' = Wanted(p) /\ Wanted(p) \subseteq OwnFiles(p)
  BY DEF Wanted, OwnFiles
<1>4. RunKnows(p)'
  BY FilesApart DEF RunHolds, RunKnows
<1>5. FilesKnow(p)'
  <2>1. SUFFICES ASSUME inst[p].pc \in {"staged", "placing"} \/ InPost(p)
                 PROVE  FilesKnow(p)'
    BY <1>1 DEF FilesKnow
  <2>2. /\ \A e \in Range(inst[p].todo):
             \/ e.file \in SharedFiles /\ e.version # 0
             \/ e.file \in OwnFiles(p) /\ e.version = inst[p].target
        /\ \A f \in Wanted(p): disk[f] = inst[p].target \/ Pending(p, f)
        /\ inst[p].removals \subseteq OwnApplet(p)
        /\ inst[p].removals # {} => "applet" \in inst[p].comps
        /\ "applet" \in inst[p].comps =>
             /\ disk[SharedApplet] # 0 \/ Pending(p, SharedApplet)
             /\ inst[p].applet # 0 => disk[SharedLaunchers] # 0 \/ Pending(p, SharedLaunchers)
             /\ \A f \in OwnApplet(p): disk[f] = 0 \/ f \in inst[p].removals
        /\ InPost(p) => inst[p].todo = <<>> /\ inst[p].removals = {}
    BY <2>1 DEF RunHolds, FilesKnow
  <2>3. \A f \in Wanted(p)': disk'[f] = inst'[p].target \/ Pending(p, f)'
    BY <1>2, <1>3, <2>2
  <2>4. "applet" \in inst'[p].comps =>
             /\ disk'[SharedApplet] # 0 \/ Pending(p, SharedApplet)'
             /\ inst'[p].applet # 0 => disk'[SharedLaunchers] # 0 \/ Pending(p, SharedLaunchers)'
             /\ \A f \in OwnApplet(p)': disk'[f] = 0 \/ f \in inst'[p].removals
    BY <1>2, <2>2, FilesApart DEF OwnApplet
  <2>. QED
    BY <1>1, <2>2, <2>3, <2>4 DEF FilesKnow, OwnFiles, OwnApplet
<1>6. PostKnows(p)'
  BY <1>1, <1>2 DEF RunHolds, PostKnows, UnitKnows, WindowsKnow
<1>. QED
  BY <1>4, <1>5, <1>6 DEF RunHolds

-----------------------------------------------------------------------------
(* A run's own steps, one by one: what each leaves typed, and what the run *)
(* knows after it.                                                         *)
LEMMA RunFacts ==
  ASSUME InstallerInv, NEW p \in Products
  PROVE  /\ InstallerTyped /\ RunHolds(p) /\ inst[p] \in RunRecords
         /\ \A w \in windows[p]: w.version # 0
  BY DEF InstallerInv, InstallerTyped, RunHolds, PostKnows, WindowsKnow

LEMMA ResolveHolds ==
  ASSUME InstallerInv, NEW p \in Products, ResolveRelease(p)
  PROVE  InstallerTyped' /\ RunHolds(p)'
<1>. USE RunFacts
<1>1. PICK from: windows' = [windows EXCEPT ![p] = {[w EXCEPT !.launcher = w \in from]: w \in @}]
  BY DEF ResolveRelease
<1>2. /\ windows' \in [Products -> SUBSET Windows]
      /\ \A w \in windows'[p]: w.version # 0
  <2>1. windows \in [Products -> SUBSET Windows] /\ windows[p] \subseteq Windows
    BY DEF InstallerTyped
  <2>2. \A w \in Windows: /\ [w EXCEPT !.launcher = w \in from] \in Windows
                          /\ [w EXCEPT !.launcher = w \in from].version = w.version
    <3>1. \A w \in Windows, b \in BOOLEAN: /\ [w EXCEPT !.launcher = b] \in Windows
                                            /\ [w EXCEPT !.launcher = b].version = w.version
      BY DEF Windows
    <3>2. \A w: (w \in from) \in BOOLEAN
      OBVIOUS
    <3>. QED
      BY <3>1, <3>2, Zenon
  <2>3. windows'[p] = {[w EXCEPT !.launcher = w \in from]: w \in windows[p]}
    BY <1>1, <2>1
  <2>4. ASSUME NEW x \in windows'[p]
        PROVE  x \in Windows /\ x.version # 0
    <3>1. PICK w \in windows[p]: x = [w EXCEPT !.launcher = w \in from]
      BY <2>3
    <3>. QED
      BY <2>1, <2>2, <3>1
  <2>. QED
    BY <1>1, <2>1, <2>4
<1>3. PICK beta \in BOOLEAN, pin \in {0} \cup 1..newest[p]:
        LET v == IF pin # 0 THEN pin ELSE PickRelease(p, beta) IN
        \/ v # 0 /\ Step(p, "done", [Idle EXCEPT !.pc = "resolved", !.beta = beta, !.target = v])
        \/ Step(p, "done", [Idle EXCEPT !.code = "not_resolved"])
  BY DEF ResolveRelease
<1>. DEFINE v == IF pin # 0 THEN pin ELSE PickRelease(p, beta)
<1>4. v \in Releases
  <2>1. pin \in Nat
    BY DEF InstallerTyped, ProductRepos
  <2>2. PickRelease(p, beta) \in Releases
    BY PickTyped DEF ProductRepos
  <2>. QED
    BY <2>1, <2>2 DEF Releases
<1>. HIDE DEF v
<1>5. CASE v # 0 /\ Step(p, "done", [Idle EXCEPT !.pc = "resolved", !.beta = beta, !.target = v])
  <2>. DEFINE r == [Idle EXCEPT !.pc = "resolved", !.beta = beta, !.target = v]
  <2>1. r \in RunRecords
    BY <1>4, IdleIsRun DEF RunRecords
  <2>2. /\ r.pc = "resolved" /\ r.code = "none" /\ r.target # 0 /\ ~r.touched /\ r.comps = {}
        /\ ~r.stayed /\ r.clean
    BY <1>5, IdleIsRun DEF RunRecords
  <2>3. inst'[p] = r /\ inst' \in [Products -> RunRecords]
    BY <1>5, <2>1 DEF Step, InstallerTyped
  <2>. HIDE DEF r
  <2>4. InstallerTyped'
    BY <1>2, <2>3 DEF InstallerTyped, ResolveRelease
  <2>5. ~InPost(p)' /\ inst'[p].pc = "resolved"
    BY <2>2, <2>3 DEF InPost
  <2>6. RunKnows(p)'
    BY <2>2, <2>3 DEF RunKnows
  <2>7. FilesKnow(p)'
    BY <2>5 DEF FilesKnow
  <2>8. PostKnows(p)'
    BY <1>2, <2>5 DEF PostKnows, UnitKnows, WindowsKnow
  <2>. QED
    BY <2>4, <2>6, <2>7, <2>8 DEF RunHolds
<1>6. CASE Step(p, "done", [Idle EXCEPT !.code = "not_resolved"])
  <2>. DEFINE r == [Idle EXCEPT !.code = "not_resolved"]
  <2>1. r \in RunRecords /\ r.pc = "done" /\ r.code = "not_resolved" /\ r.steps = <<>>
    BY IdleIsRun DEF RunRecords, Codes
  <2>2. inst'[p] = r /\ inst' \in [Products -> RunRecords]
    BY <1>6, <2>1 DEF Step, InstallerTyped
  <2>. HIDE DEF r
  <2>3. InstallerTyped'
    BY <1>2, <2>2 DEF InstallerTyped, ResolveRelease
  <2>. QED
    BY <1>2, <2>1, <2>2, <2>3, Ended
<1>. QED
  BY <1>3, <1>5, <1>6 DEF v

\* A run that ends on a code, the windows as they were.
LEMMA ReportHolds ==
  ASSUME InstallerInv, NEW p \in Products, NEW code \in Codes, code # "complete",
         code = "escalation_denied" => ~inst[p].touched,
         inst' = [inst EXCEPT ![p] = Report(p, code)], windows' = windows
  PROVE  inst' \in [Products -> RunRecords] /\ RunHolds(p)'
<1>1. /\ Report(p, code) \in RunRecords /\ Report(p, code).pc = "done"
      /\ Report(p, code).code = code /\ Report(p, code).touched = inst[p].touched
      /\ Report(p, code).steps = <<>>
  BY ReportFacts, RunFacts
<1>2. inst' \in [Products -> RunRecords] /\ inst'[p] = Report(p, code)
  BY <1>1, RunFacts DEF InstallerTyped
<1>3. \A w \in windows'[p]: w.version # 0
  BY RunFacts
<1>. QED
  BY <1>1, <1>2, <1>3, Ended

LEMMA PlanHolds ==
  ASSUME InstallerInv, NEW p \in Products, PlanRun(p)
  PROVE  InstallerTyped' /\ RunHolds(p)'
<1>. USE RunFacts
<1>1. inst' \in [Products -> RunRecords] => InstallerTyped'
  BY DEF PlanRun, InstallerTyped, hostVars
<1>2. ASSUME Step(p, "resolved", Report(p, "none")) \/ Step(p, "resolved", Report(p, "not_resolved"))
      PROVE  InstallerTyped' /\ RunHolds(p)'
  BY <1>1, <1>2, ReportHolds DEF Step, PlanRun, hostVars, Codes
<1>3. ASSUME NEW selection \in Selections, NEW cosmic \in BOOLEAN, NEW answers \in BOOLEAN,
             NEW comps, comps = PlanComponents(p, selection, cosmic),
             NEW applet, applet \in Releases,
             "applet" \in comps => applet # 0 \/ disk[SharedApplet] # 0,
             Step(p, "resolved", [inst[p] EXCEPT !.pc = "planned", !.comps = comps, !.beta = FALSE,
                                    !.applet = applet])
      PROVE  InstallerTyped' /\ RunHolds(p)'
  <2>1. comps \subseteq Components
    BY <1>3 DEF PlanComponents, Components
  <2>. DEFINE r == [inst[p] EXCEPT !.pc = "planned", !.comps = comps, !.beta = FALSE, !.applet = applet]
  <2>2. r \in RunRecords
    BY <1>3, <2>1, ZenonT(60) DEF RunRecords
  <2>3. /\ r.pc = "planned" /\ r.code = inst[p].code /\ r.target = inst[p].target
        /\ r.touched = inst[p].touched /\ r.comps = comps /\ r.applet = applet
        /\ r.stayed = inst[p].stayed /\ r.clean = inst[p].clean
    BY DEF RunRecords
  <2>4. inst'[p] = r /\ inst' \in [Products -> RunRecords] /\ inst[p].pc = "resolved"
    BY <1>3, <2>2 DEF Step, InstallerTyped
  <2>. HIDE DEF r
  <2>5. ~InPost(p)' /\ inst'[p].pc = "planned"
    BY <2>3, <2>4 DEF InPost
  <2>6. disk' = disk /\ windows' = windows
    BY DEF PlanRun, hostVars
  <2>7. RunKnows(p)'
    BY <1>3, <2>3, <2>4, <2>6 DEF RunHolds, RunKnows
  <2>8. FilesKnow(p)'
    BY <2>5 DEF FilesKnow
  <2>9. PostKnows(p)'
    BY <2>5, <2>6 DEF PostKnows, UnitKnows, WindowsKnow
  <2>. QED
    BY <1>1, <2>4, <2>7, <2>8, <2>9 DEF RunHolds
<1>4. ASSUME NEW selection \in Selections, NEW cosmic \in BOOLEAN, NEW answers \in BOOLEAN,
             LET comps == PlanComponents(p, selection, cosmic)
                 candidate == PickRelease(Shared, inst[p].beta)
                 installed == IF answers THEN disk[SharedApplet] ELSE 0
                 planned == [inst[p] EXCEPT !.pc = "planned", !.comps = comps, !.beta = FALSE,
                               !.applet = IF "applet" \in comps /\ ShouldInstall(installed, candidate)
                                          THEN candidate ELSE 0] IN
             IF "applet" \in comps /\ candidate = 0
             THEN Step(p, "resolved", Report(p, "not_resolved"))
             ELSE Step(p, "resolved", planned)
      PROVE  InstallerTyped' /\ RunHolds(p)'
  <2>. DEFINE comps == PlanComponents(p, selection, cosmic)
              candidate == PickRelease(Shared, inst[p].beta)
              installed == IF answers THEN disk[SharedApplet] ELSE 0
              applet == IF "applet" \in comps /\ ShouldInstall(installed, candidate)
                        THEN candidate ELSE 0
  <2>1. CASE "applet" \in comps /\ candidate = 0
    BY <1>2, <1>4, <2>1
  <2>2. CASE ~("applet" \in comps /\ candidate = 0)
    <3>0. inst[p].beta \in BOOLEAN
      BY DEF RunRecords
    <3>1. candidate \in Releases /\ 0 \in Releases
      <4>1. Shared \in ProductRepos /\ 0 \in Releases
        BY DEF ProductRepos, Releases
      <4>. QED
        BY <3>0, <4>1, PickTyped
    <3>2. "applet" \in comps => applet # 0 \/ disk[SharedApplet] # 0
      BY <2>2 DEF ShouldInstall
    <3>3. Step(p, "resolved", [inst[p] EXCEPT !.pc = "planned", !.comps = comps, !.beta = FALSE,
                                    !.applet = applet])
      BY <1>4, <2>2
    <3>. HIDE DEF comps, candidate, installed
    <3>4. applet \in Releases
      BY <3>1
    <3>. HIDE DEF applet
    <3>. QED
      BY <1>3, <3>2, <3>3, <3>4 DEF comps
  <2>. QED
    BY <2>1, <2>2
<1>. QED
  BY <1>2, <1>4, ZenonT(60) DEF PlanRun

LEMMA StageHolds ==
  ASSUME InstallerInv, NEW p \in Products, StageRun(p)
  PROVE  InstallerTyped' /\ RunHolds(p)'
<1>. USE RunFacts
<1>1. inst' \in [Products -> RunRecords] => InstallerTyped'
  BY DEF StageRun, InstallerTyped, hostVars
<1>2. CASE Step(p, "planned", Report(p, "not_staged"))
  BY <1>1, <1>2, ReportHolds DEF Step, StageRun, hostVars, Codes
<1>3. CASE Step(p, "planned", [inst[p] EXCEPT !.pc = "staged", !.todo = Entries(p),
               !.changes = AppletChanges(p),
               !.removals = IF "applet" \in inst[p].comps THEN OwnApplet(p) ELSE {}])
  <2>. DEFINE gone == IF "applet" \in inst[p].comps THEN OwnApplet(p) ELSE {}
              r == [inst[p] EXCEPT !.pc = "staged", !.todo = Entries(p),
                      !.changes = AppletChanges(p), !.removals = gone]
  <2>1. AppletChanges(p) \in BOOLEAN
    BY DEF AppletChanges
  <2>2. /\ Entries(p) \in Seq(EntryRecords)
        /\ \A e \in Range(Entries(p)):
              \/ e.file \in SharedFiles /\ e.version = inst[p].applet /\ inst[p].applet # 0
              \/ e.file \in OwnFiles(p) /\ e.version = inst[p].target
        /\ \A f \in Wanted(p): \E e \in Range(Entries(p)): e.file = f
        /\ inst[p].applet # 0 => \A f \in SharedFiles: \E e \in Range(Entries(p)): e.file = f
    BY EntriesFacts
  <2>3. gone \in SUBSET Files
    BY FilesApart
  <2>4. r \in RunRecords
    <3>1. \A todo \in Seq(EntryRecords), changes \in BOOLEAN, removals \in SUBSET Files:
            [inst[p] EXCEPT !.pc = "staged", !.todo = todo, !.changes = changes,
               !.removals = removals] \in RunRecords
      BY ZenonT(60) DEF RunRecords
    <3>. HIDE DEF gone
    <3>. QED
      BY <2>1, <2>2, <2>3, <3>1
  <2>5. /\ r.pc = "staged" /\ r.todo = Entries(p) /\ r.removals = gone /\ r.code = inst[p].code
        /\ r.target = inst[p].target /\ r.touched = inst[p].touched /\ r.comps = inst[p].comps
        /\ r.applet = inst[p].applet /\ r.stayed = inst[p].stayed /\ r.clean = inst[p].clean
    BY DEF RunRecords
  <2>6. inst'[p] = r /\ inst' \in [Products -> RunRecords] /\ inst[p].pc = "planned"
    BY <1>3, <2>4 DEF Step, InstallerTyped
  <2>. HIDE DEF r
  <2>7. ~InPost(p)' /\ inst'[p].pc = "staged"
    BY <2>5, <2>6 DEF InPost
  <2>8. disk' = disk /\ windows' = windows
    BY DEF StageRun, hostVars
  <2>9. RunKnows(p)'
    BY <2>5, <2>6, <2>8 DEF RunHolds, RunKnows
  <2>10. FilesKnow(p)'
    <3>1. \A e \in Range(inst'[p].todo):
             \/ e.file \in SharedFiles /\ e.version # 0
             \/ e.file \in OwnFiles(p)' /\ e.version = inst'[p].target
      BY <2>2, <2>5, <2>6 DEF OwnFiles
    <3>2. Wanted(p)' = Wanted(p) /\ \A f: Pending(p, f)' <=> \E e \in Range(Entries(p)): e.file = f
      BY <2>5, <2>6 DEF Wanted, Pending
    <3>3. \A f \in Wanted(p)': disk'[f] = inst'[p].target \/ Pending(p, f)'
      BY <2>2, <3>2
    <3>4. /\ inst'[p].removals \subseteq OwnApplet(p)'
          /\ inst'[p].removals # {} => "applet" \in inst'[p].comps
          /\ "applet" \in inst'[p].comps => \A f \in OwnApplet(p)': f \in inst'[p].removals
      BY <2>5, <2>6 DEF OwnApplet
    <3>5. "applet" \in inst'[p].comps =>
            /\ disk'[SharedApplet] # 0 \/ Pending(p, SharedApplet)'
            /\ inst'[p].applet # 0 => disk'[SharedLaunchers] # 0 \/ Pending(p, SharedLaunchers)'
      <4>1. "applet" \in inst[p].comps => inst[p].applet # 0 \/ disk[SharedApplet] # 0
        BY <2>6 DEF RunHolds, RunKnows
      <4>. QED
        BY <2>2, <2>5, <2>6, <2>8, <3>2, <4>1, FilesApart
    <3>. QED
      BY <2>7, <3>1, <3>3, <3>4, <3>5 DEF FilesKnow
  <2>11. PostKnows(p)'
    BY <2>7, <2>8 DEF PostKnows, UnitKnows, WindowsKnow
  <2>. QED
    BY <1>1, <2>6, <2>9, <2>10, <2>11 DEF RunHolds
<1>. QED
  BY <1>2, <1>3 DEF StageRun

\* A refusal, and any failure of the root phase before it places a file.
LEMMA EscalateHolds ==
  ASSUME InstallerInv, NEW p \in Products, Escalate(p)
  PROVE  InstallerTyped' /\ RunHolds(p)'
<1>. USE RunFacts
<1>1. inst' \in [Products -> RunRecords] => InstallerTyped'
  BY DEF Escalate, InstallerTyped, hostVars
<1>2. ASSUME NEW code \in Codes, code # "complete", Step(p, "staged", Report(p, code))
      PROVE  InstallerTyped' /\ RunHolds(p)'
  <2>1. ~inst[p].touched
    BY <1>2 DEF Step, RunHolds, RunKnows
  <2>. QED
    BY <1>1, <1>2, <2>1, ReportHolds, ZenonT(60) DEF Step, Escalate, hostVars
<1>3. ASSUME NEW m \in {"sudo", "pkexec"},
             Step(p, "staged", [inst[p] EXCEPT !.pc = "placing", !.by = m])
      PROVE  InstallerTyped' /\ RunHolds(p)'
  <2>. DEFINE r == [inst[p] EXCEPT !.pc = "placing", !.by = m]
  <2>1. r \in RunRecords
    BY ZenonT(60) DEF RunRecords
  <2>2. /\ r.pc = "placing" /\ r.by = m /\ r.todo = inst[p].todo /\ r.removals = inst[p].removals
        /\ r.code = inst[p].code /\ r.target = inst[p].target /\ r.comps = inst[p].comps
        /\ r.applet = inst[p].applet /\ r.stayed = inst[p].stayed /\ r.clean = inst[p].clean
        /\ r.touched = inst[p].touched
    BY DEF RunRecords
  <2>3. inst'[p] = r /\ inst' \in [Products -> RunRecords] /\ inst[p].pc = "staged"
    BY <1>3, <2>1 DEF Step, InstallerTyped
  <2>. HIDE DEF r
  <2>4. ~InPost(p)' /\ inst'[p].pc = "placing" /\ ~InPost(p)
    BY <2>2, <2>3 DEF InPost
  <2>5. disk' = disk /\ windows' = windows
    BY DEF Escalate, hostVars
  <2>6. RunKnows(p)'
    BY <2>2, <2>3, <2>5 DEF RunHolds, RunKnows
  <2>7. FilesKnow(p)'
    <3>1. /\ Wanted(p)' = Wanted(p) /\ OwnFiles(p)' = OwnFiles(p) /\ OwnApplet(p)' = OwnApplet(p)
          /\ \A f: Pending(p, f)' <=> Pending(p, f)
      BY <2>2, <2>3 DEF Wanted, OwnFiles, OwnApplet, Pending
    <3>. QED
      BY <2>2, <2>3, <2>4, <2>5, <3>1 DEF RunHolds, FilesKnow
  <2>8. PostKnows(p)'
    BY <2>4, <2>5 DEF PostKnows, UnitKnows, WindowsKnow
  <2>. QED
    BY <1>1, <2>3, <2>6, <2>7, <2>8 DEF RunHolds
<1>4. \A m, code: ClassifyFailure(m, code) \in Codes /\ ClassifyFailure(m, code) # "complete"
  BY DEF ClassifyFailure, Codes
<1>5. "escalation_unavailable" \in Codes
  BY DEF Codes
<1>6. \A t, s, k: PickMethod(t, s, k) \in {"sudo", "pkexec", "unavailable"}
  BY DEF PickMethod
<1>7. PICK tty \in BOOLEAN, sudo \in BOOLEAN, pkexec \in BOOLEAN:
        LET m == PickMethod(tty, sudo, pkexec) IN
        IF m = "unavailable" THEN Step(p, "staged", Report(p, "escalation_unavailable"))
        ELSE \/ Step(p, "staged", [inst[p] EXCEPT !.pc = "placing", !.by = m])
             \/ \E code \in {RootFailure} \cup (IF m = "sudo" THEN {1} ELSE {126, 127}):
                  Step(p, "staged", Report(p, ClassifyFailure(m, code)))
  BY DEF Escalate
<1>. DEFINE m == PickMethod(tty, sudo, pkexec)
<1>8. CASE m = "unavailable"
  BY <1>2, <1>5, <1>7, <1>8
<1>9. CASE m # "unavailable" /\ Step(p, "staged", [inst[p] EXCEPT !.pc = "placing", !.by = m])
  <2>1. m \in {"sudo", "pkexec"}
    BY <1>6, <1>9
  <2>. HIDE DEF m
  <2>. QED
    BY <1>3, <1>9, <2>1
<1>10. CASE \E code: Step(p, "staged", Report(p, ClassifyFailure(m, code)))
  BY <1>2, <1>4, <1>10
<1>. QED
  BY <1>7, <1>8, <1>9, <1>10

\* An entry is placed, so it is no longer to come; only it and the shared applet change.
LEMMA PlaceHolds ==
  ASSUME InstallerInv, NEW p \in Products, PlaceEntry(p)
  PROVE  InstallerTyped' /\ RunHolds(p)'
<1>. USE RunFacts
<1>. DEFINE r == [inst[p] EXCEPT !.todo = Tail(@), !.touched = TRUE]
            e == Head(inst[p].todo)
<1>1. /\ inst[p].todo \in Seq(EntryRecords) /\ inst[p].todo # <<>>
      /\ e \in EntryRecords /\ Tail(inst[p].todo) \in Seq(EntryRecords)
      /\ Range(inst[p].todo) = {e} \cup Range(Tail(inst[p].todo))
  BY TailFacts DEF PlaceEntry, RunRecords
<1>2. r \in RunRecords
  BY <1>1, ZenonT(60) DEF RunRecords
<1>3. /\ r.pc = inst[p].pc /\ r.by = inst[p].by /\ r.todo = Tail(inst[p].todo)
      /\ r.removals = inst[p].removals /\ r.code = inst[p].code /\ r.target = inst[p].target
      /\ r.comps = inst[p].comps /\ r.applet = inst[p].applet /\ r.stayed = inst[p].stayed
      /\ r.clean = inst[p].clean
  BY DEF RunRecords
<1>4. inst'[p] = r /\ inst' \in [Products -> RunRecords] /\ inst[p].pc = "placing"
  BY <1>2 DEF PlaceEntry, Step, InstallerTyped
<1>. HIDE DEF r
<1>5. ~InPost(p)' /\ inst'[p].pc = "placing" /\ ~InPost(p)
  BY <1>3, <1>4 DEF InPost
<1>6. /\ disk' \in [Files -> Releases] /\ disk'[e.file] = e.version
      /\ \A f \in Files \ {e.file}: disk'[f] = disk[f]
  BY <1>1 DEF PlaceEntry, EntryRecords, InstallerTyped
<1>7. InstallerTyped'
  BY <1>4, <1>6 DEF PlaceEntry, InstallerTyped
<1>8. /\ \A x \in Range(inst[p].todo):
           \/ x.file \in SharedFiles /\ x.version # 0
           \/ x.file \in OwnFiles(p) /\ x.version = inst[p].target
      /\ \A f \in Wanted(p): disk[f] = inst[p].target \/ Pending(p, f)
      /\ inst[p].removals \subseteq OwnApplet(p)
      /\ inst[p].removals # {} => "applet" \in inst[p].comps
      /\ "applet" \in inst[p].comps =>
           /\ disk[SharedApplet] # 0 \/ Pending(p, SharedApplet)
           /\ inst[p].applet # 0 => disk[SharedLaunchers] # 0 \/ Pending(p, SharedLaunchers)
           /\ \A f \in OwnApplet(p): disk[f] = 0 \/ f \in inst[p].removals
  BY <1>4 DEF RunHolds, FilesKnow
<1>9. /\ SharedFiles \subseteq Files /\ OwnFiles(p) \subseteq Files /\ OwnApplet(p) \subseteq Files
      /\ SharedFiles \cap OwnFiles(p) = {} /\ SharedFiles \cap OwnApplet(p) = {}
      /\ OwnFiles(p) \cap OwnApplet(p) = {} /\ Wanted(p) \subseteq OwnFiles(p)
      /\ SharedApplet \in SharedFiles /\ SharedLaunchers \in SharedFiles
  BY FilesApart
<1>10. /\ \/ e.file \in SharedFiles /\ e.version # 0
          \/ e.file \in OwnFiles(p) /\ e.version = inst[p].target
       /\ \A f: Pending(p, f) <=> (f = e.file \/ Pending(p, f)')
  BY <1>1, <1>3, <1>4, <1>8 DEF Pending
<1>11. /\ \A f \in SharedFiles: disk[f] # 0 \/ e.file = f => disk'[f] # 0
       /\ \A f \in OwnApplet(p): disk'[f] = disk[f]
  BY <1>6, <1>9, <1>10
<1>12. RunKnows(p)'
  BY <1>3, <1>4, <1>9, <1>11 DEF RunHolds, RunKnows
<1>13. FilesKnow(p)'
  <2>1. Wanted(p)' = Wanted(p) /\ OwnFiles(p)' = OwnFiles(p) /\ OwnApplet(p)' = OwnApplet(p)
    BY <1>3, <1>4 DEF Wanted, OwnFiles, OwnApplet
  <2>2. \A x \in Range(inst'[p].todo):
             \/ x.file \in SharedFiles /\ x.version # 0
             \/ x.file \in OwnFiles(p)' /\ x.version = inst'[p].target
    BY <1>1, <1>3, <1>4, <1>8, <2>1
  <2>3. \A f \in Wanted(p)': disk'[f] = inst'[p].target \/ Pending(p, f)'
    BY <1>3, <1>4, <1>6, <1>8, <1>9, <1>10, <2>1
  <2>4. "applet" \in inst'[p].comps =>
          /\ disk'[SharedApplet] # 0 \/ Pending(p, SharedApplet)'
          /\ inst'[p].applet # 0 => disk'[SharedLaunchers] # 0 \/ Pending(p, SharedLaunchers)'
    BY <1>3, <1>4, <1>8, <1>9, <1>10, <1>11
  <2>. QED
    BY <1>3, <1>4, <1>5, <1>8, <1>11, <2>1, <2>2, <2>3, <2>4 DEF FilesKnow
<1>14. PostKnows(p)'
  <2>1. windows' = windows
    BY DEF PlaceEntry
  <2>. QED
    BY <1>5, <2>1 DEF PostKnows, UnitKnows, WindowsKnow
<1>. QED
  BY <1>7, <1>12, <1>13, <1>14 DEF RunHolds

LEMMA RemoveHolds ==
  ASSUME InstallerInv, NEW p \in Products, NEW f, RemoveReplaced(p, f)
  PROVE  InstallerTyped' /\ RunHolds(p)' /\ f \in OwnApplet(p)
<1>. USE RunFacts
<1>. DEFINE r == [inst[p] EXCEPT !.removals = @ \ {f}, !.touched = TRUE]
<1>1. inst[p].todo = <<>> /\ f \in inst[p].removals /\ inst[p].removals \in SUBSET Files
  BY DEF RemoveReplaced, RunRecords
<1>2. r \in RunRecords
  BY <1>1, ZenonT(60) DEF RunRecords
<1>3. /\ r.pc = inst[p].pc /\ r.by = inst[p].by /\ r.todo = inst[p].todo
      /\ r.removals = inst[p].removals \ {f} /\ r.code = inst[p].code /\ r.target = inst[p].target
      /\ r.comps = inst[p].comps /\ r.applet = inst[p].applet /\ r.stayed = inst[p].stayed
      /\ r.clean = inst[p].clean
  BY DEF RunRecords
<1>4. inst'[p] = r /\ inst' \in [Products -> RunRecords] /\ inst[p].pc = "placing"
  BY <1>2 DEF RemoveReplaced, Step, InstallerTyped
<1>. HIDE DEF r
<1>5. ~InPost(p)' /\ inst'[p].pc = "placing" /\ ~InPost(p)
  BY <1>3, <1>4 DEF InPost
<1>6. /\ \A g \in Wanted(p): disk[g] = inst[p].target \/ Pending(p, g)
      /\ inst[p].removals \subseteq OwnApplet(p)
      /\ inst[p].removals # {} => "applet" \in inst[p].comps
      /\ "applet" \in inst[p].comps =>
           /\ disk[SharedApplet] # 0 \/ Pending(p, SharedApplet)
           /\ inst[p].applet # 0 => disk[SharedLaunchers] # 0 \/ Pending(p, SharedLaunchers)
           /\ \A g \in OwnApplet(p): disk[g] = 0 \/ g \in inst[p].removals
  BY <1>4 DEF RunHolds, FilesKnow
<1>7. f \in OwnApplet(p) /\ Range(inst[p].todo) = {}
  BY <1>1, <1>6, Joined
<1>8. /\ SharedFiles \subseteq Files /\ OwnFiles(p) \subseteq Files /\ OwnApplet(p) \subseteq Files
      /\ SharedFiles \cap OwnFiles(p) = {} /\ SharedFiles \cap OwnApplet(p) = {}
      /\ OwnFiles(p) \cap OwnApplet(p) = {} /\ Wanted(p) \subseteq OwnFiles(p)
      /\ SharedApplet \in SharedFiles /\ SharedLaunchers \in SharedFiles
  BY FilesApart
<1>9. /\ disk' \in [Files -> Releases] /\ disk'[f] = 0
      /\ \A g \in Files \ {f}: disk'[g] = disk[g]
  <2>1. 0 \in Releases
    BY DEF Releases
  <2>. QED
    BY <1>7, <1>8, <2>1 DEF RemoveReplaced, InstallerTyped
<1>10. InstallerTyped'
  BY <1>4, <1>9 DEF RemoveReplaced, InstallerTyped
<1>11. \A g: ~Pending(p, g) /\ ~Pending(p, g)'
  BY <1>3, <1>4, <1>7 DEF Pending
<1>12. \A g \in SharedFiles: disk'[g] = disk[g]
  BY <1>7, <1>8, <1>9
<1>13. RunKnows(p)'
  BY <1>3, <1>4, <1>8, <1>12 DEF RunHolds, RunKnows
<1>14. FilesKnow(p)'
  <2>1. Wanted(p)' = Wanted(p) /\ OwnApplet(p)' = OwnApplet(p) /\ Range(inst'[p].todo) = {}
    BY <1>3, <1>4, <1>7 DEF Wanted, OwnApplet
  <2>2. \A g \in Wanted(p)': disk'[g] = inst'[p].target \/ Pending(p, g)'
    BY <1>3, <1>4, <1>6, <1>7, <1>8, <1>9, <1>11, <2>1
  <2>3. /\ inst'[p].removals \subseteq OwnApplet(p)
        /\ inst'[p].removals # {} => "applet" \in inst'[p].comps
        /\ "applet" \in inst'[p].comps =>
             /\ disk'[SharedApplet] # 0
             /\ inst'[p].applet # 0 => disk'[SharedLaunchers] # 0
    BY <1>3, <1>4, <1>6, <1>8, <1>11, <1>12
  <2>4. ASSUME "applet" \in inst'[p].comps, NEW g \in OwnApplet(p)
        PROVE  disk'[g] = 0 \/ g \in inst'[p].removals
    BY <1>3, <1>4, <1>6, <1>8, <1>9, <2>4
  <2>. QED
    BY <1>5, <2>1, <2>2, <2>3, <2>4 DEF FilesKnow
<1>15. PostKnows(p)'
  <2>1. windows' = windows
    BY DEF RemoveReplaced
  <2>. QED
    BY <1>5, <2>1 DEF PostKnows, UnitKnows, WindowsKnow
<1>. QED
  BY <1>7, <1>10, <1>13, <1>14, <1>15 DEF RunHolds

\* The root phase's own exit code and a kill are not taken for a refusal.
LEMMA RootEndsHolds ==
  ASSUME InstallerInv, NEW p \in Products, RootEnds(p)
  PROVE  InstallerTyped' /\ RunHolds(p)'
<1>. USE RunFacts
<1>1. inst' \in [Products -> RunRecords] => InstallerTyped'
  BY DEF RootEnds, InstallerTyped, hostVars
<1>2. PICK code \in {RootFailure, 0}: Step(p, "placing", Report(p, ClassifyFailure(inst[p].by, code)))
  BY DEF RootEnds
<1>3. inst[p].by \in {"sudo", "pkexec"}
  BY <1>2 DEF Step, RunHolds, RunKnows
<1>4. ClassifyFailure(inst[p].by, code) = "install_failed"
  BY <1>3 DEF ClassifyFailure, RootFailure
<1>. QED
  BY <1>1, <1>2, <1>4, ReportHolds DEF Step, RootEnds, hostVars, Codes

LEMMA BeginHolds ==
  ASSUME InstallerInv, NEW p \in Products, BeginPostInstall(p)
  PROVE  InstallerTyped' /\ RunHolds(p)'
<1>. USE RunFacts
<1>1. inst' \in [Products -> RunRecords] => InstallerTyped'
  BY DEF BeginPostInstall, InstallerTyped, hostVars
<1>. DEFINE pids == IF "app" \in inst[p].comps THEN RunningAppPids(p) ELSE {}
<1>2. PICK systemctl \in BOOLEAN:
         Step(p, "placing",
            [inst[p] EXCEPT !.pc = "post", !.pids = pids, !.systemd = systemctl,
               !.steps = PlanSteps(inst[p].comps, inst[p].changes, systemctl, panel # "none", pids # {})])
  BY DEF BeginPostInstall
<1>. DEFINE shown == panel # "none"
            open == pids # {}
            steps == PlanSteps(inst[p].comps, inst[p].changes, systemctl, shown, open)
            r == [inst[p] EXCEPT !.pc = "post", !.pids = pids, !.systemd = systemctl, !.steps = steps]
<1>3. pids \in SUBSET Windows
  BY DEF RunningAppPids, InstallerTyped
<1>4. \A w \in windows[p]:
        w.launcher \/ w.version = Legacy \/ "app" \notin inst[p].comps \/ w \in pids
  BY DEF RunningAppPids, RunsApp
<1>. HIDE DEF pids
<1>. HIDE DEF shown, open
<1>5. /\ steps \in Seq(StepNames) /\ Ordered(steps)
      /\ "daemon" \in inst[p].comps /\ systemctl =>
            {"remove_legacy_unit", "enable", "restart_or_start"} \subseteq Range(steps)
      /\ "restart_app" \in Range(steps) <=> ("app" \in inst[p].comps /\ open)
  BY PlanFacts
<1>. HIDE DEF steps
<1>6. r \in RunRecords
  <2>1. \A run \in RunRecords, s \in Seq(StepNames):
          [run EXCEPT !.pc = "post", !.steps = s] \in RunRecords
    BY ZenonT(60) DEF RunRecords
  <2>2. \A run \in RunRecords, ws \in SUBSET Windows:
          [run EXCEPT !.pids = ws, !.systemd = systemctl] \in RunRecords
    BY ZenonT(60) DEF RunRecords
  <2>. DEFINE q == [inst[p] EXCEPT !.pc = "post", !.steps = steps]
  <2>3. q \in RunRecords
    BY <1>5, <2>1
  <2>4. r = [q EXCEPT !.pids = pids, !.systemd = systemctl]
    BY <2>3 DEF RunRecords
  <2>. QED
    BY <1>3, <2>2, <2>3, <2>4
<1>7. /\ r.pc = "post" /\ r.pids = pids /\ r.steps = steps /\ r.systemd = systemctl
      /\ r.todo = inst[p].todo /\ r.removals = inst[p].removals /\ r.code = inst[p].code
      /\ r.target = inst[p].target /\ r.comps = inst[p].comps /\ r.applet = inst[p].applet
      /\ r.stayed = inst[p].stayed
  BY DEF RunRecords
<1>8. inst'[p] = r /\ inst' \in [Products -> RunRecords] /\ inst[p].pc = "placing"
  BY <1>2, <1>6 DEF Step, InstallerTyped, steps, shown, open
<1>. HIDE DEF r
<1>9. InPost(p)' /\ inst'[p].pc = "post"
  BY <1>7, <1>8 DEF InPost
<1>10. /\ disk' = disk /\ windows' = windows /\ legacy' = legacy /\ service' = service
       /\ inst[p].todo = <<>> /\ inst[p].removals = {} /\ ~inst[p].stayed
  BY <1>8 DEF BeginPostInstall, hostVars, RunHolds, RunKnows
<1>11. RunKnows(p)'
  BY <1>7, <1>8, <1>10 DEF RunHolds, RunKnows
<1>12. FilesKnow(p)'
  <2>1. /\ Wanted(p)' = Wanted(p) /\ OwnFiles(p)' = OwnFiles(p) /\ OwnApplet(p)' = OwnApplet(p)
        /\ \A f: Pending(p, f)' <=> Pending(p, f)
    BY <1>7, <1>8 DEF Wanted, OwnFiles, OwnApplet, Pending
  <2>. QED
    BY <1>7, <1>8, <1>9, <1>10, <2>1 DEF RunHolds, FilesKnow
<1>13. PostKnows(p)'
  <2>1. \A n: Left(p, n)' <=> n \in Range(steps)
    BY <1>7, <1>8 DEF Left
  <2>2. UnitKnows(p)'
    BY <1>5, <1>7, <1>8, <2>1 DEF UnitKnows
  <2>3. WindowsKnow(p)'
    <3>1. \A w \in windows'[p]: w.version # 0
      BY <1>10
    <3>0. "restart_app" \in Range(steps) <=> ("app" \in inst[p].comps /\ pids # {})
      BY <1>5 DEF open
    <3>2. Left(p, "restart_app")' => "app" \in inst'[p].comps /\ ~inst'[p].stayed
      BY <1>7, <1>8, <1>10, <2>1, <3>0
    <3>3. ASSUME "app" \in inst'[p].comps, NEW w \in windows'[p], ~w.launcher, w.version # Legacy
          PROVE  Left(p, "restart_app")' /\ w \in inst'[p].pids
      BY <1>4, <1>7, <1>8, <1>10, <2>1, <3>0, <3>3
    <3>. QED
      BY <3>1, <3>2, <3>3 DEF WindowsKnow
  <2>. QED
    BY <1>5, <1>7, <1>8, <2>2, <2>3 DEF PostKnows
<1>. QED
  BY <1>1, <1>8, <1>11, <1>12, <1>13 DEF RunHolds

-----------------------------------------------------------------------------
(* The steps after the files: each leaves the queue and the record of the  *)
(* run, whether others are to come or it was the last.                     *)
LEMMA AtStepFacts ==
  ASSUME InstallerInv, NEW p \in Products, NEW name, AtStep(p, name), inst[p].pc = "post"
  PROVE  /\ InPost(p) /\ inst[p].steps \in Seq(StepNames) /\ inst[p].steps # <<>>
         /\ Ordered(inst[p].steps) /\ name = Head(inst[p].steps) /\ name \in StepNames
         /\ inst[p].code = "none" /\ inst[p].todo = <<>> /\ inst[p].removals = {}
         /\ Left(p, name) /\ \A f \in Wanted(p): disk[f] = inst[p].target
<1>1. InPost(p)
  BY DEF InPost
<1>2. inst[p].steps \in Seq(StepNames) /\ inst[p].steps # <<>> /\ name = Head(inst[p].steps)
  BY RunFacts DEF RunRecords, AtStep
<1>3. Ordered(inst[p].steps)
  BY <1>1, RunFacts DEF RunHolds, PostKnows
<1>4. inst[p].code = "none" /\ inst[p].todo = <<>> /\ inst[p].removals = {}
  BY <1>1, RunFacts DEF RunHolds, RunKnows, FilesKnow
<1>5. name \in StepNames /\ Left(p, name)
  BY <1>2, TailFacts DEF Left
<1>6. \A f: ~Pending(p, f)
  BY <1>4, Joined DEF Pending
<1>7. \A f \in Wanted(p): disk[f] = inst[p].target
  BY <1>1, <1>6, RunFacts DEF RunHolds, FilesKnow
<1>. QED
  BY <1>1, <1>2, <1>3, <1>4, <1>5, <1>7

LEMMA StepDoneFacts ==
  ASSUME InstallerInv, NEW p \in Products, NEW new \in RunRecords, new.pc = "post",
         new.code = "none", new.todo = <<>>, new.removals = {}, new.steps = inst[p].steps,
         inst[p].steps \in Seq(StepNames), inst[p].steps # <<>>
  PROVE  LET r == StepDone(p, new) IN
         /\ r \in RunRecords
         /\ (r.pc = "post" /\ r.code = "none") \/ (r.pc = "done" /\ r.code = "complete")
         /\ r.comps = new.comps /\ r.target = new.target /\ r.systemd = new.systemd
         /\ r.clean = new.clean /\ r.stayed = new.stayed
         /\ r.todo = <<>> /\ r.removals = {} /\ r.steps = Tail(inst[p].steps)
         /\ r.applet = new.applet
         /\ r.pc = "done" => r.steps = <<>>
         /\ r.steps # <<>> => r.pids = new.pids
<1>. DEFINE rest == Tail(inst[p].steps)
<1>1. rest \in Seq(StepNames)
  BY TailFacts
<1>2. StepDone(p, new) = IF rest = <<>> THEN Complete(p, new) ELSE [new EXCEPT !.steps = rest]
  BY DEF StepDone
<1>. HIDE DEF rest
<1>3. CASE rest = <<>>
  <2>. DEFINE c == Complete(p, new)
  <2>1. /\ c \in RunRecords /\ c.pc = "done" /\ c.code = "complete"
        /\ c.comps = new.comps /\ c.target = new.target /\ c.systemd = new.systemd
        /\ c.clean = new.clean /\ c.stayed = new.stayed /\ c.applet = new.applet
        /\ c.todo = <<>> /\ c.removals = {} /\ c.steps = <<>>
    BY CompleteFacts, RunFacts
  <2>2. StepDone(p, new) = c
    BY <1>2, <1>3
  <2>. HIDE DEF c
  <2>. QED
    BY <1>3, <2>1, <2>2 DEF rest
<1>4. CASE rest # <<>>
  <2>. DEFINE c == [new EXCEPT !.steps = rest]
  <2>1. c \in RunRecords
    BY <1>1 DEF RunRecords
  <2>2. /\ c.pc = "post" /\ c.code = "none" /\ c.todo = <<>> /\ c.removals = {} /\ c.steps = rest
        /\ c.comps = new.comps /\ c.target = new.target /\ c.systemd = new.systemd
        /\ c.clean = new.clean /\ c.stayed = new.stayed /\ c.applet = new.applet
        /\ c.pids = new.pids
    BY DEF RunRecords
  <2>3. StepDone(p, new) = c
    BY <1>2, <1>4
  <2>. HIDE DEF c
  <2>. QED
    BY <2>1, <2>2, <2>3 DEF rest
<1>. QED
  BY <1>3, <1>4

\* A record of the run that differs in no more than what the steps note in it.
Noted(p, new) ==
  /\ new \in RunRecords /\ new.pc = inst[p].pc /\ new.code = inst[p].code
  /\ new.todo = inst[p].todo /\ new.removals = inst[p].removals /\ new.steps = inst[p].steps
  /\ new.comps = inst[p].comps /\ new.target = inst[p].target
  /\ new.systemd = inst[p].systemd /\ new.applet = inst[p].applet /\ new.pids = inst[p].pids

LEMMA StepOver ==
  ASSUME InstallerInv, NEW p \in Products, NEW name, AtStep(p, name), inst[p].pc = "post",
         NEW new, Noted(p, new),
         inst' = [inst EXCEPT ![p] = StepDone(p, new)], disk' = disk
  PROVE  /\ inst' \in [Products -> RunRecords] /\ RunKnows(p)' /\ FilesKnow(p)'
         /\ InPost(p) /\ InPost(p)' /\ Ordered(inst[p].steps)'
         /\ inst'[p].comps = inst[p].comps /\ inst'[p].target = inst[p].target
         /\ inst'[p].systemd = inst[p].systemd /\ inst'[p].clean = new.clean
         /\ inst'[p].stayed = new.stayed
         /\ \A n: Left(p, n)' => /\ Left(p, n) /\ Rank[name] < Rank[n]
                                 /\ inst'[p].pids = inst[p].pids
         /\ \A n: Left(p, n) => n = name \/ Left(p, n)'
<1>. DEFINE r == StepDone(p, new)
<1>1. /\ InPost(p) /\ inst[p].steps \in Seq(StepNames) /\ inst[p].steps # <<>>
      /\ Ordered(inst[p].steps) /\ name = Head(inst[p].steps)
      /\ inst[p].code = "none" /\ inst[p].todo = <<>> /\ inst[p].removals = {}
  BY AtStepFacts
<1>2. inst[p] \in RunRecords /\ RunHolds(p) /\ inst \in [Products -> RunRecords]
  BY RunFacts DEF InstallerTyped
<1>3. /\ new \in RunRecords
      /\ new.pc = inst[p].pc /\ new.code = inst[p].code /\ new.todo = inst[p].todo
      /\ new.removals = inst[p].removals /\ new.steps = inst[p].steps
      /\ new.comps = inst[p].comps /\ new.target = inst[p].target
      /\ new.systemd = inst[p].systemd /\ new.applet = inst[p].applet /\ new.pids = inst[p].pids
  BY DEF Noted
<1>4. /\ r \in RunRecords
      /\ (r.pc = "post" /\ r.code = "none") \/ (r.pc = "done" /\ r.code = "complete")
      /\ r.comps = inst[p].comps /\ r.target = inst[p].target /\ r.systemd = inst[p].systemd
      /\ r.clean = new.clean /\ r.stayed = new.stayed
      /\ r.todo = <<>> /\ r.removals = {} /\ r.steps = Tail(inst[p].steps)
      /\ r.applet = inst[p].applet
      /\ r.pc = "done" => r.steps = <<>>
      /\ r.steps # <<>> => r.pids = inst[p].pids
  <2>1. new.pc = "post" /\ new.code = "none" /\ new.todo = <<>> /\ new.removals = {}
    BY <1>1, <1>3
  <2>. QED
    BY <1>1, <1>3, <2>1, StepDoneFacts
<1>5. inst'[p] = r /\ inst' \in [Products -> RunRecords]
  BY <1>2, <1>4
<1>. HIDE DEF r
<1>6. InPost(p)'
  BY <1>4, <1>5 DEF InPost
<1>7. RunKnows(p)'
  <2>1. /\ inst[p].target # 0
        /\ "applet" \in inst[p].comps => inst[p].applet # 0 \/ disk[SharedApplet] # 0
    BY <1>2 DEF RunHolds, RunKnows
  <2>. QED
    BY <1>4, <1>5, <2>1 DEF RunKnows
<1>8. FilesKnow(p)'
  <2>1. /\ Wanted(p)' = Wanted(p) /\ OwnFiles(p)' = OwnFiles(p) /\ OwnApplet(p)' = OwnApplet(p)
        /\ \A f: Pending(p, f)' <=> Pending(p, f)
    BY <1>1, <1>4, <1>5 DEF Wanted, OwnFiles, OwnApplet, Pending
  <2>. QED
    BY <1>1, <1>2, <1>4, <1>5, <1>6, <2>1 DEF RunHolds, FilesKnow
<1>9. /\ Tail(inst[p].steps) \in Seq(StepNames) /\ Ordered(Tail(inst[p].steps))
      /\ Range(inst[p].steps) = {name} \cup Range(Tail(inst[p].steps))
      /\ \A n \in Range(Tail(inst[p].steps)): Rank[name] < Rank[n]
  BY <1>1, TailFacts, OrderedTail
<1>10. /\ \A n: Left(p, n)' => /\ Left(p, n) /\ Rank[name] < Rank[n]
                               /\ inst'[p].pids = inst[p].pids
       /\ \A n: Left(p, n) => n = name \/ Left(p, n)'
  <2>1. \A n: Left(p, n)' <=> n \in Range(Tail(inst[p].steps))
    BY <1>4, <1>5 DEF Left
  <2>2. \A n: Left(p, n) <=> n \in Range(inst[p].steps)
    BY DEF Left
  <2>3. \A n: Left(p, n)' => r.steps # <<>>
    BY <1>4, <2>1, Joined
  <2>. QED
    BY <1>4, <1>5, <1>9, <2>1, <2>2, <2>3
<1>. QED
  BY <1>1, <1>4, <1>5, <1>6, <1>7, <1>8, <1>9, <1>10

\* A step that is not of the unit leaves it, one that is not of the windows leaves them.
LEMMA UnitKept ==
  ASSUME NEW p \in Products, UnitKnows(p), InPost(p), inst'[p].comps = inst[p].comps,
         inst'[p].target = inst[p].target, inst'[p].systemd = inst[p].systemd,
         inst'[p].clean = inst[p].clean, legacy'[p].unit = legacy[p].unit,
         legacy'[p].loaded = legacy[p].loaded, service'[p] = service[p],
         \A n \in {"remove_legacy_unit", "enable", "restart_or_start"}: Left(p, n)' <=> Left(p, n)
  PROVE  UnitKnows(p)'
  BY DEF UnitKnows

LEMMA WindowsKept ==
  ASSUME NEW p \in Products, WindowsKnow(p), InPost(p), inst'[p].comps = inst[p].comps,
         inst'[p].target = inst[p].target, inst'[p].stayed = inst[p].stayed,
         windows'[p] = windows[p], Left(p, "restart_app")' <=> Left(p, "restart_app"),
         Left(p, "restart_app")' => inst'[p].pids = inst[p].pids
  PROVE  WindowsKnow(p)'
  BY DEF WindowsKnow

LEMMA SystemdHolds ==
  ASSUME InstallerInv, NEW p \in Products, StepSystemd(p)
  PROVE  InstallerTyped' /\ RunHolds(p)'
<1>. USE RunFacts
<1>1. PICK name \in {"daemon_reload", "enable"}, ok \in BOOLEAN:
        /\ AtStep(p, name)
        /\ legacy' = IF ok THEN Reloaded(p) ELSE legacy
        /\ Step(p, "post", StepDone(p, [inst[p] EXCEPT !.clean = @ /\ (name = "enable" => ok)]))
  BY DEF StepSystemd
<1>. DEFINE clean == inst[p].clean /\ (name = "enable" => ok)
<1>2. clean \in BOOLEAN /\ inst[p].stayed \in BOOLEAN
  BY DEF RunRecords
<1>3. clean => inst[p].clean /\ (name = "enable" => ok)
  OBVIOUS
<1>4. name # "enable" => clean = inst[p].clean
  BY DEF RunRecords
<1>. HIDE DEF clean
<1>. DEFINE new == [inst[p] EXCEPT !.clean = clean]
<1>5. Noted(p, new) /\ new.clean = clean /\ new.stayed = inst[p].stayed
  <2>1. new \in RunRecords
    BY <1>2 DEF RunRecords
  <2>. QED
    BY <2>1 DEF RunRecords, Noted
<1>6. /\ inst' = [inst EXCEPT ![p] = StepDone(p, new)]
      /\ inst[p].pc = "post" /\ disk' = disk /\ windows' = windows /\ service' = service
  BY <1>1 DEF Step, StepSystemd, clean
<1>. HIDE DEF new
<1>7. /\ inst' \in [Products -> RunRecords] /\ RunKnows(p)' /\ FilesKnow(p)'
      /\ InPost(p) /\ InPost(p)' /\ Ordered(inst[p].steps)'
      /\ inst'[p].comps = inst[p].comps /\ inst'[p].target = inst[p].target
      /\ inst'[p].systemd = inst[p].systemd /\ inst'[p].clean = clean
      /\ inst'[p].stayed = inst[p].stayed
      /\ \A n: Left(p, n)' => /\ Left(p, n) /\ Rank[name] < Rank[n]
                              /\ inst'[p].pids = inst[p].pids
      /\ \A n: Left(p, n) => n = name \/ Left(p, n)'
  BY <1>1, <1>2, <1>5, <1>6, StepOver, ZenonT(60)
<1>8. /\ legacy' \in [Products -> [unit: BOOLEAN, bin: BOOLEAN, loaded: BOOLEAN]]
      /\ legacy'[p].unit = legacy[p].unit
      /\ legacy'[p].loaded = IF ok THEN legacy[p].unit ELSE legacy[p].loaded
  <2>1. /\ legacy \in [Products -> [unit: BOOLEAN, bin: BOOLEAN, loaded: BOOLEAN]]
        /\ legacy[p].unit \in BOOLEAN
    BY DEF InstallerTyped
  <2>2. CASE ok
    BY <1>1, <2>1, <2>2 DEF Reloaded
  <2>3. CASE ~ok
    BY <1>1, <2>1, <2>3
  <2>. QED
    BY <2>2, <2>3
<1>9. InstallerTyped'
  BY <1>6, <1>7, <1>8 DEF InstallerTyped, StepSystemd
<1>10. UnitKnows(p) /\ WindowsKnow(p)
  BY DEF RunHolds, PostKnows
<1>11. /\ Rank["daemon_reload"] = 1 /\ Rank["remove_legacy_unit"] = 2 /\ Rank["enable"] = 3
       /\ Rank["restart_or_start"] = 4
  BY DEF Rank, StepNames
<1>12. UnitKnows(p)'
  <2>1. SUFFICES ASSUME "daemon" \in inst[p].comps, inst[p].systemd
                 PROVE  UnitKnows(p)'
    BY <1>7 DEF UnitKnows
  <2>2. /\ ~Left(p, "remove_legacy_unit") => ~legacy[p].unit
        /\ ~Left(p, "enable") => ~legacy[p].unit /\ (inst[p].clean => ~legacy[p].loaded)
        /\ ~Left(p, "restart_or_start") /\ inst[p].clean => service[p] = inst[p].target
    BY <1>7, <1>10, <2>1 DEF UnitKnows
  <2>3. ~Left(p, "remove_legacy_unit")' => ~legacy'[p].unit
    BY <1>7, <1>8, <2>2
  <2>4. ASSUME ~Left(p, "enable")'
        PROVE  ~legacy'[p].unit /\ (inst'[p].clean => ~legacy'[p].loaded)
    <3>1. CASE name = "enable"
      <4>1. ~Left(p, "remove_legacy_unit")
        BY <1>7, <1>11, <3>1
      <4>. QED
        BY <1>3, <1>7, <1>8, <2>2, <3>1, <4>1
    <3>2. CASE name # "enable"
      BY <1>3, <1>7, <1>8, <2>2, <2>4, <3>2
    <3>. QED
      BY <3>1, <3>2
  <2>5. ~Left(p, "restart_or_start")' /\ inst'[p].clean => service'[p] = inst'[p].target
    BY <1>1, <1>3, <1>6, <1>7, <2>2
  <2>. QED
    BY <2>3, <2>4, <2>5 DEF UnitKnows
<1>13. WindowsKnow(p)'
  BY <1>1, <1>6, <1>7, <1>10, WindowsKept
<1>. QED
  BY <1>7, <1>9, <1>12, <1>13 DEF RunHolds, PostKnows

\* The steps that leave the record of the run as it is.
LEMMA PlainStep ==
  ASSUME InstallerInv, NEW p \in Products, NEW name, AtStep(p, name),
         Step(p, "post", StepDone(p, inst[p])), disk' = disk
  PROVE  /\ inst' \in [Products -> RunRecords] /\ RunKnows(p)' /\ FilesKnow(p)'
         /\ InPost(p) /\ InPost(p)' /\ Ordered(inst[p].steps)'
         /\ inst'[p].comps = inst[p].comps /\ inst'[p].target = inst[p].target
         /\ inst'[p].systemd = inst[p].systemd /\ inst'[p].clean = inst[p].clean
         /\ inst'[p].stayed = inst[p].stayed
         /\ \A n: Left(p, n)' => /\ Left(p, n) /\ Rank[name] < Rank[n]
                                 /\ inst'[p].pids = inst[p].pids
         /\ \A n: Left(p, n) => n = name \/ Left(p, n)'
<1>1. Noted(p, inst[p])
  BY RunFacts DEF Noted
<1>2. inst[p].pc = "post" /\ inst' = [inst EXCEPT ![p] = StepDone(p, inst[p])]
  BY DEF Step
<1>. QED
  BY <1>1, <1>2, StepOver

LEMMA LegacyHolds ==
  ASSUME InstallerInv, NEW p \in Products, StepLegacy(p)
  PROVE  InstallerTyped' /\ RunHolds(p)'
<1>. USE RunFacts
<1>1. PICK name \in {"remove_legacy_unit", "cleanup_legacy"}:
        /\ AtStep(p, name)
        /\ legacy' = IF name = "remove_legacy_unit" THEN [legacy EXCEPT ![p].unit = FALSE]
                     ELSE [legacy EXCEPT ![p].bin = FALSE]
  BY DEF StepLegacy
<1>2. /\ Step(p, "post", StepDone(p, inst[p])) /\ disk' = disk /\ windows' = windows
      /\ service' = service
  BY DEF StepLegacy
<1>3. /\ inst' \in [Products -> RunRecords] /\ RunKnows(p)' /\ FilesKnow(p)'
      /\ InPost(p) /\ InPost(p)' /\ Ordered(inst[p].steps)'
      /\ inst'[p].comps = inst[p].comps /\ inst'[p].target = inst[p].target
      /\ inst'[p].systemd = inst[p].systemd /\ inst'[p].clean = inst[p].clean
      /\ inst'[p].stayed = inst[p].stayed
      /\ \A n: Left(p, n)' => /\ Left(p, n) /\ Rank[name] < Rank[n]
                              /\ inst'[p].pids = inst[p].pids
      /\ \A n: Left(p, n) => n = name \/ Left(p, n)'
  BY <1>1, <1>2, PlainStep
<1>4. /\ legacy' \in [Products -> [unit: BOOLEAN, bin: BOOLEAN, loaded: BOOLEAN]]
      /\ legacy'[p].unit = (legacy[p].unit /\ name # "remove_legacy_unit")
      /\ legacy'[p].loaded = legacy[p].loaded
  <2>1. /\ legacy \in [Products -> [unit: BOOLEAN, bin: BOOLEAN, loaded: BOOLEAN]]
        /\ legacy[p].unit \in BOOLEAN
    BY DEF InstallerTyped
  <2>2. CASE name = "remove_legacy_unit"
    BY <1>1, <2>1, <2>2
  <2>3. CASE name # "remove_legacy_unit"
    BY <1>1, <2>1, <2>3
  <2>. QED
    BY <2>2, <2>3
<1>5. InstallerTyped'
  BY <1>3, <1>4 DEF InstallerTyped, StepLegacy
<1>6. UnitKnows(p) /\ WindowsKnow(p)
  BY DEF RunHolds, PostKnows
<1>7. UnitKnows(p)'
  <2>1. SUFFICES ASSUME "daemon" \in inst[p].comps, inst[p].systemd
                 PROVE  UnitKnows(p)'
    BY <1>3 DEF UnitKnows
  <2>2. /\ ~Left(p, "remove_legacy_unit") => ~legacy[p].unit
        /\ ~Left(p, "enable") => ~legacy[p].unit /\ (inst[p].clean => ~legacy[p].loaded)
        /\ ~Left(p, "restart_or_start") /\ inst[p].clean => service[p] = inst[p].target
    BY <1>3, <1>6, <2>1 DEF UnitKnows
  <2>3. ~Left(p, "remove_legacy_unit")' => ~legacy'[p].unit
    BY <1>3, <1>4, <2>2
  <2>4. ~Left(p, "enable")' => ~legacy'[p].unit /\ (inst'[p].clean => ~legacy'[p].loaded)
    BY <1>1, <1>3, <1>4, <2>2
  <2>5. ~Left(p, "restart_or_start")' /\ inst'[p].clean => service'[p] = inst'[p].target
    BY <1>1, <1>2, <1>3, <2>2
  <2>. QED
    BY <2>3, <2>4, <2>5 DEF UnitKnows
<1>8. WindowsKnow(p)'
  BY <1>1, <1>2, <1>3, <1>6, WindowsKept
<1>. QED
  BY <1>3, <1>5, <1>7, <1>8 DEF RunHolds, PostKnows

\* What the loaded unit starts is the release, unless enabling it failed.
LEMMA RestartHolds ==
  ASSUME InstallerInv, NEW p \in Products, StepRestart(p)
  PROVE  InstallerTyped' /\ RunHolds(p)'
<1>. USE RunFacts
<1>1. /\ AtStep(p, "restart_or_start") /\ inst[p].pc = "post" /\ disk' = disk
      /\ windows' = windows /\ legacy' = legacy /\ newest' = newest
  BY DEF StepRestart, Step, hostVars
<1>2. Starts(p) \in Releases
  <2>1. Legacy \in Releases /\ 0 \in Releases
    BY InstallerAssumption DEF Legacy, Releases
  <2>2. disk[<<p, "daemon">>] \in Releases
    BY Named DEF InstallerTyped
  <2>. QED
    BY <2>1, <2>2 DEF Starts
<1>3. CASE /\ Starts(p) # 0 /\ service' = [service EXCEPT ![p] = Starts(p)]
           /\ Step(p, "post", StepDone(p, inst[p]))
  <2>1. /\ inst' \in [Products -> RunRecords] /\ RunKnows(p)' /\ FilesKnow(p)'
        /\ InPost(p) /\ InPost(p)' /\ Ordered(inst[p].steps)'
        /\ inst'[p].comps = inst[p].comps /\ inst'[p].target = inst[p].target
        /\ inst'[p].systemd = inst[p].systemd /\ inst'[p].clean = inst[p].clean
        /\ inst'[p].stayed = inst[p].stayed
        /\ \A n: Left(p, n)' => /\ Left(p, n) /\ Rank["restart_or_start"] < Rank[n]
                                /\ inst'[p].pids = inst[p].pids
        /\ \A n: Left(p, n) => n = "restart_or_start" \/ Left(p, n)'
    BY <1>1, <1>3, PlainStep
  <2>2. service' \in [Products -> Releases] /\ service'[p] = Starts(p)
    BY <1>2, <1>3 DEF InstallerTyped
  <2>3. InstallerTyped'
    BY <1>1, <2>1, <2>2 DEF InstallerTyped
  <2>4. UnitKnows(p) /\ WindowsKnow(p)
    BY DEF RunHolds, PostKnows
  <2>5. UnitKnows(p)'
    <3>1. SUFFICES ASSUME "daemon" \in inst[p].comps, inst[p].systemd
                   PROVE  UnitKnows(p)'
      BY <2>1 DEF UnitKnows
    <3>2. /\ ~Left(p, "remove_legacy_unit") => ~legacy[p].unit
          /\ ~Left(p, "enable") => ~legacy[p].unit /\ (inst[p].clean => ~legacy[p].loaded)
      BY <2>1, <2>4, <3>1 DEF UnitKnows
    <3>3. Rank["enable"] = 3 /\ Rank["restart_or_start"] = 4
      BY DEF Rank, StepNames
    <3>4. ~Left(p, "enable")
      BY <2>1, <3>3
    <3>5. disk[<<p, "daemon">>] = inst[p].target
      <4>1. <<p, "daemon">> \in Wanted(p)
        BY <3>1 DEF Wanted
      <4>. QED
        BY <1>1, <4>1, AtStepFacts
    <3>6. inst[p].clean => service'[p] = inst[p].target
      BY <2>2, <3>2, <3>4, <3>5 DEF Starts
    <3>7. ~Left(p, "remove_legacy_unit")' => ~legacy'[p].unit
      BY <1>1, <2>1, <3>2
    <3>8. ~Left(p, "enable")' => ~legacy'[p].unit /\ (inst'[p].clean => ~legacy'[p].loaded)
      BY <1>1, <2>1, <3>2, <3>4
    <3>. QED
      BY <2>1, <3>6, <3>7, <3>8 DEF UnitKnows
  <2>6. WindowsKnow(p)'
    BY <1>1, <2>1, <2>4, WindowsKept
  <2>. QED
    BY <2>1, <2>3, <2>5, <2>6 DEF RunHolds, PostKnows
<1>4. CASE /\ service' \in {service, [service EXCEPT ![p] = 0]}
           /\ Step(p, "post", Report(p, "post_install_failed"))
  <2>1. service' \in [Products -> Releases]
    BY <1>4 DEF InstallerTyped, Releases
  <2>2. inst' \in [Products -> RunRecords] /\ RunHolds(p)'
    BY <1>1, <1>4, ReportHolds DEF Step, Codes
  <2>. QED
    BY <1>1, <2>1, <2>2 DEF InstallerTyped
<1>. QED
  BY <1>3, <1>4 DEF StepRestart

\* No window of an older release is left, but what the user did not let quit.
LEMMA RestartAppHolds ==
  ASSUME InstallerInv, NEW p \in Products, StepRestartApp(p)
  PROVE  InstallerTyped' /\ RunHolds(p)'
<1>. USE RunFacts
<1>1. PICK stay \in SUBSET (inst[p].pids \cap windows[p]), starts \in BOOLEAN:
        LET new == IF stay = {} /\ starts
                   THEN {[version |-> disk[<<p, "app">>], launcher |-> FALSE]} ELSE {} IN
        /\ windows' = [windows EXCEPT ![p] = (@ \ inst[p].pids) \cup stay \cup new]
        /\ Step(p, "post", StepDone(p, [inst[p] EXCEPT !.stayed = stay # {}]))
  BY DEF StepRestartApp
<1>. DEFINE stayed == stay # {}
            run == [inst[p] EXCEPT !.stayed = stayed]
            new == IF stay = {} /\ starts
                   THEN {[version |-> disk[<<p, "app">>], launcher |-> FALSE]} ELSE {}
<1>2. stayed \in BOOLEAN
  OBVIOUS
<1>3. /\ AtStep(p, "restart_app") /\ disk' = disk /\ service' = service /\ legacy' = legacy
      /\ newest' = newest /\ inst[p].pc = "post"
      /\ inst' = [inst EXCEPT ![p] = StepDone(p, run)]
  BY <1>1 DEF StepRestartApp, Step
<1>. HIDE DEF stayed
<1>4. Noted(p, run) /\ run.clean = inst[p].clean /\ run.stayed = stayed
  <2>1. run \in RunRecords
    BY <1>2 DEF RunRecords
  <2>. QED
    BY <2>1 DEF RunRecords, Noted
<1>. HIDE DEF run
<1>5. /\ inst' \in [Products -> RunRecords] /\ RunKnows(p)' /\ FilesKnow(p)'
      /\ InPost(p) /\ InPost(p)' /\ Ordered(inst[p].steps)'
      /\ inst'[p].comps = inst[p].comps /\ inst'[p].target = inst[p].target
      /\ inst'[p].systemd = inst[p].systemd /\ inst'[p].clean = inst[p].clean
      /\ inst'[p].stayed = stayed
      /\ \A n: Left(p, n)' => Left(p, n) /\ Rank["restart_app"] < Rank[n]
      /\ \A n: Left(p, n) => n = "restart_app" \/ Left(p, n)'
  BY <1>3, <1>4, StepOver, ZenonT(60)
<1>6. UnitKnows(p) /\ WindowsKnow(p) /\ Left(p, "restart_app")
  BY <1>3, AtStepFacts DEF RunHolds, PostKnows
<1>7. /\ "app" \in inst[p].comps
      /\ \A w \in windows[p]: w.launcher \/ w.version \in {inst[p].target, Legacy} \/ w \in inst[p].pids
  BY <1>5, <1>6 DEF WindowsKnow
<1>8. disk[<<p, "app">>] = inst[p].target /\ inst[p].target # 0 /\ inst[p].target \in Releases
  <2>1. <<p, "app">> \in Wanted(p)
    BY <1>7 DEF Wanted
  <2>2. disk[<<p, "app">>] = inst[p].target
    BY <1>3, <2>1, AtStepFacts
  <2>. QED
    BY <1>3, <2>2 DEF RunHolds, RunKnows, RunRecords
<1>9. new \subseteq Windows /\ \A w \in new: w.version = inst[p].target
  <2>. DEFINE x == [version |-> disk[<<p, "app">>], launcher |-> FALSE]
  <2>1. x \in Windows /\ x.version = inst[p].target
    BY <1>8 DEF Windows
  <2>. HIDE DEF x
  <2>2. new \subseteq {x}
    BY DEF x
  <2>. HIDE DEF new
  <2>. QED
    BY <2>1, <2>2
<1>. DEFINE ws == (windows[p] \ inst[p].pids) \cup stay \cup new
<1>10. /\ windows \in [Products -> SUBSET Windows] /\ windows' = [windows EXCEPT ![p] = ws]
       /\ windows'[p] = (windows[p] \ inst[p].pids) \cup stay \cup new
  <2>1. windows \in [Products -> SUBSET Windows]
    BY DEF InstallerTyped
  <2>2. windows' = [windows EXCEPT ![p] = ws]
    BY <1>1
  <2>. HIDE DEF ws
  <2>3. windows'[p] = ws
    BY <2>1, <2>2
  <2>. QED
    BY <2>1, <2>2, <2>3 DEF ws
<1>. HIDE DEF new, ws
<1>11. windows'[p] \subseteq Windows /\ windows' \in [Products -> SUBSET Windows]
  <2>1. ws \in SUBSET Windows
    BY <1>9, <1>10 DEF ws
  <2>. QED
    BY <1>10, <2>1
<1>12. InstallerTyped'
  BY <1>3, <1>5, <1>11 DEF InstallerTyped
<1>13. UnitKnows(p)'
  BY <1>3, <1>5, <1>6, UnitKept
<1>14. WindowsKnow(p)'
  <2>1. ~Left(p, "restart_app")'
    <3>1. Rank["restart_app"] = 5
      BY DEF Rank, StepNames
    <3>. QED
      BY <1>5, <3>1
  <2>2. \A w \in windows'[p]: w.version # 0
    BY <1>8, <1>9, <1>10
  <2>3. ASSUME ~inst'[p].stayed, NEW w \in windows'[p]
        PROVE  w.launcher \/ w.version \in {inst'[p].target, Legacy}
    <3>1. stay = {}
      BY <1>5, <2>3 DEF stayed
    <3>. QED
      BY <1>5, <1>7, <1>9, <1>10, <3>1
  <2>. QED
    BY <2>1, <2>2, <2>3 DEF WindowsKnow
<1>. QED
  BY <1>5, <1>12, <1>13, <1>14 DEF RunHolds, PostKnows

LEMMA DesktopHolds ==
  ASSUME InstallerInv, NEW p \in Products, StepDesktop(p)
  PROVE  InstallerTyped' /\ RunHolds(p)'
<1>. USE RunFacts
<1>1. PICK name \in {"restart_panel", "nudge_launchers"}: AtStep(p, name)
  BY DEF StepDesktop
<1>2. /\ Step(p, "post", StepDone(p, inst[p])) /\ disk' = disk /\ windows' = windows
      /\ service' = service /\ legacy' = legacy /\ newest' = newest
  BY DEF StepDesktop
<1>3. /\ inst' \in [Products -> RunRecords] /\ RunKnows(p)' /\ FilesKnow(p)'
      /\ InPost(p) /\ InPost(p)' /\ Ordered(inst[p].steps)'
      /\ inst'[p].comps = inst[p].comps /\ inst'[p].target = inst[p].target
      /\ inst'[p].systemd = inst[p].systemd /\ inst'[p].clean = inst[p].clean
      /\ inst'[p].stayed = inst[p].stayed
      /\ \A n: Left(p, n)' => /\ Left(p, n) /\ Rank[name] < Rank[n]
                              /\ inst'[p].pids = inst[p].pids
      /\ \A n: Left(p, n) => n = name \/ Left(p, n)'
  BY <1>1, <1>2, PlainStep
<1>4. UnitKnows(p) /\ WindowsKnow(p)
  BY DEF RunHolds, PostKnows
<1>5. UnitKnows(p)' /\ WindowsKnow(p)'
  BY <1>1, <1>2, <1>3, <1>4, UnitKept, WindowsKept
<1>6. InstallerTyped'
  BY <1>2, <1>3 DEF InstallerTyped
<1>. QED
  BY <1>3, <1>5, <1>6 DEF RunHolds, PostKnows

-----------------------------------------------------------------------------
(* The others.                                                             *)

\* A run of p's installer changes nothing of q but that it may place the shared applet's files.
LEMMA OthersKept ==
  ASSUME InstallerInv, NEW p \in Products, InstallerStep(p), NEW q \in Products, q # p
  PROVE  RunHolds(q)'
<1>1. /\ inst \in [Products -> RunRecords] /\ disk \in [Files -> Releases]
      /\ legacy \in [Products -> [unit: BOOLEAN, bin: BOOLEAN, loaded: BOOLEAN]]
      /\ windows \in [Products -> SUBSET Windows] /\ service \in [Products -> Releases]
      /\ RunHolds(q)
  BY DEF InstallerInv, InstallerTyped
<1>2. inst'[q] = inst[q]
  <2>1. \A from, new: Step(p, from, new) => inst'[q] = inst[q]
    BY <1>1 DEF Step
  <2>2. CASE ResolveRelease(p) \/ PlanRun(p) \/ StageRun(p)
    BY <2>1, <2>2 DEF ResolveRelease, PlanRun, StageRun
  <2>3. CASE Escalate(p)
    <3>1. \E new: Step(p, "staged", new)
      BY <2>3, Zenon DEF Escalate
    <3>. QED
      BY <2>1, <3>1
  <2>6. CASE PlaceEntry(p) \/ RootEnds(p) \/ \E f \in inst[p].removals: RemoveReplaced(p, f)
    BY <2>1, <2>6 DEF PlaceEntry, RemoveReplaced, RootEnds
  <2>4. CASE BeginPostInstall(p) \/ StepSystemd(p) \/ StepLegacy(p)
    BY <2>1, <2>4 DEF BeginPostInstall, StepSystemd, StepLegacy
  <2>5. CASE StepRestart(p) \/ StepRestartApp(p) \/ StepDesktop(p)
    BY <2>1, <2>5 DEF StepRestart, StepRestartApp, StepDesktop
  <2>. QED
    BY <2>2, <2>3, <2>4, <2>5, <2>6 DEF InstallerStep, PostInstall
<1>3. legacy'[q] = legacy[q] /\ windows'[q] = windows[q] /\ service'[q] = service[q]
  BY <1>1 DEF InstallerStep, hostVars, Reloaded, ResolveRelease, PlanRun, StageRun, Escalate,
     PlaceEntry, RemoveReplaced, RootEnds, PostInstall, BeginPostInstall, StepSystemd,
     StepLegacy, StepRestart, StepRestartApp, StepDesktop
<1>4. /\ \A f \in OwnFiles(q) \cup OwnApplet(q): disk'[f] = disk[f]
      /\ \A f \in SharedFiles: disk[f] # 0 => disk'[f] # 0
  <2>1. /\ OwnFiles(q) \cup OwnApplet(q) \subseteq Files /\ SharedFiles \subseteq Files
        /\ SharedFiles \cap (OwnFiles(q) \cup OwnApplet(q)) = {}
        /\ SharedFiles \cap (OwnFiles(p) \cup OwnApplet(p)) = {}
    BY FilesApart
  <2>2. (OwnFiles(p) \cup OwnApplet(p)) \cap (OwnFiles(q) \cup OwnApplet(q)) = {}
    BY DEF OwnFiles, OwnApplet
  <2>3. CASE PlaceEntry(p)
    <3>. DEFINE e == Head(inst[p].todo)
    <3>1. inst[p].todo \in Seq(EntryRecords) /\ inst[p].todo # <<>> /\ inst[p].pc = "placing"
      BY <1>1, <2>3 DEF PlaceEntry, Step, RunRecords
    <3>2. e \in Range(inst[p].todo)
      BY <3>1, TailFacts
    <3>3. \/ e.file \in SharedFiles /\ e.version # 0
          \/ e.file \in OwnFiles(p)
      BY <3>1, <3>2, RunFacts DEF RunHolds, FilesKnow
    <3>4. disk' = [disk EXCEPT ![e.file] = e.version]
      BY <2>3 DEF PlaceEntry
    <3>. HIDE DEF e
    <3>. QED
      BY <1>1, <2>1, <2>2, <3>3, <3>4
  <2>4. ASSUME NEW f \in inst[p].removals, RemoveReplaced(p, f)
        PROVE  /\ \A g \in OwnFiles(q) \cup OwnApplet(q): disk'[g] = disk[g]
               /\ \A g \in SharedFiles: disk[g] # 0 => disk'[g] # 0
    <3>1. f \in OwnApplet(p) /\ disk' = [disk EXCEPT ![f] = 0]
      BY <2>4, RemoveHolds DEF RemoveReplaced
    <3>. QED
      BY <1>1, <2>1, <2>2, <3>1
  <2>5. CASE disk' = disk
    BY <2>5
  <2>. QED
    BY <2>3, <2>4, <2>5 DEF InstallerStep, ResolveRelease, PlanRun, StageRun, Escalate, RootEnds,
       PostInstall, BeginPostInstall, StepSystemd, StepLegacy, StepRestart, StepRestartApp,
       StepDesktop
<1>. QED
  BY <1>1, <1>2, <1>3, <1>4, Undisturbed

LEMMA OwnStep ==
  ASSUME InstallerInv, NEW p \in Products, InstallerStep(p)
  PROVE  InstallerTyped' /\ RunHolds(p)'
  BY ResolveHolds, PlanHolds, StageHolds, EscalateHolds, PlaceHolds, RemoveHolds, RootEndsHolds,
     BeginHolds, SystemdHolds, LegacyHolds, RestartHolds, RestartAppHolds, DesktopHolds
     DEF InstallerStep, PostInstall

LEMMA OpenAppHolds ==
  ASSUME InstallerInv, NEW p \in Products, OpenApp(p)
  PROVE  InstallerInv'
<1>. USE RunFacts
<1>0. PICK v \in ({disk[<<p, "app">>]} \ {0}) \cup {Legacy}:
        windows' = [windows EXCEPT ![p] = @ \cup {[version |-> v, launcher |-> FALSE]}]
  <2>1. (IF legacy[p].bin THEN {Legacy} ELSE {}) \subseteq {Legacy}
    OBVIOUS
  <2>. QED
    BY <2>1 DEF OpenApp
<1>8. v # 0 /\ v \in Releases
  <2>1. Legacy # 0 /\ Legacy \in Releases
    BY InstallerAssumption DEF Releases, Legacy
  <2>2. disk[<<p, "app">>] \in Releases
    BY Named DEF InstallerTyped
  <2>. QED
    BY <1>0, <2>1, <2>2
<1>. DEFINE x == [version |-> v, launcher |-> FALSE]
<1>1. /\ disk' = disk /\ inst' = inst /\ legacy' = legacy /\ service' = service
      /\ newest' = newest /\ v # 0 /\ v \in {disk[<<p, "app">>], Legacy}
      /\ windows' = [windows EXCEPT ![p] = @ \cup {x}]
  BY <1>0, <1>8 DEF OpenApp
<1>2. windows \in [Products -> SUBSET Windows] /\ x \in Windows
  BY <1>8 DEF InstallerTyped, Windows
<1>3. x.version = v
  OBVIOUS
<1>. HIDE DEF x
<1>4. /\ windows'[p] = windows[p] \cup {x} /\ \A q \in Products \ {p}: windows'[q] = windows[q]
      /\ windows' \in [Products -> SUBSET Windows]
  <2>1. windows[p] \cup {x} \in SUBSET Windows
    BY <1>2
  <2>. QED
    BY <1>1, <1>2, <2>1
<1>5. InstallerTyped'
  BY <1>1, <1>4 DEF InstallerTyped
<1>6. ASSUME NEW q \in Products \ {p}
      PROVE  RunHolds(q)'
  <2>1. RunHolds(q)
    BY DEF InstallerInv
  <2>. QED
    BY <1>1, <1>4, <2>1, Undisturbed
<1>7. RunHolds(p)'
  <2>1. /\ InPost(p)' <=> InPost(p)
        /\ \A n: Left(p, n)' <=> Left(p, n)
        /\ \A f: Pending(p, f)' <=> Pending(p, f)
        /\ Wanted(p)' = Wanted(p) /\ OwnFiles(p)' = OwnFiles(p) /\ OwnApplet(p)' = OwnApplet(p)
    BY <1>1 DEF InPost, Left, Pending, Wanted, OwnFiles, OwnApplet
  <2>2. RunKnows(p)'
    BY <1>1 DEF RunHolds, RunKnows
  <2>3. FilesKnow(p)'
    BY <1>1, <2>1 DEF RunHolds, FilesKnow
  <2>4. UnitKnows(p)'
    BY <1>1, <2>1 DEF RunHolds, PostKnows, UnitKnows
  <2>5. ASSUME InPost(p), "app" \in inst[p].comps
        PROVE  x.version \in {inst[p].target, Legacy}
    <3>1. <<p, "app">> \in Wanted(p)
      BY <2>5 DEF Wanted
    <3>2. inst[p].todo = <<>> /\ (disk[<<p, "app">>] = inst[p].target \/ Pending(p, <<p, "app">>))
      BY <2>5, <3>1 DEF RunHolds, FilesKnow
    <3>3. ~Pending(p, <<p, "app">>)
      BY <3>2, Joined DEF Pending
    <3>. QED
      BY <1>1, <1>3, <3>2, <3>3
  <2>6. WindowsKnow(p)'
    <3>1. WindowsKnow(p)
      BY DEF RunHolds, PostKnows
    <3>. QED
      BY <1>1, <1>3, <1>4, <2>1, <2>5, <3>1 DEF WindowsKnow
  <2>7. (InPost(p) => Ordered(inst[p].steps))'
    BY <1>1, <2>1 DEF RunHolds, PostKnows
  <2>. QED
    BY <2>2, <2>3, <2>4, <2>6, <2>7 DEF RunHolds, PostKnows
<1>. QED
  BY <1>5, <1>6, <1>7 DEF InstallerInv

\* Down and up again: the runs are gone, and with them what they knew.
LEMMA PowerCutHolds ==
  ASSUME InstallerInv, PowerCut
  PROVE  InstallerInv'
<1>1. InstallerTyped
  BY DEF InstallerInv
<1>2. inst' \in [Products -> RunRecords] /\ \A p \in Products: inst'[p] = Idle
  BY IdleIsRun DEF PowerCut
<1>3. windows' \in [Products -> SUBSET Windows] /\ \A p \in Products: windows'[p] = {}
  BY DEF PowerCut
<1>4. legacy' \in [Products -> [unit: BOOLEAN, bin: BOOLEAN, loaded: BOOLEAN]]
  <2>1. \A p \in Products: legacy[p] \in [unit: BOOLEAN, bin: BOOLEAN, loaded: BOOLEAN]
    BY <1>1 DEF InstallerTyped
  <2>2. \A l \in [unit: BOOLEAN, bin: BOOLEAN, loaded: BOOLEAN]:
          [l EXCEPT !.loaded = l.unit] \in [unit: BOOLEAN, bin: BOOLEAN, loaded: BOOLEAN]
    OBVIOUS
  <2>3. legacy' = [p \in Products |-> [legacy[p] EXCEPT !.loaded = legacy[p].unit]]
    BY DEF PowerCut
  <2>. QED
    BY <2>1, <2>2, <2>3
<1>5. service' \in [Products -> Releases]
  <2>1. \A p \in Products: disk[<<p, "daemon">>] \in Releases
    BY <1>1, Named DEF InstallerTyped
  <2>2. Legacy \in Releases /\ 0 \in Releases
    BY InstallerAssumption DEF Legacy, Releases
  <2>. QED
    BY <2>1, <2>2 DEF PowerCut
<1>6. InstallerTyped'
  BY <1>1, <1>2, <1>3, <1>4, <1>5 DEF InstallerTyped, PowerCut
<1>7. ASSUME NEW p \in Products
      PROVE  RunHolds(p)'
  <2>1. /\ inst'[p].pc = "done" /\ inst'[p].code = "none" /\ inst'[p].steps = <<>>
        /\ \A w \in windows'[p]: w.version # 0
    BY <1>2, <1>3, IdleIsRun
  <2>. QED
    BY <2>1, Ended
<1>. QED
  BY <1>6, <1>7 DEF InstallerInv

LEMMA ReleaseHolds ==
  ASSUME InstallerInv, NEW r \in ProductRepos, NewRelease(r)
  PROVE  InstallerInv'
<1>1. /\ disk' = disk /\ inst' = inst /\ legacy' = legacy /\ service' = service
      /\ windows' = windows /\ newest' \in [ProductRepos -> Nat]
  BY DEF NewRelease, hostVars, InstallerInv, InstallerTyped
<1>2. InstallerTyped'
  BY <1>1 DEF InstallerInv, InstallerTyped
<1>3. ASSUME NEW p \in Products
      PROVE  RunHolds(p)'
  <2>1. RunHolds(p)
    BY DEF InstallerInv
  <2>. QED
    BY <1>1, <2>1, Undisturbed
<1>. QED
  BY <1>2, <1>3 DEF InstallerInv

LEMMA InstallerInitHolds ==
  ASSUME InstallerInit
  PROVE  InstallerInv
<1>1. PICK old \in SUBSET Products:
       /\ disk = [f \in Files |-> IF f[1] \in old /\ f[2] # "install" THEN 1 ELSE 0]
       /\ legacy \in [Products -> {[unit |-> b, bin |-> b, loaded |-> b]: b \in BOOLEAN}]
       /\ service = [p \in Products |-> IF legacy[p].bin THEN Legacy ELSE IF p \in old THEN 1 ELSE 0]
       /\ windows \in [Products -> {{}} \cup {{[version |-> v, launcher |-> FALSE]}: v \in {1, Legacy}}]
  BY DEF InstallerInit
<1>2. 0 \in Releases /\ 1 \in Releases /\ Legacy \in Releases
  BY InstallerAssumption DEF Releases, Legacy
<1>3. disk \in [Files -> Releases] /\ service \in [Products -> Releases]
  BY <1>1, <1>2
<1>4. legacy \in [Products -> [unit: BOOLEAN, bin: BOOLEAN, loaded: BOOLEAN]]
  BY <1>1
<1>5. windows \in [Products -> SUBSET Windows] /\ \A p \in Products: \A w \in windows[p]: w.version # 0
  <2>1. \A v \in {1, Legacy}: [version |-> v, launcher |-> FALSE] \in Windows
    BY <1>2 DEF Windows
  <2>2. \A v \in {1, Legacy}: v # 0 /\ [version |-> v, launcher |-> FALSE].version = v
    BY InstallerAssumption DEF Legacy
  <2>3. ASSUME NEW p \in Products
        PROVE  windows[p] \in SUBSET Windows /\ \A w \in windows[p]: w.version # 0
    <3>1. windows[p] = {} \/ \E v \in {1, Legacy}: windows[p] = {[version |-> v, launcher |-> FALSE]}
      BY <1>1
    <3>. QED
      BY <2>1, <2>2, <3>1
  <2>. QED
    BY <1>1, <2>3
<1>6. newest \in [ProductRepos -> Nat] /\ inst \in [Products -> RunRecords]
      /\ \A p \in Products: inst[p] = Idle
  BY IdleIsRun DEF InstallerInit
<1>7. InstallerTyped
  BY <1>3, <1>4, <1>5, <1>6 DEF InstallerTyped
<1>8. ASSUME NEW p \in Products
      PROVE  RunHolds(p)
  <2>1. ~InPost(p) /\ inst[p].pc = "done" /\ inst[p].code = "none" /\ inst[p].steps = <<>>
    BY <1>6, IdleIsRun DEF InPost
  <2>. QED
    BY <1>5, <2>1 DEF RunHolds, RunKnows, FilesKnow, PostKnows, UnitKnows, WindowsKnow
<1>. QED
  BY <1>7, <1>8 DEF InstallerInv

LEMMA InstallerInvStep ==
  ASSUME InstallerInv, [InstallerNext]_installerVars
  PROVE  InstallerInv'
<1>1. ASSUME NEW p \in Products, InstallerStep(p)
      PROVE  InstallerInv'
  BY <1>1, OwnStep, OthersKept DEF InstallerInv
<1>2. CASE UNCHANGED installerVars
  <2>1. /\ disk' = disk /\ service' = service /\ newest' = newest /\ legacy' = legacy
        /\ windows' = windows /\ inst' = inst
    BY <1>2 DEF installerVars, hostVars
  <2>2. InstallerTyped'
    BY <2>1 DEF InstallerInv, InstallerTyped
  <2>3. ASSUME NEW p \in Products
        PROVE  RunHolds(p)'
    <3>1. RunHolds(p)
      BY DEF InstallerInv
    <3>. QED
      BY <2>1, <3>1, Undisturbed
  <2>. QED
    BY <2>2, <2>3 DEF InstallerInv
<1>. QED
  BY <1>1, <1>2, OpenAppHolds, PowerCutHolds, ReleaseHolds DEF InstallerNext

\* What the inductive invariant is for.
LEMMA WholeAndUntouched ==
  ASSUME InstallerInv
  PROVE  CompleteIsWhole /\ DeniedTouchesNothing
<1>1. DeniedTouchesNothing
  BY DEF InstallerInv, RunHolds, RunKnows, DeniedTouchesNothing
<1>2. ASSUME NEW p \in Products, inst[p].pc = "done", inst[p].code = "complete"
      PROVE  LET r == inst[p] IN
             /\ "daemon" \in r.comps =>
                  disk[<<p, "daemon">>] = r.target /\ disk[<<p, "unit">>] = r.target
             /\ "app" \in r.comps => disk[<<p, "app">>] = r.target
             /\ "applet" \in r.comps =>
                  /\ \A f \in OwnApplet(p): disk[f] = 0
                  /\ disk[SharedApplet] # 0 /\ (r.applet # 0 => ~Torn)
             /\ "daemon" \in r.comps /\ r.systemd /\ r.clean => service[p] = r.target
             /\ "app" \in r.comps /\ ~r.stayed =>
                  \A w \in windows[p]: w.launcher \/ w.version \in {r.target, Legacy}
  <2>1. InPost(p) /\ RunHolds(p)
    BY <1>2 DEF InPost, InstallerInv
  <2>2. inst[p].todo = <<>> /\ inst[p].removals = {} /\ \A f: ~Pending(p, f)
    BY <2>1, Joined DEF RunHolds, FilesKnow, Pending
  <2>3. /\ \A f \in Wanted(p): disk[f] = inst[p].target
        /\ "applet" \in inst[p].comps =>
             /\ \A f \in OwnApplet(p): disk[f] = 0
             /\ disk[SharedApplet] # 0 /\ (inst[p].applet # 0 => ~Torn)
    BY <2>1, <2>2 DEF RunHolds, FilesKnow, Torn
  <2>4. /\ "daemon" \in inst[p].comps => <<p, "daemon">> \in Wanted(p) /\ <<p, "unit">> \in Wanted(p)
        /\ "app" \in inst[p].comps => <<p, "app">> \in Wanted(p)
    BY DEF Wanted
  <2>5. \A n: ~Left(p, n)
    BY <1>2, <2>1, Joined DEF RunHolds, RunKnows, Left
  <2>. QED
    BY <2>1, <2>3, <2>4, <2>5 DEF RunHolds, PostKnows, UnitKnows, WindowsKnow
<1>. QED
  BY <1>1, <1>2 DEF CompleteIsWhole

\* The applet that a run replaces goes after the shared one has come, and what comes is
\* never nothing.
LEMMA AppletStays ==
  ASSUME InstallerInv, [InstallerNext]_installerVars, NEW q \in Products, HasApplet(q)
  PROVE  HasApplet(q)' \/ Torn
<1>1. disk \in [Files -> Releases]
  BY DEF InstallerInv, InstallerTyped
<1>2. ASSUME NEW p \in Products, PlaceEntry(p)
      PROVE  HasApplet(q)' \/ Torn
  <2>. DEFINE e == Head(inst[p].todo)
  <2>1. inst[p].todo \in Seq(EntryRecords) /\ inst[p].todo # <<>> /\ inst[p].pc = "placing"
    BY <1>2, RunFacts DEF PlaceEntry, Step, RunRecords
  <2>2. e \in Range(inst[p].todo)
    BY <2>1, TailFacts
  <2>3. (e.file \in SharedFiles /\ e.version # 0) \/ e.file \in OwnFiles(p)
    BY <2>1, <2>2, RunFacts DEF RunHolds, FilesKnow
  <2>4. disk' = [disk EXCEPT ![e.file] = e.version]
    BY <1>2 DEF PlaceEntry
  <2>. HIDE DEF e
  <2>5. /\ SharedFiles \subseteq Files /\ OwnApplet(q) \subseteq Files
        /\ SharedFiles \cap OwnFiles(p) = {} /\ OwnApplet(q) \cap SharedFiles = {}
    BY FilesApart
  <2>6. OwnApplet(q) \cap OwnFiles(p) = {} /\ OwnApplet(q)' = OwnApplet(q)
    BY DEF OwnFiles, OwnApplet
  <2>7. \A f \in SharedFiles \cup OwnApplet(q): disk[f] # 0 => disk'[f] # 0
    BY <1>1, <2>3, <2>4, <2>5, <2>6
  <2>. QED
    BY <2>6, <2>7 DEF HasApplet, SharedFiles
<1>3. ASSUME NEW p \in Products, NEW f \in inst[p].removals, RemoveReplaced(p, f)
      PROVE  HasApplet(q)' \/ Torn
  <2>1. f \in OwnApplet(p) /\ disk' = [disk EXCEPT ![f] = 0]
    BY <1>3, RemoveHolds DEF RemoveReplaced
  <2>2. inst[p].pc = "placing" /\ inst[p].todo = <<>>
    BY <1>3 DEF RemoveReplaced, Step
  <2>3. ~Pending(p, SharedApplet)
    BY <2>2, Joined DEF Pending
  <2>4. disk[SharedApplet] # 0
    BY <1>3, <2>2, <2>3, RunFacts DEF RunHolds, FilesKnow
  <2>5. SharedFiles \subseteq Files /\ f \notin SharedFiles
    BY <2>1, FilesApart
  <2>6. \A g \in SharedFiles: disk'[g] = disk[g]
    BY <1>1, <2>1, <2>5
  <2>. QED
    BY <2>4, <2>6 DEF HasApplet, SharedFiles, Torn
<1>4. CASE disk' = disk
  BY <1>4 DEF HasApplet, OwnApplet, SharedFiles
<1>. QED
  BY <1>2, <1>3, <1>4, ZenonT(60) DEF InstallerNext, InstallerStep, installerVars, ResolveRelease, PlanRun,
     StageRun, Escalate, RootEnds, PostInstall, BeginPostInstall, StepSystemd, StepLegacy,
     StepRestart, StepRestartApp, StepDesktop, PowerCut, OpenApp, NewRelease

-----------------------------------------------------------------------------
(* The installers by themselves, for every set of products.                *)
InstallerSpec == InstallerInit /\ [][InstallerNext]_installerVars

(* A run that reports complete left one whole release of every component   *)
(* it installs, in place and running (root_phase.rs, post_install.rs), but *)
(* for the launchers of an applet it found current and a window of the     *)
(* copy in the user's home; and one that reports a denial touched nothing  *)
(* (escalate.rs:78-82), however often earlier runs failed or were killed,  *)
(* beside the runs of the other products.                                  *)
THEOREM CompletedRunsAreWhole == InstallerSpec => [](CompleteIsWhole /\ DeniedTouchesNothing)
<1>1. InstallerInit => InstallerInv
  BY InstallerInitHolds
<1>2. InstallerInv /\ [InstallerNext]_installerVars => InstallerInv'
  BY InstallerInvStep
<1>3. InstallerInv => CompleteIsWhole /\ DeniedTouchesNothing
  BY WholeAndUntouched
<1>. QED
  BY <1>1, <1>2, <1>3, PTL DEF InstallerSpec

(* No step of any run, nor a power cut, leaves a user who has an applet    *)
(* without one (root_phase.rs:257: "Only now, with every replacement in    *)
(* place"), unless the shared one is torn: its binary without launchers.   *)
THEOREM NoRunTakesTheApplet == InstallerSpec => AppletAlwaysThere
<1>1. InstallerInit => InstallerInv
  BY InstallerInitHolds
<1>2. InstallerInv /\ [InstallerNext]_installerVars => InstallerInv'
  BY InstallerInvStep
<1>3. InstallerInv /\ [InstallerNext]_installerVars
        => [\A p \in Products: HasApplet(p) => HasApplet(p)' \/ Torn]_installerVars
  BY AppletStays
<1>. QED
  BY <1>1, <1>2, <1>3, PTL DEF InstallerSpec, AppletAlwaysThere

(* Both, of the installers beside what is published and installed, as the  *)
(* model checker runs them.                                                *)
THEOREM SetupsAreWhole == PublishSpec => SetupIsWhole
<1>1. PublishInit => InstallerInv
  BY InstallerInitHolds DEF PublishInit
<1>2. [PublishNext]_publishVars => [InstallerNext]_installerVars
  <2>1. SetupNext => InstallerNext
    BY ProductsAssumption DEF SetupNext, InstallerNext, ProductRepos
  <2>. QED
    BY <2>1 DEF PublishNext, publishVars
<1>3. InstallerInv /\ [InstallerNext]_installerVars => InstallerInv'
  BY InstallerInvStep
<1>4. InstallerInv => CompleteIsWhole /\ DeniedTouchesNothing
  BY WholeAndUntouched
<1>5. InstallerInv /\ [InstallerNext]_installerVars
        => [\A p \in Products: HasApplet(p) => HasApplet(p)' \/ Torn]_installerVars
  BY AppletStays
<1>6. PublishSpec => []InstallerInv
  BY <1>1, <1>2, <1>3, PTL DEF PublishSpec
<1>7. PublishSpec => [](CompleteIsWhole /\ DeniedTouchesNothing)
  BY <1>4, <1>6, PTL
<1>8. PublishSpec => AppletAlwaysThere
  BY <1>2, <1>5, <1>6, PTL DEF PublishSpec, AppletAlwaysThere
<1>. QED
  BY <1>7, <1>8, PTL DEF SetupIsWhole

-----------------------------------------------------------------------------
(* The index: the releases of the forges, the entries made of them.        *)

\* What a forge may list: a draft with the version it was given.
Numbered(d, v, w) == [d EXCEPT !.version = v, !.manifest.version = w]
Listings == {Numbered(n[1], n[2], n[3]): n \in Drafts \X Nat \X Nat}

\* What a release has been looked at for before it is published.
Vetted(r) ==
  /\ Parse(IndexerBuild, r.manifest) /\ ResolveIndexAssets(r)
  /\ \A o \in ToSet(r.manifest.options): PublishesOption(o)
  /\ IF r.manifest.kind = "wasm" THEN r.manifest.wasm ELSE r.manifest.assets # <<>>

EntryOf(key, r, stale) ==
  [FromManifest(key, r.manifest, r.version, r.tar, Some(r.manifest)) EXCEPT !.stale = stale]
IsEntry(e) ==
  \E k \in Keys, r \in Listings, s \in Nat \cup {-1}: Vetted(r) /\ e = EntryOf(k, r, s)
Lists(out) == \A k \in DOMAIN out: k \in Keys /\ IsEntry(out[k]) /\ out[k].key = k

IndexerTyped ==
  /\ day \in Nat /\ registry \in Registries /\ forge \in [Repos -> Seq(Listings)]
  /\ failing \in [Keys -> Nat \cup {-1}]
  /\ index.at \in Nat /\ index.at <= day /\ Lists(index.backends)

Building == build.pc \in {"next", "fetch"}
BuildTyped ==
  /\ build = [pc |-> build.pc, at |-> build.at, todo |-> build.todo, key |-> build.key,
              picked |-> build.picked, out |-> build.out]
  /\ build.pc \in {"idle", "next", "fetch"}
  /\ Building =>
       /\ build.at = day /\ build.todo \subseteq DOMAIN registry
       /\ build.picked \in {<<>>} \cup {<<r>>: r \in Listings} /\ Lists(build.out)
  /\ build.pc = "fetch" => build.key \in DOMAIN registry

\* When an entry stopped building: what it says of itself is what happened.
StaleIsSince ==
  \A k \in DOMAIN index.backends:
    /\ failing[k] = index.backends[k].stale
    /\ failing[k] # -1 => index.at - failing[k] <= MAX_STALENESS_DAYS

\* An entry that is carried into the build that runs.
Since(k) == IF index.backends[k].stale = -1 THEN build.at ELSE index.backends[k].stale
CarriedIsSince ==
  Building => \A k \in DOMAIN build.out: build.out[k].stale # -1 =>
    /\ k \in DOMAIN index.backends /\ build.out[k].stale = Since(k)
    /\ build.at - Since(k) <= MAX_STALENESS_DAYS

Apart(out) == \A a, b \in DOMAIN out: a # b =>
  out[a].source # out[b].source /\ InstallDirName(out[a]) # InstallDirName(out[b])

IndexerInv == IndexerTyped /\ BuildTyped /\ StaleIsSince /\ CarriedIsSince /\ Apart(index.backends)

-----------------------------------------------------------------------------
LEMMA FirstOfAny ==
  ASSUME NEW T, T \subseteq Nat, T # {}
  PROVE  Min(T) \in T /\ \A j \in T : Min(T) <= j
<1>. DEFINE Below == {ss \in Nat \X Nat : ss[1] < ss[2]}
<1>1. IsWellFoundedOn(Below, Nat)
  BY Zenon, NatLessThanWellFounded DEF OpToRel
<1>2. \E i \in T : \A j \in T : <<j, i>> \notin Below
  BY <1>1, WFMin, Zenon
<1>3. PICK i \in T : \A j \in T : <<j, i>> \notin Below
  BY <1>2
<1>4. \A j \in T : i <= j
  <2>. SUFFICES ASSUME NEW j \in T PROVE i <= j
    OBVIOUS
  <2>1. <<j, i>> \notin Below /\ i \in Nat /\ j \in Nat
    BY <1>3
  <2>. QED
    BY <2>1
<1>. QED
  BY <1>4, Zenon DEF Min

LEMMA EntryFields ==
  ASSUME NEW e, IsEntry(e)
  PROVE  /\ \E r \in Listings: /\ Vetted(r) /\ e.id = r.manifest.id /\ e.manifest = r.manifest /\ e.tar = r.tar
                               /\ e.options = r.manifest.options /\ e.source = r.manifest.source
                               /\ e.kind = r.manifest.kind /\ e.entrypoint = r.manifest.entrypoint
                               /\ e.assets = r.manifest.assets
         /\ e.key \in Keys /\ e.stale \in Nat \cup {-1}
         /\ \A s \in Nat \cup {-1}: /\ IsEntry([e EXCEPT !.stale = s])
                                    /\ [e EXCEPT !.stale = s].stale = s
                                    /\ [e EXCEPT !.stale = s].key = e.key
<1>1. PICK k \in Keys, r \in Listings, was \in Nat \cup {-1}: Vetted(r) /\ e = EntryOf(k, r, was)
  BY DEF IsEntry
<1>2. /\ e.key = k /\ e.id = r.manifest.id /\ e.manifest = r.manifest /\ e.tar = r.tar
      /\ e.options = r.manifest.options /\ e.source = r.manifest.source
      /\ e.kind = r.manifest.kind /\ e.entrypoint = r.manifest.entrypoint /\ e.stale = was
      /\ e.assets = r.manifest.assets
  BY <1>1 DEF EntryOf, FromManifest
<1>3. ASSUME NEW s \in Nat \cup {-1}
      PROVE  [e EXCEPT !.stale = s] = EntryOf(k, r, s)
  BY <1>1 DEF EntryOf, FromManifest
<1>4. ASSUME NEW s \in Nat \cup {-1}
      PROVE  IsEntry(EntryOf(k, r, s))
  BY <1>1 DEF IsEntry
<1>5. ASSUME NEW s \in Nat \cup {-1}
      PROVE  EntryOf(k, r, s).stale = s /\ EntryOf(k, r, s).key = k
  BY DEF EntryOf, FromManifest
<1>. QED
  BY <1>1, <1>2, <1>3, <1>4, <1>5

LEMMA FreshEntry ==
  ASSUME NEW k \in Keys, NEW r \in Listings, Vetted(r)
  PROVE  LET e == FromManifest(k, r.manifest, r.version, r.tar, Some(r.manifest))
         IN  IsEntry(e) /\ e.stale = -1 /\ e.key = k
<1>1. FromManifest(k, r.manifest, r.version, r.tar, Some(r.manifest)) = EntryOf(k, r, -1)
  BY DEF EntryOf, FromManifest
<1>2. IsEntry(EntryOf(k, r, -1))
  <2>1. -1 \in Nat \cup {-1}
    OBVIOUS
  <2>. QED
    BY <2>1 DEF IsEntry
<1>. QED
  BY <1>1, <1>2 DEF FromManifest

\* An id is no key.
LEMMA IdIsNoKey ==
  ASSUME NEW r \in Listings, r.manifest.id_valid, r.manifest.id # ""
  PROVE  r.manifest.id \notin Keys
<1>1. PICK d \in Drafts, v \in Nat, w \in Nat: r = Numbered(d, v, w)
  BY DEF Listings
<1>2. r.manifest.id = d.manifest.id /\ r.manifest.id_valid = d.manifest.id_valid
  BY <1>1, DraftsAssumption DEF Numbered
<1>. QED
  BY <1>2, DraftsAssumption

LEMMA PublishedApartWhenUnique ==
  ASSUME NEW out, Lists(out), EnsureUnique(out)
  PROVE  Apart(out)
<1>. SUFFICES ASSUME NEW a \in DOMAIN out, NEW b \in DOMAIN out, a # b
              PROVE  out[a].source # out[b].source /\ InstallDirName(out[a]) # InstallDirName(out[b])
  BY DEF Apart
<1>1. out[a].source # out[b].source /\ ~(out[a].id # "" /\ out[a].id = out[b].id)
  BY DEF EnsureUnique
<1>2. ASSUME NEW k \in DOMAIN out
      PROVE  out[k].key = k /\ k \in Keys /\ (out[k].id # "" => out[k].id \notin Keys)
  <2>1. IsEntry(out[k]) /\ out[k].key = k /\ k \in Keys
    BY DEF Lists
  <2>2. PICK r \in Listings: Vetted(r) /\ out[k].id = r.manifest.id
    BY <2>1, EntryFields
  <2>3. r.manifest.id_valid
    BY <2>2 DEF Vetted, Parse, ParseInner
  <2>. QED
    BY <2>1, <2>2, <2>3, IdIsNoKey
<1>. QED
  BY <1>1, <1>2, ZenonT(60) DEF InstallDirName

LEMMA SelectedIsListed ==
  ASSUME IndexerTyped, NEW e, e.repo \in Repos
  PROVE  SelectRelease(e) \in {<<>>} \cup {<<r>>: r \in Listings}
<1>. DEFINE ok == {i \in Listed(e): LET r == forge[e.repo][i] IN
                    /\ r.status = "published" /\ r.prefix = e.prefix
                    /\ r.version # 0 /\ (e.cap # 0 => r.version <= e.cap)}
            best == {i \in ok: \A j \in ok: forge[e.repo][i].version >= forge[e.repo][j].version}
<1>1. SelectRelease(e) = IF best = {} THEN <<>> ELSE <<forge[e.repo][Min(best)]>>
  BY DEF SelectRelease
<1>2. forge[e.repo] \in Seq(Listings)
  BY DEF IndexerTyped
<1>3. Listed(e) \subseteq DOMAIN forge[e.repo]
  BY DEF Listed
<1>4. best \subseteq DOMAIN forge[e.repo] /\ DOMAIN forge[e.repo] \subseteq Nat
  BY <1>2, <1>3
<1>. HIDE DEF best
<1>5. CASE best # {}
  <2>1. Min(best) \in DOMAIN forge[e.repo]
    BY <1>4, <1>5, FirstOfAny
  <2>2. forge[e.repo][Min(best)] \in Listings
    BY <1>2, <2>1
  <2>. QED
    BY <1>1, <1>5, <2>2
<1>. QED
  BY <1>1, <1>5

LEMMA IndexerStarts == IndexerInit => IndexerInv
<1>. SUFFICES ASSUME IndexerInit PROVE IndexerInv
  OBVIOUS
<1>1. DOMAIN index.backends = {}
  BY DEF IndexerInit
<1>2. IndexerTyped
  BY <1>1 DEF IndexerInit, IndexerTyped, Lists
<1>3. BuildTyped /\ ~Building
  BY DEF IndexerInit, BuildTyped, Building, NoBuild, None
<1>. QED
  BY <1>1, <1>2, <1>3 DEF IndexerInv, StaleIsSince, CarriedIsSince, Apart

LEMMA BuildsHold ==
  ASSUME IndexerInv, StartBuild \/ CancelBuild \/ \E key \in build.todo: ResolveEntry(key)
  PROVE  IndexerInv'
<1>. USE DEF IndexerInv
<1>1. UNCHANGED <<day, forge, registry, index, failing>>
  BY DEF StartBuild, CancelBuild, ResolveEntry
<1>2. IndexerTyped' /\ StaleIsSince' /\ Apart(index.backends)'
  <2>1. IndexerTyped'
    BY <1>1 DEF IndexerTyped
  <2>2. StaleIsSince'
    BY <1>1 DEF StaleIsSince
  <2>3. Apart(index.backends)'
    BY <1>1
  <2>. QED
    BY <2>1, <2>2, <2>3
<1>3. CASE StartBuild
  <2>1. build' = [pc |-> "next", at |-> day, todo |-> {k \in DOMAIN registry: ~registry[k].removed},
                  key |-> "", picked |-> <<>>, out |-> <<>>]
    BY <1>3 DEF StartBuild, NoBuild, None
  <2>2. DOMAIN build'.out = {}
    <3>1. build'.out = <<>>
      BY <2>1
    <3>. QED
      BY <3>1
  <2>3. BuildTyped'
    BY <1>1, <2>1, <2>2 DEF BuildTyped, Building, Lists
  <2>4. CarriedIsSince'
    BY <2>2 DEF CarriedIsSince
  <2>. QED
    BY <1>2, <2>3, <2>4
<1>4. CASE CancelBuild
  <2>1. build' = NoBuild
    BY <1>4 DEF CancelBuild
  <2>2. BuildTyped' /\ CarriedIsSince'
    BY <2>1 DEF BuildTyped, CarriedIsSince, Building, NoBuild
  <2>. QED
    BY <1>2, <2>2
<1>5. ASSUME NEW key \in build.todo, ResolveEntry(key)
      PROVE  IndexerInv'
  <2>1. Building /\ key \in DOMAIN registry
    BY <1>5 DEF ResolveEntry, Building, BuildTyped
  <2>2. registry[key].repo \in Repos
    BY <2>1, DraftsAssumption DEF IndexerTyped
  <2>3. PICK picked \in {<<>>} \cup {<<r>>: r \in Listings}:
          build' = [build EXCEPT !.pc = "fetch", !.key = key, !.picked = picked, !.todo = @ \ {key}]
    BY <1>5, <2>2, SelectedIsListed DEF ResolveEntry, None
  <2>4. build' = [pc |-> "fetch", at |-> build.at, todo |-> build.todo \ {key}, key |-> key,
                  picked |-> picked, out |-> build.out]
    BY <2>3 DEF BuildTyped
  <2>5. BuildTyped'
    BY <1>1, <2>1, <2>4 DEF BuildTyped, Building
  <2>6. CarriedIsSince'
    BY <1>1, <2>1, <2>4 DEF CarriedIsSince, Building, Since
  <2>. QED
    BY <1>2, <2>5, <2>6
<1>. QED
  BY <1>3, <1>4, <1>5

LEMMA FetchHolds ==
  ASSUME IndexerInv, FetchEntry
  PROVE  IndexerInv'
<1>. USE DEF IndexerInv
<1>1. UNCHANGED <<day, forge, registry, index, failing>> /\ build.pc = "fetch"
  BY DEF FetchEntry
<1>2. IndexerTyped' /\ StaleIsSince' /\ Apart(index.backends)'
  <2>1. IndexerTyped'
    BY <1>1 DEF IndexerTyped
  <2>2. StaleIsSince'
    BY <1>1 DEF StaleIsSince
  <2>3. Apart(index.backends)'
    BY <1>1
  <2>. QED
    BY <2>1, <2>2, <2>3
<1>. DEFINE k == build.key
            put(out) == build' = [pc |-> "next", at |-> build.at, todo |-> build.todo, key |-> build.key,
                                  picked |-> <<>>, out |-> out]
            with(e) == [q \in {k} \cup DOMAIN build.out |-> IF q = k THEN e ELSE build.out[q]]
<1>3. k \in DOMAIN registry /\ k \in Keys /\ Building /\ build.at = day
  BY <1>1 DEF BuildTyped, Building, IndexerTyped, Keys
<1>4. \/ put(build.out)
      \/ \E e: /\ put(with(e)) /\ IsEntry(e) /\ e.key = k
               /\ e.stale # -1 => /\ k \in DOMAIN index.backends /\ e.stale = Since(k)
                                  /\ build.at - Since(k) <= MAX_STALENESS_DAYS
  <2>. DEFINE after(entry) == [build EXCEPT !.pc = "next", !.picked = None,
                                 !.out = IF entry = None THEN @ ELSE
                                           [q \in {build.key} \cup DOMAIN @ |->
                                              IF q = build.key THEN Head(entry) ELSE @[q]]]
  <2>1. ASSUME NEW entry, build' = after(entry)
        PROVE  put(IF entry = None THEN build.out ELSE with(Head(entry)))
    BY <2>1 DEF BuildTyped, None
  <2>2. CASE /\ build.picked # None /\ BuildsEntry(registry[k], Head(build.picked))
             /\ build' = after(Some(FromManifest(k, Head(build.picked).manifest, Head(build.picked).version,
                                                 Head(build.picked).tar, Some(Head(build.picked).manifest))))
    <3>. DEFINE r == Head(build.picked)
                e == FromManifest(k, r.manifest, r.version, r.tar, Some(r.manifest))
    <3>1. r \in Listings
      BY <1>3, <2>2 DEF BuildTyped, None
    <3>2. Vetted(r)
      BY <2>2 DEF BuildsEntry, Validate, Vetted
    <3>3. IsEntry(e) /\ e.stale = -1 /\ e.key = k
      BY <1>3, <3>1, <3>2, FreshEntry
    <3>. HIDE DEF r, after
    <3>4. build' = after(Some(e))
      BY <2>2 DEF r
    <3>. HIDE DEF e
    <3>5. Some(e) # None /\ Head(Some(e)) = e
      BY DEF Some, None
    <3>6. put(with(e))
      BY <2>1, <3>4, <3>5
    <3>. QED
      BY <3>3, <3>6
  <2>3. CASE build' = after(MaybeCarryForward(k, build.at))
    <3>1. CASE MaybeCarryForward(k, build.at) = None
      BY <2>1, <2>3, <3>1
    <3>2. CASE MaybeCarryForward(k, build.at) # None
      <4>. DEFINE was == index.backends[k]  e == [was EXCEPT !.stale = Since(k)]
      <4>0. k \in DOMAIN index.backends
        BY <3>2 DEF MaybeCarryForward
      <4>3. IsEntry(was) /\ was.key = k
        BY <4>0 DEF IndexerTyped, Lists
      <4>4. Since(k) \in Nat \cup {-1} /\ build.at \in Nat
        BY <1>3, <4>3, EntryFields DEF Since, IndexerTyped
      <4>5. MaybeCarryForward(k, build.at) =
              IF build.at - Since(k) > MAX_STALENESS_DAYS THEN None ELSE Some(e)
        BY <4>0 DEF MaybeCarryForward, Since
      <4>1. k \in DOMAIN index.backends /\ build.at - Since(k) <= MAX_STALENESS_DAYS
        BY <3>2, <4>0, <4>4, <4>5, IndexerAssumption
      <4>2. MaybeCarryForward(k, build.at) = Some(e)
        BY <3>2, <4>5
      <4>6. IsEntry(e) /\ e.stale = Since(k) /\ e.key = k
        BY <4>3, <4>4, EntryFields
      <4>. HIDE DEF e, was, after
      <4>7. Some(e) # None /\ Head(Some(e)) = e
        BY DEF Some, None
      <4>8. put(with(e))
        BY <2>1, <2>3, <4>2, <4>7
      <4>. QED
        BY <4>1, <4>6, <4>8
    <3>. QED
      BY <3>1, <3>2
  <2>. QED
    BY <2>2, <2>3 DEF FetchEntry
<1>5. ASSUME put(build.out)
      PROVE  BuildTyped' /\ CarriedIsSince'
  <2>1. BuildTyped'
    BY <1>1, <1>3, <1>5 DEF BuildTyped, Building
  <2>2. CarriedIsSince'
    BY <1>1, <1>3, <1>5 DEF CarriedIsSince, Since
  <2>. QED
    BY <2>1, <2>2
<1>6. ASSUME NEW e, put(with(e)), IsEntry(e), e.key = k,
             e.stale # -1 => /\ k \in DOMAIN index.backends /\ e.stale = Since(k)
                             /\ build.at - Since(k) <= MAX_STALENESS_DAYS
      PROVE  BuildTyped' /\ CarriedIsSince'
  <2>. DEFINE out == with(e)
  <2>1. /\ DOMAIN out = {k} \cup DOMAIN build.out /\ out[k] = e
        /\ \A q \in DOMAIN build.out: q # k => out[q] = build.out[q]
    OBVIOUS
  <2>. HIDE DEF out
  <2>2. build'.out = out /\ build'.at = build.at /\ build'.pc = "next"
    BY <1>6 DEF out
  <2>3. Lists(out)
    BY <1>3, <1>6, <2>1 DEF BuildTyped, Lists
  <2>4. BuildTyped'
    BY <1>1, <1>3, <1>6, <2>3 DEF BuildTyped, Building, out
  <2>5. CarriedIsSince'
    BY <1>1, <1>3, <1>6, <2>1, <2>2 DEF CarriedIsSince, Since
  <2>. QED
    BY <2>4, <2>5
<1>. HIDE DEF put
<1>. QED
  BY <1>2, <1>4, <1>5, <1>6

LEMMA WriteHolds ==
  ASSUME IndexerInv, WriteIndex
  PROVE  IndexerInv'
<1>. USE DEF IndexerInv
<1>1. /\ build' = NoBuild /\ UNCHANGED <<day, forge, registry>>
      /\ Building /\ build.at = day /\ Lists(build.out)
  BY DEF WriteIndex, Building, BuildTyped
<1>2. BuildTyped' /\ CarriedIsSince'
  BY <1>1 DEF BuildTyped, CarriedIsSince, Building, NoBuild
<1>3. CASE UNCHANGED <<index, failing>>
  BY <1>1, <1>2, <1>3 DEF IndexerTyped, StaleIsSince, Apart
<1>4. CASE ~UNCHANGED <<index, failing>>
  <2>. DEFINE out == build.out
  <2>1. /\ EnsureUnique(out) /\ index' = [at |-> build.at, backends |-> out]
        /\ failing' = [k \in Keys |-> IF k \in DOMAIN out /\ out[k].stale = -1 THEN -1
                                      ELSE IF failing[k] = -1 THEN build.at ELSE failing[k]]
    BY <1>4 DEF WriteIndex
  <2>2. Apart(index.backends)'
    BY <1>1, <2>1, PublishedApartWhenUnique
  <2>3. IndexerTyped'
    BY <1>1, <2>1 DEF IndexerTyped
  <2>4. ASSUME NEW k \in DOMAIN out
        PROVE  failing'[k] = out[k].stale /\ (failing'[k] # -1 => build.at - failing'[k] <= MAX_STALENESS_DAYS)
    <3>1. k \in Keys /\ out[k].stale \in Nat \cup {-1}
      BY <1>1, EntryFields DEF Lists
    <3>2. CASE out[k].stale = -1
      BY <2>1, <3>1, <3>2
    <3>3. CASE out[k].stale # -1
      <4>1. /\ k \in DOMAIN index.backends /\ out[k].stale = Since(k)
            /\ build.at - Since(k) <= MAX_STALENESS_DAYS
        BY <1>1, <3>3 DEF CarriedIsSince
      <4>2. failing[k] = index.backends[k].stale
        BY <4>1 DEF StaleIsSince
      <4>. QED
        BY <2>1, <3>1, <3>3, <4>1, <4>2 DEF Since
    <3>. QED
      BY <3>2, <3>3
  <2>5. StaleIsSince'
    BY <2>1, <2>4, SMTT(30) DEF StaleIsSince
  <2>. QED
    BY <1>2, <2>2, <2>3, <2>5
<1>. QED
  BY <1>3, <1>4

LEMMA OutsideHolds ==
  ASSUME IndexerInv, NextDay \/ (\E draft \in Drafts: Release(draft)) \/ (\E reg \in Registries: EditRegistry(reg))
  PROVE  IndexerInv'
<1>. USE DEF IndexerInv
<1>1. UNCHANGED <<index, build, failing>>
  BY DEF NextDay, Release, EditRegistry
<1>2. /\ day' \in Nat /\ day <= day' /\ registry' \in Registries
      /\ Building => UNCHANGED <<day, registry>>
  <2>1. CASE NextDay
    BY <2>1 DEF NextDay, IndexerTyped, Building
  <2>2. ASSUME NEW draft \in Drafts, Release(draft) PROVE UNCHANGED <<day, registry>>
    BY <2>2 DEF Release
  <2>3. ASSUME NEW reg \in Registries, EditRegistry(reg)
        PROVE  ~Building /\ day' = day /\ registry' \in Registries
    BY <2>3 DEF EditRegistry, Building
  <2>. QED
    BY <2>1, <2>2, <2>3 DEF IndexerTyped
<1>3. forge' \in [Repos -> Seq(Listings)]
  <2>1. ASSUME NEW draft \in Drafts, Release(draft)
        PROVE  forge' \in [Repos -> Seq(Listings)]
    <3>. DEFINE repo == draft.repo  v == Len(forge[repo]) + 1  w == IF draft.version = 0 THEN 0 ELSE v
    <3>1. repo \in Repos /\ forge[repo] \in Seq(Listings)
      BY DraftsAssumption DEF IndexerTyped
    <3>2. v \in Nat /\ w \in Nat
      BY <3>1
    <3>3. forge' = [forge EXCEPT ![repo] = Append(@, Numbered(draft, v, w))]
      BY <2>1 DEF Release, Numbered
    <3>. HIDE DEF v, w, repo
    <3>4. Numbered(draft, v, w) \in Listings
      <4>1. <<draft, v, w>> \in Drafts \X Nat \X Nat
        BY <3>2
      <4>. QED
        BY <4>1 DEF Listings
    <3>. QED
      BY <3>1, <3>3, <3>4 DEF IndexerTyped
  <2>. QED
    BY <2>1 DEF NextDay, EditRegistry, IndexerTyped
<1>4. IndexerTyped' /\ StaleIsSince' /\ Apart(index.backends)'
  BY <1>1, <1>2, <1>3 DEF IndexerTyped, StaleIsSince, Apart
<1>5. BuildTyped' /\ CarriedIsSince'
  <2>1. BuildTyped'
    BY <1>1, <1>2 DEF BuildTyped, Building
  <2>2. CarriedIsSince'
    BY <1>1 DEF CarriedIsSince, Building, Since
  <2>. QED
    BY <2>1, <2>2
<1>. QED
  BY <1>4, <1>5

LEMMA IndexerInvHolds == IndexerInv /\ [IndexerNext]_indexerVars => IndexerInv'
<1>. SUFFICES ASSUME IndexerInv, [IndexerNext]_indexerVars PROVE IndexerInv'
  OBVIOUS
<1>1. CASE UNCHANGED indexerVars
  BY <1>1 DEF indexerVars, IndexerInv, IndexerTyped, BuildTyped, Building, StaleIsSince, CarriedIsSince, Since,
     Apart
<1>. QED
  BY <1>1, BuildsHold, FetchHolds, WriteHolds, OutsideHolds DEF IndexerNext

LEMMA IndexInvSuffices == IndexerInv => CarriedAtMost /\ PublishedApart
  BY DEF IndexerInv, StaleIsSince, Apart, CarriedAtMost, PublishedApart

-----------------------------------------------------------------------------
(* What is published can be used: the options it offers, and the backend.  *)

LEMMA ConcatSet ==
  ASSUME NEW S, NEW s \in Seq(S), NEW u \in Seq(S), NEW v \in ToSet(s \o u)
  PROVE  v \in ToSet(s) \/ v \in ToSet(u)
<1>1. PICK i \in 1..Len(s \o u): v = (s \o u)[i]
  BY DEF ToSet
<1>2. CASE i <= Len(s)
  BY <1>1, <1>2 DEF ToSet
<1>3. CASE i > Len(s)
  <2>1. i - Len(s) \in 1..Len(u) /\ v = u[i - Len(s)]
    BY <1>1, <1>3
  <2>. QED
    BY <2>1 DEF ToSet
<1>. QED
  BY <1>1, <1>2, <1>3

LEMMA PublishedOffers ==
  ASSUME NEW o, IsOpt(o), PublishesOption(o)
  PROVE  OffersAreAccepted(o)
<1>. DEFINE bounds == o.min \o o.max \o o.step
<1>1. /\ o.default \in Seq(Tomls) /\ o.choices \in Seq(Tomls)
      /\ o.min \in Seq(Int) /\ o.max \in Seq(Int) /\ o.step \in Seq(Int)
      /\ Len(o.min) <= 1 /\ Len(o.max) <= 1
  BY DEF IsOpt
<1>2. \/ o.min = <<>> /\ o.max = <<>>
      \/ /\ o.choices = <<>>
         /\ (o.min # <<>> /\ o.max # <<>> => Head(o.min) <= Head(o.max))
         /\ (o.step # <<>> => o.default # <<>>)
         /\ \A v \in ToSet(o.default): IsInRange(o, Display(v))
  <2>1. CASE bounds = <<>>
    <3>1. Len(bounds) = Len(o.min) + Len(o.max) + Len(o.step)
      BY <1>1
    <3>2. Len(o.min) = 0 /\ Len(o.max) = 0
      BY <1>1, <2>1, <3>1
    <3>. QED
      BY <1>1, <3>2
  <2>2. CASE bounds # <<>>
    BY <2>2 DEF PublishesOption, CheckRange, None
  <2>. QED
    BY <2>1, <2>2
<1>3. ASSUME NEW v \in ToSet(o.default \o o.choices)
      PROVE  PermitsValue(o, Display(v)) = "ok"
  <2>1. AcceptsTheType(o, Display(v))
    BY DEF PublishesOption
  <2>2. v \in ToSet(o.default) \/ v \in ToSet(o.choices)
    BY <1>1, ConcatSet
  <2>3. IsInRange(o, Display(v))
    <3>1. CASE o.min = <<>> /\ o.max = <<>>
      BY <3>1 DEF IsInRange, None
    <3>2. CASE ~(o.min = <<>> /\ o.max = <<>>)
      <4>1. ToSet(o.choices) = {}
        BY <1>2, <3>2 DEF ToSet
      <4>. QED
        BY <1>2, <2>2, <3>2, <4>1
    <3>. QED
      BY <3>1, <3>2
  <2>4. IsAChoice(o, Display(v))
    BY <2>2 DEF IsAChoice, PublishesOption
  <2>. QED
    BY <2>1, <2>3, <2>4 DEF PermitsValue
<1>4. ASSUME IsSlider(o)
      PROVE  /\ o.default # None
             /\ \A b \in {Head(o.min), Head(o.max)}:
                  PermitsValue(o, IF DeclaredType(o) = "integer" THEN IntText(b) ELSE FloatText(b)) = "ok"
  <2>1. o.min # <<>> /\ o.max # <<>> /\ o.step # <<>> /\ DeclaredType(o) \in {"integer", "float"}
    BY <1>4 DEF IsSlider, IsNumeric, None
  <2>2. o.choices = <<>> /\ Head(o.min) <= Head(o.max) /\ o.default # <<>>
    BY <1>2, <2>1
  <2>3. Head(o.min) \in Int /\ Head(o.max) \in Int
    BY <1>1, <2>1
  <2>4. ASSUME NEW b \in {Head(o.min), Head(o.max)},
               NEW t \in {IntText(b), FloatText(b)},
               t = IF DeclaredType(o) = "integer" THEN IntText(b) ELSE FloatText(b)
        PROVE  PermitsValue(o, t) = "ok"
    <3>1. t.half = b /\ t.is \in {"int", "float"} /\ (DeclaredType(o) = "integer" => t.is = "int")
      BY <2>4 DEF IntText, FloatText, Text
    <3>2. TypeAccepts(DeclaredType(o), t)
      BY <2>1, <3>1 DEF TypeAccepts
    <3>3. IsInRange(o, t)
      BY <2>2, <2>3, <3>1 DEF IsInRange
    <3>4. IsAChoice(o, t)
      BY <2>2 DEF IsAChoice
    <3>. QED
      BY <3>2, <3>3, <3>4 DEF PermitsValue, AcceptsTheType
  <2>. QED
    BY <2>2, <2>4 DEF None
<1>5. \A v \in ToSet(o.default): PermitsShape(Display(v))
  BY DEF PublishesOption
<1>. QED
  BY <1>3, <1>4, <1>5 DEF OffersAreAccepted

LEMMA ListingsOptions ==
  ASSUME NEW r \in Listings, NEW o \in ToSet(r.manifest.options)
  PROVE  IsOpt(o)
<1>1. PICK d \in Drafts, v \in Nat, w \in Nat: r = Numbered(d, v, w)
  BY DEF Listings
<1>2. r.manifest.options = d.manifest.options
  BY <1>1, DraftsAssumption DEF Numbered
<1>. QED
  BY <1>2, DraftsAssumption

LEMMA EveryOfferIsAccepted == IndexerInv => OffersAccepted
<1>. SUFFICES ASSUME IndexerInv, NEW k \in DOMAIN index.backends, NEW o \in ToSet(index.backends[k].options)
              PROVE  OffersAreAccepted(o)
  BY DEF OffersAccepted
<1>1. IsEntry(index.backends[k])
  BY DEF IndexerInv, IndexerTyped, Lists
<1>2. PICK r \in Listings: Vetted(r) /\ index.backends[k].options = r.manifest.options
  BY <1>1, EntryFields
<1>. QED
  BY <1>2, ListingsOptions, PublishedOffers DEF Vetted

-----------------------------------------------------------------------------
\* Where an entry of the index is installed is a name of a directory.
LEMMA PublishedHasDir ==
  ASSUME IndexerInv, NEW key \in DOMAIN index.backends
  PROVE  InstallDirName(index.backends[key]) \in DirNames
<1>. DEFINE e == index.backends[key]
<1>1. IsEntry(e)
  BY DEF IndexerInv, IndexerTyped, Lists
<1>. HIDE DEF e
<1>2. e.key \in Keys
  BY <1>1, EntryFields
<1>3. e.id \in {d.manifest.id: d \in Drafts \cup LocalDirs}
  <2>1. PICK r \in Listings: e.id = r.manifest.id
    BY <1>1, EntryFields
  <2>2. PICK d \in Drafts, v \in Nat, w \in Nat: r = Numbered(d, v, w)
    BY DEF Listings
  <2>3. e.id = d.manifest.id
    BY <2>1, <2>2, DraftsAssumption DEF Numbered
  <2>. QED
    BY <2>3
<1>. QED
  BY <1>2, <1>3 DEF InstallDirName, DirNames, e

\* What was vetted passes the checks of a daemon of the indexer's build.
LEMMA PublishedPasses ==
  ASSUME NEW e, IsEntry(e), Daemon = IndexerBuild, Installable(e.manifest),
         NEW sel, sel = Select(Daemon, host, e), ~Reason(sel)
  PROVE  Check(e, sel) = "installed"
<1>1. PICK r \in Listings: /\ Vetted(r) /\ e.manifest = r.manifest /\ e.tar = r.tar
                           /\ e.kind = r.manifest.kind /\ e.entrypoint = r.manifest.entrypoint
  BY EntryFields
<1>2. sel.is \in {"wasm", "subprocess"} /\ sel.is = e.kind
  <2>1. CASE ContractBlock(Daemon, e)
    BY <2>1 DEF Select, Reason
  <2>2. CASE ~ContractBlock(Daemon, e) /\ e.kind = "wasm"
    BY <2>2 DEF Select, Reason
  <2>3. CASE ~ContractBlock(Daemon, e) /\ e.kind = "subprocess"
    BY <2>3 DEF Select, Reason
  <2>4. CASE ~ContractBlock(Daemon, e) /\ e.kind \notin {"wasm", "subprocess"}
    BY <2>4 DEF Select, Reason
  <2>. QED
    BY <2>1, <2>2, <2>3, <2>4
<1>3. sel.is = "subprocess" => ValidTarball(e.tar)
  BY <1>1, <1>2 DEF Vetted, ResolveIndexAssets
<1>4. ~(sel.is = "wasm" /\ e.entrypoint = "nested")
  BY <1>1, <1>2 DEF Installable
<1>5. VerifyManifest(e)
  BY <1>1 DEF VerifyManifest, Vetted, Installable
<1>. QED
  BY <1>3, <1>4, <1>5 DEF Check, ValidTarball

LEMMA RegistryInstalls ==
  ASSUME IndexerInv, NEW key \in DOMAIN index.backends, InstallFromRegistry(key)
  PROVE  PublishedInstalls'
<1>0. PICK e: e = index.backends[key]
  OBVIOUS
<1>. DEFINE sel == Select(Daemon, host, e)  final == InstallDirName(e)
<1>1. IsEntry(e)
  BY <1>0 DEF IndexerInv, IndexerTyped, Lists
<1>2. final \in DirNames
  BY <1>0, PublishedHasDir
<1>3. Install(e, sel, "registry")
  BY <1>0 DEF InstallFromRegistry
<1>. HIDE DEF sel
<1>4. /\ outcome'.manifest = <<e.manifest>> /\ outcome'.source = e.source
      /\ outcome'.is = IF Check(e, sel) = "installed" /\ ~EnsureDirFreeFor(final, e.source)
                       THEN "install_dir_conflict" ELSE Check(e, sel)
      /\ UNCHANGED <<version, host>>
  BY <1>3 DEF Install, Some
<1>5. SUFFICES ASSUME FromRegistry', Installable(e.manifest)
               PROVE  InstallsAndServes'
  BY <1>4 DEF PublishedInstalls
<1>6. Daemon = IndexerBuild /\ Daemon' = Daemon /\ ~Reason(sel)
  <2>1. Daemon' = Daemon
    BY <1>4 DEF Daemon
  <2>2. Daemon' = IndexerBuild /\ outcome'.is # "incompatible"
    BY <1>5 DEF FromRegistry
  <2>3. ASSUME Reason(sel) PROVE Check(e, sel) = "incompatible"
    BY <2>3 DEF Check, Reason
  <2>. QED
    BY <1>4, <2>1, <2>2, <2>3
<1>7. Check(e, sel) = "installed"
  BY <1>1, <1>5, <1>6, PublishedPasses DEF sel
<1>8. CASE EnsureDirFreeFor(final, e.source)
  <2>1. Place(e)
    BY <1>3, <1>7, <1>8 DEF Install
  <2>2. PICK w: dirs'[final] = Some([manifest |-> e.manifest, weights |-> w])
    BY <1>2, <2>1 DEF Place
  <2>3. dirs'[final] # None /\ Head(dirs'[final]).manifest = e.manifest
    BY <2>2 DEF Some, None
  <2>4. PICK r \in Listings: Vetted(r) /\ e.manifest = r.manifest /\ e.source = r.manifest.source
    BY <1>1, EntryFields
  <2>5. ParseInstalled(Daemon', e.manifest)
    <3>1. Parse(IndexerBuild, e.manifest)
      BY <2>4 DEF Vetted
    <3>2. ParseInstalled(IndexerBuild, e.manifest)
      BY <3>1 DEF Parse, ParseInstalled, ParseInner
    <3>. QED
      BY <1>6, <3>2
  <2>6. LoadBackend(final)' /\ SourceIn(final)' = e.source
    <3>1. LoadsInstalled(final)'
      BY <2>3, <2>5 DEF LoadsInstalled
    <3>2. ValidateRuntime(e.manifest) /\ ValidateSupportedDevices(e.manifest)
      BY <1>5 DEF Installable
    <3>3. LoadBackend(final)'
      BY <2>3, <3>1, <3>2 DEF LoadBackend
    <3>. QED
      BY <2>3, <2>4, <3>3 DEF SourceIn
  <2>7. outcome'.source \in Served'
    BY <1>2, <1>4, <2>6 DEF Served
  <2>. QED
    BY <1>4, <1>7, <1>8, <2>7 DEF InstallsAndServes
<1>9. CASE ~EnsureDirFreeFor(final, e.source)
  BY <1>4, <1>7, <1>9 DEF InstallsAndServes
<1>. QED
  BY <1>8, <1>9

LEMMA UsableHolds ==
  ASSUME IndexerInv, PublishedInstalls, [PublishNext]_publishVars
  PROVE  PublishedInstalls'
<1>1. CASE UNCHANGED catalogVars
  BY <1>1 DEF catalogVars, PublishedInstalls, FromRegistry, InstallsAndServes, Daemon, Served, LoadBackend,
     LoadsInstalled, SourceIn
<1>2. CASE outcome'.how # "registry"
  BY <1>2 DEF PublishedInstalls, FromRegistry
<1>3. ASSUME NEW key \in DOMAIN index.backends, InstallFromRegistry(key)
      PROVE  PublishedInstalls'
  BY <1>3, RegistryInstalls
<1>4. ASSUME NEW key \in DOMAIN index.backends, Update(key)
      PROVE  outcome'.how # "registry"
  BY <1>4 DEF Update, Install
<1>5. ASSUME NEW repo \in Repos, InstallFromRepo(repo)
      PROVE  outcome'.how # "registry"
  BY <1>5 DEF InstallFromRepo, Install
<1>6. ASSUME NEW draft, InstallFromDir(draft)
      PROVE  outcome'.how # "registry"
  BY <1>6 DEF InstallFromDir, Install
<1>7. ASSUME NEW d \in DirNames, Uninstall(d) \/ \E i \in 1..2: Load(d, i)
      PROVE  outcome'.how # "registry"
  <2>1. CASE Uninstall(d)
    BY <2>1, ZenonT(60) DEF Uninstall, Nothing
  <2>2. ASSUME NEW i \in 1..2, Load(d, i)
        PROVE  outcome'.how = ""
    BY <2>2, ZenonT(60) DEF Load
  <2>. QED
    BY <1>7, <2>1, <2>2
<1>8. ASSUME NEW h, UpgradeDaemon \/ ChangeHost(h)
      PROVE  outcome'.how # "registry"
  <2>1. outcome' = Nothing
    BY <1>8 DEF UpgradeDaemon, ChangeHost
  <2>. QED
    BY <2>1 DEF Nothing
<1>. QED
  BY <1>1, <1>2, <1>3, <1>4, <1>5, <1>6, <1>7, <1>8 DEF PublishNext, publishVars, SetupNext, ListNext


-----------------------------------------------------------------------------
(* Induction and recursion on 0..n.                                        *)
LEMMA Upwards ==
  ASSUME NEW n \in Nat, NEW T, 0 \in T, \A k \in 0..(n - 1): k \in T => k + 1 \in T
  PROVE  \A k \in 0..n: k \in T
<1>. DEFINE Bad == {k \in 0..n: k \notin T}
<1>. SUFFICES ASSUME Bad # {} PROVE FALSE
  OBVIOUS
<1>. DEFINE k == Min(Bad)
<1>1. k \in Bad /\ \A j \in Bad: k <= j
  BY FirstOfAny
<1>. HIDE DEF k
<1>2. k \in 1..n /\ k \notin T /\ k - 1 \notin Bad
  BY <1>1
<1>3. k - 1 \in T /\ k - 1 \in 0..(n - 1) /\ (k - 1) + 1 = k
  BY <1>2
<1>. QED
  BY <1>2, <1>3

\* f runs through step, from a.
RunsThrough(f, n, S, a, step) ==
  /\ f \in [0..n -> S] /\ f[0] = a
  /\ \A i \in 1..n: f[i] = step[<<i, f[i - 1]>>]

LEMMA RecursionExists ==
  ASSUME NEW n \in Nat, NEW S, NEW a \in S, NEW step \in [(1..n) \X S -> S]
  PROVE  \E f: RunsThrough(f, n, S, a, step)
<1>. DEFINE Upto(k, f) == f[0] = a /\ \A i \in 1..k: f[i] = step[<<i, f[i - 1]>>]
            T == {k \in 0..n: \E f \in [0..k -> S]: Upto(k, f)}
<1>1. 0 \in T
  <2>. DEFINE f == [x \in 0..0 |-> a]
  <2>1. f \in [0..0 -> S] /\ Upto(0, f)
    OBVIOUS
  <2>. HIDE DEF f
  <2>. QED
    BY <2>1
<1>2. ASSUME NEW k \in 0..(n - 1), k \in T
      PROVE  k + 1 \in T
  <2>1. PICK f \in [0..k -> S]: Upto(k, f)
    BY <1>2
  <2>. DEFINE g == [x \in 0..(k + 1) |-> IF x = k + 1 THEN step[<<k + 1, f[k]>>] ELSE f[x]]
  <2>2. step[<<k + 1, f[k]>>] \in S
    <3>1. <<k + 1, f[k]>> \in (1..n) \X S
      OBVIOUS
    <3>. QED
      BY <3>1
  <2>3. g \in [0..(k + 1) -> S]
    BY <2>2
  <2>4. Upto(k + 1, g)
    <3>1. g[0] = a
      BY <2>1
    <3>2. ASSUME NEW i \in 1..k
          PROVE  g[i] = step[<<i, g[i - 1]>>]
      <4>1. g[i] = f[i] /\ g[i - 1] = f[i - 1]
        OBVIOUS
      <4>. QED
        BY <2>1, <4>1
    <3>3. g[k + 1] = step[<<k + 1, g[k]>>]
      <4>1. g[k] = f[k] /\ g[k + 1] = step[<<k + 1, f[k]>>]
        OBVIOUS
      <4>. QED
        BY <4>1
    <3>. HIDE DEF g
    <3>4. \A i \in 1..(k + 1): i \in 1..k \/ (i = k + 1 /\ i - 1 = k)
      OBVIOUS
    <3>. QED
      BY <3>1, <3>2, <3>3, <3>4
  <2>. HIDE DEF g
  <2>. QED
    BY <2>3, <2>4
<1>. HIDE DEF T
<1>3. n \in T
  BY <1>1, <1>2, Upwards
<1>. QED
  BY <1>3 DEF T, RunsThrough

-----------------------------------------------------------------------------
(* Scores are ordered by their parts, the first first, and Best takes the  *)
(* first of those that no other is better than.                            *)
Scored == Nat \X Nat \X Nat \X Nat
Scores == {NoScore} \cup Scored

LEMMA BetterByParts ==
  ASSUME NEW s \in Scored, NEW t \in Scored
  PROVE  Better(s, t) <=>
           \/ s[1] > t[1] \/ (s[1] = t[1] /\ s[2] > t[2])
           \/ (s[1] = t[1] /\ s[2] = t[2] /\ s[3] > t[3])
           \/ (s[1] = t[1] /\ s[2] = t[2] /\ s[3] = t[3] /\ s[4] > t[4])
<1>1. \A j: j \in 1..(1 - 1) <=> FALSE
  OBVIOUS
<1>2. \A j: j \in 1..(2 - 1) <=> j = 1
  OBVIOUS
<1>3. \A j: j \in 1..(3 - 1) <=> j = 1 \/ j = 2
  OBVIOUS
<1>4. \A j: j \in 1..(4 - 1) <=> j = 1 \/ j = 2 \/ j = 3
  OBVIOUS
<1>5. \A i: i \in 1..4 <=> i = 1 \/ i = 2 \/ i = 3 \/ i = 4
  OBVIOUS
<1>6. s[1] \in Nat /\ s[2] \in Nat /\ s[3] \in Nat /\ s[4] \in Nat
  BY DEF Scored
<1>7. t[1] \in Nat /\ t[2] \in Nat /\ t[3] \in Nat /\ t[4] \in Nat
  BY DEF Scored
<1>8. Better(s, t) <=> \E i: (i = 1 \/ i = 2 \/ i = 3 \/ i = 4) /\ s[i] > t[i]
                              /\ \A j \in 1..(i - 1): s[j] = t[j]
  BY <1>5 DEF Better
<1>. QED
  BY <1>1, <1>2, <1>3, <1>4, <1>6, <1>7, <1>8

LEMMA BetterIsAnOrder ==
  ASSUME NEW s \in Scored, NEW t \in Scored, NEW u \in Scored
  PROVE  /\ ~Better(s, s)
         /\ Better(s, t) /\ Better(t, u) => Better(s, u)
         /\ ~Better(t, s) => s[1] >= t[1]
<1>. s[1] \in Nat /\ s[2] \in Nat /\ s[3] \in Nat /\ s[4] \in Nat
  BY DEF Scored
<1>. t[1] \in Nat /\ t[2] \in Nat /\ t[3] \in Nat /\ t[4] \in Nat
  BY DEF Scored
<1>. u[1] \in Nat /\ u[2] \in Nat /\ u[3] \in Nat /\ u[4] \in Nat
  BY DEF Scored
<1>1. ~Better(s, s)
  BY BetterByParts
<1>2. ASSUME Better(s, t), Better(t, u)
      PROVE  Better(s, u)
  BY <1>2, BetterByParts
<1>3. ~Better(t, s) => s[1] >= t[1]
  BY BetterByParts
<1>. QED
  BY <1>1, <1>2, <1>3

\* What Best comes to, of the first n of the scores.
Takes(scores, n, b) == scores[n] # NoScore /\ (b = 0 \/ Better(scores[n], scores[b]))
IsBest(scores, n, b) ==
  /\ b \in 0..n
  /\ b = 0 => \A i \in 1..n: scores[i] = NoScore
  /\ b # 0 => /\ scores[b] # NoScore
              /\ \A i \in 1..n: scores[i] # NoScore =>
                   ~Better(scores[i], scores[b]) /\ (scores[i] = scores[b] => b <= i)

LEMMA BestSteps ==
  ASSUME NEW scores, Len(scores) \in Nat
  PROVE  \E f: /\ f[0] = 0 /\ Best(scores) = f[Len(scores)]
               /\ \A n \in 1..Len(scores):
                    f[n] = IF Takes(scores, n, f[n - 1]) THEN n ELSE f[n - 1]
<1>. DEFINE N == Len(scores)
            Steps(f) == f = [n \in 0..N |-> IF n = 0 THEN 0
                               ELSE IF scores[n] # NoScore /\ (f[n - 1] = 0 \/ Better(scores[n], scores[f[n - 1]]))
                                    THEN n ELSE f[n - 1]]
            best == CHOOSE f: Steps(f)
<1>1. \E f: Steps(f)
  <2>. DEFINE step == [p \in (1..N) \X (0..N) |-> IF Takes(scores, p[1], p[2]) THEN p[1] ELSE p[2]]
  <2>1. step \in [(1..N) \X (0..N) -> 0..N]
    OBVIOUS
  <2>2. PICK f \in [0..N -> 0..N]: f[0] = 0 /\ \A i \in 1..N: f[i] = step[<<i, f[i - 1]>>]
    <3>. DEFINE S == 0..N
    <3>1. 0 \in S /\ N \in Nat /\ step \in [(1..N) \X S -> S]
      BY <2>1
    <3>. HIDE DEF step, S, N
    <3>2. \E f: RunsThrough(f, N, S, 0, step)
      BY <3>1, RecursionExists
    <3>. QED
      BY <3>2 DEF S, RunsThrough
  <2>3. ASSUME NEW i \in 1..N
        PROVE  f[i] = IF Takes(scores, i, f[i - 1]) THEN i ELSE f[i - 1]
    <3>1. <<i, f[i - 1]>> \in (1..N) \X (0..N)
      <4>1. i - 1 \in 0..N
        OBVIOUS
      <4>. QED
        BY <2>2, <4>1
    <3>2. step[<<i, f[i - 1]>>] = IF Takes(scores, i, f[i - 1]) THEN i ELSE f[i - 1]
      BY <3>1
    <3>. QED
      BY <2>2, <3>2
  <2>4. f = [n \in 0..N |-> f[n]]
    OBVIOUS
  <2>5. ASSUME NEW n \in 0..N
        PROVE  f[n] = IF n = 0 THEN 0
                      ELSE IF scores[n] # NoScore /\ (f[n - 1] = 0 \/ Better(scores[n], scores[f[n - 1]]))
                           THEN n ELSE f[n - 1]
    BY <2>2, <2>3 DEF Takes
  <2>6. Steps(f)
    BY <2>4, <2>5
  <2>. QED
    BY <2>6
<1>2. Steps(best)
  <2>. HIDE DEF Steps
  <2>. QED
    BY <1>1, Zenon
<1>3. Best(scores) = best[N]
  BY DEF Best
<1>. HIDE DEF best
<1>4. best[0] = 0
  BY <1>2
<1>5. \A n \in 1..N: best[n] = IF Takes(scores, n, best[n - 1]) THEN n ELSE best[n - 1]
  BY <1>2 DEF Takes
<1>. QED
  BY <1>3, <1>4, <1>5

LEMMA BestIsBest ==
  ASSUME NEW scores \in Seq(Scores)
  PROVE  IsBest(scores, Len(scores), Best(scores))
<1>. DEFINE N == Len(scores)
<1>1. PICK f: /\ f[0] = 0 /\ Best(scores) = f[N]
              /\ \A n \in 1..N: f[n] = IF Takes(scores, n, f[n - 1]) THEN n ELSE f[n - 1]
  BY BestSteps
<1>. DEFINE T == {n \in 0..N: IsBest(scores, n, f[n])}
<1>2. 0 \in T
  BY <1>1 DEF IsBest
<1>3. ASSUME NEW k \in 0..(N - 1), k \in T
      PROVE  k + 1 \in T
  <2>. DEFINE n == k + 1
              b == f[k]
  <2>1. n \in 1..N /\ f[n] = IF Takes(scores, n, b) THEN n ELSE b
    BY <1>1
  <2>2. IsBest(scores, k, b)
    BY <1>3
  <2>3. \A i \in 1..N: scores[i] # NoScore => scores[i] \in Scored
    BY DEF Scores
  <2>. HIDE DEF b
  <2>4. CASE Takes(scores, n, b)
    <3>1. ASSUME NEW i \in 1..n, scores[i] # NoScore
          PROVE  ~Better(scores[i], scores[n]) /\ (scores[i] = scores[n] => n <= i)
      <4>1. scores[i] \in Scored /\ scores[n] \in Scored
        BY <2>3, <2>4, <3>1 DEF Takes
      <4>2. CASE i = n
        BY <4>1, <4>2, BetterIsAnOrder
      <4>3. CASE i # n
        <5>1. i \in 1..k /\ b # 0 /\ b \in 1..N /\ Better(scores[n], scores[b])
              /\ ~Better(scores[i], scores[b]) /\ scores[b] \in Scored
          BY <2>2, <2>3, <2>4, <3>1, <4>3 DEF IsBest, Takes
        <5>. QED
          BY <4>1, <5>1, BetterIsAnOrder
      <4>. QED
        BY <4>2, <4>3
    <3>. QED
      BY <2>1, <2>4, <3>1 DEF IsBest, Takes
  <2>5. CASE ~Takes(scores, n, b)
    BY <2>1, <2>2, <2>5 DEF IsBest, Takes
  <2>. QED
    BY <2>1, <2>4, <2>5
<1>. HIDE DEF T
<1>4. N \in T
  <2>1. N \in Nat /\ N \in 0..N
    OBVIOUS
  <2>. HIDE DEF N
  <2>. QED
    BY <1>2, <1>3, <2>1, Upwards
<1>. QED
  BY <1>1, <1>4 DEF T


-----------------------------------------------------------------------------
(* What is selected on a machine.                                          *)
LEMMA ScoreOf ==
  ASSUME NEW h, NEW r, r.cuda_major \in Nat
  PROVE  /\ Score(h, r) \in Scores
         /\ Score(h, r) # NoScore <=> Runs(h, r)
         /\ Runs(h, r) => Score(h, r) \in Scored /\ Score(h, r)[1] = Speed(h, r) /\ Speed(h, r) > 0
<1>1. \A a, b, c, d \in Nat: <<a, b, c, d>> \in Scored /\ <<a, b, c, d>> # NoScore
  BY DEF Scored, NoScore
<1>2. \A b: Bit(b) \in Nat
  BY DEF Bit
<1>3. CASE RunsCuda(h, r)
  <2>1. PICK m, n \in Nat: Score(h, r) = <<3, r.cuda_major, m, n>>
    BY <1>2, <1>3 DEF Score, RANK_NATIVE
  <2>. QED
    BY <1>1, <1>3, <2>1 DEF Scores, Runs, Speed
<1>4. CASE ~RunsCuda(h, r) /\ RunsRocm(h, r)
  <2>1. PICK n \in Nat: Score(h, r) = <<3, 0, n, 0>>
    BY <1>2, <1>4 DEF Score, RANK_NATIVE
  <2>. QED
    BY <1>1, <1>4, <2>1 DEF Scores, Runs, Speed
<1>5. CASE ~RunsCuda(h, r) /\ ~RunsRocm(h, r) /\ RunsVulkan(h, r)
  BY <1>1, <1>5 DEF Score, Scores, Runs, Speed, RANK_VULKAN
<1>6. CASE ~RunsCuda(h, r) /\ ~RunsRocm(h, r) /\ ~RunsVulkan(h, r) /\ RunsMetal(h, r)
  <2>1. Score(h, r) = <<3, 0, 0, 0>>
    BY <1>6 DEF Score, RANK_NATIVE
  <2>. QED
    BY <1>1, <1>6, <2>1 DEF Scores, Runs, Speed
<1>7. CASE /\ ~RunsCuda(h, r) /\ ~RunsRocm(h, r) /\ ~RunsVulkan(h, r) /\ ~RunsMetal(h, r)
           /\ "cpu" \in r.accel
  BY <1>1, <1>7 DEF Score, Scores, Runs, Speed, RANK_CPU
<1>8. CASE ~Runs(h, r)
  BY <1>8 DEF Score, Scores, Runs, NoScore
<1>. QED
  BY <1>3, <1>4, <1>5, <1>6, <1>7, <1>8 DEF Runs

LEMMA ListOf ==
  ASSUME NEW s, Listing(s)
  PROVE  /\ Len(s) \in Nat /\ DOMAIN s = 1..Len(s)
         /\ \A x: x \in ToSet(s) <=> \E i \in 1..Len(s): x = s[i]
BY DEF Listing, ToSet

LEMMA SelectIsBest ==
  ASSUME NEW b, NEW h, NEW entry,
         Listing(entry.assets), \A a \in ToSet(entry.assets): a.cuda_major \in Nat
  PROVE  SelectsBest(b, h, entry)
<1>. SUFFICES ASSUME entry.kind = "subprocess", ~ContractBlock(b, entry)
              PROVE  SelectsBest(b, h, entry)
  BY DEF SelectsBest
<1>. DEFINE N == Len(entry.assets)
            req(i) == AssetRequires(entry.assets[i])
            ours(i) == entry.assets[i].target = h.target
            scores == [i \in DOMAIN entry.assets |-> IF ours(i) THEN Score(h, req(i)) ELSE NoScore]
            best == Best(scores)
            usable == {i \in DOMAIN entry.assets: ours(i) /\ Runs(h, req(i))}
            sel == Select(b, h, entry)
<1>1. N \in Nat /\ DOMAIN entry.assets = 1..N
  BY ListOf
<1>2. \A i \in 1..N: req(i).cuda_major \in Nat
  BY ListOf DEF AssetRequires
<1>3. \A i \in 1..N: scores[i] \in Scores /\ (scores[i] # NoScore <=> i \in usable)
  <2>1. NoScore \in Scores
    BY DEF Scores
  <2>. QED
    BY <1>1, <1>2, <2>1, ScoreOf
<1>4. scores \in Seq(Scores) /\ Len(scores) = N
  <2>. HIDE DEF Scores
  <2>1. scores = [i \in 1..N |-> scores[i]]
    BY <1>1
  <2>. HIDE DEF scores
  <2>. QED
    BY <1>1, <1>3, <2>1
<1>5. IsBest(scores, N, best)
  <2>. HIDE DEF scores
  <2>. QED
    BY <1>4, BestIsBest
<1>6. sel = [is |-> IF best = 0 THEN "incompatible" ELSE "subprocess", index |-> best]
  BY SMTT(30) DEF Select
<1>7. ASSUME NEW i \in usable, best \in usable
      PROVE  /\ Speed(h, req(best)) >= Speed(h, req(i))
             /\ entry.assets[i] = entry.assets[best] => best <= i
  <2>1. i \in 1..N /\ best \in 1..N /\ best # 0
    BY <1>1, <1>7, SMTT(30)
  <2>2. /\ scores[i] = Score(h, req(i)) /\ scores[best] = Score(h, req(best))
        /\ scores[i] \in Scored /\ scores[best] \in Scored
        /\ scores[i][1] = Speed(h, req(i)) /\ scores[best][1] = Speed(h, req(best))
    BY <1>1, <1>2, <1>7, <2>1, ScoreOf
  <2>3. ~Better(scores[i], scores[best]) /\ (scores[i] = scores[best] => best <= i)
    BY <1>3, <1>5, <1>7, <2>1, ZenonT(60) DEF IsBest
  <2>4. scores[best][1] >= scores[i][1]
    BY <2>2, <2>3, BetterIsAnOrder, ZenonT(60)
  <2>5. entry.assets[i] = entry.assets[best] => scores[i] = scores[best]
    BY <2>2, ZenonT(60)
  <2>. QED
    BY <2>2, <2>3, <2>4, <2>5, ZenonT(60)
<1>8. usable \subseteq 1..N
  BY <1>1
<1>9. (best # 0 <=> usable # {}) /\ (best # 0 => best \in usable)
  <2>1. best = 0 => \A i \in 1..N: scores[i] = NoScore
    BY <1>5 DEF IsBest
  <2>2. best # 0 => best \in 1..N /\ scores[best] # NoScore
    BY <1>1, <1>5 DEF IsBest
  <2>. HIDE DEF scores, best, usable, N
  <2>. QED
    BY <1>3, <1>8, <2>1, <2>2
<1>10. sel.index = best /\ (sel.is = "subprocess" <=> best # 0)
  BY <1>6
<1>. HIDE DEF best, sel
<1>. QED
  BY <1>7, <1>9, <1>10 DEF SelectsBest, sel


\* Whether a file of a model is one for this machine.
Fits(h, f) == f.accel = {} \/ Runs(h, FileRequires(f))
MajorsAreNumbers(files) == \A f \in ToSet(files): f.cuda_major \in Nat

LEMMA ScoreOfFile ==
  ASSUME NEW h, NEW f, f.cuda_major \in Nat
  PROVE  /\ ScoreFile(h, f) \in Scores /\ (ScoreFile(h, f) # NoScore <=> Fits(h, f))
         /\ Fits(h, f) => ScoreFile(h, f) \in Scored /\ (ScoreFile(h, f)[1] = 0 <=> f.accel = {})
<1>1. FileRequires(f).cuda_major \in Nat
  BY DEF FileRequires
<1>2. CASE f.accel = {}
  <2>1. ScoreFile(h, f) = <<0, 0, 0, 0>>
    BY <1>2 DEF ScoreFile, RANK_ANY
  <2>. QED
    BY <1>2, <2>1 DEF Scores, Scored, NoScore, Fits
<1>3. CASE f.accel # {}
  <2>1. ScoreFile(h, f) = Score(h, FileRequires(f)) /\ (Fits(h, f) <=> Runs(h, FileRequires(f)))
    BY <1>3 DEF ScoreFile, Fits
  <2>2. Speed(h, FileRequires(f)) # 0
    BY DEF Speed
  <2>. QED
    BY <1>1, <1>3, <2>1, <2>2, ScoreOf
<1>. QED
  BY <1>2, <1>3

LEMMA PickIsBest ==
  ASSUME NEW h, NEW files, Listing(files), MajorsAreNumbers(files), NEW d
  PROVE  LET p == PickFile(h, files, d) IN
         /\ p \in 0..Len(files)
         /\ p = 0 => \A i \in 1..Len(files): files[i].destination = d => ~Fits(h, files[i])
         /\ p # 0 => /\ files[p].destination = d /\ Fits(h, files[p])
                     /\ \A i \in 1..Len(files):
                          files[i].destination = d /\ Fits(h, files[i]) /\ files[i].accel # {}
                            => files[p].accel # {}
<1>. DEFINE N == Len(files)
            scores == [i \in DOMAIN files |->
                         IF files[i].destination = d THEN ScoreFile(h, files[i]) ELSE NoScore]
            p == PickFile(h, files, d)
<1>1. N \in Nat /\ DOMAIN files = 1..N /\ \A i \in 1..N: files[i].cuda_major \in Nat
  BY ListOf DEF MajorsAreNumbers
<1>2. \A i \in 1..N: /\ scores[i] \in Scores
                     /\ scores[i] # NoScore <=> files[i].destination = d /\ Fits(h, files[i])
  <2>1. NoScore \in Scores
    BY DEF Scores
  <2>. QED
    BY <1>1, <2>1, ScoreOfFile
<1>3. scores \in Seq(Scores) /\ Len(scores) = N
  <2>. HIDE DEF Scores
  <2>1. scores = [i \in 1..N |-> scores[i]]
    BY <1>1
  <2>. HIDE DEF scores
  <2>. QED
    BY <1>1, <1>2, <2>1
<1>4. p = Best(scores)
  BY DEF PickFile
<1>5. IsBest(scores, N, p)
  <2>. HIDE DEF scores
  <2>. QED
    BY <1>3, <1>4, BestIsBest
<1>6. ASSUME p # 0, NEW i \in 1..N, files[i].destination = d, Fits(h, files[i]), files[i].accel # {}
      PROVE  files[p].accel # {}
  <2>1. p \in 1..N /\ scores[p] # NoScore /\ scores[i] # NoScore /\ ~Better(scores[i], scores[p])
    BY <1>1, <1>2, <1>5, <1>6 DEF IsBest
  <2>2. scores[i] = ScoreFile(h, files[i]) /\ scores[p] = ScoreFile(h, files[p]) /\ Fits(h, files[p])
    BY <1>1, <1>2, <1>6, <2>1
  <2>3. scores[i] \in Scored /\ scores[p] \in Scored
    BY <1>1, <1>6, <2>1, <2>2, ScoreOfFile
  <2>4. scores[p][1] >= scores[i][1]
    BY <2>1, <2>3, BetterIsAnOrder
  <2>5. scores[i][1] # 0 /\ scores[i][1] \in Nat /\ scores[p][1] \in Nat
    <3>1. scores[i][1] # 0
      BY <1>1, <1>6, <2>2, ScoreOfFile
    <3>. HIDE DEF scores
    <3>. QED
      BY <2>3, <3>1 DEF Scored
  <2>6. scores[p][1] # 0
    BY <2>4, <2>5
  <2>. QED
    BY <1>1, <2>1, <2>2, <2>6, ScoreOfFile
<1>7. p \in 0..N /\ (p = 0 => \A i \in 1..N: scores[i] = NoScore) /\ (p # 0 => p \in 1..N /\ scores[p] # NoScore)
  BY <1>1, <1>5 DEF IsBest
<1>. HIDE DEF scores, p
<1>8. p = 0 => \A i \in 1..N: files[i].destination = d => ~Fits(h, files[i])
  BY <1>2, <1>7
<1>9. p # 0 => files[p].destination = d /\ Fits(h, files[p])
  BY <1>2, <1>7
<1>. QED
  BY <1>6, <1>7, <1>8, <1>9 DEF p

LEMMA SelectedFiles ==
  ASSUME NEW h, NEW files, Listing(files), MajorsAreNumbers(files)
  PROVE  /\ SelectFiles(h, files).files \subseteq 1..Len(files)
         /\ \A i, j \in SelectFiles(h, files).files: files[i].destination = files[j].destination => i = j
         /\ FilesResolve(h, files)
<1>. DEFINE N == Len(files)
            sel == SelectFiles(h, files)
            pick(d) == PickFile(h, files, d)
<1>1. N \in Nat /\ DOMAIN files = 1..N
  BY ListOf
<1>2. \A i: i \in sel.files <=> i # 0 /\ \E d \in Destinations(files): i = pick(d)
  BY DEF SelectFiles
<1>3. sel.ok <=> \A d \in Destinations(files):
                   pick(d) # 0 \/ \A i \in Variants(files, d): files[i].optional
  BY DEF SelectFiles
<1>0. ASSUME NEW d
      PROVE  /\ pick(d) \in 0..N
             /\ pick(d) # 0 =>
                  /\ files[pick(d)].destination = d /\ Fits(h, files[pick(d)])
                  /\ \A i \in 1..N: files[i].destination = d /\ Fits(h, files[i]) /\ files[i].accel # {}
                       => files[pick(d)].accel # {}
  BY PickIsBest
<1>. HIDE DEF pick
<1>4. \A i \in sel.files: i \in 1..N /\ i = pick(files[i].destination) /\ Fits(h, files[i])
  <2>. HIDE DEF sel
  <2>. QED
    BY <1>0, <1>1, <1>2
<1>5. ASSUME NEW i \in 1..N, sel.ok
      PROVE  files[i].optional \/ \E j \in sel.files: files[j].destination = files[i].destination
  <2>. DEFINE d == files[i].destination
  <2>1. d \in Destinations(files) /\ i \in Variants(files, d)
    BY <1>1 DEF Destinations, Variants
  <2>2. CASE pick(d) # 0
    <3>1. pick(d) \in sel.files /\ files[pick(d)].destination = d
      <4>. HIDE DEF sel
      <4>. QED
        BY <1>0, <1>2, <2>1, <2>2
    <3>. QED
      BY <3>1
  <2>3. CASE pick(d) = 0
    BY <1>3, <1>5, <2>1, <2>3
  <2>. QED
    BY <2>2, <2>3
<1>6. ASSUME NEW i \in sel.files, NEW j \in 1..N, files[i].destination = files[j].destination,
             Fits(h, files[j]), files[j].accel # {}
      PROVE  files[i].accel # {}
  <2>. HIDE DEF sel, N
  <2>1. i = pick(files[j].destination) /\ i \in 1..N
    BY <1>4, <1>6
  <2>2. i # 0
    BY <1>1, <2>1
  <2>. QED
    BY <1>0, <1>6, <2>1, <2>2
<1>7. \A i, j \in sel.files: files[i].destination = files[j].destination => i = j
  BY <1>4
<1>. HIDE DEF sel
<1>8. FilesResolve(h, files)
  BY <1>1, <1>4, <1>5, <1>6, <1>7 DEF FilesResolve, Fits, sel
<1>. QED
  BY <1>4, <1>7, <1>8 DEF sel

-----------------------------------------------------------------------------
(* What is on disk, of the backends that are installed.                    *)
LEMMA UrlsOfAll ==
  ASSUME NEW model, Listing(model.files), NEW j \in 1..Len(model.files)
  PROVE  model.files[j].url \in ToSet(UrlsOf(model, model.files[j].destination))
<1>. DEFINE files == model.files
            N == Len(files)
            d == files[j].destination
            U == {f.url: f \in ToSet(files)}
            Steps(g) == g = [n \in 0..N |-> IF n = 0 THEN <<>>
                               ELSE IF files[n].destination = d THEN Append(g[n - 1], files[n].url)
                               ELSE g[n - 1]]
            urls == CHOOSE g: Steps(g)
<1>1. N \in Nat /\ \A n \in 1..N: files[n].url \in U
  BY ListOf
<1>2. \E g: Steps(g) /\ g \in [0..N -> Seq(U)]
  <2>. DEFINE step == [p \in (1..N) \X Seq(U) |->
                         IF files[p[1]].destination = d THEN Append(p[2], files[p[1]].url) ELSE p[2]]
              S == Seq(U)
  <2>1. step \in [(1..N) \X S -> S] /\ <<>> \in S
    <3>. HIDE DEF U
    <3>. QED
      BY <1>1
  <2>2. PICK g: RunsThrough(g, N, S, <<>>, step)
    <3>. HIDE DEF step, S, N
    <3>. QED
      BY <1>1, <2>1, RecursionExists
  <2>3. g \in [0..N -> S] /\ g[0] = <<>> /\ \A n \in 1..N: g[n] = step[<<n, g[n - 1]>>]
    BY <2>2 DEF RunsThrough
  <2>4. ASSUME NEW n \in 1..N
        PROVE  g[n] = IF files[n].destination = d THEN Append(g[n - 1], files[n].url) ELSE g[n - 1]
    <3>. HIDE DEF U
    <3>1. n - 1 \in 0..N
      BY <1>1
    <3>2. <<n, g[n - 1]>> \in (1..N) \X S
      BY <2>3, <3>1
    <3>. QED
      BY <2>3, <3>2
  <2>5. g = [n \in 0..N |-> g[n]]
    BY <2>3
  <2>6. Steps(g)
    <3>1. ASSUME NEW n \in 0..N
          PROVE  g[n] = IF n = 0 THEN <<>>
                        ELSE IF files[n].destination = d THEN Append(g[n - 1], files[n].url) ELSE g[n - 1]
      <4>1. n = 0 \/ n \in 1..N
        BY <1>1
      <4>. QED
        BY <2>3, <2>4, <4>1
    <3>. QED
      BY <2>5, <3>1
  <2>. HIDE DEF Steps
  <2>. QED
    BY <2>3, <2>6
<1>3. Steps(urls)
  <2>. HIDE DEF Steps
  <2>. QED
    BY <1>2, Zenon
<1>4. UrlsOf(model, d) = urls[N]
  BY DEF UrlsOf
<1>. HIDE DEF urls
<1>5. ASSUME NEW n \in 1..N
      PROVE  urls[n] = IF files[n].destination = d THEN Append(urls[n - 1], files[n].url) ELSE urls[n - 1]
  <2>1. n \in 0..N /\ n # 0
    BY <1>1
  <2>. QED
    BY <1>3, <2>1
<1>. DEFINE T == {n \in 0..N: urls[n] \in Seq(U) /\ (n >= j => files[j].url \in ToSet(urls[n]))}
<1>6. 0 \in T
  BY <1>1, <1>3 DEF ToSet
<1>7. ASSUME NEW k \in 0..(N - 1), k \in T
      PROVE  k + 1 \in T
  <2>1. k + 1 \in 1..N /\ (k + 1) - 1 = k /\ urls[k] \in Seq(U)
    BY <1>1, <1>7
  <2>2. urls[k + 1] = IF files[k + 1].destination = d THEN Append(urls[k], files[k + 1].url) ELSE urls[k]
    BY <1>5, <2>1
  <2>. HIDE DEF U
  <2>3. CASE files[k + 1].destination = d
    <3>1. urls[k + 1] = Append(urls[k], files[k + 1].url) /\ files[k + 1].url \in U
      BY <1>1, <2>1, <2>2, <2>3
    <3>2. urls[k + 1] \in Seq(U) /\ files[k + 1].url \in ToSet(urls[k + 1])
          /\ ToSet(urls[k]) \subseteq ToSet(urls[k + 1])
      <4>. DEFINE q == urls[k]
                  x == files[k + 1].url
      <4>1. q \in Seq(U) /\ x \in U /\ urls[k + 1] = Append(q, x)
        BY <2>1, <3>1
      <4>. HIDE DEF q, x
      <4>2. /\ Append(q, x) \in Seq(U) /\ Append(q, x)[Len(q) + 1] = x
            /\ DOMAIN q = 1..Len(q) /\ DOMAIN Append(q, x) = 1..(Len(q) + 1) /\ Len(q) \in Nat
            /\ \A i \in 1..Len(q): Append(q, x)[i] = q[i]
        BY <4>1
      <4>3. x \in ToSet(Append(q, x))
        <5>1. Len(q) + 1 \in DOMAIN Append(q, x)
          BY <4>2
        <5>. QED
          BY <4>2, <5>1 DEF ToSet
      <4>4. ToSet(q) \subseteq ToSet(Append(q, x))
        BY <4>2 DEF ToSet
      <4>. QED
        BY <4>1, <4>2, <4>3, <4>4 DEF q, x
    <3>3. k + 1 >= j => j = k + 1 \/ k >= j
      BY <2>1
    <3>. QED
      BY <1>7, <2>1, <3>2, <3>3
  <2>4. CASE files[k + 1].destination # d
    BY <1>7, <2>1, <2>2, <2>4
  <2>. QED
    BY <2>3, <2>4
<1>8. N \in T
  <2>1. N \in 0..N
    BY <1>1
  <2>. HIDE DEF T, N
  <2>. QED
    BY <1>1, <1>6, <1>7, <2>1, Upwards
<1>. QED
  BY <1>1, <1>4, <1>8

LEMMA DeclaresEachUrl ==
  ASSUME NEW m, IsManifest(m), NEW i \in DOMAIN m.models, NEW j \in 1..Len(m.models[i].files)
  PROVE  LET f == m.models[i].files[j]
         IN  \E u \in Declaring(m, f.destination): f.url \in ToSet(u)
<1>. DEFINE model == m.models[i]
            f == model.files[j]
            u == UrlsOf(model, f.destination)
<1>1. model \in ToSet(m.models)
  BY DEF ToSet
<1>2. f.url \in ToSet(u)
  BY <1>1, UrlsOfAll DEF IsManifest
<1>3. u # <<>>
  <2>. HIDE DEF u
  <2>. QED
    BY <1>2 DEF ToSet
<1>4. u \in Declaring(m, f.destination)
  BY <1>3 DEF Declaring
<1>. QED
  BY <1>2, <1>4

\* The files kept beside a manifest: each is one it names for its place.
Keeps(m, W) ==
  \A w \in W: w = <<w[1], w[2]>> /\ \E u \in Declaring(m, w[1]): w[2] \in ToSet(u)
IsInstalled(x) ==
  \E m, W: x = <<[manifest |-> m, weights |-> W]>> /\ IsManifest(m) /\ Keeps(m, W)
DirsInv ==
  /\ dirs = [d \in DirNames |-> dirs[d]]
  /\ \A d \in DirNames: dirs[d] # None => IsInstalled(dirs[d])
LoadedRight ==
  outcome.is = "loaded" =>
    \A f \in LoadedFiles: f.sha256 => <<f.destination, f.url>> \in Head(dirs[outcome.dir]).weights
BestInv == DirsInv /\ LoadedRight

LEMMA Installed ==
  ASSUME NEW x, IsInstalled(x)
  PROVE  /\ IsManifest(Head(x).manifest) /\ Keeps(Head(x).manifest, Head(x).weights)
         /\ x[1] = [manifest |-> Head(x).manifest, weights |-> Head(x).weights]
         /\ x # None
BY DEF IsInstalled, None

\* What authors release are manifests.
LEMMA ListingsAreManifests ==
  ASSUME NEW r \in Listings
  PROVE  IsManifest(r.manifest)
<1>1. PICK d \in Drafts, v \in Nat, w \in Nat: r = Numbered(d, v, w)
  BY DEF Listings
<1>2. r.manifest.assets = d.manifest.assets /\ r.manifest.models = d.manifest.models
  BY <1>1, DraftsAssumption DEF Numbered
<1>. QED
  BY <1>2, DraftsAssumption DEF IsManifest

LEMMA BestInvSuffices == IndexerInv /\ BestInv => BestIsTaken
<1>. SUFFICES ASSUME IndexerInv, BestInv PROVE BestIsTaken
  OBVIOUS
<1>1. ASSUME NEW k \in DOMAIN index.backends
      PROVE  SelectsBest(Daemon, host, index.backends[k])
  <2>1. IsEntry(index.backends[k])
    BY DEF IndexerInv, IndexerTyped, Lists
  <2>2. PICK r \in Listings: index.backends[k].assets = r.manifest.assets
    BY <2>1, EntryFields
  <2>3. IsManifest(r.manifest)
    BY ListingsAreManifests
  <2>. QED
    BY <2>2, <2>3, SelectIsBest DEF IsManifest
<1>2. ASSUME NEW d \in DirNames, dirs[d] # None
      PROVE  /\ \A i \in DOMAIN Head(dirs[d]).manifest.models:
                  FilesResolve(host, Head(dirs[d]).manifest.models[i].files)
             /\ \A w \in Head(dirs[d]).weights:
                  \E u \in Declaring(Head(dirs[d]).manifest, w[1]): w[2] \in ToSet(u)
  <2>. DEFINE m == Head(dirs[d]).manifest
  <2>1. IsManifest(m) /\ Keeps(m, Head(dirs[d]).weights)
    BY <1>2, Installed DEF BestInv, DirsInv
  <2>2. ASSUME NEW i \in DOMAIN m.models
        PROVE  FilesResolve(host, m.models[i].files)
    <3>1. m.models[i] \in ToSet(m.models)
      BY DEF ToSet
    <3>. QED
      BY <2>1, <3>1, SelectedFiles DEF IsManifest, MajorsAreNumbers
  <2>. QED
    BY <2>1, <2>2 DEF Keeps
<1>. QED
  BY <1>1, <1>2 DEF BestIsTaken, BestForThisHost, RightWeights, BestInv, LoadedRight


LEMMA PlaceKeeps ==
  ASSUME DirsInv, NEW entry, IsManifest(entry.manifest), Place(entry)
  PROVE  DirsInv'
<1>. DEFINE final == InstallDirName(entry)
            serving == {d \in DirNames: Loads(d) /\ SourceIn(d) = entry.source}
            carried(d) == IF ~Loads(d) THEN {} ELSE
                            {w \in Head(dirs[d]).weights:
                               w[1] \in Survivors(Head(dirs[d]).manifest, entry.manifest)}
            placed(from) == [manifest |-> entry.manifest, weights |-> carried(from)]
<1>1. PICK from \in IF serving = {} THEN {final} ELSE serving:
        dirs' = [d \in DirNames |-> IF d = final THEN Some(placed(from))
                                    ELSE IF d \in serving THEN None ELSE dirs[d]]
  BY DEF Place
<1>2. final \in DirNames => from \in DirNames
  BY <1>1
<1>3. ASSUME from \in DirNames
      PROVE  IsInstalled(Some(placed(from)))
  <2>1. ASSUME NEW w \in carried(from)
        PROVE  w = <<w[1], w[2]>> /\ \E u \in Declaring(entry.manifest, w[1]): w[2] \in ToSet(u)
    <3>1. /\ dirs[from] # None /\ w \in Head(dirs[from]).weights
          /\ w[1] \in Survivors(Head(dirs[from]).manifest, entry.manifest)
      BY <2>1 DEF Loads
    <3>2. Keeps(Head(dirs[from]).manifest, Head(dirs[from]).weights)
      BY <1>3, <3>1, Installed DEF DirsInv
    <3>3. Declaring(Head(dirs[from]).manifest, w[1]) = Declaring(entry.manifest, w[1])
      BY <3>1 DEF Survivors
    <3>. QED
      BY <3>1, <3>2, <3>3 DEF Keeps
  <2>2. Keeps(entry.manifest, carried(from))
    BY <2>1 DEF Keeps
  <2>. HIDE DEF carried
  <2>. QED
    BY <2>2 DEF IsInstalled, Some
<1>4. dirs' = [d \in DirNames |-> dirs'[d]]
  BY <1>1
<1>. HIDE DEF placed, serving, final
<1>5. \A d \in DirNames: dirs'[d] = IF d = final THEN Some(placed(from))
                                    ELSE IF d \in serving THEN None ELSE dirs[d]
  BY <1>1
<1>. QED
  BY <1>2, <1>3, <1>4, <1>5 DEF DirsInv

LEMMA InstallKeeps ==
  ASSUME BestInv, NEW entry, NEW sel, NEW how, IsManifest(entry.manifest), Install(entry, sel, how)
  PROVE  BestInv'
<1>1. DirsInv'
  <2>1. Place(entry) \/ UNCHANGED dirs
    BY DEF Install
  <2>. QED
    BY <2>1, PlaceKeeps DEF BestInv, DirsInv
<1>2. outcome'.is # "loaded"
  BY DEF Install, Check
<1>. QED
  BY <1>1, <1>2 DEF BestInv, LoadedRight

LEMMA LoadKeeps ==
  ASSUME BestInv, NEW at \in DirNames, NEW i \in 1..2, Load(at, i)
  PROVE  BestInv'
<1>. DEFINE had == Head(dirs[at]).weights
            m == Head(dirs[at]).manifest
            files == m.models[i].files
            sel == SelectFiles(host, files)
            fetch == {files[j]: j \in {j \in sel.files: ~UsableExisting(had, files[j])}}
            W == {w \in had: \A f \in fetch: f.destination # w[1]}
                 \cup {<<f.destination, f.url>>: f \in fetch}
<1>1. /\ dirs[at] # None /\ i \in DOMAIN m.models /\ host' = host
      /\ dirs' = [dirs EXCEPT ![at] = Some([@[1] EXCEPT !.weights = W])]
      /\ outcome'.is = "loaded" /\ outcome'.dir = at /\ outcome'.model = i
  BY ZenonT(60) DEF Load, LoadBackend, LoadsInstalled
<1>2. /\ IsManifest(m) /\ Keeps(m, had)
      /\ dirs[at][1] = [manifest |-> m, weights |-> had]
  BY <1>1, Installed, ZenonT(60) DEF BestInv, DirsInv
<1>3. Listing(files) /\ MajorsAreNumbers(files) /\ m.models[i] \in ToSet(m.models)
  <2>1. m.models[i] \in ToSet(m.models)
    BY <1>1, ZenonT(60) DEF ToSet
  <2>. QED
    BY <1>2, <2>1, SMTT(30) DEF IsManifest, MajorsAreNumbers
<1>4. /\ sel.files \subseteq 1..Len(files)
      /\ \A j, k \in sel.files: files[j].destination = files[k].destination => j = k
  BY <1>3, SelectedFiles, ZenonT(60)
<1>5. Keeps(m, W)
  <2>1. ASSUME NEW w \in had
        PROVE  w = <<w[1], w[2]>> /\ \E u \in Declaring(m, w[1]): w[2] \in ToSet(u)
    BY <1>2, SMTT(30) DEF Keeps
  <2>2. ASSUME NEW f \in fetch
        PROVE  \E u \in Declaring(m, f.destination): f.url \in ToSet(u)
    <3>1. PICK j \in sel.files: f = files[j]
      BY SMTT(30)
    <3>2. j \in 1..Len(files)
      BY <1>4, SMTT(30)
    <3>. QED
      BY <1>1, <1>2, <3>1, <3>2, DeclaresEachUrl, ZenonT(60)
  <2>3. \A w \in W: w \in had \/ \E f \in fetch: w = <<f.destination, f.url>>
    BY ZenonT(60)
  <2>. HIDE DEF W, fetch, had, m
  <2>. QED
    BY <2>1, <2>2, <2>3 DEF Keeps
<1>6. dirs'[at] = Some([manifest |-> m, weights |-> W])
  <2>1. dirs'[at] = Some([dirs[at][1] EXCEPT !.weights = W])
    BY <1>1, ZenonT(60) DEF BestInv, DirsInv
  <2>. HIDE DEF W, had, m
  <2>. QED
    BY <1>2, <2>1, SMTT(30)
<1>7. DirsInv'
  <2>1. IsInstalled(dirs'[at])
    <3>. HIDE DEF W, m
    <3>. QED
      BY <1>2, <1>5, <1>6 DEF IsInstalled, Some
  <2>. HIDE DEF W
  <2>2. dirs' = [d \in DirNames |-> dirs'[d]] /\ \A d \in DirNames: d # at => dirs'[d] = dirs[d]
    BY <1>1 DEF BestInv, DirsInv
  <2>. QED
    BY <2>1, <2>2 DEF BestInv, DirsInv
<1>8. Head(dirs'[at]).manifest = m /\ Head(dirs'[at]).weights = W
  <2>. HIDE DEF W, m
  <2>. QED
    BY <1>6, SMTT(30) DEF Some
<1>9. ASSUME NEW j \in sel.files, files[j].sha256
      PROVE  <<files[j].destination, files[j].url>> \in W
  <2>1. CASE files[j] \in fetch
    BY <2>1, ZenonT(60)
  <2>2. CASE files[j] \notin fetch
    <3>1. PICK w \in had: w[1] = files[j].destination /\ w[2] = files[j].url
      BY <1>9, <2>2, ZenonT(60) DEF UsableExisting
    <3>2. w = <<files[j].destination, files[j].url>>
      BY <1>2, <3>1, SMTT(30) DEF Keeps
    <3>3. ASSUME NEW k \in sel.files, files[k] \in fetch
          PROVE  files[k].destination # files[j].destination
      BY <1>4, <2>2, <3>3, ZenonT(60)
    <3>4. \A f \in fetch: \E k \in sel.files: f = files[k]
      OBVIOUS
    <3>. HIDE DEF fetch, had, files, sel
    <3>. QED
      BY <3>1, <3>2, <3>3, <3>4, SMTT(30)
  <2>. QED
    BY <2>1, <2>2, ZenonT(60)
<1>10. LoadedRight'
  <2>1. LoadedFiles' = {files[j]: j \in sel.files}
    <3>. HIDE DEF W, m
    <3>. QED
      BY <1>1, <1>8 DEF LoadedFiles
  <2>. HIDE DEF W, m, files, sel
  <2>. QED
    BY <1>1, <1>8, <1>9, <2>1 DEF LoadedRight
<1>. QED
  BY <1>7, <1>10, SMTT(30) DEF BestInv

LEMMA BestHolds ==
  ASSUME IndexerInv, topic \in Topics, BestInv, [PublishNext]_publishVars
  PROVE  BestInv'
<1>1. CASE UNCHANGED catalogVars
  <2>1. dirs' = dirs /\ host' = host /\ outcome' = outcome
    BY <1>1 DEF catalogVars
  <2>2. DirsInv'
    BY <2>1 DEF BestInv, DirsInv
  <2>3. LoadedFiles' = LoadedFiles
    BY <2>1 DEF LoadedFiles
  <2>4. LoadedRight'
    BY <2>1, <2>3 DEF BestInv, LoadedRight
  <2>. QED
    BY <2>2, <2>4 DEF BestInv
<1>2. ASSUME NEW key \in DOMAIN index.backends, InstallFromRegistry(key) \/ Update(key)
      PROVE  BestInv'
  <2>. DEFINE e == index.backends[key]
  <2>1. IsEntry(e)
    BY DEF IndexerInv, IndexerTyped, Lists
  <2>2. IsManifest(e.manifest)
    BY <2>1, EntryFields, ListingsAreManifests
  <2>3. \E how: Install(e, Select(Daemon, host, e), how)
    BY <1>2 DEF InstallFromRegistry, Update
  <2>. QED
    BY <2>2, <2>3, InstallKeeps
<1>3. ASSUME NEW repo \in Repos, InstallFromRepo(repo)
      PROVE  BestInv'
  <2>1. PICK entry: /\ IsManifest(entry.manifest)
                    /\ Install(entry, Select(Daemon, host, entry), "repo")
    <3>. DEFINE all == forge[repo]
                e == [repo |-> repo, prefix |-> "", cap |-> 0]
                latest == {i \in Listed(e): TRUE}
                r == all[Max(latest)]
    <3>1. latest # {} /\ ResolveRepo(repo) =
            Some(FromManifest(IdFromSource(r.manifest.source), r.manifest, r.version, r.tar, None))
      BY <1>3, ZenonT(60) DEF InstallFromRepo, ResolveRepo
    <3>2. all \in Seq(Listings)
      BY DEF IndexerInv, IndexerTyped
    <3>3. /\ \A i \in latest: i \in DOMAIN all
          /\ \A i, j \in latest: i >= j
      BY <3>2 DEF Listed
    <3>4. Max(latest) \in latest
      BY <3>1, <3>3, Zenon DEF Max
    <3>5. IsManifest(r.manifest)
      <4>1. r \in Listings
        <5>1. Max(latest) \in DOMAIN all
          BY <3>3, <3>4
        <5>. HIDE DEF all, latest
        <5>. QED
          BY <3>2, <5>1
      <4>. QED
        BY <4>1, ListingsAreManifests
    <3>6. Head(ResolveRepo(repo)).manifest = r.manifest
      <4>. HIDE DEF all, latest, r
      <4>. QED
        BY <3>1 DEF FromManifest, Some
    <3>. QED
      BY <1>3, <3>5, <3>6, ZenonT(60) DEF InstallFromRepo
  <2>. QED
    BY <2>1, InstallKeeps
<1>4. ASSUME NEW draft \in LocalOf[topic], InstallFromDir(draft)
      PROVE  BestInv'
  <2>1. draft \in LocalDirs
    BY TopicsAssumption
  <2>2. ResolveLocal(draft) =
          Some(FromManifest(IdFromSource(draft.manifest.source), draft.manifest, 1, draft.tar, None))
    BY <1>4 DEF InstallFromDir, ResolveLocal
  <2>3. Head(ResolveLocal(draft)).manifest = draft.manifest
    BY <2>2 DEF FromManifest, Some
  <2>4. \E sel: Install(Head(ResolveLocal(draft)), sel, "local")
    BY <1>4 DEF InstallFromDir
  <2>. QED
    BY <2>1, <2>3, <2>4, CatalogAssumption, InstallKeeps
<1>5. ASSUME NEW d \in DirNames, Uninstall(d)
      PROVE  BestInv'
  <2>1. dirs' = [dirs EXCEPT ![d] = None] /\ outcome' = Nothing
    BY <1>5 DEF Uninstall
  <2>2. outcome'.is # "loaded"
    BY <2>1 DEF Nothing
  <2>3. DirsInv'
    BY <2>1 DEF BestInv, DirsInv
  <2>. QED
    BY <2>2, <2>3 DEF BestInv, LoadedRight
<1>6. ASSUME NEW d \in DirNames, NEW i \in 1..2, Load(d, i)
      PROVE  BestInv'
  BY <1>6, LoadKeeps
<1>7. ASSUME NEW h, UpgradeDaemon \/ ChangeHost(h)
      PROVE  BestInv'
  <2>1. dirs' = dirs /\ outcome' = Nothing
    BY <1>7 DEF UpgradeDaemon, ChangeHost
  <2>2. outcome'.is # "loaded"
    BY <2>1 DEF Nothing
  <2>. QED
    BY <2>1, <2>2 DEF BestInv, DirsInv, LoadedRight
<1>. QED
  BY <1>1, <1>2, <1>3, <1>4, <1>5, <1>6, <1>7 DEF PublishNext, publishVars, SetupNext, ListNext

-----------------------------------------------------------------------------
(* From a topic's steps to the steps of the specification.                 *)
PublishInv == IndexerInv /\ PublishedInstalls /\ BestInv /\ topic \in Topics

LEMMA TopicsIndex ==
  ASSUME topic \in Topics, [PublishNext]_publishVars PROVE [IndexerNext]_indexerVars
<1>1. CASE ListNext
  <2>1. \A draft \in DraftsOf[topic]: draft \in Drafts
    BY TopicsAssumption
  <2>2. \A reg \in RegistriesOf[topic]: reg \in Registries
    BY TopicsAssumption
  <2>. QED
    BY <1>1, <2>1, <2>2 DEF ListNext, IndexerNext, MayRelease
<1>2. CASE UNCHANGED indexerVars
  BY <1>2
<1>. QED
  BY <1>1, <1>2 DEF PublishNext, publishVars

LEMMA PublishStarts == PublishInit => PublishInv
<1>1. PublishInit => CatalogInit /\ IndexerInit /\ topic \in Topics
  BY Zenon DEF PublishInit
<1>2. CatalogInit => outcome = Nothing /\ DirsInv
  BY DEF CatalogInit, DirsInv
<1>3. Nothing.how = "" /\ Nothing.is # "loaded"
  BY DEF Nothing
<1>4. CatalogInit => PublishedInstalls /\ BestInv
  BY <1>2, <1>3 DEF PublishedInstalls, FromRegistry, BestInv, LoadedRight
<1>. QED
  BY <1>1, <1>4, IndexerStarts DEF PublishInv

LEMMA PublishHolds == PublishInv /\ [PublishNext]_publishVars => PublishInv'
<1>. SUFFICES ASSUME PublishInv, [PublishNext]_publishVars PROVE PublishInv'
  OBVIOUS
<1>1. IndexerInv'
  BY TopicsIndex, IndexerInvHolds DEF PublishInv
<1>2. PublishedInstalls' /\ BestInv'
  BY UsableHolds, BestHolds DEF PublishInv
<1>3. topic' \in Topics
  BY DEF PublishInv, PublishNext, publishVars
<1>. QED
  BY <1>1, <1>2, <1>3 DEF PublishInv

LEMMA PublishInvAlways == PublishSpec => []PublishInv
BY PublishStarts, PublishHolds, PTL DEF PublishSpec

\* However many builds fail and in whatever order authors release and maintainers
\* edit, an entry is gone MAX_STALENESS_DAYS after the first build that failed it,
\* and no two entries share an identity or a directory (carryforward.rs, lib.rs).
THEOREM IndexesAreSound == PublishSpec => []IndexIsSound
<1>1. PublishInv => IndexIsSound
  BY IndexInvSuffices DEF PublishInv, IndexIsSound
<1>. QED
  BY <1>1, PublishInvAlways, PTL

\* A daemon of the indexer's own build installs and serves what the index lists and the
\* machine has a build for, but for a release that breaks what only the daemon checks
\* (Installable); and every value that options offer is accepted (install.rs, options.rs).
THEOREM WhatIsPublishedIsUsable == PublishSpec => []PublishedIsUsable
<1>1. PublishInv => PublishedIsUsable
  BY EveryOfferIsAccepted DEF PublishInv, PublishedIsUsable
<1>. QED
  BY <1>1, PublishInvAlways, PTL

\* On every machine the build that is taken is the best that runs there, a model's
\* files resolve to one fitting variant each, and what is on disk is what the manifest
\* there names, for this machine once a model is loaded (compat.rs, carry_over.rs).
THEOREM TheBestIsTaken == PublishSpec => []BestIsTaken
<1>1. PublishInv => BestIsTaken
  BY BestInvSuffices, SMTT(30) DEF PublishInv
<1>. QED
  BY <1>1, PublishInvAlways, PTL

-----------------------------------------------------------------------------
(* The catalog: what is served stays served.                               *)

VersionInv == version \in Nat \ {0}

LEMMA VersionHolds ==
  ASSUME VersionInv, [PublishNext]_publishVars
  PROVE  VersionInv'
<1>1. CASE UNCHANGED version
  BY <1>1 DEF VersionInv
<1>2. CASE UpgradeDaemon
  BY <1>2 DEF UpgradeDaemon, VersionInv
<1>. QED
  BY <1>1, <1>2, ZenonT(60) DEF PublishNext, publishVars, SetupNext, ListNext, catalogVars, InstallFromRegistry, Update,
     InstallFromRepo, InstallFromDir, Uninstall, Load, ChangeHost, Install

\* A newer build reads what an older one reads, when it is installed already.
LEMMA NewBuildReads ==
  ASSUME VersionInv, UpgradeDaemon
  PROVE  Served \subseteq Served'
<1>. DEFINE old == DaemonBuilds[version]  new == DaemonBuilds[version + 1]
<1>1. version \in DOMAIN DaemonBuilds /\ version + 1 \in DOMAIN DaemonBuilds
  BY CatalogAssumption DEF VersionInv, UpgradeDaemon
<1>2. old.product = new.product /\ old.latest \in Nat /\ new.latest \in Nat /\ old.latest <= new.latest
  BY <1>1, CatalogAssumption DEF VersionInv
<1>3. ASSUME NEW m, ParseInstalled(old, m)
      PROVE  ParseInstalled(new, m)
  BY <1>2, <1>3 DEF ParseInstalled, ParseInner
<1>4. Daemon = old /\ Daemon' = new /\ dirs' = dirs
  BY DEF UpgradeDaemon, Daemon
<1>. HIDE DEF old, new
<1>5. ASSUME NEW d \in DirNames, LoadBackend(d)
      PROVE  LoadBackend(d)' /\ SourceIn(d)' = SourceIn(d)
  BY <1>3, <1>4, <1>5 DEF LoadBackend, LoadsInstalled, SourceIn
<1>. QED
  BY <1>5 DEF Served

\* An install leaves the directories that serve another source alone.
LEMMA InstallsApart ==
  ASSUME NEW entry, NEW sel, NEW how, Install(entry, sel, how),
         NEW d \in DirNames, Loads(d), SourceIn(d) # outcome'.source
  PROVE  dirs'[d] = dirs[d]
<1>1. CASE UNCHANGED dirs
  BY <1>1
<1>2. CASE EnsureDirFreeFor(InstallDirName(entry), entry.source) /\ Place(entry)
  <2>1. outcome'.source = entry.source
    BY DEF Install
  <2>2. d # InstallDirName(entry)
    BY <1>2, <2>1 DEF EnsureDirFreeFor
  <2>3. d \notin {e \in DirNames: Loads(e) /\ SourceIn(e) = entry.source}
    BY <2>1
  <2>. QED
    BY <1>2, <2>2, <2>3 DEF Place
<1>. QED
  BY <1>1, <1>2 DEF Install

LEMMA ServedStays ==
  ASSUME VersionInv, [PublishNext]_publishVars
  PROVE  /\ version' # version => Served \subseteq Served'
         /\ outcome'.is = "installed" =>
              \A d \in DirNames: Loads(d) /\ SourceIn(d) # outcome'.source => dirs'[d] = dirs[d]
<1>1. CASE UNCHANGED catalogVars
  BY <1>1 DEF catalogVars
<1>2. ASSUME NEW key \in DOMAIN index.backends, InstallFromRegistry(key) \/ Update(key)
      PROVE  /\ version' = version
             /\ \A d \in DirNames: Loads(d) /\ SourceIn(d) # outcome'.source => dirs'[d] = dirs[d]
  BY <1>2, InstallsApart DEF InstallFromRegistry, Update, Install
<1>3. ASSUME NEW repo \in Repos, InstallFromRepo(repo)
      PROVE  /\ version' = version
             /\ \A d \in DirNames: Loads(d) /\ SourceIn(d) # outcome'.source => dirs'[d] = dirs[d]
  BY <1>3, InstallsApart DEF InstallFromRepo, Install
<1>4. ASSUME NEW draft, InstallFromDir(draft)
      PROVE  /\ version' = version
             /\ \A d \in DirNames: Loads(d) /\ SourceIn(d) # outcome'.source => dirs'[d] = dirs[d]
  BY <1>4, InstallsApart DEF InstallFromDir, Install
<1>5. ASSUME NEW d \in DirNames, Uninstall(d) \/ \E i \in 1..2: Load(d, i)
      PROVE  version' = version /\ outcome'.is # "installed"
  <2>1. CASE Uninstall(d)
    BY <2>1, ZenonT(60) DEF Uninstall, Nothing
  <2>2. ASSUME NEW i \in 1..2, Load(d, i)
        PROVE  version' = version /\ outcome'.is = "loaded"
    BY <2>2, ZenonT(60) DEF Load
  <2>. QED
    BY <1>5, <2>1, <2>2
<1>6. CASE UpgradeDaemon
  BY <1>6, NewBuildReads DEF UpgradeDaemon, Nothing
<1>7. ASSUME NEW h, ChangeHost(h)
      PROVE  version' = version /\ outcome'.is # "installed"
  BY <1>7 DEF ChangeHost, Nothing
<1>. QED
  BY <1>1, <1>2, <1>3, <1>4, <1>5, <1>6, <1>7 DEF PublishNext, publishVars, SetupNext, ListNext

\* A daemon's upgrade to a build whose contract only grows serves every backend that was
\* served, and an install leaves a directory of another source alone while its manifest
\* keeps this build's rules; one that does not may be replaced (install.rs:623).
THEOREM ServedBackendsStay == PublishSpec => ServedStaysServed
<1>1. PublishInit => VersionInv
  BY DEF PublishInit, CatalogInit, VersionInv
<1>2. VersionInv /\ [PublishNext]_publishVars => VersionInv'
  BY VersionHolds
<1>3. VersionInv /\ [PublishNext]_publishVars =>
        [/\ version' # version => Served \subseteq Served'
         /\ outcome'.is = "installed" =>
              \A d \in DirNames: Loads(d) /\ SourceIn(d) # outcome'.source => dirs'[d] = dirs[d]
        ]_<<indexerVars, catalogVars>>
  BY ServedStays
<1>. QED
  BY <1>1, <1>2, <1>3, PTL DEF PublishSpec, ServedStaysServed

=============================================================================
