--------------------------- MODULE InstallProofs ----------------------------
(***************************************************************************)
(* The three ways software reaches the daemon, for any jobs, callers and   *)
(* bounds.                                                                 *)
(*                                                                         *)
(* The installs: InFlightExact needs only the type of pc beside it, as a   *)
(* job enters InHand by Request alone, which asks for its key to be free,  *)
(* and leaves it by Release or Crash alone, which free it.                 *)
(*                                                                         *)
(* Their directories: nobody is about to remove the copy of a backend that *)
(* wins it (WinnersStay), unless the backend is known to be at risk, and a *)
(* removal of any other copy leaves the winner.  From its rename on a      *)
(* job's own directory is the winner, as nobody else installs its backend  *)
(* (RivalsKnown, JobKnows).                                                *)
(*                                                                         *)
(* The index: one call is past the lock, and a fetch that ended is in      *)
(* memory for whoever queued behind it.                                    *)
(*                                                                         *)
(* The check for a release: the generation counts the conclusions, which   *)
(* are also the writes of the status.                                      *)
(***************************************************************************)
EXTENDS MCInstall, TLAPS

InHand == Handling \union Pipeline
Pcs == {"idle"} \union InHand \union Over

\* pc has its type, and InFlightExact holds.
KeysInv == pc \in [Jobs -> Pcs] /\ InFlightExact

\* A step that moves one busy job on, and another that lets nothing go, both keep the
\* keys as they are.
LEMMA StepKeeps ==
    ASSUME KeysInv, NEW j \in Jobs, pc[j] \in InHand, NEW step \in InHand,
           pc' = [pc EXCEPT ![j] = step], inFlight' = inFlight
    PROVE  KeysInv'
  BY DEF KeysInv, InFlightExact, InHand, Pcs

\* A job that ends frees its key, which no other job holds.
LEMMA ReleaseKeeps ==
    ASSUME KeysInv, NEW j \in Jobs, pc[j] \in InHand, NEW step \in Over, Release(j, step)
    PROVE  KeysInv'
<1>1. pc' = [pc EXCEPT ![j] = step] /\ inFlight' = inFlight \ {Key[j]}
  BY DEF Release, Goto
<1>2. step \notin InHand
  BY DEF Over, InHand, Handling, Pipeline
<1>3. pc' \in [Jobs -> Pcs]
  BY <1>1 DEF KeysInv, Pcs
<1>4. \A k \in inFlight' : \E i \in Jobs : Key[i] = k /\ pc'[i] \in InHand
  BY <1>1 DEF KeysInv, InFlightExact, InHand
<1>5. ASSUME NEW i \in Jobs, pc'[i] \in InHand
      PROVE  /\ Key[i] \in inFlight'
             /\ \A l \in Jobs \ {i} : Key[l] = Key[i] => pc'[l] \notin InHand
  <2>1. i # j /\ pc[i] \in InHand
    BY <1>1, <1>2, <1>5 DEF KeysInv
  <2>2. Key[i] # Key[j] /\ Key[i] \in inFlight
    BY <2>1 DEF KeysInv, InFlightExact, InHand
  <2>3. \A l \in Jobs \ {i} : Key[l] = Key[i] => l # j /\ pc[l] \notin InHand
    BY <2>1, <2>2 DEF KeysInv, InFlightExact, InHand
  <2>. QED
    BY <1>1, <2>2, <2>3 DEF KeysInv
<1>. QED
  BY <1>3, <1>4, <1>5 DEF KeysInv, InFlightExact, InHand

\* A request takes a key that is free, or is refused.
LEMMA RequestKeeps ==
    ASSUME KeysInv, NEW j \in Jobs, Request(j)
    PROVE  KeysInv'
<1>1. CASE Key[j] \in inFlight
  <2>1. pc' = [pc EXCEPT ![j] = "refused"] /\ inFlight' = inFlight /\ pc[j] = "idle"
    BY <1>1 DEF Request, Step, Goto
  <2>. QED
    BY <2>1 DEF KeysInv, InFlightExact, Pcs, InHand, Over, Handling, Pipeline
<1>2. CASE Key[j] \notin inFlight
  <2>1. pc' = [pc EXCEPT ![j] = "resolve"] /\ inFlight' = inFlight \union {Key[j]} /\ pc[j] = "idle"
    BY <1>2 DEF Request, Goto
  <2>2. \A i \in Jobs : Key[i] = Key[j] => pc[i] \notin InHand
    BY <1>2 DEF KeysInv, InFlightExact, InHand
  <2>3. pc' \in [Jobs -> Pcs]
    BY <2>1 DEF KeysInv, Pcs, InHand, Handling
  <2>4. \A i \in Jobs : pc'[i] \in InHand <=> pc[i] \in InHand \/ i = j
    BY <2>1 DEF KeysInv, InHand, Handling, Pipeline
  <2>. QED
    BY <1>2, <2>1, <2>2, <2>3, <2>4 DEF KeysInv, InFlightExact, InHand
<1>. QED
  BY <1>1, <1>2

\* Every step of a job moves it on or ends it.
LEMMA WorkKeeps ==
    ASSUME KeysInv, NEW j \in Jobs, Work(j)
    PROVE  KeysInv'
<1>1. \/ /\ pc[j] \in InHand
         /\ \E step \in InHand : pc' = [pc EXCEPT ![j] = step] /\ inFlight' = inFlight
      \/ pc[j] \in InHand /\ \E step \in Over : Release(j, step)
  <2>. USE DEF InHand, Handling, Pipeline, Over
  <2>1. CASE Resolve(j)
    BY <2>1 DEF Resolve, Step, Goto
  <2>2. CASE Fail(j)
    BY <2>2 DEF Fail
  <2>3. CASE Fetch(j) \/ Wipe(j) \/ Unpack(j) \/ WriteManifest(j)
    BY <2>3 DEF Fetch, Wipe, Unpack, WriteManifest, Step, Goto
  <2>4. CASE Check(j) \/ Carry(j) \/ ClearOld(j) \/ MoveAside(j)
    BY <2>4 DEF Check, Carry, ClearOld, MoveAside, Step, Goto
  <2>5. CASE Place(j)
    BY <2>5 DEF Place, Step, Goto
  <2>6. CASE Rollback(j) \/ Complete(j)
    BY <2>6 DEF Rollback, Complete
  <2>7. CASE DropOld(j) \/ FindOld(j) \/ Retire(j) \/ Refresh(j)
    BY <2>7 DEF DropOld, FindOld, Retire, Refresh, Step, Goto
  <2>. QED
    BY <2>1, <2>2, <2>3, <2>4, <2>5, <2>6, <2>7 DEF Work
<1>. QED
  BY <1>1, StepKeeps, ReleaseKeeps

\* A crash frees every key.
LEMMA CrashKeeps ==
    ASSUME KeysInv, Crash
    PROVE  KeysInv'
<1>1. /\ pc' = [j \in Jobs |-> IF pc[j] \in InHand THEN "dead" ELSE pc[j]]
      /\ inFlight' = {}
  BY DEF Crash, InHand
<1>2. "dead" \in Pcs \ InHand
  BY DEF Pcs, InHand, Over, Handling, Pipeline
<1>. QED
  BY <1>1, <1>2 DEF KeysInv, InFlightExact, InHand

\* A key is in flight exactly while one job with that key is being handled or run
\* (InFlightMarker, InFlightGuard), whatever fails and whenever the daemon is killed.
THEOREM KeysAreExact == Spec => []InFlightExact
<1>1. Init => KeysInv
  BY DEF Init, KeysInv, InFlightExact, Pcs, InHand, Handling, Pipeline
<1>2. KeysInv /\ [Next]_vars => KeysInv'
  <2>. SUFFICES ASSUME KeysInv, [Next]_vars PROVE KeysInv'
    OBVIOUS
  <2>1. CASE \E j \in Jobs : Request(j) \/ Work(j)
    BY <2>1, RequestKeeps, WorkKeeps
  <2>2. CASE Rescan \/ Reconcile \/ RemoveLoser \/ UNCHANGED vars
    BY <2>2 DEF KeysInv, InFlightExact, Rescan, Reconcile, RemoveLoser, vars
  <2>3. CASE Crash
    BY <2>3, CrashKeeps
  <2>. QED
    BY <2>1, <2>2, <2>3 DEF Next
<1>3. KeysInv => InFlightExact
  BY DEF KeysInv
<1>. QED
  BY <1>1, <1>2, <1>3, PTL DEF Spec

-----------------------------------------------------------------------------
\* The directories.

Swapping == {"carry", "clear", "aside"}
Aside == {"replace", "rollback", "drop"}
Placed == {"drop", "retire", "retiring", "refresh", "done"}

DirsTyped ==
    /\ at \in [Paths -> Dir] /\ staging \in [Names \X Versions -> Dir]
    /\ victim \in [Jobs -> Paths \union {NoPath}]
    /\ dupes \subseteq Paths \X Paths /\ doomed \in Paths \union {NoPath}
    /\ exposed \subseteq Sources

\* A directory that serves s, if any, serves a backend that is at risk.
AtRisk(s) == s \in Sources => s \in exposed

\* Nobody is about to remove the copy that wins.
WinnersStay == \A p \in Condemned \intersect Paths : Wins(p) => at[p].source \in exposed

\* Jobs that could disturb each other are known to.
RivalsKnown ==
    \A i, j \in Jobs : i # j /\ pc[i] \in Pipeline /\ pc[j] \in Pipeline /\ SideBySide(i, j) =>
        Source[i] \in exposed /\ Source[j] \in exposed

\* What a job knows of its directory, of its sidecar and of what it staged.
JobKnows(j) ==
    /\ pc[j] \in {"check", "carry", "clear", "aside", "place", "replace"} =>
          \/ staging[Stage(j)] = Manifest(j)
          \/ Source[j] \in exposed /\ AtRisk(staging[Stage(j)].source)
    /\ pc[j] \in Swapping => at[Live(Name[j])].source = Source[j] \/ AtRisk(at[Live(Name[j])].source)
    /\ pc[j] \in Aside => at[Old(Name[j])].source = Source[j] \/ AtRisk(at[Old(Name[j])].source)
    /\ pc[j] \in Placed /\ Source[j] \notin exposed =>
          at[Live(Name[j])] = Manifest(j) /\ Wins(Live(Name[j]))
JobsKnow == \A j \in Jobs : JobKnows(j)

DirsInv == DirsTyped /\ KeysInv /\ WinnersStay /\ RivalsKnown /\ JobsKnow

\* A step after which every backend that was served, and is not at risk, still is.
SourcesStay == \A s \in Sources \ exposed' : Serving(s) # {} => Serving(s)' # {}

LEMMA PathFacts ==
    /\ \A m, n \in Names : /\ Live(m) \in Paths /\ Old(m) \in Paths /\ Live(m) # Old(n)
                           /\ Live(m) = Live(n) <=> m = n
                           /\ Old(m) = Old(n) <=> m = n
    /\ NoPath \notin Paths
    /\ \A j \in Jobs : Live(Name[j]) \in Paths /\ Old(Name[j]) \in Paths
<1>1. /\ \A m \in Names : Live(m) \in Paths /\ Old(m) \in Paths
      /\ \A m, n \in Names : Live(m) # Old(n)
      /\ \A m, n \in Names : Live(m) = Live(n) <=> m = n
      /\ \A m, n \in Names : Old(m) = Old(n) <=> m = n
  BY DEF Paths, Live, Old
<1>2. NoPath \notin Paths
  BY JobsAssumption DEF Paths, NoPath
<1>3. \A j \in Jobs : Name[j] \in Names
  BY JobsAssumption
<1>. QED
  BY <1>1, <1>2, <1>3

LEMMA DirFacts ==
    /\ Absent \in Dir /\ Broken \in Dir
    /\ Absent.source \notin Sources /\ Broken.source \notin Sources
    /\ \A j \in Jobs : /\ Manifest(j) \in Dir /\ Manifest(j).source = Source[j]
                       /\ Source[j] \in Sources /\ Stage(j) \in Names \X Versions
  <1>1. \A j \in Jobs : Source[j] \in Sources /\ Version[j] \in Nat /\ Id[j] \in Nat
                        /\ Stage(j) \in Names \X Versions
    BY JobsAssumption DEF Stage
  <1>2. "none" \notin Sources /\ "absent" \notin Sources
    BY JobsAssumption
  <1>3. Absent.source = "absent" /\ Broken.source = "none"
    BY DEF Absent, Broken
  <1>4. \A j \in Jobs : Manifest(j).source = Source[j] /\ Manifest(j).version = Version[j]
    BY DEF Manifest
  <1>5. Absent \in Dir /\ Broken \in Dir /\ \A j \in Jobs : Manifest(j) \in Dir
    BY <1>1 DEF Absent, Broken, Manifest, Dir
  <1>. QED
    BY <1>1, <1>2, <1>3, <1>4, <1>5

\* dedup_sources compares any two directories, and one way only.
LEMMA BeatsOrders ==
    ASSUME DirsTyped
    PROVE  /\ \A p, q \in Paths : p # q => (Beats(p, q) <=> ~Beats(q, p))
           /\ \A p, q, r \in Paths : p # r /\ Beats(p, q) /\ Beats(q, r) => Beats(p, r)
<1>1. \A p \in Paths : p = <<p[1], p[2]>> /\ p[1] \in Nat /\ p[2] \in {"live", "old"}
  <2>1. ASSUME NEW p \in Paths PROVE p = <<p[1], p[2]>> /\ p[1] \in Nat /\ p[2] \in {"live", "old"}
    <3>1. PICK n \in Names, x \in {"live", "old"} : p = <<n, x>>
      BY DEF Paths
    <3>2. n \in Nat
      BY JobsAssumption
    <3>. QED
      BY <3>1, <3>2
  <2>. QED
    BY <2>1
<1>2. \A p \in Paths : at[p].version \in Nat
  BY DEF DirsTyped, Dir
<1>3. \A p, q \in Paths : p # q => (Before(p, q) <=> ~Before(q, p))
  <2>1. ASSUME NEW p \in Paths, NEW q \in Paths, p # q PROVE p[1] # q[1] \/ p[2] # q[2]
    BY <1>1, <2>1
  <2>2. ASSUME NEW p \in Paths, NEW q \in Paths, p # q PROVE Before(p, q) <=> ~Before(q, p)
    <3>1. /\ p[1] \in Nat /\ q[1] \in Nat /\ p[2] \in {"live", "old"} /\ q[2] \in {"live", "old"}
          /\ p[1] # q[1] \/ p[2] # q[2]
      BY <1>1, <2>1, <2>2
    <3>. QED
      BY <3>1 DEF Before
  <2>. QED
    BY <2>2
<1>4. \A p, q, r \in Paths : Before(p, q) /\ Before(q, r) => Before(p, r)
  <2>1. ASSUME NEW p \in Paths, NEW q \in Paths, NEW r \in Paths, Before(p, q), Before(q, r)
        PROVE  Before(p, r)
    <3>1. p[1] \in Nat /\ q[1] \in Nat /\ r[1] \in Nat
      BY <1>1
    <3>. QED
      BY <2>1, <3>1 DEF Before
  <2>. QED
    BY <2>1
<1>5. \A p \in Paths : IdNamed(p) \in BOOLEAN
  BY DEF IdNamed
<1>6. ASSUME NEW p \in Paths, NEW q \in Paths, p # q PROVE Beats(p, q) <=> ~Beats(q, p)
  <2>1. at[p].version \in Nat /\ at[q].version \in Nat /\ (Before(p, q) <=> ~Before(q, p))
    BY <1>2, <1>3, <1>6
  <2>. QED
    BY <2>1, <1>5 DEF Beats
<1>7. ASSUME NEW p \in Paths, NEW q \in Paths, NEW r \in Paths, p # r, Beats(p, q), Beats(q, r)
      PROVE  Beats(p, r)
  <2>1. /\ at[p].version \in Nat /\ at[q].version \in Nat /\ at[r].version \in Nat
        /\ Before(p, q) /\ Before(q, r) => Before(p, r)
    BY <1>2, <1>4
  <2>. QED
    BY <1>5, <1>7, <2>1 DEF Beats
<1>. QED
  BY <1>6, <1>7

\* A backend has one winner, and a scan finds no other copy of it a winner.
LEMMA OneWinner ==
    DirsTyped =>
        /\ \A p, q \in Paths : Wins(p) /\ Wins(q) /\ at[p].source = at[q].source => p = q
        /\ \A pair \in Losers : pair[1] \in Paths /\ ~Wins(pair[1])
<1>. SUFFICES ASSUME DirsTyped
              PROVE  /\ \A p, q \in Paths : Wins(p) /\ Wins(q) /\ at[p].source = at[q].source => p = q
                     /\ \A pair \in Losers : pair[1] \in Paths /\ ~Wins(pair[1])
  OBVIOUS
<1>1. ASSUME NEW p \in Paths, NEW q \in Paths, Wins(p), Wins(q), at[p].source = at[q].source, p # q
      PROVE  FALSE
  <2>1. Beats(p, q) /\ Beats(q, p)
    BY <1>1 DEF Wins, Serving
  <2>. QED
    BY <1>1, <2>1, BeatsOrders
<1>2. \A pair \in Losers : /\ pair[1] \in Paths /\ pair[2] \in Paths /\ pair[1] # pair[2]
                           /\ Wins(pair[2]) /\ at[pair[1]].source = at[pair[2]].source
  BY DEF Losers
<1>. QED
  BY <1>1, <1>2

-----------------------------------------------------------------------------
\* What a removal of a directory leaves, all or in part.
Emptied(p) ==
    /\ at'[p] = at[p] \/ at'[p].source \notin Sources
    /\ \A q \in Paths \ {p} : at'[q] = at[q]

LEMMA RemoveEmpties ==
    ASSUME DirsTyped, NEW p \in Paths, Remove(p)
    PROVE  Emptied(p)
<1>1. PICK d \in {Absent, Broken, at[p]} : at' = [at EXCEPT ![p] = IF @ = Absent THEN @ ELSE d]
  BY DEF Remove
<1>2. at'[p] \in {Absent, Broken, at[p]} /\ \A q \in Paths \ {p} : at'[q] = at[q]
  BY <1>1 DEF DirsTyped
<1>. QED
  BY <1>2, DirFacts DEF Emptied

\* A removal that spares the winners, but those at risk, takes no last copy and changes no
\* other winner.
LEMMA EmptyKeeps ==
    ASSUME DirsTyped, NEW p \in Paths, Emptied(p), Wins(p) => at[p].source \in exposed'
    PROVE  /\ SourcesStay
           /\ \A r \in Paths : Wins(r)' =>
                 at'[r] = at[r] /\ (Wins(r) \/ at[r].source \in exposed')
           /\ \A r \in Paths : Wins(r) =>
                 at[r].source \in exposed' \/ (at'[r] = at[r] /\ Wins(r)')
<1>1. \A q \in Paths : at'[q] = at[q] \/ (q = p /\ at'[q].source \notin Sources)
  BY DEF Emptied
<1>2. \A s \in Sources : Serving(s)' \subseteq Serving(s) /\ Serving(s) \ {p} \subseteq Serving(s)'
  BY <1>1 DEF Serving
<1>3. \A q, r \in Paths : at'[q] = at[q] /\ at'[r] = at[r] => (Beats(q, r)' <=> Beats(q, r))
  BY DEF Beats, IdNamed, Before
<1>4. ASSUME NEW s \in Sources \ exposed', NEW q \in Serving(s) PROVE Serving(s)' # {}
  <2>1. CASE q # p
    BY <1>2, <2>1
  <2>2. CASE q = p
    <3>1. at[p].source = s /\ ~Wins(p)
      BY <2>2 DEF Serving
    <3>2. Serving(s) \ {p} # {}
      BY <3>1 DEF Wins, Parses
    <3>. QED
      BY <1>2, <3>2
  <2>. QED
    BY <2>1, <2>2
<1>5. ASSUME NEW r \in Paths, Wins(r)'
      PROVE  at'[r] = at[r] /\ (Wins(r) \/ at[r].source \in exposed')
  <2>1. at'[r] = at[r] /\ at[r].source \in Sources /\ Parses(r)
    BY <1>1, <1>5 DEF Wins, Parses
  <2>. DEFINE s == at[r].source
  <2>2. \A q \in Serving(s)' \ {r} : Beats(r, q)
    <3>1. ASSUME NEW q \in Serving(s)' \ {r} PROVE Beats(r, q)
      <4>1. q \in Paths /\ at'[q] = at[q] /\ Beats(r, q)'
        BY <1>1, <1>5, <2>1, <3>1 DEF Wins, Serving
      <4>. QED
        BY <1>3, <2>1, <4>1
    <3>. QED
      BY <3>1
  <2>3. CASE p \notin Serving(s) \ {r}
    <3>1. Serving(s) \ {r} \subseteq Serving(s)' \ {r}
      BY <1>2, <2>1, <2>3
    <3>. QED
      BY <2>1, <2>2, <3>1 DEF Wins
  <2>4. CASE p \in Serving(s) \ {r} /\ Beats(r, p)
    <3>1. Serving(s) \ {r} \subseteq (Serving(s)' \ {r}) \union {p}
      BY <1>2, <2>1, <2>4
    <3>. QED
      BY <2>1, <2>2, <2>4, <3>1 DEF Wins
  <2>5. CASE p \in Serving(s) \ {r} /\ ~Beats(r, p)
    <3>1. Beats(p, r) /\ at[p].source = s /\ p # r
      BY <2>5, BeatsOrders DEF Serving
    <3>2. ASSUME NEW q \in Serving(s) \ {p} PROVE Beats(p, q)
      <4>1. CASE q = r
        BY <3>1, <4>1
      <4>2. CASE q # r
        <5>1. q \in Serving(s)' \ {r} /\ q \in Paths
          BY <1>2, <2>1, <3>2, <4>2 DEF Serving
        <5>2. Beats(r, q)
          BY <2>2, <5>1
        <5>. QED
          BY <3>1, <3>2, <5>1, <5>2, BeatsOrders
      <4>. QED
        BY <4>1, <4>2
    <3>3. Wins(p)
      BY <2>1, <3>1, <3>2 DEF Wins, Parses
    <3>. QED
      BY <2>1, <3>1, <3>3
  <2>. QED
    BY <2>3, <2>4, <2>5
<1>6. ASSUME NEW r \in Paths, Wins(r), at[r].source \notin exposed'
      PROVE  at'[r] = at[r] /\ Wins(r)'
  <2>1. r # p /\ at'[r] = at[r] /\ Parses(r)
    BY <1>1, <1>6 DEF Wins
  <2>. DEFINE s == at[r].source
  <2>2. ASSUME NEW q \in Serving(s)' \ {r} PROVE Beats(r, q)'
    <3>1. s \in Sources
      BY <2>1 DEF Parses
    <3>2. q \in Paths /\ at'[q] = at[q] /\ q \in Serving(s) \ {r}
      BY <1>1, <2>1, <2>2, <3>1 DEF Serving
    <3>. QED
      BY <1>3, <1>6, <2>1, <3>2 DEF Wins
  <2>. QED
    BY <2>1, <2>2 DEF Wins, Parses
<1>. QED
  BY <1>4, <1>5, <1>6 DEF SourcesStay

\* A rename brings what c holds to b, where nothing parsed, and leaves nothing at a, if it
\* was there.
Brought(a, b, c) ==
    /\ b \in Paths /\ ~Parses(b) /\ at'[b] = c
    /\ \A q \in Paths \ {a, b} : at'[q] = at[q]
    /\ a = b \/ (a \in Paths /\ at[a] = c /\ at'[a] = Absent)

\* It loses nothing, and what wins now is what won, or is at risk, or was brought to where
\* nobody removes it; the winners of other backends stay.
LEMMA BringKeeps ==
    ASSUME DirsTyped, DirsTyped', NEW a, NEW b, NEW c, Brought(a, b, c), Brings(b)
    PROVE  /\ SourcesStay /\ exposed \subseteq exposed'
           /\ \A r \in Paths : Wins(r)' =>
                 \/ at'[r].source \in exposed'
                 \/ r = b /\ r \notin Condemned
                 \/ at'[r] = at[r] /\ Wins(r)
           /\ \A r \in Paths : Wins(r) /\ at[r].source # c.source => at'[r] = at[r] /\ Wins(r)'
           /\ c.source \notin Sources \/ c.source \in exposed' \/ Wins(b)'
<1>1. /\ b \in Paths /\ ~Parses(b) /\ at'[b] = c
      /\ \A q \in Paths : q = b \/ at'[q] = at[q] \/ (q = a /\ at[a] = c /\ at'[a] = Absent)
  BY DEF Brought
<1>2. \A s \in Sources : s # c.source => Serving(s)' = Serving(s)
  BY <1>1, DirFacts DEF Serving, Parses
<1>3. \A q, r \in Paths : at'[q] = at[q] /\ at'[r] = at[r] => (Beats(q, r)' <=> Beats(q, r))
  BY DEF Beats, IdNamed, Before
<1>4. exposed \subseteq exposed'
  BY DEF Brings
<1>5. SourcesStay
  <2>1. c.source \in Sources => b \in Serving(c.source)'
    BY <1>1 DEF Serving
  <2>. QED
    BY <1>2, <2>1 DEF SourcesStay
<1>6. c.source \notin Sources \/ c.source \in exposed' \/ (Wins(b)' /\ b \notin Condemned)
  BY <1>1 DEF Brings
<1>7. ASSUME NEW r \in Paths, NEW s \in Sources, s # c.source
      PROVE  /\ at'[r].source = s <=> at[r].source = s
             /\ at[r].source = s => at'[r] = at[r]
  BY <1>1, <1>7, DirFacts DEF Parses
<1>8. ASSUME NEW r \in Paths, Parses(r), at[r].source # c.source
      PROVE  Wins(r)' <=> Wins(r)
  <2>. DEFINE s == at[r].source
  <2>1. s \in Sources /\ s # c.source /\ at'[r] = at[r] /\ Serving(s)' = Serving(s)
    BY <1>2, <1>7, <1>8 DEF Parses
  <2>2. \A q \in Serving(s) : q \in Paths /\ at'[q] = at[q]
    BY <1>7, <2>1 DEF Serving
  <2>3. \A q \in Serving(s) : Beats(r, q)' <=> Beats(r, q)
    BY <1>3, <2>1, <2>2
  <2>4. Wins(r)' <=> Parses(r)' /\ \A q \in Serving(s)' \ {r} : Beats(r, q)'
    BY <2>1 DEF Wins
  <2>5. Wins(r) <=> Parses(r) /\ \A q \in Serving(s) \ {r} : Beats(r, q)
    BY DEF Wins
  <2>6. Parses(r)'
    BY <2>1 DEF Parses
  <2>. QED
    BY <1>8, <2>1, <2>3, <2>4, <2>5, <2>6
<1>9. ASSUME NEW r \in Paths, Wins(r)'
      PROVE  \/ at'[r].source \in exposed'
             \/ r = b /\ r \notin Condemned
             \/ at'[r] = at[r] /\ Wins(r)
  <2>1. at'[r].source \in Sources
    BY <1>9 DEF Wins, Parses
  <2>2. CASE at'[r].source # c.source
    <3>1. at[r].source = at'[r].source /\ at'[r] = at[r] /\ Parses(r)
      BY <1>7, <2>1, <2>2 DEF Parses
    <3>. QED
      BY <1>8, <1>9, <2>2, <3>1
  <2>3. CASE at'[r].source = c.source /\ c.source \notin exposed'
    <3>1. Wins(b)' /\ b \notin Condemned /\ at'[b].source = at'[r].source
      BY <1>1, <1>6, <2>1, <2>3
    <3>2. (\A p, q \in Paths : Wins(p) /\ Wins(q) /\ at[p].source = at[q].source => p = q)'
      BY OneWinner, PTL
    <3>3. r = b
      BY <1>1, <1>9, <3>1, <3>2
    <3>. QED
      BY <3>1, <3>3
  <2>. QED
    BY <2>2, <2>3
<1>. QED
  BY <1>4, <1>5, <1>6, <1>7, <1>8, <1>9 DEF Wins, Parses

-----------------------------------------------------------------------------
LEMMA NextTyped ==
    ASSUME DirsTyped, KeysInv, [Next]_vars
    PROVE  DirsTyped'
<1>. USE DEF DirsTyped
<1>1. \A j \in Jobs : /\ Live(Name[j]) \in Paths /\ Old(Name[j]) \in Paths
                      /\ Stage(j) \in Names \X Versions /\ Manifest(j) \in Dir /\ Source[j] \in Sources
  BY PathFacts, DirFacts
<1>2. Absent \in Dir /\ Broken \in Dir
  BY DirFacts
<1>3. ASSUME NEW j \in Jobs, Work(j)
      PROVE  DirsTyped'
  <2>1. CASE Fail(j) \/ Fetch(j) \/ Check(j) \/ Carry(j) \/ Complete(j)
    BY <1>1, <2>1 DEF Fail, Fetch, Check, Carry, Complete, Step, Release
  <2>9. CASE Resolve(j)
    <3>1. exposed' \subseteq Sources
      <4>1. UNION {{Source[i], Source[j]} :
                      i \in {i \in Jobs \ {j} : pc[i] \in Pipeline /\ SideBySide(i, j)}} \subseteq Sources
        BY <1>1
      <4>. QED
        BY <2>9, <4>1 DEF Resolve, Joins
    <3>. QED
      BY <2>9, <3>1 DEF Resolve, Step, Release
  <2>2. CASE Wipe(j) \/ Unpack(j) \/ WriteManifest(j)
    BY <1>1, <1>2, <2>2 DEF Wipe, Unpack, WriteManifest, Staged, Step
  <2>3. CASE ClearOld(j) \/ DropOld(j)
    BY <1>1, <1>2, <2>3 DEF ClearOld, DropOld, Remove, Step, Clears, Wins, Parses
  <2>4. CASE MoveAside(j) \/ Rollback(j)
    BY <1>1, <1>2, <2>4 DEF MoveAside, Rollback, Rename, Step, Release, Brings
  <2>5. CASE Place(j)
    <3>1. staging[Stage(j)] \in Dir
      BY <1>1
    <3>2. \/ /\ at' = [at EXCEPT ![Live(Name[j])] = staging[Stage(j)]]
             /\ staging' = [staging EXCEPT ![Stage(j)] = Absent]
          \/ at' = at /\ staging' = staging
      BY <2>5 DEF Place, Staged
    <3>3. victim' = victim /\ dupes' = dupes /\ doomed' = doomed /\ exposed' \subseteq Sources
      BY <2>5 DEF Place, Step, Brings
    <3>4. at' \in [Paths -> Dir]
      BY <1>1, <3>1, <3>2
    <3>5. staging' \in [Names \X Versions -> Dir]
      BY <1>1, <1>2, <3>2
    <3>. QED
      BY <3>3, <3>4, <3>5
  <2>6. CASE FindOld(j)
    BY <2>6 DEF FindOld, Serving, Step
  <2>7. CASE Retire(j)
    <3>1. PICK d \in {Absent, Broken, at[victim[j]]} :
              at' = [at EXCEPT ![victim[j]] = IF @ = Absent THEN @ ELSE d]
      BY <2>7 DEF Retire, Remove
    <3>2. at' \in [Paths -> Dir]
      <4>1. CASE victim[j] \in Paths
        BY <1>2, <3>1, <4>1
      <4>2. CASE victim[j] \notin Paths
        BY <3>1, <4>2
      <4>. QED
        BY <4>1, <4>2
    <3>. QED
      BY <2>7, <3>2 DEF Retire
  <2>8. CASE Refresh(j)
    BY <2>8 DEF Refresh, Losers, Step
  <2>. QED
    BY <1>3, <2>1, <2>2, <2>3, <2>4, <2>5, <2>6, <2>7, <2>8, <2>9 DEF Work
<1>4. CASE \E j \in Jobs : Request(j)
  BY <1>4 DEF Request, Step
<1>5. CASE Rescan \/ Reconcile \/ Crash
  BY <1>5 DEF Rescan, Reconcile, Crash, Losers
<1>6. CASE RemoveLoser
  BY <1>2, <1>6 DEF RemoveLoser, Remove
<1>7. CASE UNCHANGED vars
  BY <1>7 DEF vars
<1>. QED
  BY <1>3, <1>4, <1>5, <1>6, <1>7 DEF Next

\* A step of a job leaves the others where they are, and touches one staging directory.
LEMMA WorkMoves ==
    ASSUME DirsTyped, KeysInv, NEW j \in Jobs, Work(j)
    PROVE  /\ pc[j] \in InHand /\ exposed \subseteq exposed'
           /\ \A i \in Jobs \ {j} : pc'[i] = pc[i] /\ victim'[i] = victim[i]
           /\ pc[j] \in Pipeline \/ (at' = at /\ staging' = staging)
           /\ pc'[j] \in Pipeline => pc[j] \in Pipeline \/ Joins(j)
           /\ \A st \in Names \X Versions : staging'[st] = staging[st] \/ st = Stage(j)
           /\ staging'[Stage(j)] \in {Absent, Broken, Manifest(j), staging[Stage(j)]}
<1>. USE DEF InHand, Handling, Pipeline, Over, DirsTyped
<1>1. pc \in [Jobs -> Pcs] /\ Stage(j) \in Names \X Versions
  BY DirFacts DEF KeysInv
<1>2. CASE Resolve(j)
  BY <1>1, <1>2 DEF Resolve, Step, Goto, Release, Joins
<1>3. CASE Fail(j) \/ Fetch(j) \/ Check(j) \/ Carry(j) \/ Complete(j)
  BY <1>1, <1>3 DEF Fail, Fetch, Check, Carry, Complete, Step, Goto, Release
<1>4. CASE Wipe(j) \/ Unpack(j) \/ WriteManifest(j)
  <2>1. exposed' = exposed /\ pc' = [pc EXCEPT ![j] = pc'[j]] /\ victim' = victim /\ pc[j] \in Pipeline
    BY <1>1, <1>4 DEF Wipe, Unpack, WriteManifest, Step, Goto
  <2>2. \E d \in {Absent, Broken, Manifest(j), staging[Stage(j)]} : Staged(j, d)
    BY <1>4 DEF Wipe, Unpack, WriteManifest
  <2>. QED
    BY <1>1, <2>1, <2>2 DEF Staged
<1>5. CASE ClearOld(j) \/ MoveAside(j) \/ Rollback(j) \/ DropOld(j)
  <2>1. staging' = staging /\ victim' \in {victim, [victim EXCEPT ![j] = NoPath]}
    BY <1>5 DEF ClearOld, MoveAside, Rollback, DropOld, Step, Release
  <2>2. exposed \subseteq exposed'
    BY <1>5 DEF ClearOld, MoveAside, Rollback, DropOld, Clears, Brings
  <2>3. pc[j] \in Pipeline /\ \A i \in Jobs \ {j} : pc'[i] = pc[i]
    BY <1>1, <1>5 DEF ClearOld, MoveAside, Rollback, DropOld, Step, Release, Goto
  <2>. QED
    BY <1>1, <2>1, <2>2, <2>3
<1>6. CASE Place(j)
  <2>1. exposed \subseteq exposed' /\ victim' = victim
    BY <1>6 DEF Place, Brings, Step
  <2>2. staging' = [staging EXCEPT ![Stage(j)] = Absent] \/ staging' = staging
    BY <1>6 DEF Place, Staged
  <2>3. pc[j] \in Pipeline /\ \A i \in Jobs \ {j} : pc'[i] = pc[i]
    BY <1>1, <1>6 DEF Place, Step, Goto
  <2>. QED
    BY <1>1, <2>1, <2>2, <2>3
<1>7. CASE FindOld(j) \/ Retire(j) \/ Refresh(j)
  <2>1. staging' = staging /\ exposed' = exposed /\ pc[j] \in Pipeline
    BY <1>7 DEF FindOld, Retire, Refresh
  <2>2. \A i \in Jobs \ {j} : pc'[i] = pc[i] /\ victim'[i] = victim[i]
    BY <1>1, <1>7 DEF FindOld, Retire, Refresh, Step, Goto
  <2>. QED
    BY <1>1, <2>1, <2>2
<1>. QED
  BY <1>2, <1>3, <1>4, <1>5, <1>6, <1>7 DEF Work

\* A job that joins others it could disturb makes it known.
LEMMA RivalsStay ==
    ASSUME DirsTyped, KeysInv, RivalsKnown, NEW j \in Jobs, Work(j)
    PROVE  RivalsKnown'
<1>1. /\ exposed \subseteq exposed'
      /\ \A i \in Jobs \ {j} : pc'[i] = pc[i]
      /\ pc'[j] \in Pipeline => pc[j] \in Pipeline \/ Joins(j)
  BY WorkMoves
<1>2. ASSUME NEW i \in Jobs \ {j}, pc'[i] \in Pipeline, pc'[j] \in Pipeline, SideBySide(i, j)
      PROVE  Source[i] \in exposed' /\ Source[j] \in exposed'
  <2>1. CASE pc[j] \in Pipeline
    BY <1>1, <1>2, <2>1 DEF RivalsKnown
  <2>2. CASE Joins(j)
    <3>1. {Source[i], Source[j]} \subseteq exposed'
      BY <1>1, <1>2, <2>2, Zenon DEF Joins
    <3>. QED
      BY <3>1
  <2>. QED
    BY <1>1, <1>2, <2>1, <2>2
<1>3. \A i, k \in Jobs : SideBySide(i, k) <=> SideBySide(k, i)
  BY DEF SideBySide
<1>4. ASSUME NEW i \in Jobs, NEW k \in Jobs, i # k, pc'[i] \in Pipeline, pc'[k] \in Pipeline, SideBySide(i, k)
      PROVE  Source[i] \in exposed' /\ Source[k] \in exposed'
  <2>1. CASE i = j
    BY <1>2, <1>3, <1>4, <2>1
  <2>2. CASE k = j
    BY <1>2, <1>4, <2>2
  <2>3. CASE i # j /\ k # j
    BY <1>1, <1>4, <2>3 DEF RivalsKnown
  <2>. QED
    BY <2>1, <2>2, <2>3
<1>. QED
  BY <1>4 DEF RivalsKnown, SideBySide

\* What another job knows stays true, if its directory stays the winner and its paths get
\* nothing but its own backend or one at risk.
LEMMA OthersKnow ==
    ASSUME DirsTyped, KeysInv, RivalsKnown, JobsKnow, NEW j \in Jobs, Work(j),
           NEW i \in Jobs \ {j},
           pc[i] \in Pipeline => \A p \in {Live(Name[i]), Old(Name[i])} :
               at'[p] = at[p] \/ (at'[p].source \in Sources => at'[p].source \in exposed'),
           pc[i] \in Placed /\ Source[i] \notin exposed' =>
               at'[Live(Name[i])] = at[Live(Name[i])] /\ Wins(Live(Name[i]))'
    PROVE  JobKnows(i)'
<1>. USE DEF Swapping, Aside, Placed, Pipeline, AtRisk
<1>1. /\ exposed \subseteq exposed' /\ pc'[i] = pc[i] /\ JobKnows(i)
      /\ \A st \in Names \X Versions : staging'[st] = staging[st] \/ st = Stage(j)
      /\ staging'[Stage(j)] \in {Absent, Broken, Manifest(j), staging[Stage(j)]}
      /\ pc[j] \in Pipeline \/ staging' = staging
      /\ Stage(i) \in Names \X Versions
  BY WorkMoves, DirFacts DEF JobsKnow
<1>2. CASE pc[i] \in {"check", "carry", "clear", "aside", "place", "replace"} /\ staging'[Stage(i)] # staging[Stage(i)]
  <2>1. Stage(i) = Stage(j) /\ pc[j] \in Pipeline
    BY <1>1, <1>2
  <2>2. Source[i] \in exposed /\ Source[j] \in exposed
    <3>1. Name[i] = Name[j]
      BY <2>1 DEF Stage
    <3>. QED
      BY <1>2, <2>1, <3>1 DEF RivalsKnown, SideBySide
  <2>3. staging'[Stage(i)].source \in Sources => staging'[Stage(i)].source \in exposed
    BY <1>1, <1>2, <2>1, <2>2, DirFacts
  <2>. QED
    BY <1>1, <1>2, <2>2, <2>3 DEF JobKnows
<1>3. CASE ~(pc[i] \in {"check", "carry", "clear", "aside", "place", "replace"} /\ staging'[Stage(i)] # staging[Stage(i)])
  BY <1>1, <1>3 DEF JobKnows
<1>. QED
  BY <1>2, <1>3

\* While the directories stay as they are, so do the winners.
LEMMA SameWinners ==
    ASSUME at' = at
    PROVE  /\ \A p \in Paths : Wins(p)' <=> Wins(p)
           /\ Losers' = Losers /\ SourcesStay
<1>1. /\ \A p, q \in Paths : Beats(p, q)' <=> Beats(p, q)
      /\ \A s : Serving(s)' = Serving(s)
      /\ \A p \in Paths : Parses(p)' <=> Parses(p)
  BY DEF Beats, IdNamed, Before, Serving, Parses
<1>2. \A p \in Paths : Wins(p)' <=> Wins(p)
  BY <1>1 DEF Wins, Serving
<1>. QED
  BY <1>1, <1>2 DEF Losers, SourcesStay

\* The steps of a job that leave the directories as they are.
QuietWork(j) ==
    \/ Resolve(j) \/ Fail(j) \/ Fetch(j) \/ Wipe(j) \/ Unpack(j) \/ WriteManifest(j)
    \/ Check(j) \/ Carry(j) \/ FindOld(j) \/ Refresh(j) \/ Complete(j)
    \/ ClearOld(j) /\ at[Live(Name[j])] = Absent
    \/ Place(j) /\ at' = at

\* What such a step lets its own job know.
LEMMA QuietKnows ==
    ASSUME KeysInv, DirsTyped, JobsKnow, NEW j \in Jobs, QuietWork(j), at' = at
    PROVE  JobKnows(j)'
<1>. USE DEF Swapping, Aside, Placed, AtRisk
<1>1. JobKnows(j) /\ pc \in [Jobs -> Pcs]
  BY DEF JobsKnow, KeysInv
<1>2. /\ Stage(j) \in Names \X Versions /\ Source[j] \in Sources
      /\ Live(Name[j]) \in Paths /\ Old(Name[j]) \in Paths
      /\ Wins(Live(Name[j]))' <=> Wins(Live(Name[j]))
  BY DirFacts, PathFacts, SameWinners
<1>3. CASE Resolve(j) \/ Fail(j) \/ Fetch(j) \/ Complete(j)
  <2>1. pc'[j] \in {"stage", "fetch", "refused", "failed", "completed"}
    BY <1>1, <1>3 DEF Resolve, Fail, Fetch, Complete, Step, Goto, Release
  <2>. QED
    BY <2>1 DEF JobKnows
<1>4. CASE Wipe(j) \/ Unpack(j)
  <2>1. pc'[j] \in {"unpack", "manifest"}
    BY <1>1, <1>4 DEF Wipe, Unpack, Step, Goto
  <2>. QED
    BY <2>1 DEF JobKnows
<1>5. CASE WriteManifest(j)
  <2>1. pc'[j] = "check" /\ staging'[Stage(j)] = Manifest(j)
    BY <1>1, <1>2, <1>5 DEF WriteManifest, Step, Goto, Staged, DirsTyped
  <2>. QED
    BY <2>1 DEF JobKnows
<1>6. CASE Check(j)
  <2>1. pc'[j] = "carry" /\ pc[j] = "check" /\ staging' = staging /\ exposed' = exposed
    BY <1>1, <1>6 DEF Check, Step, Goto
  <2>2. at[Live(Name[j])].source = Source[j] \/ at[Live(Name[j])].source \notin Sources
    BY <1>6 DEF Check, Parses
  <2>. QED
    BY <1>1, <2>1, <2>2 DEF JobKnows
<1>7. CASE Carry(j)
  <2>1. pc'[j] = "clear" /\ pc[j] = "carry" /\ staging' = staging /\ exposed' = exposed
    BY <1>1, <1>7 DEF Carry, Step, Goto
  <2>. QED
    BY <1>1, <2>1 DEF JobKnows
<1>8. CASE ClearOld(j) /\ at[Live(Name[j])] = Absent
  <2>1. pc'[j] = "place" /\ pc[j] = "clear" /\ staging' = staging /\ exposed' = exposed
    BY <1>1, <1>8 DEF ClearOld, Step, Goto
  <2>. QED
    BY <1>1, <2>1 DEF JobKnows
<1>9. CASE Place(j) /\ at' = at /\ pc'[j] # "rollback"
  <2>1. /\ pc[j] \in {"place", "replace"} /\ pc'[j] \in {"retire", "drop"}
        /\ pc'[j] = "drop" => pc[j] = "replace"
        /\ at'[Live(Name[j])] = staging[Stage(j)] /\ Brings(Live(Name[j]))
    BY <1>1, <1>2, <1>9 DEF Place, Step, Goto, DirsTyped
  <2>2. exposed \subseteq exposed'
    BY <2>1 DEF Brings
  <2>3. Source[j] \notin exposed' => staging[Stage(j)] = Manifest(j)
    BY <1>1, <2>1, <2>2 DEF JobKnows
  <2>4. Source[j] \notin exposed' => Wins(Live(Name[j]))'
    BY <1>2, <2>1, <2>3, DirFacts DEF Brings
  <2>. QED
    BY <1>1, <2>1, <2>2, <2>3, <2>4 DEF JobKnows
<1>10. CASE Place(j) /\ at' = at /\ pc'[j] = "rollback"
  <2>1. pc[j] = "replace" /\ staging' = staging /\ exposed' = exposed
    BY <1>1, <1>10 DEF Place, Step, Goto
  <2>. QED
    BY <1>1, <1>10, <2>1 DEF JobKnows
<1>11. CASE FindOld(j) \/ Refresh(j)
  <2>1. pc[j] \in Placed /\ pc'[j] \in {"retiring", "refresh", "done"} /\ exposed' = exposed
    BY <1>1, <1>11 DEF FindOld, Refresh, Step, Goto
  <2>. QED
    BY <1>1, <1>2, <2>1 DEF JobKnows
<1>. QED
  BY <1>3, <1>4, <1>5, <1>6, <1>7, <1>8, <1>9, <1>10, <1>11 DEF QuietWork

\* The lists grow by losers only, and by the predecessor of a job that wins.
LEMMA QuietKeeps ==
    ASSUME KeysInv, DirsTyped, RivalsKnown, JobsKnow, WinnersStay, NEW j \in Jobs, QuietWork(j)
    PROVE  WinnersStay' /\ JobsKnow' /\ SourcesStay
<1>1. Work(j) /\ at' = at
  BY DEF QuietWork, Work, Resolve, Fail, Fetch, Wipe, Unpack, WriteManifest, Check, Carry, FindOld,
         Refresh, Complete, ClearOld
<1>2. /\ exposed \subseteq exposed'
      /\ \A i \in Jobs \ {j} : pc'[i] = pc[i] /\ victim'[i] = victim[i]
  BY <1>1, WorkMoves
<1>3. SourcesStay /\ \A p \in Paths : Wins(p)' <=> Wins(p)
  BY <1>1, SameWinners
<1>4. ASSUME NEW i \in Jobs \ {j}
      PROVE  JobKnows(i)'
  <2>1. pc[i] \in Placed /\ Source[i] \notin exposed' => Wins(Live(Name[i]))'
    BY <1>2, <1>3, PathFacts DEF JobsKnow, JobKnows
  <2>. QED
    BY <1>1, <2>1, OthersKnow
<1>5. JobsKnow'
  BY <1>1, <1>4, QuietKnows DEF JobsKnow
<1>6. /\ doomed' = doomed /\ dupes' \subseteq dupes \union Losers
      /\ \/ victim'[j] \in {victim[j], NoPath}
         \/ victim'[j] \in Serving(Source[j]) \ {Live(Name[j])} /\ pc[j] \in Placed
  <2>. USE DEF DirsTyped
  <2>1. CASE Resolve(j) \/ Fail(j) \/ Fetch(j) \/ Complete(j)
    BY <2>1 DEF Resolve, Fail, Fetch, Complete, Step, Release
  <2>2. CASE Wipe(j) \/ Unpack(j) \/ WriteManifest(j) \/ Check(j) \/ Carry(j) \/ Refresh(j)
    BY <2>2 DEF Wipe, Unpack, WriteManifest, Check, Carry, Refresh, Step
  <2>3. CASE ClearOld(j) \/ Place(j)
    BY <2>3 DEF ClearOld, Place, Step
  <2>4. CASE FindOld(j)
    BY <2>4 DEF FindOld, Step, Placed
  <2>. QED
    BY <2>1, <2>2, <2>3, <2>4 DEF QuietWork
<1>7. ASSUME NEW p \in Condemned' \intersect Paths, Wins(p)
      PROVE  at[p].source \in exposed'
  <2>1. \/ p \in Condemned
        \/ \E pair \in Losers : p = pair[1]
        \/ p \in Serving(Source[j]) \ {Live(Name[j])} /\ pc[j] \in Placed
    <3>1. p # NoPath
      BY <1>7, PathFacts
    <3>. QED
      BY <1>2, <1>6, <1>7, <3>1 DEF Condemned
  <2>2. CASE p \in Condemned
    BY <1>2, <1>7, <2>2 DEF WinnersStay
  <2>3. CASE \E pair \in Losers : p = pair[1]
    BY <1>7, <2>3, OneWinner
  <2>4. CASE p \in Serving(Source[j]) \ {Live(Name[j])} /\ pc[j] \in Placed
    <3>1. Source[j] \in exposed
      <4>1. SUFFICES ASSUME Source[j] \notin exposed PROVE FALSE
        OBVIOUS
      <4>2. Wins(Live(Name[j])) /\ at[Live(Name[j])].source = Source[j]
        BY <2>4, <4>1, DirFacts DEF JobsKnow, JobKnows
      <4>. QED
        BY <1>7, <2>4, <4>2, OneWinner, PathFacts DEF Serving
    <3>. QED
      BY <1>2, <2>4, <3>1 DEF Serving
  <2>. QED
    BY <2>1, <2>2, <2>3, <2>4
<1>8. WinnersStay'
  BY <1>1, <1>3, <1>7 DEF WinnersStay
<1>. QED
  BY <1>3, <1>5, <1>8

\* The steps of a job that empty a directory: a stale sidecar, the one it put aside, and its
\* predecessor.
LEMMA EmptyingKeeps ==
    ASSUME KeysInv, DirsTyped, RivalsKnown, JobsKnow, WinnersStay, NEW j \in Jobs,
           (ClearOld(j) /\ at[Live(Name[j])] # Absent) \/ DropOld(j) \/ Retire(j)
    PROVE  WinnersStay' /\ JobsKnow' /\ SourcesStay
<1>. USE DEF Swapping, Aside, Placed, AtRisk
<1>1. Work(j) /\ pc \in [Jobs -> Pcs] /\ JobKnows(j)
  BY DEF Work, KeysInv, JobsKnow
<1>2. /\ exposed \subseteq exposed'
      /\ \A i \in Jobs \ {j} : pc'[i] = pc[i] /\ victim'[i] = victim[i]
  BY <1>1, WorkMoves
<1>3. /\ Live(Name[j]) \in Paths /\ Old(Name[j]) \in Paths /\ Live(Name[j]) # Old(Name[j])
      /\ Source[j] \in Sources /\ Manifest(j).source = Source[j]
  BY PathFacts, DirFacts, JobsAssumption
<1>4. CASE Retire(j) /\ victim[j] \notin Paths
  <2>1. at' = at /\ dupes' = dupes /\ doomed' = doomed /\ exposed' = exposed /\ staging' = staging
        /\ victim'[j] = NoPath /\ pc'[j] = "refresh" /\ pc[j] = "retiring"
    <3>1. at' = at
      BY <1>4 DEF Retire, Remove, DirsTyped
    <3>. QED
      BY <1>1, <1>4, <3>1 DEF Retire, Goto, DirsTyped
  <2>2. SourcesStay /\ \A p \in Paths : Wins(p)' <=> Wins(p)
    BY <2>1, SameWinners
  <2>3. \A i \in Jobs \ {j} : JobKnows(i)'
    <3>1. \A i \in Jobs \ {j} : pc[i] \in Placed /\ Source[i] \notin exposed' => Wins(Live(Name[i]))'
      BY <1>2, <2>2, PathFacts DEF JobsKnow, JobKnows
    <3>. QED
      BY <1>1, <2>1, <3>1, OthersKnow
  <2>4. JobKnows(j)'
    BY <1>1, <1>3, <2>1, <2>2 DEF JobKnows
  <2>5. Condemned' \intersect Paths \subseteq Condemned
    BY <1>2, <2>1, PathFacts DEF Condemned
  <2>. QED
    BY <2>1, <2>2, <2>3, <2>4, <2>5 DEF WinnersStay, JobsKnow
<1>5. CASE ~(Retire(j) /\ victim[j] \notin Paths)
  <2>1. PICK p \in Paths :
            /\ Remove(p) /\ dupes' = dupes /\ doomed' = doomed /\ staging' = staging
            /\ Wins(p) => at[p].source \in exposed'
            /\ victim'[j] \in {victim[j], NoPath}
    <3>1. CASE ClearOld(j) /\ at[Live(Name[j])] # Absent
      <4>1. Remove(Old(Name[j])) /\ Clears(Old(Name[j]))
        BY <3>1 DEF ClearOld
      <4>2. Wins(Old(Name[j])) => at[Old(Name[j])].source \in exposed'
        BY <4>1 DEF Clears
      <4>. QED
        BY <1>3, <3>1, <4>1, <4>2 DEF ClearOld, Step
    <3>2. CASE DropOld(j)
      <4>1. Remove(Old(Name[j])) /\ pc[j] = "drop" /\ exposed' = exposed
        BY <3>2 DEF DropOld
      <4>2. Wins(Old(Name[j])) => at[Old(Name[j])].source \in exposed
        <5>1. SUFFICES ASSUME Wins(Old(Name[j])), at[Old(Name[j])].source \notin exposed PROVE FALSE
          OBVIOUS
        <5>2. at[Old(Name[j])].source = Source[j]
          BY <1>1, <4>1, <5>1 DEF JobKnows, Wins, Parses
        <5>3. Wins(Live(Name[j])) /\ at[Live(Name[j])].source = Source[j]
          BY <1>1, <1>3, <4>1, <5>1, <5>2 DEF JobKnows
        <5>. QED
          BY <1>3, <5>1, <5>2, <5>3, OneWinner
      <4>. QED
        BY <1>3, <3>2, <4>1, <4>2 DEF DropOld, Step
    <3>3. CASE Retire(j) /\ victim[j] \in Paths
      <4>1. Remove(victim[j]) /\ exposed' = exposed /\ victim'[j] = NoPath
        BY <3>3 DEF Retire, DirsTyped
      <4>2. Wins(victim[j]) => at[victim[j]].source \in exposed
        BY <3>3 DEF WinnersStay, Condemned
      <4>. QED
        BY <3>3, <4>1, <4>2 DEF Retire
    <3>. QED
      BY <1>5, <3>1, <3>2, <3>3
  <2>2. Emptied(p)
    BY <2>1, RemoveEmpties
  <2>3. /\ SourcesStay
        /\ \A r \in Paths : Wins(r)' => at'[r] = at[r] /\ (Wins(r) \/ at[r].source \in exposed')
        /\ \A r \in Paths : Wins(r) => at[r].source \in exposed' \/ (at'[r] = at[r] /\ Wins(r)')
    BY <2>1, <2>2, EmptyKeeps
  <2>4. \A r \in Paths : at'[r] = at[r] \/ at'[r].source \notin Sources
    BY <2>2 DEF Emptied
  <2>5. ASSUME NEW i \in Jobs, pc[i] \in Placed, Source[i] \notin exposed'
        PROVE  at'[Live(Name[i])] = at[Live(Name[i])] /\ Wins(Live(Name[i]))'
    <3>1. Wins(Live(Name[i])) /\ at[Live(Name[i])].source = Source[i]
      BY <1>2, <2>5, DirFacts DEF JobsKnow, JobKnows
    <3>. QED
      BY <2>3, <2>5, <3>1, PathFacts
  <2>6. \A i \in Jobs \ {j} : JobKnows(i)'
    <3>1. \A i \in Jobs : Live(Name[i]) \in Paths /\ Old(Name[i]) \in Paths
      BY PathFacts
    <3>2. \A i \in Jobs : \A r \in {Live(Name[i]), Old(Name[i])} :
              at'[r] = at[r] \/ (at'[r].source \in Sources => at'[r].source \in exposed')
      BY <2>4, <3>1
    <3>. QED
      BY <1>1, <2>5, <3>2, OthersKnow
  <2>7. JobKnows(j)'
    <3>1. \/ pc[j] = "clear" /\ pc'[j] = "aside"
          \/ pc[j] \in {"drop", "retiring"} /\ pc'[j] \in {"retire", "refresh"}
      BY <1>1 DEF ClearOld, DropOld, Retire, Step, Goto
    <3>2. CASE pc[j] = "clear"
      BY <1>1, <1>2, <1>3, <2>1, <2>4, <3>1, <3>2 DEF JobKnows
    <3>3. CASE pc[j] \in {"drop", "retiring"} /\ pc'[j] \in {"retire", "refresh"}
      BY <1>1, <1>2, <2>5, <3>3 DEF JobKnows
    <3>. QED
      BY <3>1, <3>2, <3>3
  <2>8. Condemned' \intersect Paths \subseteq Condemned
    BY <1>2, <2>1, PathFacts DEF Condemned
  <2>9. WinnersStay'
    BY <1>2, <2>3, <2>8 DEF WinnersStay
  <2>. QED
    BY <2>3, <2>6, <2>7, <2>9 DEF JobsKnow
<1>. QED
  BY <1>4, <1>5

\* The renames of a job: its directory to the sidecar and back, and staging to the directory.
LEMMA BringingKeeps ==
    ASSUME KeysInv, DirsTyped, DirsTyped', RivalsKnown, JobsKnow, WinnersStay, NEW j \in Jobs,
           MoveAside(j) \/ Rollback(j) \/ Place(j), ~QuietWork(j)
    PROVE  WinnersStay' /\ JobsKnow' /\ SourcesStay
<1>. USE DEF Swapping, Aside, Placed, AtRisk
<1>1. Work(j) /\ pc \in [Jobs -> Pcs] /\ JobKnows(j)
  BY DEF Work, KeysInv, JobsKnow
<1>2. /\ exposed \subseteq exposed'
      /\ \A i \in Jobs \ {j} : pc'[i] = pc[i] /\ victim'[i] = victim[i]
  BY <1>1, WorkMoves
<1>3. /\ Live(Name[j]) \in Paths /\ Old(Name[j]) \in Paths /\ Live(Name[j]) # Old(Name[j])
      /\ Source[j] \in Sources /\ Manifest(j).source = Source[j] /\ Stage(j) \in Names \X Versions
  BY PathFacts, DirFacts, JobsAssumption
<1>4. PICK a \in {Live(Name[j]), Old(Name[j])}, b \in {Live(Name[j]), Old(Name[j])}, c \in Dir :
          /\ Brought(a, b, c) /\ Brings(b)
          /\ c.source = Source[j] \/ AtRisk(c.source)
          /\ dupes' = dupes /\ doomed' = doomed /\ victim'[j] \in {victim[j], NoPath}
          /\ pc[j] \in Pipeline
          /\ \/ pc[j] = "aside" /\ pc'[j] = "replace" /\ b = Old(Name[j]) /\ staging' = staging
             \/ pc'[j] = "failed"
             \/ /\ pc[j] \in {"place", "replace"} /\ a = b /\ b = Live(Name[j])
                /\ c = staging[Stage(j)]
                /\ pc'[j] = "retire" \/ (pc'[j] = "drop" /\ pc[j] = "replace")
  <2>. USE DEF Pipeline
  <2>1. CASE MoveAside(j)
    <3>. DEFINE a == Live(Name[j])
                b == Old(Name[j])
    <3>1. /\ pc[j] = "aside" /\ pc'[j] = "replace" /\ ~Parses(b) /\ Brings(b) /\ staging' = staging
          /\ at' = [at EXCEPT ![a] = Absent, ![b] = at[a]]
          /\ dupes' = dupes /\ doomed' = doomed /\ victim' = victim
      BY <1>1, <2>1 DEF MoveAside, Step, Goto, Vacant, Rename
    <3>2. at[a] \in Dir /\ Brought(a, b, at[a])
      BY <1>3, <3>1 DEF Brought, DirsTyped
    <3>3. at[a].source = Source[j] \/ AtRisk(at[a].source)
      BY <1>1, <3>1 DEF JobKnows
    <3>. QED
      BY <3>1, <3>2, <3>3
  <2>2. CASE Rollback(j)
    <3>. DEFINE a == Old(Name[j])
                b == Live(Name[j])
    <3>1. /\ pc[j] = "rollback" /\ pc'[j] = "failed" /\ ~Parses(b) /\ Brings(b)
          /\ at' = [at EXCEPT ![a] = Absent, ![b] = at[a]]
          /\ dupes' = dupes /\ doomed' = doomed /\ victim'[j] = NoPath
      BY <1>1, <2>2 DEF Rollback, Release, Goto, Vacant, Rename, DirsTyped
    <3>2. at[a] \in Dir /\ Brought(a, b, at[a])
      BY <1>3, <3>1 DEF Brought, DirsTyped
    <3>3. at[a].source = Source[j] \/ AtRisk(at[a].source)
      BY <1>1, <3>1 DEF JobKnows
    <3>. QED
      BY <3>1, <3>2, <3>3
  <2>3. CASE Place(j)
    <3>. DEFINE b == Live(Name[j])
                c == staging[Stage(j)]
    <3>1. at' # at
      BY <2>3 DEF QuietWork
    <3>2. /\ pc[j] \in {"place", "replace"} /\ ~Parses(b) /\ Brings(b)
          /\ at' = [at EXCEPT ![b] = c]
          /\ dupes' = dupes /\ doomed' = doomed
          /\ Step(j, IF pc[j] = "place" THEN "retire" ELSE "drop")
      <4>1. pc[j] \in {"place", "replace"} /\ dupes' = dupes /\ doomed' = doomed
        BY <2>3 DEF Place
      <4>2. /\ Vacant(b) /\ at' = [at EXCEPT ![b] = c] /\ Brings(b)
            /\ Step(j, IF pc[j] = "place" THEN "retire" ELSE "drop")
        BY <2>3, <3>1 DEF Place
      <4>. QED
        BY <4>1, <4>2 DEF Vacant
    <3>5. /\ victim' = victim
          /\ pc'[j] = "retire" \/ (pc'[j] = "drop" /\ pc[j] = "replace")
      <4>1. /\ victim' = victim
            /\ pc' = [pc EXCEPT ![j] = IF pc[j] = "place" THEN "retire" ELSE "drop"]
        BY <3>2 DEF Step, Goto
      <4>2. pc'[j] = IF pc[j] = "place" THEN "retire" ELSE "drop"
        BY <1>1, <4>1
      <4>. QED
        BY <3>2, <4>1, <4>2
    <3>3. c \in Dir /\ Brought(b, b, c)
      BY <1>3, <3>2 DEF Brought, DirsTyped
    <3>6. victim'[j] \in {victim[j], NoPath}
      BY <3>5
    <3>4. c.source = Source[j] \/ AtRisk(c.source)
      BY <1>1, <1>3, <3>2 DEF JobKnows
    <3>. QED
      <4>1. /\ c \in Dir /\ Brought(b, b, c) /\ Brings(b) /\ (c.source = Source[j] \/ AtRisk(c.source))
            /\ dupes' = dupes /\ doomed' = doomed /\ victim'[j] \in {victim[j], NoPath}
            /\ pc[j] \in Pipeline /\ pc[j] \in {"place", "replace"}
            /\ pc'[j] = "retire" \/ (pc'[j] = "drop" /\ pc[j] = "replace")
        BY <3>2, <3>3, <3>4, <3>5, <3>6
      <4>2. b \in {Live(Name[j]), Old(Name[j])} /\ b = Live(Name[j]) /\ c = staging[Stage(j)]
        OBVIOUS
      <4>. HIDE DEF b, c
      <4>. QED
        BY <4>1, <4>2
  <2>. QED
    BY <2>1, <2>2, <2>3
<1>5. /\ SourcesStay
      /\ \A r \in Paths : Wins(r)' =>
            \/ at'[r].source \in exposed'
            \/ r = b /\ r \notin Condemned
            \/ at'[r] = at[r] /\ Wins(r)
      /\ \A r \in Paths : Wins(r) /\ at[r].source # c.source => at'[r] = at[r] /\ Wins(r)'
      /\ c.source \notin Sources \/ c.source \in exposed' \/ Wins(b)'
  BY <1>4, BringKeeps
<1>6. /\ at'[b] = c /\ ~Parses(b)
      /\ \A q \in Paths : q = b \/ at'[q] = at[q] \/ at'[q].source \notin Sources
  BY <1>4, DirFacts DEF Brought
<1>7. ASSUME NEW i \in Jobs \ {j}
      PROVE  JobKnows(i)'
  <2>1. pc[i] \in Pipeline /\ SideBySide(i, j) => Source[i] \in exposed /\ Source[j] \in exposed
    BY <1>4 DEF RivalsKnown
  <2>2. pc[i] \in Pipeline => \A p \in {Live(Name[i]), Old(Name[i])} :
            at'[p] = at[p] \/ (at'[p].source \in Sources => at'[p].source \in exposed')
    <3>1. SUFFICES ASSUME pc[i] \in Pipeline, NEW p \in {Live(Name[i]), Old(Name[i])},
                          at'[p] # at[p], at'[p].source \in Sources
                   PROVE  at'[p].source \in exposed'
      OBVIOUS
    <3>2. p = b
      BY <1>6, <3>1, PathFacts
    <3>3. Name[i] = Name[j]
      <4>1. Name[i] \in Names /\ Name[j] \in Names
        BY JobsAssumption
      <4>2. b \in {Live(Name[i]), Old(Name[i])} /\ b \in {Live(Name[j]), Old(Name[j])}
        BY <1>4, <3>1, <3>2
      <4>. QED
        BY <4>1, <4>2, PathFacts
    <3>4. Source[j] \in exposed
      BY <2>1, <3>1, <3>3 DEF SideBySide
    <3>. QED
      BY <1>2, <1>4, <1>6, <3>1, <3>2, <3>4
  <2>3. ASSUME pc[i] \in Placed, Source[i] \notin exposed'
        PROVE  at'[Live(Name[i])] = at[Live(Name[i])] /\ Wins(Live(Name[i]))'
    <3>1. Wins(Live(Name[i])) /\ at[Live(Name[i])].source = Source[i] /\ Source[i] \in Sources
      BY <1>2, <2>3, DirFacts DEF JobsKnow, JobKnows
    <3>2. c.source # Source[i]
      <4>1. Source[i] # Source[j]
        BY <1>2, <2>1, <2>3 DEF SideBySide, Pipeline
      <4>. QED
        BY <1>2, <1>4, <2>3, <3>1, <4>1
    <3>. QED
      BY <1>5, <3>1, <3>2, PathFacts
  <2>. QED
    BY <1>1, <2>2, <2>3, OthersKnow
<1>8. JobKnows(j)'
  <2>1. CASE pc[j] = "aside" /\ pc'[j] = "replace" /\ b = Old(Name[j]) /\ staging' = staging
    BY <1>1, <1>2, <1>4, <1>6, <2>1 DEF JobKnows
  <2>2. CASE pc'[j] = "failed"
    BY <2>2 DEF JobKnows
  <2>3. CASE /\ pc[j] \in {"place", "replace"} /\ a = b /\ b = Live(Name[j]) /\ c = staging[Stage(j)]
             /\ pc'[j] = "retire" \/ (pc'[j] = "drop" /\ pc[j] = "replace")
    <3>1. Source[j] \notin exposed' => at'[Live(Name[j])] = Manifest(j) /\ Wins(Live(Name[j]))'
      BY <1>1, <1>2, <1>3, <1>5, <1>6, <2>3 DEF JobKnows
    <3>2. at'[Old(Name[j])] = at[Old(Name[j])]
      BY <1>3, <1>4, <2>3 DEF Brought
    <3>. QED
      BY <1>1, <1>2, <2>3, <3>1, <3>2 DEF JobKnows
  <2>. QED
    BY <1>4, <2>1, <2>2, <2>3
<1>9. Condemned' \intersect Paths \subseteq Condemned
  BY <1>2, <1>4, PathFacts DEF Condemned
<1>10. WinnersStay'
  BY <1>2, <1>5, <1>9 DEF WinnersStay
<1>. QED
  BY <1>5, <1>7, <1>8, <1>10 DEF JobsKnow

\* The other steps that leave the directories as they are: a request, a scan, the choice of
\* a loser, and a crash, after which nothing is at risk.
LEMMA HostKeeps ==
    ASSUME KeysInv, DirsTyped, RivalsKnown, JobsKnow, WinnersStay,
           (\E j \in Jobs : Request(j)) \/ Rescan \/ Reconcile \/ Crash \/ UNCHANGED vars
    PROVE  RivalsKnown' /\ WinnersStay' /\ JobsKnow' /\ SourcesStay
<1>. USE DEF Swapping, Aside, Placed, Pipeline, Handling, Over, InHand, AtRisk
<1>1. at' = at /\ staging' = staging
  BY DEF Request, Rescan, Reconcile, Crash, vars
<1>2. /\ SourcesStay /\ Losers' = Losers
      /\ \A p \in Paths : Wins(p)' <=> Wins(p)
  BY <1>1, SameWinners
<1>3. CASE ~Crash
  <2>1. /\ exposed' = exposed
        /\ \A i \in Jobs : pc'[i] = pc[i] \/ pc'[i] \in {"refused", "resolve"}
    <3>1. CASE \E j \in Jobs : Request(j)
      BY <3>1 DEF Request, Step, Goto, KeysInv
    <3>2. CASE Rescan \/ Reconcile \/ UNCHANGED vars
      BY <3>2 DEF Rescan, Reconcile, vars
    <3>. QED
      BY <1>3, <3>1, <3>2
  <2>2. RivalsKnown'
    BY <2>1 DEF RivalsKnown, SideBySide
  <2>3. ASSUME NEW i \in Jobs
        PROVE  JobKnows(i)'
    <3>1. JobKnows(i) /\ (Wins(Live(Name[i]))' <=> Wins(Live(Name[i])))
      BY <1>2, PathFacts DEF JobsKnow
    <3>2. CASE pc'[i] = pc[i]
      BY <1>1, <2>1, <3>1, <3>2 DEF JobKnows
    <3>3. CASE pc'[i] \in {"refused", "resolve"}
      BY <3>3 DEF JobKnows
    <3>. QED
      BY <2>1, <3>2, <3>3
  <2>4. Condemned' \subseteq Condemned \union {pair[1] : pair \in Losers}
    <3>1. CASE (\E j \in Jobs : Request(j)) \/ UNCHANGED vars
      BY <3>1 DEF Request, Step, vars, Condemned
    <3>2. CASE Rescan
      BY <3>2 DEF Rescan, Condemned
    <3>3. CASE Reconcile
      BY <3>3 DEF Reconcile, Condemned
    <3>. QED
      BY <1>3, <3>1, <3>2, <3>3
  <2>5. WinnersStay'
    <3>1. ASSUME NEW p \in Condemned' \intersect Paths, Wins(p)
          PROVE  at[p].source \in exposed
      BY <2>4, <3>1, OneWinner DEF WinnersStay
    <3>. QED
      BY <1>1, <1>2, <2>1, <3>1 DEF WinnersStay
  <2>. QED
    BY <1>2, <2>2, <2>3, <2>5 DEF JobsKnow
<1>4. CASE Crash
  <2>1. \A i \in Jobs : pc'[i] \in {"idle", "dead"} \union Over
    BY <1>4 DEF Crash, KeysInv, Pcs
  <2>2. RivalsKnown' /\ JobsKnow'
    BY <2>1 DEF RivalsKnown, JobsKnow, JobKnows
  <2>3. Condemned' \subseteq {pair[1] : pair \in Losers} \union {NoPath}
    BY <1>2, <1>4 DEF Crash, Condemned
  <2>4. WinnersStay'
    BY <1>2, <2>3, OneWinner, PathFacts DEF WinnersStay
  <2>. QED
    BY <1>2, <2>2, <2>4
<1>. QED
  BY <1>3, <1>4

\* reconcile_dirs removes a path that was a loser's, and is nobody's but one at risk.
LEMMA RemoveLoserKeeps ==
    ASSUME KeysInv, DirsTyped, RivalsKnown, JobsKnow, WinnersStay, RemoveLoser
    PROVE  RivalsKnown' /\ WinnersStay' /\ JobsKnow' /\ SourcesStay
<1>. USE DEF AtRisk
<1>1. /\ doomed \in Paths /\ Remove(doomed) /\ pc' = pc /\ exposed' = exposed /\ staging' = staging
      /\ Condemned' \subseteq Condemned \union {NoPath}
      /\ Wins(doomed) => at[doomed].source \in exposed'
  BY DEF RemoveLoser, DirsTyped, Condemned, WinnersStay
<1>2. Emptied(doomed)
  BY <1>1, RemoveEmpties
<1>3. /\ SourcesStay
      /\ \A r \in Paths : Wins(r)' => at'[r] = at[r] /\ (Wins(r) \/ at[r].source \in exposed')
      /\ \A r \in Paths : Wins(r) => at[r].source \in exposed' \/ (at'[r] = at[r] /\ Wins(r)')
  BY <1>1, <1>2, EmptyKeeps
<1>4. \A r \in Paths : at'[r] = at[r] \/ at'[r].source \notin Sources
  BY <1>2 DEF Emptied
<1>5. ASSUME NEW i \in Jobs
      PROVE  JobKnows(i)'
  <2>1. JobKnows(i) /\ Live(Name[i]) \in Paths /\ Old(Name[i]) \in Paths /\ Source[i] \in Sources
        /\ Manifest(i).source = Source[i]
    BY PathFacts, DirFacts DEF JobsKnow
  <2>2. pc[i] \in Placed /\ Source[i] \notin exposed =>
            at'[Live(Name[i])] = at[Live(Name[i])] /\ Wins(Live(Name[i]))'
    BY <1>1, <1>3, <2>1 DEF JobKnows
  <2>. QED
    BY <1>1, <1>4, <2>1, <2>2 DEF JobKnows
<1>6. WinnersStay'
  BY <1>1, <1>3, PathFacts DEF WinnersStay
<1>. QED
  BY <1>1, <1>3, <1>5, <1>6 DEF RivalsKnown, SideBySide, JobsKnow

LEMMA DirsStart == Init => DirsInv
<1>. SUFFICES ASSUME Init PROVE DirsInv
  OBVIOUS
<1>1. DirsTyped
  <2>1. at \in [Paths -> Dir] /\ staging \in [Names \X Versions -> Dir]
    BY JobsAssumption, DirFacts DEF Init
  <2>. QED
    BY <2>1 DEF Init, DirsTyped, Losers
<1>2. KeysInv
  BY DEF Init, KeysInv, InFlightExact, Pcs, InHand, Handling, Pipeline
<1>3. RivalsKnown /\ JobsKnow
  BY DEF Init, RivalsKnown, JobsKnow, JobKnows, Swapping, Aside, Placed, Pipeline
<1>4. WinnersStay
  BY <1>1, OneWinner, PathFacts DEF Init, WinnersStay, Condemned
<1>. QED
  BY <1>1, <1>2, <1>3, <1>4 DEF DirsInv

LEMMA DirsStep ==
    ASSUME DirsInv, [Next]_vars
    PROVE  DirsInv' /\ SourcesStay
<1>1. DirsTyped /\ KeysInv /\ RivalsKnown /\ JobsKnow /\ WinnersStay
  BY DEF DirsInv
<1>2. DirsTyped'
  BY <1>1, NextTyped
<1>3. KeysInv'
  <2>1. CASE \E j \in Jobs : Request(j) \/ Work(j)
    BY <1>1, <2>1, RequestKeeps, WorkKeeps
  <2>2. CASE Rescan \/ Reconcile \/ RemoveLoser \/ UNCHANGED vars
    BY <1>1, <2>2 DEF KeysInv, InFlightExact, Rescan, Reconcile, RemoveLoser, vars
  <2>3. CASE Crash
    BY <1>1, <2>3, CrashKeeps
  <2>. QED
    BY <2>1, <2>2, <2>3 DEF Next
<1>4. RivalsKnown' /\ WinnersStay' /\ JobsKnow' /\ SourcesStay
  <2>1. ASSUME NEW j \in Jobs, Work(j)
        PROVE  RivalsKnown' /\ WinnersStay' /\ JobsKnow' /\ SourcesStay
    <3>1. RivalsKnown'
      BY <1>1, <2>1, RivalsStay
    <3>2. CASE QuietWork(j)
      BY <1>1, <3>1, <3>2, QuietKeeps
    <3>3. CASE (ClearOld(j) /\ at[Live(Name[j])] # Absent) \/ DropOld(j) \/ Retire(j)
      BY <1>1, <3>1, <3>3, EmptyingKeeps
    <3>4. CASE (MoveAside(j) \/ Rollback(j) \/ Place(j)) /\ ~QuietWork(j)
      BY <1>1, <1>2, <3>1, <3>4, BringingKeeps
    <3>. QED
      BY <2>1, <3>2, <3>3, <3>4 DEF Work, QuietWork
  <2>2. CASE RemoveLoser
    BY <1>1, <2>2, RemoveLoserKeeps
  <2>3. CASE (\E j \in Jobs : Request(j)) \/ Rescan \/ Reconcile \/ Crash \/ UNCHANGED vars
    BY <1>1, <2>3, HostKeeps
  <2>. QED
    BY <2>1, <2>2, <2>3 DEF Next
<1>. QED
  BY <1>2, <1>3, <1>4 DEF DirsInv

\* At every moment of every install nobody is about to remove the copy of a backend that
\* wins, and each job's directory, its sidecar and what it staged are what its next steps
\* count on, but those of a backend at risk (install.rs, reconcile.rs).
THEOREM DirsAreSafe == Spec => []DirsInv
<1>1. Init => DirsInv
  BY DirsStart
<1>2. DirsInv /\ [Next]_vars => DirsInv'
  BY DirsStep
<1>. QED
  BY <1>1, <1>2, PTL DEF Spec

\* No install, failure, crash or reconciliation takes the last copy of a backend
\* (swap_into_place, retire_previous_dir, reconcile_dirs), unless a swap put the backend at
\* risk since the daemon started, see Brings, Clears and Joins of Install.
THEOREM TheLastCopyStays == Spec => LastCopySafe
<1>1. DirsInv /\ [Next]_vars =>
          [\A s \in Sources \ exposed' : Serving(s) # {} => Serving(s)' # {}]_vars
  BY DirsStep DEF SourcesStay
<1>. QED
  BY <1>1, DirsAreSafe, PTL DEF Spec, LastCopySafe

\* A job that is announced `Completed` (run_install_pipeline) left in its directory what it
\* installed, and nothing has taken it since, with the same exception.
THEOREM WhatCompletesIsServed == Spec => CompletedIsServed
<1>1. DirsInv /\ [Next]_vars =>
          [\A j \in Jobs : pc'[j] = "completed" /\ pc[j] # "completed" /\ Source[j] \notin exposed =>
               at[Live(Name[j])] = Manifest(j)]_vars
  <2>. SUFFICES ASSUME DirsInv, Next, NEW j \in Jobs, pc'[j] = "completed", pc[j] # "completed",
                       Source[j] \notin exposed
                PROVE  at[Live(Name[j])] = Manifest(j)
    OBVIOUS
  <2>1. pc \in [Jobs -> Pcs]
    BY DEF DirsInv, KeysInv
  <2>2. ASSUME NEW i \in Jobs, Request(i) \/ Work(i), ~Complete(i)
        PROVE  FALSE
    <3>1. \E step : pc' = [pc EXCEPT ![i] = step] /\ step # "completed"
      <4>1. CASE Request(i) \/ Resolve(i) \/ Fail(i) \/ Fetch(i) \/ Wipe(i) \/ Unpack(i)
        BY <4>1 DEF Request, Resolve, Fail, Fetch, Wipe, Unpack, Step, Goto, Release
      <4>2. CASE WriteManifest(i) \/ Check(i) \/ Carry(i) \/ ClearOld(i) \/ MoveAside(i)
        BY <4>2 DEF WriteManifest, Check, Carry, ClearOld, MoveAside, Step, Goto
      <4>3. CASE Place(i)
        BY <4>3 DEF Place, Step, Goto
      <4>4. CASE Rollback(i) \/ DropOld(i) \/ FindOld(i) \/ Retire(i) \/ Refresh(i)
        BY <4>4 DEF Rollback, DropOld, FindOld, Retire, Refresh, Step, Goto, Release
      <4>. QED
        BY <2>2, <4>1, <4>2, <4>3, <4>4 DEF Work
    <3>. QED
      BY <2>1, <3>1
  <2>3. ASSUME NEW i \in Jobs, Complete(i)
        PROVE  at[Live(Name[j])] = Manifest(j)
    <3>1. i = j /\ pc[j] = "done"
      BY <2>1, <2>3 DEF Complete, Release, Goto
    <3>. QED
      BY <3>1 DEF DirsInv, JobsKnow, JobKnows, Placed
  <2>4. CASE Rescan \/ Reconcile \/ RemoveLoser
    BY <2>4 DEF Rescan, Reconcile, RemoveLoser
  <2>5. CASE Crash
    BY <2>1, <2>5 DEF Crash
  <2>. QED
    BY <2>2, <2>3, <2>4, <2>5 DEF Next
<1>. QED
  BY <1>1, DirsAreSafe, PTL DEF Spec, CompletedIsServed

\* Both, of the daemon as MCInstall runs it.
THEOREM InstallsAreSafe == InstallsSpec => LastCopySafe /\ CompletedIsServed
<1>1. InstallsInit => Init
  BY DEF InstallsInit
<1>2. [InstallsNext]_installVars => [Next]_vars
  BY DEF InstallsNext, OnIndex, OnCheck, OnInstall, installVars
<1>3. InstallsSpec => Spec
  BY <1>1, <1>2, PTL DEF InstallsSpec, Spec
<1>. QED
  BY <1>3, TheLastCopyStays, WhatCompletesIsServed, PTL

-----------------------------------------------------------------------------
\* The index.

Indexes == [index : Nat, etag : Nat \union {NoEtag}, at : Nat]
\* From the lock to the answer: one call at a time.
InRefresh == {"loading", "asking", "answered", "saving"}
CallPcs == {"done", "locking"} \union InRefresh
Responses == [status : {"failed", "200", "304"}, index : Nat, etag : Nat \union {NoEtag}]
CallRecords ==
    [op : {"get", "refresh"}, pc : CallPcs, began : Nat, before : Nat, etag : Nat \union {NoEtag},
     resp : {NoIndex} \union Responses, got : {NoIndex} \union Indexes]

IndexTyped ==
    /\ published \in Nat /\ clock \in Nat /\ fetches \in Nat
    /\ memory \in {NoIndex} \union Indexes
    /\ cache \in [is : {"missing", "bad", "good"}, index : Nat, etag : Nat \union {NoEtag}]
    /\ fetching \in Callers \union {NoCaller}
    /\ writes \subseteq [index : Nat, etag : Nat \union {NoEtag}, by : Callers \union {NoCaller}]
    /\ call \in [Callers -> CallRecords]

\* The lock is held by whoever is past it, and by nobody else; while the cache file is
\* read, memory is empty.
OneRefresh ==
    /\ \A c \in Callers : call[c].pc \in InRefresh <=> fetching = c
    /\ \A c \in Callers : call[c].pc = "loading" => memory = NoIndex

\* A write that a call waits for is the one of the call that holds the lock.
OneWrite ==
    /\ \A w \in writes : w.by # NoCaller => call[w.by].pc = "saving"
    /\ \A v, w \in writes : v.by = w.by /\ v.by # NoCaller => v = w

\* What a waiter would share: a fetch that finished since it began to wait is in memory.
SharedIsFresh == \A c \in Callers :
    /\ call[c].began <= clock
    /\ call[c].pc = "locking" /\ fetches # call[c].before =>
           memory # NoIndex /\ memory.at >= call[c].began
    /\ call[c].pc = "saving" => call[c].got # NoIndex /\ call[c].got.at >= call[c].began

EtagsNamed ==
    /\ EtagNamesIndex
    /\ \A w \in writes : w.etag \in {w.index, NoEtag}
    /\ \A c \in Callers : call[c].pc = "answered" =>
           call[c].resp \in Responses /\ call[c].resp.etag \in {call[c].resp.index, NoEtag}

IndexInv ==
    /\ IndexTyped /\ OneRefresh /\ OneWrite /\ SharedIsFresh /\ EtagsNamed /\ RefreshIsFresh

\* What answering does to the call.
LEMMA AnswerIs ==
    ASSUME IndexTyped, NEW c \in Callers, NEW m \in {NoIndex} \union Indexes, Answer(c, m),
           memory' \in {NoIndex} \union Indexes
    PROVE  \E r \in CallRecords :
               /\ call' = [call EXCEPT ![c] = r]
               /\ r.pc = "done" /\ r.began = call[c].began
               /\ r.op = "refresh" => r.got = m
<1>. DEFINE r == [NoCall EXCEPT !.op = call[c].op, !.began = call[c].began,
                                !.got = IF m = NoIndex /\ call[c].op = "get" THEN memory' ELSE m]
<1>1. call[c] \in CallRecords
  BY DEF IndexTyped
<1>2. r \in CallRecords /\ r.pc = "done" /\ r.began = call[c].began
      /\ (r.op = "refresh" => r.got = m)
  BY <1>1, ZenonT(60) DEF CallRecords, NoCall, CallPcs
<1>3. call' = [call EXCEPT ![c] = r]
  BY DEF Answer
<1>. QED
  BY <1>2, <1>3

\* An answer ends its call and gives the lock up, if it had it; memory is what it was, or
\* was confirmed or replaced just now.
LEMMA AnswerKeeps ==
    ASSUME IndexInv, NEW c \in Callers, NEW m \in {NoIndex} \union Indexes, Answer(c, m),
           m # NoIndex => m.at >= call[c].began,
           UNCHANGED <<published, clock, cache>>,
           \/ call[c].pc = "locking" /\ UNCHANGED <<memory, fetches, fetching, writes>>
           \/ /\ call[c].pc \in InRefresh /\ fetching' = NoCaller
              /\ \A w \in writes' : w \in writes /\ w.by # c
              /\ \/ UNCHANGED <<memory, fetches>>
                 \/ /\ memory # NoIndex /\ memory' = [memory EXCEPT !.at = clock]
                    /\ fetches' = fetches + 1
    PROVE  IndexInv'
<1>. USE IndexAssumption DEF IndexInv
<1>1. memory' \in {NoIndex} \union Indexes /\ fetches' \in Nat
  BY DEF IndexTyped, Indexes
<1>2. PICK r \in CallRecords : /\ call' = [call EXCEPT ![c] = r]
                               /\ r.pc = "done" /\ r.began = call[c].began
                               /\ r.op = "refresh" => r.got = m
  BY <1>1, AnswerIs
<1>3. /\ call'[c] = r
      /\ \A d \in Callers \ {c} : call'[d] = call[d]
  BY <1>2 DEF IndexTyped
<1>4. IndexTyped'
  BY <1>1, <1>2 DEF IndexTyped
<1>5. OneRefresh'
  <2>1. CASE call[c].pc = "locking"
    BY <1>2, <1>3, <2>1 DEF OneRefresh, InRefresh
  <2>2. CASE call[c].pc \in InRefresh
    <3>1. fetching = c /\ \A d \in Callers \ {c} : call[d].pc \notin InRefresh
      BY <2>2 DEF OneRefresh
    <3>. QED
      BY <1>2, <1>3, <2>2, <3>1 DEF OneRefresh, InRefresh
  <2>. QED
    BY <2>1, <2>2
<1>6. OneWrite'
  BY <1>2, <1>3 DEF OneWrite, IndexTyped, InRefresh
<1>7. SharedIsFresh'
  <2>1. CASE memory' = memory /\ fetches' = fetches
    BY <1>2, <1>3, <2>1 DEF SharedIsFresh
  <2>2. CASE memory # NoIndex /\ memory' = [memory EXCEPT !.at = clock]
    <3>1. memory' \in Indexes /\ memory' # NoIndex /\ memory'.at = clock
      BY <1>1, <2>2 DEF IndexTyped, Indexes
    <3>. QED
      BY <1>2, <1>3, <3>1 DEF SharedIsFresh
  <2>. QED
    BY <2>1, <2>2
<1>8. EtagsNamed'
  <2>1. EtagNamesIndex'
    BY DEF EtagsNamed, EtagNamesIndex, IndexTyped, Indexes
  <2>. QED
    BY <2>1, <1>2, <1>3 DEF EtagsNamed
<1>9. RefreshIsFresh'
  BY <1>2, <1>3 DEF RefreshIsFresh, Busy
<1>. QED
  BY <1>4, <1>5, <1>6, <1>7, <1>8, <1>9

\* A call that goes on, with everything else as it was.
LEMMA GoesOn ==
    ASSUME IndexInv, NEW c \in Callers, NEW r \in CallRecords, call' = [call EXCEPT ![c] = r],
           call[c].pc \in InRefresh, r.pc \in InRefresh \ {"loading", "saving"},
           call[c].pc # "saving", r.began = call[c].began,
           r.pc = "answered" => r.resp \in Responses /\ r.resp.etag \in {r.resp.index, NoEtag},
           UNCHANGED <<published, clock, cache, fetches, fetching, writes, memory>>
    PROVE  IndexInv'
<1>1. /\ call'[c] = r
      /\ \A d \in Callers \ {c} : call'[d] = call[d]
  BY DEF IndexInv, IndexTyped
<1>2. IndexTyped'
  BY DEF IndexInv, IndexTyped
<1>. QED
  BY <1>1, <1>2 DEF IndexInv, OneRefresh, OneWrite, SharedIsFresh, EtagsNamed, EtagNamesIndex,
                    RefreshIsFresh, Busy, InRefresh
\* A call waits for the lock, or goes away: no fetch ends.
LEMMA WaitsOrGoes ==
    ASSUME IndexInv, NEW c \in Callers, Begin(c) \/ Drop(c)
    PROVE  IndexInv'
<1>. USE IndexAssumption DEF IndexInv
<1>1. ASSUME Begin(c)
      PROVE  IndexInv'
  <2>1. PICK r \in CallRecords :
           /\ call' = [call EXCEPT ![c] = r] /\ r.pc \in {"done", "locking"}
           /\ r.began = clock
           /\ r.pc = "done" => r.op = "get"
           /\ r.pc = "locking" => r.before = fetches
    <3>1. PICK op \in {"get", "refresh"} :
             call' = [call EXCEPT ![c] =
                        IF op = "get" /\ memory # NoIndex /\ clock - memory.at < Ttl
                        THEN [NoCall EXCEPT !.got = memory, !.began = clock]
                        ELSE [NoCall EXCEPT !.op = op, !.pc = "locking", !.began = clock,
                                            !.before = fetches]]
      BY <1>1 DEF Begin
    <3>2. /\ [NoCall EXCEPT !.got = memory, !.began = clock] \in CallRecords
          /\ [NoCall EXCEPT !.op = op, !.pc = "locking", !.began = clock, !.before = fetches]
                \in CallRecords
      BY DEF NoCall, CallRecords, CallPcs, IndexTyped
    <3>. QED
      BY <3>1, <3>2 DEF NoCall
  <2>2. UNCHANGED <<published, clock, memory, cache, fetches, fetching, writes>> /\ call[c].pc = "done"
    BY <1>1 DEF Begin, Busy
  <2>3. call'[c] = r /\ \A d \in Callers \ {c} : call'[d] = call[d]
    BY <2>1 DEF IndexTyped
  <2>4. IndexTyped'
    BY <2>1, <2>2 DEF IndexTyped
  <2>. QED
    BY <2>1, <2>2, <2>3, <2>4 DEF OneRefresh, OneWrite, SharedIsFresh, EtagsNamed,
       EtagNamesIndex, RefreshIsFresh, Busy, InRefresh, IndexTyped
<1>2. ASSUME Drop(c)
      PROVE  IndexInv'
  <2>1. NoCall \in CallRecords /\ NoCall.pc = "done" /\ NoCall.began = 0 /\ NoCall.op = "get"
    BY DEF NoCall, CallRecords, CallPcs
  <2>2. /\ UNCHANGED <<published, clock, memory, cache, fetches>>
        /\ call' = [call EXCEPT ![c] = NoCall] /\ call[c].pc # "done"
        /\ fetching' = IF fetching = c THEN NoCaller ELSE fetching
    BY <1>2 DEF Drop, Busy
  <2>3. call'[c] = NoCall /\ \A d \in Callers \ {c} : call'[d] = call[d]
    BY <2>2 DEF IndexTyped
  <2>4. /\ writes' \subseteq [index : Nat, etag : Nat \union {NoEtag}, by : Callers \union {NoCaller}]
        /\ \A w \in writes' : \E v \in writes : /\ w.etag = v.etag /\ w.index = v.index
                                                /\ w.by = IF v.by = c THEN NoCaller ELSE v.by
    <3>1. writes' = {[w EXCEPT !.by = IF @ = c THEN NoCaller ELSE @] : w \in writes}
      BY <1>2 DEF Drop
    <3>2. ASSUME NEW v \in writes
          PROVE  LET w == [v EXCEPT !.by = IF @ = c THEN NoCaller ELSE @] IN
                 /\ w \in [index : Nat, etag : Nat \union {NoEtag}, by : Callers \union {NoCaller}]
                 /\ w.etag = v.etag /\ w.index = v.index
                 /\ w.by = IF v.by = c THEN NoCaller ELSE v.by
      BY DEF IndexTyped
    <3>. QED
      BY <3>1, <3>2
  <2>5. IndexTyped'
    BY <2>1, <2>2, <2>4 DEF IndexTyped
  <2>6. OneRefresh' /\ SharedIsFresh' /\ RefreshIsFresh' /\ EtagsNamed'
    BY <2>1, <2>2, <2>3, <2>4 DEF OneRefresh, SharedIsFresh, EtagsNamed,
       EtagNamesIndex, RefreshIsFresh, Busy, InRefresh, IndexTyped
  <2>7. OneWrite'
    <3>1. \A w \in writes' : w.by # NoCaller => w \in writes /\ w.by # c
      <4>. SUFFICES ASSUME NEW v \in writes, v.by # c
                    PROVE  [v EXCEPT !.by = IF @ = c THEN NoCaller ELSE @] = v
        BY <1>2 DEF Drop, IndexTyped
      <4>. QED
        BY DEF IndexTyped
    <3>. QED
      BY <2>3, <3>1 DEF OneWrite, IndexTyped
  <2>. QED
    BY <2>5, <2>6, <2>7
<1>. QED
  BY <1>1, <1>2

\* The lock is taken, unless another call's index is shared.
LEMMA LockTaken ==
    ASSUME IndexInv, NEW c \in Callers, TakeLock(c)
    PROVE  IndexInv'
<1>1. CASE fetches # call[c].before /\ memory # NoIndex
  BY <1>1, AnswerKeeps DEF TakeLock, IndexInv, SharedIsFresh, IndexTyped
<1>2. CASE ~(fetches # call[c].before /\ memory # NoIndex)
  <2>1. PICK r \in CallRecords :
           /\ call' = [call EXCEPT ![c] = r] /\ r.began = call[c].began
           /\ r.pc = IF memory = NoIndex THEN "loading" ELSE "asking"
    <3>. DEFINE r == [call[c] EXCEPT !.pc = IF memory = NoIndex THEN "loading" ELSE "asking",
                              !.etag = IF memory = NoIndex THEN NoEtag ELSE memory.etag]
    <3>1. /\ r \in CallRecords /\ r.began = call[c].began
          /\ r.pc = IF memory = NoIndex THEN "loading" ELSE "asking"
      BY ZenonT(60) DEF IndexInv, IndexTyped, Indexes, CallRecords, CallPcs, InRefresh
    <3>2. call' = [call EXCEPT ![c] = r]
      BY <1>2 DEF TakeLock, IndexInv, IndexTyped
    <3>. QED
      BY <3>1, <3>2
  <2>2. /\ UNCHANGED <<published, clock, memory, cache, fetches, writes>>
        /\ fetching = NoCaller /\ fetching' = c /\ call[c].pc = "locking"
    BY <1>2 DEF TakeLock
  <2>3. call'[c] = r /\ \A d \in Callers \ {c} : call'[d] = call[d]
    BY <2>1 DEF IndexInv, IndexTyped
  <2>4. IndexTyped'
    BY <2>1, <2>2 DEF IndexInv, IndexTyped
  <2>. QED
    BY <2>1, <2>2, <2>3, <2>4, IndexAssumption DEF IndexInv, OneRefresh, OneWrite, SharedIsFresh,
       EtagsNamed, EtagNamesIndex, RefreshIsFresh, Busy, InRefresh, IndexTyped
<1>. QED
  BY <1>1, <1>2

\* The cache file is read into an empty memory: nobody waits to share a fetch.
LEMMA DiskLoaded ==
    ASSUME IndexInv, NEW c \in Callers, LoadFromDisk(c)
    PROVE  IndexInv'
<1>1. /\ call[c].pc = "loading" /\ memory = NoIndex /\ fetching = c
      /\ UNCHANGED <<published, clock, cache, fetches, writes>>
  BY DEF LoadFromDisk, IndexInv, OneRefresh, InRefresh
<1>2. \A w \in writes : w.by # c
  BY <1>1, IndexAssumption DEF IndexInv, OneWrite
<1>3. CASE cache.is = "missing"
  <2>1. PICK r \in CallRecords :
           /\ call' = [call EXCEPT ![c] = r] /\ r.began = call[c].began /\ r.pc = "asking"
    <3>. DEFINE r == [call[c] EXCEPT !.pc = "asking"]
    <3>1. r \in CallRecords /\ r.began = call[c].began /\ r.pc = "asking"
      BY DEF IndexInv, IndexTyped, CallRecords, CallPcs, InRefresh
    <3>2. call' = [call EXCEPT ![c] = r]
      BY <1>3 DEF LoadFromDisk, IndexInv, IndexTyped
    <3>. QED
      BY <3>1, <3>2
  <2>2. UNCHANGED <<memory, fetching>>
    BY <1>3 DEF LoadFromDisk
  <2>. QED
    BY <1>1, <2>1, <2>2, GoesOn DEF InRefresh
<1>4. CASE cache.is = "bad"
  BY <1>1, <1>2, <1>4, AnswerKeeps DEF LoadFromDisk, InRefresh
<1>5. CASE cache.is \notin {"missing", "bad"}
  <2>. DEFINE m == [index |-> cache.index, etag |-> cache.etag, at |-> 0]
  <2>1. memory' = m /\ fetching' = fetching /\ cache.is = "good"
    BY <1>5 DEF LoadFromDisk, IndexInv, IndexTyped
  <2>2. m \in Indexes /\ m.etag \in {m.index, NoEtag}
    BY <2>1 DEF IndexInv, IndexTyped, Indexes, EtagsNamed, EtagNamesIndex
  <2>3. PICK r \in CallRecords :
           /\ call' = [call EXCEPT ![c] = r] /\ r.began = call[c].began /\ r.pc = "asking"
    <3>. DEFINE r == [call[c] EXCEPT !.pc = "asking", !.etag = cache.etag]
    <3>1. r \in CallRecords /\ r.began = call[c].began /\ r.pc = "asking"
      BY ZenonT(60) DEF IndexInv, IndexTyped, CallRecords, CallPcs, InRefresh
    <3>2. call' = [call EXCEPT ![c] = r]
      BY <1>5 DEF LoadFromDisk, IndexInv, IndexTyped
    <3>. QED
      BY <3>1, <3>2
  <2>4. call'[c] = r /\ \A d \in Callers \ {c} : call'[d] = call[d]
    BY <2>3 DEF IndexInv, IndexTyped
  <2>. HIDE DEF m
  <2>5. IndexTyped'
    BY <1>1, <2>1, <2>2, <2>3 DEF IndexInv, IndexTyped
  <2>6. \A d \in Callers : call[d].pc = "locking" => fetches = call[d].before
    BY <1>1 DEF IndexInv, SharedIsFresh
  <2>. QED
    BY <1>1, <1>2, <2>1, <2>2, <2>3, <2>4, <2>5, <2>6 DEF IndexInv, OneRefresh, OneWrite, SharedIsFresh,
       EtagsNamed, EtagNamesIndex, RefreshIsFresh, Busy, InRefresh
<1>. QED
  BY <1>3, <1>4, <1>5
\* The registry answers the call that holds the lock.
LEMMA Responded ==
    ASSUME IndexInv, NEW c \in Callers, Respond(c)
    PROVE  IndexInv'
<1>1. PICK a \in [status : {"failed", "200", "304"}, index : {published}, etag : {published, NoEtag}] :
         call' = [call EXCEPT ![c].resp = a, ![c].pc = "answered"]
  BY DEF Respond
<1>2. a \in Responses /\ a.etag \in {a.index, NoEtag}
  BY <1>1 DEF Responses, IndexInv, IndexTyped
<1>3. PICK r \in CallRecords :
         /\ call' = [call EXCEPT ![c] = r] /\ r.began = call[c].began /\ r.pc = "answered"
         /\ r.resp = a
  <2>. DEFINE r == [call[c] EXCEPT !.resp = a, !.pc = "answered"]
  <2>1. r \in CallRecords /\ r.began = call[c].began /\ r.pc = "answered" /\ r.resp = a
    BY <1>2, ZenonT(60) DEF IndexInv, IndexTyped, CallRecords, CallPcs, InRefresh
  <2>2. call' = [call EXCEPT ![c] = r]
    BY <1>1 DEF IndexInv, IndexTyped
  <2>. QED
    BY <2>1, <2>2
<1>. QED
  BY <1>2, <1>3, GoesOn DEF Respond, InRefresh

\* The answer is handled: the call ends, or its index is kept and written.
LEMMA ResponseHandled ==
    ASSUME IndexInv, NEW c \in Callers, HandleResponse(c)
    PROVE  IndexInv'
<1>1. /\ call[c].pc = "answered" /\ UNCHANGED <<published, clock, cache>>
  BY DEF HandleResponse
<1>2. call[c].began <= clock /\ call[c].began \in Nat
  BY DEF IndexInv, SharedIsFresh, IndexTyped, CallRecords
<1>3. \A w \in writes : w.by # c
  BY <1>1, IndexAssumption DEF IndexInv, OneWrite
<1>4. CASE FailCall(c)
  BY <1>1, <1>3, <1>4, AnswerKeeps DEF FailCall, InRefresh
<1>5. CASE NotModified(c) /\ memory # NoIndex
  <2>1. /\ memory' = [memory EXCEPT !.at = clock] /\ fetches' = fetches + 1
        /\ fetching' = NoCaller /\ Answer(c, memory') /\ writes' = writes
    BY <1>5 DEF NotModified
  <2>2. PICK m \in Indexes : m = memory' /\ m.at = clock
    BY <1>5, <2>1 DEF IndexInv, IndexTyped, Indexes
  <2>. QED
    BY <1>1, <1>2, <1>3, <1>5, <2>1, <2>2, AnswerKeeps DEF InRefresh
<1>6. CASE Replace(c, call[c].resp)
  <2>. DEFINE new == call[c].resp
              m == [index |-> new.index, etag |-> new.etag, at |-> clock]
  <2>1. new \in Responses /\ new.etag \in {new.index, NoEtag}
    BY <1>1 DEF IndexInv, EtagsNamed
  <2>2. /\ memory' = m /\ fetches' = fetches + 1 /\ fetching' = fetching
        /\ writes' = writes \union {[index |-> new.index, etag |-> new.etag, by |-> c]}
    BY <1>6 DEF Replace
  <2>3. m \in Indexes /\ m # NoIndex /\ m.at = clock /\ m.etag \in {m.index, NoEtag}
    BY <2>1, IndexAssumption DEF IndexInv, IndexTyped, Indexes, Responses
  <2>4. PICK r \in CallRecords :
           /\ call' = [call EXCEPT ![c] = r] /\ r.began = call[c].began /\ r.pc = "saving"
           /\ r.got = m
    <3>. DEFINE r == [call[c] EXCEPT !.pc = "saving", !.got = m]
    <3>. HIDE DEF m
    <3>1. r \in CallRecords /\ r.began = call[c].began /\ r.pc = "saving" /\ r.got = m
      BY <2>3, ZenonT(60) DEF IndexInv, IndexTyped, CallRecords, CallPcs, InRefresh
    <3>2. call' = [call EXCEPT ![c].pc = "saving", ![c].got = m]
      BY <1>6, <2>2 DEF Replace
    <3>3. call' = [call EXCEPT ![c] = r]
      BY <3>2 DEF IndexInv, IndexTyped
    <3>. QED
      BY <3>1, <3>3
  <2>5. call'[c] = r /\ \A d \in Callers \ {c} : call'[d] = call[d]
    BY <2>4 DEF IndexInv, IndexTyped
  <2>6. /\ \A w \in writes' : w \in writes \/ (w.by = c /\ w.etag \in {w.index, NoEtag})
        /\ \A v, w \in writes' : v.by = c /\ w.by = c => v = w
        /\ writes' \subseteq [index : Nat, etag : Nat \union {NoEtag}, by : Callers \union {NoCaller}]
    BY <1>3, <2>1, <2>2 DEF IndexInv, IndexTyped, Responses
  <2>. HIDE DEF m
  <2>7. IndexTyped'
    BY <1>1, <2>2, <2>3, <2>4, <2>6 DEF IndexInv, IndexTyped
  <2>8. fetching = c /\ \A d \in Callers \ {c} : call[d].pc \notin InRefresh
    BY <1>1 DEF IndexInv, OneRefresh, InRefresh
  <2>9. OneRefresh' /\ OneWrite'
    BY <1>1, <2>2, <2>4, <2>5, <2>6, <2>8, IndexAssumption DEF IndexInv, OneRefresh, OneWrite,
       InRefresh, IndexTyped
  <2>10. SharedIsFresh' /\ RefreshIsFresh' /\ EtagsNamed'
    BY <1>1, <1>2, <2>2, <2>3, <2>4, <2>5, <2>6 DEF IndexInv, SharedIsFresh, RefreshIsFresh, Busy,
       EtagsNamed, EtagNamesIndex
  <2>. QED
    BY <2>7, <2>9, <2>10 DEF IndexInv
<1>. QED
  BY <1>1, <1>4, <1>5, <1>6 DEF HandleResponse, NotModified

\* The file is written, and the call that waited for it answers with what it fetched.
LEMMA WriteEnds ==
    ASSUME IndexInv, NEW w \in writes, PersistToDisk(w)
    PROVE  IndexInv'
<1>1. PICK ok \in BOOLEAN :
        /\ cache' = IF ok THEN [is |-> "good", index |-> w.index, etag |-> w.etag] ELSE cache
        /\ IF w.by = NoCaller THEN UNCHANGED <<call, fetching>>
           ELSE fetching' = NoCaller /\ Answer(w.by, IF ok THEN call[w.by].got ELSE NoIndex)
  BY DEF PersistToDisk
<1>2. /\ UNCHANGED <<published, clock, fetches, memory>> /\ writes' = writes \ {w}
  BY DEF PersistToDisk
<1>3. cache' \in [is : {"missing", "bad", "good"}, index : Nat, etag : Nat \union {NoEtag}]
  BY <1>1 DEF IndexInv, IndexTyped
<1>4. cache'.is = "good" => cache'.etag \in {cache'.index, NoEtag}
  BY <1>1 DEF IndexInv, IndexTyped, EtagsNamed, EtagNamesIndex
<1>5. CASE w.by = NoCaller
  BY <1>1, <1>2, <1>3, <1>4, <1>5 DEF IndexInv, IndexTyped, OneRefresh, OneWrite, SharedIsFresh,
     RefreshIsFresh, Busy, EtagsNamed, EtagNamesIndex
<1>6. CASE w.by # NoCaller
  <2>. DEFINE c == w.by
              m == IF ok THEN call[c].got ELSE NoIndex
  <2>1. c \in Callers /\ call[c].pc = "saving" /\ fetching = c
    BY <1>6 DEF IndexInv, IndexTyped, OneWrite, OneRefresh, InRefresh
  <2>2. m \in {NoIndex} \union Indexes /\ (m # NoIndex => m.at >= call[c].began)
    BY <2>1 DEF IndexInv, IndexTyped, CallRecords, SharedIsFresh
  <2>3. PICK r \in CallRecords : /\ call' = [call EXCEPT ![c] = r]
                                 /\ r.pc = "done" /\ r.began = call[c].began
                                 /\ r.op = "refresh" => r.got = m
    BY <1>1, <1>2, <1>6, <2>1, <2>2, AnswerIs DEF IndexInv, IndexTyped
  <2>4. /\ call'[c] = r /\ \A d \in Callers \ {c} : call'[d] = call[d]
        /\ fetching' = NoCaller
    BY <1>1, <1>6, <2>1, <2>3 DEF IndexInv, IndexTyped
  <2>5. IndexTyped'
    BY <1>2, <1>3, <2>1, <2>3, <2>4 DEF IndexInv, IndexTyped
  <2>6. OneRefresh' /\ OneWrite'
    BY <1>2, <2>1, <2>3, <2>4, IndexAssumption DEF IndexInv, IndexTyped, OneRefresh, OneWrite, InRefresh
  <2>. HIDE DEF m
  <2>7. SharedIsFresh' /\ RefreshIsFresh' /\ EtagsNamed'
    BY <1>2, <1>4, <2>2, <2>3, <2>4 DEF IndexInv, SharedIsFresh, RefreshIsFresh, Busy, EtagsNamed,
       EtagNamesIndex
  <2>. QED
    BY <2>5, <2>6, <2>7 DEF IndexInv
<1>. QED
  BY <1>5, <1>6

\* The index invariant holds in every reachable state.
LEMMA IndexAlways == IndexSpec => []IndexInv
<1>1. IndexInit => IndexInv
  <2>. SUFFICES ASSUME IndexInit PROVE IndexInv
    OBVIOUS
  <2>1. NoCall \in CallRecords /\ NoCall.pc = "done" /\ NoCall.began = 0 /\ NoCall.op = "get"
    BY DEF NoCall, CallRecords, CallPcs
  <2>2. /\ cache \in [is : {"missing", "bad", "good"}, index : Nat, etag : Nat \union {NoEtag}]
        /\ cache.etag = cache.index
    <3>1. cache.is \in CacheFiles /\ cache = [is |-> cache.is, index |-> 0, etag |-> 0]
      BY DEF IndexInit
    <3>. QED
      BY <3>1, IndexAssumption
  <2>3. call = [c \in Callers |-> NoCall] /\ published = 1 /\ clock = 1 /\ memory = NoIndex
        /\ fetches = 0 /\ fetching = NoCaller /\ writes = {}
    BY DEF IndexInit
  <2>. QED
    BY <2>1, <2>2, <2>3, IndexAssumption DEF IndexInv, IndexTyped, OneRefresh, OneWrite, SharedIsFresh,
       RefreshIsFresh, Busy, EtagsNamed, EtagNamesIndex, InRefresh
<1>2. IndexInv /\ [IndexNext]_indexVars => IndexInv'
  <2>. SUFFICES ASSUME IndexInv, [IndexNext]_indexVars PROVE IndexInv'
    OBVIOUS
  <2>1. CASE \E c \in Callers : Begin(c) \/ IndexStep(c) \/ Drop(c)
    BY <2>1, WaitsOrGoes, LockTaken, DiskLoaded, Responded, ResponseHandled DEF IndexStep
  <2>2. CASE \E w \in writes : PersistToDisk(w)
    BY <2>2, WriteEnds
  <2>3. CASE IndexRestart
    <3>1. /\ memory' = NoIndex /\ fetching' = NoCaller /\ writes' = {}
          /\ call' = [c \in Callers |-> NoCall] /\ UNCHANGED <<published, clock, cache, fetches>>
      BY <2>3 DEF IndexRestart
    <3>2. NoCall \in CallRecords /\ NoCall.pc = "done" /\ NoCall.began = 0 /\ NoCall.op = "get"
      BY DEF NoCall, CallRecords, CallPcs
    <3>. QED
      BY <3>1, <3>2, IndexAssumption DEF IndexInv, IndexTyped, OneRefresh, OneWrite, SharedIsFresh,
         RefreshIsFresh, Busy, EtagsNamed, EtagNamesIndex, InRefresh
  <2>4. CASE Publish \/ ClockTick \/ UNCHANGED indexVars
    BY <2>4 DEF Publish, ClockTick, indexVars, IndexInv, IndexTyped, OneRefresh, OneWrite,
       SharedIsFresh, RefreshIsFresh, Busy, EtagsNamed, EtagNamesIndex, CallRecords, Indexes
  <2>. QED
    BY <2>1, <2>2, <2>3, <2>4 DEF IndexNext
<1>. QED
  BY <1>1, <1>2, PTL DEF IndexSpec

\* registry/client.rs:142-145: what a refresh answers was fetched while the call ran, also
\* when it was another call's fetch.
THEOREM RefreshesAreFresh == IndexSpec => []RefreshIsFresh
<1>1. IndexInv => RefreshIsFresh
  BY DEF IndexInv
<1>. QED
  BY <1>1, IndexAlways, PTL

\* registry/client.rs: an ETag is kept with the index it came with, in memory and on disk.
THEOREM EtagsStayWithTheirIndex == IndexSpec => []EtagNamesIndex
<1>1. IndexInv => EtagNamesIndex
  BY DEF IndexInv, EtagsNamed
<1>. QED
  BY <1>1, IndexAlways, PTL

-----------------------------------------------------------------------------
\* The check for a release.

Candidates == {Nope} \union {SelectCandidate(1 .. n, pre) : n \in Nat, pre \in BOOLEAN}
Statuses == [latest : Candidates, available : BOOLEAN, beta : BOOLEAN, asset : Candidates, seq : Nat]
Checks == [pc : {"done", "locking", "listing", "resolving"}, before : Nat, seen : Nat,
           pre : BOOLEAN, releases : SUBSET Nat, performed : BOOLEAN, got : Statuses \union {Nope}]

\* What a channel selects is a candidate.
LEMMA Selected ==
    /\ Nope \in Candidates
    /\ \A n \in Nat, pre \in BOOLEAN : SelectCandidate(1 .. n, pre) \in Candidates
BY DEF Candidates

\* One channel's answer: what it selects from some list of releases, and its installer.
OneChannels(s) ==
    /\ s.latest # Nope => \E n \in 1 .. out : s.latest = SelectCandidate(1 .. n, s.beta)
    /\ s.asset # Nope => s.asset = s.latest /\ s.available
    /\ s.available = UpdateAvailable(s.latest)

\* Every conclusion is written once, and the generation moves with it; only a channel that
\* was resolved has a candidate.
StatusInv ==
    /\ out \in Nat /\ out > 0 /\ generation \in Nat
    /\ status \in Statuses /\ status.seq = generation
    /\ OneChannels(status)
    /\ resolved \in BOOLEAN \union {Nope}
    /\ status.latest # Nope => resolved \in BOOLEAN /\ resolved = status.beta

\* What a call knows: how far the generation was when it began.
CheckInv(k) ==
    /\ k \in Checks
    /\ k.pc = "locking" => k.before = k.seen /\ k.before <= generation
    /\ k.pc # "done" => k.performed
    /\ k.pc = "resolving" => \E n \in 1 .. out : k.releases = 1 .. n
    /\ k.pc = "done" /\ ~k.performed => k.got.seq > k.seen

SelfUpdateInv ==
    /\ StatusInv
    /\ check \in [Checkers -> Checks]
    /\ \A c \in Checkers : CheckInv(check[c])

\* A step of one call.
LEMMA OneCheck ==
    ASSUME SelfUpdateInv, NEW c \in Checkers, NEW k, check' = [check EXCEPT ![c] = k],
           StatusInv', out' = out, generation <= generation', CheckInv(k)'
    PROVE  SelfUpdateInv'
<1>1. check' = [d \in Checkers |-> IF d = c THEN k ELSE check[d]]
  BY DEF SelfUpdateInv
<1>2. ASSUME NEW d \in Checkers
      PROVE  CheckInv(check[d])'
  <2>1. CASE d = c
    <3>1. check'[d] = k
      BY <1>1, <2>1
    <3>. QED
      BY <3>1 DEF CheckInv, Checks
  <2>2. CASE d # c
    <3>1. check'[d] = check[d] /\ CheckInv(check[d])
      BY <1>1, <2>2 DEF SelfUpdateInv
    <3>2. generation \in Nat /\ generation' \in Nat
      BY DEF SelfUpdateInv, StatusInv, Statuses
    <3>. QED
      BY <3>1, <3>2 DEF CheckInv, Checks
  <2>. QED
    BY <2>1, <2>2
<1>3. k \in Checks /\ check \in [Checkers -> Checks]
  BY DEF SelfUpdateInv, CheckInv
<1>. QED
  BY <1>1, <1>2, <1>3 DEF SelfUpdateInv

\* A record of a call or a status, changed in one place.
LEMMA ChecksChange ==
    ASSUME NEW k \in Checks, NEW s \in Statuses, NEW n \in Nat, NEW m \in Nat,
           NEW p \in BOOLEAN
    PROVE  /\ [k EXCEPT !.pc = "locking", !.pre = p, !.before = n, !.seen = m] \in Checks
           /\ [k EXCEPT !.pc = "done", !.got = s] \in Checks
           /\ [k EXCEPT !.pc = "done", !.performed = FALSE, !.got = s] \in Checks
           /\ [k EXCEPT !.pc = "listing"] \in Checks
           /\ [k EXCEPT !.pc = "resolving", !.releases = 1 .. n] \in Checks
<1>1. s \in Statuses \union {Nope} /\ 1 .. n \in SUBSET Nat
  OBVIOUS
<1>2. PICK gots : gots = Statuses \union {Nope}
  OBVIOUS
<1>3. Checks = [pc : {"done", "locking", "listing", "resolving"}, before : Nat, seen : Nat,
                pre : BOOLEAN, releases : SUBSET Nat, performed : BOOLEAN, got : gots]
  BY <1>2 DEF Checks
<1>. QED
  BY <1>1, <1>2, <1>3

\* A check ends with a status of one channel.
LEMMA ConcludeKeeps ==
    ASSUME SelfUpdateInv, NEW c \in Checkers, NEW s, NEW channel, Conclude(c, s, channel),
           s \in Statuses, OneChannels(s), check[c].pc # "done",
           channel \in BOOLEAN \union {Nope},
           s.latest # Nope => channel \in BOOLEAN /\ channel = s.beta
    PROVE  SelfUpdateInv'
<1>1. /\ status' = [s EXCEPT !.seq = status.seq + 1] /\ resolved' = channel
      /\ generation' = generation + 1 /\ out' = out
      /\ check' = [check EXCEPT ![c].pc = "done", ![c].got = status']
  BY DEF Conclude
<1>2. /\ status'.latest = s.latest /\ status'.available = s.available /\ status'.beta = s.beta
      /\ status'.asset = s.asset /\ status'.seq = status.seq + 1 /\ status' \in Statuses
  BY <1>1 DEF SelfUpdateInv, StatusInv, Statuses
<1>3. StatusInv'
  BY <1>1, <1>2 DEF SelfUpdateInv, StatusInv, Statuses, OneChannels
<1>4. PICK k : /\ check' = [check EXCEPT ![c] = k] /\ k \in Checks
               /\ k.pc = "done" /\ k.performed
  <2>. DEFINE k == [check[c] EXCEPT !.pc = "done", !.got = status']
  <2>1. CheckInv(check[c]) /\ check[c] \in Checks
    BY DEF SelfUpdateInv, CheckInv
  <2>2. k \in Checks
    BY <1>2, <2>1, ChecksChange, ZenonT(60)
  <2>3. k.pc = "done" /\ k.performed
    BY <2>1 DEF CheckInv, Checks
  <2>4. check' = [check EXCEPT ![c] = k]
    BY <1>1, <2>1 DEF SelfUpdateInv
  <2>. QED
    BY <2>2, <2>3, <2>4, ZenonT(60)
<1>5. CheckInv(k)'
  BY <1>4 DEF CheckInv, Checks
<1>6. generation <= generation'
  BY <1>1 DEF SelfUpdateInv, StatusInv, Statuses
<1>. QED
  BY <1>1, <1>3, <1>4, <1>5, <1>6, OneCheck

LEMMA SelfUpdateStep ==
    ASSUME SelfUpdateInv, [SelfUpdateNext]_selfUpdateVars
    PROVE  SelfUpdateInv'
<1>. USE SelfUpdateAssumption
<1>0. UNCHANGED <<out, status, resolved, generation>> => StatusInv' /\ generation <= generation'
  BY DEF SelfUpdateInv, StatusInv, Statuses, OneChannels
<1>1. ASSUME NEW c \in Checkers, BeginCheck(c)
      PROVE  SelfUpdateInv'
  <2>1. PICK o \in OptIns :
           check' = [check EXCEPT ![c] =
                       [NoCheck EXCEPT !.pc = "locking", !.pre = EffectiveBetaOptIn(o),
                                       !.before = generation, !.seen = status.seq]]
    BY <1>1 DEF BeginCheck
  <2>2. PICK k : /\ check' = [check EXCEPT ![c] = k] /\ k \in Checks
                 /\ k.pc = "locking" /\ k.pre \in BOOLEAN /\ k.performed
                 /\ k.before = generation /\ k.seen = status.seq
    <3>. DEFINE l == [NoCheck EXCEPT !.pc = "locking", !.pre = EffectiveBetaOptIn(o),
                                     !.before = generation, !.seen = status.seq]
    <3>1. status.seq \in Nat /\ generation \in Nat /\ EffectiveBetaOptIn(o) \in BOOLEAN
      BY DEF SelfUpdateInv, StatusInv, Statuses, EffectiveBetaOptIn
    <3>2. NoCheck \in Checks /\ NoCheck.performed
      BY DEF NoCheck, Checks
    <3>3. l \in Checks
      <4>1. status \in Statuses
        BY DEF SelfUpdateInv, StatusInv
      <4>. QED
        BY <3>1, <3>2, <4>1, ChecksChange, ZenonT(60)
    <3>5. check' = [check EXCEPT ![c] = l]
      BY <2>1
    <3>4. /\ l.pc = "locking" /\ l.pre = EffectiveBetaOptIn(o) /\ l.performed
          /\ l.before = generation /\ l.seen = status.seq
      BY <3>2 DEF Checks
    <3>. HIDE DEF l
    <3>. QED
      BY <3>1, <3>3, <3>4, <3>5
  <2>3. UNCHANGED <<out, status, resolved, generation>>
    BY <1>1 DEF BeginCheck
  <2>4. CheckInv(k)'
    BY <2>2, <2>3 DEF CheckInv, Checks, SelfUpdateInv, StatusInv, Statuses
  <2>. QED
    BY <1>0, <2>2, <2>3, <2>4, OneCheck
<1>2. ASSUME NEW c \in Checkers, LockCheck(c)
      PROVE  SelfUpdateInv'
  <2>1. CheckInv(check[c]) /\ check[c].pc = "locking"
    BY <1>2 DEF SelfUpdateInv, LockCheck
  <2>2. UNCHANGED <<out, status, resolved, generation>>
    BY <1>2 DEF LockCheck
  <2>3. CASE generation # check[c].before
    <3>. DEFINE k == [check[c] EXCEPT !.pc = "done", !.performed = FALSE, !.got = status]
    <3>0. check[c] \in Checks /\ status \in Statuses
      BY <2>1 DEF SelfUpdateInv, StatusInv, CheckInv
    <3>9. k \in Checks
      BY <3>0, ChecksChange, ZenonT(60)
    <3>1. k.pc = "done" /\ k.got = status /\ k.seen = check[c].seen /\ ~k.performed
      BY <3>0 DEF Checks
    <3>2. status.seq > check[c].seen
      BY <2>1, <2>3 DEF CheckInv, Checks, SelfUpdateInv, StatusInv, Statuses
    <3>3. check' = [check EXCEPT ![c] = k]
      BY <1>2, <2>3 DEF LockCheck, SelfUpdateInv
    <3>4. PICK l : l = k
      OBVIOUS
    <3>. HIDE DEF k
    <3>5. CheckInv(l)'
      BY <3>1, <3>2, <3>4, <3>9 DEF CheckInv, Checks
    <3>. QED
      BY <1>0, <2>2, <3>3, <3>4, <3>5, OneCheck, ZenonT(60)
  <2>4. CASE generation = check[c].before
    <3>. DEFINE k == [check[c] EXCEPT !.pc = "listing"]
    <3>1. k \in Checks /\ k.pc = "listing" /\ k.pre \in BOOLEAN /\ k.performed
      BY <2>1 DEF CheckInv, Checks
    <3>2. check' = [check EXCEPT ![c] = k]
      BY <1>2, <2>4 DEF LockCheck, SelfUpdateInv
    <3>3. PICK l : l = k
      OBVIOUS
    <3>. HIDE DEF k
    <3>4. CheckInv(l)'
      BY <3>1, <3>3 DEF CheckInv, Checks
    <3>. QED
      BY <1>0, <2>2, <3>2, <3>3, <3>4, OneCheck
  <2>. QED
    BY <2>3, <2>4
<1>3. ASSUME NEW c \in Checkers, Listed(c)
      PROVE  SelfUpdateInv'
  <2>1. CheckInv(check[c]) /\ check[c].pc = "listing"
    BY <1>3 DEF SelfUpdateInv, Listed
  <2>2. UNCHANGED <<out, status, resolved, generation>>
    BY <1>3 DEF Listed
  <2>. DEFINE k == [check[c] EXCEPT !.pc = "resolving", !.releases = 1 .. out]
  <2>0. check[c] \in Checks /\ status \in Statuses /\ out \in Nat
    BY <2>1, SMTT(30) DEF SelfUpdateInv, StatusInv, CheckInv
  <2>8. k \in Checks
    BY <2>0, ChecksChange, ZenonT(60)
  <2>3. k.releases = 1 .. out
    BY <2>0 DEF Checks
  <2>9. k.pc = "resolving" /\ k.pre \in BOOLEAN /\ k.performed
    BY <2>0, <2>1 DEF CheckInv, Checks
  <2>4. check' = [check EXCEPT ![c] = k]
    BY <1>3 DEF Listed, SelfUpdateInv
  <2>5. PICK l : l = k
    OBVIOUS
  <2>. HIDE DEF k
  <2>6. out \in 1 .. out
    BY DEF SelfUpdateInv, StatusInv, Statuses
  <2>7. CheckInv(l)'
    BY <2>2, <2>3, <2>5, <2>6, <2>8, <2>9 DEF CheckInv, Checks
  <2>. QED
    BY <1>0, <2>2, <2>4, <2>5, <2>7, OneCheck
<1>4. ASSUME NEW c \in Checkers, ListFailed(c)
      PROVE  SelfUpdateInv'
  <2>1. CheckInv(check[c]) /\ check[c].pc = "listing" /\ check[c].pre \in BOOLEAN
    BY <1>4 DEF SelfUpdateInv, ListFailed, CheckInv, Checks
  <2>2. CASE resolved = check[c].pre
    <3>1. PICK s : s = [status EXCEPT !.beta = check[c].pre]
      OBVIOUS
    <3>2. s \in Statuses /\ s.latest = status.latest /\ s.available = status.available
          /\ s.beta = check[c].pre /\ s.asset = status.asset
      BY <2>1, <3>1 DEF SelfUpdateInv, StatusInv, Statuses
    <3>3. Conclude(c, s, resolved)
      BY <1>4, <2>2, <3>1 DEF ListFailed
    <3>4. OneChannels(s)
      BY <2>2, <3>2 DEF SelfUpdateInv, StatusInv, Statuses, OneChannels
    <3>. QED
      BY <2>1, <2>2, <3>2, <3>3, <3>4, ConcludeKeeps DEF SelfUpdateInv, StatusInv, Statuses
  <2>3. CASE resolved # check[c].pre
    <3>1. PICK s : s = [latest |-> Nope, available |-> FALSE, beta |-> check[c].pre,
                        asset |-> Nope, seq |-> 0]
      OBVIOUS
    <3>2. Conclude(c, s, resolved)
      BY <1>4, <2>3, <3>1 DEF ListFailed
    <3>3. s \in Statuses /\ s.latest = Nope /\ OneChannels(s)
      BY <3>1, <2>1, Selected DEF OneChannels, UpdateAvailable, Statuses
    <3>. QED
      BY <2>1, <3>2, <3>3, ConcludeKeeps DEF SelfUpdateInv, StatusInv, Statuses
  <2>. QED
    BY <2>2, <2>3
<1>5. ASSUME NEW c \in Checkers, ResolveInstallerAsset(c)
      PROVE  SelfUpdateInv'
  <2>. DEFINE candidate == SelectCandidate(check[c].releases, check[c].pre)
  <2>1. CheckInv(check[c]) /\ check[c].pc = "resolving" /\ check[c].pre \in BOOLEAN
    BY <1>5 DEF SelfUpdateInv, ResolveInstallerAsset, CheckInv, Checks
  <2>2. PICK asset \in IF UpdateAvailable(candidate) THEN {candidate, Nope} ELSE {Nope} :
           Conclude(c, [latest |-> candidate, available |-> UpdateAvailable(candidate),
                        beta |-> check[c].pre, asset |-> asset, seq |-> 0], check[c].pre)
    BY <1>5 DEF ResolveInstallerAsset
  <2>3. PICK s : s = [latest |-> candidate, available |-> UpdateAvailable(candidate),
                      beta |-> check[c].pre, asset |-> asset, seq |-> 0]
    OBVIOUS
  <2>4. \E n \in 1 .. out : candidate = SelectCandidate(1 .. n, check[c].pre)
    BY <2>1 DEF CheckInv, Checks
  <2>. HIDE DEF candidate
  <2>5. candidate \in Candidates /\ UpdateAvailable(candidate) \in BOOLEAN
    BY <2>1, <2>4, Selected DEF SelfUpdateInv, StatusInv, UpdateAvailable
  <2>6. s \in Statuses /\ s.beta = check[c].pre
    BY <2>1, <2>2, <2>3, <2>5, Selected DEF Statuses
  <2>7. OneChannels(s)
    BY <2>2, <2>3, <2>4 DEF OneChannels
  <2>. QED
    BY <2>1, <2>2, <2>3, <2>6, <2>7, ConcludeKeeps
<1>6. ASSUME NEW c \in Checkers, DropCheck(c)
      PROVE  SelfUpdateInv'
  <2>1. UNCHANGED <<out, status, resolved, generation>> /\ check' = [check EXCEPT ![c] = NoCheck]
    BY <1>6 DEF DropCheck
  <2>2. CheckInv(NoCheck)'
    BY DEF CheckInv, Checks, NoCheck
  <2>. QED
    BY <1>0, <2>1, <2>2, OneCheck
<1>7. CASE ReleaseProduct
  <2>1. out' = out + 1 /\ UNCHANGED <<status, resolved, generation, check>>
    BY <1>7 DEF ReleaseProduct
  <2>2. \A n \in 1 .. out : n \in 1 .. out'
    BY <2>1 DEF SelfUpdateInv, StatusInv, Statuses
  <2>3. StatusInv'
    BY <2>1, <2>2 DEF SelfUpdateInv, StatusInv, Statuses, OneChannels
  <2>4. \A c \in Checkers : CheckInv(check[c])'
    BY <2>1, <2>2 DEF SelfUpdateInv, CheckInv, Checks
  <2>. QED
    BY <2>1, <2>3, <2>4 DEF SelfUpdateInv
<1>8. CASE UNCHANGED selfUpdateVars
  BY <1>8 DEF selfUpdateVars, SelfUpdateInv, StatusInv, Statuses, OneChannels, CheckInv, Checks
<1>. QED
  BY <1>1, <1>2, <1>3, <1>4, <1>5, <1>6, <1>7, <1>8 DEF SelfUpdateNext

\* The invariant of the check holds in every reachable state.
LEMMA SelfUpdateAlways == SelfUpdateSpec => []SelfUpdateInv
<1>1. SelfUpdateInit => SelfUpdateInv
  <2>. SUFFICES ASSUME SelfUpdateInit PROVE SelfUpdateInv
    OBVIOUS
  <2>1. StatusInv
    <3>1. status \in Statuses /\ status.seq = 0 /\ status.latest = Nope /\ status.asset = Nope
          /\ status.available = FALSE
      BY Selected DEF SelfUpdateInit, Statuses
    <3>2. UpdateAvailable(Nope) = FALSE
      BY DEF UpdateAvailable
    <3>3. OneChannels(status)
      BY <3>1, <3>2 DEF OneChannels
    <3>. QED
      BY <3>1, <3>3, SelfUpdateAssumption DEF SelfUpdateInit, StatusInv
  <2>2. CheckInv(NoCheck)
    BY DEF CheckInv, Checks, NoCheck
  <2>3. NoCheck \in Checks
    BY DEF Checks, NoCheck
  <2>. QED
    BY <2>1, <2>2, <2>3 DEF SelfUpdateInit, SelfUpdateInv
<1>2. SelfUpdateInv /\ [SelfUpdateNext]_selfUpdateVars => SelfUpdateInv'
  BY SelfUpdateStep
<1>. QED
  BY <1>1, <1>2, PTL DEF SelfUpdateSpec

\* self_update.rs:303-309: a caller that shares a result shares one that ended after it
\* called.
THEOREM SharedChecksAreFresh == SelfUpdateSpec => []SharedResultIsFresh
<1>1. SelfUpdateInv => SharedResultIsFresh
  BY DEF SelfUpdateInv, CheckInv, Checks, SharedResultIsFresh
<1>. QED
  BY <1>1, SelfUpdateAlways, PTL

\* self_update.rs:170-181 and 290-296: a candidate, and its installer, are of the channel
\* they are shown for.
THEOREM CandidatesKeepTheirChannel == SelfUpdateSpec => []CandidateOfItsChannel
<1>1. SelfUpdateInv => CandidateOfItsChannel
  <2>. SUFFICES ASSUME SelfUpdateInv, NEW o \in OptIns
                PROVE  OneChannels(StatusFor(o))
    BY DEF CandidateOfItsChannel, OneChannels
  <2>1. CASE resolved = Nope
    <3>1. status.latest = Nope
      BY <2>1, SelfUpdateAssumption DEF SelfUpdateInv, StatusInv, Statuses
    <3>2. PICK s : s = [status EXCEPT !.beta = EffectiveBetaOptIn(o)]
      OBVIOUS
    <3>3. s.latest = Nope /\ s.asset = status.asset /\ s.available = status.available
      BY <3>1, <3>2 DEF SelfUpdateInv, StatusInv, Statuses
    <3>4. OneChannels(s)
      BY <3>1, <3>3 DEF SelfUpdateInv, StatusInv, Statuses, OneChannels
    <3>. QED
      BY <2>1, <3>2, <3>4 DEF StatusFor
  <2>2. CASE resolved # Nope
    BY <2>2 DEF StatusFor, SelfUpdateInv, StatusInv, Statuses
  <2>. QED
    BY <2>1, <2>2
<1>. QED
  BY <1>1, SelfUpdateAlways, PTL

-----------------------------------------------------------------------------
\* Beside each other, as the daemon runs them: whoever shares an answer is told the truth
\* (registry/client.rs, self_update.rs).
THEOREM SharedAnswers == InstallsSpec => []SharedAnswersAreTrue
<1>1. InstallsInit => IndexInit /\ SelfUpdateInit
  BY DEF InstallsInit
<1>2. [InstallsNext]_installVars => [IndexNext]_indexVars
  BY DEF InstallsNext, OnIndex, OnCheck, OnInstall, installVars
<1>3. [InstallsNext]_installVars => [SelfUpdateNext]_selfUpdateVars
  BY DEF InstallsNext, OnIndex, OnCheck, OnInstall, installVars
<1>4. InstallsSpec => IndexSpec /\ SelfUpdateSpec
  BY <1>1, <1>2, <1>3, PTL DEF InstallsSpec, IndexSpec, SelfUpdateSpec
<1>5. RefreshIsFresh /\ EtagNamesIndex /\ SharedResultIsFresh /\ CandidateOfItsChannel
        => SharedAnswersAreTrue
  BY DEF SharedAnswersAreTrue
<1>. QED
  BY <1>4, <1>5, RefreshesAreFresh, EtagsStayWithTheirIndex, SharedChecksAreFresh,
     CandidatesKeepTheirChannel, PTL
=============================================================================
