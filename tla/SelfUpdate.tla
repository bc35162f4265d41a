---------------------------- MODULE SelfUpdate -----------------------------
(***************************************************************************)
(* The self-update check of self_update.rs: callers with the opt-in of the *)
(* moment queue on one lock, one of them asks the forge, and the others    *)
(* share its result.  A call may be dropped at any await.                  *)
(***************************************************************************)
EXTENDS Naturals, FiniteSetsExt

CONSTANTS
  Checkers,     \* callers of run_check
  Nope,         \* no caller, no release, no channel
  Current,      \* the version of the daemon that runs
  Beta,         \* the versions that are prereleases
  Newest,       \* bound: versions 1..Newest are released in turn
  MaxChecks     \* bound: no new call after so many checks

ASSUME SelfUpdateAssumption ==
  /\ Nope \notin Checkers \cup Nat \cup BOOLEAN
  /\ Newest \in Nat /\ Current \in 1..Newest /\ Beta \subseteq Nat

VARIABLES
  out,         \* the newest version released
  status,      \* CheckerState.status, with the count of writes as `seq`
  resolved,    \* CheckerState.resolved_include_pre
  generation, checkLock,
  check        \* check[c]: the call of c

selfUpdateVars == <<out, status, resolved, generation, checkLock, check>>

OptIns  == {"enabled", "disabled", "auto"}
NoCheck == [pc |-> "done", before |-> 0, seen |-> 0, pre |-> FALSE, releases |-> {},
            performed |-> TRUE, got |-> Nope]

SelfUpdateInit ==
  /\ out = Current
  /\ status = [latest |-> Nope, available |-> FALSE, beta |-> FALSE, asset |-> Nope, seq |-> 0]
  /\ resolved = Nope /\ generation = 0 /\ checkLock = Nope
  /\ check = [c \in Checkers |-> NoCheck]

EffectiveBetaOptIn(o) == o = "enabled" \/ (o = "auto" /\ Current \in Beta)

(* The highest version among those the channel allows.                     *)
SelectCandidate(releases, pre) ==
  LET allowed == {v \in releases: v \in Beta => pre}
  IN  IF allowed = {} THEN Nope ELSE Max(allowed)

UpdateAvailable(v) == v # Nope /\ v > Current

(* status_for: before any check succeeded the channel is the setting's.    *)
StatusFor(o) ==
  IF resolved = Nope THEN [status EXCEPT !.beta = EffectiveBetaOptIn(o)] ELSE status

BeginCheck(c) ==
  /\ check[c].pc = "done" /\ generation < MaxChecks
  /\ \E o \in OptIns:
       check' = [check EXCEPT ![c] =
                   [NoCheck EXCEPT !.pc = "locking", !.pre = EffectiveBetaOptIn(o),
                                   !.before = generation, !.seen = status.seq]]
  /\ UNCHANGED <<out, status, resolved, generation, checkLock>>

LockCheck_Bumps(c) ==  \* the generation moves when a check starts
  /\ check[c].pc = "locking" /\ checkLock = Nope
  /\ IF generation # check[c].before
     THEN /\ check' = [check EXCEPT ![c].pc = "done", ![c].performed = FALSE, ![c].got = status]
          /\ UNCHANGED <<checkLock, generation>>
     ELSE /\ check' = [check EXCEPT ![c].pc = "listing"] /\ checkLock' = c
          /\ generation' = generation + 1
  /\ UNCHANGED <<out, status, resolved>>

LockCheck(c) ==
  /\ check[c].pc = "locking" /\ checkLock = Nope
  /\ IF generation # check[c].before
     THEN /\ check' = [check EXCEPT ![c].pc = "done", ![c].performed = FALSE, ![c].got = status]
          /\ UNCHANGED checkLock
     ELSE check' = [check EXCEPT ![c].pc = "listing"] /\ checkLock' = c
  /\ UNCHANGED <<out, status, resolved, generation>>

(* The end of a check: the state is written, then the generation moves;    *)
(* there is no await between the two.                                      *)
Conclude(c, new, channel) ==
  /\ status' = [new EXCEPT !.seq = status.seq + 1] /\ resolved' = channel
  /\ generation' = generation + 1 /\ checkLock' = Nope
  /\ check' = [check EXCEPT ![c].pc = "done", ![c].got = status']
  /\ UNCHANGED out

(* list_releases answers; only an update has its installer looked up.      *)
Listed(c) ==
  /\ check[c].pc = "listing"
  /\ check' = [check EXCEPT ![c].pc = "resolving", ![c].releases = 1..out]
  /\ UNCHANGED <<out, status, resolved, generation, checkLock>>

(* resolve_installer_asset yields the release's verified installer, or     *)
(* none when an asset or its digest is missing or cannot be had.           *)
ResolveInstallerAsset(c) ==
  LET candidate == SelectCandidate(check[c].releases, check[c].pre) IN
  /\ check[c].pc = "resolving"
  /\ \E asset \in IF UpdateAvailable(candidate) THEN {candidate, Nope} ELSE {Nope}:
       Conclude(c, [latest |-> candidate, available |-> UpdateAvailable(candidate),
                    beta |-> check[c].pre, asset |-> asset, seq |-> 0], check[c].pre)

(* A failed check keeps the candidate of its own channel only, and never   *)
(* records a channel as resolved.                                          *)
ListFailed(c) ==
  /\ check[c].pc = "listing"
  /\ Conclude(c, IF resolved = check[c].pre THEN [status EXCEPT !.beta = check[c].pre]
                 ELSE [latest |-> Nope, available |-> FALSE, beta |-> check[c].pre,
                       asset |-> Nope, seq |-> 0], resolved)

DropCheck(c) ==
  /\ check[c].pc # "done"
  /\ checkLock' = IF checkLock = c THEN Nope ELSE checkLock
  /\ check' = [check EXCEPT ![c] = NoCheck]
  /\ UNCHANGED <<out, status, resolved, generation>>

ReleaseProduct == /\ out < Newest /\ out' = out + 1
           /\ UNCHANGED <<status, resolved, generation, checkLock, check>>

SelfUpdateNext ==
  \/ ReleaseProduct
  \/ \E c \in Checkers: \/ BeginCheck(c)
                        \/ LockCheck(c)
                        \/ Listed(c)
                        \/ ListFailed(c)
                        \/ ResolveInstallerAsset(c)
                        \/ DropCheck(c)

SelfUpdateSpec == SelfUpdateInit /\ [][SelfUpdateNext]_selfUpdateVars

-----------------------------------------------------------------------------
(* What clients are shown, whatever the setting says when they ask, is one *)
(* channel's answer: the candidate is what that channel selects from some  *)
(* list of releases, and an installer is the candidate's own               *)
(* (self_update.rs:170-181 and 290-296).                                   *)
CandidateOfItsChannel ==
  \A o \in OptIns: LET s == StatusFor(o) IN
    /\ s.latest # Nope => \E n \in 1..out: s.latest = SelectCandidate(1..n, s.beta)
    /\ s.asset # Nope => s.asset = s.latest /\ s.available
    /\ s.available = UpdateAvailable(s.latest)

(* A caller that ran no check of its own gets the result of one that ended *)
(* after it called, not of one whose caller hung up ("that same fresh      *)
(* result", self_update.rs:303-309).                                       *)
SharedResultIsFresh ==
  \A c \in Checkers: check[c].pc = "done" /\ ~check[c].performed
                       => check[c].got.seq > check[c].seen

=============================================================================
