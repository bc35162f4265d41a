------------------------------ MODULE Sandboxed ------------------------------
(***************************************************************************)
(* A backend process under sandbox-exec, the macOS supervisor              *)
(* (subprocess/sandbox_exec.rs): one instance over several lives of the    *)
(* daemon.  Nobody but the daemon knows the process, so the pid file is    *)
(* all that is left of it when the daemon dies; pids are handed out again. *)
(* A process that ignores SIGTERM is one that does not exit; descendants   *)
(* of the group's leader are left out.                                     *)
(***************************************************************************)
EXTENDS Naturals

CONSTANTS
    Pids,       \* bounds the processes at one time
    NoPid,
    MaxBoots    \* bounds the lives of the daemon

ASSUME SandboxedAssumption ==
    NoPid \notin Pids /\ {"absent", "empty"} \intersect Pids = {} /\ MaxBoots \in Nat

VARIABLES
    boots, up,  \* the daemon's life, and whether it runs
    at,         \* where the daemon is with the instance
    child,      \* the leader this daemon spawned and has not reaped
    proc,       \* per pid: none, wrapper (sandbox-exec, not yet the binary), backend, zombie, stranger
    pidFile,    \* absent, empty (created, not written), or the pid it names
    socketFile,     \* whose socket file lies at the instance's path
    lost,       \* backends no file ever named to a later daemon
    strayed,    \* history: some backend was ever lost
    hit         \* ghost: a process that is not ours was signalled
procVars == <<boots, up, at, child, proc, pidFile, socketFile, lost, strayed, hit>>

Absent == "absent"
Empty == "empty"

SandboxedInit ==
    /\ boots = 1 /\ up = TRUE /\ at = "sweep"
    /\ child = NoPid
    /\ proc = [p \in Pids |-> "none"]
    /\ pidFile = Absent
    /\ socketFile = NoPid
    /\ lost = {} /\ strayed = FALSE /\ hit = FALSE

Resident(p) == proc[p] \in {"wrapper", "backend"}
\* A child that exits stays until it is waited for; anybody else's is reaped at once.
Ends(p) ==
    /\ proc' = [proc EXCEPT ![p] = IF p = child THEN "zombie" ELSE "none"]
    /\ lost' = lost \ {p}
Strays(ps) == lost' = lost \union ps /\ strayed' = (strayed \/ ps # {})
Reaped(p) == [proc EXCEPT ![p] = "none"]
Hits(p) == hit \/ proc[p] = "stranger"

---------------------------------------------------------------------------
(* The startup sweep.                                                      *)

\* exe_of(pid) is the binary the file names.
ExeMatches(p) == proc[p] = "backend"

SweepFindsNothing ==
    /\ up /\ at = "sweep" /\ pidFile \in {Absent, Empty}
    /\ pidFile' = Absent /\ at' = "idle"
    /\ UNCHANGED <<boots, up, child, proc, socketFile, lost, strayed, hit>>

SweepLeavesAlone ==
    /\ up /\ at = "sweep" /\ pidFile \in Pids
    /\ ~ExeMatches(pidFile)
    /\ pidFile' = Absent /\ at' = "idle"
    /\ Strays({p \in {pidFile} : proc[p] = "wrapper"})
    /\ UNCHANGED <<boots, up, child, proc, socketFile, hit>>

SweepTerminates ==
    /\ up /\ at = "sweep" /\ pidFile \in Pids
    /\ ExeMatches(pidFile)
    /\ at' = "terminating" /\ hit' = Hits(pidFile)
    /\ UNCHANGED <<boots, up, child, proc, pidFile, socketFile, lost, strayed>>

\* Gone at one of the polls, or killed after the last; its files go in both cases.
OrphanEnds ==
    /\ up /\ at = "terminating"
    /\ proc' = [proc EXCEPT ![pidFile] = "none"]
    /\ pidFile' = Absent /\ socketFile' = NoPid /\ at' = "idle"
    /\ UNCHANGED <<boots, up, child, lost, strayed, hit>>

---------------------------------------------------------------------------
(* Spawning.                                                               *)

\* The leftover socket and scratch directory go; an error on the way leaves the daemon idle.
SpawnClears ==
    /\ up /\ at = "idle" /\ child = NoPid
    /\ socketFile' = NoPid
    /\ at' \in {"cleared", "idle"}
    /\ UNCHANGED <<boots, up, child, proc, pidFile, lost, strayed, hit>>

SpawnRuns ==
    /\ up /\ at = "cleared"
    /\ \E p \in Pids :
        /\ proc[p] = "none"
        /\ proc' = [proc EXCEPT ![p] = "wrapper"]
        /\ child' = p
    /\ at' = "spawned"
    /\ UNCHANGED <<boots, up, pidFile, socketFile, lost, strayed, hit>>

\* std::fs::write truncates before it writes, and may fail at either.
PidFileOpens ==
    /\ up /\ at = "spawned"
    /\ \/ pidFile' = Empty /\ at' = "recording"
       \/ UNCHANGED pidFile /\ at' = "held"
    /\ UNCHANGED <<boots, up, child, proc, socketFile, lost, strayed, hit>>

PidFileWritten ==
    /\ up /\ at = "recording"
    /\ pidFile' \in {child, Empty}
    /\ at' = "held"
    /\ UNCHANGED <<boots, up, child, proc, socketFile, lost, strayed, hit>>

---------------------------------------------------------------------------
(* Teardown: stop is awaited, stop_blocking is Drop's.                     *)

Stops(how) ==
    /\ up /\ at = "held"
    /\ at' = how
    /\ UNCHANGED <<boots, up, child, proc, pidFile, socketFile, lost, strayed, hit>>

\* The leader is reaped and the files removed: pid file and scratch, not the socket.
Reap ==
    /\ up /\ at \in {"stopping", "dropping", "killed"}
    /\ proc[child] = "zombie"
    /\ proc' = Reaped(child) /\ child' = NoPid
    /\ pidFile' = Absent /\ at' = "idle"
    /\ UNCHANGED <<boots, up, socketFile, lost, strayed, hit>>

\* TERM_GRACE is over: the group is killed, and stop waits for it again.
StopKills ==
    /\ up /\ at = "stopping" /\ proc[child] # "zombie"
    /\ proc' = [proc EXCEPT ![child] = "zombie"]
    /\ at' = "killed"
    /\ UNCHANGED <<boots, up, child, pidFile, socketFile, lost, strayed, hit>>

DropKills_WalksAway ==  \* signalled once, and given up when the grace is over
    /\ up /\ at = "dropping" /\ proc[child] # "zombie"
    /\ child' = NoPid /\ pidFile' = Absent /\ at' = "idle"
    /\ UNCHANGED <<boots, up, proc, socketFile, lost, strayed, hit>>

\* DROP_GRACE is over: killed and, reaped or not, done with.
DropKills ==
    /\ up /\ at = "dropping" /\ proc[child] # "zombie"
    /\ proc' = Reaped(child) /\ child' = NoPid
    /\ pidFile' = Absent /\ at' = "idle"
    /\ UNCHANGED <<boots, up, socketFile, lost, strayed, hit>>

\* The future of stop is dropped: the child it took is killed with it, the files stay, and
\* Drop finds no child to stop.
StopCancelled ==
    /\ up /\ at \in {"stopping", "killed"}
    /\ proc' = Reaped(child) /\ child' = NoPid
    /\ at' = "idle"
    /\ UNCHANGED <<boots, up, pidFile, socketFile, lost, strayed, hit>>

---------------------------------------------------------------------------
(* The processes, and the death of the daemon.                             *)

Execs(p) ==
    /\ proc[p] = "wrapper"
    /\ proc' = [proc EXCEPT ![p] = "backend"]
    /\ UNCHANGED <<boots, up, at, child, pidFile, socketFile, lost, strayed, hit>>

\* A bind on a path where a file lies fails, and the backend with it.
Binds(p) ==
    /\ proc[p] = "backend" /\ socketFile # p
    /\ IF socketFile = NoPid THEN socketFile' = p /\ UNCHANGED <<proc, lost>>
       ELSE Ends(p) /\ UNCHANGED socketFile
    /\ UNCHANGED <<boots, up, at, child, pidFile, strayed, hit>>

Exits(p) ==
    /\ Resident(p) /\ Ends(p)
    /\ UNCHANGED <<boots, up, at, child, pidFile, socketFile, strayed, hit>>

\* A free pid goes to another program.  Not within the second terminate_orphan polls.
Recycled(p) ==
    /\ proc[p] = "none" /\ at # "terminating"
    /\ proc' = [proc EXCEPT ![p] = "stranger"]
    /\ UNCHANGED <<boots, up, at, child, pidFile, socketFile, lost, strayed, hit>>

StrangerEnds(p) ==
    /\ proc[p] = "stranger"
    /\ proc' = [proc EXCEPT ![p] = "none"]
    /\ UNCHANGED <<boots, up, at, child, pidFile, socketFile, lost, strayed, hit>>

\* Killed: no Drop runs.  What it spawned and did not record is out of anybody's reach.
DaemonDies ==
    /\ up
    /\ up' = FALSE /\ at' = "down" /\ child' = NoPid
    /\ proc' = [p \in Pids |-> IF proc[p] = "zombie" THEN "none" ELSE proc[p]]
    /\ Strays({p \in {child} : p # NoPid /\ pidFile # p})
    /\ UNCHANGED <<boots, pidFile, socketFile, hit>>

DaemonBoots ==
    /\ ~up /\ boots < MaxBoots
    /\ boots' = boots + 1 /\ up' = TRUE /\ at' = "sweep"
    /\ UNCHANGED <<child, proc, pidFile, socketFile, lost, strayed, hit>>

SandboxedNext ==
    \/ SweepFindsNothing \/ SweepLeavesAlone \/ SweepTerminates \/ OrphanEnds
    \/ SpawnClears \/ SpawnRuns \/ PidFileOpens \/ PidFileWritten
    \/ Stops("stopping") \/ Stops("dropping") \/ Reap \/ StopKills \/ DropKills \/ StopCancelled
    \/ DaemonDies \/ DaemonBoots
    \/ \E p \in Pids : Execs(p) \/ Binds(p) \/ Exits(p) \/ Recycled(p) \/ StrangerEnds(p)

SandboxedSpec == SandboxedInit /\ [][SandboxedNext]_procVars

---------------------------------------------------------------------------
\* A backend that runs is one this daemon holds, or one the pid file names to the next daemon:
\* no teardown and no sweep leaves a model resident with nothing left to stop it by.  Excepted
\* are those a daemon died before it had recorded (`lost`).
NeverOutOfReach ==
    \A p \in Pids : Resident(p) => p = child \/ p = pidFile \/ p \in lost

\* No process but a backend of ours is ever signalled, whoever has the pid now: a stale pid
\* file is removed and nothing else.
SparesStrangers == ~hit

\* The backend this daemon holds finds its socket's path free, or bound by itself: what a
\* killed daemon, a crashed backend or a cancelled stop left there is gone before it runs.
RoomToBind ==
    ~strayed /\ child # NoPid => socketFile \in {NoPid, child}
=============================================================================
