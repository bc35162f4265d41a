-------------------------- MODULE BackendLifecycle --------------------------
(***************************************************************************)
(* subprocess/mod.rs and subprocess/systemd.rs: the life of one backend    *)
(* instance (a backend serving a model), whose socket path and unit name   *)
(* are fixed, under the handles that start, restart, stop and drop it.     *)
(*                                                                         *)
(* Every handle talks to systemd by unit name and to the backend by socket *)
(* path, so a handle can speak for a backend that it did not start.  Two   *)
(* different instances share neither name, and one is modelled.  A unit    *)
(* name holds the daemon's pid and start time: each life of the daemon has *)
(* a name of its own, and the socket path is the same for all.             *)
(*                                                                         *)
(* Op_Fault is Op with a plausible bug.                                    *)
(***************************************************************************)
EXTENDS Naturals, FiniteSets

CONSTANTS Handles,     \* calls of start
          MaxSpawns,   \* bound: units started
          MaxLives,    \* bound: runs of the daemon
          None

ASSUME BoundsAssumption ==
    /\ MaxSpawns \in Nat /\ MaxLives \in Nat \ {0}
    /\ None \notin Handles

Backends == 1 .. MaxSpawns
Lives == 1 .. MaxLives

VARIABLES
    stage,    \* how far each handle has come
    again,    \* whether its spawn is that of restart_if_gone
    own,      \* the backend its supervisor was made for, or 0
    stopped,  \* Unit.stopped of its supervisor
    claim,    \* RUNNING: the handle that holds the instance, or None
    life,     \* which run of the daemon this is
    swept,    \* cleanup_orphans has run in this life
    unit,     \* systemd: the backend under each life's unit name, or 0
    ghosts,   \* systemd-run processes whose spawn was cancelled, by life
    process,  \* what became of each backend process
    socket,   \* the backend whose socket is at the path, or 0
    died,     \* history: backends that ended without being told to
    loose,    \* history: backends left behind by a stop that did not take, or
              \* started by a cancelled spawn
    late      \* history: a handle was dropped after its shutdown

vars == <<stage, again, own, stopped, claim, life, swept, unit, ghosts, process, socket,
          died, loose, late>>

\* Inside `start` with no backend to drop yet; inside `load`; held by its caller.
Starting == {"clearing", "launching", "pinging"}
Loading == {"restopping", "posting"}
Held == {"up", "loaded", "failed"}
Stages == {"idle", "stopping", "shut", "dropping", "over"} \union Starting \union Loading \union Held

\* A handle in one of these has a supervisor that speaks for own[h].
Speaking(h) == stage[h] \in Held \union Loading \union {"pinging"} /\ ~stopped[h]

\* A handle, a unit name and the socket path name at most one backend each.
TypeOK ==
    /\ stage \in [Handles -> Stages]
    /\ again \in [Handles -> BOOLEAN] /\ stopped \in [Handles -> BOOLEAN]
    /\ own \in [Handles -> Backends \union {0}]
    /\ claim \in Handles \union {None}
    /\ life \in Lives /\ swept \in BOOLEAN
    /\ unit \in [Lives -> Backends \union {0}]
    /\ ghosts \subseteq Lives
    /\ process \in [Backends -> {"none", "starting", "serving", "gone"}]
    /\ socket \in Backends \union {0}
    /\ died \subseteq Backends /\ loose \subseteq Backends
    /\ late \in BOOLEAN

Init ==
    /\ stage = [h \in Handles |-> "idle"]
    /\ again = [h \in Handles |-> FALSE] /\ stopped = [h \in Handles |-> FALSE]
    /\ own = [h \in Handles |-> 0]
    /\ claim = None
    /\ life = 1 /\ swept = FALSE
    /\ unit = [l \in Lives |-> 0]
    /\ ghosts = {}
    /\ process = [b \in Backends |-> "none"]
    /\ socket = 0
    /\ died = {} /\ loose = {} /\ late = FALSE

Goto(h, s) == stage' = [stage EXCEPT ![h] = s]
Alive(b) == process[b] \in {"starting", "serving"}

\* `systemctl --user stop` of a life's unit.  It takes, and the process is gone
\* when it returns, or it fails and the unit stays.
StopUnit(l) ==
    \/ /\ unit[l] = 0
       /\ UNCHANGED <<unit, process, loose>>
    \/ /\ unit[l] # 0
       /\ unit' = [unit EXCEPT ![l] = 0]
       /\ process' = [process EXCEPT ![unit[l]] = "gone"]
       /\ UNCHANGED loose
    \/ /\ unit[l] # 0
       /\ loose' = loose \union {unit[l]}
       /\ UNCHANGED <<unit, process>>

\* Unit::stop and Unit::stop_blocking: at most one attempt for each supervisor.
StopOnce(h) ==
    /\ stopped' = [stopped EXCEPT ![h] = TRUE]
    /\ IF stopped[h] THEN UNCHANGED <<unit, process, loose>> ELSE StopUnit(life)

\* The next process to be started.
Fresh(b) == process[b] = "none" /\ \A c \in Backends : c < b => process[c] # "none"

-----------------------------------------------------------------------------
\* start_with up to the spawn: refused when the instance is claimed; an error
\* before the spawn (no binary, no cache directory) drops the claim again.
Start(h) ==
    /\ swept /\ stage[h] = "idle"
    /\ \/ claim = None /\ Goto(h, "clearing") /\ claim' = h
       \/ Goto(h, "over") /\ UNCHANGED claim
    /\ UNCHANGED <<again, own, stopped, life, swept, unit, ghosts, process, socket, died, loose, late>>

\* stop_stale_unit, and then the unlinking of the socket.
ClearStale(h) ==
    /\ stage[h] = "clearing"
    /\ StopUnit(life)
    /\ socket' = 0
    /\ Goto(h, "launching")
    /\ UNCHANGED <<again, own, stopped, claim, life, swept, ghosts, died, late>>

\* The spawn returns Err: `start` drops the claim, `load` leaves the handle with
\* its stopped supervisor.
LaunchFails(h) ==
    /\ stage[h] = "launching"
    /\ IF again[h]
       THEN Goto(h, "failed") /\ UNCHANGED claim
       ELSE Goto(h, "over") /\ claim' = None
    /\ UNCHANGED <<again, own, stopped, life, swept, unit, ghosts, process, socket, died, loose, late>>

\* systemd-run succeeds: the unit of that name was not loaded.  The new Unit
\* replaces the handle's supervisor, and the old one is dropped: it stops by name
\* unless it was stopped before.
Launch(h) ==
    LET dropStops == again[h] /\ ~stopped[h] IN
    /\ stage[h] = "launching"
    /\ unit[life] = 0
    /\ \E b \in Backends :
        /\ Fresh(b)
        /\ unit' = [unit EXCEPT ![life] = IF dropStops THEN 0 ELSE b]
        /\ process' = [process EXCEPT ![b] = IF dropStops THEN "gone" ELSE "starting"]
        /\ own' = [own EXCEPT ![h] = b]
    /\ stopped' = [stopped EXCEPT ![h] = FALSE]
    /\ Goto(h, "pinging")
    /\ UNCHANGED <<again, claim, life, swept, ghosts, socket, died, loose, late>>

\* wait_for_ping: whoever serves the socket answers.
Pinged(h) ==
    /\ stage[h] = "pinging"
    /\ socket # 0 /\ process[socket] = "serving"
    /\ Goto(h, IF again[h] THEN "posting" ELSE "up")
    /\ UNCHANGED <<again, own, stopped, claim, life, swept, unit, ghosts, process, socket, died, loose, late>>

\* Thirty seconds without an answer: `start` drops the backend it has made,
\* `load` leaves it to its caller.
PingTimesOut(h) ==
    /\ stage[h] = "pinging"
    /\ IF again[h]
       THEN Goto(h, "failed") /\ UNCHANGED socket
       ELSE Goto(h, "dropping") /\ socket' = 0
    /\ UNCHANGED <<again, own, stopped, claim, life, swept, unit, ghosts, process, died, loose, late>>

\* load: one ping, which a backend that is alive but slow may fail.
IsAlive(h) ==
    /\ stage[h] = "up"
    /\ \/ socket # 0 /\ process[socket] = "serving" /\ Goto(h, "posting")
       \/ Goto(h, "restopping")
    /\ UNCHANGED <<again, own, stopped, claim, life, swept, unit, ghosts, process, socket, died, loose, late>>

Restop_Skipped(h) ==
    /\ stage[h] = "restopping"
    /\ again' = [again EXCEPT ![h] = TRUE]
    /\ Goto(h, "clearing")
    /\ UNCHANGED <<own, stopped, claim, life, swept, unit, ghosts, process, socket, died, loose, late>>

\* restart_if_gone stops the old unit before it spawns the instance again.
Restop(h) ==
    /\ stage[h] = "restopping"
    /\ StopOnce(h)
    /\ again' = [again EXCEPT ![h] = TRUE]
    /\ Goto(h, "clearing")
    /\ UNCHANGED <<own, claim, life, swept, ghosts, socket, died, late>>

\* POST /v1/load and the polls of /v1/status: ready, or any of the failures.
Load(h) ==
    /\ stage[h] = "posting"
    /\ \/ socket # 0 /\ process[socket] = "serving" /\ Goto(h, "loaded")
       \/ Goto(h, "failed")
    /\ UNCHANGED <<again, own, stopped, claim, life, swept, unit, ghosts, process, socket, died, loose, late>>

Shutdown_ReleasesFirst(h) ==
    /\ stage[h] \in Held
    /\ Goto(h, "stopping")
    /\ claim' = None
    /\ UNCHANGED <<again, own, stopped, life, swept, unit, ghosts, process, socket, died, loose, late>>

\* shutdown awaits the stop ...
Shutdown(h) ==
    /\ stage[h] \in Held
    /\ Goto(h, "stopping")
    /\ UNCHANGED <<again, own, stopped, claim, life, swept, unit, ghosts, process, socket, died, loose, late>>

\* ... and then unlinks the socket and gives the claim back.
FinishShutdown(h) ==
    /\ stage[h] = "stopping"
    /\ StopOnce(h)
    /\ socket' = 0
    /\ claim' = None
    /\ Goto(h, "shut")
    /\ UNCHANGED <<again, own, life, swept, ghosts, died, late>>

\* Drop for SubprocessBackend unlinks the socket, after a shutdown too ...
DropBackend(h) ==
    /\ stage[h] \in Held \union {"shut"}
    /\ socket' = 0
    /\ late' = (late \/ stage[h] = "shut")
    /\ Goto(h, IF stage[h] = "shut" THEN "over" ELSE "dropping")
    /\ UNCHANGED <<again, own, stopped, claim, life, swept, unit, ghosts, process, died, loose>>

\* ... and then come the fields: the supervisor stops the unit, the claim goes.
DropFields(h) ==
    /\ stage[h] = "dropping"
    /\ StopOnce(h)
    /\ claim' = None
    /\ Goto(h, "over")
    /\ UNCHANGED <<again, own, life, swept, ghosts, socket, died, late>>

\* The future of a start, a load or a shutdown is dropped at an await.  A
\* systemd-run goes on without its caller; so does a systemctl stop, which takes
\* or not before anything else is asked of systemd.  (Dropped while it polls, it
\* does what it does when it times out; dropped in a load, what a failed load does.)
CancelSpawn(h) ==
    /\ stage[h] \in {"clearing", "launching"}
    /\ IF stage[h] = "clearing"
       THEN StopUnit(life) /\ UNCHANGED ghosts
       ELSE ghosts' = ghosts \union {life} /\ UNCHANGED <<unit, process, loose>>
    /\ IF again[h]
       THEN Goto(h, "failed") /\ UNCHANGED claim
       ELSE Goto(h, "over") /\ claim' = None
    /\ UNCHANGED <<again, own, stopped, life, swept, socket, died, late>>

CancelStop(h) ==
    /\ stage[h] \in {"stopping", "restopping"}
    /\ StopOnce(h)
    /\ Goto(h, "failed")
    /\ UNCHANGED <<again, own, claim, life, swept, ghosts, socket, died, late>>

-----------------------------------------------------------------------------
\* The process binds its socket, or finds a file at the path and exits.
Bind(b) ==
    /\ process[b] = "starting"
    /\ IF socket = 0
       THEN /\ socket' = b /\ process' = [process EXCEPT ![b] = "serving"]
            /\ UNCHANGED <<unit, died>>
       ELSE /\ process' = [process EXCEPT ![b] = "gone"] /\ died' = died \union {b}
            /\ unit' = [l \in Lives |-> IF unit[l] = b THEN 0 ELSE unit[l]]
            /\ UNCHANGED socket
    /\ UNCHANGED <<stage, again, own, stopped, claim, life, swept, ghosts, loose, late>>

\* The process dies, and systemd collects the unit; the socket file stays.
Die(b) ==
    /\ Alive(b)
    /\ process' = [process EXCEPT ![b] = "gone"] /\ died' = died \union {b}
    /\ unit' = [l \in Lives |-> IF unit[l] = b THEN 0 ELSE unit[l]]
    /\ UNCHANGED <<stage, again, own, stopped, claim, life, swept, ghosts, socket, loose, late>>

\* A systemd-run without a caller starts its unit, or is refused.
GhostRuns(l) ==
    /\ l \in ghosts
    /\ ghosts' = ghosts \ {l}
    /\ \/ UNCHANGED <<unit, process, loose>>
       \/ /\ unit[l] = 0
          /\ \E b \in Backends :
              /\ Fresh(b)
              /\ unit' = [unit EXCEPT ![l] = b]
              /\ process' = [process EXCEPT ![b] = "starting"]
              /\ loose' = loose \union {b}
    /\ UNCHANGED <<stage, again, own, stopped, claim, life, swept, socket, died, late>>

\* The daemon is killed, with no Drop run, and started again.
Crash ==
    /\ life < MaxLives
    /\ life' = life + 1 /\ swept' = FALSE
    /\ stage' = [h \in Handles |-> IF stage[h] = "idle" THEN "idle" ELSE "over"]
    /\ claim' = None
    /\ UNCHANGED <<again, own, stopped, unit, ghosts, process, socket, died, loose, late>>

\* cleanup_orphans, at startup: every unit of a daemon that no longer runs is
\* told to stop, each once.
Sweep ==
    /\ ~swept /\ swept' = TRUE
    /\ \E took \in SUBSET {l \in Lives : l < life /\ unit[l] # 0} :
        /\ unit' = [l \in Lives |-> IF l \in took THEN 0 ELSE unit[l]]
        /\ process' = [b \in Backends |-> IF \E l \in took : unit[l] = b THEN "gone" ELSE process[b]]
        /\ loose' = loose \union {unit[l] : l \in {l \in Lives : l < life /\ unit[l] # 0} \ took}
    /\ UNCHANGED <<stage, again, own, stopped, claim, life, ghosts, socket, died, late>>

HandleStep(h) ==
    \/ ClearStale(h) \/ LaunchFails(h) \/ Launch(h) \/ Pinged(h) \/ PingTimesOut(h)
    \/ Restop(h) \/ Load(h) \/ FinishShutdown(h) \/ DropFields(h)

Next ==
    \/ \E h \in Handles :
        \/ HandleStep(h)
        \/ Start(h) \/ IsAlive(h) \/ Shutdown(h) \/ DropBackend(h) \/ CancelSpawn(h) \/ CancelStop(h)
    \/ \E b \in Backends : Bind(b) \/ Die(b)
    \/ \E l \in Lives : GhostRuns(l)
    \/ Crash
    \/ Sweep

Spec == Init /\ [][Next]_vars

-----------------------------------------------------------------------------
\* The instance is claimed exactly while some handle starts, holds or stops it:
\* a claim that outlives its handle would refuse the model until a restart.
ClaimIsExact ==
    \A h \in Handles : claim = h <=> stage[h] \notin {"idle", "shut", "over"}

\* "every handle speaking for the backend it started" (Claim): while a handle's
\* supervisor is not stopped, its unit name is that of its own backend, unless the
\* backend ended by itself.  No other handle's spawn or teardown stopped it.
HandleSpeaks ==
    \A h \in Handles : Speaking(h) /\ own[h] \notin died => unit[life] = own[h]

\* Every backend under a unit has somebody who will stop it: the handle that
\* holds it, or the sweep that this life has not made yet.  The others are those
\* that a failed stop or a cancelled spawn left.
EveryBackendOwned ==
    \A l \in Lives : unit[l] \notin loose \union {0} =>
        \/ l < life /\ ~swept
        \/ l = life /\ \E h \in Handles :
              /\ own[h] = unit[l] /\ ~stopped[h]
              /\ stage[h] \in Held \union Loading \union {"pinging", "stopping", "dropping"}

\* A backend that serves is reached through its handle: nobody unlinks or takes
\* its socket, except a handle that is dropped after its shutdown.
NeverStranded ==
    \A h \in Handles : Speaking(h) /\ process[own[h]] = "serving" /\ ~late
        => socket = own[h]

=============================================================================
