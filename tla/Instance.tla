------------------------------ MODULE Instance ------------------------------
(***************************************************************************)
(* One daemon per socket: the lock of instance.rs and the start and stop   *)
(* of http/server.rs (serve, bind_listener) for several daemon processes   *)
(* started on the same path, any of which may be killed at any moment.     *)
(***************************************************************************)
CONSTANTS Daemons, Nobody

ASSUME InstanceAssumption == Nobody \notin Daemons

VARIABLES
  up,      \* up[d]: how far daemon d is
  lock,    \* the process that holds the flock on <socket>.lock
  socket,  \* the daemon whose listener the socket file leads to
  leftover \* a socket file is there

instanceVars == <<up, lock, socket, leftover>>

InstanceInit ==
  /\ up = [d \in Daemons |-> "off"]
  /\ lock = Nobody /\ socket = Nobody
  /\ leftover \in BOOLEAN

(* InstanceLock::acquire: never waits; a daemon that finds it held ends.   *)
Acquire(d) ==
  /\ up[d] = "off" /\ lock = Nobody
  /\ lock' = d /\ up' = [up EXCEPT ![d] = "building"]
  /\ UNCHANGED <<socket, leftover>>

(* The process ends: the kernel drops its lock, the file of its socket     *)
(* stays and leads nowhere.                                                *)
End(d) ==
  /\ up' = [up EXCEPT ![d] = "off"]
  /\ lock' = IF lock = d THEN Nobody ELSE lock
  /\ socket' = IF socket = d THEN Nobody ELSE socket
  /\ UNCHANGED leftover

(* serve: the router is built before anything is bound; it may fail.       *)
Build(d) ==
  /\ up[d] = "building"
  /\ \/ up' = [up EXCEPT ![d] = "built"] /\ UNCHANGED <<lock, socket, leftover>>
     \/ End(d)

(* bind_listener: remove the file that is there, whosever it is...         *)
RemoveStale(d) ==
  /\ up[d] = "built"
  /\ up' = [up EXCEPT ![d] = "cleared"]
  /\ leftover' = FALSE /\ socket' = Nobody
  /\ UNCHANGED lock

(* ...and bind; a path that is taken again, or another error, ends the     *)
(* start.  The accept loop subscribes to the shutdown only now.            *)
BindSocket(d) ==
  /\ up[d] = "cleared"
  /\ \/ /\ ~leftover
        /\ leftover' = TRUE /\ socket' = d
        /\ up' = [up EXCEPT ![d] = "serving"]
        /\ UNCHANGED lock
     \/ End(d)

Signal_DropsLock(d) ==  \* the lock is dropped when the shutdown begins
  \/ up[d] = "building" /\ End(d)
  \/ /\ up[d] = "serving"
     /\ up' = [up EXCEPT ![d] = "closing"]
     /\ lock' = Nobody
     /\ UNCHANGED <<socket, leftover>>

(* The shutdown signal: during the build the process exits at once; the    *)
(* accept loop stops.  Between the two nobody is subscribed and the        *)
(* broadcast is lost on the server.                                        *)
Signal(d) ==
  \/ up[d] = "building" /\ End(d)
  \/ /\ up[d] = "serving"
     /\ up' = [up EXCEPT ![d] = "closing"]
     /\ UNCHANGED <<lock, socket, leftover>>

Unlink(d) ==
  /\ up[d] = "closing"
  /\ up' = [up EXCEPT ![d] = "unlinked"]
  /\ leftover' = FALSE /\ socket' = Nobody
  /\ UNCHANGED lock

(* "Only now, with the socket gone, may the next daemon start."            *)
LetGo(d) == up[d] = "unlinked" /\ End(d)

Kill(d) == up[d] # "off" /\ End(d)

InstanceNext ==
  \E d \in Daemons: \/ Acquire(d)
                    \/ Build(d)
                    \/ RemoveStale(d)
                    \/ BindSocket(d)
                    \/ Signal(d)
                    \/ Unlink(d)
                    \/ LetGo(d)
                    \/ Kill(d)

InstanceSpec == InstanceInit /\ [][InstanceNext]_instanceVars

-----------------------------------------------------------------------------
(* A daemon that serves is the one the socket leads to: no start, no stop  *)
(* and no crash of another daemon takes its socket away                    *)
(* (instance.rs:4-10).                                                     *)
ServingIsReachable ==
  \A d \in Daemons: up[d] = "serving" => socket = d /\ leftover

=============================================================================
