---------------------- MODULE BackendLifecycleProofs -----------------------
(***************************************************************************)
(* Proofs about BackendLifecycle, for any number of handles, spawns and    *)
(* lives of the daemon.  One handle at a time has the claim, so a handle   *)
(* that clears, launches or stops by name finds no other that speaks for   *)
(* the unit; what is left under the name then is loose.                    *)
(* The second part is about Sandboxed, where there are no names but pids:  *)
(* a leader is in its handle, named by its file, or held still.            *)
(* Then Wasm: whatever is swapped while calls run, the endpoint of a call  *)
(* is one configuration's and so are its lists.  Then Beeper: when the end *)
(* of the tone is heard, and until when the stream is held.  And Realtime: *)
(* what a guest received, what is parked and what is on its way carry      *)
(* consecutive frames.  Last LaunchPlan and Settings, where texts are      *)
(* written and read back: two recursive functions that step alike agree    *)
(* everywhere, since nowhere is there a least place where they differ.     *)
(***************************************************************************)
EXTENDS MCBackends, SequenceTheorems, FiniteSetTheorems, WellFoundedInduction, TLAPS

\* The stages in which a supervisor that is not stopped answers for a unit.
Answering == Held \union Loading \union {"pinging", "stopping", "dropping"}

Answers == \A h \in Handles : stage[h] \in Answering /\ ~stopped[h] =>
    /\ own[h] \in Backends
    /\ own[h] \notin died => unit[life] = own[h]

\* A handle that spawns again has stopped the supervisor it replaces.
Restopped == \A h \in Handles :
    /\ stage[h] \in {"clearing", "launching"} /\ again[h] => stopped[h]
    /\ stage[h] = "idle" => ~again[h]

IInv ==
    /\ TypeOK /\ ClaimIsExact /\ Answers /\ Restopped
    /\ EveryBackendOwned /\ NeverStranded

USE BoundsAssumption DEF Goto, Backends, Lives

-----------------------------------------------------------------------------
\* What `systemctl stop` leaves under a name is nothing or loose (StopUnit).
LEMMA StopLeavesLoose ==
    ASSUME TypeOK, NEW l \in Lives, StopUnit(l)
    PROVE  /\ unit' \in [Lives -> Backends \union {0}]
           /\ process' \in [Backends -> {"none", "starting", "serving", "gone"}]
           /\ loose' \subseteq Backends /\ loose \subseteq loose'
           /\ unit'[l] \in loose' \union {0}
           /\ \A m \in Lives \ {l} : unit'[m] = unit[m]
           /\ \A b \in Backends : process'[b] = "serving" => process[b] = "serving"
  BY DEF TypeOK, StopUnit

\* A supervisor that was stopped answers for nothing any more, whether the stop
\* took or not (Unit::stop).
LEMMA StopOnceLeavesLoose ==
    ASSUME IInv, NEW h \in Handles, stage[h] \in Answering, StopOnce(h)
    PROVE  /\ unit' \in [Lives -> Backends \union {0}]
           /\ process' \in [Backends -> {"none", "starting", "serving", "gone"}]
           /\ loose' \subseteq Backends /\ loose \subseteq loose'
           /\ stopped' = [stopped EXCEPT ![h] = TRUE]
           /\ unit'[life] \in loose' \union {0}
           /\ \A m \in Lives \ {life} : unit'[m] = unit[m]
           /\ \A b \in Backends : process'[b] = "serving" => process[b] = "serving"
  <1>1. CASE stopped[h]
    <2>1. \A q \in Handles : stage[q] \in Answering => q = h
      BY DEF IInv, TypeOK, ClaimIsExact, Answering, Held, Loading
    <2>2. unit[life] \in loose \union {0}
      BY <1>1, <2>1 DEF IInv, TypeOK, EveryBackendOwned, Answering
    <2> QED
      BY <1>1, <2>2 DEF StopOnce, IInv, TypeOK
  <1>2. CASE ~stopped[h]
    BY <1>2, StopLeavesLoose DEF StopOnce, IInv, TypeOK
  <1> QED
    BY <1>1, <1>2

\* The daemon starts with no handle and no unit.
LEMMA InitIInv == Init => IInv
  <1> SUFFICES ASSUME Init PROVE IInv
    OBVIOUS
  <1>1. TypeOK
    <2>1. life \in Lives
      BY DEF Init
    <2>2. \A h \in Handles : stage[h] \in Stages
      BY DEF Init, Stages
    <2> QED
      BY <2>1, <2>2 DEF Init, TypeOK
  <1>2. ClaimIsExact
    BY DEF Init, ClaimIsExact
  <1>3. Answers /\ Restopped /\ NeverStranded
    BY DEF Init, Answers, Restopped, NeverStranded, Speaking, Answering, Loading, Held
  <1>4. EveryBackendOwned
    BY DEF Init, EveryBackendOwned
  <1> QED
    BY <1>1, <1>2, <1>3, <1>4 DEF IInv

\* The steps of a handle that ask nothing of systemd.
LEMMA QuietSteps ==
    ASSUME IInv, NEW h \in Handles,
           \/ Start(h) \/ LaunchFails(h) \/ Pinged(h) \/ PingTimesOut(h)
           \/ IsAlive(h) \/ Load(h) \/ Shutdown(h) \/ DropBackend(h)
    PROVE  IInv'
  <1> USE DEF IInv, TypeOK, Stages, Starting, Loading, Held
  <1>1. CASE Start(h)
    <2>1. TypeOK'
      BY <1>1 DEF Start
    <2>2. ClaimIsExact'
      BY <1>1 DEF Start, ClaimIsExact
    <2>3. Answers' /\ Restopped'
      BY <1>1 DEF Start, Answers, Restopped, Answering
    <2>4. EveryBackendOwned'
      BY <1>1 DEF Start, EveryBackendOwned
    <2>5. NeverStranded'
      BY <1>1 DEF Start, NeverStranded, Speaking, Answers, Answering, Restopped, ClaimIsExact
    <2> QED
      BY <2>1, <2>2, <2>3, <2>4, <2>5
  <1>2. CASE LaunchFails(h)
    <2>1. TypeOK'
      BY <1>2 DEF LaunchFails
    <2>2. ClaimIsExact'
      BY <1>2 DEF LaunchFails, ClaimIsExact
    <2>3. Answers' /\ Restopped'
      BY <1>2 DEF LaunchFails, Answers, Restopped, Answering
    <2>4. EveryBackendOwned'
      BY <1>2 DEF LaunchFails, EveryBackendOwned
    <2>5. NeverStranded'
      BY <1>2 DEF LaunchFails, NeverStranded, Speaking, Answers, Answering, Restopped, ClaimIsExact
    <2> QED
      BY <2>1, <2>2, <2>3, <2>4, <2>5
  <1>3. CASE Pinged(h)
    BY <1>3 DEF Pinged, ClaimIsExact, Answers, Restopped, EveryBackendOwned, NeverStranded,
       Speaking, Answering
  <1>4. CASE PingTimesOut(h)
    <2>1. TypeOK'
      BY <1>4 DEF PingTimesOut
    <2>2. ClaimIsExact'
      BY <1>4 DEF PingTimesOut, ClaimIsExact
    <2>3. Answers' /\ Restopped'
      BY <1>4 DEF PingTimesOut, Answers, Restopped, Answering
    <2>4. EveryBackendOwned'
      BY <1>4, SMTT(30) DEF PingTimesOut, EveryBackendOwned
    <2>5. NeverStranded'
      BY <1>4, SMTT(30) DEF PingTimesOut, NeverStranded, Speaking, Answers, Answering, Restopped, ClaimIsExact
    <2> QED
      BY <2>1, <2>2, <2>3, <2>4, <2>5
  <1>5. CASE IsAlive(h)
    BY <1>5 DEF IsAlive, ClaimIsExact, Answers, Restopped, EveryBackendOwned, NeverStranded,
       Speaking, Answering
  <1>6. CASE Load(h)
    BY <1>6, SMTT(30) DEF Load, ClaimIsExact, Answers, Restopped, EveryBackendOwned, NeverStranded,
       Speaking, Answering
  <1>7. CASE Shutdown(h)
    BY <1>7 DEF Shutdown, ClaimIsExact, Answers, Restopped, EveryBackendOwned, NeverStranded,
       Speaking, Answering
  <1>8. CASE DropBackend(h)
    <2>1. TypeOK'
      BY <1>8 DEF DropBackend
    <2>2. ClaimIsExact'
      BY <1>8 DEF DropBackend, ClaimIsExact
    <2>3. Answers' /\ Restopped'
      BY <1>8 DEF DropBackend, Answers, Restopped, Answering
    <2>4. EveryBackendOwned'
      BY <1>8 DEF DropBackend, EveryBackendOwned
    <2>5. NeverStranded'
      BY <1>8, ZenonT(60) DEF DropBackend, NeverStranded, Speaking, Answers, Answering, Restopped, ClaimIsExact
    <2> QED
      BY <2>1, <2>2, <2>3, <2>4, <2>5
  <1> QED
    BY <1>1, <1>2, <1>3, <1>4, <1>5, <1>6, <1>7, <1>8

\* The steps of a handle that stop its own supervisor.
LEMMA StoppingSteps ==
    ASSUME IInv, NEW h \in Handles,
           Restop(h) \/ FinishShutdown(h) \/ DropFields(h) \/ CancelStop(h)
    PROVE  IInv'
  <1> USE DEF IInv, Stages, Starting, Loading, Held
  <1>1. StopOnce(h) /\ stage[h] \in Answering
    BY DEF Restop, FinishShutdown, DropFields, CancelStop, Answering
  <1>2. /\ unit' \in [Lives -> Backends \union {0}]
        /\ process' \in [Backends -> {"none", "starting", "serving", "gone"}]
        /\ loose' \subseteq Backends /\ loose \subseteq loose'
        /\ stopped' = [stopped EXCEPT ![h] = TRUE]
        /\ unit'[life] \in loose' \union {0}
        /\ \A m \in Lives \ {life} : unit'[m] = unit[m]
        /\ \A b \in Backends : process'[b] = "serving" => process[b] = "serving"
    BY <1>1, StopOnceLeavesLoose
  <1>3. \A q \in Handles : stage[q] \in Answering \union Starting => q = h
    BY <1>1 DEF TypeOK, ClaimIsExact, Answering
  <1>4. /\ stage' = [stage EXCEPT ![h] = stage'[h]]
        /\ stage'[h] \in {"clearing", "shut", "over", "failed"}
        /\ stage'[h] \in {"clearing", "failed"} => claim' = claim
        /\ stage'[h] \in {"shut", "over"} => claim' = None
        /\ UNCHANGED <<own, life, swept, ghosts, died, late>>
        /\ socket' \in {socket, 0}
        /\ again' \in [Handles -> BOOLEAN]
        /\ \A q \in Handles \ {h} : again'[q] = again[q]
    BY DEF Restop, FinishShutdown, DropFields, CancelStop, TypeOK
  <1> HIDE DEF IInv
  <1>5. TypeOK'
    BY <1>2, <1>4 DEF IInv, TypeOK
  <1>6. ClaimIsExact'
    BY <1>1, <1>3, <1>4 DEF IInv, TypeOK, ClaimIsExact, Answering
  <1>7. Answers' /\ Restopped' /\ NeverStranded'
    BY <1>2, <1>3, <1>4 DEF IInv, TypeOK, Answers, Restopped, NeverStranded, Speaking, Answering
  <1>8. EveryBackendOwned'
    BY <1>2, <1>4 DEF IInv, TypeOK, EveryBackendOwned
  <1> QED
    BY <1>5, <1>6, <1>7, <1>8 DEF IInv

\* The steps of a spawn: the handle has the claim and answers for nothing yet.
LEMMA SpawningSteps ==
    ASSUME IInv, NEW h \in Handles, ClearStale(h) \/ Launch(h) \/ CancelSpawn(h)
    PROVE  IInv'
  <1> USE DEF Stages, Starting, Loading, Held
  <1>1. \A q \in Handles : stage[q] \in Answering \union Starting => q = h
    BY DEF IInv, TypeOK, ClaimIsExact, Answering, ClearStale, Launch, CancelSpawn
  <1>2. stage[h] \in {"clearing", "launching"}
    BY DEF ClearStale, Launch, CancelSpawn
  <1>3. CASE ClearStale(h)
    <2>1. TypeOK'
      BY <1>3, StopLeavesLoose DEF IInv, TypeOK, ClearStale
    <2>2. ClaimIsExact'
      BY <1>3 DEF IInv, TypeOK, ClaimIsExact, ClearStale
    <2>3. Answers' /\ Restopped' /\ NeverStranded'
      BY <1>1, <1>3 DEF IInv, TypeOK, Answers, Restopped, NeverStranded, Speaking, Answering,
         ClearStale
    <2>4. EveryBackendOwned'
      BY <1>1, <1>3, StopLeavesLoose DEF IInv, TypeOK, EveryBackendOwned, ClearStale, Answering
    <2> QED
      BY <2>1, <2>2, <2>3, <2>4 DEF IInv
  <1>4. CASE Launch(h)
    <2>1. ~(again[h] /\ ~stopped[h])
      BY <1>4 DEF IInv, Restopped, Launch
    <2>2. PICK b \in Backends :
            /\ Fresh(b)
            /\ unit' = [unit EXCEPT ![life] = b]
            /\ process' = [process EXCEPT ![b] = "starting"]
            /\ own' = [own EXCEPT ![h] = b]
      BY <1>4, <2>1 DEF Launch
    <2>3. /\ stage[h] = "launching" /\ stage' = [stage EXCEPT ![h] = "pinging"]
          /\ stopped' = [stopped EXCEPT ![h] = FALSE]
          /\ UNCHANGED <<again, claim, life, swept, ghosts, socket, died, loose, late>>
      BY <1>4 DEF Launch
    <2>4. TypeOK' /\ ClaimIsExact' /\ Restopped'
      BY <2>2, <2>3 DEF IInv, TypeOK, ClaimIsExact, Restopped
    <2>5. Answers' /\ NeverStranded'
      BY <1>1, <2>2, <2>3 DEF IInv, TypeOK, Answers, NeverStranded, Speaking, Answering
    <2>6. EveryBackendOwned'
      BY <1>1, <2>2, <2>3 DEF IInv, TypeOK, EveryBackendOwned, Answering
    <2> QED
      BY <2>4, <2>5, <2>6 DEF IInv
  <1>5. CASE CancelSpawn(h)
    <2>1. /\ stage' = [stage EXCEPT ![h] = IF again[h] THEN "failed" ELSE "over"]
          /\ claim' = IF again[h] THEN claim ELSE None
          /\ again[h] => stopped[h]
          /\ ghosts' \subseteq Lives
          /\ UNCHANGED <<again, own, stopped, life, swept, socket, died, late>>
      BY <1>2, <1>5 DEF CancelSpawn, IInv, TypeOK, Restopped
    <2>2. /\ unit' \in [Lives -> Backends \union {0}]
          /\ process' \in [Backends -> {"none", "starting", "serving", "gone"}]
          /\ loose' \subseteq Backends /\ loose \subseteq loose'
          /\ unit'[life] = unit[life] \/ unit'[life] \in loose' \union {0}
          /\ \A m \in Lives \ {life} : unit'[m] = unit[m]
      BY <1>5, StopLeavesLoose DEF CancelSpawn, IInv, TypeOK
    <2>3. unit[life] \in loose \union {0}
      BY <1>1, <1>2 DEF IInv, TypeOK, EveryBackendOwned, Answering
    <2>4. TypeOK' /\ ClaimIsExact' /\ Restopped'
      BY <1>1, <1>2, <2>1, <2>2 DEF IInv, TypeOK, ClaimIsExact, Restopped
    <2>5. Answers' /\ NeverStranded'
      BY <1>1, <2>1 DEF IInv, TypeOK, Answers, NeverStranded, Speaking, Answering
    <2>6. EveryBackendOwned'
      BY <1>1, <2>1, <2>2, <2>3 DEF IInv, TypeOK, EveryBackendOwned, Answering
    <2> QED
      BY <2>4, <2>5, <2>6 DEF IInv
  <1> QED
    BY <1>3, <1>4, <1>5

\* The steps of the processes, of systemd and of the daemon as a whole.
LEMMA WorldSteps ==
    ASSUME IInv,
           \/ \E b \in Backends : Bind(b) \/ Die(b)
           \/ \E l \in Lives : GhostRuns(l)
           \/ Crash
           \/ Sweep
    PROVE  IInv'
  <1> USE DEF Stages, Starting, Loading, Held
  <1>1. ASSUME NEW b \in Backends, Bind(b) PROVE IInv'
    <2>1. TypeOK' /\ ClaimIsExact' /\ Restopped'
      BY <1>1, ZenonT(60) DEF Bind, IInv, TypeOK, ClaimIsExact, Restopped
    <2>2. Answers'
      BY <1>1 DEF Bind, IInv, TypeOK, Answers
    <2>3. NeverStranded'
      BY <1>1 DEF Bind, IInv, TypeOK, NeverStranded, Speaking, Answers, Answering
    <2>4. EveryBackendOwned'
      BY <1>1 DEF Bind, IInv, TypeOK, EveryBackendOwned
    <2> QED
      BY <2>1, <2>2, <2>3, <2>4 DEF IInv
  <1>2. ASSUME NEW b \in Backends, Die(b) PROVE IInv'
    <2>1. TypeOK' /\ ClaimIsExact' /\ Restopped'
      BY <1>2 DEF Die, IInv, TypeOK, ClaimIsExact, Restopped
    <2>2. Answers' /\ NeverStranded'
      BY <1>2 DEF Die, IInv, TypeOK, Answers, NeverStranded, Speaking, Answering
    <2>3. EveryBackendOwned'
      BY <1>2 DEF Die, IInv, TypeOK, EveryBackendOwned
    <2> QED
      BY <2>1, <2>2, <2>3 DEF IInv
  <1>3. ASSUME NEW l \in Lives, GhostRuns(l) PROVE IInv'
    <2>1. TypeOK' /\ ClaimIsExact' /\ Restopped'
      <3>1. /\ unit' \in [Lives -> Backends \union {0}]
            /\ process' \in [Backends -> {"none", "starting", "serving", "gone"}]
            /\ loose' \subseteq Backends /\ ghosts' \subseteq Lives
        <4>1. ghosts' \subseteq Lives
          BY <1>3 DEF GhostRuns, IInv, TypeOK
        <4>2. CASE UNCHANGED <<unit, process, loose>>
          BY <4>1, <4>2 DEF IInv, TypeOK
        <4>3. ASSUME NEW b \in Backends, unit' = [unit EXCEPT ![l] = b],
                     process' = [process EXCEPT ![b] = "starting"],
                     loose' = loose \union {b}
              PROVE  /\ unit' \in [Lives -> Backends \union {0}]
                     /\ process' \in [Backends -> {"none", "starting", "serving", "gone"}]
                     /\ loose' \subseteq Backends
          BY <4>3 DEF IInv, TypeOK
        <4> QED
          BY <1>3, <4>1, <4>2, <4>3 DEF GhostRuns
      <3>2. UNCHANGED <<stage, again, own, stopped, claim, life, swept, socket, died, late>>
        BY <1>3 DEF GhostRuns
      <3> QED
        BY <3>1, <3>2 DEF IInv, TypeOK, ClaimIsExact, Restopped
    <2>2. Answers' /\ NeverStranded'
      BY <1>3 DEF GhostRuns, IInv, TypeOK, Answers, NeverStranded, Speaking, Answering
    <2>3. EveryBackendOwned'
      BY <1>3 DEF GhostRuns, IInv, TypeOK, EveryBackendOwned
    <2> QED
      BY <2>1, <2>2, <2>3 DEF IInv
  <1>4. CASE Crash
    <2>1. TypeOK' /\ ClaimIsExact' /\ Restopped' /\ Answers' /\ NeverStranded'
      <3>1. stage' \in [Handles -> Stages] /\ \A h \in Handles : stage'[h] \in {"idle", "over"}
        BY <1>4 DEF Crash, IInv, TypeOK
      <3>2. life' \in Lives /\ swept' = FALSE /\ claim' = None
        BY <1>4 DEF Crash, IInv, TypeOK
      <3>3. TypeOK'
        BY <1>4, <3>1, <3>2 DEF Crash, IInv, TypeOK
      <3>4. ClaimIsExact' /\ Answers' /\ NeverStranded'
        BY <3>1, <3>2 DEF ClaimIsExact, Answers, NeverStranded, Speaking, Answering
      <3>5. Restopped'
        BY <1>4, <3>1 DEF Crash, IInv, TypeOK, Restopped
      <3> QED
        BY <3>3, <3>4, <3>5
    <2>2. EveryBackendOwned'
      BY <1>4 DEF Crash, IInv, TypeOK, EveryBackendOwned
    <2> QED
      BY <2>1, <2>2 DEF IInv
  <1>5. CASE Sweep
    <2>1. PICK took \in SUBSET {l \in Lives : l < life /\ unit[l] # 0} :
            /\ unit' = [l \in Lives |-> IF l \in took THEN 0 ELSE unit[l]]
            /\ process' = [b \in Backends |-> IF \E l \in took : unit[l] = b THEN "gone" ELSE process[b]]
            /\ loose' = loose \union {unit[l] : l \in {l \in Lives : l < life /\ unit[l] # 0} \ took}
      BY <1>5 DEF Sweep
    <2>2. /\ swept' = TRUE
          /\ UNCHANGED <<stage, again, own, stopped, claim, life, ghosts, socket, died, late>>
      BY <1>5 DEF Sweep
    <2>3. TypeOK' /\ ClaimIsExact' /\ Restopped'
      BY <2>1, <2>2, ZenonT(60) DEF IInv, TypeOK, ClaimIsExact, Restopped
    <2>4. Answers' /\ NeverStranded'
      BY <2>1, <2>2 DEF IInv, TypeOK, Answers, NeverStranded, Speaking, Answering
    <2>5. EveryBackendOwned'
      BY <2>1, <2>2 DEF IInv, TypeOK, EveryBackendOwned
    <2> QED
      BY <2>3, <2>4, <2>5 DEF IInv
  <1> QED
    BY <1>1, <1>2, <1>3, <1>4, <1>5

\* Every step keeps the invariant.
LEMMA NextIInv == IInv /\ [Next]_vars => IInv'
  <1> SUFFICES ASSUME IInv, [Next]_vars PROVE IInv'
    OBVIOUS
  <1>1. CASE Next
    BY <1>1, QuietSteps, StoppingSteps, SpawningSteps, WorldSteps DEF Next, HandleStep
  <1>2. CASE UNCHANGED vars
    BY <1>2 DEF vars, IInv, TypeOK, ClaimIsExact, Answers, Restopped, EveryBackendOwned,
       NeverStranded, Speaking
  <1> QED
    BY <1>1, <1>2

\* IInv holds in every reachable state.
LEMMA InductiveInvariant == Spec => []IInv
  BY InitIInv, NextIInv, PTL DEF Spec

-----------------------------------------------------------------------------
\* RUNNING has the instance exactly while a handle starts, holds or stops it
\* (Claim::take, and the drops of Claim on every way out).
THEOREM ClaimNeverLeaks == Spec => []ClaimIsExact
  <1>1. IInv => ClaimIsExact
    BY DEF IInv
  <1> QED
    BY <1>1, InductiveInvariant, PTL

\* A supervisor that was not stopped names the unit of the backend it was made
\* for, unless that backend ended by itself (Claim, restart_if_gone).
THEOREM HandlesSpeakForTheirOwn == Spec => []HandleSpeaks
  <1>1. IInv => HandleSpeaks
    BY DEF IInv, Answers, HandleSpeaks, Speaking, Answering
  <1> QED
    BY <1>1, InductiveInvariant, PTL

\* Every unit has a handle or a sweep that will stop it, but for those left by a
\* failed stop or a cancelled spawn (Drop, shutdown, cleanup_orphan_units).
THEOREM NoBackendIsForgotten == Spec => []EveryBackendOwned
  <1>1. IInv => EveryBackendOwned
    BY DEF IInv
  <1> QED
    BY <1>1, InductiveInvariant, PTL

\* A serving backend keeps its socket, but for the drop of a handle that was shut
\* down before (spawn_sandboxed, Drop for SubprocessBackend).
THEOREM NoSocketIsStranded == Spec => []NeverStranded
  <1>1. IInv => NeverStranded
    BY SMTT(30) DEF IInv
  <1> QED
    BY <1>1, InductiveInvariant, PTL

-----------------------------------------------------------------------------
\* The process of a sandboxed backend (Sandboxed).

\* The stages in which this daemon has a leader to answer for.
Holding == {"spawned", "recording", "held", "stopping", "dropping", "killed"}

SandboxTyped ==
    /\ at \in {"sweep", "terminating", "idle", "cleared", "down"} \union Holding
    /\ up = (at # "down")
    /\ child \in Pids \union {NoPid} /\ (child \in Pids <=> at \in Holding)
    /\ proc \in [Pids -> {"none", "wrapper", "backend", "zombie", "stranger"}]
    /\ pidFile \in Pids \union {Absent, Empty}
    /\ socketFile \in Pids \union {NoPid}
    /\ lost \subseteq Pids /\ strayed \in BOOLEAN /\ hit = FALSE

\* The leader is ours until it is reaped, and only a leader waits to be.
LeaderInHand ==
    /\ child \in Pids => proc[child] \in {"wrapper", "backend", "zombie"}
    /\ \A p \in Pids : proc[p] = "zombie" => p = child

\* Who runs is the leader, or one the sweep of this daemon or the next reads of.
NamedOrHeld ==
    /\ \A p \in Pids : Resident(p) =>
          p = child \/ p \in lost \/ (p = pidFile /\ at \in {"sweep", "terminating", "down"})
    /\ at = "terminating" => pidFile \in Pids /\ proc[pidFile] \in {"backend", "none"}
    /\ lost # {} => strayed

SandboxInv ==
    /\ SandboxTyped /\ LeaderInHand /\ NamedOrHeld /\ RoomToBind
    /\ ~strayed /\ at = "cleared" => socketFile = NoPid

LEMMA SandboxStep ==
    ASSUME SandboxInv, [SandboxedNext]_procVars
    PROVE  SandboxInv'
<1>. USE SandboxedAssumption DEF SandboxInv, SandboxTyped, LeaderInHand, NamedOrHeld, RoomToBind,
         Resident, Holding, Absent, Empty
<1>1. CASE SweepFindsNothing
  BY <1>1 DEF SweepFindsNothing
<1>2. CASE SweepLeavesAlone
  BY <1>2 DEF SweepLeavesAlone, ExeMatches, Strays
<1>3. CASE SweepTerminates
  BY <1>3 DEF SweepTerminates, ExeMatches, Hits
<1>4. CASE OrphanEnds
  BY <1>4 DEF OrphanEnds
<1>5. CASE SpawnClears
  BY <1>5 DEF SpawnClears
<1>6. CASE SpawnRuns
  BY <1>6 DEF SpawnRuns
<1>7. CASE PidFileOpens
  BY <1>7 DEF PidFileOpens
<1>8. CASE PidFileWritten
  BY <1>8 DEF PidFileWritten
<1>9. CASE Stops("stopping") \/ Stops("dropping")
  BY <1>9 DEF Stops
<1>10. CASE Reap
  BY <1>10 DEF Reap, Reaped
<1>11. CASE StopKills
  BY <1>11 DEF StopKills
<1>12. CASE DropKills
  BY <1>12 DEF DropKills, Reaped
<1>13. CASE StopCancelled
  BY <1>13 DEF StopCancelled, Reaped
<1>14. CASE DaemonDies
  BY <1>14 DEF DaemonDies, Strays
<1>15. CASE DaemonBoots
  BY <1>15 DEF DaemonBoots
<1>16. ASSUME NEW p \in Pids, Execs(p)
      PROVE  SandboxInv'
  BY <1>16 DEF Execs
<1>17. ASSUME NEW p \in Pids, Binds(p)
      PROVE  SandboxInv'
  BY <1>17 DEF Binds, Ends
<1>18. ASSUME NEW p \in Pids, Exits(p)
      PROVE  SandboxInv'
  BY <1>18 DEF Exits, Ends
<1>19. ASSUME NEW p \in Pids, Recycled(p)
      PROVE  SandboxInv'
  BY <1>19 DEF Recycled
<1>20. ASSUME NEW p \in Pids, StrangerEnds(p)
      PROVE  SandboxInv'
  BY <1>20 DEF StrangerEnds
<1>21. CASE UNCHANGED procVars
  BY <1>21 DEF procVars
<1>. QED
  BY <1>1, <1>2, <1>3, <1>4, <1>5, <1>6, <1>7, <1>8, <1>9, <1>10, <1>11, <1>12, <1>13,
     <1>14, <1>15, <1>16, <1>17, <1>18, <1>19, <1>20, <1>21 DEF SandboxedNext

LEMMA SandboxAlways == SandboxedSpec => []SandboxInv
<1>1. SandboxedInit => SandboxInv
  BY SandboxedAssumption DEF SandboxedInit, SandboxInv, SandboxTyped, LeaderInHand, NamedOrHeld,
     RoomToBind, Resident, Holding, Absent, Empty
<1>2. SandboxInv /\ [SandboxedNext]_procVars => SandboxInv'
  BY SandboxStep
<1>. QED
  BY <1>1, <1>2, PTL DEF SandboxedSpec

\* sandbox_exec.rs, sweep_orphans and stop: over any lives of the daemon, a process that runs
\* is held or named to the next sweep, no stranger with an old pid is signalled, and the
\* leader finds its socket's path free.
THEOREM SandboxedStayInHand ==
    SandboxedSpec => [](NeverOutOfReach /\ SparesStrangers /\ RoomToBind)
<1>1. SandboxInv => NeverOutOfReach /\ SparesStrangers /\ RoomToBind
  BY DEF SandboxInv, SandboxTyped, NamedOrHeld, NeverOutOfReach, SparesStrangers
<1>. QED
  BY <1>1, SandboxAlways, PTL

\* Under either supervisor (systemd.rs, sandbox_exec.rs): a process that runs is in the hand
\* of this daemon or of its next life.
THEOREM ProcessesStayInHand == BackendsSpec => []ProcessesInHand
<1>1. BackendsInit => Init /\ SandboxedInit
  BY DEF BackendsInit
<1>2. [BackendsNext]_backendVars => [Next]_vars
  BY DEF BackendsNext, Is, backendVars
<1>3. [BackendsNext]_backendVars => [SandboxedNext]_procVars
  BY DEF BackendsNext, Is, backendVars
<1>4. BackendsSpec => Spec /\ SandboxedSpec
  BY <1>1, <1>2, <1>3, PTL DEF BackendsSpec, Spec, SandboxedSpec
<1>5. EveryBackendOwned /\ (NeverOutOfReach /\ SparesStrangers /\ RoomToBind) => ProcessesInHand
  BY DEF ProcessesInHand
<1>. QED
  BY <1>4, <1>5, NoBackendIsForgotten, SandboxedStayInHand, PTL

-----------------------------------------------------------------------------
\* A component, its configurations and its calls (Wasm).

\* What base_url is stored as: nothing, or what reads back as itself.
Stored == {v \in AnyValue : v = NoValue \/ (Parse(v) = v /\ v.host # NoHost)}

Configured ==
    /\ past \in Seq(Stored) /\ Len(past) > 0
    /\ headers = past[Len(past)]
    /\ HostsAt > 0 /\ hosts = EgressEntries(past[HostsAt])
    /\ swap # NoSwap => swap = EgressEntries(past[Len(past)])

\* A call holds the endpoint of one configuration and the lists of one, and was refused
\* nothing it was told to dial.
Phases == {"idle", "told", "running", "ok", "read error", "guest error"}
GuestStates == {"none", "running", "returned", "trapped"}
ReaderStates == {"none", "waiting", "reading", "ok", "err"}
BodyStates == {"none", "open", "ended", "cut"}
CallRecords ==
    [phase : Phases, told : AnyValue, toldAt : Nat, hooks : SUBSET (AnyHost \X Nat), at : Nat,
     guest : GuestStates, reader : ReaderStates, body : BodyStates, pipe : Nat, left : Nat,
     refused : BOOLEAN]
KnowsEndpoint(call) == call.toldAt \in DOMAIN past /\ call.told = past[call.toldAt]
KnowsLists(call) == call.at \in DOMAIN past /\ call.hooks = EgressEntries(past[call.at])
CallHolds(call) ==
    /\ ~call.refused
    /\ call.phase # "idle" => KnowsEndpoint(call)
    /\ call.phase \notin {"idle", "told"} => KnowsLists(call)
CallsHold == calls \in [Calls -> CallRecords] /\ (\A c \in Calls : CallHolds(calls[c]))

\* What connected did so where it was allowed, under the lists of a configuration.
Allowed(r) ==
    /\ r \in (AnyHost \X Nat) \X Nat /\ r[2] \in DOMAIN past
    /\ \A a \in r[1][1].addrs :
          /\ a.net \notin {"linklocal", "unspecified", "broadcast"}
          /\ a.net \in {"loopback", "private"} =>
                past[r[2]] # NoValue /\ r[1] = Authority(past[r[2]])

NoOtherWayOut == \A i \in loaded.imports : i[1] \notin {"wasi:sockets", "wasi:filesystem"}

WasmInv == Configured /\ CallsHold /\ (\A r \in reached : Allowed(r)) /\ NoOtherWayOut

\* Some package comes first (NatLessThanWellFounded).
LEMMA FirstOfSome ==
    ASSUME NEW T, T \subseteq Nat, T # {}
    PROVE  \E i \in T : \A j \in T : i <= j
<1>. DEFINE Below == {ss \in Nat \X Nat : ss[1] < ss[2]}
<1>1. IsWellFoundedOn(Below, Nat)
  BY Zenon, NatLessThanWellFounded DEF OpToRel
<1>2. \E i \in T : \A j \in T : <<j, i>> \notin Below
  BY <1>1, WFMin, Zenon
<1>3. PICK i \in T : \A j \in T : <<j, i>> \notin Below
  BY <1>2
<1>4. ASSUME NEW j \in T
      PROVE  i <= j
  <2>1. <<j, i>> \notin Below /\ i \in Nat /\ j \in Nat
    BY <1>3
  <2>. QED
    BY <2>1
<1>. QED
  BY <1>4

\* The package the realtime interfaces are under is one of those the daemon knows.
LEMMA RealtimePackageKnown ==
    ASSUME NEW component
    PROVE  RealtimePackage(component) \in {"none"} \union {Packages[i] : i \in DOMAIN Packages}
<1>. DEFINE under == {i \in DOMAIN Packages :
                        {<<Packages[i], "ws">>, <<Packages[i], "ws-server">>}
                            \intersect (component.imports \union component.exports) # {}}
<1>1. under \subseteq Nat
  BY WasmAssumption
<1>2. CASE under = {}
  BY <1>2, Zenon DEF RealtimePackage
<1>3. CASE under # {}
  <2>1. \E i \in under : \A j \in under : i <= j
    BY <1>1, <1>3, FirstOfSome
  <2>2. (CHOOSE i \in under : \A j \in under : i <= j) \in under
    BY <2>1, Zenon
  <2>3. RealtimePackage(component) = Packages[CHOOSE i \in under : \A j \in under : i <= j]
    BY <1>3, Zenon DEF RealtimePackage
  <2>. QED
    BY <2>2, <2>3
<1>. QED
  BY <1>2, <1>3


-----------------------------------------------------------------------------
LEMMA ValueMade ==
    ASSUME NEW scheme \in Schemes, NEW h \in AnyHost, NEW port \in Nat, NEW decorated \in BOOLEAN
    PROVE  [scheme |-> scheme, host |-> h, port |-> port, decorated |-> decorated] \in AnyValue
  BY DEF AnyValue

LEMMA NoValueReadsAsNothing ==
    NoValue \in AnyValue /\ Parse(NoValue) = NoValue /\ EgressEntries(NoValue) = {}
<1>1. NoHost \in AnyHost
  BY DEF AnyHost
<1>2. NoValue \in AnyValue /\ NoValue.scheme = "unset"
  <2>1. "unset" \in Schemes /\ 0 \in Nat /\ FALSE \in BOOLEAN
    BY DEF Schemes
  <2>2. NoValue \in AnyValue
    BY <1>1, <2>1, ValueMade, Zenon DEF NoValue
  <2>. QED
    BY <2>2 DEF NoValue
<1>3. Parse(NoValue) = NoValue
  BY <1>2 DEF Parse
<1>. QED
  BY <1>2, <1>3 DEF EgressEntries

\* What is stored reads back as itself (canonicalize_override).
LEMMA StoredIsCanonical ==
    ASSUME NEW v \in Settings, CanonicalizeOverride(TRUE, v).ok
    PROVE  CanonicalizeOverride(TRUE, v).value \in Stored
<1>0. v \in AnyValue
  BY WasmAssumption
<1>1. CASE v = NoValue \/ v = Blank
  BY <1>1, NoValueReadsAsNothing, Zenon DEF CanonicalizeOverride, Stored
<1>2. CASE v # NoValue /\ v # Blank
  <2>1. Normalize(v) # NoValue /\ CanonicalizeOverride(TRUE, v).value = Normalize(v)
    BY <1>2 DEF CanonicalizeOverride
  <2>2. Parse(v) # NoValue /\ Normalize(v) = [Parse(v) EXCEPT !.decorated = FALSE]
    BY <2>1 DEF Normalize
  <2>3. v.scheme \notin {"unset", "blank"} /\ v.host # NoHost
    BY <2>2 DEF Parse
  <2>4. /\ Parse(v) \in AnyValue /\ Parse(v).scheme \notin {"unset", "blank", "none"}
        /\ Parse(v).host = v.host
    <3>1. CASE v.scheme = "none"
      <4>1. Parse(v) = [v EXCEPT !.scheme = InferredScheme(v.host)]
        BY <2>3, <3>1 DEF Parse
      <4>2. InferredScheme(v.host) \in {"http", "https"} \intersect Schemes
        BY DEF InferredScheme, Schemes
      <4>3. Parse(v).scheme \in {"http", "https"} /\ Parse(v).host = v.host
        BY <1>0, <4>1, <4>2 DEF AnyValue
      <4>4. Parse(v) \in AnyValue
        <5>1. Parse(v) = [scheme |-> InferredScheme(v.host), host |-> v.host, port |-> v.port,
                          decorated |-> v.decorated]
          BY <1>0, <4>1 DEF AnyValue
        <5>2. v.host \in AnyHost /\ v.port \in Nat /\ v.decorated \in BOOLEAN
          BY <1>0 DEF AnyValue
        <5>. QED
          BY <4>2, <5>1, <5>2, ValueMade, Zenon
      <4>. QED
        BY <4>3, <4>4
    <3>2. CASE v.scheme # "none"
      BY <1>0, <2>3, <3>2 DEF Parse
    <3>. QED
      BY <3>1, <3>2
  <2>5. /\ Normalize(v) \in AnyValue /\ Normalize(v).scheme \notin {"unset", "blank", "none"}
        /\ Normalize(v).host = v.host
    BY <2>2, <2>4 DEF AnyValue
  <2>. QED
    BY <2>1, <2>3, <2>5 DEF Parse, Stored
<1>. QED
  BY <1>1, <1>2

LEMMA EntriesOfCanonical ==
    ASSUME NEW v \in Stored
    PROVE  /\ v = NoValue => EgressEntries(v) = {}
           /\ v # NoValue => EgressEntries(v) = {Authority(v), <<v.host, 0>>}
           /\ EgressEntries(v) \subseteq AnyHost \X Nat /\ EgressEntries(v) # NoSwap
<1>1. CASE v = NoValue
  BY <1>1, NoValueReadsAsNothing DEF NoSwap
<1>2. CASE v # NoValue
  <2>1. Parse(v) = v /\ v.host # NoHost /\ v \in AnyValue
    BY <1>2 DEF Stored
  <2>2. EgressEntries(v) = {Authority(v), <<v.host, 0>>}
    BY <1>2, <2>1 DEF EgressEntries
  <2>3. Authority(v) \in AnyHost \X Nat /\ Authority(v)[1] = v.host
    BY <2>1 DEF Authority, AnyValue, DefaultPort
  <2>. QED
    BY <1>2, <2>1, <2>2, <2>3 DEF AnyValue, NoSwap
<1>. QED
  BY <1>1, <1>2

\* The authority of a value names a port (default_port).
LEMMA AuthorityNamesPort ==
    ASSUME NEW v \in Stored, v # NoValue
    PROVE  Authority(v) \in AnyHost \X (Nat \ {0})
<1>1. Parse(v) = v /\ v \in AnyValue
  BY DEF Stored
<1>. QED
  BY <1>1 DEF Authority, AnyValue, DefaultPort

\* A check that passes lets no call through to where it may not go, in whatever form the
\* address is written (check_host_allowed).
LEMMA PassedIsAllowed ==
    ASSUME NEW v \in Stored, NEW target \in AnyHost \X (Nat \ {0}),
           CheckHostAllowed(AllowedHosts, EgressEntries(v), target[1], target[2], FALSE),
           NEW a \in target[1].addrs
    PROVE  /\ a.net \notin {"linklocal", "unspecified", "broadcast"}
           /\ a.net \in {"loopback", "private"} => v # NoValue /\ target = Authority(v)
<1>0. a \in Addresses /\ target = <<target[1], target[2]>>
  <2>1. target[1] \in AnyHost
    OBVIOUS
  <2>2. target[1] # NoHost
    <3>1. NoHost.addrs = {}
      BY Zenon DEF NoHost
    <3>. QED
      BY <3>1
  <2>. QED
    BY <2>1, <2>2 DEF AnyHost
<1>1. Embedded(a).net = a.net /\ (a.net = "broadcast" => Embedded(a).fam = 4)
  BY <1>0 DEF Addresses, Embedded
<1>2. CASE target \in EgressEntries(v)
  <2>1. v # NoValue /\ target = Authority(v)
    BY <1>2, EntriesOfCanonical
  <2>2. Permitted(a, FALSE, "user")
    BY <1>0, <1>2 DEF CheckHostAllowed, GuardEgressHost
  <2>. QED
    BY <1>1, <2>1, <2>2 DEF Permitted, NeverRoutable
<1>3. CASE target \notin EgressEntries(v)
  <2>1. Permitted(a, FALSE, "public")
    BY <1>0, <1>3 DEF CheckHostAllowed, GuardEgressHost
  <2>. QED
    BY <1>1, <2>1 DEF Permitted, NeverRoutable, IsLocal
<1>. QED
  BY <1>2, <1>3

\* What a call was told passes under the lists of the same configuration, wherever a route
\* leads there.
LEMMA ToldPasses ==
    ASSUME NEW v \in Stored, v # NoValue, Authority(v)[1].addrs # {},
           \A a \in Authority(v)[1].addrs : ~NeverRoutable(a)
    PROVE  CheckHostAllowed(AllowedHosts, EgressEntries(v), Authority(v)[1], Authority(v)[2], FALSE)
<1>1. Authority(v) \in EgressEntries(v)
  BY EntriesOfCanonical
<1>2. Authority(v) = <<Authority(v)[1], Authority(v)[2]>>
  BY AuthorityNamesPort
<1>. QED
  BY <1>1, <1>2 DEF CheckHostAllowed, GuardEgressHost, Permitted

-----------------------------------------------------------------------------
LEMMA CallMade ==
    ASSUME NEW phase \in Phases, NEW told \in AnyValue, NEW toldAt \in Nat,
           NEW hooks \in SUBSET (AnyHost \X Nat), NEW at0 \in Nat, NEW guest \in GuestStates,
           NEW reader \in ReaderStates, NEW body \in BodyStates, NEW pipe \in Nat,
           NEW left \in Nat, NEW refused \in BOOLEAN
    PROVE  [phase |-> phase, told |-> told, toldAt |-> toldAt, hooks |-> hooks, at |-> at0,
            guest |-> guest, reader |-> reader, body |-> body, pipe |-> pipe, left |-> left,
            refused |-> refused] \in CallRecords
  BY DEF CallRecords

LEMMA WasmStarts == WasmInit => WasmInv
<1>. SUFFICES ASSUME WasmInit
              PROVE  WasmInv
  OBVIOUS
<1>1. NoValue \in Stored
  BY NoValueReadsAsNothing DEF Stored
<1>2. Configured
  <2>1. past \in Seq(Stored) /\ Len(past) = 1 /\ past[1] = NoValue
    BY <1>1 DEF WasmInit
  <2>. QED
    BY <2>1, NoValueReadsAsNothing DEF WasmInit, Configured, HostsAt
<1>3. Idle \in CallRecords /\ Idle.phase = "idle" /\ ~Idle.refused
  <2>1. Idle \in CallRecords
    <3>1. 0 \in Nat /\ {} \in SUBSET (AnyHost \X Nat) /\ FALSE \in BOOLEAN /\ NoValue \in AnyValue
      BY NoValueReadsAsNothing
    <3>2. /\ "idle" \in Phases /\ "none" \in GuestStates
          /\ "none" \in ReaderStates /\ "none" \in BodyStates
      BY DEF Phases, GuestStates, ReaderStates, BodyStates
    <3>. QED
      BY <3>1, <3>2, CallMade, ZenonT(60) DEF Idle
  <2>. QED
    BY <2>1 DEF Idle
<1>4. CallsHold
  BY <1>3, Zenon DEF WasmInit, CallsHold, CallHolds
<1>. QED
  BY <1>2, <1>4 DEF WasmInit, WasmInv, NoOtherWayOut, NoComponent

\* One call moves on and knows still what it knew; the configuration stays.
LEMMA OneCallMoves ==
    ASSUME WasmInv, NEW c \in Calls, NEW record \in CallRecords,
           SetCall(c, record), KeepConfig,
           ~record.refused,
           record.phase # "idle" => KnowsEndpoint(record),
           record.phase \notin {"idle", "told"} => KnowsLists(record)
    PROVE  CallsHold' /\ Configured' /\ NoOtherWayOut' /\ past' = past
<1>1. past' = past /\ swap' = swap /\ headers' = headers /\ hosts' = hosts /\ loaded' = loaded
  BY DEF KeepConfig
<1>2. calls' \in [Calls -> CallRecords] /\ calls'[c] = record
      /\ \A d \in Calls : d # c => calls'[d] = calls[d]
  BY DEF SetCall, WasmInv, CallsHold
<1>3. ASSUME NEW d \in Calls
      PROVE  CallHolds(calls[d])'
  <2>1. CASE d = c
    BY <1>1, <1>2, <2>1 DEF CallHolds, KnowsEndpoint, KnowsLists
  <2>2. CASE d # c
    <3>1. CallHolds(calls[d])
      BY DEF WasmInv, CallsHold
    <3>. QED
      BY <1>1, <1>2, <2>2, <3>1 DEF CallHolds, KnowsEndpoint, KnowsLists
  <2>. QED
    BY <2>1, <2>2
<1>. QED
  BY <1>1, <1>2, <1>3 DEF CallsHold, Configured, HostsAt, NoOtherWayOut, WasmInv

-----------------------------------------------------------------------------
LEMMA LoadStep ==
    ASSUME WasmInv, NEW component, LoadComponent(component)
    PROVE  WasmInv'
<1>1. /\ loaded' = component /\ past' = past /\ swap' = swap /\ headers' = headers /\ hosts' = hosts
      /\ calls' = calls /\ reached' = reached
  BY DEF LoadComponent
<1>2. NoOtherWayOut'
  <2>1. PICK package \in {"none"} \union {Packages[i] : i \in DOMAIN Packages} :
            VerifyImports(component, package)
    BY RealtimePackageKnown, Zenon DEF LoadComponent
  <2>2. package \notin {"wasi:sockets", "wasi:filesystem"}
    BY WasmAssumption
  <2>. QED
    BY <1>1, <2>1, <2>2 DEF VerifyImports, WasiPackages, NoOtherWayOut
<1>3. CallsHold'
  BY <1>1 DEF WasmInv, CallsHold, CallHolds, KnowsEndpoint, KnowsLists
<1>. QED
  BY <1>1, <1>2, <1>3 DEF WasmInv, Configured, HostsAt, Allowed

LEMMA HeadersStep ==
    ASSUME WasmInv, NEW v \in Settings, ReconfigureHeaders(v)
    PROVE  WasmInv'
<1>. DEFINE value == CanonicalizeOverride(TRUE, v).value
            n == Len(past)
<1>1. value \in Stored
  BY StoredIsCanonical DEF ReconfigureHeaders
<1>2. /\ past' = Append(past, value) /\ headers' = value /\ swap = NoSwap /\ hosts' = hosts
      /\ swap' = EgressEntries(value) /\ loaded' = loaded /\ calls' = calls /\ reached' = reached
  BY DEF ReconfigureHeaders, EgressHosts
<1>3. /\ past \in Seq(Stored) /\ n \in Nat \ {0} /\ DOMAIN past = 1..n
      /\ hosts = EgressEntries(past[n])
  BY <1>2 DEF WasmInv, Configured, HostsAt
<1>. HIDE DEF value
<1>4. /\ past' \in Seq(Stored) /\ Len(past') = n + 1 /\ DOMAIN past' = 1..n+1
      /\ past'[n + 1] = value /\ \A i \in 1..n : past'[i] = past[i]
  BY <1>1, <1>2, <1>3
<1>5. swap' # NoSwap
  BY <1>1, <1>2, EntriesOfCanonical
<1>6. HostsAt' = n
  BY <1>3, <1>4, <1>5 DEF HostsAt
<1>7. Configured'
  <2>1. past'[Len(past')] = value /\ past'[n] = past[n] /\ Len(past') > 0 /\ n > 0
    BY <1>3, <1>4
  <2>2. headers' = past'[Len(past')] /\ swap' = EgressEntries(past'[Len(past')])
    BY <1>2, <2>1, SMTT(30)
  <2>3. HostsAt' > 0 /\ hosts' = EgressEntries(past'[HostsAt'])
    BY <1>2, <1>3, <1>6, <2>1
  <2>. QED
    BY <1>4, <2>1, <2>2, <2>3, Zenon DEF Configured
<1>8. CallsHold'
  BY <1>2, <1>3, <1>4 DEF WasmInv, CallsHold, CallHolds, KnowsEndpoint, KnowsLists
<1>9. \A r \in reached' : Allowed(r)'
  BY <1>2, <1>3, <1>4 DEF WasmInv, Allowed
<1>. QED
  BY <1>2, <1>7, <1>8, <1>9 DEF WasmInv, NoOtherWayOut

LEMMA HostsStep ==
    ASSUME WasmInv, ReconfigureHosts
    PROVE  WasmInv'
<1>1. /\ swap # NoSwap /\ hosts' = swap /\ swap' = NoSwap /\ loaded' = loaded /\ headers' = headers
      /\ past' = past /\ calls' = calls /\ reached' = reached
  BY DEF ReconfigureHosts
<1>2. Configured'
  BY <1>1 DEF WasmInv, Configured, HostsAt
<1>3. CallsHold'
  BY <1>1 DEF WasmInv, CallsHold, CallHolds, KnowsEndpoint, KnowsLists
<1>. QED
  BY <1>1, <1>2, <1>3 DEF WasmInv, NoOtherWayOut, Allowed

\* The request reads the endpoint, then the lists.
LEMMA RequestHeadersStep ==
    ASSUME WasmInv, NEW c \in Calls, RequestHeaders(c)
    PROVE  WasmInv'
<1>. DEFINE call == calls[c]
            record == [call EXCEPT !.phase = "told", !.told = headers, !.toldAt = Len(past)]
<1>1. call \in CallRecords /\ ~call.refused
  BY DEF WasmInv, CallsHold, CallHolds
<1>2. /\ past \in Seq(Stored) /\ Len(past) \in DOMAIN past /\ Len(past) \in Nat
      /\ headers = past[Len(past)] /\ headers \in AnyValue
  BY DEF WasmInv, Configured, Stored
<1>3. record \in CallRecords
  <2>1. "told" \in Phases
    BY DEF Phases
  <2>. QED
    BY <1>1, <1>2, <2>1 DEF CallRecords
<1>4. /\ record.phase = "told" /\ record.told = headers /\ record.toldAt = Len(past)
      /\ record.refused = call.refused
  BY <1>1 DEF CallRecords
<1>5. SetCall(c, record) /\ KeepConfig /\ reached' = reached
  BY DEF RequestHeaders
<1>6. record.phase = "told" /\ ~record.refused /\ KnowsEndpoint(record)
  BY <1>1, <1>2, <1>4 DEF KnowsEndpoint
<1>. HIDE DEF record
<1>7. CallsHold' /\ Configured' /\ NoOtherWayOut' /\ past' = past
  BY <1>3, <1>5, <1>6, OneCallMoves
<1>. QED
  BY <1>5, <1>7 DEF WasmInv, Allowed

\* What a call read stays with it (AllowlistHooks).
SameReading(record, call) ==
    /\ record.told = call.told /\ record.toldAt = call.toldAt /\ record.hooks = call.hooks
    /\ record.at = call.at /\ record.refused = call.refused

LEMMA RunningCallMoves ==
    ASSUME WasmInv, NEW c \in Calls, NEW record \in CallRecords, calls[c].phase = "running",
           SetCall(c, record), KeepConfig, reached' = reached, SameReading(record, calls[c])
    PROVE  WasmInv'
<1>1. CallHolds(calls[c])
  BY DEF WasmInv, CallsHold
<1>2. ~record.refused /\ KnowsEndpoint(record) /\ KnowsLists(record)
  BY <1>1 DEF CallHolds, SameReading, KnowsEndpoint, KnowsLists
<1>3. CallsHold' /\ Configured' /\ NoOtherWayOut' /\ past' = past
  BY <1>2, OneCallMoves
<1>. QED
  BY <1>3 DEF WasmInv, Allowed

LEMMA InvokeStep ==
    ASSUME WasmInv, NEW c \in Calls, Invoke(c)
    PROVE  WasmInv'
<1>. DEFINE call == calls[c]
            record == [call EXCEPT !.phase = "running", !.hooks = hosts, !.at = HostsAt,
                                   !.guest = "running", !.reader = "waiting", !.left = MaxChunks]
<1>1. call \in CallRecords /\ ~call.refused /\ KnowsEndpoint(call)
  BY DEF WasmInv, CallsHold, CallHolds, Invoke
<1>2. /\ HostsAt \in DOMAIN past /\ HostsAt \in Nat /\ hosts = EgressEntries(past[HostsAt])
      /\ hosts \in SUBSET (AnyHost \X Nat)
  <2>1. /\ past \in Seq(Stored) /\ Len(past) \in Nat /\ HostsAt > 0
        /\ hosts = EgressEntries(past[HostsAt])
    BY DEF WasmInv, Configured
  <2>2. HostsAt \in 1..Len(past)
    BY <2>1 DEF HostsAt
  <2>3. past[HostsAt] \in Stored
    BY <2>1, <2>2
  <2>. QED
    BY <2>1, <2>2, <2>3, EntriesOfCanonical
<1>3. "running" \in Phases /\ "running" \in GuestStates /\ "waiting" \in ReaderStates
  BY DEF Phases, GuestStates, ReaderStates
<1>4. record \in CallRecords
  BY <1>1, <1>2, <1>3, WasmAssumption DEF CallRecords
<1>5. /\ record.phase = "running" /\ record.told = call.told /\ record.toldAt = call.toldAt
      /\ record.hooks = hosts /\ record.at = HostsAt /\ record.refused = call.refused
  BY <1>1 DEF CallRecords
<1>6. ~record.refused /\ KnowsEndpoint(record) /\ KnowsLists(record)
  BY <1>1, <1>2, <1>5 DEF KnowsEndpoint, KnowsLists
<1>7. SetCall(c, record) /\ KeepConfig /\ reached' = reached
  BY DEF Invoke
<1>. HIDE DEF record
<1>8. CallsHold' /\ Configured' /\ NoOtherWayOut' /\ past' = past
  BY <1>4, <1>6, <1>7, OneCallMoves
<1>. QED
  BY <1>7, <1>8 DEF WasmInv, Allowed

LEMMA SendRequestStep ==
    ASSUME WasmInv, NEW c \in Calls, NEW target \in Targets \union Told(c), SendRequest(c, target)
    PROVE  WasmInv'
<1>. DEFINE call == calls[c]
            passed == CheckHostAllowed(AllowedHosts, call.hooks, target[1], target[2], FALSE)
            excused == call.toldAt # call.at \/ target[1].addrs = {}
                       \/ \E a \in target[1].addrs : NeverRoutable(a)
            refused == call.refused \/ (~passed /\ ~excused /\ target \in Told(c))
            record == [call EXCEPT !.refused = refused]
<1>1. /\ call \in CallRecords /\ ~call.refused /\ KnowsEndpoint(call) /\ KnowsLists(call)
      /\ call.phase = "running" /\ past \in Seq(Stored)
  BY DEF WasmInv, CallsHold, CallHolds, SendRequest, Running, Configured
<1>2. /\ call.told \in Stored /\ past[call.at] \in Stored /\ call.hooks = EgressEntries(past[call.at])
      /\ call.at \in Nat
  BY <1>1 DEF KnowsEndpoint, KnowsLists
<1>3. target \in AnyHost \X (Nat \ {0})
  BY <1>2, AuthorityNamesPort, WasmAssumption DEF Told
<1>4. ~refused
  <2>1. SUFFICES ASSUME ~excused, target \in Told(c)
                 PROVE  passed
    BY <1>1
  <2>2. call.told # NoValue /\ target = Authority(call.told)
    BY <2>1 DEF Told
  <2>3. call.hooks = EgressEntries(call.told)
    BY <1>1, <1>2, <2>1 DEF KnowsEndpoint
  <2>4. Authority(call.told)[1].addrs # {} /\ \A a \in Authority(call.told)[1].addrs : ~NeverRoutable(a)
    BY <2>1, <2>2
  <2>. QED
    BY <1>2, <2>2, <2>3, <2>4, ToldPasses
<1>5. SetCall(c, record) /\ KeepConfig
      /\ reached' = IF passed THEN reached \union {<<target, call.at>>} ELSE reached
  BY DEF SendRequest
<1>6. record \in CallRecords /\ record.phase = call.phase /\ SameReading(record, call)
  <2>1. refused = call.refused /\ FALSE \in BOOLEAN /\ call.refused = FALSE
    BY <1>1, <1>4 DEF CallRecords
  <2>. HIDE DEF refused
  <2>. QED
    BY <1>1, <2>1 DEF CallRecords, SameReading
<1>7. CallsHold' /\ Configured' /\ NoOtherWayOut' /\ past' = past
  <2>1. ~record.refused /\ KnowsEndpoint(record) /\ KnowsLists(record)
    BY <1>1, <1>6 DEF SameReading, KnowsEndpoint, KnowsLists
  <2>. HIDE DEF record
  <2>. QED
    BY <1>5, <1>6, <2>1, OneCallMoves
<1>8. CASE passed
  <2>1. Allowed(<<target, call.at>>)
    <3>1. ASSUME NEW a \in target[1].addrs
          PROVE  /\ a.net \notin {"linklocal", "unspecified", "broadcast"}
                 /\ a.net \in {"loopback", "private"} =>
                        past[call.at] # NoValue /\ target = Authority(past[call.at])
      BY <1>2, <1>3, <1>8, PassedIsAllowed
    <3>2. call.at \in DOMAIN past
      BY <1>1 DEF KnowsLists
    <3>. QED
      BY <1>2, <1>3, <3>1, <3>2 DEF Allowed
  <2>2. reached' = reached \union {<<target, call.at>>}
    BY <1>5, <1>8
  <2>3. \A r \in reached' : Allowed(r)
    BY <2>1, <2>2 DEF WasmInv
  <2>. QED
    BY <1>7, <2>3 DEF WasmInv, Allowed
<1>9. CASE ~passed
  <2>1. reached' = reached
    BY <1>5, <1>9
  <2>. QED
    BY <1>7, <2>1 DEF WasmInv, Allowed
<1>. QED
  BY <1>8, <1>9

LEMMA BodySteps ==
    ASSUME WasmInv, NEW c \in Calls,
           \/ PublishHead(c) \/ WriteChunk(c) \/ GuestReturns(c) \/ GuestTraps(c)
    PROVE  WasmInv'
<1>. DEFINE call == calls[c]
<1>0. call \in CallRecords /\ call.phase = "running"
  BY DEF WasmInv, CallsHold, PublishHead, WriteChunk, GuestReturns, GuestTraps, Running
<1>1. /\ {"open", "ended", "cut"} \subseteq BodyStates /\ {"returned", "trapped"} \subseteq GuestStates
      /\ call.body \in BodyStates /\ call.left \in Nat /\ call.pipe \in Nat
  BY <1>0 DEF BodyStates, GuestStates, CallRecords
<1>2. CASE PublishHead(c)
  <2>. DEFINE record == [call EXCEPT !.body = "open"]
  <2>1. record \in CallRecords /\ SameReading(record, call)
    BY <1>0, <1>1 DEF CallRecords, SameReading
  <2>2. SetCall(c, record) /\ KeepConfig /\ reached' = reached
    BY <1>2 DEF PublishHead
  <2>. HIDE DEF record
  <2>. QED
    BY <1>0, <2>1, <2>2, RunningCallMoves
<1>3. CASE WriteChunk(c)
  <2>. DEFINE pipe == IF call.reader = "err" THEN call.pipe ELSE call.pipe + 1
              left == call.left - 1
              record == [call EXCEPT !.left = left, !.pipe = pipe]
  <2>1. left \in Nat /\ pipe \in Nat
    BY <1>1, <1>3 DEF WriteChunk
  <2>2. SetCall(c, record) /\ KeepConfig /\ reached' = reached
    BY <1>0, <1>3 DEF WriteChunk, SetCall, CallRecords
  <2>. HIDE DEF left, pipe
  <2>3. record \in CallRecords /\ SameReading(record, call)
    BY <1>0, <2>1 DEF CallRecords, SameReading
  <2>. HIDE DEF record
  <2>. QED
    BY <1>0, <2>2, <2>3, RunningCallMoves
<1>4. CASE GuestReturns(c)
  <2>. DEFINE body == IF call.body = "open" THEN "ended" ELSE call.body
              record == [call EXCEPT !.guest = "returned", !.body = body]
  <2>1. body \in BodyStates /\ "returned" \in GuestStates
    BY <1>1
  <2>2. SetCall(c, record) /\ KeepConfig /\ reached' = reached
    BY <1>0, <1>4 DEF GuestReturns, SetCall, CallRecords
  <2>. HIDE DEF body
  <2>3. record \in CallRecords /\ SameReading(record, call)
    BY <1>0, <2>1 DEF CallRecords, SameReading
  <2>. HIDE DEF record
  <2>. QED
    BY <1>0, <2>2, <2>3, RunningCallMoves
<1>5. CASE GuestTraps(c)
  <2>. DEFINE body == IF call.body = "open" THEN "cut" ELSE call.body
              record == [call EXCEPT !.guest = "trapped", !.body = body]
  <2>1. body \in BodyStates /\ "trapped" \in GuestStates
    BY <1>1
  <2>2. SetCall(c, record) /\ KeepConfig /\ reached' = reached
    BY <1>0, <1>5 DEF GuestTraps, SetCall, CallRecords
  <2>. HIDE DEF body
  <2>3. record \in CallRecords /\ SameReading(record, call)
    BY <1>0, <2>1 DEF CallRecords, SameReading
  <2>. HIDE DEF record
  <2>. QED
    BY <1>0, <2>2, <2>3, RunningCallMoves
<1>. QED
  BY <1>2, <1>3, <1>4, <1>5

\* Reading takes from the pipe and settles the reader, and nothing else.
LEMMA ReadKeeps ==
    ASSUME NEW c \in Calls, calls[c] \in CallRecords
    PROVE  Read(c) \in CallRecords /\ SameReading(Read(c), calls[c])
<1>. DEFINE call == calls[c]
<1>1. \A reader \in ReaderStates : LET record == [call EXCEPT !.reader = reader]
                                  IN  record \in CallRecords /\ SameReading(record, call)
  BY DEF CallRecords, SameReading
<1>2. call.pipe > 0 => LET record == [call EXCEPT !.pipe = @ - 1]
                      IN  record \in CallRecords /\ SameReading(record, call)
  <2>1. ASSUME NEW pipe \in Nat
        PROVE  LET record == [call EXCEPT !.pipe = pipe]
               IN  record \in CallRecords /\ SameReading(record, call)
    BY DEF CallRecords, SameReading
  <2>2. call.pipe \in Nat
    BY DEF CallRecords
  <2>3. call.pipe > 0 => call.pipe - 1 \in Nat
    BY <2>2
  <2>. QED
    BY <2>1, <2>3
<1>3. {"reading", "ok", "err"} \subseteq ReaderStates
  BY DEF ReaderStates
<1>4. SameReading(call, call)
  BY DEF SameReading
<1>. QED
  BY <1>1, <1>2, <1>3, <1>4 DEF Read

LEMMA ReaderSteps ==
    ASSUME WasmInv, NEW c \in Calls, Reads(c) \/ ReaderFails(c)
    PROVE  WasmInv'
<1>. DEFINE call == calls[c]
<1>0. call \in CallRecords /\ call.phase = "running"
  BY DEF WasmInv, CallsHold, Reads, ReaderFails
<1>1. CASE Reads(c)
  <2>1. Read(c) \in CallRecords /\ SameReading(Read(c), call)
    BY <1>0, ReadKeeps
  <2>. QED
    BY <1>0, <1>1, <2>1, RunningCallMoves DEF Reads
<1>2. CASE ReaderFails(c)
  <2>. DEFINE record == [call EXCEPT !.reader = "err", !.pipe = 0]
  <2>1. "err" \in ReaderStates
    BY DEF ReaderStates
  <2>2. record \in CallRecords /\ SameReading(record, call)
    BY <1>0, <2>1 DEF CallRecords, SameReading
  <2>3. SetCall(c, record) /\ KeepConfig /\ reached' = reached
    BY <1>2 DEF ReaderFails
  <2>. HIDE DEF record
  <2>. QED
    BY <1>0, <2>2, <2>3, RunningCallMoves
<1>. QED
  BY <1>1, <1>2

LEMMA JoinedStep ==
    ASSUME WasmInv, NEW c \in Calls, Joined(c)
    PROVE  WasmInv'
<1>. DEFINE call == calls[c]
            phase == IF call.reader = "err" THEN "read error"
                     ELSE IF call.guest = "trapped" THEN "guest error" ELSE "ok"
            record == [call EXCEPT !.phase = phase]
<1>0. call \in CallRecords /\ call.phase = "running"
  BY DEF WasmInv, CallsHold, Joined
<1>1. phase \in Phases
  BY DEF Phases
<1>2. SetCall(c, record) /\ KeepConfig /\ reached' = reached
  BY DEF Joined
<1>. HIDE DEF phase
<1>3. record \in CallRecords /\ SameReading(record, call)
  BY <1>0, <1>1 DEF CallRecords, SameReading
<1>. HIDE DEF record
<1>. QED
  BY <1>0, <1>2, <1>3, RunningCallMoves

LEMMA WasmStep ==
    ASSUME WasmInv, [WasmNext]_wasmVars
    PROVE  WasmInv'
<1>1. ASSUME NEW component \in Components, LoadComponent(component)
      PROVE  WasmInv'
  BY <1>1, LoadStep
<1>2. ASSUME NEW v \in Settings, ReconfigureHeaders(v)
      PROVE  WasmInv'
  BY <1>2, HeadersStep
<1>3. CASE ReconfigureHosts
  BY <1>3, HostsStep
<1>4. ASSUME NEW c \in Calls, CallStep(c)
      PROVE  WasmInv'
  <2>1. CASE RequestHeaders(c)
    BY <2>1, RequestHeadersStep
  <2>2. CASE Invoke(c)
    BY <2>2, InvokeStep
  <2>3. CASE PublishHead(c) \/ WriteChunk(c) \/ GuestReturns(c) \/ GuestTraps(c)
    BY <2>3, BodySteps
  <2>4. CASE Reads(c) \/ ReaderFails(c)
    BY <2>4, ReaderSteps
  <2>5. CASE Joined(c)
    BY <2>5, JoinedStep
  <2>6. ASSUME NEW target \in Targets \union Told(c), SendRequest(c, target)
        PROVE  WasmInv'
    BY <2>6, SendRequestStep
  <2>. QED
    BY <1>4, <2>1, <2>2, <2>3, <2>4, <2>5, <2>6 DEF CallStep
<1>5. CASE UNCHANGED wasmVars
  BY <1>5 DEF wasmVars, WasmInv, Configured, HostsAt, CallsHold, CallHolds, KnowsEndpoint,
     KnowsLists, Allowed, NoOtherWayOut
<1>. QED
  BY <1>1, <1>2, <1>3, <1>4, <1>5 DEF WasmNext

\* wasm/host.rs, check_host_allowed and send_request; wasm/mod.rs, reconfigure and load: while
\* the user's endpoint changes under calls in flight, no call of a component reaches an address
\* that does not route, nor a local one the value its lists came from does not name, and none
\* is refused the endpoint that the same value told it to dial.
THEOREM ComponentsStayInside == BackendsSpec => []Contained
<1>1. BackendsInit => WasmInv
  BY WasmStarts DEF BackendsInit
<1>2. WasmInv /\ [BackendsNext]_backendVars => WasmInv'
  <2>1. [BackendsNext]_backendVars => [WasmNext]_wasmVars
    BY DEF BackendsNext, Is, backendVars
  <2>. QED
    BY <2>1, WasmStep
<1>3. WasmInv => Contained
  BY DEF WasmInv, CallsHold, CallHolds, Contained, StaysInside, ToldIsAllowed, Allowed, NoOtherWayOut
<1>. QED
  BY <1>1, <1>2, <1>3, PTL DEF BackendsSpec

-----------------------------------------------------------------------------
\* A cue and the device it sounds from (Beeper).

Instant == Nat \union {Never}

CueTyped ==
    /\ sound \in [tones : Nat, per : Nat] /\ lat \in Latencies /\ timed \in BOOLEAN
    /\ (timed \/ lat <= Flush)
    /\ now \in Nat /\ due \in Instant /\ clock \in Nat /\ before \in Instant /\ finished \in BOOLEAN
    /\ toneEnd \in Instant /\ until \in Nat /\ player \in {"idle", "polling", "holding"}
    /\ wake \in Nat /\ played \in Instant /\ cut \in Instant

\* Before a cue plays nothing has happened, and once its stream is dropped it has an answer.
CueStages ==
    /\ player # "idle" => cut = Never
    /\ player = "polling" => played = Never
    /\ player = "idle" => (cut = Never <=> played = Never) /\ due = Never /\ before = Never
    /\ player = "idle" /\ cut = Never =>
          now = 0 /\ clock = 0 /\ ~finished /\ toneEnd = Never /\ until = 0

\* The device asks for a frame no sooner than its time, and late by no more than Late.
DeviceKeepsTime ==
    /\ clock <= Padded
    /\ due # Never => now <= due + Late
    /\ due # Never /\ before = Never => due >= clock /\ (clock < Padded => due = clock)
    /\ before # Never =>
          /\ due # Never /\ before <= due /\ due <= now /\ (before < Padded => due = before)
          /\ clock = Least(before + Buffer, Padded)
    /\ finished =>
          /\ clock = Padded /\ now > Padded - Buffer
          /\ before # Never => before >= TotalSamples

\* When the last frame handed over is heard, and when the player learns of it.
ToneEndKnown ==
    /\ until <= TotalSamples + lat + Late
    /\ TotalSamples = 0 => until = 0
    /\ before # Never /\ before < TotalSamples =>
          until = now + lat + Least(Buffer, TotalSamples - before) /\ toneEnd = Never
    /\ toneEnd # Never =>
          /\ timed /\ toneEnd = until /\ clock >= TotalSamples
          /\ before # Never => before >= TotalSamples
    /\ timed /\ TotalSamples > 0 /\ clock >= TotalSamples /\ ~(before # Never /\ before < TotalSamples) =>
          toneEnd # Never

\* What a player that holds the stream waits for.
HoldCovers ==
    player = "holding" =>
        \/ played # Never /\ played = toneEnd /\ wake >= toneEnd + SILENCE_PADDING
        \/ /\ played = Never
           /\ \/ /\ wake > TotalSamples + Grace + Flush
                 /\ ~(timed /\ TotalSamples > 0) \/ (due = Never /\ ~finished)
              \/ /\ finished /\ ~(timed /\ TotalSamples > 0)
                 /\ wake > Padded - Buffer + Flush

CueInv ==
    /\ CueTyped /\ CueStages /\ DeviceKeepsTime /\ ToneEndKnown /\ HoldCovers
    /\ HeardWhole /\ SilentAfterPlayed

LEMMA SamplesCounted == ASSUME CueTyped PROVE TotalSamples \in Nat
<1>1. \A a, b \in Nat : a * b \in Nat
  OBVIOUS
<1>2. sound.tones \in Nat /\ sound.per \in Nat
  BY DEF CueTyped
<1>. QED
  BY <1>1, <1>2 DEF TotalSamples

LEMMA BeeperStarts == BeeperInit => CueInv
<1>. SUFFICES ASSUME BeeperInit
              PROVE  CueInv
  OBVIOUS
<1>1. CueTyped
  BY DeviceAssumption DEF BeeperInit, CueTyped, Instant
<1>2. TotalSamples \in Nat
  BY <1>1, SamplesCounted
<1>. QED
  BY <1>1, <1>2, BeeperAssumption, DeviceAssumption DEF BeeperInit, CueInv, CueStages, DeviceKeepsTime,
     ToneEndKnown, HoldCovers, HeardWhole, SilentAfterPlayed, Never, Padded


\* What a device does between two instants keeps the time, and its answer.
LEMMA FillsStep ==
    ASSUME CueInv, Fills
    PROVE  CueInv'
<1>. DEFINE T == TotalSamples
<1>0. CueTyped /\ CueStages /\ DeviceKeepsTime /\ ToneEndKnown /\ HoldCovers
  BY DEF CueInv
<1>1. T \in Nat /\ T' = T /\ Padded = T + SILENCE_PADDING /\ Padded' = Padded
  BY <1>0, SamplesCounted DEF Fills, TotalSamples, Padded
<1>2. /\ due # Never /\ due <= now /\ before = Never
      /\ clock' = Least(clock + Buffer, Padded) /\ before' = clock
      /\ finished' = (finished \/ clock + Buffer > Padded)
      /\ until' = IF clock < T THEN now + lat + Least(Buffer, T - clock) ELSE until
      /\ UNCHANGED <<sound, lat, timed, now, due, toneEnd, player, wake, played, cut>>
  BY DEF Fills
<1>3. /\ lat \in Nat /\ now \in Nat /\ due \in Nat /\ clock \in Nat /\ finished \in BOOLEAN
      /\ toneEnd \in Instant /\ until \in Nat /\ wake \in Nat /\ played \in Instant /\ cut \in Instant
      /\ Buffer \in Nat \ {0} /\ SILENCE_PADDING \in Nat /\ Buffer <= SILENCE_PADDING
      /\ Late \in Nat
  BY <1>0, <1>2, BeeperAssumption, DeviceAssumption DEF CueTyped, Instant
<1>4. clock' \in Nat /\ before' \in Nat /\ until' \in Nat /\ finished' \in BOOLEAN
  BY <1>1, <1>2, <1>3 DEF Least
<1>5. CueTyped'
  BY <1>0, <1>2, <1>4 DEF CueTyped, Instant
<1>6. player # "idle" /\ cut = Never
  BY <1>0, <1>2 DEF CueStages
<1>7. CueStages'
  BY <1>0, <1>2, <1>3, <1>4, <1>6 DEF CueStages, Never
<1>. HIDE DEF T
<1>8. DeviceKeepsTime'
  BY <1>0, <1>1, <1>2, <1>3, <1>4 DEF DeviceKeepsTime, Least, Never, T
<1>9. ToneEndKnown'
  <2>1. clock < T => due = clock
    BY <1>0, <1>1, <1>2, <1>3 DEF DeviceKeepsTime
  <2>2. now <= due + Late
    BY <1>0, <1>2 DEF DeviceKeepsTime
  <2>3. until' <= T + lat + Late
    BY <1>0, <1>1, <1>2, <1>3, <2>1, <2>2 DEF ToneEndKnown, Least, T
  <2>4. clock < T => toneEnd = Never
    BY <1>0, <1>1, <1>3 DEF ToneEndKnown, T
  <2>5. clock >= T => until' = until /\ clock' >= T
    BY <1>1, <1>2, <1>3 DEF Least
  <2>. QED
    BY <1>0, <1>1, <1>2, <1>3, <1>4, <2>3, <2>4, <2>5 DEF ToneEndKnown, Never, T
<1>10. HoldCovers'
  BY <1>0, <1>1, <1>2, <1>3 DEF HoldCovers, T
<1>11. HeardWhole' /\ SilentAfterPlayed'
  BY <1>2, <1>6 DEF HeardWhole, SilentAfterPlayed
<1>. QED
  BY <1>5, <1>7, <1>8, <1>9, <1>10, <1>11 DEF CueInv

LEMMA NotesToneEndStep ==
    ASSUME CueInv, NotesToneEnd
    PROVE  CueInv'
<1>. DEFINE T == TotalSamples
<1>0. CueTyped /\ CueStages /\ DeviceKeepsTime /\ ToneEndKnown /\ HoldCovers
  BY DEF CueInv
<1>1. T \in Nat /\ T' = T /\ Padded = T + SILENCE_PADDING /\ Padded' = Padded
  BY <1>0, SamplesCounted DEF NotesToneEnd, TotalSamples, Padded
<1>2. /\ before # Never /\ before' = Never /\ due' \in {due + Buffer, Never}
      /\ toneEnd' = IF ToneEndInBuffer(before, clock) # Never /\ timed /\ toneEnd = Never
                    THEN now + lat + ToneEndInBuffer(before, clock) ELSE toneEnd
      /\ UNCHANGED <<sound, lat, timed, now, clock, finished, until, player, wake, played, cut>>
  BY DEF NotesToneEnd
<1>3. /\ lat \in Nat /\ now \in Nat /\ due \in Nat /\ clock \in Nat /\ before \in Nat
      /\ finished \in BOOLEAN /\ timed \in BOOLEAN /\ Late \in Nat
      /\ toneEnd \in Instant /\ until \in Nat /\ wake \in Nat /\ played \in Instant /\ cut \in Instant
      /\ Buffer \in Nat \ {0} /\ SILENCE_PADDING \in Nat /\ Buffer <= SILENCE_PADDING
  BY <1>0, <1>2, BeeperAssumption, DeviceAssumption DEF CueTyped, CueStages, DeviceKeepsTime, Instant
<1>4. player # "idle" /\ cut = Never
  BY <1>0, <1>2 DEF CueStages
<1>. HIDE DEF T
<1>5. clock = Least(before + Buffer, T + SILENCE_PADDING)
  BY <1>0, <1>1, <1>2 DEF DeviceKeepsTime
<1>6. \/ /\ before < T /\ clock >= T /\ timed /\ toneEnd = Never /\ until = now + lat + (T - before)
         /\ toneEnd' = until
      \/ /\ ~(before < T /\ clock >= T /\ timed)
         /\ toneEnd' = toneEnd
  <2>1. CASE before < T /\ clock >= T
    <3>1. before + Buffer >= T
      BY <1>1, <1>3, <1>5, <2>1 DEF Least
    <3>2. until = now + lat + (T - before) /\ toneEnd = Never
      BY <1>0, <1>1, <1>2, <1>3, <2>1, <3>1 DEF ToneEndKnown, Least, T
    <3>3. ToneEndInBuffer(before, clock) = T - before /\ T - before # Never
      BY <1>1, <1>3, <2>1 DEF ToneEndInBuffer, Never, T
    <3>. QED
      BY <1>2, <1>3, <2>1, <3>2, <3>3
  <2>2. CASE ~(before < T /\ clock >= T)
    BY <1>2, <2>2 DEF ToneEndInBuffer, T
  <2>. QED
    BY <2>1, <2>2
<1>7. toneEnd' \in Instant /\ due' \in Instant /\ before' \in Instant
  BY <1>2, <1>3, <1>6 DEF Instant
<1>8. CueTyped'
  BY <1>0, <1>2, <1>7 DEF CueTyped
<1>9. CueStages'
  BY <1>0, <1>2, <1>4 DEF CueStages
<1>10. DeviceKeepsTime'
  <2>1. /\ before <= due /\ due <= now /\ (before < Padded => due = before) /\ now <= due + Late
        /\ clock <= Padded /\ (finished => clock = Padded /\ now > Padded - Buffer)
    BY <1>0, <1>2 DEF DeviceKeepsTime
  <2>2. due' # Never => due' = due + Buffer
    BY <1>2
  <2>3. due' # Never => now <= due' + Late /\ due' >= clock
    BY <1>1, <1>3, <1>5, <2>1, <2>2 DEF Least
  <2>4. due' # Never /\ clock < Padded => due' = clock
    BY <1>1, <1>3, <1>5, <2>1, <2>2 DEF Least
  <2>. QED
    BY <1>1, <1>2, <2>1, <2>3, <2>4 DEF DeviceKeepsTime
<1>11. ToneEndKnown'
  <2>1. before < T => clock < T \/ clock >= T
    BY <1>1, <1>3
  <2>2. clock >= T /\ timed /\ T > 0 => toneEnd' # Never
    BY <1>0, <1>1, <1>2, <1>3, <1>6 DEF ToneEndKnown, Never, T
  <2>3. toneEnd' # Never => timed /\ toneEnd' = until /\ clock >= T
    BY <1>0, <1>1, <1>2, <1>3, <1>6 DEF ToneEndKnown, Never, T
  <2>. QED
    BY <1>0, <1>1, <1>2, <1>3, <2>2, <2>3 DEF ToneEndKnown, T
<1>12. HoldCovers'
  BY <1>0, <1>1, <1>2, <1>3, <1>6 DEF HoldCovers, Never, T
<1>13. HeardWhole' /\ SilentAfterPlayed'
  BY <1>2, <1>4 DEF HeardWhole, SilentAfterPlayed
<1>. QED
  BY <1>8, <1>9, <1>10, <1>11, <1>12, <1>13 DEF CueInv

\* A player that gives up, or sees the flag, waits long enough.
LEMMA HoldsStep ==
    ASSUME CueInv, Holds
    PROVE  CueInv'
<1>. DEFINE T == TotalSamples
<1>0. CueTyped /\ CueStages /\ DeviceKeepsTime /\ ToneEndKnown
  BY DEF CueInv
<1>1. T \in Nat /\ T' = T /\ Padded = T + SILENCE_PADDING /\ Padded' = Padded
  BY <1>0, SamplesCounted DEF Holds, TotalSamples, Padded
<1>2. /\ player = "polling" /\ (finished \/ now > T + Grace)
      /\ player' = "holding" /\ wake' = HoldUntil /\ played' = toneEnd
      /\ UNCHANGED <<sound, lat, timed, now, due, clock, before, finished, toneEnd, until, cut>>
  BY DEF Holds, BeepTimeout
<1>3. /\ now \in Nat /\ toneEnd \in Instant /\ wake \in Nat /\ Flush \in Nat /\ Grace \in Nat
      /\ finished \in BOOLEAN /\ SILENCE_PADDING \in Nat /\ clock \in Nat /\ Buffer \in Nat
      /\ before \in Instant
  BY <1>0, BeeperAssumption, DeviceAssumption DEF CueTyped
<1>4. wake' \in Nat
  BY <1>2, <1>3 DEF HoldUntil, Most, Instant
<1>5. CueTyped'
  BY <1>0, <1>2, <1>4 DEF CueTyped
<1>6. CueStages' /\ cut = Never
  BY <1>0, <1>2 DEF CueStages
<1>. HIDE DEF T
<1>7. DeviceKeepsTime'
  BY <1>0, <1>1, <1>2 DEF DeviceKeepsTime, T
<1>8. ToneEndKnown'
  BY <1>0, <1>1, <1>2 DEF ToneEndKnown, T
<1>9. HoldCovers'
  <2>1. CASE toneEnd # Never
    BY <1>2, <1>3, <2>1 DEF HoldCovers, HoldUntil, Most, Instant
  <2>2. CASE toneEnd = Never
    <3>1. wake' = now + Flush /\ played' = Never
      BY <1>2, <2>2 DEF HoldUntil
    <3>2. CASE finished
      <4>1. clock = Padded /\ now > Padded - Buffer /\ (before # Never => before >= T)
        BY <1>0, <3>2 DEF DeviceKeepsTime, T
      <4>2. ~(timed /\ T > 0)
        BY <1>0, <1>1, <1>3, <2>2, <4>1 DEF ToneEndKnown, T, Instant
      <4>3. wake' > Padded - Buffer + Flush
        BY <1>1, <1>3, <3>1, <4>1
      <4>. QED
        BY <1>1, <1>2, <3>1, <3>2, <4>2, <4>3 DEF HoldCovers, T
    <3>3. CASE ~finished
      <4>1. now > T + Grace
        BY <1>2, <3>3
      <4>2. wake' > T + Grace + Flush
        BY <1>1, <1>3, <3>1, <4>1
      <4>3. ASSUME timed, T > 0
            PROVE  due = Never
        <5>1. SUFFICES ASSUME due # Never PROVE FALSE
          OBVIOUS
        <5>2. clock < T \/ (before # Never /\ before < T)
          BY <1>0, <1>1, <1>3, <2>2, <4>3 DEF ToneEndKnown, T, Instant
        <5>3. due < T /\ due \in Nat
          <6>1. due \in Nat
            BY <1>0, <5>1 DEF CueTyped, Instant
          <6>2. CASE before = Never
            BY <1>0, <1>1, <1>3, <5>1, <5>2, <6>1, <6>2 DEF DeviceKeepsTime
          <6>3. CASE before # Never
            <7>1. before < T
              <8>1. before \in Nat /\ clock = Least(before + Buffer, Padded)
                BY <1>0, <1>3, <6>3 DEF DeviceKeepsTime, Instant
              <8>. QED
                BY <1>1, <1>3, <5>2, <6>3, <8>1 DEF Least
            <7>. QED
              BY <1>0, <1>1, <1>3, <6>1, <6>3, <7>1 DEF DeviceKeepsTime, Instant
          <6>. QED
            BY <6>2, <6>3
        <5>4. now <= due + Late /\ Late <= Grace + 1 /\ Late \in Nat
          BY <1>0, <5>1, DeviceAssumption DEF DeviceKeepsTime
        <5>. QED
          BY <1>1, <1>3, <4>1, <5>3, <5>4
      <4>. QED
        BY <1>1, <1>2, <3>1, <3>3, <4>2, <4>3 DEF HoldCovers, T
    <3>. QED
      BY <3>2, <3>3
  <2>. QED
    BY <2>1, <2>2
<1>10. HeardWhole' /\ SilentAfterPlayed'
  BY <1>2, <1>6 DEF HeardWhole, SilentAfterPlayed
<1>. QED
  BY <1>5, <1>6, <1>7, <1>8, <1>9, <1>10 DEF CueInv

\* What it waited for is past when the stream is dropped.
LEMMA DropsStreamStep ==
    ASSUME CueInv, DropsStream
    PROVE  CueInv'
<1>. DEFINE T == TotalSamples
<1>0. CueTyped /\ CueStages /\ DeviceKeepsTime /\ ToneEndKnown /\ HoldCovers
  BY DEF CueInv
<1>1. T \in Nat /\ T' = T /\ Padded = T + SILENCE_PADDING /\ Padded' = Padded
  BY <1>0, SamplesCounted DEF DropsStream, TotalSamples, Padded
<1>2. /\ player = "holding" /\ wake <= now /\ before = Never
      /\ player' = "idle" /\ due' = Never /\ cut' = now
      /\ played' = IF played # Never THEN played ELSE now
      /\ UNCHANGED <<sound, lat, timed, now, clock, before, finished, toneEnd, until, wake>>
  BY DEF DropsStream
<1>3. /\ now \in Nat /\ toneEnd \in Instant /\ wake \in Nat /\ Flush \in Nat /\ Grace \in Nat
      /\ finished \in BOOLEAN /\ timed \in BOOLEAN /\ SILENCE_PADDING \in Nat /\ clock \in Nat
      /\ Buffer \in Nat /\ Late \in Nat /\ lat \in Nat /\ until \in Nat
      /\ Late <= Grace + 1 /\ (lat <= Flush => lat + Buffer + Late <= Flush + SILENCE_PADDING + 1)
      /\ (timed \/ lat <= Flush) /\ cut' # Never /\ played' # Never
  BY <1>0, <1>2, BeeperAssumption, DeviceAssumption DEF CueTyped, Never
<1>4. CueTyped'
  BY <1>0, <1>2 DEF CueTyped, Instant
<1>5. CueStages'
  BY <1>0, <1>2, <1>3 DEF CueStages
<1>. HIDE DEF T
<1>6. DeviceKeepsTime' /\ ToneEndKnown' /\ HoldCovers'
  BY <1>0, <1>1, <1>2 DEF DeviceKeepsTime, ToneEndKnown, HoldCovers, T
<1>7. until <= T + lat + Late /\ (T = 0 => until = 0)
  BY <1>0 DEF ToneEndKnown, T
<1>8. CASE played # Never
  <2>1. played = toneEnd /\ wake >= toneEnd + SILENCE_PADDING /\ toneEnd = until
    BY <1>0, <1>2, <1>8 DEF HoldCovers, ToneEndKnown
  <2>2. until <= played' /\ until + SILENCE_PADDING <= cut'
    BY <1>2, <1>3, <1>8, <2>1
  <2>3. HeardWhole' /\ SilentAfterPlayed'
    BY <1>2, <1>3, <2>2 DEF HeardWhole, SilentAfterPlayed
  <2>. QED
    BY <1>4, <1>5, <1>6, <2>3 DEF CueInv
<1>9. CASE played = Never
  <2>1. \/ (timed /\ T > 0) /\ ~finished
        \/ ~(timed /\ T > 0) /\ wake > T + Grace + Flush
        \/ ~(timed /\ T > 0) /\ wake > Padded - Buffer + Flush
    BY <1>0, <1>2, <1>9 DEF HoldCovers, T
  <2>2. finished => until + (IF timed /\ T > 0 THEN SILENCE_PADDING ELSE 0) <= now
    <3>1. CASE ~(timed /\ T > 0) /\ wake > T + Grace + Flush
      BY <1>1, <1>2, <1>3, <1>7, <3>1
    <3>2. CASE ~(timed /\ T > 0) /\ wake > Padded - Buffer + Flush
      BY <1>1, <1>2, <1>3, <1>7, <3>2
    <3>. QED
      BY <2>1, <3>1, <3>2
  <2>3. HeardWhole'
    BY <1>1, <1>2, <2>2 DEF HeardWhole, T
  <2>4. SilentAfterPlayed'
    BY <1>2, <1>3, <1>9 DEF SilentAfterPlayed
  <2>. QED
    BY <1>4, <1>5, <1>6, <2>3, <2>4 DEF CueInv
<1>. QED
  BY <1>8, <1>9

\* Time passes, the player looks, and a cue begins, ends or does not play.
LEMMA WaitingSteps ==
    ASSUME CueInv, Looks \/ Tick
    PROVE  CueInv'
<1>. DEFINE T == TotalSamples
<1>0. CueTyped /\ CueStages /\ DeviceKeepsTime /\ ToneEndKnown /\ HoldCovers
  BY DEF CueInv
<1>1. T \in Nat /\ T' = T /\ Padded = T + SILENCE_PADDING /\ Padded' = Padded
  BY <1>0, SamplesCounted DEF Looks, Tick, TotalSamples, Padded
<1>2. /\ now \in Nat /\ due \in Instant /\ wake \in Nat /\ Poll \in Nat /\ Late \in Nat
      /\ Buffer \in Nat /\ SILENCE_PADDING \in Nat
  BY <1>0, BeeperAssumption, DeviceAssumption DEF CueTyped
<1>3. CASE Looks
  <2>1. /\ player = "polling" /\ wake' = now + Poll
        /\ UNCHANGED <<sound, lat, timed, now, due, clock, before, finished, toneEnd, until, player, played, cut>>
    BY <1>3 DEF Looks
  <2>2. CueTyped' /\ CueStages'
    BY <1>0, <1>2, <2>1 DEF CueTyped, CueStages
  <2>. HIDE DEF T
  <2>3. DeviceKeepsTime' /\ ToneEndKnown' /\ HoldCovers'
    BY <1>0, <1>1, <2>1 DEF DeviceKeepsTime, ToneEndKnown, HoldCovers, T
  <2>4. HeardWhole' /\ SilentAfterPlayed'
    BY <1>0, <2>1 DEF CueStages, HeardWhole, SilentAfterPlayed
  <2>. QED
    BY <2>2, <2>3, <2>4 DEF CueInv
<1>4. CASE Tick
  <2>1. /\ player # "idle" /\ before = Never /\ now' = now + 1 /\ (due # Never => now < due + Late)
        /\ UNCHANGED <<sound, lat, timed, due, clock, before, finished, toneEnd, until, player, wake, played, cut>>
    BY <1>4 DEF Tick
  <2>2. CueTyped' /\ CueStages'
    BY <1>0, <1>2, <2>1 DEF CueTyped, CueStages
  <2>. HIDE DEF T
  <2>3. DeviceKeepsTime'
    BY <1>0, <1>1, <1>2, <2>1 DEF DeviceKeepsTime, Instant, T
  <2>4. ToneEndKnown' /\ HoldCovers'
    BY <1>0, <1>1, <2>1 DEF ToneEndKnown, HoldCovers, T
  <2>5. HeardWhole' /\ SilentAfterPlayed'
    BY <1>0, <2>1 DEF CueStages, HeardWhole, SilentAfterPlayed
  <2>. QED
    BY <2>2, <2>3, <2>4, <2>5 DEF CueInv
<1>. QED
  BY <1>3, <1>4

LEMMA CueChanges ==
    ASSUME CueInv, NothingPlays \/ Plays \/ GapEnds
    PROVE  CueInv'
<1>. DEFINE T == TotalSamples
<1>0. CueTyped /\ CueStages /\ DeviceKeepsTime /\ ToneEndKnown /\ HoldCovers
  BY DEF CueInv
<1>1. CASE NothingPlays
  <2>1. /\ player = "idle" /\ played = Never /\ player' = "idle" /\ due' = Never
        /\ UNCHANGED <<sound, lat, timed, now, clock, before, finished, toneEnd, until, wake, played, cut>>
    BY <1>1 DEF NothingPlays, Silent
  <2>2. T' = T /\ Padded' = Padded
    BY <2>1 DEF TotalSamples, Padded
  <2>3. CueTyped' /\ CueStages'
    BY <1>0, <2>1 DEF CueTyped, CueStages, Instant
  <2>. HIDE DEF T
  <2>4. DeviceKeepsTime' /\ ToneEndKnown' /\ HoldCovers' /\ HeardWhole' /\ SilentAfterPlayed'
    BY <1>0, <2>1, <2>2 DEF CueStages, DeviceKeepsTime, ToneEndKnown, HoldCovers, HeardWhole, SilentAfterPlayed, T
  <2>. QED
    BY <2>3, <2>4 DEF CueInv
<1>2. CASE Plays
  <2>1. /\ player = "idle" /\ played = Never /\ player' = "polling" /\ wake' = 0 /\ due' = 0
        /\ UNCHANGED <<sound, lat, timed, now, clock, before, finished, toneEnd, until, played, cut>>
    BY <1>2 DEF Plays
  <2>2. T' = T /\ Padded' = Padded /\ T \in Nat
    BY <1>0, <2>1, SamplesCounted DEF TotalSamples, Padded
  <2>3. CueTyped' /\ CueStages'
    BY <1>0, <2>1 DEF CueTyped, CueStages, Instant
  <2>. HIDE DEF T
  <2>4. DeviceKeepsTime'
    BY <1>0, <2>1, <2>2, DeviceAssumption DEF CueStages, DeviceKeepsTime, T
  <2>5. ToneEndKnown' /\ HoldCovers' /\ HeardWhole' /\ SilentAfterPlayed'
    BY <1>0, <2>1, <2>2 DEF CueStages, ToneEndKnown, HoldCovers, HeardWhole, SilentAfterPlayed, T
  <2>. QED
    BY <2>3, <2>4, <2>5 DEF CueInv
<1>3. CASE GapEnds
  <2>1. /\ sound' \in Cues /\ now' = 0 /\ due' = Never /\ clock' = 0 /\ before' = Never /\ finished' = FALSE
        /\ toneEnd' = Never /\ until' = 0 /\ player' = "idle" /\ wake' = 0 /\ played' = Never
        /\ cut' = Never /\ lat' = lat /\ timed' = timed
    BY <1>3 DEF GapEnds
  <2>2. CueTyped'
    BY <1>0, <2>1, DeviceAssumption DEF CueTyped, Instant
  <2>3. TotalSamples' \in Nat
    <3>1. \A a, b \in Nat : a * b \in Nat
      OBVIOUS
    <3>2. sound'.tones \in Nat /\ sound'.per \in Nat
      BY <2>1, DeviceAssumption
    <3>. QED
      BY <3>1, <3>2 DEF TotalSamples
  <2>4. CueStages'
    BY <2>1 DEF CueStages
  <2>5. DeviceKeepsTime'
    <3>1. Padded' \in Nat
      <4>1. SILENCE_PADDING \in Nat
        BY DeviceAssumption
      <4>. QED
        BY <2>3, <4>1 DEF Padded, TotalSamples
    <3>. QED
      BY <2>1, <3>1 DEF DeviceKeepsTime
  <2>7. HoldCovers' /\ HeardWhole' /\ SilentAfterPlayed'
    BY <2>1 DEF HoldCovers, HeardWhole, SilentAfterPlayed
  <2>6. ToneEndKnown'
    <3>1. lat' \in Nat /\ Late \in Nat
      <4>1. lat \in Latencies /\ lat' = lat
        BY <1>0, <2>1 DEF CueTyped
      <4>. QED
        BY <4>1, DeviceAssumption
    <3>2. SILENCE_PADDING \in Nat
      BY DeviceAssumption
    <3>3. TotalSamples' = 0 \/ ~(clock' >= TotalSamples')
      BY <2>1, <2>3
    <3>. QED
      BY <2>1, <2>3, <3>1, <3>3 DEF ToneEndKnown, TotalSamples
  <2>. QED
    BY <2>2, <2>4, <2>5, <2>6, <2>7 DEF CueInv
<1>. QED
  BY <1>1, <1>2, <1>3

LEMMA BeeperStep ==
    ASSUME CueInv, [BeeperNext]_beeperVars
    PROVE  CueInv'
<1>1. CASE UNCHANGED beeperVars
  <2>1. TotalSamples' = TotalSamples /\ Padded' = Padded
    BY <1>1 DEF beeperVars, TotalSamples, Padded
  <2>. QED
    BY <1>1, <2>1 DEF beeperVars, CueInv, CueTyped, CueStages, DeviceKeepsTime, ToneEndKnown, HoldCovers,
       HeardWhole, SilentAfterPlayed
<1>. QED
  BY <1>1, FillsStep, NotesToneEndStep, HoldsStep, DropsStreamStep, WaitingSteps, CueChanges
     DEF BeeperNext

\* audio/beeper.rs, play and wait_for_finish: on a device no later than DeviceAssumption says, a
\* cue the device takes to its end is heard to its end, and no frame of it is heard after the
\* instant the player answers.
THEOREM CuesAreHeard == BackendsSpec => []CueIsHeard
<1>. DEFINE J == IF what = "cue" THEN CueInv ELSE cut = Never
<1>1. BackendsInit => J
  BY BeeperStarts DEF BackendsInit
<1>2. J /\ [BackendsNext]_backendVars => J'
  <2>1. SUFFICES ASSUME J, [BackendsNext]_backendVars
                 PROVE  J'
    OBVIOUS
  <2>2. what' = what /\ [BeeperNext]_beeperVars /\ (what # "cue" => cut' = cut)
    BY <2>1 DEF BackendsNext, Is, backendVars, beeperVars
  <2>. QED
    BY <2>1, <2>2, BeeperStep
<1>3. J => CueIsHeard
  BY DEF CueInv, CueIsHeard, HeardWhole, SilentAfterPlayed
<1>. HIDE DEF J
<1>. QED
  BY <1>1, <1>2, <1>3, PTL DEF BackendsSpec

-----------------------------------------------------------------------------
\* The frames of a realtime session (Realtime).

LEMMA NothingCarried ==
    ASSUME NEW a \in Nat
    PROVE  Carries(<<>>, a, a)
BY DEF Carries

LEMMA CarriesOneMore ==
    ASSUME NEW seq \in Seq(Int), NEW a \in Nat, NEW b \in Nat, Carries(seq, a, b), a <= b
    PROVE  Carries(Append(seq, b + 1), a, b + 1)
<1>. DEFINE longer == Append(seq, b + 1)
<1>1. /\ longer[Len(seq) + 1] = b + 1 /\ \A i \in 1 .. Len(seq) : longer[i] = seq[i] /\ seq[i] \in Int
      /\ DOMAIN seq = 1 .. Len(seq) /\ Len(seq) \in Nat /\ DOMAIN longer = 1 .. Len(seq) + 1
  <2>1. b + 1 \in Int
    OBVIOUS
  <2>2. /\ longer \in Seq(Int) /\ Len(longer) = Len(seq) + 1
        /\ \A i \in 1 .. Len(seq) : longer[i] = seq[i]
        /\ longer[Len(seq) + 1] = b + 1
    BY <2>1, AppendProperties
  <2>. HIDE DEF longer
  <2>3. DOMAIN seq = 1 .. Len(seq) /\ Len(seq) \in Nat /\ \A i \in 1 .. Len(seq) : seq[i] \in Int
    OBVIOUS
  <2>4. DOMAIN longer = 1 .. Len(longer)
    BY <2>2
  <2>. QED
    BY <2>2, <2>3, <2>4
<1>. HIDE DEF longer
<1>2. /\ \A i \in DOMAIN longer : (i \in DOMAIN seq /\ longer[i] = seq[i]) \/ (i = Len(seq) + 1 /\ longer[i] = b + 1)
      /\ \A i \in DOMAIN seq : i \in DOMAIN longer /\ longer[i] = seq[i] /\ seq[i] \in Int
      /\ Len(seq) + 1 \in DOMAIN longer /\ longer[Len(seq) + 1] = b + 1
  <2>1. \A i \in DOMAIN longer : i \in 1 .. Len(seq) \/ i = Len(seq) + 1
    BY <1>1
  <2>2. (\A i \in 1 .. Len(seq) : i \in DOMAIN longer) /\ Len(seq) + 1 \in DOMAIN longer
    BY <1>1
  <2>. QED
    BY <1>1, <2>1, <2>2
<1>3. \A i \in DOMAIN longer : longer[i] > 0 => longer[i] \in a + 1 .. b + 1
  BY <1>2 DEF Carries
<1>4. \A x \in a + 1 .. b + 1 : \E i \in DOMAIN longer : longer[i] = x
  <2>1. ASSUME NEW x \in a + 1 .. b + 1
        PROVE  \E i \in DOMAIN longer : longer[i] = x
    <3>1. CASE x = b + 1
      BY <3>1, <1>2
    <3>2. CASE x \in a + 1 .. b
      BY <3>2, <1>2 DEF Carries
    <3>. QED
      BY <2>1, <3>1, <3>2
  <2>. QED
    BY <2>1
<1>5. ASSUME NEW i \in DOMAIN longer, NEW j \in DOMAIN longer, i < j, longer[i] > 0, longer[j] > 0
      PROVE  longer[i] < longer[j]
  <2>1. i \in DOMAIN seq /\ longer[i] = seq[i]
    BY <1>1, <1>2, <1>5
  <2>2. longer[i] \in a + 1 .. b
    BY <1>5, <2>1 DEF Carries
  <2>3. CASE j \in DOMAIN seq /\ longer[j] = seq[j]
    BY <1>5, <2>1, <2>3 DEF Carries
  <2>4. CASE longer[j] = b + 1
    BY <2>2, <2>4
  <2>. QED
    BY <1>2, <2>3, <2>4
<1>. QED
  BY <1>3, <1>4, <1>5 DEF Carries, longer

LEMMA CarriesAnother ==
    ASSUME NEW seq \in Seq(Int), NEW a \in Nat, NEW b \in Nat, Carries(seq, a, b), NEW x \in Int, ~(x > 0)
    PROVE  Carries(Append(seq, x), a, b)
<1>1. /\ DOMAIN seq = 1 .. Len(seq) /\ Len(seq) \in Nat
      /\ DOMAIN Append(seq, x) = 1 .. Len(seq) + 1
      /\ \A i \in DOMAIN seq : Append(seq, x)[i] = seq[i]
      /\ Append(seq, x)[Len(seq) + 1] = x
  OBVIOUS
<1>2. \A i \in DOMAIN Append(seq, x) : Append(seq, x)[i] > 0 => i \in DOMAIN seq /\ Append(seq, x)[i] = seq[i]
  BY <1>1
<1>3. \A i \in DOMAIN seq : i \in DOMAIN Append(seq, x) /\ Append(seq, x)[i] = seq[i]
  BY <1>1
<1>. QED
  BY <1>2, <1>3 DEF Carries

LEMMA CarriesAll ==
    ASSUME NEW s \in Seq(Int), NEW t \in Seq(Int), NEW a \in Nat, NEW b \in Nat, NEW c \in Nat,
           a <= b, b <= c, Carries(s, a, b), Carries(t, b, c)
    PROVE  Carries(s \o t, a, c)
<1>. DEFINE both == s \o t
<1>1. /\ Len(s) \in Nat /\ Len(t) \in Nat /\ DOMAIN s = 1 .. Len(s) /\ DOMAIN t = 1 .. Len(t)
      /\ DOMAIN both = 1 .. Len(s) + Len(t)
      /\ \A i \in DOMAIN s : both[i] = s[i] /\ s[i] \in Int
      /\ \A i \in DOMAIN t : both[Len(s) + i] = t[i] /\ t[i] \in Int
  OBVIOUS
<1>. HIDE DEF both
<1>2. ASSUME NEW i \in DOMAIN both
      PROVE  \/ i \in DOMAIN s /\ both[i] = s[i]
             \/ i > Len(s) /\ i - Len(s) \in DOMAIN t /\ both[i] = t[i - Len(s)]
  <2>1. CASE i <= Len(s)
    BY <1>1, <2>1
  <2>2. CASE i > Len(s)
    <3>1. i - Len(s) \in DOMAIN t /\ i = Len(s) + (i - Len(s))
      BY <1>1, <2>2
    <3>. QED
      BY <1>1, <2>2, <3>1
  <2>. QED
    BY <1>1, <2>1, <2>2
<1>3. \A i \in DOMAIN both : both[i] > 0 => both[i] \in a + 1 .. c
  BY <1>1, <1>2, SMTT(30) DEF Carries
<1>4. \A x \in a + 1 .. c : \E i \in DOMAIN both : both[i] = x
  <2>1. ASSUME NEW x \in a + 1 .. c
        PROVE  \E i \in DOMAIN both : both[i] = x
    <3>1. CASE x \in a + 1 .. b
      <4>1. PICK i \in DOMAIN s : s[i] = x
        BY <3>1 DEF Carries
      <4>. QED
        BY <1>1, <4>1
    <3>2. CASE x \in b + 1 .. c
      <4>1. PICK i \in DOMAIN t : t[i] = x
        BY <3>2 DEF Carries
      <4>2. Len(s) + i \in DOMAIN both
        BY <1>1
      <4>. QED
        BY <1>1, <4>1, <4>2
    <3>. QED
      BY <2>1, <3>1, <3>2
  <2>. QED
    BY <2>1
<1>5. ASSUME NEW i \in DOMAIN both, NEW j \in DOMAIN both, i < j, both[i] > 0, both[j] > 0
      PROVE  both[i] < both[j]
  <2>1. CASE i \in DOMAIN s /\ both[i] = s[i] /\ j \in DOMAIN s /\ both[j] = s[j]
    BY <1>5, <2>1 DEF Carries
  <2>2. CASE i \in DOMAIN s /\ both[i] = s[i] /\ j > Len(s) /\ j - Len(s) \in DOMAIN t /\ both[j] = t[j - Len(s)]
    <3>1. both[i] \in a + 1 .. b /\ both[j] \in b + 1 .. c
      BY <1>5, <2>2 DEF Carries
    <3>. QED
      BY <3>1
  <2>3. CASE /\ i > Len(s) /\ i - Len(s) \in DOMAIN t /\ both[i] = t[i - Len(s)]
             /\ j > Len(s) /\ j - Len(s) \in DOMAIN t /\ both[j] = t[j - Len(s)]
    <3>1. i - Len(s) < j - Len(s)
      BY <1>1, <1>5
    <3>. QED
      BY <1>5, <2>3, <3>1 DEF Carries
  <2>4. CASE i > Len(s) /\ j \in DOMAIN s
    BY <1>1, <1>5, <2>4
  <2>. QED
    BY <1>2, <2>1, <2>2, <2>3, <2>4
<1>. QED
  BY <1>3, <1>4, <1>5 DEF Carries, both

LEMMA TheRest ==
    ASSUME NEW seq \in Seq(Int), NEW k \in DOMAIN seq
    PROVE  /\ SubSeq(seq, k + 1, Len(seq)) \in Seq(Int)
           /\ Len(SubSeq(seq, k + 1, Len(seq))) = Len(seq) - k
           /\ \A j \in 1 .. Len(seq) - k : SubSeq(seq, k + 1, Len(seq))[j] = seq[k + j]
<1>. DEFINE rest == SubSeq(seq, k + 1, Len(seq))
<1>1. /\ Len(seq) \in Nat /\ k \in 1 .. Len(seq) /\ k + 1 \in Int /\ Len(seq) \in Int
      /\ \A i \in k + 1 .. Len(seq) : seq[i] \in Int
  OBVIOUS
<1>2. /\ rest \in Seq(Int)
      /\ Len(rest) = IF k + 1 <= Len(seq) THEN Len(seq) - (k + 1) + 1 ELSE 0
      /\ \A j \in 1 .. Len(seq) - (k + 1) + 1 : rest[j] = seq[(k + 1) + j - 1]
  <2>1. /\ k + 1 \in Int /\ Len(seq) \in Int
        /\ \A i \in k + 1 .. Len(seq) : seq[i] \in Int
    BY <1>1
  <2>. QED
    BY <2>1, SubSeqProperties, SMTT(30)
<1>. HIDE DEF rest
<1>3. Len(rest) = Len(seq) - k
  <2>1. Len(seq) \in Nat /\ k \in 1 .. Len(seq)
    BY <1>1
  <2>2. Len(rest) = IF k + 1 <= Len(seq) THEN Len(seq) - (k + 1) + 1 ELSE 0
    BY <1>2
  <2>. QED
    BY <2>1, <2>2
<1>4. \A j \in 1 .. Len(seq) - k : (k + 1) + j - 1 = k + j /\ j \in 1 .. Len(seq) - (k + 1) + 1
  <2>1. Len(seq) \in Nat /\ k \in Nat
    BY <1>1
  <2>. QED
    BY <2>1
<1>5. \A j \in 1 .. Len(seq) - k : rest[j] = seq[k + j]
  BY <1>2, <1>4
<1>. QED
  BY <1>2, <1>3, <1>5 DEF rest

\* What is left behind a frame that no other frame comes before.
LEMMA CarriesTheRest ==
    ASSUME NEW seq \in Seq(Int), NEW a \in Nat, NEW b \in Nat, Carries(seq, a, b), a <= b,
           NEW k \in DOMAIN seq, \A i \in DOMAIN seq : i < k => ~(seq[i] > 0),
           NEW rest \in Seq(Int), Len(rest) = Len(seq) - k,
           \A j \in 1 .. Len(seq) - k : rest[j] = seq[k + j]
    PROVE  /\ seq[k] > 0 => seq[k] = a + 1 /\ a + 1 <= b /\ Carries(rest, a + 1, b)
           /\ ~(seq[k] > 0) => Carries(rest, a, b)
<1>1. /\ DOMAIN rest = 1 .. Len(seq) - k /\ Len(seq) \in Nat /\ DOMAIN seq = 1 .. Len(seq)
      /\ k \in 1 .. Len(seq) /\ \A i \in DOMAIN seq : seq[i] \in Int
      /\ \A j \in 1 .. Len(seq) - k : rest[j] = seq[k + j]
  <2>1. DOMAIN rest = 1 .. Len(rest)
    OBVIOUS
  <2>. QED
    BY <2>1
<1>2. \A j \in DOMAIN rest : k + j \in DOMAIN seq /\ k + j > k /\ rest[j] = seq[k + j]
  BY <1>1, SMTT(30)
<1>3. \A i \in DOMAIN seq : i > k => i - k \in DOMAIN rest /\ rest[i - k] = seq[i]
  <2>1. ASSUME NEW i \in DOMAIN seq, i > k
        PROVE  i - k \in DOMAIN rest /\ rest[i - k] = seq[i]
    <3>1. i - k \in 1 .. Len(seq) - k /\ k + (i - k) = i
      BY <1>1, <2>1, SMTT(30)
    <3>. QED
      BY <1>1, <3>1
  <2>. QED
    BY <2>1
<1>4. \A i, j \in DOMAIN rest : i < j /\ rest[i] > 0 /\ rest[j] > 0 => rest[i] < rest[j]
  <2>1. ASSUME NEW i \in DOMAIN rest, NEW j \in DOMAIN rest, i < j, rest[i] > 0, rest[j] > 0
        PROVE  rest[i] < rest[j]
    <3>1. k + i < k + j
      BY <1>1, <2>1
    <3>. QED
      BY <1>2, <2>1, <3>1 DEF Carries
  <2>. QED
    BY <2>1
<1>5. ASSUME seq[k] > 0
      PROVE  seq[k] = a + 1 /\ a + 1 <= b /\ Carries(rest, a + 1, b)
  <2>1. seq[k] \in a + 1 .. b
    BY <1>5 DEF Carries
  <2>2. PICK f \in DOMAIN seq : seq[f] = a + 1
    BY <2>1 DEF Carries
  <2>3. f = k
    <3>0. seq[f] > 0
      BY <2>2
    <3>1. ~(f < k)
      BY <3>0
    <3>2. ASSUME k < f
          PROVE  FALSE
      <4>1. seq[k] < seq[f]
        BY <1>5, <3>0, <3>2 DEF Carries
      <4>. QED
        BY <2>1, <2>2, <4>1
    <3>. QED
      BY <1>1, <3>1, <3>2
  <2>4. \A j \in DOMAIN rest : rest[j] > 0 => rest[j] \in a + 2 .. b
    <3>1. ASSUME NEW j \in DOMAIN rest, rest[j] > 0
          PROVE  rest[j] \in a + 2 .. b
      <4>1. rest[j] \in a + 1 .. b /\ seq[k] < rest[j]
        BY <1>1, <1>2, <1>5, <3>1 DEF Carries
      <4>. QED
        BY <2>2, <2>3, <4>1
    <3>. QED
      BY <3>1
  <2>5. \A x \in a + 2 .. b : \E j \in DOMAIN rest : rest[j] = x
    <3>1. ASSUME NEW x \in a + 2 .. b
          PROVE  \E j \in DOMAIN rest : rest[j] = x
      <4>1. PICK i \in DOMAIN seq : seq[i] = x
        BY <3>1 DEF Carries
      <4>2. i > k
        <5>1. ~(i < k) /\ i # k
          BY <2>2, <2>3, <3>1, <4>1
        <5>. QED
          BY <1>1, <5>1
      <4>. QED
        BY <1>3, <4>1, <4>2
    <3>. QED
      BY <3>1
  <2>6. (a + 1) + 1 = a + 2
    OBVIOUS
  <2>7. Carries(rest, a + 1, b)
    BY <1>4, <2>4, <2>5, <2>6 DEF Carries
  <2>. QED
    BY <2>1, <2>2, <2>3, <2>7
<1>6. ASSUME ~(seq[k] > 0)
      PROVE  Carries(rest, a, b)
  <2>1. \A j \in DOMAIN rest : rest[j] > 0 => rest[j] \in a + 1 .. b
    BY <1>2 DEF Carries
  <2>2. \A x \in a + 1 .. b : \E j \in DOMAIN rest : rest[j] = x
    <3>1. ASSUME NEW x \in a + 1 .. b
          PROVE  \E j \in DOMAIN rest : rest[j] = x
      <4>1. PICK i \in DOMAIN seq : seq[i] = x
        BY <3>1 DEF Carries
      <4>2. i > k
        <5>1. ~(i < k) /\ i # k
          BY <1>6, <3>1, <4>1
        <5>. QED
          BY <1>1, <5>1
      <4>. QED
        BY <1>3, <4>1, <4>2
    <3>. QED
      BY <3>1
  <2>. QED
    BY <1>4, <2>1, <2>2 DEF Carries
<1>. QED
  BY <1>1, <1>2, <1>3, <1>5, <1>6

\* What a connection that breaks keeps of its frames are still the first of them.
LEMMA CarriesTheFirst ==
    ASSUME NEW seq \in Seq(Int), NEW a \in Nat, NEW b \in Nat, Carries(seq, a, b), a <= b,
           NEW k \in 0 .. Len(seq)
    PROVE  /\ SubSeq(seq, 1, k) \in Seq(Int) /\ DOMAIN SubSeq(seq, 1, k) = 1 .. k
           /\ \A i \in 1 .. k : i \in DOMAIN seq /\ SubSeq(seq, 1, k)[i] = seq[i]
           /\ \E c \in a .. b : Carries(SubSeq(seq, 1, k), a, c)
<1>. DEFINE kept == SubSeq(seq, 1, k)
<1>1. /\ kept \in Seq(Int) /\ Len(kept) = k /\ Len(seq) \in Nat /\ DOMAIN seq = 1 .. Len(seq)
      /\ \A i \in 1 .. k : i \in DOMAIN seq /\ kept[i] = seq[i] /\ seq[i] \in Int
  <2>1. /\ Len(seq) \in Nat /\ DOMAIN seq = 1 .. Len(seq) /\ k \in Int /\ 1 \in Int
        /\ \A i \in 1 .. k : i \in DOMAIN seq /\ seq[i] \in Int
    OBVIOUS
  <2>2. /\ kept \in Seq(Int) /\ Len(kept) = IF 1 <= k THEN k - 1 + 1 ELSE 0
        /\ \A i \in 1 .. k - 1 + 1 : kept[i] = seq[1 + i - 1]
    BY <2>1, SubSeqProperties
  <2>. HIDE DEF kept
  <2>3. Len(kept) = k
    BY <2>2
  <2>4. \A i \in 1 .. k : i \in 1 .. k - 1 + 1 /\ 1 + i - 1 = i
    OBVIOUS
  <2>5. \A i \in 1 .. k : kept[i] = seq[i]
    BY <2>2, <2>4
  <2>. QED
    BY <2>1, <2>2, <2>3, <2>5
<1>. HIDE DEF kept
<1>2. DOMAIN kept = 1 .. k
  BY <1>1
<1>3. \A i, j \in DOMAIN kept : i < j /\ kept[i] > 0 /\ kept[j] > 0 => kept[i] < kept[j]
  BY <1>1, <1>2 DEF Carries
<1>. DEFINE missing == {x \in a + 1 .. b : \A i \in 1 .. k : seq[i] # x}
<1>4. \E c \in a .. b : Carries(kept, a, c)
  <2>1. CASE missing = {}
    <3>1. \A i \in DOMAIN kept : kept[i] > 0 => kept[i] \in a + 1 .. b
      BY <1>1, <1>2 DEF Carries
    <3>2. \A x \in a + 1 .. b : \E i \in DOMAIN kept : kept[i] = x
      <4>1. \A x \in a + 1 .. b : \E i \in 1 .. k : seq[i] = x
        BY <2>1
      <4>. QED
        BY <1>1, <1>2, <4>1
    <3>3. Carries(kept, a, b) /\ b \in a .. b
      BY <1>3, <3>1, <3>2 DEF Carries
    <3>. QED
      BY <3>3
  <2>2. CASE missing # {}
    <3>1. missing \subseteq Nat
      OBVIOUS
    <3>2. PICK m \in missing : \A x \in missing : m <= x
      BY <2>2, <3>1, FirstOfSome
    <3>3. m \in a + 1 .. b /\ \A i \in 1 .. k : seq[i] # m
      BY <3>2
    <3>4. PICK f \in DOMAIN seq : seq[f] = m
      BY <3>3 DEF Carries
    <3>5. f > k
      BY <1>1, <3>3, <3>4
    <3>6. ASSUME NEW i \in DOMAIN kept, kept[i] > 0
          PROVE  kept[i] \in a + 1 .. m - 1
      <4>1. i \in DOMAIN seq /\ kept[i] = seq[i] /\ i < f /\ kept[i] # m
        BY <1>1, <1>2, <3>3, <3>5, <3>6
      <4>2. kept[i] \in a + 1 .. b /\ seq[f] > 0
        BY <3>3, <3>4, <3>6, <4>1 DEF Carries
      <4>3. kept[i] < m
        BY <3>4, <3>6, <4>1, <4>2 DEF Carries
      <4>. QED
        BY <3>3, <4>2, <4>3
    <3>7. ASSUME NEW x \in a + 1 .. m - 1
          PROVE  \E i \in DOMAIN kept : kept[i] = x
      <4>1. x \in a + 1 .. b /\ x \notin missing
        BY <3>2, <3>3
      <4>2. PICK i \in 1 .. k : seq[i] = x
        BY <4>1
      <4>. QED
        BY <1>1, <1>2, <4>2
    <3>8. m - 1 \in a .. b
      BY <3>3
    <3>9. Carries(kept, a, m - 1)
      BY <1>3, <3>6, <3>7 DEF Carries
    <3>. QED
      BY <3>8, <3>9
  <2>. QED
    BY <2>1, <2>2
<1>. QED
  BY <1>1, <1>2, <1>4 DEF kept

\* One socket: what the guest was given are the first frames, what is parked is the next
\* one, and on their way are those behind it; all of them, unless the connection ended.  An
\* end is what its socket says last.
Flow(isOpen, other, queue, held, count, given) ==
    /\ isOpen \in BOOLEAN /\ other \in {"talking", "gone"} /\ queue \in Seq(Int)
    /\ held \in Int /\ count \in Nat /\ given \in Seq(Int)
    /\ \E a, b, n \in Nat :
         /\ a <= b /\ b <= n /\ n <= count
         /\ Carries(given, 0, a) /\ Carries(queue, b, n)
         /\ IF held > 0 THEN held = a + 1 /\ b = a + 1 ELSE b = a
         /\ isOpen /\ (\A i \in DOMAIN queue : queue[i] # Broken) => n = count
    /\ \A i \in DOMAIN queue : queue[i] \in {Close, Broken} => other = "gone" /\ i = Len(queue)
    /\ ~isOpen => queue = <<>> /\ (other = "talking" => count = 0)

RelayInv ==
    /\ open \in [Sockets -> BOOLEAN] /\ far \in [Sockets -> {"talking", "gone"}]
    /\ inbox \in [Sockets -> Seq(Int)] /\ parked \in [Sockets -> Int]
    /\ sent \in [Sockets -> Nat] /\ got \in [Sockets -> Seq(Int)]
    /\ \A s \in Sockets : Flow(open[s], far[s], inbox[s], parked[s], sent[s], got[s])
    /\ \A i \in DOMAIN inbox["consumer"] : inbox["consumer"][i] \notin {Close, Broken}
    /\ session = "none" => waiting = NotWaiting /\ \A s \in Sockets : ~open[s] /\ far[s] = "talking"

LEMMA FlowStarts == Flow(FALSE, "talking", <<>>, NoFrame, 0, <<>>)
<1>1. Carries(<<>>, 0, 0)
  BY NothingCarried
<1>2. <<>> \in Seq(Int) /\ NoFrame = 0
  BY DEF NoFrame
<1>. QED
  BY <1>1, <1>2 DEF Flow

LEMMA FlowSends ==
    ASSUME NEW queue, NEW held, NEW count, NEW given, Flow(TRUE, "talking", queue, held, count, given)
    PROVE  Flow(TRUE, "talking", Append(queue, count + 1), held, count + 1, given)
<1>1. PICK a, b, n \in Nat :
         /\ a <= b /\ b <= n /\ n <= count
         /\ Carries(given, 0, a) /\ Carries(queue, b, n)
         /\ IF held > 0 THEN held = a + 1 /\ b = a + 1 ELSE b = a
         /\ (\A i \in DOMAIN queue : queue[i] # Broken) => n = count
  BY DEF Flow
<1>2. queue \in Seq(Int) /\ count \in Nat /\ held \in Int /\ given \in Seq(Int)
      /\ \A i \in DOMAIN queue : queue[i] \notin {Close, Broken}
  BY DEF Flow
<1>3. n = count
  BY <1>1, <1>2
<1>. DEFINE longer == Append(queue, count + 1)
<1>4. Carries(longer, b, count + 1)
  BY <1>1, <1>2, <1>3, CarriesOneMore
<1>5. /\ longer \in Seq(Int) /\ Len(longer) = Len(queue) + 1
      /\ \A i \in 1 .. Len(queue) : longer[i] = queue[i]
      /\ longer[Len(queue) + 1] = count + 1
  BY <1>2, AppendProperties
<1>. HIDE DEF longer
<1>6. \A i \in DOMAIN longer : longer[i] \notin {Close, Broken}
  <2>1. DOMAIN queue = 1 .. Len(queue) /\ Len(queue) \in Nat /\ DOMAIN longer = 1 .. Len(queue) + 1
    BY <1>2, <1>5
  <2>2. \A i \in DOMAIN longer : i \in 1 .. Len(queue) \/ i = Len(queue) + 1
    BY <2>1
  <2>3. count + 1 \notin {Close, Broken}
    BY <1>2 DEF Close, Broken
  <2>. QED
    BY <1>2, <1>5, <2>1, <2>2, <2>3
<1>7. \E x, y, z \in Nat :
         /\ x <= y /\ y <= z /\ z <= count + 1
         /\ Carries(given, 0, x) /\ Carries(longer, y, z)
         /\ IF held > 0 THEN held = x + 1 /\ y = x + 1 ELSE y = x
         /\ z = count + 1
  <2>1. count + 1 \in Nat /\ b <= count + 1
    BY <1>1, <1>2
  <2>. QED
    BY <1>1, <1>4, <2>1
<1>8. Flow(TRUE, "talking", longer, held, count + 1, given)
  BY <1>2, <1>5, <1>6, <1>7 DEF Flow
<1>. QED
  BY <1>8 DEF longer

LEMMA FlowPings ==
    ASSUME NEW queue, NEW held, NEW count, NEW given, Flow(TRUE, "talking", queue, held, count, given)
    PROVE  Flow(TRUE, "talking", Append(queue, Ping), held, count, given)
<1>1. PICK a, b, n \in Nat :
         /\ a <= b /\ b <= n /\ n <= count
         /\ Carries(given, 0, a) /\ Carries(queue, b, n)
         /\ IF held > 0 THEN held = a + 1 /\ b = a + 1 ELSE b = a
         /\ (\A i \in DOMAIN queue : queue[i] # Broken) => n = count
  BY DEF Flow
<1>2. queue \in Seq(Int) /\ count \in Nat /\ held \in Int /\ given \in Seq(Int)
      /\ \A i \in DOMAIN queue : queue[i] \notin {Close, Broken}
  BY DEF Flow
<1>3. n = count
  BY <1>1, <1>2
<1>. DEFINE longer == Append(queue, Ping)
<1>4. Ping \in Int /\ ~(Ping > 0) /\ Ping \notin {Close, Broken}
  BY DEF Ping, Close, Broken
<1>5. Carries(longer, b, n)
  BY <1>1, <1>2, <1>4, CarriesAnother
<1>6. /\ longer \in Seq(Int) /\ Len(longer) = Len(queue) + 1
      /\ \A i \in 1 .. Len(queue) : longer[i] = queue[i]
      /\ longer[Len(queue) + 1] = Ping
  BY <1>2, <1>4, AppendProperties
<1>. HIDE DEF longer
<1>7. \A i \in DOMAIN longer : longer[i] \notin {Close, Broken}
  <2>1. DOMAIN queue = 1 .. Len(queue) /\ Len(queue) \in Nat /\ DOMAIN longer = 1 .. Len(queue) + 1
    BY <1>2, <1>6
  <2>2. \A i \in DOMAIN longer : i \in 1 .. Len(queue) \/ i = Len(queue) + 1
    BY <2>1
  <2>. QED
    BY <1>2, <1>4, <1>6, <2>1, <2>2
<1>8. Flow(TRUE, "talking", longer, held, count, given)
  BY <1>1, <1>2, <1>3, <1>5, <1>6, <1>7 DEF Flow
<1>. QED
  BY <1>8 DEF longer

LEMMA FlowHangsUp ==
    ASSUME NEW queue, NEW held, NEW count, NEW given, Flow(TRUE, "talking", queue, held, count, given),
           NEW k \in 0 .. Len(queue), NEW last \in {<<>>, <<Close>>, <<Broken>>},
           k = Len(queue) \/ last = <<Broken>>
    PROVE  /\ Flow(TRUE, "gone", SubSeq(queue, 1, k) \o last, held, count, given)
           /\ last = <<>> => SubSeq(queue, 1, k) \o last = queue
<1>1. PICK a, b, n \in Nat :
         /\ a <= b /\ b <= n /\ n <= count
         /\ Carries(given, 0, a) /\ Carries(queue, b, n)
         /\ IF held > 0 THEN held = a + 1 /\ b = a + 1 ELSE b = a
         /\ (\A i \in DOMAIN queue : queue[i] # Broken) => n = count
  BY DEF Flow
<1>2. queue \in Seq(Int) /\ count \in Nat /\ held \in Int /\ given \in Seq(Int)
      /\ \A i \in DOMAIN queue : queue[i] \notin {Close, Broken}
  BY DEF Flow
<1>3. n = count
  BY <1>1, <1>2
<1>. DEFINE kept == SubSeq(queue, 1, k)
            rest == kept \o last
<1>4. /\ kept \in Seq(Int) /\ DOMAIN kept = 1 .. k /\ \A i \in 1 .. k : i \in DOMAIN queue /\ kept[i] = queue[i]
      /\ \E c \in b .. n : Carries(kept, b, c)
  BY <1>1, <1>2, CarriesTheFirst
<1>5. Len(kept) = k
  <2>. HIDE DEF kept
  <2>. QED
    BY <1>4
<1>6. k = Len(queue) => kept = queue
  <2>1. kept = SubSeq(queue, 1, Len(queue)) /\ queue = SubSeq(queue, 1, Len(queue)) => kept = queue
    BY ZenonT(60)
  <2>2. queue = SubSeq(queue, 1, Len(queue))
    BY <1>2, SubSeqFull
  <2>. QED
    BY <2>2, SMTT(30)
<1>. HIDE DEF kept
<1>7. CASE last = <<>>
  <2>1. rest = queue
    BY <1>2, <1>6, <1>7, ConcatEmptySeq
  <2>2. Flow(TRUE, "gone", queue, held, count, given)
    BY DEF Flow
  <2>. QED
    BY <2>1, <2>2 DEF kept
<1>8. ASSUME NEW e \in {Close, Broken}, last = <<e>>
      PROVE  Flow(TRUE, "gone", rest, held, count, given)
  <2>1. e \in Int /\ ~(e > 0)
    BY DEF Close, Broken
  <2>2. rest = Append(kept, e)
    BY <1>4, <1>8, <2>1, AppendIsConcat
  <2>. DEFINE longer == Append(kept, e)
  <2>3. /\ longer \in Seq(Int) /\ Len(longer) = k + 1 /\ longer[k + 1] = e
        /\ \A i \in 1 .. k : longer[i] = queue[i] /\ queue[i] \notin {Close, Broken}
    BY <1>2, <1>4, <1>5, <2>1, AppendProperties
  <2>4. \A c \in b .. n : Carries(kept, b, c) => Carries(longer, b, c)
    <3>1. ASSUME NEW c \in b .. n, Carries(kept, b, c)
          PROVE  Carries(longer, b, c)
      BY <1>1, <1>4, <2>1, <3>1, CarriesAnother
    <3>. QED
      BY <3>1
  <2>5. k \in Nat /\ (e = Close => k = Len(queue))
    <3>1. e = Close => last # <<Broken>>
      <4>1. <<Close>>[1] = Close /\ <<Broken>>[1] = Broken
        OBVIOUS
      <4>2. <<Close>> # <<Broken>>
        BY <4>1 DEF Close, Broken
      <4>3. ASSUME e = Close
            PROVE  last = <<Close>>
        BY <1>8, <4>3, Zenon
      <4>. QED
        BY <4>2, <4>3, Zenon
    <3>. QED
      BY <1>2, <3>1
  <2>. HIDE DEF longer
  <2>6. DOMAIN longer = 1 .. k + 1 /\ \A i \in DOMAIN longer : i \in 1 .. k \/ i = k + 1
    BY <2>3, <2>5
  <2>7. \A i \in DOMAIN longer : longer[i] \in {Close, Broken} => i = Len(longer)
    BY <2>3, <2>6
  <2>8. \E x, y, z \in Nat :
          /\ x <= y /\ y <= z /\ z <= count
          /\ Carries(given, 0, x) /\ Carries(longer, y, z)
          /\ IF held > 0 THEN held = x + 1 /\ y = x + 1 ELSE y = x
          /\ (\A i \in DOMAIN longer : longer[i] # Broken) => z = count
    <3>1. CASE e = Close
      <4>1. Carries(longer, b, n)
        <5>1. kept = queue /\ n \in b .. n
          BY <1>1, <1>6, <2>5, <3>1
        <5>. QED
          BY <1>1, <2>4, <5>1
      <4>. QED
        BY <1>1, <1>3, <4>1
    <3>2. CASE e = Broken
      <4>1. PICK c \in b .. n : Carries(longer, b, c)
        BY <1>4, <2>4
      <4>2. c \in Nat /\ b <= c /\ c <= count
        <5>1. b <= n /\ n <= count
          BY <1>1
        <5>. QED
          BY <1>2, <4>1, <5>1
      <4>3. k + 1 \in DOMAIN longer /\ longer[k + 1] = Broken
        BY <2>3, <2>5, <2>6, <3>2
      <4>. QED
        BY <1>1, <4>1, <4>2, <4>3
    <3>. QED
      BY <3>1, <3>2
  <2>9. Flow(TRUE, "gone", longer, held, count, given)
    BY <1>2, <2>3, <2>7, <2>8 DEF Flow
  <2>. QED
    BY <2>2, <2>9 DEF longer
<1>. QED
  <2>1. last = <<>> \/ last = <<Close>> \/ last = <<Broken>>
    OBVIOUS
  <2>2. \A e \in {Close, Broken} : <<e>> # <<>>
    OBVIOUS
  <2>. QED
    BY <1>7, <1>8, <2>1, <2>2 DEF kept

LEMMA FlowOpens ==
    ASSUME NEW queue, NEW held, NEW count, NEW given, Flow(FALSE, "talking", queue, held, count, given)
    PROVE  Flow(TRUE, "talking", queue, held, count, given)
<1>1. PICK a, b, n \in Nat :
         /\ a <= b /\ b <= n /\ n <= count
         /\ Carries(given, 0, a) /\ Carries(queue, b, n)
         /\ IF held > 0 THEN held = a + 1 /\ b = a + 1 ELSE b = a
  BY DEF Flow
<1>2. count = 0 /\ queue = <<>>
  BY DEF Flow
<1>3. n = count
  BY <1>1, <1>2
<1>. QED
  BY <1>1, <1>3 DEF Flow

\* Shut, and the end of the session, where what is parked is lost too.
LEMMA FlowShuts ==
    ASSUME NEW isOpen, NEW other, NEW queue, NEW held, NEW count, NEW given,
           Flow(isOpen, other, queue, held, count, given)
    PROVE  /\ Flow(FALSE, "gone", <<>>, held, count, given)
           /\ Flow(FALSE, "gone", <<>>, NoFrame, count, given)
<1>1. PICK a, b, n \in Nat :
         /\ a <= b /\ b <= n /\ n <= count
         /\ Carries(given, 0, a) /\ Carries(queue, b, n)
         /\ IF held > 0 THEN held = a + 1 /\ b = a + 1 ELSE b = a
  BY DEF Flow
<1>2. /\ count \in Nat /\ held \in Int /\ given \in Seq(Int) /\ <<>> \in Seq(Int) /\ DOMAIN <<>> = {}
      /\ NoFrame = 0
  BY DEF Flow, NoFrame
<1>3. Carries(<<>>, a, a) /\ Carries(<<>>, b, b) /\ a <= count /\ b <= count
  BY <1>1, <1>2, NothingCarried
<1>4. Flow(FALSE, "gone", <<>>, held, count, given)
  BY <1>1, <1>2, <1>3 DEF Flow
<1>5. Flow(FALSE, "gone", <<>>, NoFrame, count, given)
  BY <1>1, <1>2, <1>3 DEF Flow
<1>. QED
  BY <1>4, <1>5

\* Recv of what is parked; Closed is recorded once.
LEMMA FlowDelivers ==
    ASSUME NEW isOpen, NEW other, NEW queue, NEW held, NEW count, NEW given,
           Flow(isOpen, other, queue, held, count, given)
    PROVE  /\ Flow(isOpen, other, queue, NoFrame, count, Append(given, held))
           /\ held = Closed => Flow(isOpen, other, queue, NoFrame, count, given)
<1>1. PICK a, b, n \in Nat :
         /\ a <= b /\ b <= n /\ n <= count
         /\ Carries(given, 0, a) /\ Carries(queue, b, n)
         /\ IF held > 0 THEN held = a + 1 /\ b = a + 1 ELSE b = a
         /\ isOpen /\ (\A i \in DOMAIN queue : queue[i] # Broken) => n = count
  BY DEF Flow
<1>2. held \in Int /\ given \in Seq(Int) /\ NoFrame = 0 /\ Append(given, held) \in Seq(Int) /\ NoFrame \in Int
  <2>1. held \in Int /\ given \in Seq(Int)
    BY DEF Flow
  <2>. QED
    BY <2>1, AppendProperties DEF NoFrame
<1>3. Carries(Append(given, held), 0, b)
  <2>1. CASE held > 0
    BY <1>1, <1>2, <2>1, CarriesOneMore
  <2>2. CASE ~(held > 0)
    BY <1>1, <1>2, <2>2, CarriesAnother
  <2>. QED
    BY <2>1, <2>2
<1>4. Flow(isOpen, other, queue, NoFrame, count, Append(given, held))
  BY <1>1, <1>2, <1>3 DEF Flow
<1>5. ASSUME held = Closed
      PROVE  Flow(isOpen, other, queue, NoFrame, count, given)
  <2>1. ~(held > 0)
    BY <1>5 DEF Closed
  <2>. QED
    BY <1>1, <1>2, <2>1 DEF Flow
<1>. QED
  BY <1>4, <1>5

\* What next_frame answers of a socket: its first frame that is not a ping and what is behind
\* it, or the end of a socket with nothing to read.
Reading(isOpen, other, queue, next) ==
    /\ next.frame \in Int /\ next.stays \in BOOLEAN
    /\ \/ \E k \in DOMAIN queue :
            /\ \A i \in DOMAIN queue : i < k => queue[i] = Ping
            /\ next.rest = SubSeq(queue, k + 1, Len(queue))
            /\ next.frame = queue[k] \/ (queue[k] = Broken /\ next.frame = Failed)
            /\ next.stays <=> queue[k] \notin {Close, Broken}
       \/ /\ \A i \in DOMAIN queue : queue[i] = Ping
          /\ ~isOpen \/ other = "gone"
          /\ next.frame = Closed /\ next.rest = <<>> /\ ~next.stays

LEMMA NextFrameReads ==
    ASSUME RelayInv, NEW s \in Sockets, NEW next \in NextFrame(s)
    PROVE  Reading(open[s], far[s], inbox[s], next)
<1>0. /\ inbox[s] \in Seq(Int) /\ open[s] \in BOOLEAN /\ far[s] \in {"talking", "gone"}
      /\ Closed \in Int /\ Failed \in Int
  BY DEF RelayInv, Closed, Failed
<1>1. CASE s = "consumer"
  <2>. DEFINE queue == inbox["consumer"]
  <2>1. next \in ConsumerFrame
    BY <1>1 DEF NextFrame
  <2>2. CASE queue # <<>>
    <3>1. next = Result(Head(queue), Tail(queue), TRUE)
      BY <2>1, <2>2 DEF ConsumerFrame
    <3>2. next.frame = Head(queue) /\ next.rest = Tail(queue) /\ next.stays = TRUE
      BY <3>1 DEF Result
    <3>3. queue \in Seq(Int) /\ Len(queue) >= 1 /\ 1 \in DOMAIN queue /\ Head(queue) = queue[1]
          /\ queue[1] \in Int /\ DOMAIN queue = 1 .. Len(queue)
      BY <1>0, <1>1, <2>2
    <3>4. Tail(queue) = SubSeq(queue, 2, Len(queue))
      BY <2>2, <3>3, TailIsSubSeq
    <3>5. queue[1] \notin {Close, Broken}
      BY <3>3 DEF RelayInv
    <3>. HIDE DEF queue
    <3>6. 1 + 1 = 2 /\ \A i \in DOMAIN queue : i < 1 => queue[i] = Ping
      BY <3>3
    <3>7. Reading(open[s], far[s], queue, next)
      BY <3>2, <3>3, <3>4, <3>5, <3>6 DEF Reading
    <3>. QED
      BY <1>1, <3>7 DEF queue
  <2>3. CASE queue = <<>>
    <3>1. next = Result(Closed, <<>>, FALSE) /\ ~(open["consumer"] /\ far["consumer"] = "talking")
      BY <2>1, <2>3 DEF ConsumerFrame
    <3>2. next.frame = Closed /\ next.rest = <<>> /\ next.stays = FALSE
      BY <3>1 DEF Result
    <3>3. \A i \in DOMAIN queue : queue[i] = Ping
      BY <2>3
    <3>4. ~open[s] \/ far[s] = "gone"
      BY <1>0, <1>1, <3>1
    <3>. QED
      BY <1>0, <1>1, <3>2, <3>3, <3>4 DEF Reading
  <2>. QED
    BY <2>2, <2>3
<1>2. CASE s = "upstream"
  <2>. DEFINE queue == inbox["upstream"]
              frames == {i \in DOMAIN queue : queue[i] # Ping}
  <2>0. queue \in Seq(Int) /\ DOMAIN queue = 1 .. Len(queue) /\ Len(queue) \in Nat
        /\ \A i \in DOMAIN queue : queue[i] \in Int
    BY <1>0, <1>2
  <2>1. next \in UpstreamFrame
    BY <1>2 DEF NextFrame, Sockets
  <2>2. CASE frames # {}
    <3>1. frames \subseteq Nat
      BY <2>0
    <3>2. \E i \in frames : \A j \in frames : i <= j
      BY <2>2, <3>1, FirstOfSome
    <3>3. Min(frames) \in frames /\ \A j \in frames : Min(frames) <= j
      BY <3>2, Zenon DEF Min
    <3>4. PICK k \in frames : k = Min(frames)
      BY <3>3
    <3>5. next = Result(IF queue[k] = Broken THEN Failed ELSE queue[k],
                        SubSeq(queue, k + 1, Len(queue)), queue[k] \notin {Close, Broken})
      BY <2>1, <2>2, <3>4, Zenon DEF UpstreamFrame
    <3>6. /\ next.frame = IF queue[k] = Broken THEN Failed ELSE queue[k]
          /\ next.rest = SubSeq(queue, k + 1, Len(queue)) /\ next.stays = (queue[k] \notin {Close, Broken})
      BY <3>5, Zenon DEF Result
    <3>7. k \in DOMAIN queue /\ queue[k] \in Int
      BY <2>0
    <3>8. \A i \in DOMAIN queue : i < k => queue[i] = Ping
      <4>1. ASSUME NEW i \in DOMAIN queue, i < k, queue[i] # Ping
            PROVE  FALSE
        <5>1. i \in frames /\ k <= i
          BY <3>3, <3>4, <4>1
        <5>. QED
          BY <2>0, <3>7, <4>1, <5>1
      <4>. QED
        BY <4>1
    <3>. HIDE DEF queue, frames
    <3>9. Reading(open[s], far[s], queue, next)
      BY <1>0, <3>6, <3>7, <3>8 DEF Reading
    <3>. QED
      BY <1>2, <3>9 DEF queue
  <2>3. CASE frames = {}
    <3>1. next = Result(Closed, <<>>, FALSE) /\ ~(open["upstream"] /\ far["upstream"] = "talking")
      BY <2>1, <2>3 DEF UpstreamFrame
    <3>2. next.frame = Closed /\ next.rest = <<>> /\ next.stays = FALSE
      BY <3>1 DEF Result
    <3>3. \A i \in DOMAIN queue : queue[i] = Ping
      BY <2>3
    <3>4. ~open[s] \/ far[s] = "gone"
      BY <1>0, <1>2, <3>1
    <3>. QED
      BY <1>0, <1>2, <3>2, <3>3, <3>4 DEF Reading
  <2>. QED
    BY <2>2, <2>3
<1>. QED
  BY <1>1, <1>2 DEF Sockets

\* What next_frame answered, parked where nothing was.
LEMMA FlowReads ==
    ASSUME NEW isOpen, NEW other, NEW queue, NEW count, NEW given,
           Flow(isOpen, other, queue, NoFrame, count, given), NEW next, Reading(isOpen, other, queue, next)
    PROVE  /\ Flow(next.stays, other, next.rest, next.frame, count, given)
           /\ next.stays => isOpen
           /\ \A j \in DOMAIN next.rest : \E i \in DOMAIN queue : next.rest[j] = queue[i]
<1>1. PICK a, b, n \in Nat :
         /\ a <= b /\ b <= n /\ n <= count
         /\ Carries(given, 0, a) /\ Carries(queue, b, n)
         /\ b = a
         /\ isOpen /\ (\A i \in DOMAIN queue : queue[i] # Broken) => n = count
  BY DEF Flow, NoFrame
<1>2. /\ queue \in Seq(Int) /\ count \in Nat /\ given \in Seq(Int) /\ isOpen \in BOOLEAN
      /\ other \in {"talking", "gone"} /\ next.frame \in Int /\ next.stays \in BOOLEAN
      /\ \A i \in DOMAIN queue : queue[i] \in {Close, Broken} => other = "gone" /\ i = Len(queue)
      /\ ~isOpen => queue = <<>> /\ (other = "talking" => count = 0)
  BY DEF Flow, Reading
<1>3. ~(Ping > 0) /\ ~(Close > 0) /\ ~(Broken > 0) /\ ~(Failed > 0) /\ ~(Closed > 0) /\ Ping # Broken
  BY DEF Ping, Close, Broken, Failed, Closed
<1>4. ASSUME NEW k \in DOMAIN queue,
             \A i \in DOMAIN queue : i < k => queue[i] = Ping,
             next.rest = SubSeq(queue, k + 1, Len(queue)),
             next.frame = queue[k] \/ (queue[k] = Broken /\ next.frame = Failed),
             next.stays <=> queue[k] \notin {Close, Broken}
      PROVE  /\ Flow(next.stays, other, next.rest, next.frame, count, given)
             /\ next.stays => isOpen
             /\ \A j \in DOMAIN next.rest : \E i \in DOMAIN queue : next.rest[j] = queue[i]
  <2>. DEFINE rest == next.rest
  <2>0. /\ rest \in Seq(Int) /\ Len(rest) = Len(queue) - k
        /\ \A j \in 1 .. Len(queue) - k : rest[j] = queue[k + j]
    <3>1. queue \in Seq(Int)
      BY <1>2
    <3>2. /\ SubSeq(queue, k + 1, Len(queue)) \in Seq(Int)
          /\ Len(SubSeq(queue, k + 1, Len(queue))) = Len(queue) - k
          /\ \A j \in 1 .. Len(queue) - k : SubSeq(queue, k + 1, Len(queue))[j] = queue[k + j]
      BY <3>1, TheRest
    <3>3. rest = SubSeq(queue, k + 1, Len(queue))
      BY <1>4
    <3>. HIDE DEF rest
    <3>. QED
      BY <3>2, <3>3
  <2>. HIDE DEF rest
  <2>1. /\ queue[k] > 0 => queue[k] = b + 1 /\ b + 1 <= n /\ Carries(rest, b + 1, n)
        /\ ~(queue[k] > 0) => Carries(rest, b, n)
    <3>1. \A i \in DOMAIN queue : i < k => ~(queue[i] > 0)
      BY <1>3, <1>4
    <3>2. queue \in Seq(Int) /\ rest \in Seq(Int) /\ Carries(queue, b, n) /\ b <= n
      BY <1>1, <1>2, <2>0
    <3>. QED
      BY <1>4, <2>0, <3>1, <3>2, CarriesTheRest
  <2>2. /\ k \in Nat /\ Len(queue) \in Nat /\ DOMAIN queue = 1 .. Len(queue) /\ queue[k] \in Int
        /\ DOMAIN rest = 1 .. Len(queue) - k
        /\ \A j \in DOMAIN rest : k + j \in DOMAIN queue /\ rest[j] = queue[k + j]
        /\ \A i \in DOMAIN queue : i > k => i - k \in DOMAIN rest /\ rest[i - k] = queue[i]
    <3>1. /\ k \in Nat /\ Len(queue) \in Nat /\ DOMAIN queue = 1 .. Len(queue) /\ queue[k] \in Int
          /\ k \in 1 .. Len(queue)
      BY <1>2
    <3>2. DOMAIN rest = 1 .. Len(rest)
      BY <2>0
    <3>3. DOMAIN rest = 1 .. Len(queue) - k
      BY <2>0, <3>2
    <3>4. \A i \in DOMAIN queue : i > k => i - k \in 1 .. Len(queue) - k /\ k + (i - k) = i
      BY <3>1
    <3>5. \A i \in DOMAIN queue : i > k => i - k \in DOMAIN rest /\ rest[i - k] = queue[i]
      BY <2>0, <3>3, <3>4
    <3>. QED
      BY <2>0, <3>1, <3>3, <3>5
  <2>3. queue # <<>> /\ isOpen
    BY <1>2
  <2>4. \A j \in DOMAIN rest : rest[j] \in {Close, Broken} => other = "gone" /\ j = Len(rest)
    <3>1. ASSUME NEW j \in DOMAIN rest, rest[j] \in {Close, Broken}
          PROVE  other = "gone" /\ j = Len(rest)
      <4>1. k + j \in DOMAIN queue /\ queue[k + j] \in {Close, Broken}
        BY <2>2, <3>1
      <4>2. other = "gone" /\ k + j = Len(queue)
        BY <1>2, <4>1
      <4>3. j \in 1 .. Len(queue) - k
        BY <2>2
      <4>. QED
        BY <2>0, <2>2, <4>2, <4>3
    <3>. QED
      BY <3>1
  <2>5. ~next.stays => rest = <<>> /\ other = "gone"
    <3>1. ASSUME ~next.stays
          PROVE  k = Len(queue) /\ other = "gone"
      BY <1>2, <1>4, <3>1
    <3>. QED
      BY <2>0, <2>2, <3>1
  <2>6. ASSUME next.stays, \A j \in DOMAIN rest : rest[j] # Broken
        PROVE  n = count
    <3>1. ASSUME NEW i \in DOMAIN queue, queue[i] = Broken
          PROVE  FALSE
      <4>1. CASE i < k
        BY <1>3, <1>4, <3>1, <4>1
      <4>2. CASE i = k
        BY <1>4, <2>6, <3>1, <4>2
      <4>3. CASE i > k
        BY <2>2, <2>6, <3>1, <4>3
      <4>. QED
        BY <2>2, <4>1, <4>2, <4>3
    <3>. QED
      BY <1>1, <2>3, <3>1
  <2>7. \E x, y, z \in Nat :
          /\ x <= y /\ y <= z /\ z <= count
          /\ Carries(given, 0, x) /\ Carries(rest, y, z)
          /\ IF next.frame > 0 THEN next.frame = x + 1 /\ y = x + 1 ELSE y = x
          /\ next.stays /\ (\A j \in DOMAIN rest : rest[j] # Broken) => z = count
    <3>1. CASE queue[k] > 0
      <4>1. next.frame = queue[k]
        BY <1>3, <1>4, <3>1
      <4>2. b + 1 \in Nat /\ a <= b + 1 /\ b + 1 <= n
        BY <1>1, <2>1, <3>1
      <4>. QED
        BY <1>1, <2>1, <2>6, <3>1, <4>1, <4>2
    <3>2. CASE ~(queue[k] > 0)
      <4>1. ~(next.frame > 0)
        BY <1>3, <1>4, <3>2
      <4>. QED
        BY <1>1, <2>1, <2>6, <3>2, <4>1
    <3>. QED
      BY <3>1, <3>2
  <2>8. Flow(next.stays, other, rest, next.frame, count, given)
    BY <1>2, <2>0, <2>4, <2>5, <2>7 DEF Flow
  <2>9. \A j \in DOMAIN rest : \E i \in DOMAIN queue : rest[j] = queue[i]
    BY <2>2
  <2>. QED
    BY <2>3, <2>8, <2>9 DEF rest
<1>5. ASSUME \A i \in DOMAIN queue : queue[i] = Ping, ~isOpen \/ other = "gone",
             next.frame = Closed, next.rest = <<>>, ~next.stays
      PROVE  Flow(next.stays, other, next.rest, next.frame, count, given)
  <2>1. n = b
    <3>1. ASSUME b < n
          PROVE  FALSE
      <4>1. b + 1 \in b + 1 .. n
        BY <1>1, <3>1
      <4>2. PICK i \in DOMAIN queue : queue[i] = b + 1
        BY <1>1, <4>1 DEF Carries
      <4>3. b + 1 > 0
        BY <1>1
      <4>. QED
        BY <1>3, <1>5, <4>2, <4>3
    <3>. QED
      BY <1>1, <3>1
  <2>2. Carries(<<>>, b, b) /\ <<>> \in Seq(Int)
    BY NothingCarried
  <2>3. other = "talking" => count = 0
    BY <1>2, <1>5
  <2>. QED
    BY <1>1, <1>2, <1>3, <1>5, <2>1, <2>2, <2>3 DEF Flow
<1>. QED
  BY <1>4, <1>5 DEF Reading

LEMMA RelayStarts == RealtimeInit => RelayInv
<1>1. SUFFICES ASSUME RealtimeInit
               PROVE  RelayInv
  OBVIOUS
<1>2. /\ open \in [Sockets -> BOOLEAN] /\ far \in [Sockets -> {"talking", "gone"}]
      /\ inbox \in [Sockets -> Seq(Int)] /\ parked \in [Sockets -> Int]
      /\ sent \in [Sockets -> Nat] /\ got \in [Sockets -> Seq(Int)]
  <2>1. <<>> \in Seq(Int) /\ NoFrame \in Int
    BY DEF NoFrame
  <2>. QED
    BY <1>1, <2>1 DEF RealtimeInit
<1>3. \A s \in Sockets : /\ open[s] = FALSE /\ far[s] = "talking" /\ inbox[s] = <<>> /\ parked[s] = NoFrame
                         /\ sent[s] = 0 /\ got[s] = <<>>
  BY <1>1 DEF RealtimeInit
<1>4. \A s \in Sockets : Flow(open[s], far[s], inbox[s], parked[s], sent[s], got[s])
  BY <1>3, FlowStarts
<1>5. inbox["consumer"] = <<>> /\ waiting = NotWaiting
  BY <1>1, <1>3 DEF RealtimeInit, Sockets
<1>. QED
  BY <1>2, <1>3, <1>4, <1>5 DEF RelayInv

\* A step of one socket, in a session that has begun.
SocketMoves(s, o, f, q, h, n, g) ==
    /\ open' = [open EXCEPT ![s] = o] /\ far' = [far EXCEPT ![s] = f]
    /\ inbox' = [inbox EXCEPT ![s] = q] /\ parked' = [parked EXCEPT ![s] = h]
    /\ sent' = [sent EXCEPT ![s] = n] /\ got' = [got EXCEPT ![s] = g]
    /\ session' # "none"

LEMMA OneSocketMoves ==
    ASSUME RelayInv, NEW s \in Sockets, NEW o, NEW f, NEW q, NEW h, NEW n, NEW g,
           Flow(o, f, q, h, n, g),
           s = "consumer" => \A i \in DOMAIN q : q[i] \notin {Close, Broken},
           SocketMoves(s, o, f, q, h, n, g)
    PROVE  RelayInv'
<1>1. /\ open \in [Sockets -> BOOLEAN] /\ far \in [Sockets -> {"talking", "gone"}]
      /\ inbox \in [Sockets -> Seq(Int)] /\ parked \in [Sockets -> Int]
      /\ sent \in [Sockets -> Nat] /\ got \in [Sockets -> Seq(Int)]
      /\ \A t \in Sockets : Flow(open[t], far[t], inbox[t], parked[t], sent[t], got[t])
      /\ \A i \in DOMAIN inbox["consumer"] : inbox["consumer"][i] \notin {Close, Broken}
  BY DEF RelayInv
<1>2. /\ o \in BOOLEAN /\ f \in {"talking", "gone"} /\ q \in Seq(Int) /\ h \in Int
      /\ n \in Nat /\ g \in Seq(Int)
  BY DEF Flow
<1>3. /\ open' \in [Sockets -> BOOLEAN] /\ far' \in [Sockets -> {"talking", "gone"}]
      /\ inbox' \in [Sockets -> Seq(Int)] /\ parked' \in [Sockets -> Int]
      /\ sent' \in [Sockets -> Nat] /\ got' \in [Sockets -> Seq(Int)]
  BY <1>1, <1>2 DEF SocketMoves
<1>4. ASSUME NEW t \in Sockets
      PROVE  Flow(open'[t], far'[t], inbox'[t], parked'[t], sent'[t], got'[t])
  <2>1. CASE t = s
    <3>1. open'[t] = o /\ far'[t] = f /\ inbox'[t] = q /\ parked'[t] = h /\ sent'[t] = n /\ got'[t] = g
      BY <1>1, <2>1 DEF SocketMoves
    <3>. QED
      BY <3>1
  <2>2. CASE t # s
    <3>1. /\ open'[t] = open[t] /\ far'[t] = far[t] /\ inbox'[t] = inbox[t] /\ parked'[t] = parked[t]
          /\ sent'[t] = sent[t] /\ got'[t] = got[t]
      BY <1>1, <2>2 DEF SocketMoves
    <3>. QED
      BY <1>1, <3>1
  <2>. QED
    BY <2>1, <2>2
<1>5. \A i \in DOMAIN inbox'["consumer"] : inbox'["consumer"][i] \notin {Close, Broken}
  <2>1. CASE s = "consumer"
    <3>1. inbox'["consumer"] = q
      BY <1>1, <2>1 DEF SocketMoves
    <3>. QED
      BY <2>1, <3>1
  <2>2. CASE s # "consumer"
    <3>1. inbox'["consumer"] = inbox["consumer"]
      BY <1>1, <2>2 DEF SocketMoves
    <3>. QED
      BY <1>1, <3>1
  <2>. QED
    BY <2>1, <2>2
<1>. QED
  BY <1>3, <1>4, <1>5 DEF RelayInv, SocketMoves

LEMMA RelayStep ==
    ASSUME RelayInv, [RealtimeNext]_realtimeVars
    PROVE  RelayInv'
<1>0. /\ open \in [Sockets -> BOOLEAN] /\ far \in [Sockets -> {"talking", "gone"}]
      /\ inbox \in [Sockets -> Seq(Int)] /\ parked \in [Sockets -> Int]
      /\ sent \in [Sockets -> Nat] /\ got \in [Sockets -> Seq(Int)]
      /\ \A s \in Sockets : Flow(open[s], far[s], inbox[s], parked[s], sent[s], got[s])
      /\ \A i \in DOMAIN inbox["consumer"] : inbox["consumer"][i] \notin {Close, Broken}
      /\ session = "none" => waiting = NotWaiting /\ \A s \in Sockets : ~open[s] /\ far[s] = "talking"
  BY DEF RelayInv
<1>00. \A s \in Sockets : /\ [open EXCEPT ![s] = open[s]] = open /\ [far EXCEPT ![s] = far[s]] = far
                          /\ [inbox EXCEPT ![s] = inbox[s]] = inbox /\ [parked EXCEPT ![s] = parked[s]] = parked
                          /\ [sent EXCEPT ![s] = sent[s]] = sent /\ [got EXCEPT ![s] = got[s]] = got
  BY <1>0
<1>000. "consumer" \in Sockets /\ "upstream" \in Sockets /\ "upstream" # "consumer"
  BY DEF Sockets
<1>1. ASSUME NEW s \in Sockets, SendFrame(s)
      PROVE  RelayInv'
  <2>1. /\ open[s] = TRUE /\ far[s] = "talking" /\ sent' = [sent EXCEPT ![s] = sent[s] + 1]
        /\ inbox' = [inbox EXCEPT ![s] = Append(inbox[s], sent[s] + 1)]
        /\ UNCHANGED <<session, open, parked, far, got>>
    BY <1>0, <1>1 DEF SendFrame
  <2>2. Flow(TRUE, "talking", Append(inbox[s], sent[s] + 1), parked[s], sent[s] + 1, got[s])
    BY <1>0, <2>1, FlowSends
  <2>3. s = "consumer" => \A i \in DOMAIN Append(inbox[s], sent[s] + 1) : Append(inbox[s], sent[s] + 1)[i] \notin {Close, Broken}
    BY <2>2 DEF Flow
  <2>4. SocketMoves(s, TRUE, "talking", Append(inbox[s], sent[s] + 1), parked[s], sent[s] + 1, got[s])
    BY <1>0, <1>00, <2>1 DEF SocketMoves
  <2>. QED
    BY <2>2, <2>3, <2>4, OneSocketMoves
<1>2. CASE SendPing
  <2>1. /\ open["upstream"] = TRUE /\ far["upstream"] = "talking"
        /\ inbox' = [inbox EXCEPT !["upstream"] = Append(inbox["upstream"], Ping)]
        /\ UNCHANGED <<session, open, parked, far, sent, got>>
    BY <1>0, <1>000, <1>2 DEF SendPing
  <2>2. Flow(TRUE, "talking", Append(inbox["upstream"], Ping), parked["upstream"], sent["upstream"], got["upstream"])
    BY <1>0, <1>000, <2>1, FlowPings
  <2>4. SocketMoves("upstream", TRUE, "talking", Append(inbox["upstream"], Ping), parked["upstream"],
                    sent["upstream"], got["upstream"])
    BY <1>0, <1>00, <1>000, <2>1 DEF SocketMoves
  <2>. QED
    BY <1>000, <2>2, <2>4, OneSocketMoves
<1>3. ASSUME NEW s \in Sockets, NEW last \in {<<>>, <<Close>>, <<Broken>>},
             NEW kept \in 0 .. Len(inbox[s]), HangUp(s, last, kept)
      PROVE  RelayInv'
  <2>. DEFINE rest == SubSeq(inbox[s], 1, kept) \o last
  <2>1. /\ open[s] = TRUE /\ far[s] = "talking" /\ far' = [far EXCEPT ![s] = "gone"]
        /\ inbox' = [inbox EXCEPT ![s] = rest] /\ (s = "consumer" => last = <<>>)
        /\ kept = Len(inbox[s]) \/ last = <<Broken>>
        /\ UNCHANGED <<session, open, parked, sent, got>>
    BY <1>0, <1>3 DEF HangUp
  <2>2. Flow(TRUE, "gone", rest, parked[s], sent[s], got[s]) /\ (last = <<>> => rest = inbox[s])
    <3>1. Flow(TRUE, "talking", inbox[s], parked[s], sent[s], got[s])
      <4>1. Flow(open[s], far[s], inbox[s], parked[s], sent[s], got[s])
        BY <1>0
      <4>. QED
        BY <2>1, <4>1, Zenon
    <3>2. kept = Len(inbox[s]) \/ last = <<Broken>>
      BY <2>1
    <3>. QED
      BY <3>1, <3>2, FlowHangsUp
  <2>. HIDE DEF rest
  <2>3. s = "consumer" => \A i \in DOMAIN rest : rest[i] \notin {Close, Broken}
    BY <1>0, <2>1, <2>2
  <2>4. SocketMoves(s, TRUE, "gone", rest, parked[s], sent[s], got[s])
    BY <1>0, <1>00, <2>1 DEF SocketMoves
  <2>. QED
    BY <2>2, <2>3, <2>4, OneSocketMoves
<1>4. CASE StartSession
  <2>1. /\ session = "none" /\ session' = "running" /\ open' = [open EXCEPT !["consumer"] = TRUE]
        /\ UNCHANGED <<inbox, parked, waiting, far, sent, got>>
    BY <1>4 DEF StartSession
  <2>2. Flow(FALSE, "talking", inbox["consumer"], parked["consumer"], sent["consumer"], got["consumer"])
    <3>1. open["consumer"] = FALSE /\ far["consumer"] = "talking"
      BY <1>0, <1>000, <2>1
    <3>. QED
      BY <1>0, <1>000, <3>1
  <2>3. Flow(TRUE, "talking", inbox["consumer"], parked["consumer"], sent["consumer"], got["consumer"])
    BY <2>2, FlowOpens
  <2>4. far["consumer"] = "talking"
    BY <1>0, <1>000, <2>1
  <2>5. SocketMoves("consumer", TRUE, "talking", inbox["consumer"], parked["consumer"],
                    sent["consumer"], got["consumer"])
    BY <1>00, <1>000, <2>1, <2>4 DEF SocketMoves
  <2>. QED
    BY <1>0, <1>000, <2>3, <2>5, OneSocketMoves, ZenonT(60)
<1>5. ASSUME NEW url, Connect(url)
      PROVE  RelayInv'
  <2>1. /\ session = "running" /\ open["upstream"] = FALSE /\ far["upstream"] = "talking"
        /\ open' = [open EXCEPT !["upstream"] = TRUE]
        /\ UNCHANGED <<session, inbox, parked, waiting, far, sent, got>>
    BY <1>0, <1>000, <1>5 DEF Connect
  <2>2. Flow(TRUE, "talking", inbox["upstream"], parked["upstream"], sent["upstream"], got["upstream"])
    BY <1>0, <1>000, <2>1, FlowOpens
  <2>3. SocketMoves("upstream", TRUE, "talking", inbox["upstream"], parked["upstream"],
                    sent["upstream"], got["upstream"])
    BY <1>00, <1>000, <2>1 DEF SocketMoves
  <2>. QED
    BY <1>000, <2>2, <2>3, OneSocketMoves
<1>6. ASSUME NEW s \in Sockets, Shut(s)
      PROVE  RelayInv'
  <2>1. /\ session = "running" /\ open' = [open EXCEPT ![s] = FALSE] /\ inbox' = [inbox EXCEPT ![s] = <<>>]
        /\ far' = [far EXCEPT ![s] = "gone"] /\ UNCHANGED <<session, parked, waiting, sent, got>>
    BY <1>6 DEF Shut
  <2>2. Flow(FALSE, "gone", <<>>, parked[s], sent[s], got[s])
    BY <1>0, FlowShuts
  <2>4. \A i \in DOMAIN <<>> : <<>>[i] \notin {Close, Broken}
    OBVIOUS
  <2>3. SocketMoves(s, FALSE, "gone", <<>>, parked[s], sent[s], got[s])
    BY <1>00, <2>1 DEF SocketMoves
  <2>. QED
    BY <2>2, <2>4, <2>3, OneSocketMoves
<1>7. CASE SessionEnds
  <2>1. /\ session' = "over" /\ open' = [s \in Sockets |-> FALSE] /\ inbox' = [s \in Sockets |-> <<>>]
        /\ parked' = [s \in Sockets |-> NoFrame] /\ far' = [s \in Sockets |-> "gone"]
        /\ UNCHANGED <<waiting, sent, got>>
    BY <1>7 DEF SessionEnds
  <2>2. /\ open' \in [Sockets -> BOOLEAN] /\ far' \in [Sockets -> {"talking", "gone"}]
        /\ inbox' \in [Sockets -> Seq(Int)] /\ parked' \in [Sockets -> Int]
        /\ sent' \in [Sockets -> Nat] /\ got' \in [Sockets -> Seq(Int)]
    <3>1. <<>> \in Seq(Int) /\ NoFrame \in Int
      BY DEF NoFrame
    <3>. QED
      BY <1>0, <2>1, <3>1
  <2>3. ASSUME NEW s \in Sockets
        PROVE  Flow(open'[s], far'[s], inbox'[s], parked'[s], sent'[s], got'[s])
    <3>1. /\ open'[s] = FALSE /\ far'[s] = "gone" /\ inbox'[s] = <<>> /\ parked'[s] = NoFrame
          /\ sent'[s] = sent[s] /\ got'[s] = got[s]
      BY <2>1
    <3>2. Flow(FALSE, "gone", <<>>, NoFrame, sent[s], got[s])
      BY <1>0, FlowShuts
    <3>. QED
      BY <3>1, <3>2
  <2>4. inbox'["consumer"] = <<>>
    BY <1>000, <2>1
  <2>5. \A i \in DOMAIN inbox'["consumer"] : inbox'["consumer"][i] \notin {Close, Broken}
    BY <2>4
  <2>6. session' # "none"
    BY <2>1
  <2>. QED
    BY <2>2, <2>3, <2>5, <2>6, Zenon DEF RelayInv
<1>8. ASSUME NEW how, NEW on, Wait(how, on)
      PROVE  RelayInv'
  <2>1. session = "running" /\ UNCHANGED <<session, open, inbox, parked, far, sent, got>>
    BY <1>8 DEF Wait
  <2>. QED
    BY <1>0, <2>1 DEF RelayInv
<1>9. CASE PollReturns
  <2>1. waiting' = NotWaiting /\ UNCHANGED <<session, open, inbox, parked, far, sent, got>>
    BY <1>9 DEF PollReturns
  <2>. QED
    BY <1>0, <2>1 DEF RelayInv
<1>10. ASSUME NEW s \in Sockets, Park(s)
       PROVE  RelayInv'
  <2>1. PICK next \in NextFrame(s) :
          /\ parked[s] = NoFrame /\ parked' = [parked EXCEPT ![s] = next.frame]
          /\ inbox' = [inbox EXCEPT ![s] = next.rest] /\ open' = [open EXCEPT ![s] = next.stays]
    BY <1>10 DEF Park, Ready
  <2>2. UNCHANGED <<session, far, sent, got>> /\ waiting.how = "poll"
    BY <1>10 DEF Park
  <2>3. session # "none"
    BY <1>0, <2>2 DEF NotWaiting
  <2>4. Flow(open[s], far[s], inbox[s], NoFrame, sent[s], got[s]) /\ Reading(open[s], far[s], inbox[s], next)
    BY <1>0, <2>1, NextFrameReads
  <2>5. /\ Flow(next.stays, far[s], next.rest, next.frame, sent[s], got[s])
        /\ \A j \in DOMAIN next.rest : \E i \in DOMAIN inbox[s] : next.rest[j] = inbox[s][i]
    BY <2>4, FlowReads
  <2>6. s = "consumer" => \A j \in DOMAIN next.rest : next.rest[j] \notin {Close, Broken}
    BY <1>0, <2>5
  <2>7. SocketMoves(s, next.stays, far[s], next.rest, next.frame, sent[s], got[s])
    BY <1>00, <2>1, <2>2, <2>3 DEF SocketMoves
  <2>. QED
    BY <2>5, <2>6, <2>7, OneSocketMoves
<1>11. ASSUME NEW s \in Sockets, Recv(s)
       PROVE  RelayInv'
  <2>1. UNCHANGED <<session, far, sent>> /\ waiting.how = "recv"
    BY <1>11 DEF Recv
  <2>2. session # "none"
    BY <1>0, <2>1 DEF NotWaiting
  <2>3. ASSUME NEW frame, Return(s, frame)
        PROVE  \/ got' = [got EXCEPT ![s] = Append(got[s], frame)]
               \/ frame = Closed /\ got' = [got EXCEPT ![s] = got[s]]
    BY <1>00, <2>3 DEF Return
  <2>4. CASE Return(s, parked[s]) /\ parked' = [parked EXCEPT ![s] = NoFrame] /\ UNCHANGED <<inbox, open>>
    <3>1. /\ Flow(open[s], far[s], inbox[s], NoFrame, sent[s], Append(got[s], parked[s]))
          /\ parked[s] = Closed => Flow(open[s], far[s], inbox[s], NoFrame, sent[s], got[s])
      BY <1>0, FlowDelivers
    <3>2. PICK g : got' = [got EXCEPT ![s] = g] /\ Flow(open[s], far[s], inbox[s], NoFrame, sent[s], g)
      BY <2>3, <2>4, <3>1
    <3>3. s = "consumer" => \A i \in DOMAIN inbox[s] : inbox[s][i] \notin {Close, Broken}
      BY <1>0
    <3>4. SocketMoves(s, open[s], far[s], inbox[s], NoFrame, sent[s], g)
      BY <1>00, <2>1, <2>2, <2>4, <3>2 DEF SocketMoves
    <3>. QED
      BY <3>2, <3>3, <3>4, OneSocketMoves
  <2>5. ASSUME NEW next \in NextFrame(s), parked[s] = NoFrame, parked' = parked, Return(s, next.frame),
               inbox' = [inbox EXCEPT ![s] = next.rest], open' = [open EXCEPT ![s] = next.stays]
        PROVE  RelayInv'
    <3>1. Flow(open[s], far[s], inbox[s], NoFrame, sent[s], got[s]) /\ Reading(open[s], far[s], inbox[s], next)
      BY <1>0, <2>5, NextFrameReads
    <3>2. /\ Flow(next.stays, far[s], next.rest, next.frame, sent[s], got[s])
          /\ \A j \in DOMAIN next.rest : \E i \in DOMAIN inbox[s] : next.rest[j] = inbox[s][i]
      BY <3>1, FlowReads
    <3>3. /\ Flow(next.stays, far[s], next.rest, NoFrame, sent[s], Append(got[s], next.frame))
          /\ next.frame = Closed => Flow(next.stays, far[s], next.rest, NoFrame, sent[s], got[s])
      BY <3>2, FlowDelivers
    <3>4. PICK g : got' = [got EXCEPT ![s] = g] /\ Flow(next.stays, far[s], next.rest, NoFrame, sent[s], g)
      BY <2>3, <2>5, <3>3
    <3>5. s = "consumer" => \A j \in DOMAIN next.rest : next.rest[j] \notin {Close, Broken}
      BY <1>0, <3>2
    <3>6. parked' = [parked EXCEPT ![s] = NoFrame]
      BY <1>00, <2>5
    <3>7. SocketMoves(s, next.stays, far[s], next.rest, NoFrame, sent[s], g)
      BY <1>00, <2>1, <2>2, <2>5, <3>4, <3>6 DEF SocketMoves
    <3>. QED
      BY <3>4, <3>5, <3>7, OneSocketMoves
  <2>. QED
    BY <1>11, <2>4, <2>5 DEF Recv
<1>12. CASE UNCHANGED realtimeVars
  BY <1>0, <1>12 DEF realtimeVars, RelayInv
<1>. QED
  BY <1>000, <1>1, <1>2, <1>3, <1>4, <1>5, <1>6, <1>7, <1>8, <1>9, <1>10, <1>11, <1>12
     DEF RealtimeNext, GuestCalls, HostAnswers, CloseUpstream, CloseConsumer

\* wasm/realtime.rs, ready, recv and next_frame ("every frame `ready` observes is still
\* delivered by `recv`"): whatever the guest polls, drops, receives and shuts, and however its
\* peers send, ping, close or break, each socket's frames are given, parked or on their way,
\* each once and in order, and none is missing while the socket is open and not broken.
THEOREM FramesArriveInOrder == BackendsSpec => []RelayInOrder
<1>1. BackendsInit => RelayInv
  BY RelayStarts DEF BackendsInit
<1>2. RelayInv /\ [BackendsNext]_backendVars => RelayInv'
  <2>1. [BackendsNext]_backendVars => [RealtimeNext]_realtimeVars
    BY DEF BackendsNext, Is, backendVars
  <2>. QED
    BY <2>1, RelayStep
<1>3. RelayInv => RelayInOrder
  <2>1. ASSUME RelayInv, NEW s \in Sockets
        PROVE  \E n \in 0 .. sent[s] :
                 /\ Carries(got[s] \o ParkedFrame(s) \o inbox[s], 0, n)
                 /\ open[s] /\ ~Contains(inbox[s], Broken) => n = sent[s]
    <3>1. Flow(open[s], far[s], inbox[s], parked[s], sent[s], got[s])
      BY <2>1 DEF RelayInv
    <3>2. PICK a, b, n \in Nat :
            /\ a <= b /\ b <= n /\ n <= sent[s]
            /\ Carries(got[s], 0, a) /\ Carries(inbox[s], b, n)
            /\ IF parked[s] > 0 THEN parked[s] = a + 1 /\ b = a + 1 ELSE b = a
            /\ open[s] /\ (\A i \in DOMAIN inbox[s] : inbox[s][i] # Broken) => n = sent[s]
      BY <3>1 DEF Flow
    <3>3. inbox[s] \in Seq(Int) /\ got[s] \in Seq(Int) /\ parked[s] \in Int /\ sent[s] \in Nat
      BY <3>1 DEF Flow
    <3>4. ParkedFrame(s) \in Seq(Int) /\ Carries(ParkedFrame(s), a, b)
      <4>1. CASE parked[s] > 0
        <5>1. ParkedFrame(s) = Append(<<>>, a + 1) /\ b = a + 1
          BY <3>2, <4>1 DEF ParkedFrame
        <5>2. Carries(<<>>, a, a) /\ <<>> \in Seq(Int)
          BY NothingCarried
        <5>3. Carries(Append(<<>>, a + 1), a, a + 1) /\ Append(<<>>, a + 1) \in Seq(Int)
          <6>1. a <= a /\ a + 1 \in Int
            OBVIOUS
          <6>2. Append(<<>>, a + 1) \in Seq(Int)
            BY <5>2, <6>1, AppendProperties
          <6>. QED
            BY <5>2, <6>1, <6>2, CarriesOneMore
        <5>. QED
          BY <5>1, <5>3
      <4>2. CASE ~(parked[s] > 0)
        BY <3>2, <4>2, NothingCarried DEF ParkedFrame
      <4>. QED
        BY <4>1, <4>2
    <3>. DEFINE given == got[s] \o ParkedFrame(s)
    <3>5. given \in Seq(Int) /\ Carries(given, 0, b)
      <4>1. given \in Seq(Int)
        BY <3>3, <3>4, ConcatProperties
      <4>2. 0 \in Nat /\ 0 <= a
        OBVIOUS
      <4>3. Carries(given, 0, b)
        BY <3>2, <3>3, <3>4, <4>2, CarriesAll, Zenon
      <4>. QED
        BY <4>1, <4>3
    <3>. HIDE DEF given
    <3>6. Carries(given \o inbox[s], 0, n)
      BY <3>2, <3>3, <3>5, CarriesAll
    <3>7. open[s] /\ ~Contains(inbox[s], Broken) => n = sent[s]
      <4>1. ASSUME ~Contains(inbox[s], Broken)
            PROVE  \A i \in DOMAIN inbox[s] : inbox[s][i] # Broken
        <5>1. DOMAIN inbox[s] = 1 .. Len(inbox[s])
          BY <3>3
        <5>. QED
          BY <4>1, <5>1, Zenon DEF Contains
      <4>. QED
        BY <3>2, <4>1
    <3>8. n \in 0 .. sent[s]
      BY <3>2, <3>3
    <3>. QED
      BY <3>6, <3>7, <3>8 DEF given
  <2>. QED
    BY <2>1 DEF RelayInOrder
<1>. QED
  BY <1>1, <1>2, <1>3, PTL DEF BackendsSpec

-----------------------------------------------------------------------------
LEMMA SomeIsLeast ==
  ASSUME NEW T, T \subseteq Nat, T # {}
  PROVE  \E i \in T : \A j \in T : i <= j
<1>. DEFINE Below == {ss \in Nat \X Nat : ss[1] < ss[2]}
<1>1. IsWellFoundedOn(Below, Nat)
  BY Zenon, NatLessThanWellFounded DEF OpToRel
<1>2. PICK i \in T : \A j \in T : <<j, i>> \notin Below
  BY <1>1, WFMin, Zenon
<1>3. ASSUME NEW j \in T
      PROVE  i <= j
  <2>1. <<j, i>> \notin Below /\ i \in Nat /\ j \in Nat
    BY <1>2
  <2>. QED
    BY <2>1
<1>. QED
  BY <1>3

\* The characters of the texts: those of a path and those the program writes.
Char == STRING \union {"-", "/", ".", "\\", "0", "p", "t", "s", "o", "c", "k", "n", "v", "m"}

LEMMA CharsOfPaths == ASSUME NEW path \in Seq(STRING) PROVE path \in Seq(Char)
<1>1. /\ Len(path) \in Nat /\ path = [i \in 1..Len(path) |-> path[i]]
      /\ \A i \in 1..Len(path) : path[i] \in STRING
  OBVIOUS
<1>2. \A i \in 1..Len(path) : path[i] \in Char
  BY <1>1 DEF Char
<1>. QED
  BY <1>1, <1>2

LEMMA ConcatenatedIn ==
  ASSUME NEW S, NEW a \in Seq(S), NEW b \in Seq(S)
  PROVE  /\ a \o b \in Seq(S) /\ Len(a \o b) = Len(a) + Len(b)
         /\ Len(a) \in Nat /\ Len(b) \in Nat
         /\ \A k \in 1..Len(a) : (a \o b)[k] = a[k]
         /\ \A k \in 1..Len(b) : (a \o b)[Len(a) + k] = b[k]
OBVIOUS

LEMMA Concatenated ==
  ASSUME NEW a \in Seq(Char), NEW b \in Seq(Char)
  PROVE  /\ a \o b \in Seq(Char) /\ Len(a \o b) = Len(a) + Len(b)
         /\ Len(a) \in Nat /\ Len(b) \in Nat
         /\ \A k \in 1..Len(a) : (a \o b)[k] = a[k]
         /\ \A k \in 1..Len(b) : (a \o b)[Len(a) + k] = b[k]
OBVIOUS

\* What FlattenSeq computes: the concatenation of the parts so far, one more at a time.
Grows(s, f, m) ==
    /\ f \in [1..m -> Seq(Char)]
    /\ \A i \in 1..m : f[i] = IF i = 1 THEN s[i] ELSE f[i - 1] \o s[i]

LEMMA SomethingGrows ==
  ASSUME NEW s \in Seq(Seq(Char)), NEW m \in 1..Len(s)
  PROVE  \E f : Grows(s, f, m)
<1>. DEFINE T == {k \in 1..Len(s) : ~ \E f : Grows(s, f, k)}
<1>1. SUFFICES ASSUME T # {}
               PROVE  FALSE
  OBVIOUS
<1>2. T \subseteq Nat
  OBVIOUS
<1>3. PICK k \in T : \A j \in T : k <= j
  BY <1>1, <1>2, SomeIsLeast, Zenon
<1>4. k \in 1..Len(s) /\ Len(s) \in Nat /\ \A i \in 1..Len(s) : s[i] \in Seq(Char)
  OBVIOUS
<1>5. CASE k = 1
  <2>1. Grows(s, [i \in 1..1 |-> s[i]], 1)
    BY <1>4, <1>5 DEF Grows
  <2>. QED
    BY <1>5, <2>1
<1>6. CASE k # 1
  <2>1. k - 1 \in 1..Len(s) /\ ~(k <= k - 1)
    BY <1>4, <1>6
  <2>2. k - 1 \notin T
    BY <1>3, <2>1
  <2>3. PICK f : Grows(s, f, k - 1)
    BY <2>1, <2>2
  <2>. DEFINE g == [i \in 1..k |-> IF i = k THEN f[k - 1] \o s[k] ELSE f[i]]
  <2>4. f[k - 1] \in Seq(Char) /\ s[k] \in Seq(Char)
    BY <1>4, <2>1, <2>3 DEF Grows
  <2>5. f[k - 1] \o s[k] \in Seq(Char)
    BY <2>4
  <2>6. g \in [1..k -> Seq(Char)]
    <3>1. ASSUME NEW i \in 1..k
          PROVE  g[i] \in Seq(Char)
      <4>1. CASE i = k
        BY <2>5, <4>1
      <4>2. CASE i # k
        <5>1. i \in 1..(k - 1)
          BY <1>4, <4>2
        <5>. QED
          BY <2>3, <4>2, <5>1 DEF Grows
      <4>. QED
        BY <4>1, <4>2
    <3>. QED
      BY <3>1
  <2>7. ASSUME NEW i \in 1..k
        PROVE  g[i] = IF i = 1 THEN s[i] ELSE g[i - 1] \o s[i]
    <3>1. CASE i = k
      <4>1. i - 1 \in 1..k /\ i - 1 # k /\ i # 1
        BY <1>4, <1>6, <3>1
      <4>2. g[i - 1] = f[i - 1] /\ g[i] = f[k - 1] \o s[k]
        BY <3>1, <4>1
      <4>. QED
        BY <3>1, <4>1, <4>2
    <3>2. CASE i # k
      <4>1. i \in 1..(k - 1) /\ g[i] = f[i]
        BY <1>4, <3>2
      <4>2. f[i] = IF i = 1 THEN s[i] ELSE f[i - 1] \o s[i]
        BY <2>3, <4>1 DEF Grows
      <4>3. CASE i = 1
        BY <4>1, <4>2, <4>3
      <4>4. CASE i # 1
        <5>1. i - 1 \in 1..k /\ i - 1 # k
          BY <1>4, <4>1, <4>4
        <5>2. g[i - 1] = f[i - 1]
          BY <5>1
        <5>. QED
          BY <4>1, <4>2, <4>4, <5>2
      <4>. QED
        BY <4>3, <4>4
    <3>. QED
      BY <3>1, <3>2
  <2>8. Grows(s, g, k)
    <3>. HIDE DEF g
    <3>. QED
      BY <2>6, <2>7 DEF Grows
  <2>. QED
    BY <2>8
<1>. QED
  BY <1>5, <1>6

\* There is only one such function.
LEMMA OneGrows ==
  ASSUME NEW s, NEW m \in Nat, NEW f, NEW g, Grows(s, g, m),
         f = [i \in 1..m |-> IF i = 1 THEN s[i] ELSE f[i - 1] \o s[i]]
  PROVE  f = g
<1>. DEFINE T == {i \in 1..m : f[i] # g[i]}
<1>1. ASSUME T # {}
      PROVE  FALSE
  <2>1. T \subseteq Nat
    OBVIOUS
  <2>2. PICK i \in T : \A j \in T : i <= j
    BY <1>1, <2>1, SomeIsLeast, Zenon
  <2>3. i \in 1..m /\ f[i] # g[i]
    OBVIOUS
  <2>4. f[i] = IF i = 1 THEN s[i] ELSE f[i - 1] \o s[i]
    BY <2>3
  <2>5. g[i] = IF i = 1 THEN s[i] ELSE g[i - 1] \o s[i]
    BY <2>3 DEF Grows
  <2>6. i # 1
    BY <2>3, <2>4, <2>5
  <2>7. i - 1 \in 1..m /\ ~(i <= i - 1)
    BY <2>3, <2>6
  <2>8. f[i - 1] = g[i - 1]
    BY <2>2, <2>7
  <2>. QED
    BY <2>3, <2>4, <2>5, <2>6, <2>8
<1>2. \A i \in 1..m : f[i] = g[i]
  BY <1>1
<1>3. f = [i \in 1..m |-> f[i]]
  OBVIOUS
<1>4. g = [i \in 1..m |-> g[i]]
  BY DEF Grows
<1>. QED
  BY <1>2, <1>3, <1>4, ZenonT(60)

LEMMA Flattened ==
  ASSUME NEW s \in Seq(Seq(Char)), Len(s) # 0
  PROVE  \E f : Grows(s, f, Len(s)) /\ FlattenSeq(s) = f[Len(s)]
<1>. DEFINE f == CHOOSE f : f = [i \in 1..Len(s) |-> IF i = 1 THEN s[i] ELSE f[i - 1] \o s[i]]
<1>1. Len(s) \in 1..Len(s) /\ Len(s) \in Nat
  OBVIOUS
<1>2. PICK g : Grows(s, g, Len(s))
  BY <1>1, SomethingGrows
<1>3. g = [i \in 1..Len(s) |-> IF i = 1 THEN s[i] ELSE g[i - 1] \o s[i]]
  BY <1>2 DEF Grows
<1>4. f = [i \in 1..Len(s) |-> IF i = 1 THEN s[i] ELSE f[i - 1] \o s[i]]
  BY <1>3, Zenon
<1>5. FlattenSeq(s) = f[Len(s)]
  BY Zenon DEF FlattenSeq
<1>. HIDE DEF f
<1>6. f = g
  BY <1>1, <1>2, <1>4, OneGrows
<1>. QED
  BY <1>2, <1>5, <1>6

\* What was gathered stays at the front of what is gathered later.
LEMMA GrowsAtTheEnd ==
  ASSUME NEW s \in Seq(Seq(Char)), NEW f, Grows(s, f, Len(s)), NEW i \in 1..Len(s), NEW j \in i..Len(s)
  PROVE  Len(f[i]) <= Len(f[j]) /\ \A k \in 1..Len(f[i]) : f[j][k] = f[i][k]
<1>. DEFINE Extends(m) == Len(f[i]) <= Len(f[m]) /\ \A k \in 1..Len(f[i]) : f[m][k] = f[i][k]
            T == {m \in i..Len(s) : ~Extends(m)}
<1>1. ASSUME T # {}
      PROVE  FALSE
  <2>1. T \subseteq Nat
    OBVIOUS
  <2>2. PICK m \in T : \A q \in T : m <= q
    <3>. HIDE DEF T
    <3>. QED
      BY <1>1, <2>1, SomeIsLeast, Zenon
  <2>3. m \in i..Len(s) /\ ~Extends(m)
    BY <2>2
  <2>4. m # i
    <3>1. f[i] \in Seq(Char)
      BY DEF Grows
    <3>. QED
      BY <2>3, <3>1
  <2>5. m - 1 \in i..Len(s) /\ m \in 1..Len(s) /\ m - 1 \in 1..Len(s) /\ ~(m <= m - 1) /\ m # 1
    BY <2>3, <2>4
  <2>6. Extends(m - 1)
    BY <2>2, <2>5
  <2>7. f[m] = f[m - 1] \o s[m]
    BY <2>5 DEF Grows
  <2>8. f[m - 1] \in Seq(Char) /\ s[m] \in Seq(Char) /\ f[i] \in Seq(Char)
    <3>1. s[m] \in Seq(Char)
      BY <2>5, ElementOfSeq
    <3>2. \A q \in 1..Len(s) : f[q] \in Seq(Char)
      BY DEF Grows
    <3>. QED
      BY <2>5, <3>1, <3>2
  <2>. HIDE DEF T
  <2>9. Extends(m)
    <3>1. Len(f[m]) = Len(f[m - 1]) + Len(s[m]) /\ \A k \in 1..Len(f[m - 1]) : f[m][k] = f[m - 1][k]
      <4>1. LET whole == f[m - 1] \o s[m] IN
            Len(whole) = Len(f[m - 1]) + Len(s[m]) /\ \A k \in 1..Len(f[m - 1]) : whole[k] = f[m - 1][k]
        BY <2>8, Concatenated, Zenon
      <4>. QED
        BY <2>7, <4>1, Zenon
    <3>2. Len(f[m - 1]) \in Nat /\ Len(s[m]) \in Nat /\ Len(f[i]) \in Nat
      BY <2>8, LenProperties
    <3>3. Len(f[i]) <= Len(f[m])
      <4>1. Len(f[i]) <= Len(f[m - 1])
        BY <2>6
      <4>2. Len(f[m]) = Len(f[m - 1]) + Len(s[m])
        BY <3>1
      <4>. DEFINE u == Len(f[i])  v == Len(f[m - 1])  w == Len(s[m])  x == Len(f[m])
      <4>3. u \in Nat /\ v \in Nat /\ w \in Nat /\ u <= v /\ x = v + w
        BY <3>2, <4>1, <4>2, Zenon
      <4>. HIDE DEF u, v, w, x
      <4>4. u <= x
        BY <4>3
      <4>. QED
        BY <4>4 DEF u, x
    <3>4. \A k \in 1..Len(f[i]) : k \in 1..Len(f[m - 1])
      BY <2>6, <3>2
    <3>. QED
      BY <2>6, <3>1, <3>3, <3>4
  <2>. QED
    BY <2>3, <2>9
<1>2. Extends(j)
  BY <1>1
<1>. QED
  BY <1>2

\* Where each character of a path stands in its literal: off[i - 1] characters come before.
Spelt(path, text, off) ==
    /\ off \in [0..Len(path) -> Nat] /\ off[0] = 0 /\ off[Len(path)] = Len(text)
    /\ \A i \in 1..Len(path) :
         LET a == off[i - 1] IN
         /\ off[i] <= Len(text)
         /\ path[i] \in {"\\", "\""} => off[i] = a + 2 /\ text[a + 1] = "\\" /\ text[a + 2] = path[i]
         /\ path[i] \notin {"\\", "\""} => off[i] = a + 1 /\ text[a + 1] = path[i]

LEMMA EscapedIsText ==
  ASSUME NEW c \in Char
  PROVE  Escaped(c) \in Seq(Char)
<1>1. "\\" \in Char
  BY DEF Char
<1>2. <<"\\", c>> \in Seq(Char) /\ <<c>> \in Seq(Char)
  BY <1>1
<1>. QED
  BY <1>2 DEF Escaped

LEMMA EscapeSpells ==
  ASSUME NEW path \in Seq(Char)
  PROVE  SbplEscape(path) \in Seq(Char) /\ \E off : Spelt(path, SbplEscape(path), off)
<1>. DEFINE s == [i \in DOMAIN path |-> Escaped(path[i])]
            text == SbplEscape(path)
<1>1. /\ Len(path) \in Nat /\ DOMAIN path = 1..Len(path)
      /\ \A i \in 1..Len(path) : path[i] \in Char
  OBVIOUS
<1>2. \A i \in 1..Len(path) : s[i] = Escaped(path[i]) /\ Escaped(path[i]) \in Seq(Char)
  BY <1>1, EscapedIsText
<1>3. s \in Seq(Seq(Char)) /\ Len(s) = Len(path)
  BY <1>1, <1>2
<1>4. text = FlattenSeq(s)
  BY DEF SbplEscape
<1>. HIDE DEF s, text
<1>5. CASE Len(path) = 0
  <2>1. text = s
    BY <1>3, <1>4, <1>5 DEF FlattenSeq
  <2>2. text \in Seq(Char) /\ Len(text) = 0
    BY <1>3, <1>5, <2>1
  <2>3. Spelt(path, text, [i \in 0..0 |-> 0])
    BY <1>5, <2>2 DEF Spelt
  <2>. QED
    BY <2>2, <2>3 DEF text
<1>6. CASE Len(path) # 0
  <2>1. PICK f : Grows(s, f, Len(s)) /\ text = f[Len(s)]
    BY <1>3, <1>4, <1>6, Flattened
  <2>2. \A i \in 1..Len(path) : f[i] \in Seq(Char) /\ Len(f[i]) \in Nat
    BY <1>3, <2>1 DEF Grows
  <2>3. Len(path) \in 1..Len(path) /\ text = f[Len(path)] /\ text \in Seq(Char)
    BY <1>1, <1>3, <1>6, <2>1, <2>2
  <2>. DEFINE off == [i \in 0..Len(path) |-> IF i = 0 THEN 0 ELSE Len(f[i])]
  <2>4. off \in [0..Len(path) -> Nat] /\ off[0] = 0 /\ off[Len(path)] = Len(text)
    BY <1>1, <1>6, <2>2, <2>3
  <2>5. ASSUME NEW i \in 1..Len(path)
        PROVE  LET a == off[i - 1] IN
               /\ off[i] <= Len(text)
               /\ path[i] \in {"\\", "\""} => off[i] = a + 2 /\ text[a + 1] = "\\" /\ text[a + 2] = path[i]
               /\ path[i] \notin {"\\", "\""} => off[i] = a + 1 /\ text[a + 1] = path[i]
    <3>. DEFINE a == off[i - 1]
    <3>1. /\ i - 1 \in 0..Len(path) /\ off[i] = Len(f[i]) /\ a \in Nat
          /\ s[i] \in Seq(Char)
      BY <1>1, <1>2, <2>4
    <3>2. Len(f[i]) = a + Len(s[i]) /\ \A k \in 1..Len(s[i]) : f[i][a + k] = s[i][k]
      <4>1. CASE i = 1
        <5>1. a = 0
          BY <4>1
        <5>2. f[i] = s[i]
          BY <1>3, <2>1, <4>1 DEF Grows
        <5>3. Len(s[i]) \in Nat
          BY <3>1
        <5>4. \A k \in 1..Len(s[i]) : 0 + k = k
          BY <5>3
        <5>. HIDE DEF a
        <5>. QED
          BY <5>1, <5>2, <5>3, <5>4
      <4>2. CASE i # 1
        <5>1. i - 1 \in 1..Len(path) /\ i - 1 # 0
          BY <4>2
        <5>2. a = Len(f[i - 1]) /\ f[i - 1] \in Seq(Char)
          BY <2>2, <3>1, <5>1
        <5>3. f[i] = f[i - 1] \o s[i]
          BY <1>3, <2>1, <4>2 DEF Grows
        <5>. HIDE DEF a
        <5>4. /\ Len(f[i - 1] \o s[i]) = Len(f[i - 1]) + Len(s[i])
              /\ \A k \in 1..Len(s[i]) : (f[i - 1] \o s[i])[Len(f[i - 1]) + k] = s[i][k]
          BY <3>1, <5>2, Concatenated
        <5>. QED
          BY <5>2, <5>3, <5>4
      <4>. QED
        BY <4>1, <4>2
    <3>3. Len(f[i]) <= Len(text) /\ \A k \in 1..Len(f[i]) : text[k] = f[i][k]
      <4>1. i \in 1..Len(s) /\ Len(s) \in i..Len(s)
        BY <1>1, <1>3
      <4>. DEFINE n == Len(s)
      <4>2. s \in Seq(Seq(Char)) /\ Grows(s, f, Len(s)) /\ i \in 1..Len(s) /\ n \in i..Len(s)
        BY <1>3, <2>1, <4>1
      <4>. HIDE DEF n
      <4>3. Len(f[i]) <= Len(f[n]) /\ \A k \in 1..Len(f[i]) : f[n][k] = f[i][k]
        BY <4>2, GrowsAtTheEnd
      <4>. QED
        BY <2>1, <4>3 DEF n
    <3>4. s[i] = Escaped(path[i])
      BY <1>2
    <3>. HIDE DEF off
    <3>5. CASE path[i] \in {"\\", "\""}
      <4>1. s[i] = <<"\\", path[i]>>
        BY <3>4, <3>5 DEF Escaped
      <4>2. Len(s[i]) = 2 /\ s[i][1] = "\\" /\ s[i][2] = path[i]
        BY <4>1
      <4>3. f[i][a + 1] = "\\" /\ f[i][a + 2] = path[i] /\ Len(f[i]) = a + 2
        BY <3>2, <4>2
      <4>4. a + 1 \in 1..Len(f[i]) /\ a + 2 \in 1..Len(f[i])
        BY <3>1, <4>3, SMTT(30)
      <4>. QED
        BY <3>1, <3>3, <3>5, <4>3, <4>4
    <3>6. CASE path[i] \notin {"\\", "\""}
      <4>1. s[i] = <<path[i]>>
        BY <3>4, <3>6 DEF Escaped
      <4>2. Len(s[i]) = 1 /\ s[i][1] = path[i]
        BY <4>1
      <4>3. f[i][a + 1] = path[i] /\ Len(f[i]) = a + 1
        BY <3>2, <4>2
      <4>4. a + 1 \in 1..Len(f[i])
        BY <3>1, <4>3
      <4>. QED
        BY <3>1, <3>3, <3>6, <4>3, <4>4
    <3>. QED
      BY <3>5, <3>6
  <2>. HIDE DEF off
  <2>6. Spelt(path, text, off)
    BY <2>4, <2>5 DEF Spelt
  <2>. QED
    BY <2>3, <2>6 DEF text
<1>. QED
  BY <1>5, <1>6

\* What LiteralRead computes: what is read from a place on, from the places after it.
ReadFrom(text, g, i) ==
    IF i > Len(text) \/ text[IF i > Len(text) THEN 1 ELSE i] = "\"" THEN <<>>
    ELSE IF text[i] = "\\" /\ i < Len(text) THEN <<text[i + 1]>> \o g[i + 2]
    ELSE <<text[i]>> \o g[i + 1]

Reader(text, g, m) ==
    /\ g \in [m..(Len(text) + 2) -> Seq(Char)]
    /\ \A i \in m..(Len(text) + 2) : g[i] = ReadFrom(text, g, i)

\* A place is read from at most two places further on.
LEMMA ReadsAhead ==
  ASSUME NEW text \in Seq(Char), NEW g, NEW i \in 1..(Len(text) + 2),
         \A j \in (i + 1)..(Len(text) + 2) : g[j] \in Seq(Char)
  PROVE  /\ ReadFrom(text, g, i) \in Seq(Char)
         /\ \A h : (\A j \in (i + 1)..(Len(text) + 2) : g[j] = h[j]) => ReadFrom(text, g, i) = ReadFrom(text, h, i)
<1>1. Len(text) \in Nat /\ \A k \in 1..Len(text) : text[k] \in Char /\ <<text[k]>> \in Seq(Char)
  OBVIOUS
<1>2. CASE i > Len(text)
  BY <1>1, <1>2 DEF ReadFrom
<1>3. CASE ~(i > Len(text))
  <2>1. i \in 1..Len(text) /\ i + 1 \in (i + 1)..(Len(text) + 2) /\ i + 2 \in (i + 1)..(Len(text) + 2)
    BY <1>1, <1>3
  <2>2. g[i + 1] \in Seq(Char) /\ g[i + 2] \in Seq(Char)
    BY <2>1
  <2>3. i < Len(text) => i + 1 \in 1..Len(text)
    BY <1>1, <2>1
  <2>4. i < Len(text) => <<text[i + 1]>> \o g[i + 2] \in Seq(Char)
    BY <1>1, <2>2, <2>3, ConcatProperties
  <2>5. <<text[i]>> \o g[i + 1] \in Seq(Char)
    BY <1>1, <2>1, <2>2, ConcatProperties
  <2>6. <<>> \in Seq(Char)
    OBVIOUS
  <2>7. ReadFrom(text, g, i) \in Seq(Char)
    BY <2>4, <2>5, <2>6, Zenon DEF ReadFrom
  <2>8. ASSUME NEW h, \A j \in (i + 1)..(Len(text) + 2) : g[j] = h[j]
        PROVE  ReadFrom(text, g, i) = ReadFrom(text, h, i)
    <3>1. g[i + 1] = h[i + 1] /\ g[i + 2] = h[i + 2]
      BY <2>1, <2>8
    <3>. QED
      BY <3>1, Zenon DEF ReadFrom
  <2>. QED
    BY <2>7, <2>8
<1>. QED
  BY <1>2, <1>3

LEMMA SomethingReads ==
  ASSUME NEW text \in Seq(Char)
  PROVE  \E g : Reader(text, g, 1)
<1>. DEFINE n == Len(text) + 2
            T == {k \in 0..(n - 1) : ~ \E g : Reader(text, g, n - k)}
<1>1. n \in Nat /\ n >= 2 /\ Len(text) \in Nat
  OBVIOUS
<1>2. ASSUME T # {}
      PROVE  FALSE
  <2>1. T \subseteq Nat
    BY <1>1
  <2>2. PICK k \in T : \A q \in T : k <= q
    <3>. HIDE DEF T
    <3>. QED
      BY <1>2, <2>1, SomeIsLeast, Zenon
  <2>3. k \in 0..(n - 1) /\ ~ \E g : Reader(text, g, n - k)
    BY <2>2
  <2>4. CASE k = 0
    <3>. DEFINE g == [i \in n..n |-> <<>>]
    <3>1. \A i \in n..n : i > Len(text) /\ g[i] = <<>> /\ <<>> \in Seq(Char)
      BY <1>1
    <3>2. g \in [n..n -> Seq(Char)]
      BY <3>1
    <3>. HIDE DEF g
    <3>3. \A i \in n..n : g[i] = ReadFrom(text, g, i)
      BY <3>1 DEF ReadFrom
    <3>4. Reader(text, g, n)
      BY <3>2, <3>3 DEF Reader
    <3>5. n - k = n
      BY <1>1, <2>4
    <3>. QED
      BY <2>3, <3>4, <3>5
  <2>5. CASE k # 0
    <3>. DEFINE m == n - k
    <3>1. k - 1 \in 0..(n - 1) /\ ~(k <= k - 1) /\ n - (k - 1) = m + 1 /\ m \in 1..n /\ m \in Nat
      BY <1>1, <2>3, <2>5
    <3>2. k - 1 \notin T
      BY <2>2, <3>1
    <3>3. PICK f : Reader(text, f, m + 1)
      BY <3>1, <3>2
    <3>. DEFINE g == [i \in m..n |-> IF i = m THEN ReadFrom(text, f, m) ELSE f[i]]
    <3>. HIDE DEF T, n, m
    <3>4. f \in [(m + 1)..n -> Seq(Char)] /\ \A i \in (m + 1)..n : f[i] = ReadFrom(text, f, i)
      BY <3>3 DEF Reader, n
    <3>5. m \in 1..(Len(text) + 2) /\ \A j \in (m + 1)..(Len(text) + 2) : f[j] \in Seq(Char)
      BY <3>1, <3>4 DEF n
    <3>6. ReadFrom(text, f, m) \in Seq(Char)
      BY <3>5, ReadsAhead
    <3>7. \A i \in m..n : i = m \/ i \in (m + 1)..n
      BY <1>1, <3>1
    <3>8. \A i \in m..n : g[i] = (IF i = m THEN ReadFrom(text, f, m) ELSE f[i]) /\ g[i] \in Seq(Char)
      BY <3>4, <3>6, <3>7
    <3>9. g \in [m..n -> Seq(Char)]
      BY <3>8
    <3>10. \A i \in (m + 1)..n : i \in m..n /\ i # m
      BY <1>1, <3>1
    <3>11. \A i \in (m + 1)..n : g[i] = f[i]
      BY <3>8, <3>10
    <3>. HIDE DEF g
    <3>12. ASSUME NEW i \in m..n
           PROVE  g[i] = ReadFrom(text, g, i)
      <4>1. i \in 1..(Len(text) + 2) /\ \A j \in (i + 1)..(Len(text) + 2) : j \in (m + 1)..n
        BY <1>1, <3>1 DEF n
      <4>2. \A j \in (i + 1)..(Len(text) + 2) : f[j] \in Seq(Char) /\ f[j] = g[j]
        BY <3>4, <3>11, <4>1
      <4>3. ReadFrom(text, f, i) = ReadFrom(text, g, i)
        BY <4>1, <4>2, ReadsAhead
      <4>4. g[i] = ReadFrom(text, f, i)
        BY <3>4, <3>7, <3>8
      <4>. QED
        BY <4>3, <4>4
    <3>13. Reader(text, g, m)
      BY <3>9, <3>12 DEF Reader, n
    <3>. QED
      BY <2>3, <3>13 DEF m
  <2>. QED
    BY <2>4, <2>5
<1>3. n - 1 \in 0..(n - 1) /\ n - (n - 1) = 1
  BY <1>1
<1>4. n - 1 \notin T
  BY <1>2, Zenon
<1>. QED
  BY <1>3, <1>4

LEMMA OneReads ==
  ASSUME NEW text \in Seq(Char), NEW g, Reader(text, g, 1), NEW f,
         f = [i \in 1..(Len(text) + 2) |-> ReadFrom(text, f, i)]
  PROVE  f = g
<1>. DEFINE n == Len(text) + 2
            T == {k \in 0..(n - 1) : f[n - k] # g[n - k]}
<1>1. n \in Nat /\ n >= 2
  OBVIOUS
<1>2. ASSUME T # {}
      PROVE  FALSE
  <2>1. T \subseteq Nat
    BY <1>1
  <2>2. PICK k \in T : \A q \in T : k <= q
    <3>. HIDE DEF T
    <3>. QED
      BY <1>2, <2>1, SomeIsLeast, Zenon
  <2>. DEFINE i == n - k
  <2>3. k \in 0..(n - 1) /\ f[i] # g[i] /\ i \in 1..n
    BY <1>1, <2>2
  <2>4. ASSUME NEW j \in (i + 1)..n
        PROVE  f[j] = g[j]
    <3>1. n - j \in 0..(n - 1) /\ ~(k <= n - j) /\ n - (n - j) = j
      BY <1>1, <2>3
    <3>2. n - j \notin T
      BY <2>2, <3>1
    <3>. QED
      BY <3>1, <3>2
  <2>. HIDE DEF i, T
  <2>5. \A j \in (i + 1)..n : g[j] \in Seq(Char)
    <3>1. \A j \in (i + 1)..n : j \in 1..n
      BY <1>1, <2>3
    <3>. QED
      BY <3>1 DEF Reader
  <2>6. ReadFrom(text, g, i) = ReadFrom(text, f, i)
    BY <2>3, <2>4, <2>5, ReadsAhead
  <2>7. f[i] = ReadFrom(text, f, i) /\ g[i] = ReadFrom(text, g, i)
    BY <2>3 DEF Reader
  <2>. QED
    BY <2>3, <2>6, <2>7
<1>3. \A i \in 1..n : f[i] = g[i]
  <2>1. \A i \in 1..n : n - i \in 0..(n - 1) /\ n - (n - i) = i
    BY <1>1
  <2>2. \A k \in 0..(n - 1) : f[n - k] = g[n - k]
    BY <1>2
  <2>. QED
    BY <2>1, <2>2
<1>4. f = [i \in 1..n |-> f[i]]
  OBVIOUS
<1>5. g = [i \in 1..n |-> g[i]]
  BY DEF Reader
<1>. QED
  BY <1>3, <1>4, <1>5

LEMMA LiteralReads ==
  ASSUME NEW text \in Seq(Char)
  PROVE  \E g : Reader(text, g, 1) /\ LiteralRead(text) = g[1]
<1>. DEFINE f == CHOOSE f : f = [i \in 1..(Len(text) + 2) |->
               IF i > Len(text) \/ text[IF i > Len(text) THEN 1 ELSE i] = "\"" THEN <<>>
               ELSE IF text[i] = "\\" /\ i < Len(text) THEN <<text[i + 1]>> \o f[i + 2]
               ELSE <<text[i]>> \o f[i + 1]]
<1>1. PICK g : Reader(text, g, 1)
  BY SomethingReads
<1>2. g = [i \in 1..(Len(text) + 2) |-> ReadFrom(text, g, i)]
  <2>1. g = [i \in 1..(Len(text) + 2) |-> g[i]] /\ \A i \in 1..(Len(text) + 2) : g[i] = ReadFrom(text, g, i)
    BY <1>1 DEF Reader
  <2>. QED
    BY <2>1
<1>3. f = [i \in 1..(Len(text) + 2) |-> ReadFrom(text, f, i)]
  BY <1>2, Zenon DEF ReadFrom
<1>4. LiteralRead(text) = f[1]
  BY Zenon DEF LiteralRead
<1>. HIDE DEF f
<1>5. f = g
  BY <1>1, <1>3, OneReads
<1>. QED
  BY <1>1, <1>4, <1>5

LEMMA OneAndTheRest ==
  ASSUME NEW path \in Seq(Char), NEW i \in 1..Len(path)
  PROVE  <<path[i]>> \o SubSeq(path, i + 1, Len(path)) = SubSeq(path, i, Len(path))
<1>. DEFINE n == Len(path)
            one == <<path[i]>>
            rest == SubSeq(path, i + 1, n)
            all == SubSeq(path, i, n)
<1>1. n \in Nat /\ i \in 1..n /\ path[i] \in Char
  OBVIOUS
<1>2. one \in Seq(Char) /\ Len(one) = 1 /\ one[1] = path[i]
  BY <1>1
<1>3. rest \in Seq(Char) /\ Len(rest) = n - i /\ \A k \in 1..(n - i) : rest[k] = path[i + k]
  BY <1>1
<1>4. all \in Seq(Char) /\ Len(all) = n - i + 1 /\ \A k \in 1..(n - i + 1) : all[k] = path[i + k - 1]
  BY <1>1
<1>. HIDE DEF n, one, rest, all
<1>5. /\ one \o rest \in Seq(Char) /\ Len(one \o rest) = 1 + (n - i)
      /\ (one \o rest)[1] = one[1]
      /\ \A k \in 1..(n - i) : (one \o rest)[1 + k] = rest[k]
  <2>1. /\ one \o rest \in Seq(Char) /\ Len(one \o rest) = Len(one) + Len(rest)
        /\ \A k \in 1..Len(one) : (one \o rest)[k] = one[k]
        /\ \A k \in 1..Len(rest) : (one \o rest)[Len(one) + k] = rest[k]
    BY <1>2, <1>3, Concatenated, Zenon
  <2>2. Len(one) = 1 /\ 1 \in 1..1 /\ Len(rest) = n - i
    BY <1>2, <1>3
  <2>. QED
    BY <2>1, <2>2
<1>6. Len(one \o rest) = Len(all)
  BY <1>1, <1>4, <1>5
<1>7. ASSUME NEW k \in 1..Len(all)
      PROVE  (one \o rest)[k] = all[k]
  <2>1. k \in 1..(n - i + 1) /\ all[k] = path[i + k - 1]
    BY <1>4
  <2>2. CASE k = 1
    <3>1. i + k - 1 = i
      BY <1>1, <2>2
    <3>. QED
      BY <1>2, <1>5, <2>1, <2>2, <3>1
  <2>3. CASE k # 1
    <3>1. k - 1 \in 1..(n - i) /\ 1 + (k - 1) = k /\ i + (k - 1) = i + k - 1
      BY <1>1, <2>1, <2>3
    <3>2. (one \o rest)[k] = rest[k - 1]
      BY <1>5, <3>1
    <3>3. rest[k - 1] = path[i + k - 1]
      BY <1>3, <3>1
    <3>. QED
      BY <2>1, <3>2, <3>3
  <2>. QED
    BY <2>2, <2>3
<1>8. one \o rest = all
  BY <1>4, <1>5, <1>6, <1>7, SeqEqual
<1>. QED
  BY <1>8 DEF n, one, rest, all

\* What the profile's reader makes of an escaped path is the path (sandbox_exec.rs, sbpl_escape).
LEMMA EscapedReadsBack ==
  ASSUME NEW path \in Seq(Char)
  PROVE  LiteralRead(SbplEscape(path)) = path
<1>. DEFINE text == SbplEscape(path)
            n == Len(path)
<1>1. text \in Seq(Char) /\ \E off : Spelt(path, text, off)
  BY EscapeSpells
<1>2. n \in Nat /\ (\A i \in 1..n : path[i] \in Char)
  OBVIOUS
<1>. HIDE DEF text
<1>3. PICK off : Spelt(path, text, off)
  BY <1>1
<1>31. /\ off \in [0..n -> Nat] /\ off[0] = 0 /\ off[n] = Len(text) /\ Len(text) \in Nat
       /\ \A i \in 1..n : off[i] <= Len(text)
  <2>1. off \in [0..n -> Nat] /\ off[0] = 0 /\ off[n] = Len(text)
    BY <1>3, Zenon DEF Spelt
  <2>2. \A i \in 1..n : off[i] <= Len(text)
    BY <1>3, Zenon DEF Spelt
  <2>3. Len(text) \in Nat
    BY <1>1
  <2>. QED
    BY <2>1, <2>2, <2>3, Zenon
<1>4. PICK g : Reader(text, g, 1) /\ LiteralRead(text) = g[1]
  BY <1>1, LiteralReads
<1>. DEFINE T == {k \in 0..n : g[off[n - k] + 1] # SubSeq(path, n - k + 1, n)}
<1>5. ASSUME T # {}
      PROVE  FALSE
  <2>1. T \subseteq Nat
    BY <1>2
  <2>2. PICK k \in T : \A q \in T : k <= q
    <3>. HIDE DEF T
    <3>. QED
      BY <1>5, <2>1, SomeIsLeast, Zenon
  <2>. DEFINE i == n - k
              a == off[i]
  <2>3. k \in 0..n /\ i \in 0..n /\ g[a + 1] # SubSeq(path, i + 1, n)
    BY <1>2, <2>2
  <2>4. a \in Nat /\ Len(text) \in Nat
    BY <1>31, <2>3
  <2>5. CASE k = 0
    <3>1. i = n /\ a = Len(text)
      BY <1>2, <1>31, <2>5
    <3>2. a + 1 \in 1..(Len(text) + 2) /\ a + 1 > Len(text)
      BY <2>4, <3>1
    <3>3. g[a + 1] = <<>>
      BY <1>4, <3>2, Zenon DEF Reader, ReadFrom
    <3>4. SubSeq(path, i + 1, n) = <<>>
      BY <1>2, <3>1, SubSeqProperties, EmptySeq
    <3>. QED
      BY <2>3, <3>3, <3>4
  <2>6. CASE k # 0
    <3>. DEFINE j == i + 1
                c == path[j]
                b == off[j]
    <3>1. j \in 1..n /\ i = j - 1 /\ k - 1 \in 0..n /\ ~(k <= k - 1) /\ n - (k - 1) = j
      BY <1>2, <2>3, <2>6
    <3>2. k - 1 \notin T
      BY <2>2, <3>1
    <3>3. g[b + 1] = SubSeq(path, j + 1, n)
      BY <3>1, <3>2
    <3>4. /\ b \in Nat /\ b <= Len(text)
          /\ c \in {"\\", "\""} => b = a + 2 /\ text[a + 1] = "\\" /\ text[a + 2] = c
          /\ c \notin {"\\", "\""} => b = a + 1 /\ text[a + 1] = c
      <4>1. j \in 0..n /\ off[j - 1] = a
        BY <3>1
      <4>2. b \in Nat
        BY <1>3, <4>1 DEF Spelt
      <4>. QED
        BY <1>3, <3>1, <4>1, <4>2 DEF Spelt
    <3>5. <<c>> \o SubSeq(path, j + 1, n) = SubSeq(path, j, n)
      BY <3>1, OneAndTheRest
    <3>. HIDE DEF T, a, b, c
    <3>. DEFINE l == Len(text)
    <3>60. a \in Nat /\ b \in Nat /\ l \in Nat /\ b <= l /\ (b = a + 2 \/ b = a + 1)
      BY <2>4, <3>4, Zenon
    <3>. HIDE DEF l
    <3>61. a + 1 \in 1..(l + 2) /\ ~(a + 1 > l)
      BY <3>60
    <3>6. a + 1 \in 1..(Len(text) + 2) /\ ~(a + 1 > Len(text))
      BY <3>61 DEF l
    <3>7. g[a + 1] = ReadFrom(text, g, a + 1)
      BY <1>4, <3>6 DEF Reader
    <3>8. CASE c \in {"\\", "\""}
      <4>0. b = a + 2
        BY <3>4, <3>8, Zenon
      <4>10. a + 1 < l /\ (a + 1) + 1 = a + 2 /\ (a + 1) + 2 = b + 1
        BY <3>60, <4>0
      <4>1. a + 1 < Len(text) /\ (a + 1) + 1 = a + 2 /\ (a + 1) + 2 = b + 1
        BY <4>10 DEF l
      <4>2. text[a + 1] = "\\" /\ text[a + 2] = c
        BY <3>4, <3>8
      <4>3. text[a + 1] # "\""
        BY <4>2
      <4>4. ReadFrom(text, g, a + 1) = <<text[(a + 1) + 1]>> \o g[(a + 1) + 2]
        BY <3>6, <4>1, <4>2, <4>3, Zenon DEF ReadFrom
      <4>5. g[a + 1] = <<c>> \o g[b + 1]
        BY <3>7, <4>1, <4>2, <4>4
      <4>. QED
        BY <2>3, <3>3, <3>5, <4>5
    <3>9. CASE c \notin {"\\", "\""}
      <4>1. (a + 1) + 1 = b + 1 /\ text[a + 1] = c /\ c # "\\" /\ c # "\""
        BY <2>4, <3>4, <3>9
      <4>2. ReadFrom(text, g, a + 1) = <<text[a + 1]>> \o g[(a + 1) + 1]
        BY <3>6, <4>1, Zenon DEF ReadFrom
      <4>3. g[a + 1] = <<c>> \o g[b + 1]
        BY <3>7, <4>1, <4>2
      <4>. QED
        BY <2>3, <3>3, <3>5, <4>3
    <3>. QED
      BY <3>8, <3>9
  <2>. QED
    BY <2>5, <2>6
<1>6. n \in 0..n /\ n - n = 0 /\ off[0] = 0
  BY <1>2, <1>31
<1>7. n \notin T
  BY <1>5, Zenon
<1>8. g[1] = SubSeq(path, 1, n)
  BY <1>6, <1>7
<1>9. SubSeq(path, 1, n) = path
  OBVIOUS
<1>. QED
  BY <1>4, <1>8, <1>9 DEF text

-----------------------------------------------------------------------------
LEMMA Sanitized ==
  ASSUME NEW s \in Seq(STRING)
  PROVE  Sanitize(s) \in Seq(Char) /\ Len(Sanitize(s)) = Len(s)
<1>1. Len(s) \in Nat /\ DOMAIN s = 1..Len(s) /\ \A i \in 1..Len(s) : s[i] \in STRING
  OBVIOUS
<1>2. \A i \in 1..Len(s) : (IF s[i] \in Digit \union Letter THEN s[i] ELSE "-") \in Char
  BY <1>1 DEF Char
<1>. QED
  BY <1>1, <1>2 DEF Sanitize

\* What is joined to a directory is within it.
LEMMA JoinedIsWithin ==
  ASSUME NEW dir \in Seq(Char), NEW name \in Seq(Char)
  PROVE  /\ Join(dir, name) \in Seq(Char) /\ Len(Join(dir, name)) = Len(dir) + 1 + Len(name)
         /\ Within(Join(dir, name), dir)
         /\ \A above \in Seq(Char) : Within(dir, above) => Within(Join(dir, name), above)
<1>. DEFINE path == Join(dir, name)
            head == dir \o <<"/">>
<1>1. <<"/">> \in Seq(Char) /\ Len(<<"/">>) = 1 /\ <<"/">>[1] = "/"
  <2>1. "/" \in Char
    BY DEF Char
  <2>. QED
    BY <2>1
<1>2. /\ head \in Seq(Char) /\ Len(head) = Len(dir) + 1 /\ Len(dir) \in Nat
      /\ \A k \in 1..Len(dir) : head[k] = dir[k]
      /\ head[Len(dir) + 1] = "/"
  <2>1. /\ head \in Seq(Char) /\ Len(head) = Len(dir) + Len(<<"/">>) /\ Len(dir) \in Nat
        /\ \A k \in 1..Len(dir) : head[k] = dir[k]
        /\ \A k \in 1..Len(<<"/">>) : head[Len(dir) + k] = <<"/">>[k]
    BY <1>1, Concatenated, Zenon
  <2>2. 1 \in 1..Len(<<"/">>)
    BY <1>1
  <2>. QED
    BY <1>1, <2>1, <2>2
<1>. HIDE DEF head
<1>3. path = head \o name
  BY DEF Join, head
<1>4. /\ path \in Seq(Char) /\ Len(path) = Len(head) + Len(name) /\ Len(name) \in Nat
      /\ \A k \in 1..Len(head) : path[k] = head[k]
  <2>1. LET all == head \o name IN
        /\ all \in Seq(Char) /\ Len(all) = Len(head) + Len(name) /\ Len(name) \in Nat
        /\ \A k \in 1..Len(head) : all[k] = head[k]
    BY <1>2, Concatenated, Zenon
  <2>. QED
    BY <1>3, <2>1
<1>. HIDE DEF path
<1>5. ASSUME NEW above \in Seq(Char), Len(above) <= Len(dir), \A k \in 1..Len(above) : dir[k] = above[k],
             above = dir \/ (Len(above) < Len(dir) /\ dir[Len(above) + 1] = "/")
      PROVE  Within(path, above)
  <2>. DEFINE n == Len(above) + 1
              s == Append(above, "/")
  <2>1. n \in Nat /\ n >= 1 /\ n <= Len(path) /\ n <= Len(head)
    BY <1>2, <1>4, <1>5
  <2>2. s \in Seq(Char) /\ Len(s) = n /\ s[n] = "/" /\ \A k \in 1..Len(above) : s[k] = above[k]
    <3>1. "/" \in Char
      BY DEF Char
    <3>. QED
      BY <3>1, AppendProperties
  <2>3. path[n] = "/"
    <3>1. path[n] = head[n]
      BY <1>4, <2>1
    <3>2. CASE above = dir
      BY <1>2, <3>1, <3>2
    <3>3. CASE Len(above) < Len(dir) /\ dir[Len(above) + 1] = "/"
      <4>1. n \in 1..Len(dir)
        BY <1>2, <3>3
      <4>. QED
        BY <1>2, <3>1, <3>3, <4>1
    <3>. QED
      BY <1>5, <3>2, <3>3
  <2>4. ASSUME NEW k \in 1..n
        PROVE  s[k] = path[k]
    <3>1. CASE k = n
      BY <2>2, <2>3, <3>1
    <3>2. CASE k # n
      <4>1. k \in 1..Len(above) /\ k \in 1..Len(dir) /\ k \in 1..Len(head)
        BY <1>2, <1>5, <3>2
      <4>. QED
        BY <1>2, <1>4, <1>5, <2>2, <4>1
    <3>. QED
      BY <3>1, <3>2
  <2>. HIDE DEF s, n
  <2>5. SubSeq(s, 1, n) \in Seq(Char) /\ SubSeq(path, 1, n) \in Seq(Char)
    BY <1>4, <2>1, <2>2
  <2>6. /\ Len(SubSeq(s, 1, n)) = n /\ Len(SubSeq(path, 1, n)) = n
        /\ \A k \in 1..n : SubSeq(s, 1, n)[k] = s[k] /\ SubSeq(path, 1, n)[k] = path[k]
    BY <1>4, <2>1, <2>2
  <2>7. SubSeq(s, 1, n) = SubSeq(path, 1, n)
    BY <2>4, <2>5, <2>6, SeqEqual
  <2>8. Len(s) <= Len(path) /\ SubSeq(s, 1, Len(s)) = SubSeq(path, 1, Len(s))
    BY <2>1, <2>2, <2>7
  <2>. QED
    BY <2>8 DEF Within, IsPrefix, s
<1>6. Within(path, dir)
  <2>1. Len(dir) <= Len(dir)
    BY <1>2
  <2>. QED
    BY <1>5, <2>1
<1>7. ASSUME NEW above \in Seq(Char), Within(dir, above)
      PROVE  Within(path, above)
  <2>1. CASE dir = above
    BY <1>6, <2>1
  <2>2. CASE IsPrefix(Append(above, "/"), dir)
    <3>. DEFINE s == Append(above, "/")
                n == Len(above) + 1
    <3>1. s \in Seq(Char) /\ Len(s) = n /\ s[n] = "/" /\ (\A k \in 1..Len(above) : s[k] = above[k]) /\ n \in Nat /\ n >= 1
      <4>1. "/" \in Char
        BY DEF Char
      <4>. QED
        BY <4>1, AppendProperties
    <3>2. n <= Len(dir) /\ SubSeq(s, 1, n) = SubSeq(dir, 1, n)
      BY <2>2, <3>1 DEF IsPrefix
    <3>. HIDE DEF s
    <3>3. \A k \in 1..n : SubSeq(s, 1, n)[k] = s[k] /\ SubSeq(dir, 1, n)[k] = dir[k]
      BY <3>1, <3>2
    <3>4. \A k \in 1..n : s[k] = dir[k]
      BY <3>2, <3>3
    <3>5. Len(above) \in Nat /\ n \in 1..n /\ (\A k \in 1..Len(above) : k \in 1..n)
      BY <3>1
    <3>6. Len(above) < Len(dir) /\ Len(above) <= Len(dir)
      BY <1>2, <3>2, <3>5
    <3>7. dir[Len(above) + 1] = "/" /\ \A k \in 1..Len(above) : dir[k] = above[k]
      BY <3>1, <3>4, <3>5
    <3>. QED
      BY <1>5, <3>6, <3>7
  <2>. QED
    BY <1>7, <2>1, <2>2 DEF Within
<1>8. Len(path) = Len(dir) + 1 + Len(name)
  BY <1>2, <1>4
<1>. QED
  BY <1>4, <1>6, <1>7, <1>8 DEF path

\* A key is no longer than it may be, and more than its hash is left of it (instance_key).
LEMMA KeyFits ==
  ASSUME NEW dir \in Seq(STRING), NEW model \in Seq(STRING), NEW max \in Nat, max >= MIN_INSTANCE_KEY
  PROVE  LET key == InstanceKey(dir, model, max) IN
         /\ key.text \in Seq(Char) /\ Len(key.text) <= max
         /\ key.of # <<>> => Len(key.text) >= MIN_INSTANCE_KEY /\ key.text[1] = key.of[1]
<1>. DEFINE whole == Sanitize(dir) \o <<"-">> \o Sanitize(model)
            d == DIGEST_LEN
            n == max - d - 1
            front == SubSeq(whole, 1, n)
            hash == [i \in 1..d |-> "0"]
            short == front \o <<"-">> \o hash
<1>1. <<"-">> \in Seq(Char) /\ Len(<<"-">>) = 1
  <2>1. "-" \in Char
    BY DEF Char
  <2>. QED
    BY <2>1
<1>2. whole \in Seq(Char) /\ Len(whole) \in Nat
  <2>1. Sanitize(dir) \in Seq(Char) /\ Sanitize(model) \in Seq(Char)
    BY Sanitized
  <2>2. Sanitize(dir) \o <<"-">> \in Seq(Char)
    BY <1>1, <2>1, Concatenated
  <2>3. whole \in Seq(Char)
    BY <2>1, <2>2, Concatenated
  <2>. QED
    BY <2>3, LenProperties
<1>3. d \in Nat /\ n \in Nat /\ n >= 1 /\ max = n + 1 + d /\ MIN_INSTANCE_KEY \in Nat
  BY LaunchAssumption DEF MIN_INSTANCE_KEY
<1>4. hash \in Seq(Char) /\ Len(hash) = d
  <2>1. "0" \in Char
    BY DEF Char
  <2>. QED
    BY <1>3, <2>1
<1>5. InstanceKey(dir, model, max) =
        IF Len(whole) <= max THEN [text |-> whole, of |-> <<>>] ELSE [text |-> short, of |-> whole]
  BY Zenon DEF InstanceKey
<1>. HIDE DEF whole, hash, d, n
<1>6. CASE Len(whole) <= max
  <2>1. InstanceKey(dir, model, max) = [text |-> whole, of |-> <<>>]
    BY <1>5, <1>6
  <2>. QED
    BY <1>2, <1>6, <2>1
<1>7. CASE ~(Len(whole) <= max)
  <2>1. n < Len(whole) /\ 1 \in 1..n
    BY <1>2, <1>3, <1>7
  <2>2. front \in Seq(Char) /\ Len(front) = n /\ front[1] = whole[1]
    BY <1>2, <1>3, <2>1, SMTT(30)
  <2>. HIDE DEF front
  <2>3. /\ front \o <<"-">> \in Seq(Char) /\ Len(front \o <<"-">>) = n + 1
        /\ (front \o <<"-">>)[1] = whole[1]
    <3>1. /\ front \o <<"-">> \in Seq(Char) /\ Len(front \o <<"-">>) = Len(front) + Len(<<"-">>)
          /\ \A k \in 1..Len(front) : (front \o <<"-">>)[k] = front[k]
      BY <1>1, <2>2, Concatenated, Zenon
    <3>. QED
      BY <1>1, <2>1, <2>2, <3>1
  <2>4. /\ short \in Seq(Char) /\ Len(short) = Len(front \o <<"-">>) + Len(hash)
        /\ \A k \in 1..Len(front \o <<"-">>) : short[k] = (front \o <<"-">>)[k]
    BY <1>4, <2>3, Concatenated, Zenon
  <2>5. 1 \in 1..(n + 1)
    BY <1>3
  <2>6. short[1] = whole[1] /\ Len(short) = max
    BY <1>3, <1>4, <2>3, <2>4, <2>5
  <2>. HIDE DEF short
  <2>7. InstanceKey(dir, model, max) = [text |-> short, of |-> whole]
    BY <1>5, <1>7
  <2>8. max <= max
    OBVIOUS
  <2>. QED
    BY <2>4, <2>6, <2>7, <2>8
<1>. QED
  BY <1>6, <1>7

-----------------------------------------------------------------------------
LEMMA TwoMore ==
  ASSUME NEW s \in Seq(Char), NEW x \in Char, NEW y \in Char
  PROVE  LET t == s \o <<x, y>> IN
         /\ t \in Seq(Char) /\ Len(t) = Len(s) + 2
         /\ t[Len(s) + 1] = x /\ t[Len(s) + 2] = y
         /\ \A k \in 1..Len(s) : t[k] = s[k]
<1>. DEFINE two == <<x, y>>
<1>1. two \in Seq(Char) /\ Len(two) = 2 /\ two[1] = x /\ two[2] = y
  OBVIOUS
<1>. HIDE DEF two
<1>2. /\ s \o two \in Seq(Char) /\ Len(s \o two) = Len(s) + Len(two)
      /\ \A k \in 1..Len(s) : (s \o two)[k] = s[k]
      /\ \A k \in 1..Len(two) : (s \o two)[Len(s) + k] = two[k]
  BY <1>1, Concatenated, Zenon
<1>3. 1 \in 1..Len(two) /\ 2 \in 1..Len(two)
  BY <1>1
<1>. QED
  BY <1>1, <1>2, <1>3 DEF two

LEMMA DigitsAreChars ==
  ASSUME NEW s \in Seq(Digit)
  PROVE  /\ s \in Seq(Char) /\ Len(s) \in Nat
         /\ \A k \in 1..Len(s) : s[k] \in Digit /\ s[k] # "-" /\ s[k] # "p" /\ s[k] # "t"
<1>1. /\ Len(s) \in Nat /\ s = [i \in 1..Len(s) |-> s[i]]
      /\ \A i \in 1..Len(s) : s[i] \in Digit
  OBVIOUS
<1>2. \A c \in Digit : c \in Char /\ c # "-" /\ c # "p" /\ c # "t"
  BY LaunchAssumption DEF Char
<1>. QED
  BY <1>1, <1>2

\* Where the parts of a unit's name are.
Named(name, key, o) ==
    /\ name \in Seq(Char) /\ Len(name) = Len(key) + Len(o[1]) + Len(o[2]) + 4
    /\ name[Len(key) + 1] = "-" /\ name[Len(key) + 2] = "p"
    /\ \A k \in 1..Len(o[1]) : name[Len(key) + 2 + k] = o[1][k]
    /\ name[Len(key) + Len(o[1]) + 3] = "-" /\ name[Len(key) + Len(o[1]) + 4] = "t"
    /\ \A k \in 1..Len(o[2]) : name[Len(key) + Len(o[1]) + 4 + k] = o[2][k]

LEMMA UnitIsNamed ==
  ASSUME NEW key \in Seq(Char), NEW o \in Seq(Digit) \X Seq(Digit)
  PROVE  Named(UnitName(key, o), key, o)
<1>. DEFINE n == Len(key)
            a == Len(o[1])
            b == Len(o[2])
            s1 == key \o <<"-", "p">>
            s2 == s1 \o o[1]
            s3 == s2 \o <<"-", "t">>
            s4 == s3 \o o[2]
<1>1. "-" \in Char /\ "p" \in Char /\ "t" \in Char
  BY DEF Char
<1>2. o[1] \in Seq(Char) /\ o[2] \in Seq(Char) /\ a \in Nat /\ b \in Nat /\ n \in Nat
  <2>1. o[1] \in Seq(Digit) /\ o[2] \in Seq(Digit)
    OBVIOUS
  <2>. QED
    BY <2>1, DigitsAreChars
<1>3. UnitName(key, o) = s4
  BY DEF UnitName
<1>4. /\ s1 \in Seq(Char) /\ Len(s1) = n + 2 /\ s1[n + 1] = "-" /\ s1[n + 2] = "p"
  BY <1>1, TwoMore
<1>. HIDE DEF s1
<1>5. /\ s2 \in Seq(Char) /\ Len(s2) = n + 2 + a
      /\ (\A k \in 1..Len(s1) : s2[k] = s1[k]) /\ \A k \in 1..a : s2[n + 2 + k] = o[1][k]
  <2>1. /\ s2 \in Seq(Char) /\ Len(s2) = Len(s1) + Len(o[1])
        /\ \A k \in 1..Len(s1) : s2[k] = s1[k]
        /\ \A k \in 1..Len(o[1]) : s2[Len(s1) + k] = o[1][k]
    BY <1>2, <1>4, Concatenated, Zenon
  <2>. QED
    BY <1>4, <2>1
<1>. HIDE DEF s2
<1>6. /\ s3 \in Seq(Char) /\ Len(s3) = Len(s2) + 2
      /\ s3[Len(s2) + 1] = "-" /\ s3[Len(s2) + 2] = "t"
      /\ \A k \in 1..Len(s2) : s3[k] = s2[k]
  BY <1>1, <1>5, TwoMore
<1>. HIDE DEF s3
<1>7. /\ s4 \in Seq(Char) /\ Len(s4) = Len(s3) + Len(o[2])
      /\ \A k \in 1..Len(s3) : s4[k] = s3[k]
      /\ \A k \in 1..Len(o[2]) : s4[Len(s3) + k] = o[2][k]
  BY <1>2, <1>6, Concatenated, Zenon
<1>. HIDE DEF s4, n, a, b
<1>8. Len(s2) = n + 2 + a /\ Len(s3) = n + a + 4 /\ Len(s4) = n + a + b + 4
  BY <1>2, <1>5, <1>6, <1>7 DEF b
<1>9. \A k \in 1..(n + 2 + a) : s4[k] = s2[k]
  <2>1. \A k \in 1..(n + 2 + a) : k \in 1..(n + a + 4)
    BY <1>2
  <2>. QED
    BY <1>6, <1>7, <1>8, <2>1
<1>10. s4[n + 1] = "-" /\ s4[n + 2] = "p"
  <2>1. n + 1 \in 1..(n + 2) /\ n + 2 \in 1..(n + 2) /\ n + 1 \in 1..(n + 2 + a) /\ n + 2 \in 1..(n + 2 + a)
    BY <1>2
  <2>. QED
    BY <1>4, <1>5, <1>9, <2>1
<1>11. \A k \in 1..a : s4[n + 2 + k] = o[1][k]
  <2>1. \A k \in 1..a : n + 2 + k \in 1..(n + 2 + a)
    BY <1>2
  <2>. QED
    BY <1>5, <1>9, <2>1
<1>12. s4[n + a + 3] = "-" /\ s4[n + a + 4] = "t"
  <2>1. n + a + 3 \in 1..(n + a + 4) /\ n + a + 4 \in 1..(n + a + 4)
        /\ n + 2 + a + 1 = n + a + 3 /\ n + 2 + a + 2 = n + a + 4
    BY <1>2
  <2>. QED
    BY <1>6, <1>7, <1>8, <2>1, SMTT(30)
<1>13. \A k \in 1..b : s4[n + a + 4 + k] = o[2][k]
  BY <1>7, <1>8 DEF b
<1>. QED
  BY <1>3, <1>7, <1>8, <1>10, <1>11, <1>12, <1>13 DEF Named, n, a, b

\* The last place of a kind.
LEMMA LastIs ==
  ASSUME NEW S, NEW m \in S, S \subseteq Int, \A x \in S : x <= m
  PROVE  Max(S) = m
<1>1. \A x \in S : m >= x
  OBVIOUS
<1>2. Max(S) \in S /\ \A y \in S : Max(S) >= y
  BY <1>1, Zenon DEF Max
<1>3. Max(S) \in Int /\ m \in Int /\ Max(S) >= m /\ Max(S) <= m
  BY <1>2
<1>. QED
  BY <1>3

\* The owner at the end of a name is read back (systemd.rs, unit_owner).
LEMMA NamedOwnerIsRead ==
  ASSUME NEW key \in Seq(Char), NEW o \in (Seq(Digit) \ {<<>>}) \X (Seq(Digit) \ {<<>>}),
         NEW name, Named(name, key, o)
  PROVE  UnitOwner(name) = o
<1>. DEFINE n == Len(key)
            a == Len(o[1])
            b == Len(o[2])
            t == n + a + 3
            q == n + 1
            ts == Marks(name, "t")
            rest == SubSeq(name, 1, t - 1)
            ps == Marks(rest, "p")
            pid == SubSeq(rest, q + 2, Len(rest))
            start == SubSeq(name, t + 2, Len(name))
<1>1. /\ o[1] \in Seq(Digit) /\ o[2] \in Seq(Digit) /\ o[1] # <<>> /\ o[2] # <<>> /\ o = <<o[1], o[2]>>
      /\ n \in Nat
  OBVIOUS
<1>2. /\ o[1] \in Seq(Char) /\ o[2] \in Seq(Char) /\ a \in Nat /\ b \in Nat
      /\ \A k \in 1..a : o[1][k] \in Digit /\ o[1][k] # "-" /\ o[1][k] # "p" /\ o[1][k] # "t"
      /\ \A k \in 1..b : o[2][k] \in Digit /\ o[2][k] # "-" /\ o[2][k] # "p" /\ o[2][k] # "t"
  BY <1>1, DigitsAreChars
<1>3. /\ name \in Seq(Char) /\ Len(name) = n + a + b + 4
      /\ name[q] = "-" /\ name[q + 1] = "p"
      /\ \A k \in 1..a : name[n + 2 + k] = o[1][k]
      /\ name[t] = "-" /\ name[t + 1] = "t"
      /\ \A k \in 1..b : name[n + a + 4 + k] = o[2][k]
  <2>1. q + 1 = n + 2 /\ t + 1 = n + a + 4
    BY <1>1, <1>2
  <2>. QED
    BY <2>1 DEF Named
<1>. HIDE DEF n, a, b
<1>4. \A i \in (t + 1)..(Len(name) - 1) : name[i] # "-"
  <2>1. ASSUME NEW i \in (t + 1)..(Len(name) - 1)
        PROVE  name[i] # "-"
    <3>1. CASE i = t + 1
      BY <1>3, <3>1
    <3>2. CASE i # t + 1
      <4>1. i - (n + a + 4) \in 1..b /\ n + a + 4 + (i - (n + a + 4)) = i
        BY <1>1, <1>2, <1>3, <3>2
      <4>. QED
        BY <1>2, <1>3, <4>1, SMTT(30)
    <3>. QED
      BY <3>1, <3>2
  <2>. QED
    BY <2>1
<1>5. t \in ts /\ ts \subseteq Int /\ \A x \in ts : x <= t
  <2>1. t \in 1..(Len(name) - 1)
    <3>1. b >= 1
      BY <1>1, <1>2, EmptySeq DEF b
    <3>. QED
      BY <1>1, <1>2, <1>3, <3>1
  <2>2. \A x \in 1..(Len(name) - 1) : name[x] = "-" => x <= t
    <3>1. \A x \in 1..(Len(name) - 1) : ~(x <= t) => x \in (t + 1)..(Len(name) - 1)
      BY <1>1, <1>2, <1>3
    <3>. QED
      BY <1>4, <3>1
  <2>. QED
    BY <1>3, <2>1, <2>2 DEF Marks
<1>6. Max(ts) = t
  BY <1>5, LastIs
<1>7. /\ rest \in Seq(Char) /\ Len(rest) = n + a + 2
      /\ \A i \in 1..(n + a + 2) : rest[i] = name[i]
  <2>1. t - 1 = n + a + 2 /\ n + a + 2 \in Nat /\ n + a + 2 <= Len(name) /\ t - 1 \in Int
    BY <1>1, <1>2, <1>3
  <2>. QED
    BY <1>3, <2>1
<1>. HIDE DEF rest
<1>8. q \in ps /\ ps \subseteq Int /\ \A x \in ps : x <= q
  <2>1. a >= 1
    BY <1>1, <1>2, EmptySeq DEF a
  <2>2. q \in 1..(Len(rest) - 1) /\ q \in 1..(n + a + 2) /\ q + 1 \in 1..(n + a + 2)
    BY <1>1, <1>2, <1>7, <2>1
  <2>3. q \in ps
    BY <1>3, <1>7, <2>2 DEF Marks
  <2>4. ASSUME NEW x \in 1..(Len(rest) - 1), rest[x] = "-"
        PROVE  x <= q
    <3>1. x \in 1..(n + a + 2) /\ x \in Int
      BY <1>1, <1>2, <1>7
    <3>2. name[x] = "-"
      BY <1>7, <2>4, <3>1
    <3>3. CASE x = n + 2
      <4>1. q + 1 = n + 2
        BY <1>1
      <4>. QED
        BY <1>3, <3>2, <3>3, <4>1
    <3>4. CASE x # n + 2 /\ x > q
      <4>1. x - (n + 2) \in 1..a /\ n + 2 + (x - (n + 2)) = x
        BY <1>1, <1>2, <3>1, <3>4
      <4>2. name[x] = o[1][x - (n + 2)]
        BY <1>3, <4>1
      <4>. QED
        BY <1>2, <3>2, <4>1, <4>2
    <3>. QED
      BY <1>1, <3>1, <3>3, <3>4
  <2>. QED
    BY <2>3, <2>4 DEF Marks
<1>9. Max(ps) = q
  BY <1>8, LastIs
<1>10. pid = o[1]
  <2>1. q + 2 \in Int /\ q + 2 = n + 3 /\ q + 2 >= 1
    BY <1>1
  <2>2. pid \in Seq(Char) /\ Len(pid) = a /\ \A k \in 1..a : pid[k] = rest[n + 2 + k]
    BY <1>1, <1>2, <1>7, <2>1
  <2>3. \A k \in 1..a : rest[n + 2 + k] = o[1][k]
    <3>1. \A k \in 1..a : n + 2 + k \in 1..(n + a + 2)
      BY <1>1, <1>2
    <3>. QED
      BY <1>3, <1>7, <3>1
  <2>. HIDE DEF pid
  <2>4. Len(pid) = Len(o[1]) /\ \A k \in 1..Len(pid) : pid[k] = o[1][k]
    BY <2>2, <2>3 DEF a
  <2>. QED
    BY <1>2, <2>2, <2>4, SeqEqual
<1>11. start = o[2]
  <2>1. t + 2 \in Int /\ t + 2 = n + a + 5 /\ t + 2 >= 1
    BY <1>1, <1>2
  <2>2. start \in Seq(Char) /\ Len(start) = b /\ \A k \in 1..b : start[k] = name[n + a + 4 + k]
    BY <1>1, <1>2, <1>3, <2>1
  <2>. HIDE DEF start
  <2>3. Len(start) = Len(o[2]) /\ \A k \in 1..Len(start) : start[k] = o[2][k]
    BY <1>3, <2>2 DEF b
  <2>. QED
    BY <1>2, <2>2, <2>3, SeqEqual
<1>12. IsNumber(o[1]) /\ IsNumber(o[2])
  <2>1. DOMAIN o[1] = 1..a /\ DOMAIN o[2] = 1..b
    BY <1>1 DEF a, b
  <2>. QED
    BY <1>1, <1>2, <2>1 DEF IsNumber
<1>13. ts # {} /\ ps # {}
  BY <1>5, <1>8
<1>. HIDE DEF ts, ps, t, q, pid, start
<1>14. UnitOwner(name) = IF IsNumber(pid) /\ IsNumber(start) THEN <<pid, start>> ELSE <<>>
  <2>1. UnitOwner(name) =
          IF ps = {} THEN <<>> ELSE IF IsNumber(pid) /\ IsNumber(start) THEN <<pid, start>> ELSE <<>>
    BY <1>6, <1>9, <1>13, Zenon DEF UnitOwner, ts, ps, rest, pid, start
  <2>. QED
    BY <1>13, <2>1
<1>. QED
  BY <1>1, <1>10, <1>11, <1>12, <1>14

\* A name that ends in a pid alone ends in no owner: the mark of a start time is in what the
\* user named, and what follows it is no number (unit_owner).
LEMMA OldNameHasNoOwner ==
  ASSUME NEW key \in Seq(Char), NEW o \in (Seq(Digit) \ {<<>>}) \X (Seq(Digit) \ {<<>>})
  PROVE  UnitOwner(OldUnitName(key, o)) = <<>>
<1>. DEFINE n == Len(key)
            a == Len(o[1])
            head == key \o <<"-">>
            name == OldUnitName(key, o)
            ts == Marks(name, "t")
            t == Max(ts)
            start == SubSeq(name, t + 2, Len(name))
<1>1. /\ o[1] \in Seq(Char) /\ a \in Nat /\ n \in Nat /\ a >= 1
      /\ \A k \in 1..a : o[1][k] \in Digit /\ o[1][k] # "-" /\ o[1][k] # "p" /\ o[1][k] # "t"
  <2>1. o[1] \in Seq(Digit) /\ o[1] # <<>>
    OBVIOUS
  <2>2. /\ o[1] \in Seq(Char) /\ a \in Nat
        /\ \A k \in 1..a : o[1][k] \in Digit /\ o[1][k] # "-" /\ o[1][k] # "p" /\ o[1][k] # "t"
    BY <2>1, DigitsAreChars
  <2>3. a # 0
    BY <2>1, EmptySeq
  <2>. QED
    BY <2>2, <2>3
<1>2. <<"-">> \in Seq(Char) /\ Len(<<"-">>) = 1 /\ <<"-">>[1] = "-"
  <2>1. "-" \in Char
    BY DEF Char
  <2>. QED
    BY <2>1
<1>3. head \in Seq(Char) /\ Len(head) = n + 1 /\ head[n + 1] = "-"
  <2>1. /\ head \in Seq(Char) /\ Len(head) = n + Len(<<"-">>)
        /\ \A k \in 1..Len(<<"-">>) : head[n + k] = <<"-">>[k]
    BY <1>2, Concatenated, Zenon
  <2>2. 1 \in 1..Len(<<"-">>)
    BY <1>2
  <2>. QED
    BY <1>2, <2>1, <2>2
<1>. HIDE DEF head
<1>4. /\ name \in Seq(Char) /\ Len(name) = n + 1 + a /\ name[n + 1] = "-"
      /\ \A k \in 1..a : name[n + 1 + k] = o[1][k]
  <2>1. name = head \o o[1]
    BY DEF OldUnitName, head
  <2>2. LET all == head \o o[1] IN
        /\ all \in Seq(Char) /\ Len(all) = Len(head) + Len(o[1])
        /\ \A k \in 1..Len(head) : all[k] = head[k]
        /\ \A k \in 1..Len(o[1]) : all[Len(head) + k] = o[1][k]
    BY <1>1, <1>3, Concatenated, Zenon
  <2>3. n + 1 \in 1..Len(head)
    BY <1>1, <1>3
  <2>. QED
    BY <1>3, <2>1, <2>2, <2>3
<1>. HIDE DEF name, n, a
<1>5. CASE ts = {}
  BY <1>5, Zenon DEF UnitOwner, name
<1>6. CASE ts # {}
  <2>1. ts \subseteq 1..(Len(name) - 1)
    BY DEF Marks
  <2>2. t \in ts
    <3>1. \E x \in ts : \A y \in ts : x >= y
      <4>. DEFINE T == {Len(name) - x : x \in ts}
      <4>1. Len(name) \in Nat
        BY <1>1, <1>4
      <4>2. T \subseteq Nat /\ T # {}
        BY <1>6, <2>1, <4>1
      <4>3. PICK i \in T : \A j \in T : i <= j
        <5>. HIDE DEF T
        <5>. QED
          BY <4>2, SomeIsLeast, Zenon
      <4>4. PICK x \in ts : i = Len(name) - x
        OBVIOUS
      <4>5. ASSUME NEW y \in ts
            PROVE  x >= y
        <5>1. Len(name) - y \in T
          OBVIOUS
        <5>2. Len(name) - x <= Len(name) - y
          BY <4>3, <4>4, <5>1
        <5>3. x \in Int /\ y \in Int
          BY <2>1
        <5>. QED
          BY <4>1, <5>2, <5>3
      <4>. QED
        BY <4>5
    <3>. QED
      BY <3>1, Zenon DEF Max
  <2>3. t \in 1..(n + a) /\ name[t] = "-" /\ name[t + 1] = "t"
    <3>1. \A x \in ts : x \in 1..(Len(name) - 1) /\ name[x] = "-" /\ name[x + 1] = "t"
      BY DEF Marks
    <3>. QED
      BY <1>1, <1>4, <2>2, <3>1
  <2>. HIDE DEF t
  <2>4. t < n
    <3>1. CASE t > n + 1
      <4>1. t - (n + 1) \in 1..a /\ n + 1 + (t - (n + 1)) = t
        BY <1>1, <2>3, <3>1
      <4>. QED
        BY <1>1, <1>4, <2>3, <4>1, ZenonT(60)
    <3>2. CASE t = n + 1
      <4>1. 1 \in 1..a /\ t + 1 = n + 1 + 1
        BY <1>1, <3>2
      <4>. QED
        BY <1>1, <1>4, <2>3, <4>1
    <3>3. CASE t = n
      BY <1>4, <2>3, <3>3
    <3>. QED
      BY <1>1, <2>3, <3>1, <3>2, <3>3
  <2>5. ~IsNumber(start)
    <3>. DEFINE k == n - t
    <3>1. k \in 1..(Len(name) - (t + 2) + 1) /\ t + 2 + k - 1 = n + 1 /\ t + 2 \in 1..(Len(name) + 1)
      BY <1>1, <1>4, <2>3, <2>4
    <3>2. start[k] = name[n + 1] /\ k \in DOMAIN start
      BY <1>1, <1>4, <2>3, <3>1
    <3>3. "-" \notin Digit
      BY LaunchAssumption
    <3>. HIDE DEF k, start
    <3>. QED
      BY <1>4, <3>2, <3>3 DEF IsNumber
  <2>. HIDE DEF ts, start
  <2>6. UnitOwner(name) =
          LET rest == SubSeq(name, 1, t - 1)
              ps == Marks(rest, "p")
              pid == SubSeq(rest, Max(ps) + 2, Len(rest)) IN
          IF ps = {} THEN <<>> ELSE IF IsNumber(pid) /\ IsNumber(start) THEN <<pid, start>> ELSE <<>>
    BY <1>6, Zenon DEF UnitOwner, ts, t, start
  <2>7. UnitOwner(name) = <<>>
    BY <2>5, <2>6, Zenon
  <2>. QED
    BY <2>7 DEF name
<1>. QED
  BY <1>5, <1>6

-----------------------------------------------------------------------------
\* A start, of what may be started and by whom, is fitted to its machine.
FittedStart(s, l) ==
    ~s.refused =>
        /\ UnitOwner(s.unit) = owner /\ UnitOwner(OldUnitName(s.key.text, owner)) = <<>>
        /\ LET told == {s.env.socket, s.env.cache, s.env.cuda} IN
           /\ \A p \in told : \E d \in s.linux.writable : Within(p, d)
           /\ \A p \in told \union {s.env.tmp} : \E d \in s.macos : Within(p, d)
           /\ \A enforced \in BOOLEAN :
                 MayOpen(s.linux, enforced) = IF l.gpu THEN GpuNodes ELSE {}
        /\ Len(s.env.socket) + 1 <= SUN_PATH_MAX
        /\ s.key.of # <<>> => Len(s.key.text) >= MIN_INSTANCE_KEY /\ s.key.text[1] = s.key.of[1]

LEMMA StartIsFitted ==
  ASSUME NEW l \in Launches, owner \in Owners
  PROVE  FittedStart(StartWith(l), l)
<1>. DEFINE s == StartWith(l)
            max == MaxInstanceKey(l.socketDir)
            key == InstanceKey(l.dir, l.model, max)
            cache == BackendCacheDir(l)
            sock == key.text \o SockSuffix
            tmp == key.text \o <<".", "t", "m", "p">>
<1>1. /\ l.dir \in Seq(STRING) /\ l.model \in Seq(STRING) /\ l.gpu \in BOOLEAN
      /\ l.socketDir \in Seq(STRING) /\ l.cacheRoot \in Seq(STRING)
  BY LaunchAssumption
<1>2. owner \in (Seq(Digit) \ {<<>>}) \X (Seq(Digit) \ {<<>>})
  BY LaunchAssumption
<1>3. l.socketDir \in Seq(Char) /\ l.cacheRoot \in Seq(Char) /\ Sanitize(l.dir) \in Seq(Char)
  BY <1>1, CharsOfPaths, Sanitized
<1>4. /\ SockSuffix \in Seq(Char) /\ Len(SockSuffix) = 5
      /\ <<".", "t", "m", "p">> \in Seq(Char) /\ <<"n", "v">> \in Seq(Char)
  <2>1. /\ "." \in Char /\ "s" \in Char /\ "o" \in Char /\ "c" \in Char /\ "k" \in Char
        /\ "t" \in Char /\ "m" \in Char /\ "p" \in Char /\ "n" \in Char /\ "v" \in Char
    BY DEF Char
  <2>. QED
    BY <2>1 DEF SockSuffix
<1>5. /\ max # 0 => max \in Nat /\ max >= MIN_INSTANCE_KEY
                    /\ max <= SUN_PATH_MAX - (Len(l.socketDir) + 1 + 5 + 1)
  <2>1. Len(l.socketDir) \in Nat /\ SUN_PATH_MAX \in Nat /\ DIGEST_LEN \in Nat /\ MAX_INSTANCE_KEY \in Nat
        /\ MAX_INSTANCE_KEY >= DIGEST_LEN + 2
    BY <1>1, LaunchAssumption
  <2>. DEFINE budget == SUN_PATH_MAX - (Len(l.socketDir) + 1 + 5 + 1)
  <2>2. budget \in Int
    BY <2>1
  <2>3. max = IF budget < MIN_INSTANCE_KEY THEN 0 ELSE IF budget < MAX_INSTANCE_KEY THEN budget ELSE MAX_INSTANCE_KEY
    BY <1>4 DEF MaxInstanceKey
  <2>4. MIN_INSTANCE_KEY = DIGEST_LEN + 2
    BY DEF MIN_INSTANCE_KEY
  <2>. HIDE DEF budget, max
  <2>5. max # 0 => max \in Nat /\ max >= MIN_INSTANCE_KEY /\ max <= budget
    BY <2>1, <2>2, <2>3, <2>4
  <2>. QED
    BY <2>5 DEF budget
<1>6. CASE max = 0
  <2>1. s.refused
    BY <1>6 DEF StartWith
  <2>. QED
    BY <2>1 DEF FittedStart
<1>7. CASE max # 0
  <2>1. s = [refused |-> FALSE, key |-> key, unit |-> UnitName(key.text, owner),
             env |-> BackendEnv(l, key), linux |-> HardeningParams(l), macos |-> Profile(l)]
    BY <1>7, Zenon DEF StartWith
  <2>2. /\ key.text \in Seq(Char) /\ Len(key.text) <= max
        /\ key.of # <<>> => Len(key.text) >= MIN_INSTANCE_KEY /\ key.text[1] = key.of[1]
    BY <1>1, <1>5, <1>7, KeyFits
  <2>. HIDE DEF s, key, max
  <2>3. UnitOwner(s.unit) = owner /\ UnitOwner(OldUnitName(s.key.text, owner)) = <<>>
    <3>1. owner \in Seq(Digit) \X Seq(Digit)
      BY <1>2
    <3>2. Named(UnitName(key.text, owner), key.text, owner)
      BY <2>2, <3>1, UnitIsNamed
    <3>3. UnitOwner(UnitName(key.text, owner)) = owner
      BY <1>2, <2>2, <3>2, NamedOwnerIsRead
    <3>4. UnitOwner(OldUnitName(key.text, owner)) = <<>>
      BY <1>2, <2>2, OldNameHasNoOwner
    <3>. QED
      BY <2>1, <3>3, <3>4
  <2>4. cache \in Seq(Char) /\ sock \in Seq(Char) /\ tmp \in Seq(Char) /\ Len(sock) = Len(key.text) + 5
    <3>1. cache \in Seq(Char)
      BY <1>3, JoinedIsWithin DEF BackendCacheDir
    <3>2. /\ sock \in Seq(Char) /\ Len(sock) = Len(key.text) + Len(SockSuffix)
          /\ tmp \in Seq(Char)
      BY <1>4, <2>2, Concatenated, Zenon
    <3>. QED
      BY <1>4, <3>1, <3>2
  <2>5. s.env.socket = Join(l.socketDir, sock) /\ s.env.cache = cache
        /\ s.env.cuda = Join(cache, <<"n", "v">>) /\ s.env.tmp = Join(l.socketDir, tmp)
    BY <2>1 DEF BackendEnv, SocketOf
  <2>6. s.linux.writable = {l.socketDir, cache} /\ s.macos = {l.socketDir, cache}
    <3>1. LiteralRead(SbplEscape(l.socketDir)) = l.socketDir /\ LiteralRead(SbplEscape(cache)) = cache
      BY <1>3, <2>4, EscapedReadsBack
    <3>. QED
      BY <2>1, <3>1 DEF HardeningParams, Profile
  <2>. HIDE DEF cache, sock, tmp
  <2>7. /\ Within(Join(l.socketDir, sock), l.socketDir) /\ Within(Join(l.socketDir, tmp), l.socketDir)
        /\ Within(Join(cache, <<"n", "v">>), cache) /\ Within(cache, cache)
    BY <1>3, <1>4, <2>4, JoinedIsWithin DEF Within
  <2>8. ASSUME NEW enforced \in BOOLEAN
        PROVE  MayOpen(s.linux, enforced) = IF l.gpu THEN GpuNodes ELSE {}
    <3>1. s.linux.privateDevices = ~l.gpu /\ s.linux.allowed = IF l.gpu THEN GpuDeviceNodes(dri) ELSE {}
      BY <2>1 DEF HardeningParams
    <3>2. GpuNodes \subseteq GpuDeviceNodes(dri)
      BY DEF GpuNodes, GpuDeviceNodes
    <3>. QED
      BY <1>1, <3>1, <3>2 DEF MayOpen
  <2>9. Len(s.env.socket) + 1 <= SUN_PATH_MAX
    <3>1. Len(s.env.socket) = Len(l.socketDir) + 1 + Len(sock)
      BY <1>3, <2>4, <2>5, JoinedIsWithin
    <3>2. Len(l.socketDir) \in Nat /\ Len(key.text) \in Nat /\ SUN_PATH_MAX \in Nat /\ max \in Nat
      BY <1>3, <1>5, <1>7, <2>2, LaunchAssumption, SMTT(30)
    <3>. DEFINE x == Len(s.env.socket)
                y == Len(l.socketDir)
                z == Len(key.text)
    <3>3. x = y + 1 + (z + 5) /\ z <= max /\ max <= SUN_PATH_MAX - (y + 1 + 5 + 1)
      BY <1>5, <1>7, <2>2, <2>4, <3>1
    <3>4. y \in Nat /\ z \in Nat
      BY <3>2
    <3>. HIDE DEF x, y, z
    <3>5. x + 1 <= SUN_PATH_MAX
      BY <3>2, <3>3, <3>4
    <3>. QED
      BY <3>5 DEF x
  <2>10. s.key = key
    BY <2>1
  <2>11. FittedStart(s, l)
    BY <2>2, <2>3, <2>5, <2>6, <2>7, <2>8, <2>9, <2>10 DEF FittedStart
  <2>. QED
    BY <2>11 DEF s
<1>. QED
  BY <1>6, <1>7

LaunchInv ==
    /\ what = "launch" => launches \in Launches \X Launches /\ owner \in Owners
    /\ what # "launch" => started = <<>>
    /\ \E n \in 0..2 : started = [i \in 1..n |-> StartWith(launches[i])]

LEMMA LaunchInvFits == LaunchInv => SandboxFits /\ SocketFits /\ OwnerReadBack
<1>1. SUFFICES ASSUME LaunchInv, NEW i \in Accepted
               PROVE  FittedStart(started[i], launches[i]) /\ ~started[i].refused
  BY DEF SandboxFits, SocketFits, OwnerReadBack, FittedStart
<1>2. i \in DOMAIN started /\ ~started[i].refused
  BY DEF Accepted
<1>3. what = "launch" /\ owner \in Owners /\ launches \in Launches \X Launches
  BY <1>1, <1>2 DEF LaunchInv
<1>4. i \in {1, 2} /\ started[i] = StartWith(launches[i])
  BY <1>1, <1>2 DEF LaunchInv
<1>5. launches[i] \in Launches
  BY <1>3, <1>4
<1>. QED
  BY <1>2, <1>3, <1>4, <1>5, StartIsFitted

LEMMA LaunchStarts == BackendsInit => LaunchInv
<1>1. SUFFICES ASSUME BackendsInit
               PROVE  LaunchInv
  OBVIOUS
<1>2. started = [i \in 1..0 |-> StartWith(launches[i])]
  BY <1>1 DEF BackendsInit, LaunchInit
<1>. QED
  BY <1>1, <1>2 DEF BackendsInit, LaunchInit, LaunchInv

LEMMA LaunchKept == LaunchInv /\ [BackendsNext]_backendVars => LaunchInv'
<1>1. SUFFICES ASSUME LaunchInv, [BackendsNext]_backendVars
               PROVE  LaunchInv'
  OBVIOUS
<1>2. what' = what /\ ((what = "launch" /\ LaunchNext) \/ UNCHANGED launchVars)
  BY <1>1 DEF BackendsNext, Is, backendVars, launchVars
<1>3. \A l : UNCHANGED <<owner, dri>> => StartWith(l)' = StartWith(l)
  BY DEF StartWith, HardeningParams
<1>4. PICK n \in 0..2 : started = [i \in 1..n |-> StartWith(launches[i])]
  BY <1>1 DEF LaunchInv
<1>5. CASE what = "launch" /\ LaunchNext
  <2>1. /\ launches' = launches /\ owner' = owner /\ dri' = dri
        /\ started' = Append(started, StartWith(launches[Len(started) + 1]))
        /\ Len(started) < Len(launches)
    BY <1>5 DEF LaunchNext, StartOne
  <2>2. Len(started) = n /\ Len(launches) = 2
    BY <1>1, <1>4, <1>5 DEF LaunchInv
  <2>3. n + 1 \in 0..2
    BY <2>1, <2>2
  <2>4. started' = [i \in 1..(n + 1) |-> StartWith(launches[i])]
    BY <1>4, <2>1, <2>2
  <2>5. \A l : StartWith(l)' = StartWith(l)
    BY <1>3, <2>1
  <2>6. started' = [i \in 1..(n + 1) |-> StartWith(launches[i])]'
    BY <2>1, <2>4, <2>5
  <2>. QED
    BY <1>1, <1>2, <1>5, <2>1, <2>3, <2>6 DEF LaunchInv
<1>6. CASE UNCHANGED launchVars
  BY <1>1, <1>2, <1>3, <1>4, <1>6 DEF LaunchInv, launchVars
<1>. QED
  BY <1>2, <1>5, <1>6

-----------------------------------------------------------------------------
\* The first of some places, or 0.
FirstOf(I) == IF I # {} THEN Min(I) ELSE 0

LEMMA FirstIsFirst ==
  ASSUME NEW I, I \subseteq Nat \ {0}
  PROVE  /\ I = {} => FirstOf(I) = 0
         /\ I # {} => FirstOf(I) # 0 /\ FirstOf(I) \in I /\ \A i \in I : FirstOf(I) <= i
<1>1. CASE I = {}
  BY <1>1 DEF FirstOf
<1>2. CASE I # {}
  <2>1. I \subseteq Nat
    OBVIOUS
  <2>2. \E i \in I : \A j \in I : i <= j
    BY <1>2, <2>1, SomeIsLeast
  <2>3. Min(I) \in I /\ \A j \in I : Min(I) <= j
    BY <2>2, Zenon DEF Min
  <2>. QED
    BY <1>2, <2>3 DEF FirstOf
<1>. QED
  BY <1>1, <1>2

\* A device that is offered is one the model declares and the host has (devices.rs).
LEMMA OfferedAreHonoured ==
  ASSUME host \subseteq Accelerators, installed \in Seq(Accelerators \union {"cpu", "wasm"}),
         declared \subseteq {"cpu", "gpu", "none"}
  PROVE  OfferedIsHonoured
<1>. DEFINE n == Len(installed)
            places(S) == {i \in 1..n : installed[i] \in S}
            rest == ToSet(installed) \ {"cpu"}
            runs == FirstOf(places(host))
            other == FirstOf(places(rest))
<1>1. SUFFICES ASSUME "wasm" \notin ToSet(installed), NEW d \in ModelAvailableDevices
               PROVE  /\ ~DeviceRejected(d)
                      /\ ResolveAccel(d) # "" => PreferenceAxis(ResolveAccel(d)) = d
                      /\ d = "gpu" /\ ToSet(installed) # {} => ResolveAccel(d) # ""
                      /\ d = "gpu" /\ ToSet(installed) \intersect host # {} => ResolveAccel(d) \in host
  <2>1. ASSUME NEW d \in ModelAvailableDevices, PreferenceAxis(ResolveAccel(d)) = d
        PROVE  preferred = d /\ actual \in {ResolveAccel(d)} \ {""} => SwitchIsSatisfied(d)
    BY <2>1 DEF SwitchIsSatisfied
  <2>. QED
    BY <1>1, <2>1 DEF OfferedIsHonoured
<1>2. d \in declared /\ "none" \notin declared /\ d \in {"cpu", "gpu"}
  BY DEF ModelAvailableDevices, HostAvailableDevices
<1>3. ~DeviceRejected(d)
  BY <1>2 DEF DeviceRejected
<1>4. n \in Nat /\ \A i \in 1..n : installed[i] \in Accelerators \union {"cpu", "wasm"} /\ installed[i] \in ToSet(installed)
  BY DEF ToSet
<1>5. \A S : places(S) \subseteq Nat \ {0}
  BY <1>4
<1>6. \A a \in ToSet(installed) : \E i \in 1..n : installed[i] = a
  BY DEF ToSet
<1>7. ResolveAccel(d) = IF d = "cpu" THEN "cpu" ELSE IF runs # 0 THEN installed[runs]
                        ELSE IF other # 0 THEN installed[other] ELSE ""
  BY Zenon DEF ResolveAccel, SelectInSeq, FirstOf
<1>8. CASE d = "cpu"
  <2>1. ResolveAccel(d) = "cpu"
    BY <1>7, <1>8
  <2>. QED
    BY <1>3, <1>8, <2>1 DEF PreferenceAxis, Accelerators
<1>9. CASE d = "gpu"
  <2>1. runs # 0 => runs \in places(host)
    BY <1>5, FirstIsFirst
  <2>2. runs = 0 => places(host) = {}
    BY <1>5, FirstIsFirst
  <2>3. other # 0 => other \in places(rest)
    BY <1>5, FirstIsFirst
  <2>4. other = 0 => places(rest) = {}
    BY <1>5, FirstIsFirst
  <2>. HIDE DEF runs, other
  <2>5. \A a \in Accelerators : a # "" /\ PreferenceAxis(a) = "gpu"
    BY DEF Accelerators, PreferenceAxis
  <2>6. CASE runs # 0
    <3>1. ResolveAccel(d) \in host
      BY <1>7, <1>9, <2>1, <2>6
    <3>. QED
      BY <1>3, <1>9, <2>5, <3>1
  <2>7. CASE runs = 0
    <3>1. ToSet(installed) \intersect host = {}
      BY <1>6, <2>2, <2>7
    <3>2. CASE other # 0
      <4>1. ResolveAccel(d) = installed[other] /\ installed[other] \in rest
        BY <1>7, <1>9, <2>3, <2>7, <3>2
      <4>2. installed[other] \in Accelerators
        <5>1. installed[other] \in Accelerators \union {"cpu", "wasm"}
          BY <1>4, <2>3, <3>2
        <5>. QED
          BY <1>1, <4>1, <5>1
      <4>. QED
        BY <1>3, <1>9, <2>5, <3>1, <4>1, <4>2
    <3>3. CASE other = 0
      <4>1. ResolveAccel(d) = ""
        BY <1>7, <1>9, <2>7, <3>3
      <4>2. rest = {}
        BY <1>6, <2>4, <3>3
      <4>3. ToSet(installed) = {}
        <5>1. LET accels == ToSet(installed) \ {"wasm"} IN accels = {} \/ accels # {"cpu"}
          BY <1>9, Zenon DEF ModelAvailableDevices
        <5>2. ToSet(installed) \ {"wasm"} = ToSet(installed)
          BY <1>1
        <5>3. ToSet(installed) = {} \/ ToSet(installed) # {"cpu"}
          BY <5>1, <5>2
        <5>. QED
          BY <4>2, <5>3
      <4>. QED
        BY <1>3, <3>1, <4>1, <4>3
    <3>. QED
      BY <3>2, <3>3
  <2>. QED
    BY <2>6, <2>7
<1>. QED
  BY <1>2, <1>8, <1>9

-----------------------------------------------------------------------------
Same(a, b) == a = b \/ \E p \in EquivalentBases : {p[1], p[2]} = {a, b}
Serves(s, tag) == Same(s[1], tag[1]) /\ (Tail(s) = Tail(tag) \/ (Len(tag) > 1 /\ Len(s) = 1))

LEMMA SetInSequence ==
  ASSUME NEW S, IsFiniteSet(S)
  PROVE  /\ SetToSeq(S) \in Seq(S)
         /\ \A x \in S : \E i \in 1..Len(SetToSeq(S)) : SetToSeq(S)[i] = x
<1>. DEFINE n == Cardinality(S)
            f == SetToSeq(S)
<1>1. n \in Nat /\ \E g : g \in Bijection(1..n, S)
  BY FS_CardinalityType DEF ExistsBijection
<1>2. \E g \in [1..n -> S] : IsInjective(g)
  BY <1>1, Zenon DEF Bijection, Injection, IsInjective
<1>3. f \in [1..n -> S] /\ IsInjective(f)
  BY <1>2, Zenon DEF SetToSeq
<1>. HIDE DEF f
<1>4. f \in Injection(1..n, S)
  BY <1>3 DEF Injection, IsInjective
<1>5. IsFiniteSet(1..n) /\ Cardinality(1..n) = n
  BY <1>1, FS_Interval
<1>6. f \in Surjection(1..n, S)
  BY <1>4, <1>5, FS_Injection
<1>7. f \in Seq(S) /\ Len(f) = n
  BY <1>1, <1>3
<1>8. \A x \in S : \E i \in 1..n : f[i] = x
  BY <1>6 DEF Surjection
<1>. QED
  BY <1>7, <1>8 DEF f

LEMMA OneBefore ==
  ASSUME NEW S, NEW x \in S, NEW s \in Seq(S)
  PROVE  /\ <<x>> \o s \in Seq(S) /\ Len(<<x>> \o s) = Len(s) + 1 /\ (<<x>> \o s)[1] = x
         /\ \A i \in 1..Len(s) : (<<x>> \o s)[i + 1] = s[i]
<1>. DEFINE one == <<x>>
            all == one \o s
<1>1. one \in Seq(S) /\ Len(one) = 1 /\ one[1] = x
  OBVIOUS
<1>. HIDE DEF one
<1>2. /\ all \in Seq(S) /\ Len(all) = Len(one) + Len(s) /\ Len(s) \in Nat
      /\ \A k \in 1..Len(one) : all[k] = one[k]
      /\ \A k \in 1..Len(s) : all[Len(one) + k] = s[k]
  BY <1>1, ConcatenatedIn
<1>. HIDE DEF all
<1>3. 1 \in 1..Len(one) /\ Len(all) = Len(s) + 1 /\ \A k \in 1..Len(s) : Len(one) + k = k + 1
  BY <1>1, <1>2
<1>4. /\ all \in Seq(S) /\ Len(all) = Len(s) + 1 /\ all[1] = x
      /\ \A i \in 1..Len(s) : all[i + 1] = s[i]
  BY <1>1, <1>2, <1>3
<1>. QED
  BY <1>4 DEF all, one

\* A base is a text like any other.
Subtag == STRING

\* The spellings of a base are it and what is equivalent to it, and it comes first.
LEMMA SpellingsOfBase ==
  ASSUME NEW b \in Subtag
  PROVE  LET s == BaseSpellings(b) IN
         /\ s \in Seq(Subtag) /\ 1 \in 1..Len(s) /\ s[1] = b
         /\ \A i \in 1..Len(s) : Same(s[i], b)
         /\ \A x : Same(x, b) => \E i \in 1..Len(s) : s[i] = x
<1>. DEFINE from == {q \in EquivalentBases : b \in {q[1], q[2]}}
            E == {IF p[1] = b THEN p[2] ELSE p[1] : p \in from}
            rest == SetToSeq(E)
            s == BaseSpellings(b)
<1>1. IsFiniteSet(EquivalentBases) /\ \A p \in EquivalentBases : p[1] \in Subtag /\ p[2] \in Subtag
  BY SettingsAssumption DEF Subtag
<1>2. IsFiniteSet(from)
  BY <1>1, FS_Subset
<1>3. IsFiniteSet(E)
  <2>. DEFINE g == [p \in from |-> IF p[1] = b THEN p[2] ELSE p[1]]
  <2>1. g \in Surjection(from, E)
    BY DEF Surjection
  <2>. HIDE DEF g
  <2>. QED
    BY <1>2, <2>1, FS_Surjection
<1>4. E \subseteq Subtag
  BY <1>1
<1>5. \A x \in E : Same(x, b)
  <2>1. ASSUME NEW p \in from
        PROVE  {p[1], p[2]} = {IF p[1] = b THEN p[2] ELSE p[1], b}
    OBVIOUS
  <2>. QED
    BY <2>1 DEF Same
<1>6. ASSUME NEW x, Same(x, b), x # b
      PROVE  x \in E
  <2>1. PICK p \in EquivalentBases : {p[1], p[2]} = {x, b}
    BY <1>6 DEF Same
  <2>2. p \in from /\ x = IF p[1] = b THEN p[2] ELSE p[1]
    <3>1. b \in {p[1], p[2]} /\ x \in {p[1], p[2]} /\ p[1] \in {x, b} /\ p[2] \in {x, b}
      BY <2>1
    <3>. QED
      BY <1>6, <3>1
  <2>. QED
    BY <2>2
<1>. HIDE DEF E
<1>7. rest \in Seq(E) /\ \A x \in E : \E i \in 1..Len(rest) : rest[i] = x
  BY <1>3, SetInSequence
<1>8. s = <<b>> \o rest
  BY DEF BaseSpellings, E
<1>. HIDE DEF rest, s
<1>9. rest \in Seq(Subtag) /\ Len(rest) \in Nat /\ \A i \in 1..Len(rest) : rest[i] \in E
  <2>1. /\ Len(rest) \in Nat /\ rest = [i \in 1..Len(rest) |-> rest[i]]
        /\ \A i \in 1..Len(rest) : rest[i] \in E
    BY <1>7
  <2>2. \A i \in 1..Len(rest) : rest[i] \in Subtag
    BY <1>4, <2>1
  <2>. QED
    BY <2>1, <2>2
<1>10. /\ s \in Seq(Subtag) /\ Len(s) = Len(rest) + 1 /\ s[1] = b
       /\ \A i \in 1..Len(rest) : s[i + 1] = rest[i]
  <2>. DEFINE one == <<b>>
  <2>1. one \in Seq(Subtag) /\ Len(one) = 1 /\ one[1] = b /\ s = one \o rest
    BY <1>8
  <2>. HIDE DEF one
  <2>2. /\ one \o rest \in Seq(Subtag) /\ Len(one \o rest) = Len(one) + Len(rest)
        /\ \A k \in 1..Len(one) : (one \o rest)[k] = one[k]
        /\ \A k \in 1..Len(rest) : (one \o rest)[Len(one) + k] = rest[k]
    <3>1. one \in Seq(Subtag) /\ rest \in Seq(Subtag)
      BY <1>9, <2>1
    <3>. QED
      BY ONLY <3>1, ConcatenatedIn
  <2>3. 1 \in 1..Len(one) /\ \A k \in 1..Len(rest) : Len(one) + k = k + 1
    BY <2>1
  <2>. QED
    BY <1>9, <2>1, <2>2, <2>3
<1>11. 1 \in 1..Len(s)
  BY <1>9, <1>10
<1>12. ASSUME NEW i \in 1..Len(s)
       PROVE  Same(s[i], b)
  <2>1. CASE i = 1
    BY <1>10, <2>1 DEF Same
  <2>2. CASE i # 1
    <3>1. i - 1 \in 1..Len(rest) /\ (i - 1) + 1 = i
      BY <1>9, <1>10, <2>2
    <3>2. s[i] = rest[i - 1] /\ rest[i - 1] \in E
      BY <1>9, <1>10, <3>1
    <3>. QED
      BY <1>5, <3>2
  <2>. QED
    BY <2>1, <2>2
<1>13. ASSUME NEW x, Same(x, b)
       PROVE  \E i \in 1..Len(s) : s[i] = x
  <2>1. CASE x = b
    BY <1>10, <1>11, <2>1
  <2>2. CASE x # b
    <3>1. PICK i \in 1..Len(rest) : rest[i] = x
      BY <1>6, <1>7, <1>13, <2>2
    <3>2. i + 1 \in 1..Len(s)
      BY <1>9, <1>10
    <3>. QED
      BY <1>10, <3>1, <3>2
  <2>. QED
    BY <2>1, <2>2
<1>. QED
  BY <1>10, <1>11, <1>12, <1>13 DEF s

\* A tag is its first subtag and the rest.
LEMMA TagParts ==
  ASSUME NEW tag \in Tags
  PROVE  /\ tag[1] \in Subtag /\ Tail(tag) \in Seq(Subtag) /\ tag = <<tag[1]>> \o Tail(tag)
         /\ Len(tag) \in Nat /\ Len(tag) >= 1 /\ (Len(tag) = 1 => Tail(tag) = <<>> /\ tag = <<tag[1]>>)
<1>1. tag \in Seq(Subtag) /\ tag # <<>>
  BY DEF Tags, Subtag
<1>2. Len(tag) \in Nat /\ Len(tag) >= 1
  BY <1>1, EmptySeq
<1>3. tag[1] \in Subtag /\ Tail(tag) \in Seq(Subtag)
  BY <1>1, <1>2
<1>4. Len(Tail(tag)) = Len(tag) - 1 /\ \A i \in 1..(Len(tag) - 1) : Tail(tag)[i] = tag[i + 1]
  BY <1>1, <1>2
<1>. DEFINE rest == Tail(tag)
            all == <<tag[1]>> \o rest
<1>. HIDE DEF rest
<1>5. /\ all \in Seq(Subtag) /\ Len(all) = Len(rest) + 1 /\ all[1] = tag[1]
      /\ \A i \in 1..Len(rest) : all[i + 1] = rest[i]
  BY <1>3, OneBefore DEF rest
<1>. HIDE DEF all
<1>6. Len(all) = Len(tag)
  BY <1>2, <1>4, <1>5 DEF rest
<1>7. ASSUME NEW i \in 1..Len(all)
      PROVE  all[i] = tag[i]
  <2>1. CASE i = 1
    BY <1>5, <2>1
  <2>2. CASE i # 1
    <3>1. i - 1 \in 1..Len(rest) /\ (i - 1) + 1 = i /\ i - 1 \in 1..(Len(tag) - 1)
      BY <1>2, <1>4, <1>6, <2>2 DEF rest
    <3>2. all[i] = rest[i - 1] /\ rest[i - 1] = tag[i]
      BY <1>4, <1>5, <3>1 DEF rest
    <3>. QED
      BY <3>2
  <2>. QED
    BY <2>1, <2>2
<1>8. all = tag
  BY <1>1, <1>5, <1>6, <1>7, SeqEqual
<1>9. Len(tag) = 1 => rest = <<>>
  <2>1. rest \in Seq(Subtag) /\ Len(rest) = Len(tag) - 1
    BY <1>3, <1>4 DEF rest
  <2>2. Len(tag) = 1 => Len(rest) = 0
    BY <2>1
  <2>. QED
    BY <2>1, <2>2, EmptySeq
<1>10. Len(tag) = 1 => tag = <<tag[1]>>
  <2>1. ASSUME Len(tag) = 1
        PROVE  tag = <<tag[1]>>
    <3>1. \A i \in 1..1 : tag[i] = <<tag[1]>>[i]
      OBVIOUS
    <3>2. <<tag[1]>> \in Seq(Subtag) /\ Len(<<tag[1]>>) = 1
      BY <1>3
    <3>. QED
      BY <1>1, <2>1, <3>1, <3>2, SeqEqual
  <2>. QED
    BY <2>1
<1>. QED
  BY <1>2, <1>3, <1>8, <1>9, <1>10 DEF all, rest

\* A tag is adapted to a spelling the model serves it in, its own if that is one, or to nothing.
LEMMA AdaptedTag ==
  ASSUME NEW tag \in Tags, tag # AutoTag, NEW supported, supported \subseteq Tags
  PROVE  LET t == Adapt(tag, supported) IN
         /\ (\E s \in supported : Serves(s, tag)) => t # NoTag /\ t \in supported /\ Serves(t, tag)
         /\ ~(\E s \in supported : Serves(s, tag)) => t = NoTag
         /\ tag \in supported => t = tag
<1>. DEFINE spelled == BaseSpellings(tag[1])
            n == Len(spelled)
            W == {i \in 1..n : <<spelled[i]>> \o Tail(tag) \in supported}
            B == {i \in 1..n : <<spelled[i]>> \in supported}
            t == Adapt(tag, supported)
<1>1. /\ tag[1] \in Subtag /\ Tail(tag) \in Seq(Subtag) /\ tag = <<tag[1]>> \o Tail(tag)
      /\ Len(tag) \in Nat /\ Len(tag) >= 1
  BY TagParts
<1>2. tag # NoTag /\ \A s \in supported : s # NoTag
  BY DEF Tags, NoTag
<1>3. /\ spelled \in Seq(Subtag) /\ 1 \in 1..n /\ spelled[1] = tag[1]
      /\ \A i \in 1..n : Same(spelled[i], tag[1])
      /\ \A x : Same(x, tag[1]) => \E i \in 1..n : spelled[i] = x
  BY <1>1, SpellingsOfBase
<1>. HIDE DEF spelled
<1>4. t = IF FirstOf(W) # 0 THEN <<spelled[FirstOf(W)]>> \o Tail(tag)
          ELSE IF Len(tag) > 1 /\ FirstOf(B) # 0 THEN <<spelled[FirstOf(B)]>> ELSE NoTag
  BY <1>2, Zenon DEF Adapt, SelectInSeq, FirstOf, spelled
<1>. HIDE DEF t
<1>5. n \in Nat /\ \A i \in 1..n : spelled[i] \in Subtag
  BY <1>3
<1>6. W \subseteq Nat \ {0} /\ B \subseteq Nat \ {0}
  BY <1>5
<1>7. W # {} => FirstOf(W) # 0 /\ FirstOf(W) \in W /\ \A i \in W : FirstOf(W) <= i
  BY <1>6, FirstIsFirst
<1>8. W = {} => FirstOf(W) = 0
  BY <1>6, FirstIsFirst
<1>9. (B # {} => FirstOf(B) # 0 /\ FirstOf(B) \in B) /\ (B = {} => FirstOf(B) = 0)
  BY <1>6, FirstIsFirst
<1>10. CASE W # {}
  <2>. DEFINE w == FirstOf(W)
  <2>1. t = <<spelled[w]>> \o Tail(tag) /\ w \in 1..n /\ t \in supported
    BY <1>4, <1>7, <1>10
  <2>. HIDE DEF w
  <2>2. t[1] = spelled[w] /\ Tail(t) = Tail(tag)
    <3>1. /\ t \in Seq(Subtag) /\ Len(t) = Len(Tail(tag)) + 1 /\ t[1] = spelled[w]
          /\ \A i \in 1..Len(Tail(tag)) : t[i + 1] = Tail(tag)[i]
      BY <1>1, <1>5, <2>1, OneBefore
    <3>2. Len(Tail(tag)) \in Nat
      BY <1>1, LenProperties
    <3>. DEFINE r == Tail(tag)
    <3>. HIDE DEF r
    <3>3. Tail(t) \in Seq(Subtag) /\ Len(Tail(t)) = Len(r) /\ \A i \in 1..Len(r) : Tail(t)[i] = t[i + 1]
      <4>1. t # <<>> /\ Len(r) \in Nat /\ Len(t) = Len(r) + 1 /\ t \in Seq(Subtag)
        BY <1>2, <2>1, <3>1, <3>2 DEF NoTag, r
      <4>. QED
        BY <4>1
    <3>4. Tail(t) = r
      <4>1. r \in Seq(Subtag) /\ \A i \in 1..Len(r) : Tail(t)[i] = r[i]
        BY <1>1, <3>1, <3>3 DEF r
      <4>. QED
        BY <3>3, <4>1, SeqEqual
    <3>. QED
      BY <3>1, <3>4 DEF r
  <2>3. Serves(t, tag)
    BY <1>3, <2>1, <2>2 DEF Serves
  <2>4. tag \in supported => t = tag
    <3>1. ASSUME tag \in supported
          PROVE  t = tag
      <4>1. 1 \in W
        BY <1>1, <1>3, <3>1
      <4>2. w <= 1 /\ w \in 1..n
        BY <1>7, <2>1, <4>1 DEF w
      <4>3. w = 1
        BY <1>5, <4>2
      <4>. QED
        BY <1>1, <1>3, <2>1, <4>3
    <3>. QED
      BY <3>1
  <2>5. t # NoTag
    BY <1>2, <2>1
  <2>. QED
    BY <2>1, <2>3, <2>4, <2>5 DEF t
<1>11. CASE W = {}
  <2>1. tag \notin supported
    <3>1. 1 \notin W
      BY <1>11
    <3>. QED
      BY <1>1, <1>3, <3>1
  <2>2. ASSUME NEW s \in supported, Serves(s, tag)
        PROVE  Len(tag) > 1 /\ B # {}
    <3>1. PICK i \in 1..n : spelled[i] = s[1]
      BY <1>3, <2>2 DEF Serves
    <3>2. s \in Tags
      OBVIOUS
    <3>3. s = <<s[1]>> \o Tail(s) /\ (Len(s) = 1 => s = <<s[1]>>)
      BY <3>2, TagParts
    <3>4. Tail(s) # Tail(tag)
      BY <1>11, <3>1, <3>3
    <3>5. Len(tag) > 1 /\ Len(s) = 1
      BY <2>2, <3>4 DEF Serves
    <3>. QED
      BY <3>1, <3>3, <3>5
  <2>3. CASE Len(tag) > 1 /\ B # {}
    <3>. DEFINE b == FirstOf(B)
    <3>1. t = <<spelled[b]>> /\ b \in 1..n /\ t \in supported
      BY <1>4, <1>8, <1>9, <1>11, <2>3
    <3>. HIDE DEF b
    <3>2. t[1] = spelled[b] /\ Len(t) = 1
      BY <1>5, <3>1
    <3>3. Serves(t, tag) /\ t # NoTag
      BY <1>2, <1>3, <2>3, <3>1, <3>2 DEF Serves
    <3>. QED
      BY <2>1, <3>1, <3>3 DEF t
  <2>4. CASE ~(Len(tag) > 1 /\ B # {})
    <3>1. t = NoTag
      BY <1>4, <1>8, <1>9, <1>11, <2>4
    <3>. QED
      BY <2>1, <2>2, <2>4, <3>1 DEF t
  <2>. QED
    BY <2>3, <2>4
<1>. QED
  BY <1>10, <1>11

LEMMA LanguageIsAsked ==
  ASSUME speech \in Languages \/ ~speech.multilingual
  PROVE  AskedLanguage
<1>. DEFINE reaches(tag) == tag = AutoTag \/ (tag # NoTag /\ \E s \in speech.supported : Serves(s, tag))
            answer == ResolveLanguage(speech)
            from == IF answer.source = "override" THEN speech.override ELSE speech.global
            over == Adapt(speech.override, speech.supported)
            global == Adapt(speech.global, speech.supported)
<1>1. SUFFICES
        IF ~speech.multilingual \/ (~reaches(speech.override) /\ ~reaches(speech.global))
        THEN answer.wire = NoTag
        ELSE /\ answer.source = IF reaches(speech.override) THEN "override" ELSE "global"
             /\ from # AutoTag => answer.wire \in speech.supported /\ Serves(answer.wire, from)
             /\ from \in speech.supported => answer.wire = from
  BY Zenon DEF AskedLanguage, Serves, Same
<1>2. answer = IF ~speech.multilingual THEN [wire |-> NoTag, source |-> "default"]
               ELSE IF over # NoTag THEN [wire |-> over, source |-> "override"]
               ELSE IF global # NoTag THEN [wire |-> global, source |-> "global"]
               ELSE [wire |-> NoTag, source |-> "default"]
  BY Zenon DEF ResolveLanguage
<1>. HIDE DEF answer, over, global
<1>3. CASE ~speech.multilingual
  BY <1>2, <1>3
<1>4. CASE speech.multilingual
  <2>1. /\ speech.supported \subseteq Tags /\ speech.override \in Tags \union {<<>>}
        /\ speech.global \in Tags \union {<<>>}
    BY <1>4, SettingsAssumption
  <2>2. ASSUME NEW tag \in Tags \union {<<>>}
        PROVE  LET t == Adapt(tag, speech.supported) IN
               /\ reaches(tag) <=> t # NoTag
               /\ reaches(tag) /\ tag # AutoTag => t \in speech.supported /\ Serves(t, tag)
               /\ tag \in speech.supported => t = tag
    <3>1. CASE tag = NoTag
      <4>1. Adapt(tag, speech.supported) = NoTag /\ tag # AutoTag /\ tag \notin speech.supported
        BY <2>1, <3>1 DEF Adapt, NoTag, AutoTag, Tags
      <4>. QED
        BY <3>1, <4>1
    <3>2. CASE tag = AutoTag
      <4>1. Adapt(tag, speech.supported) = tag /\ tag # NoTag
        BY <3>2 DEF Adapt, NoTag, AutoTag
      <4>. QED
        BY <3>2, <4>1
    <3>3. CASE tag # NoTag /\ tag # AutoTag
      <4>1. tag \in Tags
        BY <3>3 DEF NoTag
      <4>. QED
        BY <2>1, <3>3, <4>1, AdaptedTag
    <3>. QED
      BY <3>1, <3>2, <3>3
  <2>3. /\ reaches(speech.override) <=> over # NoTag
        /\ reaches(speech.override) /\ speech.override # AutoTag => over \in speech.supported /\ Serves(over, speech.override)
        /\ speech.override \in speech.supported => over = speech.override
    BY <2>1, <2>2, Zenon DEF over
  <2>4. /\ reaches(speech.global) <=> global # NoTag
        /\ reaches(speech.global) /\ speech.global # AutoTag => global \in speech.supported /\ Serves(global, speech.global)
        /\ speech.global \in speech.supported => global = speech.global
    BY <2>1, <2>2, Zenon DEF global
  <2>. HIDE DEF reaches
  <2>5. CASE reaches(speech.override)
    <3>1. answer = [wire |-> over, source |-> "override"]
      BY <1>2, <1>4, <2>3, <2>5
    <3>2. answer.wire = over /\ answer.source = "override" /\ from = speech.override
      BY <3>1
    <3>. QED
      BY <1>4, <2>3, <2>5, <3>2
  <2>6. CASE ~reaches(speech.override) /\ reaches(speech.global)
    <3>1. answer = [wire |-> global, source |-> "global"]
      BY <1>2, <1>4, <2>3, <2>4, <2>6
    <3>2. answer.wire = global /\ answer.source = "global" /\ from = speech.global
      BY <3>1
    <3>. QED
      BY <1>4, <2>4, <2>6, <3>2
  <2>7. CASE ~reaches(speech.override) /\ ~reaches(speech.global)
    <3>1. answer.wire = NoTag
      BY <1>2, <1>4, <2>3, <2>4, <2>7
    <3>. QED
      BY <2>7, <3>1
  <2>. QED
    BY <2>5, <2>6, <2>7
<1>5. speech.multilingual \in BOOLEAN \/ ~speech.multilingual
  BY SettingsAssumption
<1>. QED
  BY <1>3, <1>4

-----------------------------------------------------------------------------
SettingsInv ==
    /\ host \subseteq Accelerators /\ installed \in Seq(Accelerators \union {"cpu", "wasm"})
    /\ declared \subseteq {"cpu", "gpu", "none"}
    /\ speech \in Languages \/ ~speech.multilingual
    /\ starts \in Nat
    /\ what = "settings" => (file.kind = "ron" => DOMAIN file.fields \subseteq DOMAIN Defaults)
    /\ what # "settings" => starts = 0
    /\ LoadsAsWritten

\* What a daemon runs with is whole and valid, and is read back as it was written (config.rs).
LEMMA RepairedReadsBack ==
  ASSUME NEW fields
  PROVE  LET c == Repair(WithDefaults(fields)) IN
         /\ DOMAIN c = DOMAIN Defaults
         /\ \A f \in DOMAIN Defaults \intersect DOMAIN fields :
               c[f] = fields[f] \/ (f = "device" /\ fields[f] = "stale")
         /\ Repair(WithDefaults(c)) = c
<1>. DEFINE w == WithDefaults(fields)
            c == Repair(w)
            D == {"tcp", "origins", "device"}
<1>1. /\ DOMAIN Defaults = D /\ Defaults.device = "cpu"
      /\ w = [f \in D |-> IF f \in DOMAIN fields THEN fields[f] ELSE Defaults[f]]
  BY DEF Defaults, WithDefaults
<1>. HIDE DEF w
<1>2. c = [f \in D |-> IF f = "device" /\ w[f] = "stale" THEN "cpu" ELSE w[f]]
  <2>1. DOMAIN w = D /\ w = [f \in D |-> w[f]]
    BY <1>1
  <2>2. c = [w EXCEPT !["device"] = IF w["device"] = "stale" THEN "cpu" ELSE w["device"]]
    BY <1>1 DEF Repair
  <2>. QED
    BY <2>1, <2>2
<1>. HIDE DEF c
<1>3. DOMAIN c = D /\ c.device # "stale"
  BY <1>2
<1>4. WithDefaults(c) = c
  <2>1. WithDefaults(c) = [f \in D |-> c[f]]
    BY <1>1, <1>3 DEF WithDefaults
  <2>. QED
    BY <1>2, <2>1
<1>5. Repair(c) = c
  <2>1. Repair(c) = [c EXCEPT !["device"] = c["device"]]
    BY <1>3 DEF Repair
  <2>2. c = [f \in D |-> c[f]]
    BY <1>2
  <2>. QED
    BY <2>1, <2>2
<1>6. \A f \in D \intersect DOMAIN fields : c[f] = fields[f] \/ (f = "device" /\ fields[f] = "stale")
  BY <1>1, <1>2
<1>. QED
  BY <1>1, <1>3, <1>4, <1>5, <1>6 DEF c, w

LEMMA DefaultsReadBack == Repair(WithDefaults(Defaults)) = Defaults
<1>1. WithDefaults(Defaults) = Defaults
  BY DEF WithDefaults, Defaults
<1>. QED
  BY <1>1 DEF Repair, Defaults

LEMMA SettingsStart == BackendsInit => SettingsInv
<1>1. SUFFICES ASSUME BackendsInit
               PROVE  SettingsInv
  OBVIOUS
<1>2. starts = 0
  BY <1>1 DEF BackendsInit, SettingsInit
<1>3. LoadsAsWritten
  BY <1>2 DEF LoadsAsWritten
<1>4. ~NoSpeech.multilingual
  <2>1. \E q \in TheLanguages : ~q.multilingual
    <3>. DEFINE q == [multilingual |-> FALSE, override |-> <<>>, global |-> <<"auto">>, supported |-> {<<"tl">>}]
    <3>1. q \in TheLanguages /\ ~q.multilingual
      BY DEF TheLanguages
    <3>. QED
      BY <3>1
  <2>. QED
    BY <2>1, Zenon DEF NoSpeech
<1>5. CASE what = "settings"
  <2>1. SettingsInit /\ ((speech = NoSpeech /\ file = NoFile) \/ <<host, installed, declared>> = <<{}, <<>>, {"none"}>>)
    BY <1>1, <1>5 DEF BackendsInit
  <2>2. host \in Hosts /\ installed \in Installs /\ declared \in Declared /\ file \in Files /\ speech \in Languages
    BY <2>1 DEF SettingsInit
  <2>3. /\ host \subseteq Accelerators /\ installed \in Seq(Accelerators \union {"cpu", "wasm"})
        /\ declared \subseteq {"cpu", "gpu", "none"}
        /\ file.kind = "ron" => DOMAIN file.fields \subseteq DOMAIN Defaults
    BY <2>2, SettingsAssumption
  <2>. QED
    BY <1>2, <1>3, <1>5, <2>2, <2>3 DEF SettingsInv
<1>6. CASE what # "settings"
  <2>1. host = {} /\ installed = <<>> /\ declared = {} /\ speech = NoSpeech
    BY <1>1, <1>6 DEF BackendsInit
  <2>2. <<>> \in Seq(Accelerators \union {"cpu", "wasm"})
    OBVIOUS
  <2>. QED
    BY <1>2, <1>3, <1>4, <1>6, <2>1, <2>2 DEF SettingsInv
<1>. QED
  BY <1>5, <1>6

LEMMA SettingsKept == SettingsInv /\ [BackendsNext]_backendVars => SettingsInv'
<1>1. SUFFICES ASSUME SettingsInv, [BackendsNext]_backendVars
               PROVE  SettingsInv'
  OBVIOUS
<1>2. what' = what /\ ((what = "settings" /\ SettingsNext) \/ UNCHANGED settingsVars)
  BY <1>1 DEF BackendsNext, Is, backendVars, settingsVars
<1>3. CASE what = "settings" /\ SetDevice
  BY <1>1, <1>2, <1>3 DEF SetDevice, SettingsInv, LoadsAsWritten, ParseOrReset
<1>4. CASE what = "settings" /\ LoadConfig
  <2>1. /\ starts' = starts + 1 /\ UNCHANGED <<host, installed, declared, speech>>
        /\ file.kind = "ron" => DOMAIN file.fields \subseteq DOMAIN Defaults
        /\ starts \in Nat
    BY <1>1, <1>4 DEF LoadConfig, SettingsInv
  <2>2. CASE file.kind \in {"missing", "unreadable"}
    <3>1. file' = file
      BY <1>4, <2>2 DEF LoadConfig
    <3>. QED
      BY <1>1, <1>2, <1>4, <2>1, <2>2, <3>1 DEF SettingsInv, LoadsAsWritten
  <2>3. CASE ~(file.kind \in {"missing", "unreadable"})
    <3>1. config' = ParseOrReset(file).config /\ file' \in {file, Canonical(config')}
      BY <1>4, <2>3 DEF LoadConfig
    <3>2. /\ DOMAIN config' = DOMAIN Defaults
          /\ file.kind = "ron" => \A f \in DOMAIN file.fields :
               config'[f] = file.fields[f] \/ (f = "device" /\ file.fields[f] = "stale")
          /\ Repair(WithDefaults(config')) = config'
      <4>1. CASE file.kind = "ron"
        <5>1. config' = Repair(WithDefaults(file.fields))
          BY <3>1, <4>1 DEF ParseOrReset
        <5>2. \A f \in DOMAIN file.fields : f \in DOMAIN Defaults \intersect DOMAIN file.fields
          BY <2>1, <4>1
        <5>. QED
          BY <5>1, <5>2, RepairedReadsBack
      <4>2. CASE file.kind # "ron"
        <5>1. config' = Defaults
          BY <3>1, <4>2 DEF ParseOrReset
        <5>. QED
          BY <4>2, <5>1, DefaultsReadBack
      <4>. QED
        BY <4>1, <4>2
    <3>3. CASE file' = file
      <4>1. ParseOrReset(file)' = ParseOrReset(file)
        BY <3>3 DEF ParseOrReset
      <4>. QED
        BY <1>1, <1>2, <1>4, <2>1, <3>1, <3>2, <3>3, <4>1 DEF SettingsInv, LoadsAsWritten
    <3>4. CASE file' = Canonical(config')
      <4>1. file'.kind = "ron" /\ file'.fields = config'
        BY <3>4 DEF Canonical
      <4>2. (ParseOrReset(file).config)' = config'
        BY <3>2, <4>1 DEF ParseOrReset
      <4>3. LoadsAsWritten'
        BY <4>1, <4>2 DEF LoadsAsWritten
      <4>. QED
        BY <1>1, <1>2, <1>4, <2>1, <3>2, <4>1, <4>3 DEF SettingsInv
    <3>. QED
      BY <3>1, <3>3, <3>4
  <2>. QED
    BY <2>2, <2>3
<1>5. CASE UNCHANGED settingsVars
  BY <1>1, <1>2, <1>5 DEF settingsVars, SettingsInv, LoadsAsWritten, ParseOrReset
<1>. QED
  BY <1>2, <1>3, <1>4, <1>5 DEF SettingsNext

\* subprocess/mod.rs, systemd.rs, sandbox_exec.rs, config.rs, devices.rs, language.rs: whatever
\* names a user gives, wherever the sockets are, whatever the settings file holds and the machine
\* has, a backend starts with a sandbox and a socket that fit, under a name its owner is read back
\* from, on the settings that were written, a device that was offered and a language it serves.
THEOREM BackendsStartAsDecided == BackendsSpec => []StartsAsDecided
<1>1. BackendsInit => LaunchInv /\ SettingsInv
  BY LaunchStarts, SettingsStart
<1>2. LaunchInv /\ SettingsInv /\ [BackendsNext]_backendVars => LaunchInv' /\ SettingsInv'
  BY LaunchKept, SettingsKept
<1>3. LaunchInv /\ SettingsInv => StartsAsDecided
  <2>1. SUFFICES ASSUME LaunchInv, SettingsInv
                 PROVE  StartsAsDecided
    OBVIOUS
  <2>2. SandboxFits /\ SocketFits /\ OwnerReadBack
    BY <2>1, LaunchInvFits
  <2>3. OfferedIsHonoured
    BY <2>1, OfferedAreHonoured DEF SettingsInv
  <2>4. AskedLanguage
    BY <2>1, LanguageIsAsked DEF SettingsInv
  <2>. QED
    BY <2>1, <2>2, <2>3, <2>4 DEF StartsAsDecided, SettingsInv
<1>. QED
  BY <1>1, <1>2, <1>3, PTL DEF BackendsSpec

=============================================================================
