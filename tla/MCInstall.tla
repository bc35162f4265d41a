----------------------------- MODULE MCInstall ------------------------------
(***************************************************************************)
(* How software reaches the daemon: the registry's index, the installs of  *)
(* backends, and the daemon's check for a release of itself.  They share   *)
(* no state; `what` says which one a behaviour exercises.                  *)
(*                                                                         *)
(* The installs: "s" is updated from version 1 to version 2, which declares *)
(* the id 2, and an older build of it, of another id, is imported by its   *)
(* path; the directory of that id may be the backend "t"'s.                *)
(***************************************************************************)
EXTENDS TLC, Install, IndexClient, SelfUpdate

CONSTANTS c1, c2, k1, k2

VARIABLE what
installVars == <<vars, indexVars, selfUpdateVars, what>>

v1 == [source |-> "s", version |-> 1, id |-> 0]
v0 == [source |-> "s", version |-> 0, id |-> 0]
other == [source |-> "t", version |-> 1, id |-> 3]
TheNames == {1, 2, 3}
With(f) == [p \in TheNames \X {"live", "old"} |-> IF p \in DOMAIN f THEN f[p] ELSE Absent]
One == <<1, "live">>
Two == <<2, "live">>
TwoOld == <<2, "old">>
Three == <<3, "live">>

\* In its old directory, already in the new one, left in the sidecar by a crash, in
\* the old one with an unreadable new one, with its predecessor's sidecar, which a
\* crash or a failed removal left, or in a sidecar beside an unreadable directory.
TheLayouts == {
    With(One :> v1 @@ Three :> other),
    With(Two :> v1),
    With(TwoOld :> v1 @@ Three :> other),
    With(One :> v1 @@ Two :> Broken @@ Three :> other),
    With(Two :> v1 @@ TwoOld :> v0 @@ Three :> other),
    With(Two :> Broken @@ TwoOld :> v1 @@ Three :> other)}

\* A predecessor's sidecar beside a good directory, which reconcile_dirs removes.
SidecarLayouts == {With(Two :> v1 @@ TwoOld :> v0 @@ Three :> other)}

TheKey == [j \in Jobs |-> IF j = "c" THEN "path" ELSE "s"]
TheSource == [j \in Jobs |-> "s"]
TheName == [j \in Jobs |-> IF j = "c" THEN 3 ELSE 2]
TheVersion == [j \in Jobs |-> IF j = "c" THEN 1 ELSE 2]

-----------------------------------------------------------------------------
\* Two of the jobs: an update and its retry, or an update beside the import.
Installs == {"retry", "import"}
Third == IF what = "retry" THEN "c" ELSE "b"

OnIndex(A)   == what = "index" /\ A /\ UNCHANGED <<vars, selfUpdateVars, what>>
OnCheck(A)   == what = "check" /\ A /\ UNCHANGED <<vars, indexVars, what>>
OnInstall(A) == what \in Installs /\ A /\ UNCHANGED <<indexVars, selfUpdateVars, what>>

InstallsInit ==
  /\ Init /\ IndexInit /\ SelfUpdateInit /\ what \in {"index", "check"} \union Installs
  /\ what # "index" => cache.is = "missing"
  /\ what \notin Installs => at = With(One :> v1 @@ Three :> other)

InstallsNext == OnIndex(IndexNext) \/ OnCheck(SelfUpdateNext) \/ OnInstall(Next /\ pc'[Third] = "idle")

\* The queue of tokio's mutex is first come, first served; requests and
\* blocking writes end by themselves or by their timeouts.
InstallsFairness ==
  /\ \A j \in Jobs: WF_installVars(OnInstall(Work(j)))
  /\ \A c \in Callers: /\ SF_installVars(OnIndex(TakeLock(c)))
                       /\ WF_installVars(OnIndex(IndexStep(c)))
  /\ WF_installVars(OnIndex(\E w \in writes: w.by # NoCaller /\ PersistToDisk(w)))

InstallsSpec == InstallsInit /\ [][InstallsNext]_installVars /\ InstallsFairness

-----------------------------------------------------------------------------
(* A caller that waited for another's request is told what that one found, and    *)
(* nothing older: of the index, whose ETag is never another index's               *)
(* (registry/client.rs), and of the check for a release, whose candidate is of    *)
(* the channel it was resolved for (self_update.rs).                              *)
SharedAnswersAreTrue ==
  RefreshIsFresh /\ EtagNamesIndex /\ SharedResultIsFresh /\ CandidateOfItsChannel
=============================================================================
