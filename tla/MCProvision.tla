---------------------------- MODULE MCProvision -----------------------------
(***************************************************************************)
(* Provision and LoadReport for TLC.  Provision: two stages that share a   *)
(* weights file, which the manifests of their models pin alike or not; the *)
(* first one wants an unpinned file before it.                             *)
(* LoadReport: one of these loads, whose files have the same size.  They   *)
(* share no state; `what` says which one a behaviour exercises.            *)
(***************************************************************************)
EXTENDS Provision, LoadReport

TheSlots == {"one", "two"}
TheDests == {"weights", "config"}
Weights(pin) == [dest |-> "weights", pin |-> pin]
Config == [dest |-> "config", pin |-> "none"]
ThePlans == [s \in TheSlots |-> IF s = "one" THEN {<<Config, Weights("good")>>}
                                ELSE {<<Weights(pin)>> : pin \in {"good", "old"}}]

TheSizes == <<200, 200>>
TheReports == {[step |-> "prose", progress |-> -1], [step |-> "weights", progress |-> -1]}
    \union {[step |-> "kernels", progress |-> p] : p \in {1, 2, 201}}

VARIABLE what
loadVars == <<vars, reportVars, what>>

LoadInit ==
    /\ what \in {"files", "reports"} /\ Init /\ ReportInit
    \* The weights are an earlier manifest's and verified, until an edit or a load changes that.
    /\ what = "files" =>
         /\ disk["config"].content = "old" /\ stamp["config"] = NoStamp
         /\ disk["weights"].content = "old" /\ stamp["weights"] # NoStamp
    /\ what = "reports" => \A d \in Dests : disk[d].content = "absent" /\ stamp[d] = NoStamp

OfFiles(A) == what = "files" /\ A /\ UNCHANGED <<reportVars, what>>
OfReports(A) == what = "reports" /\ A /\ UNCHANGED <<vars, what>>
LoadNext ==
    \/ what = "files" /\ Next /\ UNCHANGED <<reportVars, what>>
    \/ what = "reports" /\ ReportNext /\ UNCHANGED <<vars, what>>

\* A load's task is polled, its polls are answered while the backend has not hung (and
\* never have to say `ready`), and the time passes.
LoadFairness ==
    /\ \A s \in Slots : WF_loadVars(OfFiles(Work(s)))
    /\ WF_loadVars(OfReports(Provisions)) /\ WF_loadVars(OfReports(Answer("loading")))
    /\ WF_loadVars(OfReports(SomeChunk)) /\ WF_loadVars(OfReports(Tick))

LoadSpec == LoadInit /\ [][LoadNext]_loadVars /\ LoadFairness

-----------------------------------------------------------------------------
(* What a client hears of a load: the file, size and phase it is at, its end, and *)
(* no end while the backend still reports progress (download_progress.rs,         *)
(* subprocess/mod.rs).                                                            *)
LoadIsToldTruly == SeenIsCurrent /\ EndIsSeen /\ MovingIsNotCut

(* No load waits for ever: on the network, on the other slot, on a cancel that    *)
(* crossed it, or on a backend that answers (provisioning.rs,                     *)
(* subprocess/mod.rs).                                                            *)
LoadsEnd == EveryLoadEnds /\ LoadEnds
=============================================================================
