----------------------------- MODULE MCAdmission -----------------------------
(* The three gates of the daemon, each on its own: `part` says which one a  *)
(* behaviour exercises, and the other two stay in their initial states.     *)
EXTENDS LoadGate, Gateway, Instance

CONSTANTS n1, w1, w2, t1, t2

VARIABLE part
allVars == <<vars, gatewayVars, instanceVars, part>>

AppBinary == [exe |-> "app", box |-> "host"]
Sandboxed == [exe |-> "app", box |-> "flatpak"]     \* another app, the same path
Nameless  == [exe |-> "app", box |-> "nameless"]
MCProcs   == {AppBinary, Sandboxed, Nameless}
MCFirsts  == (n1 :> AppBinary)
MCGrants  ==
    (t1 :> [to |-> <<"native", "app", "host">>, scopes |-> {"status"}, expires |-> 3])
    @@ (t2 :> [to |-> <<"web", w1>>, scopes |-> {"status"}, expires |-> 9])

MCOffers  == {<<n1, t1, "status">>, <<n1, "none", "any">>, <<w1, t1, "any">>,
              <<w1, t2, "status">>, <<w1, t2, "settings">>, <<w1, t2, "preflight">>,
              <<w2, t2, "any">>}

AdmissionInit == Init /\ GatewayInit /\ InstanceInit /\ part \in {"load", "gateway", "instance"}

AdmissionNext ==
    /\ UNCHANGED part
    /\ \/ part = "load" /\ Next /\ UNCHANGED <<gatewayVars, instanceVars>>
       \/ part = "gateway" /\ GatewayNext /\ UNCHANGED <<vars, instanceVars>>
       \/ part = "instance" /\ InstanceNext /\ UNCHANGED <<vars, gatewayVars>>

\* LoadGate's fairness, asked of the behaviours that exercise it.
LoadFairness == \A r \in Requests :
    /\ WF_allVars(part = "load" /\ Lock(r) /\ UNCHANGED <<gatewayVars, instanceVars, part>>)
    /\ WF_allVars(part = "load" /\ (Enter(r) \/ GiveUp(r)) /\ UNCHANGED <<gatewayVars, instanceVars, part>>)
    /\ WF_allVars(part = "load" /\ Finish(r) /\ UNCHANGED <<gatewayVars, instanceVars, part>>)

AdmissionSpec == AdmissionInit /\ [][AdmissionNext]_allVars /\ LoadFairness

-----------------------------------------------------------------------------
(* The gateway: no client gets more requests through than its quota, however it   *)
(* goes idle, is forgotten and comes back (manager.rs:60-70); what is served is    *)
(* what the token granted to that very binary or page, and a token that somebody   *)
(* else presented is over (middleware.rs:320-322).                                 *)
AdmittedAsGranted == []QuotaPerMinute /\ ServedAsGranted /\ StolenIsOver
=============================================================================
