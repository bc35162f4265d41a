------------------------------ MODULE LoadGate ------------------------------
(***************************************************************************)
(* load_gate.rs: one model load at a time, and the newest request wins.    *)
(*                                                                         *)
(* A request takes a ticket (`ticket`), then awaits the gate (`enter`), and *)
(* only then compares its ticket with the newest one handed out.  The gate *)
(* is a tokio::sync::Mutex: waiters are served first come first served,    *)
(* and a released gate is handed to the waiter at the head of the line     *)
(* before that waiter runs again.  A request is a future, so it can be     *)
(* dropped at any await; dropping it leaves the line, or releases the gate *)
(* it holds.                                                               *)
(*                                                                         *)
(* An operator Op_Fault is Op with a plausible bug in it.  No specification *)
(* uses one: it stands in for Op to show that a property would notice.     *)
(***************************************************************************)
EXTENDS Integers, Sequences, SequencesExt, FiniteSets

CONSTANTS Requests,   \* the calls that want the slot loaded
          NoOne       \* the gate is not held

ASSUME NoOneAssumption == NoOne \notin Requests

VARIABLES newest,     \* LoadGate.newest
          holder,     \* who owns LoadGate.gate, or NoOne
          line,       \* the waiters of LoadGate.gate, oldest first
          ticket,     \* the ticket each request was given (0: none yet)
          pc          \* how far each request has come

vars == <<newest, holder, line, ticket, pc>>

Waiting == {"lining", "woken"}
Stages == {"idle", "ticketed", "loading", "loaded", "superseded", "dropped"}
            \union Waiting

\* The counter, the gate with its line, and each request's ticket and stage.
TypeOK ==
    /\ newest \in Nat
    /\ holder \in Requests \union {NoOne}
    /\ line \in Seq(Requests)
    /\ ticket \in [Requests -> Nat]
    /\ pc \in [Requests -> Stages]

Init ==
    /\ newest = 0
    /\ holder = NoOne
    /\ line = <<>>
    /\ ticket = [r \in Requests |-> 0]
    /\ pc = [r \in Requests |-> "idle"]

-----------------------------------------------------------------------------

\* `ticket`: fetch_add hands out the old value; the ticket is one more.
Ticket(r) ==
    /\ pc[r] = "idle"
    /\ newest' = newest + 1
    /\ ticket' = [ticket EXCEPT ![r] = newest + 1]
    /\ pc' = [pc EXCEPT ![r] = "ticketed"]
    /\ UNCHANGED <<holder, line>>

\* A free gate and nobody in line: the request owns the gate at once.
\* Otherwise it joins the end of the line.
Lock(r) ==
    /\ pc[r] = "ticketed"
    /\ IF holder = NoOne
       THEN /\ holder' = r
            /\ pc' = [pc EXCEPT ![r] = "woken"]
            /\ UNCHANGED line
       ELSE /\ line' = Append(line, r)
            /\ pc' = [pc EXCEPT ![r] = "lining"]
            /\ UNCHANGED holder
    /\ UNCHANGED <<newest, ticket>>

\* Dropping the guard hands the gate to the head of the line, if any;
\* request r goes on to `stage`.
Release(r, stage) ==
    IF line = <<>>
    THEN /\ holder' = NoOne
         /\ pc' = [pc EXCEPT ![r] = stage]
         /\ UNCHANGED line
    ELSE /\ holder' = Head(line)
         /\ pc' = [pc EXCEPT ![r] = stage, ![Head(line)] = "woken"]
         /\ line' = Tail(line)

Enter_Unchecked(r) == \* the ticket is not compared again
    /\ pc[r] = "woken"
    /\ pc' = [pc EXCEPT ![r] = "loading"]
    /\ UNCHANGED <<newest, holder, line, ticket>>

\* `enter` once the gate is owned: still the newest, so the guard is returned.
Enter(r) ==
    /\ pc[r] = "woken"
    /\ ticket[r] = newest
    /\ pc' = [pc EXCEPT ![r] = "loading"]
    /\ UNCHANGED <<newest, holder, line, ticket>>

GiveUp_KeepsGuard(r) == \* the guard outlives the None
    /\ pc[r] = "woken"
    /\ ticket[r] # newest
    /\ pc' = [pc EXCEPT ![r] = "superseded"]
    /\ UNCHANGED <<newest, holder, line, ticket>>

\* `enter` once the gate is owned: overtaken, so the guard is dropped and
\* the answer is None.
GiveUp(r) ==
    /\ pc[r] = "woken"
    /\ ticket[r] # newest
    /\ Release(r, "superseded")
    /\ UNCHANGED <<newest, ticket>>

\* The load is over (or the loading future is dropped): the guard goes.
Finish(r) ==
    /\ pc[r] = "loading"
    /\ Release(r, "loaded")
    /\ UNCHANGED <<newest, ticket>>

\* The request's future is dropped before it got an answer.
Drop(r) ==
    /\ \/ /\ pc[r] = "ticketed"
          /\ pc' = [pc EXCEPT ![r] = "dropped"]
          /\ UNCHANGED <<holder, line>>
       \/ /\ pc[r] = "lining"
          /\ pc' = [pc EXCEPT ![r] = "dropped"]
          /\ \E i \in DOMAIN line : line[i] = r /\ line' = RemoveAt(line, i)
          /\ UNCHANGED holder
       \/ /\ pc[r] = "woken"
          /\ Release(r, "dropped")
    /\ UNCHANGED <<newest, ticket>>

Next == \E r \in Requests :
            Ticket(r) \/ Lock(r) \/ Enter(r) \/ GiveUp(r) \/ Finish(r) \/ Drop(r)

\* A request that has its ticket is a running task: the runtime polls it
\* until it is answered, and a load that started comes to an end.  Nobody is
\* obliged to ask for a load, nor to drop a request.
Fairness == \A r \in Requests :
                WF_vars(Lock(r)) /\ WF_vars(Enter(r) \/ GiveUp(r)) /\ WF_vars(Finish(r))

Spec == Init /\ [][Next]_vars
FairSpec == Spec /\ Fairness

-----------------------------------------------------------------------------
Started(r) == pc[r] \in {"loading", "loaded"}

\* "Only one runs at a time": two loads never overlap, and the one that runs
\* owns the gate, so nobody else can enter until it is over.
OneLoadAtATime ==
    \A r \in Requests : pc[r] = "loading" =>
        /\ holder = r
        /\ \A q \in Requests \ {r} : pc[q] \notin {"loading", "woken"}

\* The gate is never lost: whoever owns it is awake and will release it, it is
\* never free while somebody waits, and nobody stands in line twice.
GateNeverLost ==
    /\ holder # NoOne <=> \E r \in Requests : pc[r] \in {"woken", "loading"}
    /\ holder = NoOne => line = <<>>
    /\ \A r \in Requests : pc[r] = "lining" <=> \E i \in DOMAIN line : line[i] = r
    /\ \A i, j \in DOMAIN line : i # j => line[i] # line[j]

\* "The user pays for two models to arrive somewhere they wanted one": however
\* many requests queue up behind a running load, at most one of them can still
\* start a load of its own; all the others are already overtaken.
AtMostOneMoreLoad ==
    \A r, q \in Requests :
        /\ pc[r] \in Waiting \union {"ticketed"} /\ ticket[r] = newest
        /\ pc[q] \in Waiting \union {"ticketed"} /\ ticket[q] = newest
        => r = q

\* The slot as its owner sees it: what runs and what has ever started.
Slot == INSTANCE LoadSlot WITH
            running <- {ticket[r] : r \in {q \in Requests : pc[q] = "loading"}},
            started <- {ticket[r] : r \in {q \in Requests : Started(q)}}

\* Newest wins: the loads that start implement LoadSlot, one at a time and in
\* the order of their tickets, whatever order the requests queued in.
NewestWins == Slot!SlotSpec

\* The newest request is never starved by the ones before it: it loads, unless
\* it is dropped or a newer one arrives.
NewestLoads ==
    \A r \in Requests :
        (pc[r] # "idle" /\ ticket[r] = newest)
            ~> (pc[r] \in {"loaded", "dropped"} \/ ticket[r] # newest)
=============================================================================
