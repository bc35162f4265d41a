------------------------------ MODULE LoadSlot ------------------------------
(***************************************************************************)
(* What the load gate promises to the owner of one model slot: loads run   *)
(* one at a time, and they start in the order in which they were           *)
(* requested, so a request that has been overtaken never starts.           *)
(* LoadGate is shown to implement this specification.                      *)
(***************************************************************************)
EXTENDS Naturals

VARIABLES running,   \* the tickets of the loads that are running
          started    \* the tickets of every load that has started

slotVars == <<running, started>>

SlotInit == running = {} /\ started = {}

\* A load begins: nothing else is running and nothing newer ever began.
StartLoad(t) ==
    /\ running = {}
    /\ \A s \in started : s < t
    /\ running' = {t}
    /\ started' = started \union {t}

\* The running load returns, fails or is dropped.
EndLoad ==
    /\ running # {}
    /\ running' = {}
    /\ UNCHANGED started

SlotNext == EndLoad \/ \E t \in running' : StartLoad(t)

SlotSpec == SlotInit /\ [][SlotNext]_slotVars
=============================================================================
