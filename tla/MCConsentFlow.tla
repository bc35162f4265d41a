--------------------------- MODULE MCConsentFlow ----------------------------
(***************************************************************************)
(* ConsentFlow for TLC: three calls.  The first may turn out to be a       *)
(* first-party one, and its client may go away; the second is of one of    *)
(* two ordinary clients, the third of the first of these.                  *)
(***************************************************************************)
EXTENDS ConsentFlow

TheRequests == {"r1", "r2", "r3"}
TheWants == [r \in TheRequests |->
    IF r = "r1" THEN {"k1", "ours"} ELSE IF r = "r2" THEN {"k1", "k2"} ELSE {"k1"}]
=============================================================================
