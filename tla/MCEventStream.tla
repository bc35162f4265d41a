--------------------------- MODULE MCEventStream ----------------------------
(***************************************************************************)
(* EventStream for TLC: a topic that can overrun its ring, one that cannot *)
(* and one that the token does not grant.                                  *)
(***************************************************************************)
EXTENDS EventStream

TheTopics == {"bands", "status", "secret"}
TheGranted == {"bands", "status"}
TheEvents == [t \in TheTopics |-> IF t = "bands" THEN 2 ELSE 1]
=============================================================================
