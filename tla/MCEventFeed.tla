---------------------------- MODULE MCEventFeed ----------------------------
(* Instances of EventFeed for TLC. *)
EXTENDS EventFeed

CONSTANTS e1, e2, e3

\* e1 has the clock of a device that is ahead.
ClockAhead == [e \in Events |-> IF e = e1 THEN 2 ELSE 1]
=============================================================================
