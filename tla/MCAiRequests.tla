---------------------------- MODULE MCAiRequests ----------------------------
(* Instances of AiRequests for TLC. *)
EXTENDS AiRequests

CONSTANTS c1, c2, p1, x1, x2, v1, v2

\* Chats of two visitors, a proposal, and explanations of the first visitor.
MixedVisitor == [r \in Requests |-> IF r = c2 THEN v2 ELSE v1]

\* Everything comes from the first visitor.
OneVisitor == [r \in Requests |-> v1]

MixedKind ==
  [r \in Requests |->
     CASE r = p1        -> "propose"
       [] r \in {x1, x2} -> "explain"
       [] OTHER         -> "chat"]

OneADay == [b \in Buckets |-> 1]

ThreeTools == {"getOntology", "getSensors", "getDevices"}
=============================================================================
