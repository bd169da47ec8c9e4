------------------------- MODULE MCTelemetryPipeline -------------------------
(* Instances of TelemetryPipeline for TLC. *)
EXTENDS TelemetryPipeline

CONSTANTS w1, w2, p1, e1, e2, e3, r1, d1

OnePartition == [e \in Events |-> p1]
AllRulesMatch == [e \in Events |-> Rules]
AllOnD1 == [r \in Rules |-> d1]
=============================================================================
