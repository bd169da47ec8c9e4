----------------------------- MODULE MCClientApp -----------------------------
(* ClientApp with two rules of which one is in use, two devices, and an      *)
(* ontology that grants both roles or does not assign the engineer.          *)
EXTENDS ClientApp

CONSTANTS r1, r2, e1, d1, d2

MCRules == {r1, r2}
MCBooked == {r1}
MCEvents == {e1}
MCDevices == {d1, d2}

Inspection == {"InspectionTeam", "InspectionTeam worksFor BestAiCom"}
BothRoles == Inspection \cup {"OpsEngineer", "OpsEngineer assignedTo BestAiCom Smart Workspace"}
Unassigned == Inspection \cup {"OpsEngineer"}

Plan(part, n, o) == [part |-> part, clicks |-> n, ontology |-> o]

\* Five clicks open a tab and make a proposal, approve it, use a rule button and
\* approve or propose again.
MCPlans == {
  Plan("rules", 5, BothRoles), Plan("rules", 4, Unassigned), Plan("copilot", 4, BothRoles),
  Plan("map", 4, BothRoles), Plan("devices", 2, BothRoles), Plan("events", 3, BothRoles),
  Plan("panel", 3, BothRoles)}
===============================================================================
