---------------------------- MODULE SemanticPolicy ----------------------------
(***************************************************************************)
(* The role check the browser makes before it changes a rule or asks the   *)
(* assistant (lib/client/semantic-policy.ts): it reads the whole ontology, *)
(* looks for the individual that carries the role and for the relation     *)
(* that grants it, and then asks the operator to go on in that role.       *)
(* An ontology is the set of its individuals and relations, of which only  *)
(* the four the policies name are told apart.                              *)
(***************************************************************************)

\* What a policy requires of the ontology: an individual and a relation.
Policies == [
  engineer  |-> [individual |-> "OpsEngineer",
                 relation   |-> "OpsEngineer assignedTo BestAiCom Smart Workspace"],
  inspector |-> [individual |-> "InspectionTeam",
                 relation   |-> "InspectionTeam worksFor BestAiCom"]]

\* The policy of an action: rule.approve, rule.toggle and rule.delete are the
\* engineer's, copilot.query the inspection team's.
PolicyOf(action) ==
  IF action \in {"approve", "toggle", "delete"} THEN Policies.engineer ELSE Policies.inspector

\* A bug: either half of the role is enough.
PolicyHolds_Either(action, ontology) ==
  \/ PolicyOf(action).individual \in ontology
  \/ PolicyOf(action).relation \in ontology

\* The check passes when the ontology read holds both.
PolicyHolds(action, ontology) ==
  /\ PolicyOf(action).individual \in ontology
  /\ PolicyOf(action).relation \in ontology
===============================================================================
