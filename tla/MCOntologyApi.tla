---------------------------- MODULE MCOntologyApi ----------------------------
(* Instances of OntologyApi for TLC. *)
EXTENDS OntologyApi, TLC

\* "owned" relates the company to itself.
Migrated == {"Thing", "assignedTo", "company", "owned"}

\* A person, under one name with either of two texts, and its relation to the
\* company; a class and an individual of it.  "untitled" fails the validation.
Rows == Migrated \cup {"person", "namesake", "assigned", "Room", "room", "untitled"}

Kind == [e \in Entries |->
  CASE e \in {"Thing", "Room"} -> "class"
    [] e = "assignedTo" -> "property"
    [] e \in {"assigned", "owned"} -> "relation"
    [] OTHER -> "individual"]

Name == [e \in Entries |-> IF e = "namesake" THEN "person" ELSE e]

Refs == [e \in Entries |->
  CASE e \in {"Thing", "Room"} -> {}
    [] e = "room" -> {"Room"}
    [] e = "assigned" -> {"person", "assignedTo", "company"}
    [] e = "owned" -> {"assignedTo", "company"}
    [] OTHER -> {"Thing"}]

\* What is posted: a row that fails, two of one name, one that refers to either,
\* and a class with its individual.
Posted == Rows \ Migrated

ValidEntries == Entries \ {"untitled"}

RequestSymmetry == Permutations(Requests)
=============================================================================
