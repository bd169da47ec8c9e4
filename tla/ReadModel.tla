------------------------------ MODULE ReadModel ------------------------------
(***************************************************************************)
(* What a rebuildable projection promises: it shows part of a source that  *)
(* only grows, never forgets what it has shown, and in the end shows all   *)
(* that was added.                                                         *)
(***************************************************************************)
CONSTANTS Items, Seeded   \* Seeded: there from the start

VARIABLES source, view

Init == source = Seeded /\ view = {}

Grow(x) == x \notin source /\ source' = source \cup {x} /\ UNCHANGED view

CatchUp ==
  /\ view' \in SUBSET source
  /\ view \subseteq view'
  /\ view' # view
  /\ UNCHANGED source

Next == CatchUp \/ \E x \in Items : Grow(x)

Spec == Init /\ [][Next]_<<source, view>>

EverythingShown == \A x \in Items \ Seeded : x \in source ~> x \in view
=============================================================================
