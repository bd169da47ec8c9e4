-------------------------- MODULE MCGraphProjection --------------------------
(* Instances of GraphProjection for TLC. *)
EXTENDS GraphProjection, TLC

CONSTANTS g1, g2, c1, i1, i2, r1

\* A class, two individuals of it, one relation between them.
MCKindOf == (c1 :> "class") @@ (i1 :> "individual") @@ (i2 :> "individual") @@ (r1 :> "relation")
MCNeeds == (c1 :> {}) @@ (i1 :> {c1}) @@ (i2 :> {c1}) @@ (r1 :> {i1, i2})
=============================================================================
