-------------------------- MODULE MCRuleEvaluation --------------------------
(* Instances of RuleEvaluation for TLC. *)
EXTENDS RuleEvaluation

CONSTANTS w1, w2, e1, e2, e3, r1, r2, r3, r4, d1, d2

\* Two sensors, e3 from the second.  Their rules act on the two devices in
\* opposite orders.
TwoSensors ==
  [e \in Events |-> IF e = e3 THEN <<r3, r4>> ELSE <<r1, r2>>]

\* What a rule says: e2 does not meet the condition of the second, which cannot
\* trigger twice before the end of the time.
Wide   == [condition |-> Events, target |-> d1, cooldown |-> 1]
Narrow == [condition |-> Events \ {e2}, target |-> d2, cooldown |-> 2]

TwoTerms == {Wide, Narrow}

EditR1 == [o \in Editors |-> r1]

\* The operators create r2 after the start.
AllButOne ==
  {[r \in Rules |-> [stored |-> IF r = r2 THEN "absent" ELSE "live", enabled |-> r # r2,
                     terms |-> IF r \in {r2, r3} THEN Narrow ELSE Wide, last |-> 0]]}
=============================================================================
