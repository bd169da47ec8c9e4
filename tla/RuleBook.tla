------------------------------ MODULE RuleBook ------------------------------
(***************************************************************************)
(* What the evaluation of rules promises: every evaluation of an event     *)
(* happens at one instant, in which the rules it triggers are enabled, are *)
(* satisfied, have not been triggered by this event before and have cooled *)
(* down; and only an evaluation moves the time of the last trigger.        *)
(***************************************************************************)
EXTENDS Integers

CONSTANTS Events, Rules, MaxTime

VARIABLES rules, marked

Live(r) == rules[r].stored = "live" /\ rules[r].enabled

Cooled(r, at) == rules[r].last = 0 \/ at - rules[r].last >= rules[r].terms.cooldown

Due(e, r, at) ==
  Live(r) /\ e \in rules[r].terms.condition /\ <<e, r>> \notin marked /\ Cooled(r, at)

Init == marked = {} /\ \A r \in Rules : rules[r].last = 0

Author(r) ==
  /\ \E new \in {rules'[r]} : new.last = rules[r].last
  /\ \A q \in Rules \ {r} : rules'[q] = rules[q]
  /\ UNCHANGED marked

Evaluate(e, at, triggered) ==
  /\ \A r \in triggered : Due(e, r, at)
  /\ rules' = [r \in Rules |-> IF r \in triggered
                               THEN [rules[r] EXCEPT !.last = at] ELSE rules[r]]
  /\ marked' = marked \cup {<<e, r>> : r \in triggered}

Next ==
  \/ \E r \in Rules : Author(r)
  \/ \E e \in Events, at \in 1 .. MaxTime, triggered \in SUBSET Rules :
       Evaluate(e, at, triggered)

Spec == Init /\ [][Next]_<<rules, marked>>
=============================================================================
