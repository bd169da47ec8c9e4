--------------------------- MODULE RuleEvaluation ---------------------------
(***************************************************************************)
(* Deterministic rules under concurrent workers and operators.             *)
(*                                                                         *)
(* A worker evaluates the rules of an event in one PostgreSQL transaction: *)
(* it locks the enabled rules of the sensor, one row after the other in    *)
(* the order of their creation, takes the time, and goes through them; a   *)
(* rule that triggers locks its device as well.  Operators create, edit,   *)
(* enable, disable and delete rules meanwhile.  An edit reads the rule,    *)
(* merges the patch and writes all the columns back in a later statement.  *)
(*                                                                         *)
(* The database works at read committed: a statement that waited for a row *)
(* sees what the row has become.  It aborts a transaction of a wait cycle. *)
(***************************************************************************)
EXTENDS Integers, Sequences

CONSTANTS
  Workers,       \* NestJS workers
  Editors,       \* clients that send PATCH requests
  Edited,        \* the rule a client edits
  Events,        \* telemetry events, each may be delivered again
  Rules,         \* rule ids
  Devices,       \* devices
  Watched,       \* the rules on an event's sensor, oldest first
  Terms,         \* what a rule may say: see below
  Outages,       \* sets of devices that may not be enabled
  Tables,        \* what the rules table may hold when the workers start
  Nobody,        \* a row that is not locked
  MaxTime,       \* bound: the clock
  MaxDeliveries, \* bound: evaluations begun
  MaxChanges     \* bound: statements of operators

\* The terms of a rule are its columns condition (the events that satisfy it),
\* action (the device it acts on) and cooldown_seconds.  The sensor of its
\* condition, which PATCH may change as well, is the same at all times.
\* last is 0 for a rule that was never triggered.
Rule == [stored : {"absent", "live", "deleted"}, enabled : BOOLEAN,
         terms : Terms, last : 0 .. MaxTime]

ASSUME ConstantsAssumption ==
  /\ Events # {} /\ Terms # {}
  /\ Watched \in [Events -> Seq(Rules)]
  /\ Terms \subseteq [condition : SUBSET Events, target : Devices, cooldown : Nat]
  /\ Edited \in [Editors -> Rules]
  /\ Outages \subseteq SUBSET Devices
  /\ Tables \subseteq [Rules -> Rule]
  /\ \A table \in Tables : \A r \in Rules : table[r].last = 0
  /\ Nobody \notin Workers
  /\ MaxTime \in Nat \ {0}
  /\ MaxDeliveries \in Nat
  /\ MaxChanges \in Nat

(* A definition F_Variant is F as a plausible mistake would have it; it is   *)
(* used by no action, only to see that the properties notice the difference. *)

VARIABLES
  unavailable,   \* devices that are not enabled
  rules,         \* the rules table
  marked,        \* rule.matched rows of audit_event
  now,           \* the time, the same for all workers
  ruleLock,      \* who has locked the row of a rule
  deviceLock,    \* who has locked the row of a device
  tx,            \* the transaction of a worker
  edit,          \* the PATCH an editor is about to write
  deliveries,    \* evaluations begun so far
  changes        \* statements of operators so far

lockVars == <<ruleLock, deviceLock>>
vars     == <<unavailable, rules, marked, now, lockVars, tx, edit, deliveries, changes>>

-----------------------------------------------------------------------------
\* todo are the rows the select has yet to lock, rows those it returned and the
\* worker has yet to look at; both by their place in the order of creation.
Transaction ==
  [step : {"idle", "lock", "evaluate"}, event : Events, todo : SUBSET Nat,
   rows : SUBSET Nat, at : 0 .. MaxTime, triggered : SUBSET Rules]

\* fields are those of the patch, the name and the description left out.
Edit == [step : {"idle", "merged"}, fields : SUBSET {"enabled", "terms"},
         enabled : BOOLEAN, terms : Terms]

Live(r) == rules[r].stored = "live" /\ rules[r].enabled

Idle == [step |-> "idle", event |-> CHOOSE e \in Events : TRUE, todo |-> {},
         rows |-> {}, at |-> 0, triggered |-> {}]

NoEdit == [step |-> "idle", fields |-> {}, enabled |-> FALSE,
           terms |-> CHOOSE t \in Terms : TRUE]

Init ==
  /\ unavailable \in Outages
  /\ rules \in Tables
  /\ marked = {}
  /\ now = 1
  /\ ruleLock = [r \in Rules |-> Nobody]
  /\ deviceLock = [d \in Devices |-> Nobody]
  /\ tx = [w \in Workers |-> Idle]
  /\ edit = [o \in Editors |-> NoEdit]
  /\ deliveries = 0
  /\ changes = 0

-----------------------------------------------------------------------------
(* The transaction of a worker.                                             *)

First(places, i) == i \in places /\ \A j \in places : i <= j

RuleAt(w, i) == Watched[tx[w].event][i]

\* The select finds its rows at once and locks them one by one.
Begin(w, e) ==
  /\ tx[w].step = "idle"
  /\ deliveries < MaxDeliveries /\ deliveries' = deliveries + 1
  /\ tx' = [tx EXCEPT ![w] =
       [Idle EXCEPT !.step = "lock", !.event = e,
                    !.todo = {i \in DOMAIN Watched[e] : Live(Watched[e][i])}]]
  /\ UNCHANGED <<unavailable, rules, marked, now, lockVars, edit, changes>>

Locking(w, i) == tx[w].step = "lock" /\ First(tx[w].todo, i)

ForUpdate_Missing(w, r) == UNCHANGED ruleLock

ForUpdate(w, r) == ruleLock[r] = Nobody /\ ruleLock' = [ruleLock EXCEPT ![r] = w]

\* A row that changed while the select waited is tested again.
LockRule(w) ==
  /\ \E i \in tx[w].todo :
       /\ Locking(w, i)
       /\ ForUpdate(w, RuleAt(w, i))
       /\ tx' = [tx EXCEPT ![w].todo = @ \ {i},
                           ![w].rows = IF Live(RuleAt(w, i)) THEN @ \cup {i} ELSE @]
  /\ UNCHANGED <<unavailable, deliveries, rules, marked, now, deviceLock, edit, changes>>

\* triggeredAt is taken when all the rows are there.
TakeTime(w) ==
  /\ tx[w].step = "lock"
  /\ tx[w].todo = {}
  /\ tx' = [tx EXCEPT ![w].step = "evaluate", ![w].at = now]
  /\ UNCHANGED <<unavailable, deliveries, rules, marked, now, lockVars, edit, changes>>

Cooled(r, at) == rules[r].last = 0 \/ at - rules[r].last >= rules[r].terms.cooldown

TargetOf(r) == rules[r].terms.target

Triggers(e, r, at) ==
  <<e, r>> \notin marked /\ e \in rules[r].terms.condition /\ Cooled(r, at)

Evaluating(w, i) == tx[w].step = "evaluate" /\ First(tx[w].rows, i)
TriggersAt(w, i) == Triggers(tx[w].event, RuleAt(w, i), tx[w].at)

SkipRule_Stops(w) ==
  /\ \E i \in tx[w].rows : Evaluating(w, i) /\ ~ TriggersAt(w, i)
  /\ tx' = [tx EXCEPT ![w].rows = {}]
  /\ UNCHANGED <<unavailable, deliveries, rules, marked, now, lockVars, edit, changes>>

SkipRule(w) ==
  /\ \E i \in tx[w].rows :
       /\ Evaluating(w, i) /\ ~ TriggersAt(w, i)
       /\ tx' = [tx EXCEPT ![w].rows = @ \ {i}]
  /\ UNCHANGED <<unavailable, deliveries, rules, marked, now, lockVars, edit, changes>>

LockDevice(w, d) ==
  /\ d \notin unavailable
  /\ deviceLock[d] \in {Nobody, w}
  /\ deviceLock' = [deviceLock EXCEPT ![d] = w]

TriggerRule(w) ==
  /\ \E i \in tx[w].rows :
       /\ Evaluating(w, i) /\ TriggersAt(w, i)
       /\ LockDevice(w, TargetOf(RuleAt(w, i)))
       /\ tx' = [tx EXCEPT ![w].rows = @ \ {i},
                           ![w].triggered = @ \cup {RuleAt(w, i)}]
  /\ UNCHANGED <<unavailable, deliveries, rules, marked, now, ruleLock, edit, changes>>

Release(w) ==
  /\ ruleLock' = [r \in Rules |-> IF ruleLock[r] = w THEN Nobody ELSE ruleLock[r]]
  /\ deviceLock' = [d \in Devices |-> IF deviceLock[d] = w THEN Nobody ELSE deviceLock[d]]
  /\ tx' = [tx EXCEPT ![w] = Idle]

Commit(w) ==
  /\ tx[w].step = "evaluate"
  /\ tx[w].rows = {}
  /\ rules' = [r \in Rules |-> IF r \in tx[w].triggered
                               THEN [rules[r] EXCEPT !.last = tx[w].at] ELSE rules[r]]
  /\ marked' = marked \cup {<<tx[w].event, r>> : r \in tx[w].triggered}
  /\ Release(w)
  /\ UNCHANGED <<unavailable, deliveries, now, edit, changes>>

Rollback_Forgotten(w) == tx' = [tx EXCEPT ![w] = Idle] /\ UNCHANGED <<rules, marked, lockVars>>

Rollback(w) == Release(w) /\ UNCHANGED <<rules, marked>>

\* The target of a rule that triggers is not enabled.
ThrowUnavailable(w) ==
  /\ \E i \in tx[w].rows :
       /\ Evaluating(w, i) /\ TriggersAt(w, i)
       /\ TargetOf(RuleAt(w, i)) \in unavailable
  /\ Rollback(w)
  /\ UNCHANGED <<unavailable, deliveries, now, edit, changes>>

\* The worker stops, a statement fails, or the sensor is disabled or unlike the event.
TransactionFails(w) ==
  /\ tx[w].step # "idle"
  /\ Rollback(w)
  /\ UNCHANGED <<unavailable, deliveries, now, edit, changes>>

\* v has the row that w is waiting for.
WaitsFor(w, v) ==
  \/ \E i \in tx[w].todo : Locking(w, i) /\ ruleLock[RuleAt(w, i)] = v
  \/ \E i \in tx[w].rows : /\ Evaluating(w, i) /\ TriggersAt(w, i)
                           /\ deviceLock[TargetOf(RuleAt(w, i))] = v

Deadlocked(w) ==
  \E cycle \in SUBSET Workers :
    w \in cycle /\ \A x \in cycle : \E y \in cycle \ {x} : WaitsFor(x, y)

BreakDeadlock(w) ==
  /\ Deadlocked(w)
  /\ Rollback(w)
  /\ UNCHANGED <<unavailable, deliveries, now, edit, changes>>

-----------------------------------------------------------------------------
(* The operators.  A statement waits for the lock of its row.               *)
Change == changes < MaxChanges /\ changes' = changes + 1

Writable(r) == rules[r].stored = "live" /\ ruleLock[r] = Nobody

CreateRule(r) ==
  /\ Change
  /\ rules[r].stored = "absent"
  /\ \E enabled \in BOOLEAN, terms \in Terms :
       rules' = [rules EXCEPT ![r] = [stored |-> "live", enabled |-> enabled,
                                      terms |-> terms, last |-> 0]]
  /\ UNCHANGED <<unavailable, deliveries, marked, now, lockVars, tx, edit>>

SetRuleEnabled(r, enabled) ==
  /\ Change
  /\ Writable(r)
  /\ rules' = [rules EXCEPT ![r].enabled = enabled]
  /\ UNCHANGED <<unavailable, deliveries, marked, now, lockVars, tx, edit>>

DeleteRule(r) ==
  /\ Change
  /\ Writable(r)
  /\ rules' = [rules EXCEPT ![r].stored = "deleted"]
  /\ UNCHANGED <<unavailable, deliveries, marked, now, lockVars, tx, edit>>

\* GetRule, and the patch merged into it.
GetRule(o) ==
  /\ edit[o].step = "idle" /\ changes < MaxChanges
  /\ rules[Edited[o]].stored = "live"
  /\ \E fields \in SUBSET {"enabled", "terms"}, enabled \in BOOLEAN, terms \in Terms :
       /\ "enabled" \notin fields => enabled = rules[Edited[o]].enabled
       /\ "terms" \notin fields => terms = rules[Edited[o]].terms
       /\ edit' = [edit EXCEPT ![o] = [step |-> "merged", fields |-> fields,
                                       enabled |-> enabled, terms |-> terms]]
  /\ UNCHANGED <<unavailable, deliveries, rules, marked, now, lockVars, tx, changes>>

\* The columns the update writes; last_triggered_at is not one of them.
Columns(o, old) == [old EXCEPT !.enabled = edit[o].enabled, !.terms = edit[o].terms]

UpdateRule(o) ==
  /\ Change
  /\ edit[o].step = "merged"
  /\ LET r == Edited[o]
     IN  \/ /\ Writable(r)
            /\ rules' = [rules EXCEPT ![r] = Columns(o, rules[r])]
         \/ rules[r].stored = "deleted" /\ UNCHANGED rules
  /\ edit' = [edit EXCEPT ![o] = NoEdit]
  /\ UNCHANGED <<unavailable, deliveries, marked, now, lockVars, tx>>

Tick ==
  /\ now < MaxTime
  /\ now' = now + 1
  /\ UNCHANGED <<unavailable, deliveries, rules, marked, lockVars, tx, edit, changes>>

-----------------------------------------------------------------------------
WorkerStep(w) ==
  \/ LockRule(w)
  \/ TakeTime(w)
  \/ SkipRule(w)
  \/ TriggerRule(w)
  \/ Commit(w)
  \/ ThrowUnavailable(w)
  \/ BreakDeadlock(w)

OperatorStep ==
  \/ \E r \in Rules : \/ CreateRule(r)
                      \/ \E enabled \in BOOLEAN : SetRuleEnabled(r, enabled)
                      \/ DeleteRule(r)
  \/ \E o \in Editors : GetRule(o) \/ UpdateRule(o)

Next ==
  \/ \E w \in Workers : \/ \E e \in Events : Begin(w, e)
                        \/ WorkerStep(w)
                        \/ TransactionFails(w)
  \/ OperatorStep
  \/ Tick

Spec == Init /\ [][Next]_vars

\* A transaction goes on; the lock manager queues those that wait for a row, so
\* that a lock that comes free again and again is got in the end.
FairSpec == Spec /\ \A w \in Workers : SF_vars(WorkerStep(w))

-----------------------------------------------------------------------------
(* Every variable keeps its type.                                           *)
TypeOK ==
  /\ unavailable \in Outages
  /\ rules \in [Rules -> Rule]
  /\ marked \subseteq Events \X Rules
  /\ now \in 1 .. MaxTime
  /\ ruleLock \in [Rules -> Workers \cup {Nobody}]
  /\ deviceLock \in [Devices -> Workers \cup {Nobody}]
  /\ tx \in [Workers -> Transaction]
  /\ edit \in [Editors -> Edit]
  /\ deliveries \in 0 .. MaxDeliveries
  /\ changes \in 0 .. MaxChanges

(* Evaluations are serialisable: each takes effect at its commit as if it    *)
(* had run there alone, against the rules as they are then; a rule that has  *)
(* been disabled, deleted, edited or triggered meanwhile is never triggered  *)
(* on the strength of what it was, and an edit never moves last_triggered_at.*)
Book == INSTANCE RuleBook

EvaluationsSerialisable == Book!Spec

(* An evaluation that commits has triggered every rule its select found that *)
(* is still enabled, satisfied, unmarked and cooled down.                    *)
NoRuleMissed ==
  \A w \in Workers : tx[w].step = "evaluate" =>
    \A i \in DOMAIN Watched[tx[w].event] :
      ruleLock[RuleAt(w, i)] = w /\ Live(RuleAt(w, i)) /\ TriggersAt(w, i) =>
        RuleAt(w, i) \in tx[w].triggered \/ \E j \in tx[w].rows : RuleAt(w, j) = RuleAt(w, i)

(* Row locks never stop a worker for good, whatever the order in which two   *)
(* sensors' rules act on the same devices.                                   *)
EvaluationsEnd == \A w \in Workers : tx[w].step # "idle" ~> tx[w].step = "idle"

-----------------------------------------------------------------------------
(* What the documents say and the code does not do.                         *)

(* The README offers enable and disable as operations of their own, and      *)
(* PATCH as an update; a PATCH of another field writes back the enabled it   *)
(* read, and undoes a disable in between.                                    *)
DisableSticks ==
  [][\A r \in Rules :
       rules[r].stored = "live" /\ ~ rules[r].enabled /\ rules'[r].enabled =>
         \A o \in Editors :
           edit[o].step = "merged" /\ edit'[o].step = "idle" => "enabled" \in edit[o].fields]_vars
=============================================================================
