-------------------------- MODULE TelemetryPipeline --------------------------
(***************************************************************************)
(* A telemetry event on its way from the gateway through Kafka into        *)
(* PostgreSQL, and what the NestJS workers derive from it.                 *)
(*                                                                         *)
(*   gateway -> telemetry.raw (partition of the device) -> worker:         *)
(*     insertTelemetry            one transaction                          *)
(*     applyDeterministicRules    one transaction                          *)
(*     runForTelemetry            audit row, then agent.result             *)
(*     or dead letter             row, then topic                          *)
(*     commitOffsets                                                       *)
(*                                                                         *)
(* The workers are one consumer group and commit by hand.  A member goes on*)
(* from the committed offset of a partition, or from the end of the log if *)
(* the group has committed none (fromBeginning: false).  A worker handles  *)
(* one record at a time, may die between any two steps, and may lose its   *)
(* partition while it is still at work on a record, so that two workers    *)
(* handle the same record.  A statement that fails may have taken effect.  *)
(* The gateway may append an event again.                                  *)
(***************************************************************************)
EXTENDS Integers, Sequences, FiniteSets

CONSTANTS
  Workers,       \* members of the consumer group
  Partitions,    \* partitions of telemetry.raw
  Events,        \* event ids
  PartitionOf,   \* the partition of the device that sent an event
  Malformed,     \* events the gateway accepts and parseTelemetry does not
  Incompatible,  \* events whose sensor, kind or unit the database does not know
  Decisive,      \* events for which findTrigger finds a trigger
  Rules,         \* enabled rules
  Watches,       \* the rules whose condition an event's reading satisfies
  Devices,       \* devices that rules act on
  TargetOf,      \* the device a rule acts on
  MaxRecords,    \* bound: records of a partition
  MaxFaults      \* bound: faults in a behaviour

ASSUME ConstantsAssumption ==
  /\ Partitions # {}
  /\ PartitionOf \in [Events -> Partitions]
  /\ Malformed \subseteq Events
  /\ Incompatible \subseteq Events
  /\ Decisive \subseteq Events
  /\ Watches \in [Events -> SUBSET Rules]
  /\ TargetOf \in [Rules -> Devices]
  /\ MaxRecords \in Nat
  /\ MaxFaults \in Nat

(* A definition F_Variant is F as a plausible mistake would have it; it is   *)
(* used by no action, only to see that the properties notice the difference. *)

VARIABLES
  log,           \* telemetry.raw
  committed,     \* committed offsets of the group, NoOffset where it has none
  owner,         \* the partition assignment
  position,      \* where the owner fetches from, NoOffset until it has resolved it
  origin,        \* history: the offset before the first record the group committed
  task,          \* what a worker is doing
  dedup,         \* telemetry_event_dedup
  telemetry,     \* telemetry_event
  stored,        \* history: how often the row of an event was inserted
  audit,         \* audit_event, random ids left out
  cooling,       \* rules triggered less than cooldown_seconds ago
  down,          \* devices that are not enabled
  deadRows,      \* dead_letter_event, by source position
  deadTopic,     \* source positions in the dead-letter topic
  fired,         \* history: how often a rule was triggered by an event
  decisions,     \* history: how often the decision boundary ran for an event
  evaluated,     \* history: events whose rules were evaluated and committed
  faults         \* faults so far

kafkaVars   == <<log, committed, owner, position, origin>>
dbVars      == <<dedup, telemetry, stored, audit, cooling>>
deadVars    == <<deadRows, deadTopic>>
historyVars == <<fired, decisions, evaluated>>
vars        == <<kafkaVars, task, dbVars, down, deadVars, historyVars, faults>>

-----------------------------------------------------------------------------
\* What Kafka answers for a partition without a committed offset.
NoOffset == -1

Steps == {"idle", "insert", "rules", "decide", "announce", "recordFailure",
          "bury", "buryPublish", "commit"}

Task == [part : Partitions, off : Nat, step : Steps, duplicate : BOOLEAN]

AuditRow == {"rule.matched"} \X Events \X Rules
            \cup {"mastra.telemetry.decision", "mastra.telemetry.failed"} \X Events

Idle == [part |-> CHOOSE p \in Partitions : TRUE, off |-> 0, step |-> "idle",
         duplicate |-> FALSE]

At(w, step) == task[w].step = step

Position(w) == <<task[w].part, task[w].off>>
EventOf(w) == log[task[w].part][task[w].off]

GoTo(w, step) == task' = [task EXCEPT ![w].step = step]

Drop(w) == task' = [task EXCEPT ![w] = Idle]

Fault == faults < MaxFaults /\ faults' = faults + 1

\* What the fetchers of a member that leaves or joins again had resolved is gone.
Unresolved(w) == [p \in Partitions |-> IF owner[p] = w THEN NoOffset ELSE position[p]]

\* The log begins at the committed offset, or there is none.
Init ==
  /\ log = [p \in Partitions |-> <<>>]
  /\ committed \in [Partitions -> {0, NoOffset}]
  /\ owner \in [Partitions -> Workers]
  /\ position = [p \in Partitions |-> NoOffset]
  /\ origin = committed
  /\ task = [w \in Workers |-> Idle]
  /\ dedup = {} /\ telemetry = {} /\ audit = {} /\ cooling = {}
  /\ stored = [e \in Events |-> 0]
  /\ down = {}
  /\ deadRows = {} /\ deadTopic = {}
  /\ fired = [e \in Events |-> [r \in Rules |-> 0]]
  /\ decisions = [e \in Events |-> 0]
  /\ evaluated = {}
  /\ faults = 0

-----------------------------------------------------------------------------
(* The gateway appends an event that passes its own validation; a publish    *)
(* whose answer is lost, or an MQTT redelivery, appends it again.            *)
handleMessage(e) ==
  LET p == PartitionOf[e]
      again == \E i \in 1 .. Len(log[p]) : log[p][i] = e
  IN  /\ Len(log[p]) < MaxRecords
      /\ log' = [log EXCEPT ![p] = Append(@, e)]
      /\ IF again THEN Fault ELSE UNCHANGED faults
      /\ UNCHANGED <<committed, owner, position, origin, task, dbVars, down, deadVars, historyVars>>

resolveOffsets_FromTheEnd(w) ==
  LET pending == {p \in Partitions : owner[p] = w /\ position[p] = NoOffset}
  IN  /\ At(w, "idle")
      /\ pending # {}
      /\ position' = [p \in Partitions |-> IF p \in pending THEN Len(log[p]) ELSE position[p]]
      /\ UNCHANGED <<log, committed, owner, origin, task, dbVars, down, deadVars, historyVars, faults>>

(* A member that has joined goes on where the group has committed, and where *)
(* it has committed nothing, behind the last record there is now             *)
(* (fromBeginning: false).                                                   *)
resolveOffsets(w) ==
  LET pending == {p \in Partitions : owner[p] = w /\ position[p] = NoOffset}
  IN  /\ At(w, "idle")
      /\ pending # {}
      /\ position' = [p \in Partitions |->
           IF p \notin pending THEN position[p]
           ELSE IF committed[p] = NoOffset THEN Len(log[p]) ELSE committed[p]]
      /\ UNCHANGED <<log, committed, owner, origin, task, dbVars, down, deadVars, historyVars, faults>>

(* eachMessage starts on the next record of a partition; a record that does  *)
(* not parse goes straight to the dead letters.                              *)
eachMessage(w) ==
  /\ At(w, "idle")
  /\ \E p \in Partitions :
       /\ owner[p] = w
       /\ position[p] # NoOffset /\ position[p] < Len(log[p])
       /\ LET e == log[p][position[p] + 1]
          IN  task' = [task EXCEPT ![w] =
                [part |-> p, off |-> position[p] + 1, duplicate |-> FALSE,
                 step |-> IF e \in Malformed THEN "bury" ELSE "insert"]]
  /\ UNCHANGED <<kafkaVars, dbVars, down, deadVars, historyVars, faults>>

-----------------------------------------------------------------------------
\* One transaction: the tombstone, and if it is new the reading.
insertTelemetry(e) ==
  /\ dedup' = dedup \cup {e}
  /\ telemetry' = IF e \in dedup THEN telemetry ELSE telemetry \cup {e}
  /\ stored' = [stored EXCEPT ![e] = IF e \in dedup THEN @ ELSE @ + 1]
  /\ UNCHANGED <<audit, cooling>>

Insert(w) ==
  /\ At(w, "insert")
  /\ insertTelemetry(EventOf(w))
  /\ task' = [task EXCEPT ![w].step = "rules",
                          ![w].duplicate = EventOf(w) \in dedup]
  /\ UNCHANGED <<kafkaVars, down, deadVars, historyVars, faults>>

InsertFails(w) ==
  /\ At(w, "insert")
  /\ Fault
  /\ insertTelemetry(EventOf(w)) \/ UNCHANGED dbVars
  /\ GoTo(w, "bury")
  /\ UNCHANGED <<kafkaVars, down, deadVars, historyVars>>

-----------------------------------------------------------------------------

\* Rules to trigger: they match, have no rule.matched marker for this event,
\* and are not cooling down.
Matching(e) ==
  {r \in Watches[e] : <<"rule.matched", e, r>> \notin audit /\ r \notin cooling}

\* The sensor is unknown, or a rule that would be triggered acts on a device that
\* is not enabled: the transaction is rolled back with all it did so far.
Throws(e) == e \in Incompatible \/ \E r \in Matching(e) : TargetOf[r] \in down

applyDeterministicRules(e) ==
  LET triggered == Matching(e)
  IN  /\ ~ Throws(e)
      /\ audit' = audit \cup {<<"rule.matched", e, r>> : r \in triggered}
      /\ cooling' = cooling \cup triggered
      /\ fired' = [fired EXCEPT ![e] =
           [r \in Rules |-> IF r \in triggered THEN @[r] + 1 ELSE @[r]]]
      /\ evaluated' = evaluated \cup {e}
      /\ UNCHANGED <<dedup, telemetry, stored, decisions>>

AfterRules_AlwaysDecides(w) == IF EventOf(w) \in Decisive THEN "decide" ELSE "commit"

\* A duplicate has its rules evaluated again, and that is all.
AfterRules(w) ==
  IF ~ task[w].duplicate /\ EventOf(w) \in Decisive THEN "decide" ELSE "commit"

ApplyRules_SkipsDuplicates(w) ==
  /\ At(w, "rules")
  /\ IF task[w].duplicate THEN UNCHANGED <<dbVars, historyVars>>
                          ELSE applyDeterministicRules(EventOf(w))
  /\ GoTo(w, AfterRules(w))
  /\ UNCHANGED <<kafkaVars, down, deadVars, faults>>

ApplyRules(w) ==
  /\ At(w, "rules")
  /\ applyDeterministicRules(EventOf(w))
  /\ GoTo(w, AfterRules(w))
  /\ UNCHANGED <<kafkaVars, down, deadVars, faults>>

ApplyRulesThrows(w) ==
  /\ At(w, "rules")
  /\ Throws(EventOf(w))
  /\ GoTo(w, "bury")
  /\ UNCHANGED <<kafkaVars, dbVars, down, deadVars, historyVars, faults>>

ApplyRulesFails(w) ==
  /\ At(w, "rules")
  /\ Fault
  /\ applyDeterministicRules(EventOf(w)) \/ UNCHANGED <<dbVars, historyVars>>
  /\ GoTo(w, "bury")
  /\ UNCHANGED <<kafkaVars, down, deadVars>>

-----------------------------------------------------------------------------
(* The decision boundary: an audit row under a random id, then the result to *)
(* agent.result.  A failure of either is itself recorded.                    *)
Decide(e) ==
  /\ audit' = audit \cup {<<"mastra.telemetry.decision", e>>}
  /\ decisions' = [decisions EXCEPT ![e] = @ + 1]
  /\ UNCHANGED <<dedup, telemetry, stored, cooling, fired, evaluated>>

RunForTelemetry(w) ==
  /\ At(w, "decide")
  /\ Decide(EventOf(w))
  /\ GoTo(w, "announce")
  /\ UNCHANGED <<kafkaVars, down, deadVars, faults>>

PublishAgentResult(w) ==
  /\ At(w, "announce")
  /\ GoTo(w, "commit")
  /\ UNCHANGED <<kafkaVars, dbVars, down, deadVars, historyVars, faults>>

RunForTelemetryFails(w) ==
  /\ task[w].step \in {"decide", "announce"}
  /\ Fault
  /\ \/ At(w, "decide") /\ Decide(EventOf(w))
     \/ UNCHANGED <<dbVars, historyVars>>
  /\ GoTo(w, "recordFailure")
  /\ UNCHANGED <<kafkaVars, down, deadVars>>

RecordMastraDecisionFailed(w) ==
  /\ At(w, "recordFailure")
  /\ audit' = audit \cup {<<"mastra.telemetry.failed", EventOf(w)>>}
  /\ GoTo(w, "commit")
  /\ UNCHANGED <<kafkaVars, dedup, telemetry, stored, cooling, down, deadVars, historyVars, faults>>

RecordMastraDecisionFailedFails(w) ==
  /\ At(w, "recordFailure")
  /\ Fault
  /\ GoTo(w, "bury")
  /\ UNCHANGED <<kafkaVars, dbVars, down, deadVars, historyVars>>

-----------------------------------------------------------------------------
\* An error that leaves eachMessage: the consumer fetches the record again, or it
\* gives up and joins the group again.
Refetch(w) == position' \in {position, Unresolved(w)}

(* The dead letter: the row, unless the position has one, then the topic.    *)
InsertDeadLetter_Unique(w) ==
  /\ At(w, "bury")
  /\ IF Position(w) \in deadRows
     THEN Drop(w) /\ UNCHANGED deadRows
     ELSE GoTo(w, "buryPublish") /\ deadRows' = deadRows \cup {Position(w)}
  /\ UNCHANGED <<kafkaVars, dbVars, down, deadTopic, historyVars, faults>>

InsertDeadLetter(w) ==
  /\ At(w, "bury")
  /\ deadRows' = deadRows \cup {Position(w)}
  /\ GoTo(w, "buryPublish")
  /\ UNCHANGED <<kafkaVars, dbVars, down, deadTopic, historyVars, faults>>

PublishDeadLetter(w) ==
  /\ At(w, "buryPublish")
  /\ deadTopic' = deadTopic \cup {Position(w)}
  /\ GoTo(w, "commit")
  /\ UNCHANGED <<kafkaVars, dbVars, down, deadRows, historyVars, faults>>

DeadLetterFails(w) ==
  /\ Fault
  /\ \/ /\ At(w, "bury")
        /\ deadRows' \in {deadRows, deadRows \cup {Position(w)}}
        /\ UNCHANGED deadTopic
     \/ /\ At(w, "buryPublish")
        /\ deadTopic' \in {deadTopic, deadTopic \cup {Position(w)}}
        /\ UNCHANGED deadRows
  /\ Refetch(w)
  /\ Drop(w)
  /\ UNCHANGED <<log, committed, owner, origin, dbVars, down, historyVars>>

-----------------------------------------------------------------------------
\* The coordinator refuses the commit of a worker that lost the partition.
commitOffset(w) ==
  LET p == task[w].part
  IN  IF owner[p] = w
      THEN /\ committed' = [committed EXCEPT ![p] = task[w].off]
           /\ origin' = [origin EXCEPT ![p] = IF committed[p] = NoOffset THEN task[w].off - 1 ELSE @]
      ELSE UNCHANGED <<committed, origin>>

CommitOffsets(w) ==
  /\ At(w, "commit")
  /\ commitOffset(w)
  /\ position' = IF owner[task[w].part] = w
                 THEN [position EXCEPT ![task[w].part] = task[w].off] ELSE position
  /\ Drop(w)
  /\ UNCHANGED <<log, owner, dbVars, down, deadVars, historyVars, faults>>

CommitOffsetsFails(w) ==
  /\ At(w, "commit")
  /\ Fault
  /\ commitOffset(w) \/ UNCHANGED <<committed, origin>>
  /\ Refetch(w)
  /\ Drop(w)
  /\ UNCHANGED <<log, owner, dbVars, down, deadVars, historyVars>>

\* A worker dies with a record in hand, and is started again.
Crash(w) ==
  /\ ~ At(w, "idle")
  /\ Fault
  /\ position' = Unresolved(w)
  /\ Drop(w)
  /\ UNCHANGED <<log, committed, owner, origin, dbVars, down, deadVars, historyVars>>

\* The members that join are between two records, and fetch anew even what they
\* had; a member at work has lost what it had, and does not know it yet.  An idle
\* worker that is started again is such a round too.
Rebalance ==
  /\ Fault
  /\ owner' \in [Partitions -> {w \in Workers : At(w, "idle")}]
  /\ position' = [p \in Partitions |-> NoOffset]
  /\ UNCHANGED <<log, committed, origin, task, dbVars, down, deadVars, historyVars>>

-----------------------------------------------------------------------------
CooldownEnds(r) ==
  /\ r \in cooling
  /\ cooling' = cooling \ {r}
  /\ UNCHANGED <<kafkaVars, task, dedup, telemetry, stored, audit, down, deadVars, historyVars, faults>>

ToggleDevice(d) ==
  /\ Fault
  /\ down' = IF d \in down THEN down \ {d} ELSE down \cup {d}
  /\ UNCHANGED <<kafkaVars, task, dbVars, deadVars, historyVars>>

Expirable_Any(a) == TRUE

\* type <> 'rule.matched'
Expirable(a) == a[1] # "rule.matched"

cleanupRetention_WithTombstones ==
  /\ \E kept \in SUBSET telemetry : telemetry' = kept /\ dedup' = dedup \ (telemetry \ kept)
  /\ \E old \in SUBSET {a \in audit : Expirable(a)} : audit' = audit \ old
  /\ <<telemetry, audit>>' # <<telemetry, audit>>
  /\ UNCHANGED <<kafkaVars, task, stored, cooling, down, deadVars, historyVars, faults>>

\* One transaction, run by whichever worker takes the advisory lock: any rows
\* that are old enough, up to the batch size.  Tombstones are never deleted.
cleanupRetention ==
  /\ \E kept \in SUBSET telemetry : telemetry' = kept
  /\ \E old \in SUBSET {a \in audit : Expirable(a)} : audit' = audit \ old
  /\ <<telemetry, audit>>' # <<telemetry, audit>>
  /\ UNCHANGED <<kafkaVars, task, dedup, stored, cooling, down, deadVars, historyVars, faults>>

-----------------------------------------------------------------------------
WorkerStep(w) ==
  \/ resolveOffsets(w)
  \/ eachMessage(w)
  \/ Insert(w)
  \/ ApplyRules(w)
  \/ ApplyRulesThrows(w)
  \/ RunForTelemetry(w)
  \/ PublishAgentResult(w)
  \/ RecordMastraDecisionFailed(w)
  \/ InsertDeadLetter(w)
  \/ PublishDeadLetter(w)
  \/ CommitOffsets(w)

WorkerFault(w) ==
  \/ InsertFails(w)
  \/ ApplyRulesFails(w)
  \/ RunForTelemetryFails(w)
  \/ RecordMastraDecisionFailedFails(w)
  \/ DeadLetterFails(w)
  \/ CommitOffsetsFails(w)
  \/ Crash(w)

Next ==
  \/ \E e \in Events : handleMessage(e)
  \/ \E w \in Workers : WorkerStep(w) \/ WorkerFault(w)
  \/ Rebalance
  \/ \E r \in Rules : CooldownEnds(r)
  \/ \E d \in Devices : ToggleDevice(d)
  \/ cleanupRetention

Spec == Init /\ [][Next]_vars

\* A worker that runs joins its group, goes on with its record, and fetches the next.
FairSpec == Spec /\ \A w \in Workers : WF_vars(WorkerStep(w))

-----------------------------------------------------------------------------
(* Every variable keeps its type.                                           *)
TypeOK ==
  /\ log \in [Partitions -> Seq(Events)]
  /\ committed \in [Partitions -> Nat \cup {NoOffset}]
  /\ position \in [Partitions -> Nat \cup {NoOffset}]
  /\ origin \in [Partitions -> Nat \cup {NoOffset}]
  /\ owner \in [Partitions -> Workers]
  /\ task \in [Workers -> Task]
  /\ dedup \subseteq Events
  /\ telemetry \subseteq Events
  /\ stored \in [Events -> Nat]
  /\ audit \subseteq AuditRow
  /\ cooling \subseteq Rules
  /\ down \subseteq Devices
  /\ deadRows \subseteq Partitions \X Nat
  /\ deadTopic \subseteq Partitions \X Nat
  /\ fired \in [Events -> [Rules -> Nat]]
  /\ decisions \in [Events -> Nat]
  /\ evaluated \subseteq Events
  /\ faults \in 0 .. MaxFaults

(* From the first record that the group has committed on, an offset is       *)
(* committed only when every event before it has been stored and its rules   *)
(* evaluated, or when its record is a dead letter both in the table and in   *)
(* the topic; no crash, duplicate or rebalance skips the rules.              *)
Handled(p, i) ==
  \/ log[p][i] \in dedup \cap evaluated
  \/ <<p, i>> \in deadRows \cap deadTopic

NothingSkipped == \A p \in Partitions : \A i \in origin[p] + 1 .. committed[p] : Handled(p, i)

(* However often an event is delivered, and whatever has been deleted since, *)
(* no rule is triggered by it twice.                                         *)
TriggeredOnce == \A e \in Events : \A r \in Rules : fired[e][r] <= 1

(* The decision boundary runs at most once for an event.                     *)
DecidedOnce == \A e \in Events : decisions[e] <= 1

(* A reading is stored once: one that retention has deleted does not come    *)
(* back, although Kafka or MQTT may deliver its event again.                 *)
StoredOnce == \A e \in Events : stored[e] <= 1

(* The effects of an event that cannot be taken back happen once, on however *)
(* many workers it is in hand at the same time.                              *)
EffectsOnce == StoredOnce /\ TriggeredOnce /\ DecidedOnce

(* Nothing a worker, a rebalance or a poisonous record does keeps a          *)
(* partition from advancing past every record of it, once the group has      *)
(* committed an offset, or has begun to fetch before the record and does not *)
(* have to join again before it commits one.                                 *)
Due(p, i) == i <= Len(log[p]) /\ (committed[p] # NoOffset \/ position[p] \in 0 .. i - 1)

JoinsAgain(p) == committed[p] = NoOffset /\ position[p] = NoOffset

EveryRecordHandled ==
  \A p \in Partitions : \A i \in 1 .. MaxRecords :
    Due(p, i) ~> committed[p] >= i \/ JoinsAgain(p)

-----------------------------------------------------------------------------
(* What the documents say and the code does not do.                          *)

(* The Kubernetes README says that delivery is at least once, and handoff     *)
(* 3rd-003 that a crash before the commit is followed by a redelivery.  A     *)
(* group that has not committed an offset of the partition goes on behind the *)
(* record: its reading is stored, and its rules are never evaluated.         *)
InHand(e) == \E w \in Workers : ~ At(w, "idle") /\ EventOf(w) = e

StoredIsEvaluated ==
  \A p \in Partitions : \A i \in 1 .. position[p] :
    log[p][i] \in dedup =>
      Handled(p, i) \/ InHand(log[p][i]) \/ \E j \in i + 1 .. Len(log[p]) : log[p][j] = log[p][i]

(* The Kubernetes README says event and tombstone uniqueness absorbs          *)
(* redelivery; a rule that was cooling down when the event was evaluated left *)
(* no marker, and the redelivery triggers it.                                *)
RedeliveryTriggersNothing ==
  [][\A e \in evaluated : fired'[e] = fired[e]]_vars

(* Handoff 005 says that failures of the decision boundary are recorded      *)
(* without failing the persisted telemetry; when the record of the failure   *)
(* cannot be written either, the telemetry is dead-lettered.                 *)
BoundaryNeverFailsTelemetry ==
  [][\A w \in Workers : task[w].step \in {"decide", "announce", "recordFailure"} =>
        task'[w].step # "bury"]_vars
=============================================================================
