----------------------- MODULE TelemetryPipeline_proofs -----------------------
(***************************************************************************)
(* Proofs about the telemetry pipeline, for any workers, partitions, rules *)
(* and bounds: nothing is skipped that an offset is committed for, and no   *)
(* reading is stored, no rule triggered and no event decided on twice.      *)
(***************************************************************************)
EXTENDS TelemetryPipeline, TLAPS

Working(w) == task[w].step # "idle"

(* A worker at work holds a record of its partition.                        *)
RecordsInHand == \A w \in Workers : Working(w) => task[w].off \in 1 .. Len(log[task[w].part])

Typed == TypeOK /\ RecordsInHand

-------------------------------------------------------------------------------
LEMMA EventsOfRecords ==
  ASSUME Typed, NEW w \in Workers, Working(w)
  PROVE  /\ EventOf(w) \in Events /\ Position(w) \in Partitions \X Nat
         /\ task[w].part \in Partitions /\ task[w].off \in Nat
<1>1. task[w] \in Task /\ task[w].off \in 1 .. Len(log[task[w].part]) /\ log \in [Partitions -> Seq(Events)]
  BY DEF Typed, TypeOK, RecordsInHand
<1>2. task[w].part \in Partitions /\ task[w].off \in Nat
  BY <1>1 DEF Task
<1>3. log[task[w].part] \in Seq(Events)
  BY <1>1, <1>2
<1> QED BY <1>1, <1>2, <1>3 DEF EventOf, Position

LEMMA IdleIsATask == Idle \in Task /\ Idle.step = "idle"
  BY ConstantsAssumption DEF ConstantsAssumption, Idle, Task, Steps

(* A worker that goes on with its record, or drops it, keeps the types.      *)
LEMMA TasksTyped ==
  ASSUME Typed, UNCHANGED log, NEW w \in Workers, NEW step \in Steps,
         Working(w), GoTo(w, step) \/ Drop(w)
  PROVE  task' \in [Workers -> Task] /\ RecordsInHand'
<1>1. task \in [Workers -> Task] /\ RecordsInHand
  BY DEF Typed, TypeOK
<1>2. CASE GoTo(w, step)
  BY <1>1, <1>2 DEF GoTo, Task, RecordsInHand, Working
<1>3. CASE Drop(w)
  <2>1. task' \in [Workers -> Task]
    BY <1>1, <1>3, IdleIsATask DEF Drop
  <2>2. ASSUME NEW v \in Workers, Working(v)' PROVE task'[v] = task[v] /\ Working(v)
    BY <1>1, <1>3, <2>2, IdleIsATask DEF Drop, Working
  <2> QED BY <1>1, <2>1, <2>2 DEF RecordsInHand
<1> QED BY <1>2, <1>3

LEMMA TypedInit == Init => Typed
<1> SUFFICES ASSUME Init PROVE Typed
  OBVIOUS
<1>1. task \in [Workers -> Task] /\ \A w \in Workers : ~ Working(w)
  BY IdleIsATask DEF Init, Working
<1>2. /\ log \in [Partitions -> Seq(Events)] /\ owner \in [Partitions -> Workers]
      /\ committed \in [Partitions -> Nat \cup {NoOffset}] /\ origin \in [Partitions -> Nat \cup {NoOffset}]
      /\ position \in [Partitions -> Nat \cup {NoOffset}]
  BY DEF Init
<1>3. dedup = {} /\ telemetry = {} /\ audit = {} /\ cooling = {} /\ down = {} /\ deadRows = {} /\ deadTopic = {} /\ evaluated = {}
  BY DEF Init
<1>4. fired \in [Events -> [Rules -> Nat]] /\ decisions \in [Events -> Nat] /\ stored \in [Events -> Nat]
  BY DEF Init
<1>5. faults \in 0 .. MaxFaults
  BY ConstantsAssumption DEF Init, ConstantsAssumption
<1> QED BY <1>1, <1>2, <1>3, <1>4, <1>5 DEF Typed, TypeOK, RecordsInHand

LEMMA TypedAppends ==
  ASSUME Typed, NEW e \in Events, handleMessage(e)
  PROVE  Typed'
<1> DEFINE p == PartitionOf[e]
<1>1. p \in Partitions
  BY ConstantsAssumption DEF ConstantsAssumption
<1>2. log' = [log EXCEPT ![p] = Append(@, e)] /\ log \in [Partitions -> Seq(Events)]
  BY DEF handleMessage, Typed, TypeOK
<1>3. log' \in [Partitions -> Seq(Events)] /\ \A q \in Partitions : Len(log'[q]) >= Len(log[q]) /\ Len(log[q]) \in Nat /\ Len(log'[q]) \in Nat
  <2>1. log[p] \in Seq(Events) /\ Append(log[p], e) \in Seq(Events) /\ Len(Append(log[p], e)) = Len(log[p]) + 1
    BY <1>1, <1>2
  <2>2. log' \in [Partitions -> Seq(Events)]
    BY <1>2, <2>1
  <2>3. \A q \in Partitions : log'[q] = IF q = p THEN Append(log[p], e) ELSE log[q]
    BY <1>2
  <2>4. \A q \in Partitions : Len(log[q]) \in Nat
    BY <1>2
  <2> QED BY <2>1, <2>2, <2>3, <2>4
<1>4. RecordsInHand'
  <2> SUFFICES ASSUME NEW w \in Workers, Working(w)' PROVE task'[w].off \in 1 .. Len(log'[task'[w].part])
    BY DEF RecordsInHand
  <2>1. task' = task /\ Working(w)
    BY DEF handleMessage, Working
  <2>2. task[w].off \in 1 .. Len(log[task[w].part]) /\ task[w].part \in Partitions
    BY <2>1, EventsOfRecords DEF Typed, RecordsInHand
  <2> QED BY <2>1, <2>2, <1>3
<1>5. faults' \in 0 .. MaxFaults
  <2>1. Fault \/ UNCHANGED faults
    BY DEF handleMessage
  <2>2. faults \in 0 .. MaxFaults /\ MaxFaults \in Nat
    BY ConstantsAssumption DEF Typed, TypeOK, ConstantsAssumption
  <2> QED BY <2>1, <2>2 DEF Fault
<1> QED BY <1>3, <1>4, <1>5 DEF Typed, TypeOK, handleMessage, dbVars, deadVars, historyVars

LEMMA TypedResolves ==
  ASSUME Typed, NEW w \in Workers, resolveOffsets(w)
  PROVE  Typed'
<1>1. position' \in [Partitions -> Nat \cup {NoOffset}]
  BY DEF resolveOffsets, Typed, TypeOK
<1> QED BY <1>1 DEF resolveOffsets, Typed, TypeOK, RecordsInHand, Working, dbVars, deadVars, historyVars

LEMMA TypedFetches ==
  ASSUME Typed, NEW w \in Workers, eachMessage(w)
  PROVE  Typed'
<1>1. PICK p \in Partitions :
        /\ position[p] # NoOffset /\ position[p] < Len(log[p])
        /\ task' = [task EXCEPT ![w] = [part |-> p, off |-> position[p] + 1, duplicate |-> FALSE,
             step |-> IF log[p][position[p] + 1] \in Malformed THEN "bury" ELSE "insert"]]
  BY DEF eachMessage
<1>2. log[p] \in Seq(Events) /\ position[p] \in Nat /\ task \in [Workers -> Task]
  BY <1>1 DEF Typed, TypeOK
<1>3. position[p] + 1 \in 1 .. Len(log[p])
  BY <1>1, <1>2
<1>4. task' \in [Workers -> Task]
  BY <1>1, <1>2, <1>3 DEF Task, Steps
<1>5. RecordsInHand'
  BY <1>1, <1>2, <1>3 DEF RecordsInHand, Typed, Working, eachMessage, kafkaVars
<1> QED BY <1>4, <1>5 DEF Typed, TypeOK, eachMessage, kafkaVars, dbVars, deadVars, historyVars

LEMMA TypedInserts ==
  ASSUME Typed, NEW w \in Workers, Insert(w) \/ InsertFails(w)
  PROVE  Typed'
<1>1. Working(w) /\ UNCHANGED log
  BY DEF Insert, InsertFails, At, Working, kafkaVars
<1>2. EventOf(w) \in Events
  BY <1>1, EventsOfRecords
<1>3. task' \in [Workers -> Task] /\ RecordsInHand'
  <2>1. CASE Insert(w)
    <3>0. PICK b \in BOOLEAN : b = (EventOf(w) \in dedup)
      <4>1. ASSUME EventOf(w) \in dedup PROVE TRUE = (EventOf(w) \in dedup)
        BY <4>1
      <4>2. ASSUME EventOf(w) \notin dedup PROVE FALSE = (EventOf(w) \in dedup)
        BY <4>2
      <4> QED BY <4>1, <4>2
    <3>1. task' = [task EXCEPT ![w].step = "rules", ![w].duplicate = b] /\ task \in [Workers -> Task]
      BY <2>1, <3>0 DEF Insert, Typed, TypeOK
    <3>2. task' \in [Workers -> Task]
      BY <3>1 DEF Task, Steps
    <3>3. \A v \in Workers : task'[v].part = task[v].part /\ task'[v].off = task[v].off
                            /\ (Working(v)' => Working(v))
      BY <1>1, <3>1 DEF Task, Working
    <3> QED BY <1>1, <3>2, <3>3 DEF Typed, RecordsInHand
  <2>2. CASE InsertFails(w)
    BY <1>1, <2>2, TasksTyped DEF InsertFails, Steps
  <2> QED BY <2>1, <2>2
<1>4. faults' \in 0 .. MaxFaults
  BY ConstantsAssumption DEF Insert, InsertFails, Fault, Typed, TypeOK, ConstantsAssumption
<1>5. stored' \in [Events -> Nat] /\ dedup' \subseteq Events /\ telemetry' \subseteq Events
  <2>1. PICK e \in Events : e = EventOf(w)
    BY <1>2
  <2>2. stored \in [Events -> Nat] /\ dedup \subseteq Events /\ telemetry \subseteq Events
    BY DEF Typed, TypeOK
  <2>3. CASE insertTelemetry(e)
    <3>1. dedup' \subseteq Events /\ telemetry' \subseteq Events
      BY <2>2, <2>3 DEF insertTelemetry
    <3>2. stored' \in [Events -> Nat]
      <4>1. CASE e \in dedup
        BY <2>2, <2>3, <4>1 DEF insertTelemetry
      <4>2. CASE e \notin dedup
        BY <2>2, <2>3, <4>2 DEF insertTelemetry
      <4> QED BY <4>1, <4>2
    <3> QED BY <3>1, <3>2
  <2>4. CASE UNCHANGED dbVars
    BY <2>2, <2>4 DEF dbVars
  <2> QED BY <2>1, <2>3, <2>4 DEF Insert, InsertFails
<1>6. UNCHANGED <<kafkaVars, audit, cooling, down, deadVars, historyVars>>
  BY DEF Insert, InsertFails, insertTelemetry, dbVars
<1> QED BY <1>3, <1>4, <1>5, <1>6 DEF Typed, TypeOK, kafkaVars, deadVars, historyVars

LEMMA TypedEvaluates ==
  ASSUME Typed, NEW e \in Events, applyDeterministicRules(e)
  PROVE  /\ audit' \subseteq AuditRow /\ cooling' \subseteq Rules /\ evaluated' \subseteq Events
         /\ fired' \in [Events -> [Rules -> Nat]]
         /\ dedup' \subseteq Events /\ telemetry' \subseteq Events /\ decisions' \in [Events -> Nat]
         /\ stored' \in [Events -> Nat]
<1>1. Matching(e) \subseteq Rules
  BY ConstantsAssumption DEF Matching, ConstantsAssumption
<1>2. audit' \subseteq AuditRow
  BY <1>1 DEF applyDeterministicRules, Typed, TypeOK, AuditRow
<1>3. fired' \in [Events -> [Rules -> Nat]]
  BY DEF applyDeterministicRules, Typed, TypeOK
<1> QED BY <1>1, <1>2, <1>3 DEF applyDeterministicRules, Typed, TypeOK

LEMMA TypedRules ==
  ASSUME Typed, NEW w \in Workers, ApplyRules(w) \/ ApplyRulesThrows(w) \/ ApplyRulesFails(w)
  PROVE  Typed'
<1>1. Working(w) /\ UNCHANGED <<log, committed, owner, position, origin, down, deadRows, deadTopic>>
  BY DEF ApplyRules, ApplyRulesThrows, ApplyRulesFails, At, Working, kafkaVars, deadVars
<1>2. EventOf(w) \in Events
  BY <1>1, EventsOfRecords
<1>3. task' \in [Workers -> Task] /\ RecordsInHand'
  BY <1>1, TasksTyped DEF ApplyRules, ApplyRulesThrows, ApplyRulesFails, AfterRules, Steps
<1>4. faults' \in 0 .. MaxFaults
  BY ConstantsAssumption DEF ApplyRules, ApplyRulesThrows, ApplyRulesFails, Fault, Typed, TypeOK, ConstantsAssumption
<1>5. applyDeterministicRules(EventOf(w)) \/ UNCHANGED <<dbVars, historyVars>>
  BY DEF ApplyRules, ApplyRulesThrows, ApplyRulesFails
<1>6. /\ audit' \subseteq AuditRow /\ cooling' \subseteq Rules /\ evaluated' \subseteq Events
      /\ fired' \in [Events -> [Rules -> Nat]]
      /\ dedup' \subseteq Events /\ telemetry' \subseteq Events /\ decisions' \in [Events -> Nat]
      /\ stored' \in [Events -> Nat]
  BY <1>2, <1>5, TypedEvaluates DEF dbVars, historyVars, Typed, TypeOK
<1> QED BY <1>1, <1>3, <1>4, <1>6 DEF Typed, TypeOK

LEMMA TypedDecides ==
  ASSUME Typed, NEW w \in Workers,
         \/ RunForTelemetry(w) \/ PublishAgentResult(w) \/ RunForTelemetryFails(w)
         \/ RecordMastraDecisionFailed(w) \/ RecordMastraDecisionFailedFails(w)
  PROVE  Typed'
<1>1. Working(w) /\ UNCHANGED <<log, committed, owner, position, origin, down, deadRows, deadTopic>>
  BY DEF RunForTelemetry, PublishAgentResult, RunForTelemetryFails, RecordMastraDecisionFailed,
     RecordMastraDecisionFailedFails, At, Working, kafkaVars, deadVars
<1>2. EventOf(w) \in Events
  BY <1>1, EventsOfRecords
<1>3. task' \in [Workers -> Task] /\ RecordsInHand'
  BY <1>1, TasksTyped DEF RunForTelemetry, PublishAgentResult, RunForTelemetryFails,
     RecordMastraDecisionFailed, RecordMastraDecisionFailedFails, Steps
<1>4. faults' \in 0 .. MaxFaults
  BY ConstantsAssumption DEF RunForTelemetry, PublishAgentResult, RunForTelemetryFails,
     RecordMastraDecisionFailed, RecordMastraDecisionFailedFails, Fault, Typed, TypeOK, ConstantsAssumption
<1>5. \/ Decide(EventOf(w))
      \/ UNCHANGED <<dbVars, historyVars>>
      \/ audit' = audit \cup {<<"mastra.telemetry.failed", EventOf(w)>>}
         /\ UNCHANGED <<dedup, telemetry, stored, cooling, historyVars>>
  BY DEF RunForTelemetry, PublishAgentResult, RunForTelemetryFails, RecordMastraDecisionFailed,
     RecordMastraDecisionFailedFails
<1>6. /\ audit' \subseteq AuditRow /\ decisions' \in [Events -> Nat]
      /\ UNCHANGED <<dedup, telemetry, stored, cooling, fired, evaluated>>
  <2>1. PICK e \in Events : e = EventOf(w)
    BY <1>2
  <2>2. audit \subseteq AuditRow /\ decisions \in [Events -> Nat]
    BY DEF Typed, TypeOK
  <2>3. {<<"mastra.telemetry.decision", e>>, <<"mastra.telemetry.failed", e>>} \subseteq AuditRow
    BY DEF AuditRow
  <2>4. CASE Decide(e)
    BY <2>2, <2>3, <2>4 DEF Decide
  <2>5. CASE ~ Decide(e)
    BY <1>5, <2>1, <2>2, <2>3, <2>5 DEF dbVars, historyVars
  <2> QED BY <2>4, <2>5
<1> QED BY <1>1, <1>3, <1>4, <1>6 DEF Typed, TypeOK

LEMMA PositionsTyped ==
  ASSUME Typed, NEW w \in Workers, position' \in {position, Unresolved(w)}
  PROVE  position' \in [Partitions -> Nat \cup {NoOffset}]
  BY DEF Typed, TypeOK, Unresolved

LEMMA TypedBuries ==
  ASSUME Typed, NEW w \in Workers, InsertDeadLetter(w) \/ PublishDeadLetter(w) \/ DeadLetterFails(w)
  PROVE  Typed'
<1>0. position' \in [Partitions -> Nat \cup {NoOffset}]
  BY PositionsTyped DEF InsertDeadLetter, PublishDeadLetter, DeadLetterFails, kafkaVars, Refetch
<1>1. Working(w) /\ UNCHANGED <<log, committed, owner, origin, dbVars, down, historyVars>>
  BY DEF InsertDeadLetter, PublishDeadLetter, DeadLetterFails, At, Working, kafkaVars
<1>2. Position(w) \in Partitions \X Nat
  BY <1>1, EventsOfRecords
<1>3. task' \in [Workers -> Task] /\ RecordsInHand'
  BY <1>1, TasksTyped DEF InsertDeadLetter, PublishDeadLetter, DeadLetterFails, Steps, kafkaVars
<1>4. faults' \in 0 .. MaxFaults
  BY ConstantsAssumption DEF InsertDeadLetter, PublishDeadLetter, DeadLetterFails, Fault, Typed, TypeOK, ConstantsAssumption
<1>5. deadRows' \subseteq Partitions \X Nat /\ deadTopic' \subseteq Partitions \X Nat
  BY <1>2 DEF InsertDeadLetter, PublishDeadLetter, DeadLetterFails, Typed, TypeOK
<1> QED BY <1>0, <1>1, <1>3, <1>4, <1>5 DEF Typed, TypeOK, dbVars, historyVars

LEMMA TypedEnds ==
  ASSUME Typed, NEW w \in Workers, CommitOffsets(w) \/ CommitOffsetsFails(w) \/ Crash(w)
  PROVE  Typed'
<1>1. Working(w) /\ UNCHANGED <<log, owner, dbVars, down, deadVars, historyVars>> /\ Drop(w)
  BY DEF CommitOffsets, CommitOffsetsFails, Crash, At, Working
<1>2. task' \in [Workers -> Task] /\ RecordsInHand'
  BY <1>1, TasksTyped DEF Steps
<1>3. faults' \in 0 .. MaxFaults
  BY ConstantsAssumption DEF CommitOffsets, CommitOffsetsFails, Crash, Fault, Typed, TypeOK, ConstantsAssumption
<1>4. task[w].part \in Partitions /\ task[w].off \in Nat /\ task[w].off - 1 \in Nat
  BY <1>1, EventsOfRecords DEF Typed, RecordsInHand
<1>5. committed' \in [Partitions -> Nat \cup {NoOffset}] /\ origin' \in [Partitions -> Nat \cup {NoOffset}]
  BY <1>4 DEF CommitOffsets, CommitOffsetsFails, Crash, commitOffset, Typed, TypeOK
<1>6. position' \in [Partitions -> Nat \cup {NoOffset}]
  BY <1>4, PositionsTyped DEF CommitOffsets, CommitOffsetsFails, Crash, Refetch, Typed, TypeOK
<1> QED BY <1>1, <1>2, <1>3, <1>5, <1>6 DEF Typed, TypeOK, dbVars, deadVars, historyVars

LEMMA TypedAround ==
  ASSUME Typed,
         \/ Rebalance
         \/ \E r \in Rules : CooldownEnds(r)
         \/ \E d \in Devices : ToggleDevice(d)
         \/ cleanupRetention
  PROVE  Typed'
<1>1. UNCHANGED <<log, committed, origin, task, dedup, stored, deadVars, historyVars>>
  BY DEF Rebalance, CooldownEnds, ToggleDevice, cleanupRetention, kafkaVars, dbVars
<1>2. faults' \in 0 .. MaxFaults
  BY ConstantsAssumption DEF Rebalance, CooldownEnds, ToggleDevice, cleanupRetention, Fault, Typed, TypeOK, ConstantsAssumption
<1>3. /\ owner' \in [Partitions -> Workers] /\ position' \in [Partitions -> Nat \cup {NoOffset}] /\ telemetry' \subseteq Events /\ audit' \subseteq AuditRow
      /\ cooling' \subseteq Rules /\ down' \subseteq Devices
  BY DEF Rebalance, CooldownEnds, ToggleDevice, cleanupRetention, kafkaVars, dbVars, Typed, TypeOK
<1> QED BY <1>1, <1>2, <1>3 DEF Typed, TypeOK, RecordsInHand, Working, deadVars, historyVars

LEMMA TypedInductive ==
  ASSUME Typed, [Next]_vars
  PROVE  Typed'
<1>1. CASE UNCHANGED vars
  BY <1>1 DEF vars, kafkaVars, dbVars, deadVars, historyVars, Typed, TypeOK, RecordsInHand, Working
<1>2. ASSUME NEW w \in Workers, WorkerStep(w) \/ WorkerFault(w) PROVE Typed'
  BY <1>2, TypedResolves, TypedFetches, TypedInserts, TypedRules, TypedDecides, TypedBuries, TypedEnds DEF WorkerStep, WorkerFault
<1> QED BY <1>1, <1>2, TypedAppends, TypedAround DEF Next

-------------------------------------------------------------------------------
(* Nothing is skipped.                                                      *)

\* What a worker has behind it at each step of its record.
Backed(w) ==
  /\ At(w, "rules") => EventOf(w) \in dedup
  /\ task[w].step \in {"decide", "announce", "recordFailure"} => EventOf(w) \in dedup \cap evaluated
  /\ At(w, "buryPublish") => Position(w) \in deadRows
  /\ At(w, "commit") => Handled(task[w].part, task[w].off)

\* Whoever owns the partition of its record has the one that is next to fetch.
CommitsNext ==
  \A w \in Workers : Working(w) /\ owner[task[w].part] = w =>
    position[task[w].part] # NoOffset /\ task[w].off = position[task[w].part] + 1

\* A fetcher is where the group has committed, or one record behind if the answer
\* to a commit was lost: a commit moves the offset by one or not at all.
Offsets ==
  \A p \in Partitions :
    /\ committed[p] <= Len(log[p]) /\ position[p] <= Len(log[p])
    /\ committed[p] # NoOffset => origin[p] # NoOffset
    /\ position[p] # NoOffset /\ committed[p] # NoOffset => committed[p] \in {position[p], position[p] + 1}

SkipInv ==
  /\ CommitsNext
  /\ \A w \in Workers : Backed(w)
  /\ Offsets
  /\ NothingSkipped

LEMMA GoesTo ==
  ASSUME Typed, NEW w \in Workers, NEW step, GoTo(w, step)
  PROVE  /\ task'[w].step = step /\ task'[w].part = task[w].part /\ task'[w].off = task[w].off
         /\ task'[w].duplicate = task[w].duplicate
         /\ \A v \in Workers \ {w} : task'[v] = task[v]
  BY DEF Typed, TypeOK, Task, GoTo

LEMMA Drops ==
  ASSUME Typed, NEW w \in Workers, Drop(w)
  PROVE  task'[w].step = "idle" /\ \A v \in Workers \ {w} : task'[v] = task[v]
  BY IdleIsATask DEF Typed, TypeOK, Drop

\* What only grows, and does not change where it was.
Grows ==
  /\ dedup \subseteq dedup' /\ evaluated \subseteq evaluated'
  /\ deadRows \subseteq deadRows' /\ deadTopic \subseteq deadTopic'
  /\ \A p \in Partitions : /\ Len(log[p]) \in Nat /\ Len(log[p]) <= Len(log[p])'
                           /\ \A i \in 1 .. Len(log[p]) : log[p][i]' = log[p][i]

LEMMA LogGrows ==
  ASSUME Typed, NEW e \in Events, handleMessage(e)
  PROVE  \A p \in Partitions : /\ Len(log[p]) \in Nat /\ Len(log[p]) <= Len(log[p])'
                               /\ \A i \in 1 .. Len(log[p]) : log[p][i]' = log[p][i]
<1> DEFINE q == PartitionOf[e]
<1>1. q \in Partitions /\ log \in [Partitions -> Seq(Events)] /\ log' = [log EXCEPT ![q] = Append(@, e)]
  BY ConstantsAssumption DEF ConstantsAssumption, handleMessage, Typed, TypeOK
<1> SUFFICES ASSUME NEW p \in Partitions
             PROVE  /\ Len(log[p]) \in Nat /\ Len(log[p]) <= Len(log'[p])
                    /\ \A i \in 1 .. Len(log[p]) : log'[p][i] = log[p][i]
  OBVIOUS
<1>2. log[p] \in Seq(Events) /\ (log'[p] = log[p] \/ log'[p] = Append(log[p], e))
  BY <1>1
<1> QED BY <1>2

LEMMA Growing == ASSUME Typed, [Next]_vars PROVE Grows
<1>1. ASSUME UNCHANGED log
      PROVE  \A p \in Partitions : /\ Len(log[p]) \in Nat /\ Len(log[p]) <= Len(log[p])'
                                   /\ \A i \in 1 .. Len(log[p]) : log[p][i]' = log[p][i]
  BY <1>1 DEF Typed, TypeOK
<1>2. CASE UNCHANGED vars
  BY <1>1, <1>2 DEF Grows, vars, kafkaVars, dbVars, deadVars, historyVars
<1>3. ASSUME NEW e \in Events, handleMessage(e) PROVE Grows
  BY <1>3, LogGrows DEF Grows, handleMessage, dbVars, deadVars, historyVars
<1>4. ASSUME NEW w \in Workers, WorkerStep(w) PROVE Grows
  BY <1>1, <1>4 DEF Grows, WorkerStep, resolveOffsets, eachMessage, Insert, insertTelemetry, ApplyRules, applyDeterministicRules,
     ApplyRulesThrows, RunForTelemetry, Decide, PublishAgentResult, RecordMastraDecisionFailed,
     InsertDeadLetter, PublishDeadLetter, CommitOffsets, kafkaVars, dbVars, deadVars, historyVars
<1>5. ASSUME NEW w \in Workers, WorkerFault(w) PROVE Grows
  BY <1>1, <1>5 DEF Grows, WorkerFault, InsertFails, insertTelemetry, ApplyRulesFails, applyDeterministicRules,
     RunForTelemetryFails, Decide, RecordMastraDecisionFailedFails, DeadLetterFails, CommitOffsetsFails, Crash,
     kafkaVars, dbVars, deadVars, historyVars
<1>6. CASE \/ Rebalance
           \/ \E r \in Rules : CooldownEnds(r)
           \/ \E d \in Devices : ToggleDevice(d)
           \/ cleanupRetention
  BY <1>1, <1>6 DEF Grows, Rebalance, CooldownEnds, ToggleDevice, cleanupRetention, kafkaVars, dbVars, deadVars, historyVars
<1> QED BY <1>2, <1>3, <1>4, <1>5, <1>6 DEF Next

LEMMA HandledForGood ==
  ASSUME Grows, NEW p \in Partitions, NEW i \in 1 .. Len(log[p]), Handled(p, i)
  PROVE  Handled(p, i)'
  BY DEF Grows, Handled

\* A worker whose step is the same has as much behind it.
LEMMA BackedKept ==
  ASSUME Typed, Grows, NEW w \in Workers, Backed(w), task'[w] = task[w]
  PROVE  Backed(w)'
<1>1. CASE ~ Working(w)
  BY <1>1 DEF Backed, At, Working
<1>2. CASE Working(w)
  <2>1. task[w].part \in Partitions /\ task[w].off \in 1 .. Len(log[task[w].part])
    BY <1>2, EventsOfRecords DEF Typed, RecordsInHand
  <2>2. EventOf(w)' = EventOf(w) /\ Position(w)' = Position(w)
    BY <2>1 DEF Grows, EventOf, Position
  <2>3. At(w, "commit") => Handled(task[w].part, task[w].off)'
    BY <2>1, HandledForGood DEF Backed
  <2> QED BY <2>2, <2>3 DEF Backed, At, Grows, Handled
<1> QED BY <1>1, <1>2

\* What is between the origin and the committed offset stays handled.
LEMMA SkippedKept ==
  ASSUME Typed, SkipInv, Grows, UNCHANGED <<committed, origin>>
  PROVE  NothingSkipped'
<1> SUFFICES ASSUME NEW p \in Partitions, NEW i \in origin[p] + 1 .. committed[p] PROVE Handled(p, i)'
  BY DEF NothingSkipped
<1>1. committed[p] \in Nat \cup {NoOffset} /\ origin[p] \in Nat \cup {NoOffset}
      /\ Len(log[p]) \in Nat /\ committed[p] <= Len(log[p])
  BY DEF Typed, TypeOK, SkipInv, Offsets
<1>2. i \in Int /\ origin[p] + 1 <= i /\ i <= committed[p]
  BY <1>1 DEF NoOffset
<1>3. i \in 1 .. Len(log[p])
  <2>1. CASE committed[p] = NoOffset
    BY <1>1, <1>2, <2>1 DEF NoOffset
  <2>2. CASE committed[p] # NoOffset /\ origin[p] # NoOffset
    BY <1>1, <1>2, <2>2
  <2>3. CASE committed[p] # NoOffset /\ origin[p] = NoOffset
    BY <2>3 DEF SkipInv, Offsets
  <2> QED BY <2>1, <2>2, <2>3
<1>4. Handled(p, i)
  BY DEF SkipInv, NothingSkipped
<1> QED BY <1>3, <1>4, HandledForGood

LEMMA OffsetsKept ==
  ASSUME Typed, SkipInv, Grows, UNCHANGED <<committed, origin>>,
         \A p \in Partitions : position'[p] \in {position[p], NoOffset}
  PROVE  Offsets'
<1> SUFFICES ASSUME NEW p \in Partitions
             PROVE  /\ committed[p] <= Len(log'[p]) /\ position'[p] <= Len(log'[p])
                    /\ committed[p] # NoOffset => origin[p] # NoOffset
                    /\ position'[p] # NoOffset /\ committed[p] # NoOffset =>
                         committed[p] \in {position'[p], position'[p] + 1}
  BY DEF Offsets
<1>1. /\ committed[p] \in Nat \cup {NoOffset} /\ position[p] \in Nat \cup {NoOffset}
      /\ Len(log[p]) \in Nat /\ Len(log[p]) <= Len(log'[p]) /\ Len(log'[p]) \in Nat
  BY DEF Typed, TypeOK, Grows
<1> QED BY <1>1 DEF SkipInv, Offsets, NoOffset

\* A worker that goes on with the same record and commits nothing.
LEMMA SkipGoesOn ==
  ASSUME Typed, Typed', SkipInv, Grows, UNCHANGED <<log, committed, owner, origin>>, NEW w \in Workers, NEW step,
         Working(w), (GoTo(w, step) /\ UNCHANGED position) \/ (Drop(w) /\ Refetch(w)), Backed(w)'
  PROVE  SkipInv'
<1>1. \A v \in Workers \ {w} : task'[v] = task[v]
  BY GoesTo, Drops
<1>2. \A v \in Workers : Backed(v)'
  BY <1>1, BackedKept DEF SkipInv
<1>3. \A p \in Partitions : position'[p] \in {position[p], NoOffset} /\ (owner[p] # w => position'[p] = position[p])
  BY DEF Refetch, Unresolved, Typed, TypeOK
<1>4. CommitsNext'
  <2> SUFFICES ASSUME NEW v \in Workers, Working(v)', owner[task'[v].part] = v
               PROVE  position'[task'[v].part] # NoOffset /\ task'[v].off = position'[task'[v].part] + 1
    BY DEF CommitsNext
  <2>1. CASE v = w
    <3>1. GoTo(w, step) /\ UNCHANGED position
      BY <2>1, Drops DEF Working
    <3> QED BY <2>1, <3>1, GoesTo DEF SkipInv, CommitsNext
  <2>2. CASE v # w
    BY <1>1, <1>3, <2>2, EventsOfRecords DEF SkipInv, CommitsNext, Working
  <2> QED BY <2>1, <2>2
<1>5. Offsets'
  BY <1>3, OffsetsKept
<1> QED BY <1>2, <1>4, <1>5, SkippedKept DEF SkipInv

LEMMA SkipRules ==
  ASSUME Typed, Typed', SkipInv, Grows, NEW w \in Workers,
         \/ Insert(w) \/ InsertFails(w)
         \/ ApplyRules(w) \/ ApplyRulesThrows(w) \/ ApplyRulesFails(w)
  PROVE  SkipInv'
<1>1. Working(w) /\ UNCHANGED kafkaVars
  BY DEF Insert, InsertFails, ApplyRules, ApplyRulesThrows, ApplyRulesFails, At, Working
<1>2. CASE Insert(w)
  <2>1. /\ task'[w].step = "rules" /\ task'[w].part = task[w].part /\ task'[w].off = task[w].off
        /\ \A v \in Workers \ {w} : task'[v] = task[v]
    BY <1>2 DEF Insert, Typed, TypeOK, Task
  <2>2. Backed(w)'
    BY <1>1, <1>2, <2>1 DEF Backed, At, Insert, insertTelemetry, EventOf, kafkaVars
  <2>3. \A v \in Workers : Backed(v)'
    BY <2>1, <2>2, BackedKept DEF SkipInv
  <2>4. CommitsNext'
    BY <1>1, <2>1 DEF SkipInv, CommitsNext, Working, kafkaVars
  <2>5. Offsets'
    BY <1>1, OffsetsKept DEF kafkaVars
  <2> QED BY <1>1, <2>3, <2>4, <2>5, SkippedKept DEF SkipInv, kafkaVars
<1>3. CASE ~ Insert(w)
  <2>1. PICK step \in {"bury", "decide", "commit"} : GoTo(w, step) /\ (step = "bury" \/ ApplyRules(w))
    BY <1>3 DEF InsertFails, ApplyRules, ApplyRulesThrows, ApplyRulesFails, AfterRules
  <2>2. Backed(w)'
    <3>1. task'[w].step = step /\ task'[w].part = task[w].part /\ task'[w].off = task[w].off
      BY <2>1, GoesTo
    <3>2. CASE step = "bury"
      BY <3>1, <3>2 DEF Backed, At
    <3>3. CASE step # "bury"
      <4>1. ApplyRules(w)
        BY <2>1, <3>3
      <4>2. EventOf(w) \in dedup /\ EventOf(w) \in evaluated'
        BY <4>1 DEF ApplyRules, applyDeterministicRules, SkipInv, Backed
      <4>3. EventOf(w)' = EventOf(w) /\ EventOf(w) \in dedup' \cap evaluated'
        BY <1>1, <3>1, <4>2 DEF EventOf, kafkaVars, Grows
      <4>4. step = "commit" => Handled(task[w].part, task[w].off)'
        BY <1>1, <4>3 DEF Handled, EventOf, kafkaVars
      <4> QED BY <2>1, <3>1, <3>3, <4>3, <4>4 DEF Backed, At, Handled
    <3> QED BY <3>2, <3>3
  <2> QED BY <1>1, <2>1, <2>2, SkipGoesOn DEF kafkaVars
<1> QED BY <1>2, <1>3

LEMMA SkipDecides ==
  ASSUME Typed, Typed', SkipInv, Grows, NEW w \in Workers,
         \/ RunForTelemetry(w) \/ PublishAgentResult(w) \/ RunForTelemetryFails(w)
         \/ RecordMastraDecisionFailed(w) \/ RecordMastraDecisionFailedFails(w)
  PROVE  SkipInv'
<1>1. /\ task[w].step \in {"decide", "announce", "recordFailure"} /\ Working(w) /\ UNCHANGED kafkaVars
  BY DEF RunForTelemetry, PublishAgentResult, RunForTelemetryFails, RecordMastraDecisionFailed,
     RecordMastraDecisionFailedFails, At, Working
<1>2. PICK step \in {"announce", "recordFailure", "commit", "bury"} : GoTo(w, step)
  BY DEF RunForTelemetry, PublishAgentResult, RunForTelemetryFails, RecordMastraDecisionFailed,
     RecordMastraDecisionFailedFails
<1>3. EventOf(w) \in dedup' \cap evaluated'
  BY <1>1 DEF SkipInv, Backed, Grows
<1>4. task'[w].step = step /\ task'[w].part = task[w].part /\ task'[w].off = task[w].off
  BY <1>2, GoesTo
<1>5. EventOf(w)' = EventOf(w)
  BY <1>1, <1>4 DEF EventOf, kafkaVars
<1>6. Handled(task[w].part, task[w].off)'
  BY <1>3, <1>5 DEF Handled, EventOf
<1>7. Backed(w)'
  BY <1>3, <1>4, <1>5, <1>6 DEF Backed, At, Handled
<1> QED BY <1>1, <1>2, <1>7, SkipGoesOn DEF kafkaVars

LEMMA SkipBuries ==
  ASSUME Typed, Typed', SkipInv, Grows, NEW w \in Workers,
         InsertDeadLetter(w) \/ PublishDeadLetter(w) \/ DeadLetterFails(w)
  PROVE  SkipInv'
<1>1. Working(w) /\ UNCHANGED <<log, committed, owner, origin>>
  BY DEF InsertDeadLetter, PublishDeadLetter, DeadLetterFails, At, Working, kafkaVars
<1>2. CASE InsertDeadLetter(w)
  <2>1. GoTo(w, "buryPublish") /\ Position(w) \in deadRows' /\ UNCHANGED position
    BY <1>2 DEF InsertDeadLetter, kafkaVars
  <2>2. task'[w].step = "buryPublish" /\ Position(w)' = Position(w)
    BY <2>1, GoesTo DEF Position
  <2>3. Backed(w)'
    BY <2>1, <2>2 DEF Backed, At
  <2> QED BY <1>1, <2>1, <2>3, SkipGoesOn
<1>3. CASE PublishDeadLetter(w)
  <2>1. GoTo(w, "commit") /\ Position(w) \in deadRows' \cap deadTopic' /\ UNCHANGED position
    BY <1>3 DEF PublishDeadLetter, SkipInv, Backed, kafkaVars
  <2>2. task'[w].step = "commit" /\ task'[w].part = task[w].part /\ task'[w].off = task[w].off
    BY <2>1, GoesTo
  <2>3. Backed(w)'
    BY <2>1, <2>2 DEF Backed, At, Handled, Position
  <2> QED BY <1>1, <2>1, <2>3, SkipGoesOn
<1>4. CASE DeadLetterFails(w)
  <2>1. Drop(w) /\ Refetch(w)
    BY <1>4 DEF DeadLetterFails
  <2>2. Backed(w)'
    BY <2>1, Drops DEF Backed, At
  <2> QED BY <1>1, <2>1, <2>2, SkipGoesOn
<1> QED BY <1>2, <1>3, <1>4

\* The commit that takes effect is of the next record, and that one is handled.
LEMMA SkipCommits ==
  ASSUME Typed, Typed', SkipInv, Grows, NEW w \in Workers,
         CommitOffsets(w) \/ CommitOffsetsFails(w), owner[task[w].part] = w, commitOffset(w)
  PROVE  SkipInv'
<1> DEFINE p == task[w].part
           i == task[w].off
<1>1. /\ Working(w) /\ At(w, "commit") /\ UNCHANGED <<log, owner>> /\ Drop(w)
      /\ committed' = [committed EXCEPT ![p] = i]
      /\ origin' = [origin EXCEPT ![p] = IF committed[p] = NoOffset THEN i - 1 ELSE @]
  BY DEF CommitOffsets, CommitOffsetsFails, commitOffset, At, Working
<1>2. /\ p \in Partitions /\ i \in 1 .. Len(log[p]) /\ Len(log[p]) \in Nat /\ i \in Nat
      /\ committed \in [Partitions -> Nat \cup {NoOffset}] /\ origin \in [Partitions -> Nat \cup {NoOffset}]
      /\ position \in [Partitions -> Nat \cup {NoOffset}]
  <2>1. p \in Partitions /\ i \in 1 .. Len(log[p])
    BY <1>1, EventsOfRecords DEF Typed, RecordsInHand
  <2>2. Len(log[p]) \in Nat
    BY <2>1 DEF Grows
  <2>3. i \in Nat
    BY <2>1, <2>2
  <2> QED BY <2>1, <2>2, <2>3 DEF Typed, TypeOK
<1>3. task'[w].step = "idle" /\ \A v \in Workers \ {w} : task'[v] = task[v]
  BY <1>1, Drops
<1>4. position[p] \in Nat /\ i = position[p] + 1 /\ Handled(p, i)
  BY <1>1, <1>2 DEF SkipInv, CommitsNext, Backed
<1>5. /\ position'[p] \in {position[p], i, NoOffset}
      /\ \A q \in Partitions \ {p} : /\ position'[q] \in {position[q], NoOffset}
                                     /\ owner[q] # w => position'[q] = position[q]
  BY <1>2 DEF CommitOffsets, CommitOffsetsFails, Refetch, Unresolved
<1>6. \A v \in Workers : Backed(v)'
  <2>1. Backed(w)'
    BY <1>3 DEF Backed, At
  <2> QED BY <1>3, <2>1, BackedKept DEF SkipInv
<1>7. CommitsNext'
  <2> SUFFICES ASSUME NEW v \in Workers, Working(v)', owner'[task'[v].part] = v
               PROVE  position'[task'[v].part] # NoOffset /\ task'[v].off = position'[task'[v].part] + 1
    BY DEF CommitsNext
  <2>1. v # w /\ task'[v] = task[v] /\ Working(v) /\ owner[task[v].part] = v
    BY <1>1, <1>3 DEF Working
  <2>2. task[v].part \in Partitions \ {p}
    BY <2>1, EventsOfRecords
  <2> QED BY <1>5, <2>1, <2>2 DEF SkipInv, CommitsNext
<1>8. Offsets'
  <2> SUFFICES ASSUME NEW q \in Partitions
               PROVE  /\ committed'[q] <= Len(log[q]) /\ position'[q] <= Len(log[q])
                      /\ committed'[q] # NoOffset => origin'[q] # NoOffset
                      /\ position'[q] # NoOffset /\ committed'[q] # NoOffset =>
                           committed'[q] \in {position'[q], position'[q] + 1}
    BY <1>1 DEF Offsets
  <2>1. CASE q = p
    <3>1. committed'[p] = i /\ (origin'[p] = i - 1 \/ (committed[p] # NoOffset /\ origin'[p] = origin[p]))
      BY <1>1, <1>2
    <3>2. origin'[p] # NoOffset
      BY <1>2, <3>1 DEF SkipInv, Offsets, NoOffset
    <3> QED BY <1>2, <1>4, <1>5, <2>1, <3>1, <3>2 DEF NoOffset
  <2>2. CASE q # p
    <3>1. committed'[q] = committed[q] /\ origin'[q] = origin[q] /\ position'[q] \in {position[q], NoOffset}
      BY <1>1, <1>2, <1>5, <2>2
    <3>2. Len(log[q]) \in Nat
      BY DEF Grows
    <3> QED BY <3>1, <3>2 DEF SkipInv, Offsets, NoOffset
  <2> QED BY <2>1, <2>2
<1>9. NothingSkipped'
  <2> SUFFICES ASSUME NEW q \in Partitions, NEW j \in origin'[q] + 1 .. committed'[q] PROVE Handled(q, j)'
    BY DEF NothingSkipped
  <2>1. CASE q # p
    <3>1. j \in origin[q] + 1 .. committed[q]
      BY <1>1, <1>2, <2>1
    <3>2. Handled(q, j)
      BY <3>1 DEF SkipInv, NothingSkipped
    <3>3. j \in 1 .. Len(log[q])
      BY <1>2, <3>1 DEF SkipInv, Offsets, NoOffset, Grows
    <3> QED BY <3>2, <3>3, HandledForGood
  <2>2. CASE q = p
    <3>1. committed'[p] = i
      BY <1>1, <1>2
    <3>2. j = i \/ (j \in origin[p] + 1 .. committed[p] /\ origin[p] # NoOffset)
      <4>1. CASE committed[p] = NoOffset
        <5>1. origin'[p] = i - 1
          BY <1>1, <1>2, <4>1
        <5> QED BY <1>2, <2>2, <3>1, <5>1
      <4>2. CASE committed[p] # NoOffset
        <5>1. origin'[p] = origin[p] /\ origin[p] # NoOffset /\ committed[p] \in {position[p], position[p] + 1}
          BY <1>1, <1>2, <1>4, <4>2 DEF SkipInv, Offsets, NoOffset
        <5> QED BY <1>2, <1>4, <2>2, <3>1, <5>1 DEF NoOffset
      <4> QED BY <4>1, <4>2
    <3>3. Handled(p, j)
      <4>1. CASE j = i
        BY <1>4, <4>1
      <4>2. CASE j \in origin[p] + 1 .. committed[p]
        BY <1>2, <4>2 DEF SkipInv, NothingSkipped
      <4> QED BY <3>2, <4>1, <4>2
    <3>4. j \in 1 .. Len(log[p])
      BY <1>2, <3>2 DEF SkipInv, Offsets, NoOffset
    <3> QED BY <1>2, <2>2, <3>3, <3>4, HandledForGood
  <2> QED BY <2>1, <2>2
<1> QED BY <1>6, <1>7, <1>8, <1>9 DEF SkipInv

LEMMA SkipEnds ==
  ASSUME Typed, Typed', SkipInv, Grows, NEW w \in Workers, CommitOffsets(w) \/ CommitOffsetsFails(w) \/ Crash(w)
  PROVE  SkipInv'
<1>1. CASE owner[task[w].part] = w /\ commitOffset(w) /\ ~ Crash(w)
  BY <1>1, SkipCommits
<1>2. CASE ~ (owner[task[w].part] = w /\ commitOffset(w) /\ ~ Crash(w))
  <2>1. Working(w) /\ UNCHANGED <<log, committed, owner, origin>> /\ Drop(w) /\ Refetch(w)
    BY <1>2 DEF CommitOffsets, CommitOffsetsFails, Crash, commitOffset, Refetch, At, Working
  <2>2. Backed(w)'
    BY <2>1, Drops DEF Backed, At
  <2> QED BY <2>1, <2>2, SkipGoesOn
<1> QED BY <1>1, <1>2

\* A fetcher that has resolved where it goes on belongs to a worker between records.
LEMMA SkipResolves ==
  ASSUME Typed, Typed', SkipInv, Grows, NEW w \in Workers, resolveOffsets(w)
  PROVE  SkipInv'
<1>1. UNCHANGED <<log, committed, owner, origin, task>> /\ ~ Working(w)
  BY DEF resolveOffsets, At, Working
<1>2. \A v \in Workers : Backed(v)'
  BY <1>1, BackedKept DEF SkipInv
<1>3. ASSUME NEW p \in Partitions
      PROVE  \/ position'[p] = position[p]
             \/ /\ owner[p] = w
                /\ position'[p] = IF committed[p] = NoOffset THEN Len(log[p]) ELSE committed[p]
  BY DEF resolveOffsets
<1>4. CommitsNext'
  <2> SUFFICES ASSUME NEW v \in Workers, Working(v), owner[task[v].part] = v
               PROVE  position'[task[v].part] # NoOffset /\ task[v].off = position'[task[v].part] + 1
    BY <1>1 DEF CommitsNext, Working
  <2>1. v # w /\ task[v].part \in Partitions
    BY <1>1, EventsOfRecords
  <2> QED BY <1>3, <2>1 DEF SkipInv, CommitsNext
<1>5. Offsets'
  <2> SUFFICES ASSUME NEW p \in Partitions
               PROVE  /\ committed[p] <= Len(log[p]) /\ position'[p] <= Len(log[p])
                      /\ committed[p] # NoOffset => origin[p] # NoOffset
                      /\ position'[p] # NoOffset /\ committed[p] # NoOffset =>
                           committed[p] \in {position'[p], position'[p] + 1}
    BY <1>1 DEF Offsets
  <2>1. Len(log[p]) \in Nat
    BY DEF Grows
  <2> QED BY <1>3, <2>1 DEF SkipInv, Offsets
<1> QED BY <1>1, <1>2, <1>4, <1>5, SkippedKept DEF SkipInv

LEMMA SkipFetches ==
  ASSUME Typed, Typed', SkipInv, Grows, NEW w \in Workers, eachMessage(w)
  PROVE  SkipInv'
<1>1. PICK p \in Partitions, step \in {"bury", "insert"} :
        /\ owner[p] = w /\ position[p] # NoOffset
        /\ task' = [task EXCEPT ![w] = [part |-> p, off |-> position[p] + 1, duplicate |-> FALSE, step |-> step]]
  <2>1. PICK p \in Partitions :
        /\ owner[p] = w /\ position[p] # NoOffset
        /\ task' = [task EXCEPT ![w] = [part |-> p, off |-> position[p] + 1, duplicate |-> FALSE,
             step |-> IF log[p][position[p] + 1] \in Malformed THEN "bury" ELSE "insert"]]
    BY DEF eachMessage
  <2>2. PICK step \in {"bury", "insert"} : step = IF log[p][position[p] + 1] \in Malformed THEN "bury" ELSE "insert"
    BY Zenon
  <2> QED BY <2>1, <2>2
<1>2. UNCHANGED kafkaVars /\ task \in [Workers -> Task]
  BY DEF eachMessage, Typed, TypeOK
<1>3. Backed(w)'
  BY <1>1, <1>2 DEF Backed, At
<1>4. \A v \in Workers : Backed(v)'
  BY <1>1, <1>2, <1>3, BackedKept DEF SkipInv
<1>5. CommitsNext'
  BY <1>1, <1>2 DEF SkipInv, CommitsNext, Working, kafkaVars
<1>6. Offsets'
  BY <1>2, OffsetsKept DEF kafkaVars
<1> QED BY <1>2, <1>4, <1>5, <1>6, SkippedKept DEF SkipInv, kafkaVars

LEMMA SkipAppends ==
  ASSUME Typed, Typed', SkipInv, Grows, NEW e \in Events, handleMessage(e)
  PROVE  SkipInv'
<1>1. UNCHANGED <<task, committed, owner, position, origin>>
  BY DEF handleMessage
<1>2. \A v \in Workers : Backed(v)'
  BY <1>1, BackedKept DEF SkipInv
<1>3. CommitsNext'
  BY <1>1 DEF SkipInv, CommitsNext, Working
<1>4. Offsets'
  BY <1>1, OffsetsKept
<1> QED BY <1>1, <1>2, <1>3, <1>4, SkippedKept DEF SkipInv

LEMMA SkipAround ==
  ASSUME Typed, Typed', SkipInv, Grows,
         \/ Rebalance
         \/ \E r \in Rules : CooldownEnds(r)
         \/ \E d \in Devices : ToggleDevice(d)
         \/ cleanupRetention
         \/ UNCHANGED vars
  PROVE  SkipInv'
<1>1. UNCHANGED <<log, committed, origin, task>>
  BY DEF Rebalance, CooldownEnds, ToggleDevice, cleanupRetention, kafkaVars, vars
<1>2. \A v \in Workers : Backed(v)'
  BY <1>1, BackedKept DEF SkipInv
<1>3. UNCHANGED <<owner, position>> \/ Rebalance
  BY DEF CooldownEnds, ToggleDevice, cleanupRetention, kafkaVars, vars
<1>4. CommitsNext'
  <2>1. CASE UNCHANGED <<owner, position>>
    BY <1>1, <2>1 DEF SkipInv, CommitsNext, Working
  <2>2. CASE Rebalance
    <3> SUFFICES ASSUME NEW v \in Workers, Working(v), owner'[task[v].part] = v PROVE FALSE
      BY <1>1 DEF CommitsNext, Working
    <3>1. task[v].part \in Partitions
      BY EventsOfRecords
    <3> QED BY <2>2, <3>1 DEF Rebalance, At, Working
  <2> QED BY <1>3, <2>1, <2>2
<1>5. Offsets'
  <2>1. \A p \in Partitions : position'[p] \in {position[p], NoOffset}
    BY <1>3 DEF Rebalance
  <2> QED BY <1>1, <2>1, OffsetsKept
<1> QED BY <1>1, <1>2, <1>4, <1>5, SkippedKept DEF SkipInv

LEMMA SkipInit == Init => SkipInv
<1> SUFFICES ASSUME Init PROVE SkipInv
  OBVIOUS
<1>1. \A w \in Workers : task[w].step = "idle"
  BY IdleIsATask DEF Init
<1>2. \A p \in Partitions : /\ committed[p] \in {0, NoOffset} /\ Len(log[p]) = 0
                            /\ position[p] = NoOffset /\ origin[p] = committed[p]
  BY DEF Init
<1>3. Offsets
  BY <1>2 DEF Offsets, NoOffset
<1>4. NothingSkipped
  BY <1>2 DEF NothingSkipped, NoOffset
<1> QED BY <1>1, <1>3, <1>4 DEF SkipInv, CommitsNext, Working, Backed, At

LEMMA SkipInductive ==
  ASSUME Typed, SkipInv, [Next]_vars
  PROVE  SkipInv'
<1>1. Typed' /\ Grows
  BY TypedInductive, Growing
<1>2. ASSUME NEW w \in Workers, WorkerStep(w) \/ WorkerFault(w) PROVE SkipInv'
  BY <1>1, <1>2, SkipResolves, SkipFetches, SkipRules, SkipDecides, SkipBuries, SkipEnds DEF WorkerStep, WorkerFault
<1> QED BY <1>1, <1>2, SkipAppends, SkipAround DEF Next

-------------------------------------------------------------------------------
(* Nothing is decided twice.                                                *)

\* The worker that stored the event, and has not come past its decision.
Fresh(w) == task[w].step \in {"rules", "decide"} /\ ~ task[w].duplicate

DecisionInv ==
  /\ \A w \in Workers : At(w, "decide") => ~ task[w].duplicate
  /\ \A w \in Workers : Fresh(w) => EventOf(w) \in dedup /\ decisions[EventOf(w)] = 0
  /\ \A v, w \in Workers : Fresh(v) /\ Fresh(w) /\ EventOf(v) = EventOf(w) => v = w
  /\ \A e \in Events : decisions[e] <= 1 /\ (e \notin dedup => decisions[e] = 0)

LEMMA FreshShrinks ==
  ASSUME DecisionInv, Grows, UNCHANGED decisions,
         \A v \in Workers : /\ Fresh(v)' => Fresh(v) /\ EventOf(v)' = EventOf(v)
                            /\ At(v, "decide")' => ~ task'[v].duplicate
  PROVE  DecisionInv'
<1>1. \A v \in Workers : At(v, "decide")' => ~ task'[v].duplicate
  OBVIOUS
<1>2. \A v \in Workers : Fresh(v)' => EventOf(v)' \in dedup' /\ decisions'[EventOf(v)'] = 0
  BY DEF DecisionInv, Grows
<1>3. \A u, v \in Workers : Fresh(u)' /\ Fresh(v)' /\ EventOf(u)' = EventOf(v)' => u = v
  BY DEF DecisionInv
<1>4. \A e \in Events : decisions'[e] <= 1 /\ (e \notin dedup' => decisions'[e] = 0)
  BY DEF DecisionInv, Grows
<1> QED BY <1>1, <1>2, <1>3, <1>4 DEF DecisionInv

LEMMA SameTaskSameEvent ==
  ASSUME Typed, Grows, NEW v \in Workers, task'[v] = task[v]
  PROVE  /\ Fresh(v)' <=> Fresh(v)
         /\ Fresh(v) => EventOf(v)' = EventOf(v)
         /\ At(v, "decide")' <=> At(v, "decide")
<1>1. Working(v) => task[v].part \in Partitions /\ task[v].off \in 1 .. Len(log[task[v].part])
  BY EventsOfRecords DEF Typed, RecordsInHand
<1>2. Working(v) => EventOf(v)' = EventOf(v)
  BY <1>1 DEF Grows, EventOf
<1> QED BY <1>2 DEF Fresh, Working, At

\* A worker that drops its record, or goes on past the decision.
LEMMA FreshGoesOn ==
  ASSUME Typed, DecisionInv, Grows, UNCHANGED decisions, NEW w \in Workers,
         NEW step \in {"announce", "recordFailure", "bury", "buryPublish", "commit"},
         GoTo(w, step) \/ Drop(w)
  PROVE  DecisionInv'
<1>1. task'[w].step \notin {"rules", "decide"} /\ \A v \in Workers \ {w} : task'[v] = task[v]
  BY GoesTo, Drops
<1>2. ASSUME NEW v \in Workers
      PROVE  /\ Fresh(v)' => Fresh(v) /\ EventOf(v)' = EventOf(v)
             /\ At(v, "decide")' => ~ task'[v].duplicate
  <2>1. CASE v = w
    BY <1>1, <2>1 DEF Fresh, At
  <2>2. CASE v # w
    BY <1>1, <2>2, SameTaskSameEvent DEF DecisionInv
  <2> QED BY <2>1, <2>2
<1> QED BY <1>2, FreshShrinks

LEMMA DecisionStored ==
  ASSUME Typed, DecisionInv, Grows, NEW w \in Workers, Insert(w)
  PROVE  DecisionInv'
<1>1. Working(w) /\ EventOf(w) \in Events /\ UNCHANGED <<kafkaVars, decisions>> /\ dedup' = dedup \cup {EventOf(w)}
  BY EventsOfRecords DEF Insert, At, Working, insertTelemetry, historyVars
<1>2. /\ task'[w].step = "rules" /\ task'[w].part = task[w].part /\ task'[w].off = task[w].off
      /\ \A v \in Workers \ {w} : task'[v] = task[v]
  BY DEF Insert, Typed, TypeOK, Task
<1>3. task'[w].duplicate = (EventOf(w) \in dedup)
  BY DEF Insert, Typed, TypeOK, Task
<1>4. EventOf(w)' = EventOf(w)
  BY <1>1, <1>2 DEF EventOf, kafkaVars
<1>5. Fresh(w)' => EventOf(w) \notin dedup
  BY <1>3 DEF Fresh
<1>6. \A v \in Workers \ {w} : Fresh(v)' => Fresh(v) /\ EventOf(v)' = EventOf(v) /\ EventOf(v) \in dedup
  BY <1>2, SameTaskSameEvent DEF DecisionInv
<1>7. \A v \in Workers : At(v, "decide")' => ~ task'[v].duplicate
  BY <1>2, SameTaskSameEvent DEF DecisionInv, At
<1>8. \A v \in Workers : Fresh(v)' => EventOf(v)' \in dedup' /\ decisions'[EventOf(v)'] = 0
  BY <1>1, <1>4, <1>5, <1>6 DEF DecisionInv
<1>9. \A u, v \in Workers : Fresh(u)' /\ Fresh(v)' /\ EventOf(u)' = EventOf(v)' => u = v
  BY <1>4, <1>5, <1>6 DEF DecisionInv
<1>10. \A e \in Events : decisions'[e] <= 1 /\ (e \notin dedup' => decisions'[e] = 0)
  BY <1>1 DEF DecisionInv
<1> QED BY <1>7, <1>8, <1>9, <1>10 DEF DecisionInv

LEMMA DecisionRules ==
  ASSUME Typed, DecisionInv, Grows, NEW w \in Workers, ApplyRules(w)
  PROVE  DecisionInv'
<1>1. At(w, "rules") /\ GoTo(w, AfterRules(w)) /\ UNCHANGED <<kafkaVars, decisions>>
  BY DEF ApplyRules, applyDeterministicRules
<1>2. CASE AfterRules(w) = "commit"
  BY <1>1, <1>2, FreshGoesOn
<1>3. CASE AfterRules(w) # "commit"
  <2>1. AfterRules(w) = "decide" /\ ~ task[w].duplicate
    BY <1>3 DEF AfterRules
  <2>2. /\ task'[w].part = task[w].part /\ task'[w].off = task[w].off
        /\ task'[w].duplicate = task[w].duplicate
        /\ \A v \in Workers \ {w} : task'[v] = task[v]
    BY <1>1, GoesTo
  <2>3. Fresh(w) /\ EventOf(w)' = EventOf(w)
    BY <1>1, <2>1, <2>2 DEF Fresh, At, EventOf, kafkaVars
  <2>4. ASSUME NEW v \in Workers
        PROVE  /\ Fresh(v)' => Fresh(v) /\ EventOf(v)' = EventOf(v)
               /\ At(v, "decide")' => ~ task'[v].duplicate
    <3>1. CASE v = w
      BY <2>1, <2>2, <2>3, <3>1
    <3>2. CASE v # w
      BY <2>2, <3>2, SameTaskSameEvent DEF DecisionInv
    <3> QED BY <3>1, <3>2
  <2> QED BY <1>1, <2>4, FreshShrinks
<1> QED BY <1>2, <1>3

\* The decision of the one worker that may take it.
LEMMA DecisionTaken ==
  ASSUME Typed, DecisionInv, Grows, NEW w \in Workers, NEW step \in {"announce", "recordFailure"},
         At(w, "decide"), Decide(EventOf(w)), GoTo(w, step)
  PROVE  DecisionInv'
<1>1. PICK e \in Events : e = EventOf(w)
  BY EventsOfRecords DEF At, Working
<1>2. decisions' = [decisions EXCEPT ![e] = @ + 1] /\ dedup' = dedup /\ decisions \in [Events -> Nat]
  BY <1>1 DEF Decide, Typed, TypeOK
<1>3. Fresh(w) /\ decisions[e] = 0 /\ e \in dedup
  BY <1>1 DEF Fresh, At, DecisionInv
<1>4. task'[w].step \notin {"rules", "decide"} /\ \A v \in Workers \ {w} : task'[v] = task[v]
  BY GoesTo
<1>5. \A v \in Workers : Fresh(v)' => v # w /\ Fresh(v) /\ EventOf(v)' = EventOf(v) /\ EventOf(v) # e
  BY <1>1, <1>3, <1>4, SameTaskSameEvent DEF DecisionInv, Fresh
<1>6. \A v \in Workers : At(v, "decide")' => ~ task'[v].duplicate
  BY <1>4, SameTaskSameEvent DEF DecisionInv, At
<1>7. \A v \in Workers : Fresh(v)' => EventOf(v)' \in dedup' /\ decisions'[EventOf(v)'] = 0
  <2> SUFFICES ASSUME NEW v \in Workers, Fresh(v)'
               PROVE  EventOf(v) \in dedup /\ decisions'[EventOf(v)] = 0
    BY <1>2, <1>5
  <2>1. EventOf(v) \in Events /\ EventOf(v) \in dedup /\ decisions[EventOf(v)] = 0 /\ EventOf(v) # e
    BY <1>5, EventsOfRecords DEF DecisionInv, Fresh, Working
  <2> QED BY <1>2, <2>1
<1>8. \A u, v \in Workers : Fresh(u)' /\ Fresh(v)' /\ EventOf(u)' = EventOf(v)' => u = v
  BY <1>5 DEF DecisionInv
<1>9. \A f \in Events : decisions'[f] <= 1 /\ (f \notin dedup' => decisions'[f] = 0)
  BY <1>2, <1>3 DEF DecisionInv
<1> QED BY <1>6, <1>7, <1>8, <1>9 DEF DecisionInv

LEMMA DecisionInductive ==
  ASSUME Typed, DecisionInv, [Next]_vars
  PROVE  DecisionInv'
<1>1. Grows
  BY Growing
<1>2. ASSUME UNCHANGED <<task, decisions>> PROVE DecisionInv'
  BY <1>1, <1>2, SameTaskSameEvent, FreshShrinks DEF DecisionInv
<1>3. CASE UNCHANGED vars
  BY <1>2, <1>3 DEF vars, historyVars
<1>4. ASSUME NEW e \in Events, handleMessage(e) PROVE DecisionInv'
  BY <1>2, <1>4 DEF handleMessage, historyVars
<1>5. CASE \/ Rebalance
           \/ \E r \in Rules : CooldownEnds(r)
           \/ \E d \in Devices : ToggleDevice(d)
           \/ cleanupRetention
  BY <1>2, <1>5 DEF Rebalance, CooldownEnds, ToggleDevice, cleanupRetention, historyVars
<1>6. ASSUME NEW w \in Workers, eachMessage(w) PROVE DecisionInv'
  <2>1. PICK p \in Partitions, step \in {"bury", "insert"} :
          task' = [task EXCEPT ![w] = [part |-> p, off |-> position[p] + 1, duplicate |-> FALSE, step |-> step]]
    <3>1. PICK p \in Partitions :
          task' = [task EXCEPT ![w] = [part |-> p, off |-> position[p] + 1, duplicate |-> FALSE,
             step |-> IF log[p][position[p] + 1] \in Malformed THEN "bury" ELSE "insert"]]
      BY <1>6 DEF eachMessage
    <3>2. PICK step \in {"bury", "insert"} : step = IF log[p][position[p] + 1] \in Malformed THEN "bury" ELSE "insert"
      BY Zenon
    <3> QED BY <3>1, <3>2
  <2>2. task'[w].step \notin {"rules", "decide"} /\ \A v \in Workers \ {w} : task'[v] = task[v]
    BY <2>1 DEF Typed, TypeOK
  <2>3. ASSUME NEW v \in Workers
        PROVE  /\ Fresh(v)' => Fresh(v) /\ EventOf(v)' = EventOf(v)
               /\ At(v, "decide")' => ~ task'[v].duplicate
    <3>1. CASE v = w
      BY <2>2, <3>1 DEF Fresh, At
    <3>2. CASE v # w
      BY <1>1, <2>2, <3>2, SameTaskSameEvent DEF DecisionInv
    <3> QED BY <3>1, <3>2
  <2>4. UNCHANGED decisions
    BY <1>6 DEF eachMessage, historyVars
  <2> QED BY <1>1, <2>3, <2>4, FreshShrinks
<1>7. ASSUME NEW w \in Workers, RunForTelemetry(w) \/ RunForTelemetryFails(w) PROVE DecisionInv'
  <2>1. PICK step \in {"announce", "recordFailure"} : GoTo(w, step)
    BY <1>7 DEF RunForTelemetry, RunForTelemetryFails
  <2>2. (At(w, "decide") /\ Decide(EventOf(w))) \/ UNCHANGED decisions
    BY <1>7 DEF RunForTelemetry, RunForTelemetryFails, historyVars
  <2> QED BY <1>1, <2>1, <2>2, DecisionTaken, FreshGoesOn
<1>8. ASSUME NEW w \in Workers, WorkerStep(w) \/ WorkerFault(w) PROVE DecisionInv'
  <2>1. CASE Insert(w) \/ ApplyRules(w)
    BY <1>1, <2>1, DecisionStored, DecisionRules
  <2>2. CASE \/ InsertFails(w) \/ ApplyRulesThrows(w) \/ ApplyRulesFails(w) \/ PublishAgentResult(w)
             \/ RecordMastraDecisionFailed(w) \/ RecordMastraDecisionFailedFails(w) \/ InsertDeadLetter(w)
             \/ PublishDeadLetter(w) \/ DeadLetterFails(w) \/ CommitOffsets(w) \/ CommitOffsetsFails(w) \/ Crash(w)
    <3>1. UNCHANGED decisions
      BY <2>2 DEF InsertFails, ApplyRulesThrows, ApplyRulesFails, applyDeterministicRules, PublishAgentResult,
         RecordMastraDecisionFailed, RecordMastraDecisionFailedFails, InsertDeadLetter, PublishDeadLetter,
         DeadLetterFails, CommitOffsets, CommitOffsetsFails, Crash, historyVars
    <3>2. Drop(w) \/ \E step \in {"announce", "recordFailure", "bury", "buryPublish", "commit"} : GoTo(w, step)
      BY <2>2 DEF InsertFails, ApplyRulesThrows, ApplyRulesFails, PublishAgentResult,
         RecordMastraDecisionFailed, RecordMastraDecisionFailedFails, InsertDeadLetter, PublishDeadLetter,
         DeadLetterFails, CommitOffsets, CommitOffsetsFails, Crash
    <3> QED BY <1>1, <3>1, <3>2, FreshGoesOn
  <2>3. CASE resolveOffsets(w)
    BY <1>2, <2>3 DEF resolveOffsets, historyVars
  <2> QED BY <1>6, <1>7, <1>8, <2>1, <2>2, <2>3 DEF WorkerStep, WorkerFault
<1> QED BY <1>3, <1>4, <1>5, <1>8 DEF Next

LEMMA DecisionInit == Init => DecisionInv
<1> SUFFICES ASSUME Init PROVE DecisionInv
  OBVIOUS
<1>1. \A w \in Workers : task[w].step = "idle"
  BY IdleIsATask DEF Init
<1>2. \A e \in Events : decisions[e] = 0
  BY DEF Init
<1> QED BY <1>1, <1>2 DEF DecisionInv, Fresh, At

-------------------------------------------------------------------------------
(* Nothing is triggered twice.                                              *)

\* The marker of a rule triggered by an event is there from the trigger on.
Marked(e, r) == <<"rule.matched", e, r>> \in audit

MarkerInv == \A e \in Events, r \in Rules : fired[e][r] = IF Marked(e, r) THEN 1 ELSE 0

LEMMA MarkersKept ==
  ASSUME MarkerInv, UNCHANGED fired, \A e \in Events, r \in Rules : Marked(e, r)' <=> Marked(e, r)
  PROVE  MarkerInv'
  BY DEF MarkerInv

LEMMA MarkersSet ==
  ASSUME Typed, MarkerInv, NEW e \in Events, applyDeterministicRules(e)
  PROVE  MarkerInv'
<1>1. fired' = [fired EXCEPT ![e] = [r \in Rules |-> IF r \in Matching(e) THEN @[r] + 1 ELSE @[r]]]
      /\ fired \in [Events -> [Rules -> Nat]]
  BY DEF applyDeterministicRules, Typed, TypeOK
<1>2. audit' = audit \cup {<<"rule.matched", e, r>> : r \in Matching(e)}
  BY DEF applyDeterministicRules
<1>3. ASSUME NEW f \in Events, NEW r \in Rules
      PROVE  fired'[f][r] = IF Marked(f, r)' THEN 1 ELSE 0
  <2>1. fired[f][r] = IF Marked(f, r) THEN 1 ELSE 0
    BY DEF MarkerInv
  <2>2. CASE f = e /\ r \in Matching(e)
    <3>1. ~ Marked(e, r) /\ Marked(e, r)'
      BY <1>2, <2>2 DEF Matching, Marked
    <3>2. fired'[e][r] = fired[e][r] + 1
      BY <1>1, <2>2
    <3> QED BY <2>1, <2>2, <3>1, <3>2
  <2>3. CASE ~ (f = e /\ r \in Matching(e))
    <3>1. Marked(f, r)' <=> Marked(f, r)
      BY <1>2, <2>3 DEF Marked
    <3>2. fired'[f][r] = fired[f][r]
      BY <1>1, <2>3
    <3> QED BY <2>1, <3>1, <3>2
  <2> QED BY <2>2, <2>3
<1> QED BY <1>3 DEF MarkerInv

\* The other rows of the audit are of other types, and only they expire.
LEMMA MarkersApart ==
  ASSUME MarkerInv, UNCHANGED fired, NEW e \in Events,
         \/ UNCHANGED audit
         \/ audit' = audit \cup {<<"mastra.telemetry.decision", e>>}
         \/ audit' = audit \cup {<<"mastra.telemetry.failed", e>>}
  PROVE  MarkerInv'
  BY MarkersKept DEF Marked

LEMMA MarkersStay ==
  ASSUME MarkerInv, cleanupRetention
  PROVE  MarkerInv'
<1>1. PICK old \in SUBSET {a \in audit : Expirable(a)} : audit' = audit \ old
  BY DEF cleanupRetention
<1>2. \A e \in Events, r \in Rules : ~ Expirable(<<"rule.matched", e, r>>)
  BY DEF Expirable
<1>3. \A e \in Events, r \in Rules : Marked(e, r)' <=> Marked(e, r)
  BY <1>1, <1>2 DEF Marked
<1> QED BY <1>3, MarkersKept DEF cleanupRetention, historyVars

LEMMA MarkerInductive ==
  ASSUME Typed, MarkerInv, [Next]_vars
  PROVE  MarkerInv'
<1>1. ASSUME UNCHANGED <<audit, fired>> PROVE MarkerInv'
  BY <1>1, MarkersKept DEF Marked
<1>2. CASE UNCHANGED vars
  BY <1>1, <1>2 DEF vars, dbVars, historyVars
<1>3. ASSUME NEW e \in Events, handleMessage(e) PROVE MarkerInv'
  BY <1>1, <1>3 DEF handleMessage, dbVars, historyVars
<1>4. CASE \/ Rebalance
           \/ \E r \in Rules : CooldownEnds(r)
           \/ \E d \in Devices : ToggleDevice(d)
  BY <1>1, <1>4 DEF Rebalance, CooldownEnds, ToggleDevice, dbVars, historyVars
<1>5. ASSUME NEW w \in Workers,
             ApplyRules(w) \/ ApplyRulesFails(w) \/ RunForTelemetry(w) \/ RunForTelemetryFails(w) \/ RecordMastraDecisionFailed(w)
      PROVE  MarkerInv'
  <2>1. PICK e \in Events : e = EventOf(w)
    BY <1>5, EventsOfRecords DEF ApplyRules, ApplyRulesFails, RunForTelemetry, RunForTelemetryFails,
       RecordMastraDecisionFailed, At, Working
  <2>2. \/ applyDeterministicRules(e)
        \/ /\ UNCHANGED fired
           /\ \/ UNCHANGED audit
              \/ audit' = audit \cup {<<"mastra.telemetry.decision", e>>}
              \/ audit' = audit \cup {<<"mastra.telemetry.failed", e>>}
    BY <1>5, <2>1 DEF ApplyRules, ApplyRulesFails, RunForTelemetry, RunForTelemetryFails, Decide,
       RecordMastraDecisionFailed, dbVars, historyVars
  <2> QED BY <2>2, MarkersSet, MarkersApart
<1>6. ASSUME NEW w \in Workers, WorkerStep(w) \/ WorkerFault(w) PROVE MarkerInv'
  <2>1. CASE \/ resolveOffsets(w) \/ eachMessage(w) \/ Insert(w) \/ InsertFails(w) \/ ApplyRulesThrows(w) \/ PublishAgentResult(w)
             \/ RecordMastraDecisionFailedFails(w) \/ InsertDeadLetter(w) \/ PublishDeadLetter(w)
             \/ DeadLetterFails(w) \/ CommitOffsets(w) \/ CommitOffsetsFails(w) \/ Crash(w)
    BY <1>1, <2>1 DEF resolveOffsets, eachMessage, Insert, InsertFails, insertTelemetry, ApplyRulesThrows, PublishAgentResult,
       RecordMastraDecisionFailedFails, InsertDeadLetter, PublishDeadLetter, DeadLetterFails, CommitOffsets,
       CommitOffsetsFails, Crash, dbVars, historyVars
  <2> QED BY <1>5, <1>6, <2>1 DEF WorkerStep, WorkerFault
<1> QED BY <1>2, <1>3, <1>4, <1>6, MarkersStay DEF Next

LEMMA MarkerInit == Init => MarkerInv
  BY DEF Init, MarkerInv, Marked

-------------------------------------------------------------------------------
(* Nothing is stored twice.                                                 *)

\* Whatever was stored has its tombstone still.
StoredInv == \A e \in Events : stored[e] = IF e \in dedup THEN 1 ELSE 0

LEMMA StoredInductive ==
  ASSUME Typed, StoredInv, [Next]_vars
  PROVE  StoredInv'
<1>1. ASSUME UNCHANGED <<dedup, stored>> PROVE StoredInv'
  BY <1>1 DEF StoredInv
<1>2. ASSUME NEW w \in Workers, Insert(w) \/ InsertFails(w) PROVE StoredInv'
  <2>1. PICK e \in Events : e = EventOf(w)
    BY <1>2, EventsOfRecords DEF Insert, InsertFails, At, Working
  <2>2. CASE insertTelemetry(e)
    BY <2>2 DEF insertTelemetry, StoredInv, Typed, TypeOK
  <2>3. CASE ~ insertTelemetry(e)
    BY <1>1, <1>2, <2>1, <2>3 DEF Insert, InsertFails, dbVars
  <2> QED BY <2>2, <2>3
<1>3. ASSUME NEW w \in Workers, WorkerStep(w) \/ WorkerFault(w), ~ (Insert(w) \/ InsertFails(w))
      PROVE  UNCHANGED <<dedup, stored>>
  BY <1>3 DEF WorkerStep, WorkerFault, resolveOffsets, eachMessage, ApplyRules, ApplyRulesThrows, ApplyRulesFails,
     applyDeterministicRules, RunForTelemetry, Decide, PublishAgentResult, RunForTelemetryFails,
     RecordMastraDecisionFailed, RecordMastraDecisionFailedFails, InsertDeadLetter, PublishDeadLetter,
     DeadLetterFails, CommitOffsets, CommitOffsetsFails, Crash, dbVars
<1>4. ASSUME \/ \E e \in Events : handleMessage(e)
             \/ Rebalance
             \/ \E r \in Rules : CooldownEnds(r)
             \/ \E d \in Devices : ToggleDevice(d)
             \/ cleanupRetention
             \/ UNCHANGED vars
      PROVE  UNCHANGED <<dedup, stored>>
  BY <1>4 DEF handleMessage, Rebalance, CooldownEnds, ToggleDevice, cleanupRetention, vars, dbVars
<1> QED BY <1>1, <1>2, <1>3, <1>4 DEF Next

LEMMA StoredInit == Init => StoredInv
  BY DEF Init, StoredInv

-------------------------------------------------------------------------------
(* The theorems.                                                            *)

IInv == Typed /\ SkipInv /\ DecisionInv /\ MarkerInv /\ StoredInv

(* The types, the order of a worker's steps, the offsets, the decisions and   *)
(* the markers are kept by every step of the pipeline.                       *)
THEOREM PipelineInvariant == Spec => []IInv
<1>1. Init => IInv
  BY TypedInit, SkipInit, DecisionInit, MarkerInit, StoredInit DEF IInv
<1>2. IInv /\ [Next]_vars => IInv'
  BY TypedInductive, SkipInductive, DecisionInductive, MarkerInductive, StoredInductive DEF IInv
<1> QED BY <1>1, <1>2, PTL DEF Spec

(* Every variable keeps its type.                                           *)
THEOREM PipelineTyped == Spec => []TypeOK
<1>1. IInv => TypeOK
  BY DEF IInv, Typed
<1> QED BY <1>1, PipelineInvariant, PTL

(* From the first record committed on, a committed offset stands for events   *)
(* that were stored and evaluated, or that are dead letters in both places.  *)
THEOREM NothingIsSkipped == Spec => []NothingSkipped
<1>1. IInv => NothingSkipped
  BY DEF IInv, SkipInv
<1> QED BY <1>1, PipelineInvariant, PTL

(* No event is stored twice, triggers a rule twice, or is decided on twice.   *)
THEOREM EffectsHappenOnce == Spec => []EffectsOnce
<1>1. IInv => EffectsOnce
  BY DEF IInv, MarkerInv, DecisionInv, StoredInv, EffectsOnce, StoredOnce, TriggeredOnce, DecidedOnce
<1> QED BY <1>1, PipelineInvariant, PTL

===============================================================================
