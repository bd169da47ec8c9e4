----------------------- MODULE GraphProjection_proofs -----------------------
(***************************************************************************)
(* Proofs about the projection, for any gateways, ontology and bounds: it  *)
(* implements the read model, and is repaired whenever it was left behind. *)
(*                                                                         *)
(* The second rests on one idea: whatever is missing, in Neo4j, in what    *)
(* the worker has read, or in the status, some outbox row has no record    *)
(* among those committed, so that its record is still to come.             *)
(***************************************************************************)
EXTENDS GraphProjection, FiniteSetTheorems, TLAPS

Active == worker.step # "idle"

(* The outbox row has a record among the first n.                           *)
SentBy(i, n) == \E j \in 1 .. n : topic[j] = i

Pending(n) == \E i \in 1 .. rows : ~ SentBy(i, n)

(* The table of x is among the first n the worker reads.                    *)
Passed(x, n) == \E i \in 1 .. n : Kinds[i] = KindOf[x]

Complete == neo = [nodes |-> source \cap Nodes, edges |-> source \cap Relations]

Reported == /\ status.status = "ready"
            /\ status.node_count = Cardinality(neo.nodes)
            /\ status.relation_count = Cardinality(neo.edges)

(* The outbox: what is marked, and what a relay has sent, is in the topic.   *)
OutboxSound ==
  /\ \A j \in 1 .. Len(topic) : topic[j] \in 1 .. rows
  /\ \A i \in published : SentBy(i, Len(topic))
  /\ \A g \in Gateways : /\ relay[g].step # "idle" => relay[g].row \in 1 .. rows
                         /\ relay[g].step = "sent" => SentBy(relay[g].row, Len(topic))

(* References stay inside the ontology and inside Neo4j; nothing is shown or *)
(* read that the ontology does not have.                                    *)
GraphSound ==
  /\ \A x \in source : Needs[x] \subseteq source
  /\ neo.nodes \subseteq source /\ neo.edges \subseteq source
  /\ \A x \in neo.edges : Endpoints(x) \subseteq neo.nodes
  /\ worker.rows \subseteq source

(* The worker has read again all that Neo4j shows of the tables it passed.   *)
ReadsCover ==
  \A x \in neo.nodes \cup neo.edges : Passed(x, worker.read) => x \in worker.rows

RowsBehind == \E x \in source : Passed(x, worker.read) /\ x \notin worker.rows

WorkerSound ==
  /\ Active => committed < Len(topic)
  /\ worker.step \in {"idle", "fetched"} => worker.read = 0 /\ worker.rows = {}
  /\ RowsBehind => Pending(committed + 1)
  /\ worker.step \in {"projected", "ready"} =>
       neo = Projection(worker.rows) /\ worker.read = Len(Kinds)
  /\ worker.step = "ready" =>
       /\ status.status = "ready"
       /\ status.node_count = Cardinality(worker.rows \cap Nodes)
       /\ status.relation_count = Cardinality(worker.rows \cap Relations)

(* What is missing is on its way.                                           *)
RepairPending ==
  rows > 0 => /\ Complete \/ Pending(committed)
              /\ Reported \/ Pending(committed) \/ committed < Len(topic)

IInv == TypeOK /\ OutboxSound /\ GraphSound /\ ReadsCover /\ WorkerSound /\ RepairPending

-----------------------------------------------------------------------------
LEMMA AllPassed ==
  /\ Len(Kinds) = 4
  /\ \A x \in Items : Passed(x, Len(Kinds)) /\ ~ Passed(x, 0)
<1>1. Len(Kinds) = 4 /\ Kinds[1] = "class" /\ Kinds[2] = "property" /\ Kinds[3] = "individual" /\ Kinds[4] = "relation"
  BY DEF Kinds
<1>2. \A x \in Items : KindOf[x] \in {"class", "property", "individual", "relation"}
  BY ConstantsAssumption DEF ConstantsAssumption
<1> QED BY <1>1, <1>2 DEF Passed

LEMMA CardinalitiesTyped ==
  ASSUME NEW S \in SUBSET Items
  PROVE  Cardinality(S) \in Nat
  BY ConstantsAssumption, FS_Subset, FS_CardinalityType DEF ConstantsAssumption

LEMMA ProjectionTyped ==
  ASSUME NEW S \in SUBSET Items
  PROVE  /\ Projection(S) \in [nodes : SUBSET Nodes, edges : SUBSET Relations]
         /\ Projection(S).nodes = S \cap Nodes
         /\ Projection(S).edges \subseteq S
         /\ \A x \in Projection(S).edges : Endpoints(x) \subseteq Projection(S).nodes
<1>1. \A x \in Items : Endpoints(x) \subseteq Nodes
  BY ConstantsAssumption DEF Endpoints, Nodes, ConstantsAssumption
<1> QED BY <1>1 DEF Projection, Nodes, Relations

(* A projection of all that the ontology has leaves nothing out.             *)
LEMMA ProjectionOfAll ==
  ASSUME GraphSound, source \subseteq Items
  PROVE  /\ Projection(source).nodes = source \cap Nodes
         /\ Projection(source).edges = source \cap Relations
  BY DEF GraphSound, Projection, Endpoints

LEMMA InvInit == Init => IInv
<1> SUFFICES ASSUME Init PROVE IInv
  OBVIOUS
<1>1. TypeOK
  BY ConstantsAssumption DEF Init, TypeOK, Relay, NoRelay, Worker, NoWorker, Status, ConstantsAssumption, Kinds
<1>2. OutboxSound
  BY DEF Init, OutboxSound, NoRelay
<1>3. GraphSound /\ ReadsCover
  BY ConstantsAssumption DEF Init, GraphSound, ReadsCover, NoWorker, ConstantsAssumption
<1>4. ~ RowsBehind
  BY ConstantsAssumption, AllPassed DEF Init, RowsBehind, NoWorker, ConstantsAssumption
<1>5. WorkerSound /\ RepairPending
  BY <1>4 DEF Init, WorkerSound, RepairPending, NoWorker, Active
<1> QED BY <1>1, <1>2, <1>3, <1>5 DEF IInv

-----------------------------------------------------------------------------
(* The ontology and the outbox grow.                                        *)

Added ==
  /\ rows' = rows + 1 /\ rows' \in 0 .. MaxRows
  /\ source \subseteq source' /\ source' \subseteq Items
  /\ \A x \in source' : Needs[x] \subseteq source'
  /\ UNCHANGED <<published, relay, topic, workerVars, faults>>

LEMMA CreateAdds ==
  ASSUME IInv, NEW x \in Items, Create(x)
  PROVE  Added
<1>1. source' = source \cup {x} /\ Needs[x] \subseteq source /\ source \subseteq Items
  BY DEF Create, IInv, TypeOK
<1>2. \A y \in source' : Needs[y] \subseteq source'
  BY <1>1 DEF IInv, GraphSound
<1> QED BY <1>1, <1>2, ConstantsAssumption
        DEF Create, insertOutbox, Added, IInv, TypeOK, ConstantsAssumption

LEMMA EnqueueOutboxAdds ==
  ASSUME IInv, EnqueueOutbox
  PROVE  Added
  BY ConstantsAssumption
     DEF EnqueueOutbox, insertOutbox, Added, IInv, TypeOK, GraphSound, ConstantsAssumption

(* The new outbox row has no record yet: all is on its way again.            *)
LEMMA AddedKeeps ==
  ASSUME IInv, Added
  PROVE  IInv'
<1>1. UNCHANGED <<published, relay, topic, committed, worker, neo, status, faults>>
  BY DEF Added, workerVars
<1>2. /\ rows \in Nat /\ rows' = rows + 1 /\ topic \in Seq(1 .. rows) /\ committed \in 0 .. Len(topic)
      /\ \A j \in 1 .. Len(topic) : topic[j] \in 1 .. rows
  BY DEF IInv, TypeOK, Added, OutboxSound
<1>3. topic \in Seq(1 .. rows')
  BY <1>2
<1>4. TypeOK'
  BY <1>1, <1>2, <1>3 DEF IInv, TypeOK, Added
<1>5. OutboxSound'
  BY <1>1, <1>2 DEF IInv, OutboxSound, SentBy
<1>6. GraphSound' /\ ReadsCover'
  BY <1>1 DEF IInv, GraphSound, ReadsCover, Passed, Endpoints, Added
<1>7. \A n \in 0 .. Len(topic) : Pending(n)'
  <2>1. SUFFICES ASSUME NEW n \in 0 .. Len(topic) PROVE Pending(n)'
    OBVIOUS
  <2>2. \A j \in 1 .. n : topic'[j] # rows'
    BY <1>1, <1>2
  <2>3. rows' \in 1 .. rows' /\ ~ SentBy(rows, n)'
    BY <1>2, <2>2 DEF SentBy
  <2> QED BY <2>3 DEF Pending
<1>8. WorkerSound'
  <2>1. RowsBehind' => Pending(committed + 1)'
    <3>1. CASE Active
      <4>1. committed + 1 \in 0 .. Len(topic)
        BY <1>2, <3>1 DEF IInv, WorkerSound
      <4> QED BY <1>1, <1>7, <4>1 DEF Pending, SentBy
    <3>2. CASE ~ Active
      <4>1. worker.read = 0 /\ source' \subseteq Items
        BY <3>2 DEF IInv, WorkerSound, Active, Added
      <4> QED BY <1>1, <4>1, AllPassed DEF RowsBehind, Passed
    <3> QED BY <3>1, <3>2
  <2> QED BY <1>1, <2>1 DEF IInv, WorkerSound, Active, Projection, Endpoints
<1>9. RepairPending'
  BY <1>1, <1>2, <1>7 DEF RepairPending, Pending, SentBy
<1> QED BY <1>4, <1>5, <1>6, <1>8, <1>9 DEF IInv

-----------------------------------------------------------------------------
(* The relays: at most a record is appended.                                 *)

LEMMA TopicGrows ==
  ASSUME IInv, UNCHANGED rows, NEW i \in 1 .. rows, topic' \in {topic, Append(topic, i)}
  PROVE  /\ topic' \in Seq(1 .. rows) /\ Len(topic) \in Nat /\ Len(topic') \in {Len(topic), Len(topic) + 1}
         /\ \A j \in 1 .. Len(topic) : topic'[j] = topic[j]
         /\ topic' = Append(topic, i) => Len(topic') = Len(topic) + 1 /\ topic'[Len(topic')] = i
         /\ \A j \in 1 .. Len(topic') : topic'[j] \in 1 .. rows
         /\ \A n \in 0 .. Len(topic) : Pending(n) => Pending(n)'
         /\ \A k \in Nat : SentBy(k, Len(topic)) => SentBy(k, Len(topic))'
<1>1. topic \in Seq(1 .. rows) /\ rows \in Nat
  BY DEF IInv, TypeOK
<1>2. topic' \in Seq(1 .. rows) /\ Len(topic) \in Nat /\ Len(topic') \in {Len(topic), Len(topic) + 1}
  <2>1. Len(topic) \in Nat
    BY <1>1
  <2>2. CASE topic' = topic
    BY <1>1, <2>1, <2>2
  <2>3. CASE topic' = Append(topic, i)
    <3>1. Append(topic, i) \in Seq(1 .. rows) /\ Len(Append(topic, i)) = Len(topic) + 1
      BY <1>1
    <3> QED BY <2>1, <2>3, <3>1
  <2> QED BY <2>2, <2>3
<1>3. /\ \A j \in 1 .. Len(topic) : topic'[j] = topic[j]
      /\ topic' = Append(topic, i) => Len(topic') = Len(topic) + 1 /\ topic'[Len(topic')] = i
  BY <1>1
<1>4. \A j \in 1 .. Len(topic') : topic'[j] \in 1 .. rows
  BY <1>1, <1>2
<1>5. \A n \in 0 .. Len(topic) : Pending(n) => Pending(n)'
  BY <1>2, <1>3 DEF Pending, SentBy
<1>6. \A k \in Nat : SentBy(k, Len(topic)) => SentBy(k, Len(topic))'
  BY <1>2, <1>3 DEF SentBy
<1> QED BY <1>2, <1>3, <1>4, <1>5, <1>6

RelayActs(i) ==
  /\ topic' \in {topic, Append(topic, i)}
  /\ UNCHANGED <<source, rows, workerVars>>
  /\ relay' \in [Gateways -> Relay]
  /\ published' \subseteq 1 .. rows
  /\ faults' \in 0 .. MaxFaults

LEMMA RelayActsKeep ==
  ASSUME IInv, NEW i \in 1 .. rows, RelayActs(i), OutboxSound'
  PROVE  IInv'
<1>1. UNCHANGED <<source, rows, committed, worker, neo, status>>
  BY DEF RelayActs, workerVars
<1>2. /\ topic' \in Seq(1 .. rows) /\ Len(topic) \in Nat /\ Len(topic') \in {Len(topic), Len(topic) + 1}
      /\ \A n \in 0 .. Len(topic) : Pending(n) => Pending(n)'
  BY <1>1, TopicGrows DEF RelayActs
<1>3. TypeOK'
  BY <1>1, <1>2 DEF IInv, TypeOK, RelayActs
<1>4. GraphSound' /\ ReadsCover'
  BY <1>1 DEF IInv, GraphSound, ReadsCover, Passed, Endpoints
<1>5. WorkerSound'
  <2>1. RowsBehind' => Pending(committed + 1)'
    <3>1. CASE RowsBehind /\ Active
      <4>1. committed + 1 \in 0 .. Len(topic) /\ Pending(committed + 1)
        BY <1>2, <3>1 DEF IInv, TypeOK, WorkerSound
      <4>2. ASSUME NEW n \in 0 .. Len(topic), n = committed + 1 PROVE Pending(n)'
        BY <1>2, <4>1, <4>2
      <4> QED BY <1>1, <4>1, <4>2 DEF Pending, SentBy
    <3>2. CASE ~ Active
      <4>1. worker.read = 0 /\ source \subseteq Items
        BY <3>2 DEF IInv, TypeOK, WorkerSound, Active
      <4> QED BY <1>1, <4>1, AllPassed DEF RowsBehind, Passed
    <3> QED BY <1>1, <3>1, <3>2 DEF RowsBehind, Passed
  <2> QED BY <1>1, <1>2, <2>1 DEF IInv, TypeOK, WorkerSound, Active, Projection, Endpoints
<1>6. RepairPending'
  <2>1. Pending(committed) => Pending(committed)'
    <3>1. \A n \in 0 .. Len(topic) : n = committed => (Pending(n) => (\E k \in 1 .. rows' : ~ \E j \in 1 .. n : topic'[j] = k))
      BY <1>2 DEF Pending, SentBy
    <3> QED BY <1>1, <3>1 DEF IInv, TypeOK, Pending, SentBy
  <2> QED BY <1>1, <1>2, <2>1 DEF IInv, TypeOK, RepairPending, Complete, Reported
<1> QED BY <1>3, <1>4, <1>5, <1>6 DEF IInv

RelayMoves(g) == RelayStep(g) \/ PublishGraphRebuildFails(g) \/ RelayStops(g)

LEMMA RelayMovesAct ==
  ASSUME IInv, NEW g \in Gateways, RelayMoves(g)
  PROVE  /\ OutboxSound'
         /\ \E i \in 1 .. rows : RelayActs(i)
<1>1. /\ relay \in [Gateways -> Relay] /\ published \subseteq 1 .. rows /\ rows \in Nat
      /\ faults \in 0 .. MaxFaults /\ topic \in Seq(1 .. rows)
  BY DEF IInv, TypeOK
<1>2. /\ \A j \in 1 .. Len(topic) : topic[j] \in 1 .. rows
      /\ \A i \in published : SentBy(i, Len(topic))
      /\ \A h \in Gateways : /\ relay[h].step # "idle" => relay[h].row \in 1 .. rows
                             /\ relay[h].step = "sent" => SentBy(relay[h].row, Len(topic))
  BY DEF IInv, OutboxSound
<1>3. NoRelay \in Relay /\ NoRelay.step = "idle"
  BY DEF NoRelay, Relay
<1>4. CASE NextOutbox(g)
  <2>1. PICK row \in Unpublished : relay' = [relay EXCEPT ![g] = [row |-> row, step |-> "read"]]
    BY <1>4 DEF NextOutbox
  <2>2. UNCHANGED <<source, rows, published, topic, workerVars, faults>>
    BY <1>4 DEF NextOutbox, outboxVars
  <2>3. row \in 1 .. rows
    BY DEF Unpublished
  <2>4. RelayActs(row)
    BY <1>1, <2>1, <2>2, <2>3 DEF RelayActs, Relay
  <2>5. OutboxSound'
    BY <1>1, <1>2, <2>1, <2>2, <2>3 DEF OutboxSound, SentBy
  <2> QED BY <2>3, <2>4, <2>5
<1>5. CASE PublishGraphRebuild(g)
  <2> PICK i \in 1 .. rows : i = relay[g].row
    BY <1>2, <1>5 DEF PublishGraphRebuild
  <2>1. /\ topic' = Append(topic, i) /\ relay' = [relay EXCEPT ![g].step = "sent"]
        /\ UNCHANGED <<source, rows, published, workerVars, faults>>
    BY <1>5 DEF PublishGraphRebuild, outboxVars
  <2>2. RelayActs(i)
    BY <1>1, <2>1 DEF RelayActs, Relay
  <2>3. /\ \A j \in 1 .. Len(topic') : topic'[j] \in 1 .. rows
        /\ \A k \in Nat : SentBy(k, Len(topic)) => SentBy(k, Len(topic))'
        /\ Len(topic') = Len(topic) + 1 /\ topic'[Len(topic')] = i /\ Len(topic) \in Nat
    BY <2>1, TopicGrows
  <2>4. SentBy(i, Len(topic))'
    BY <2>3 DEF SentBy
  <2>5. ASSUME NEW h \in Gateways
        PROVE  /\ relay'[h].step # "idle" => relay'[h].row \in 1 .. rows
               /\ relay'[h].step = "sent" => \E j \in 1 .. Len(topic') : topic'[j] = relay'[h].row
    <3>1. CASE h = g
      <4>1. relay'[h].row = i
        BY <1>1, <2>1, <3>1 DEF Relay
      <4> QED BY <2>4, <4>1 DEF SentBy
    <3>2. CASE h # g
      <4>1. relay'[h] = relay[h] /\ relay[h].row \in Nat
        BY <1>1, <2>1, <3>2 DEF Relay
      <4>2. PICK k \in Nat : k = relay[h].row
        BY <4>1
      <4>3. SentBy(k, Len(topic)) => SentBy(k, Len(topic))'
        BY <2>3
      <4> QED BY <1>2, <4>1, <4>2, <4>3 DEF SentBy
    <3> QED BY <3>1, <3>2
  <2>6. \A k \in published' : \E j \in 1 .. Len(topic') : topic'[j] = k
    BY <1>1, <1>2, <2>1, <2>3 DEF SentBy
  <2> QED BY <2>1, <2>2, <2>3, <2>5, <2>6 DEF OutboxSound, SentBy
<1>6. CASE MarkOutboxPublished(g)
  <2> PICK i \in 1 .. rows : i = relay[g].row
    BY <1>2, <1>6 DEF MarkOutboxPublished
  <2>1. /\ published' = published \cup {i} /\ relay' = [relay EXCEPT ![g] = NoRelay]
        /\ UNCHANGED <<source, rows, topic, workerVars, faults>>
    BY <1>6 DEF MarkOutboxPublished
  <2>2. RelayActs(i)
    BY <1>1, <1>3, <2>1 DEF RelayActs
  <2>3. SentBy(i, Len(topic))
    BY <1>2, <1>6 DEF MarkOutboxPublished, SentBy
  <2>4. OutboxSound'
    BY <1>1, <1>2, <1>3, <2>1, <2>3 DEF OutboxSound, SentBy
  <2> QED BY <2>2, <2>4
<1>7. CASE PublishGraphRebuildFails(g)
  <2> PICK i \in 1 .. rows : i = relay[g].row
    BY <1>2, <1>7 DEF PublishGraphRebuildFails
  <2>1. /\ topic' \in {topic, Append(topic, i)} /\ relay' = [relay EXCEPT ![g] = NoRelay]
        /\ UNCHANGED <<source, rows, published, workerVars>>
    BY <1>7 DEF PublishGraphRebuildFails, AfterPublishError
  <2>2. faults' \in 0 .. MaxFaults
    BY <1>1, <1>7, ConstantsAssumption DEF PublishGraphRebuildFails, Fault, ConstantsAssumption
  <2>3. RelayActs(i)
    BY <1>1, <1>3, <2>1, <2>2 DEF RelayActs
  <2>4. /\ \A j \in 1 .. Len(topic') : topic'[j] \in 1 .. rows
        /\ \A k \in Nat : SentBy(k, Len(topic)) => SentBy(k, Len(topic))'
    BY <2>1, TopicGrows
  <2>5. ASSUME NEW h \in Gateways
        PROVE  /\ relay'[h].step # "idle" => relay'[h].row \in 1 .. rows
               /\ relay'[h].step = "sent" => \E j \in 1 .. Len(topic') : topic'[j] = relay'[h].row
    <3>1. CASE h = g
      BY <1>1, <1>3, <2>1, <3>1
    <3>2. CASE h # g
      <4>1. relay'[h] = relay[h] /\ relay[h].row \in Nat
        BY <1>1, <2>1, <3>2 DEF Relay
      <4>2. PICK k \in Nat : k = relay[h].row
        BY <4>1
      <4>3. SentBy(k, Len(topic)) => SentBy(k, Len(topic))'
        BY <2>4
      <4> QED BY <1>2, <4>1, <4>2, <4>3 DEF SentBy
    <3> QED BY <3>1, <3>2
  <2>6. \A k \in published' : \E j \in 1 .. Len(topic') : topic'[j] = k
    <3>1. \A k \in published : k \in Nat /\ SentBy(k, Len(topic))
      BY <1>1, <1>2
    <3>2. \A k \in published : SentBy(k, Len(topic))'
      BY <2>4, <3>1
    <3> QED BY <2>1, <3>2 DEF SentBy
  <2> QED BY <2>1, <2>3, <2>4, <2>5, <2>6 DEF OutboxSound, SentBy
<1>8. CASE RelayStops(g)
  <2> PICK i \in 1 .. rows : i = relay[g].row
    BY <1>2, <1>8 DEF RelayStops
  <2>1. relay' = [relay EXCEPT ![g] = NoRelay] /\ UNCHANGED <<source, rows, published, topic, workerVars>>
    BY <1>8 DEF RelayStops, outboxVars
  <2>2. faults' \in 0 .. MaxFaults
    BY <1>1, <1>8, ConstantsAssumption DEF RelayStops, Fault, ConstantsAssumption
  <2>3. RelayActs(i)
    BY <1>1, <1>3, <2>1, <2>2 DEF RelayActs
  <2>4. OutboxSound'
    BY <1>1, <1>2, <1>3, <2>1 DEF OutboxSound, SentBy
  <2> QED BY <2>3, <2>4
<1> QED BY <1>4, <1>5, <1>6, <1>7, <1>8 DEF RelayMoves, RelayStep

LEMMA RelayMovesKeep ==
  ASSUME IInv, NEW g \in Gateways, RelayMoves(g)
  PROVE  IInv'
  BY RelayMovesAct, RelayActsKeep

-----------------------------------------------------------------------------
(* The graph worker.                                                        *)

LEMMA PendingStays ==
  ASSUME NEW n \in Nat, Pending(n + 1)
  PROVE  Pending(n)
  BY DEF Pending, SentBy

(* When all the tables are read, what they gave shows all that Neo4j shows,  *)
(* and all of the ontology unless a record is still to come.                 *)
LEMMA RebuildSound ==
  ASSUME IInv, Active, worker.read = Len(Kinds)
  PROVE  /\ Projection(worker.rows) \in [nodes : SUBSET Nodes, edges : SUBSET Relations]
         /\ Projection(worker.rows).nodes \subseteq source
         /\ Projection(worker.rows).edges \subseteq source
         /\ \A x \in Projection(worker.rows).edges : Endpoints(x) \subseteq Projection(worker.rows).nodes
         /\ neo.nodes \subseteq Projection(worker.rows).nodes
         /\ neo.edges \subseteq Projection(worker.rows).edges
         /\ worker.rows = source \/ Pending(committed + 1)
         /\ \/ Projection(worker.rows) = [nodes |-> source \cap Nodes, edges |-> source \cap Relations]
            \/ Pending(committed + 1)
<1>1. /\ source \subseteq Items /\ worker.rows \subseteq source /\ worker.rows \subseteq Items
      /\ neo \in [nodes : SUBSET Nodes, edges : SUBSET Relations]
  BY DEF IInv, TypeOK, GraphSound
<1>2. neo.nodes \cup neo.edges \subseteq worker.rows
  BY <1>1, AllPassed DEF IInv, ReadsCover, GraphSound
<1>3. neo.nodes \subseteq Projection(worker.rows).nodes
  BY <1>1, <1>2 DEF Projection
<1>4. neo.edges \subseteq Projection(worker.rows).edges
  BY <1>1, <1>2 DEF Projection, IInv, GraphSound
<1>5. worker.rows = source \/ Pending(committed + 1)
  BY <1>1, AllPassed DEF IInv, WorkerSound, RowsBehind
<1>6. worker.rows = source =>
        Projection(worker.rows) = [nodes |-> source \cap Nodes, edges |-> source \cap Relations]
  BY <1>1 DEF Projection, Endpoints, IInv, GraphSound
<1> QED BY <1>1, <1>3, <1>4, <1>5, <1>6, ProjectionTyped DEF Nodes

LEMMA UnchangedOutbox ==
  ASSUME UNCHANGED <<outboxVars, relay, topic>>
  PROVE  /\ OutboxSound' <=> OutboxSound
         /\ \A n : Pending(n)' <=> Pending(n)
         /\ UNCHANGED <<source, rows, published, relay, topic>>
<1>1. UNCHANGED <<source, rows, published, relay, topic>>
  BY DEF outboxVars
<1>2. OutboxSound' <=> OutboxSound
  BY <1>1 DEF OutboxSound, SentBy
<1>3. \A n : Pending(n)' <=> Pending(n)
  BY <1>1 DEF Pending, SentBy
<1> QED BY <1>1, <1>2, <1>3

(* The worker stops in the middle: the offset is not committed.              *)
Stopped ==
  /\ Active /\ worker' = NoWorker
  /\ neo' = neo \/ (worker.read = Len(Kinds) /\ neo' = Projection(worker.rows))
  /\ status' \in Status /\ faults' \in 0 .. MaxFaults
  /\ UNCHANGED <<outboxVars, relay, topic, committed>>

LEMMA StoppedKeeps ==
  ASSUME IInv, Stopped
  PROVE  IInv'
<1>1. /\ UNCHANGED <<source, rows, published, relay, topic, committed>>
      /\ OutboxSound' /\ \A n : Pending(n)' <=> Pending(n)
  BY UnchangedOutbox DEF Stopped, IInv
<1>2. /\ committed \in Nat /\ committed < Len(topic) /\ source \subseteq Items
      /\ neo \in [nodes : SUBSET Nodes, edges : SUBSET Relations]
  BY DEF IInv, TypeOK, WorkerSound, Stopped
<1>3. /\ worker' = NoWorker /\ NoWorker \in Worker /\ NoWorker.step = "idle" /\ NoWorker.read = 0
      /\ NoWorker.rows = {}
  BY DEF Stopped, NoWorker, Worker, Kinds
<1>4. /\ neo' \in [nodes : SUBSET Nodes, edges : SUBSET Relations]
      /\ neo'.nodes \subseteq source /\ neo'.edges \subseteq source
      /\ \A x \in neo'.edges : Endpoints(x) \subseteq neo'.nodes
  BY <1>2, RebuildSound DEF Stopped, IInv, GraphSound
<1>5. TypeOK'
  BY <1>1, <1>3, <1>4 DEF IInv, TypeOK, Stopped
<1>6. GraphSound'
  BY <1>1, <1>3, <1>4 DEF IInv, GraphSound, Endpoints
<1>7. ReadsCover' /\ ~ RowsBehind'
  <2>1. \A x \in Items : ~ Passed(x, 0)
    BY AllPassed
  <2>2. neo'.nodes \cup neo'.edges \subseteq Items /\ source' \subseteq Items
    BY <1>1, <1>2, <1>4
  <2> QED BY <1>3, <2>1, <2>2 DEF ReadsCover, RowsBehind, Passed
<1>8. WorkerSound'
  BY <1>3, <1>7 DEF WorkerSound, Active
<1>9. RepairPending'
  <2>1. neo' = neo \/ Complete' \/ Pending(committed + 1)
    BY <1>1, RebuildSound DEF Stopped, Complete
  <2>2. rows > 0 => Complete' \/ Pending(committed)
    BY <1>1, <1>2, <2>1, PendingStays DEF IInv, RepairPending, Complete
  <2> QED BY <1>1, <1>2, <2>2 DEF RepairPending
<1> QED BY <1>1, <1>5, <1>6, <1>8, <1>7, <1>9 DEF IInv

LEMMA ProjectFailsStops ==
  ASSUME IInv, ProjectFails \/ WorkerExits
  PROVE  Stopped
<1>1. faults' \in 0 .. MaxFaults
  BY ConstantsAssumption DEF IInv, TypeOK, ProjectFails, WorkerExits, Fault, ConstantsAssumption
<1>2. status' \in Status
  BY DEF IInv, TypeOK, ProjectFails, WorkerExits, Status
<1>3. CASE ProjectFails
  BY <1>1, <1>2, <1>3 DEF ProjectFails, ReplaceFailure, Stopped, Active
<1>4. CASE WorkerExits
  BY <1>1, <1>2, <1>4 DEF WorkerExits, Stopped, Active
<1> QED BY <1>3, <1>4

LEMMA ReceiveRebuildKeeps ==
  ASSUME IInv, ReceiveRebuild
  PROVE  IInv'
<1>1. /\ UNCHANGED <<source, rows, published, relay, topic, committed, neo, status, faults>>
      /\ OutboxSound' /\ (\A n : Pending(n)' <=> Pending(n))
      /\ worker.step = "idle" /\ committed < Len(topic) /\ committed \in Nat
  BY UnchangedOutbox DEF ReceiveRebuild, Receive, IInv, TypeOK
<1> PICK record \in 1 .. rows : record = topic[committed + 1]
  BY <1>1 DEF IInv, TypeOK, OutboxSound
<1>2. worker' = [NoWorker EXCEPT !.step = "fetched", !.rebuild = record] /\ rows \in Nat
  BY DEF ReceiveRebuild, Receive, IInv, TypeOK
<1>a. record \in Nat
  BY <1>2
<1>b. /\ NoWorker = [rebuild |-> 0, step |-> "idle", read |-> 0, rows |-> {}]
      /\ 0 \in 0 .. Len(Kinds) /\ {} \in SUBSET Items
  BY AllPassed DEF NoWorker
<1>c. worker' = [rebuild |-> record, step |-> "fetched", read |-> 0, rows |-> {}]
  BY <1>2, <1>b
<1>3. worker' \in Worker /\ worker'.step = "fetched" /\ worker'.read = 0 /\ worker'.rows = {}
  BY <1>a, <1>b, <1>c DEF Worker
<1>4. worker.read = 0 /\ worker.rows = {}
  BY <1>1 DEF IInv, WorkerSound
<1>5. TypeOK'
  BY <1>1, <1>3 DEF IInv, TypeOK
<1>6. GraphSound' /\ ReadsCover' /\ (RowsBehind' <=> RowsBehind)
  BY <1>1, <1>3, <1>4 DEF IInv, GraphSound, ReadsCover, RowsBehind, Passed, Endpoints
<1>7. WorkerSound'
  BY <1>1, <1>3, <1>6 DEF IInv, WorkerSound, Active
<1>8. RepairPending'
  BY <1>1 DEF IInv, RepairPending, Complete, Reported
<1> QED BY <1>1, <1>5, <1>6, <1>7, <1>8 DEF IInv

LEMMA MarkRunningKeeps ==
  ASSUME IInv, MarkRunning
  PROVE  IInv'
<1>1. /\ UNCHANGED <<source, rows, published, relay, topic, committed, neo, faults>>
      /\ OutboxSound' /\ (\A n : Pending(n)' <=> Pending(n)) /\ worker.step = "fetched"
  BY UnchangedOutbox DEF MarkRunning, IInv
<1>2. status' \in Status
  BY DEF IInv, TypeOK, MarkRunning, Status, Worker
<1>3. worker' \in Worker /\ worker'.step = "reading" /\ worker'.read = worker.read /\ worker'.rows = worker.rows
  BY DEF IInv, TypeOK, MarkRunning, Worker
<1>4. TypeOK'
  BY <1>1, <1>2, <1>3 DEF IInv, TypeOK
<1>5. GraphSound' /\ ReadsCover' /\ (RowsBehind' <=> RowsBehind)
  BY <1>1, <1>3 DEF IInv, GraphSound, ReadsCover, RowsBehind, Passed, Endpoints
<1>6. WorkerSound'
  BY <1>1, <1>3, <1>5 DEF IInv, WorkerSound, Active
<1>7. RepairPending'
  BY <1>1 DEF IInv, RepairPending, Complete, WorkerSound, Active
<1> QED BY <1>1, <1>4, <1>5, <1>6, <1>7 DEF IInv

LEMMA ReadTableKeeps ==
  ASSUME IInv, ReadTable
  PROVE  IInv'
<1>1. /\ UNCHANGED <<source, rows, published, relay, topic, committed, neo, status, faults>>
      /\ OutboxSound' /\ (\A n : Pending(n)' <=> Pending(n)) /\ worker.step = "reading"
  BY UnchangedOutbox DEF ReadTable, IInv
<1> PICK k \in 1 .. 4 : k = worker.read + 1
  BY AllPassed DEF ReadTable, IInv, TypeOK, Worker
<1> PICK w \in Worker : w = worker
  BY DEF IInv, TypeOK
<1> PICK found \in SUBSET Items : found = w.rows \cup {x \in source : KindOf[x] = Kinds[k]}
  BY DEF IInv, TypeOK, Worker
<1>a. worker' = [w EXCEPT !.read = k, !.rows = found]
  BY DEF ReadTable, Worker
<1>b. k \in 0 .. Len(Kinds)
  BY AllPassed
<1>2. /\ worker' \in Worker /\ worker'.step = "reading" /\ worker'.read = k
      /\ worker'.rows = worker.rows \cup {x \in source : KindOf[x] = Kinds[k]}
  BY <1>1, <1>a, <1>b DEF Worker
<1>3. \A x : Passed(x, k) => Passed(x, worker.read) \/ KindOf[x] = Kinds[k]
  BY DEF Passed, IInv, TypeOK, Worker
<1>4. TypeOK'
  BY <1>1, <1>2 DEF IInv, TypeOK
<1>5. GraphSound'
  BY <1>1, <1>2 DEF IInv, GraphSound, Endpoints
<1>6. ReadsCover' /\ (RowsBehind' => RowsBehind)
  BY <1>1, <1>2, <1>3 DEF IInv, GraphSound, ReadsCover, RowsBehind, Passed
<1>7. WorkerSound'
  BY <1>1, <1>2, <1>6 DEF IInv, WorkerSound, Active
<1>8. RepairPending'
  BY <1>1 DEF IInv, RepairPending, Complete, Reported
<1> QED BY <1>1, <1>4, <1>5, <1>6, <1>7, <1>8 DEF IInv

LEMMA ReplaceProjectionKeeps ==
  ASSUME IInv, ReplaceProjection
  PROVE  IInv'
<1>1. /\ UNCHANGED <<source, rows, published, relay, topic, committed, status, faults>>
      /\ OutboxSound' /\ (\A n : Pending(n)' <=> Pending(n))
      /\ worker.step = "reading" /\ worker.read = Len(Kinds) /\ neo' = Projection(worker.rows)
  BY UnchangedOutbox DEF ReplaceProjection, IInv
<1>2. worker' \in Worker /\ worker'.step = "projected" /\ worker'.read = worker.read /\ worker'.rows = worker.rows
  BY DEF IInv, TypeOK, ReplaceProjection, Worker
<1>3. Active /\ committed < Len(topic) /\ committed \in Nat
  BY <1>1 DEF Active, IInv, WorkerSound, TypeOK
<1>4. TypeOK'
  BY <1>1, <1>2, <1>3, RebuildSound DEF IInv, TypeOK
<1>5. GraphSound'
  BY <1>1, <1>2, <1>3, RebuildSound DEF IInv, GraphSound, Endpoints
<1>6. ReadsCover' /\ (RowsBehind' <=> RowsBehind)
  <2>1. neo'.nodes \cup neo'.edges \subseteq worker.rows
    BY <1>1 DEF Projection
  <2> QED BY <1>1, <1>2, <2>1 DEF ReadsCover, RowsBehind, Passed
<1>7. WorkerSound'
  BY <1>1, <1>2, <1>3, <1>6 DEF IInv, WorkerSound, Active, Projection, Endpoints
<1>8. RepairPending'
  BY <1>1, <1>3, RebuildSound, PendingStays DEF RepairPending, Complete
<1> QED BY <1>1, <1>4, <1>5, <1>6, <1>7, <1>8 DEF IInv

LEMMA MarkReadyKeeps ==
  ASSUME IInv, MarkReady
  PROVE  IInv'
<1>1. /\ UNCHANGED <<source, rows, published, relay, topic, committed, neo, faults>>
      /\ OutboxSound' /\ (\A n : Pending(n)' <=> Pending(n)) /\ worker.step = "projected"
  BY UnchangedOutbox DEF MarkReady, IInv
<1> PICK nodes \in Nat : nodes = Cardinality(worker.rows \cap Nodes)
  BY CardinalitiesTyped DEF IInv, TypeOK, Worker
<1> PICK relations \in Nat : relations = Cardinality(worker.rows \cap Relations)
  BY CardinalitiesTyped DEF IInv, TypeOK, Worker
<1>2. status' = [status EXCEPT !.status = "ready", !.node_count = nodes, !.relation_count = relations]
  BY DEF MarkReady
<1>3. status' \in Status /\ status'.status = "ready" /\ status'.node_count = nodes /\ status'.relation_count = relations
  BY <1>2 DEF IInv, TypeOK, Status
<1>4. worker' \in Worker /\ worker'.step = "ready" /\ worker'.read = worker.read /\ worker'.rows = worker.rows
  BY DEF IInv, TypeOK, MarkReady, Worker
<1>5. TypeOK'
  BY <1>1, <1>3, <1>4 DEF IInv, TypeOK
<1>6. GraphSound' /\ ReadsCover' /\ (RowsBehind' <=> RowsBehind)
  BY <1>1, <1>4 DEF IInv, GraphSound, ReadsCover, RowsBehind, Passed, Endpoints
<1>7. WorkerSound'
  BY <1>1, <1>3, <1>4, <1>6 DEF IInv, WorkerSound, Active, Projection, Endpoints
<1>8. RepairPending'
  BY <1>1 DEF IInv, RepairPending, Complete, WorkerSound, Active
<1> QED BY <1>1, <1>5, <1>6, <1>7, <1>8 DEF IInv

LEMMA CommitMessageKeeps ==
  ASSUME IInv, CommitMessage
  PROVE  IInv'
<1>1. /\ UNCHANGED <<source, rows, published, relay, topic, neo, status, faults>>
      /\ OutboxSound' /\ (\A n : Pending(n)' <=> Pending(n))
      /\ worker.step = "ready" /\ committed' = committed + 1 /\ worker' = NoWorker
  BY UnchangedOutbox DEF CommitMessage, CommitOffset, IInv
<1>2. NoWorker \in Worker /\ NoWorker.step = "idle" /\ NoWorker.read = 0 /\ NoWorker.rows = {}
  BY DEF NoWorker, Worker, Kinds
<1>3. Active /\ committed < Len(topic) /\ committed \in Nat /\ Len(topic) \in Nat /\ source \subseteq Items
  BY <1>1 DEF Active, IInv, WorkerSound, TypeOK
<1>4. TypeOK'
  BY <1>1, <1>2, <1>3 DEF IInv, TypeOK
<1>5. GraphSound'
  BY <1>1, <1>2 DEF IInv, GraphSound, Endpoints
<1>6. ReadsCover' /\ ~ RowsBehind'
  <2>1. neo.nodes \cup neo.edges \subseteq Items /\ \A x \in Items : ~ Passed(x, 0)
    BY <1>3, AllPassed DEF IInv, GraphSound
  <2> QED BY <1>1, <1>2, <1>3, <2>1 DEF ReadsCover, RowsBehind, Passed
<1>7. WorkerSound'
  BY <1>1, <1>2, <1>6 DEF WorkerSound, Active
<1>8. worker.read = Len(Kinds) /\ neo = Projection(worker.rows)
  BY <1>1 DEF IInv, WorkerSound
<1>9. Complete \/ Pending(committed + 1)
  BY <1>3, <1>8, RebuildSound DEF Complete
<1>10. Reported \/ Pending(committed + 1)
  <2>1. worker.rows = source \/ Pending(committed + 1)
    BY <1>3, <1>8, RebuildSound
  <2>2. ASSUME worker.rows = source, Complete PROVE Reported
    <3>1. /\ status.status = "ready"
          /\ status.node_count = Cardinality(worker.rows \cap Nodes)
          /\ status.relation_count = Cardinality(worker.rows \cap Relations)
      BY <1>1 DEF IInv, WorkerSound
    <3>2. neo.nodes = worker.rows \cap Nodes /\ neo.edges = worker.rows \cap Relations
      BY <2>2 DEF Complete
    <3> QED BY <3>1, <3>2 DEF Reported
  <2> QED BY <1>9, <2>1, <2>2
<1>11. RepairPending'
  BY <1>1, <1>9, <1>10 DEF RepairPending, Complete, Reported
<1> QED BY <1>1, <1>4, <1>5, <1>6, <1>7, <1>11 DEF IInv

-----------------------------------------------------------------------------
LEMMA InvStep == IInv /\ [Next]_vars => IInv'
<1> SUFFICES ASSUME IInv, [Next]_vars PROVE IInv'
  OBVIOUS
<1>1. CASE \E x \in Items : Create(x)
  BY <1>1, CreateAdds, AddedKeeps
<1>2. CASE EnqueueOutbox
  BY <1>2, EnqueueOutboxAdds, AddedKeeps
<1>3. CASE \E g \in Gateways : RelayMoves(g)
  BY <1>3, RelayMovesKeep
<1>4. CASE WorkerStep
  BY <1>4, ReceiveRebuildKeeps, MarkRunningKeeps, ReadTableKeeps, ReplaceProjectionKeeps, MarkReadyKeeps,
     CommitMessageKeeps DEF WorkerStep
<1>5. CASE ProjectFails \/ WorkerExits
  BY <1>5, ProjectFailsStops, StoppedKeeps
<1>6. CASE UNCHANGED vars
  <2>1. UNCHANGED <<outboxVars, relay, topic, committed, worker, neo, status, faults>>
    BY <1>6 DEF vars, workerVars
  <2>2. UNCHANGED <<source, rows, published>> /\ OutboxSound' /\ \A n : Pending(n)' <=> Pending(n)
    BY <2>1, UnchangedOutbox DEF IInv
  <2>3. TypeOK' /\ GraphSound' /\ ReadsCover' /\ (RowsBehind' <=> RowsBehind)
    BY <2>1, <2>2 DEF IInv, TypeOK, GraphSound, ReadsCover, RowsBehind, Passed, Endpoints
  <2>4. WorkerSound' /\ RepairPending'
    BY <2>1, <2>2, <2>3
       DEF IInv, WorkerSound, RepairPending, Complete, Reported, Active, Projection, Endpoints
  <2> QED BY <2>2, <2>3, <2>4 DEF IInv
<1> QED BY <1>1, <1>2, <1>3, <1>4, <1>5, <1>6 DEF Next, RelayMoves

(* Whatever is missing in Neo4j, or in its status, has a record on its way;  *)
(* and the variables keep their types.                                       *)
THEOREM ProjectionInvariant == Spec => []IInv
<1>1. IInv /\ [Next]_vars => IInv'
  BY InvStep
<1> QED BY InvInit, <1>1, PTL DEF Spec

(* When the relays have published all rows and the graph worker has          *)
(* committed all records, Neo4j is the ontology and the status says so,      *)
(* whatever failed on the way.                                               *)
THEOREM ProjectionRepaired == Spec => []CaughtUp
<1>1. IInv => CaughtUp
  <2> SUFFICES ASSUME IInv, Unpublished = {}, committed = Len(topic), rows > 0
               PROVE  Complete /\ Reported
    BY DEF CaughtUp, Complete, Reported
  <2>1. \A i \in 1 .. rows : SentBy(i, Len(topic))
    BY DEF Unpublished, IInv, OutboxSound
  <2>2. ~ Pending(committed)
    BY <2>1 DEF Pending
  <2>3. ~ (committed < Len(topic))
    BY DEF IInv, TypeOK
  <2> QED BY <2>2, <2>3 DEF IInv, RepairPending
<1> QED BY <1>1, ProjectionInvariant, PTL

LEMMA ReplacingCatchesUp ==
  ASSUME IInv, Active, worker.read = Len(Kinds), neo' = Projection(worker.rows), UNCHANGED source
  PROVE  [View!Next]_<<source, neo.nodes \cup neo.edges>>
<1>1. neo'.nodes \cup neo'.edges \in SUBSET source /\ neo.nodes \cup neo.edges \subseteq neo'.nodes \cup neo'.edges
  BY RebuildSound
<1> QED BY <1>1 DEF View!Next, View!CatchUp

LEMMA StepsAreTheViews ==
  IInv /\ [Next]_vars => [View!Next]_<<source, neo.nodes \cup neo.edges>>
<1> SUFFICES ASSUME IInv, [Next]_vars PROVE [View!Next]_<<source, neo.nodes \cup neo.edges>>
  OBVIOUS
<1>1. CASE \E x \in Items : Create(x)
  BY <1>1 DEF Create, workerVars, View!Next, View!Grow
<1>2. CASE EnqueueOutbox
  BY <1>2 DEF EnqueueOutbox, workerVars
<1>3. CASE \E g \in Gateways : RelayMoves(g)
  BY <1>3, RelayMovesAct DEF RelayActs, workerVars
<1>4. CASE WorkerStep
  <2>1. CASE ReplaceProjection
    BY <2>1, ReplacingCatchesUp DEF ReplaceProjection, outboxVars, Active
  <2>2. CASE ~ ReplaceProjection
    BY <1>4, <2>2
       DEF WorkerStep, ReceiveRebuild, Receive, MarkRunning, ReadTable, MarkReady, CommitMessage, CommitOffset,
           outboxVars
  <2> QED BY <2>1, <2>2
<1>5. CASE ProjectFails \/ WorkerExits
  <2>1. Stopped
    BY <1>5, ProjectFailsStops
  <2> QED BY <2>1, ReplacingCatchesUp DEF Stopped, outboxVars
<1>6. CASE UNCHANGED vars
  BY <1>6 DEF vars, outboxVars, workerVars
<1> QED BY <1>1, <1>2, <1>3, <1>4, <1>5, <1>6 DEF Next, RelayMoves

(* Neo4j is a read model of the ontology: it never shows what PostgreSQL     *)
(* does not have and never forgets what it showed, although replace_projection*)
(* deletes all of it each time and the queries of a rebuild are no snapshot. *)
THEOREM ProjectionIsReadModel == Spec => ImplementsReadModel
<1>1. Init => View!Init
  BY DEF Init, View!Init
<1>2. IInv /\ [Next]_vars => [View!Next]_<<source, neo.nodes \cup neo.edges>>
  BY StepsAreTheViews
<1> QED BY <1>1, <1>2, ProjectionInvariant, PTL DEF Spec, ImplementsReadModel, View!Spec

===============================================================================
