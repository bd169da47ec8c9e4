--------------------------- MODULE GraphProjection ---------------------------
(***************************************************************************)
(* The ontology in PostgreSQL and its projection in Neo4j.                 *)
(*                                                                         *)
(*   HTTP -> semantic_* row and outbox_event row, one transaction          *)
(*     -> Go relay: read the next row, publish, mark it published          *)
(*     -> Kafka semantic.graph.rebuild (one partition)                     *)
(*     -> Rust graph worker: four queries, one Neo4j transaction, status,  *)
(*        offset commit                                                    *)
(*                                                                         *)
(* Every gateway runs a relay and none takes a lock.  The four queries of a*)
(* rebuild are not one snapshot: rows are created between them.  The worker*)
(* exits at any error and starts again at the committed offset.            *)
(***************************************************************************)
EXTENDS Naturals, Sequences, FiniteSets

CONSTANTS
  Gateways,      \* Go processes, one relay each
  Items,         \* rows of the semantic_* tables
  KindOf,        \* the table of a row
  Needs,         \* the rows a row refers to
  Seeded,        \* rows inserted by the migration, without an outbox row
  MaxRows,       \* bound: outbox rows
  MaxFaults      \* bound: faults in a behaviour

\* The tables in the order the worker reads them.
Kinds == <<"class", "property", "individual", "relation">>

ASSUME ConstantsAssumption ==
  /\ IsFiniteSet(Items)
  /\ KindOf \in [Items -> {"class", "property", "individual", "relation"}]
  /\ Needs \in [Items -> SUBSET Items]
  /\ Seeded \subseteq Items /\ \A x \in Seeded : Needs[x] \subseteq Seeded
  /\ MaxRows \in Nat
  /\ MaxFaults \in Nat

(* A definition F_Variant is F as a plausible mistake would have it; it is   *)
(* used by no action, only to see that the properties notice the difference. *)

VARIABLES
  source,        \* the semantic_* tables
  rows,          \* outbox_event: how many rows
  published,     \* outbox rows with published_at set
  relay,         \* what the relay of a gateway is doing
  topic,         \* semantic.graph.rebuild: the outbox row behind each record
  committed,     \* the committed offset of the group
  worker,        \* what the graph worker is doing
  neo,           \* the projection in Neo4j
  status,        \* graph_projection_status
  faults         \* faults so far

outboxVars == <<source, rows, published>>
workerVars == <<committed, worker, neo, status>>
vars       == <<outboxVars, relay, topic, workerVars, faults>>

-----------------------------------------------------------------------------
Nodes == {x \in Items : KindOf[x] # "relation"}
Relations == Items \ Nodes

Relay == [row : Nat, step : {"idle", "read", "sent"}]
NoRelay == [row |-> 0, step |-> "idle"]

\* rebuild is the record received, read counts the queries done.
Worker == [rebuild : Nat, step : {"idle", "fetched", "reading", "projected", "ready"},
           read : 0 .. Len(Kinds), rows : SUBSET Items]
NoWorker == [rebuild |-> 0, step |-> "idle", read |-> 0, rows |-> {}]

Status == [status : {"not_built", "running", "ready", "failed"},
           rebuild_id : Nat, node_count : Nat, relation_count : Nat]

Fault == faults < MaxFaults /\ faults' = faults + 1

Init ==
  /\ source = Seeded
  /\ rows = 0 /\ published = {}
  /\ relay = [g \in Gateways |-> NoRelay]
  /\ topic = <<>>
  /\ committed = 0
  /\ worker = NoWorker
  /\ neo = [nodes |-> {}, edges |-> {}]
  /\ status = [status |-> "not_built", rebuild_id |-> 0, node_count |-> 0, relation_count |-> 0]
  /\ faults = 0

-----------------------------------------------------------------------------
insertOutbox == rows < MaxRows /\ rows' = rows + 1

\* CreateClass, CreateProperty, CreateIndividual, CreateRelation: the row, whose
\* references the database checks, and its outbox row in one transaction.
Create(x) ==
  /\ x \notin source
  /\ Needs[x] \subseteq source
  /\ source' = source \cup {x}
  /\ insertOutbox
  /\ UNCHANGED <<published, relay, topic, workerVars, faults>>

\* POST /graph/projection/rebuild
EnqueueOutbox ==
  /\ insertOutbox
  /\ UNCHANGED <<source, published, relay, topic, workerVars, faults>>

-----------------------------------------------------------------------------
Unpublished == (1 .. rows) \ published

NextOutbox(g) ==
  /\ relay[g].step = "idle"
  /\ \E row \in Unpublished :
       /\ \A i \in Unpublished : row <= i
       /\ relay' = [relay EXCEPT ![g] = [row |-> row, step |-> "read"]]
  /\ UNCHANGED <<outboxVars, topic, workerVars, faults>>

PublishGraphRebuild(g) ==
  /\ relay[g].step = "read"
  /\ topic' = Append(topic, relay[g].row)
  /\ relay' = [relay EXCEPT ![g].step = "sent"]
  /\ UNCHANGED <<outboxVars, workerVars, faults>>

AfterPublishError_Marks(g) ==
  /\ relay' = [relay EXCEPT ![g] = NoRelay]
  /\ published' = published \cup {relay[g].row}

\* The relay returns; the next tick starts over with the first open row.
AfterPublishError(g) ==
  /\ relay' = [relay EXCEPT ![g] = NoRelay]
  /\ UNCHANGED published

PublishGraphRebuildFails(g) ==
  /\ relay[g].step = "read"
  /\ Fault
  /\ topic' \in {topic, Append(topic, relay[g].row)}
  /\ AfterPublishError(g)
  /\ UNCHANGED <<source, rows, workerVars>>

MarkOutboxPublished(g) ==
  /\ relay[g].step = "sent"
  /\ published' = published \cup {relay[g].row}
  /\ relay' = [relay EXCEPT ![g] = NoRelay]
  /\ UNCHANGED <<source, rows, topic, workerVars, faults>>

\* The gateway dies, or the update fails.
RelayStops(g) ==
  /\ relay[g].step # "idle"
  /\ Fault
  /\ relay' = [relay EXCEPT ![g] = NoRelay]
  /\ UNCHANGED <<outboxVars, topic, workerVars>>

-----------------------------------------------------------------------------
Receive(committing) ==
  /\ worker.step = "idle"
  /\ committed < Len(topic)
  /\ worker' = [NoWorker EXCEPT !.step = "fetched", !.rebuild = topic[committed + 1]]
  /\ committed' = IF committing THEN committed + 1 ELSE committed
  /\ UNCHANGED <<outboxVars, relay, topic, neo, status, faults>>

ReceiveRebuild_AutoCommit == Receive(TRUE)

ReceiveRebuild == Receive(FALSE)

MarkRunning ==
  /\ worker.step = "fetched"
  /\ status' = [status EXCEPT !.status = "running", !.rebuild_id = worker.rebuild]
  /\ worker' = [worker EXCEPT !.step = "reading"]
  /\ UNCHANGED <<outboxVars, relay, topic, committed, neo, faults>>

ReadTable ==
  /\ worker.step = "reading"
  /\ worker.read < Len(Kinds)
  /\ worker' = [worker EXCEPT !.read = @ + 1,
       !.rows = @ \cup {x \in source : KindOf[x] = Kinds[worker.read + 1]}]
  /\ UNCHANGED <<outboxVars, relay, topic, committed, neo, status, faults>>

\* An edge is created only if MATCH finds both of its ends.
Endpoints(x) == {y \in Needs[x] : KindOf[y] = "individual"}

Projection(read) ==
  [nodes |-> read \cap Nodes,
   edges |-> {x \in read \cap Relations : Endpoints(x) \subseteq read}]

ReplaceProjection ==
  /\ worker.step = "reading"
  /\ worker.read = Len(Kinds)
  /\ neo' = Projection(worker.rows)
  /\ worker' = [worker EXCEPT !.step = "projected"]
  /\ UNCHANGED <<outboxVars, relay, topic, committed, status, faults>>

MarkReady ==
  /\ worker.step = "projected"
  /\ status' = [status EXCEPT !.status = "ready",
                              !.node_count = Cardinality(worker.rows \cap Nodes),
                              !.relation_count = Cardinality(worker.rows \cap Relations)]
  /\ worker' = [worker EXCEPT !.step = "ready"]
  /\ UNCHANGED <<outboxVars, relay, topic, committed, neo, faults>>

CommitOffset(offset) ==
  /\ worker.step = "ready"
  /\ committed' = offset
  /\ worker' = NoWorker
  /\ UNCHANGED <<outboxVars, relay, topic, neo, status, faults>>

CommitMessage == CommitOffset(committed + 1)

ReplaceFailure_NotAtomic == {neo, Projection(worker.rows), [nodes |-> {}, edges |-> {}]}

\* One transaction: it has happened or not when the answer does not arrive.
ReplaceFailure == {neo, Projection(worker.rows)}

\* project fails: the status is set if that succeeds, and the process exits.
ProjectFails ==
  /\ worker.step = "reading"
  /\ Fault
  /\ \/ worker.read < Len(Kinds) /\ UNCHANGED neo
     \/ worker.read = Len(Kinds) /\ neo' \in ReplaceFailure
  /\ status' \in {status, [status EXCEPT !.status = "failed"]}
  /\ worker' = NoWorker
  /\ UNCHANGED <<outboxVars, relay, topic, committed>>

\* The process dies, or a status update or the commit fails and it exits.
WorkerExits ==
  /\ worker.step # "idle"
  /\ Fault
  /\ worker' = NoWorker
  /\ UNCHANGED <<outboxVars, relay, topic, committed, neo, status>>

-----------------------------------------------------------------------------
RelayStep(g) == NextOutbox(g) \/ PublishGraphRebuild(g) \/ MarkOutboxPublished(g)

WorkerStep ==
  \/ ReceiveRebuild
  \/ MarkRunning
  \/ ReadTable
  \/ ReplaceProjection
  \/ MarkReady
  \/ CommitMessage

Next ==
  \/ \E x \in Items : Create(x)
  \/ EnqueueOutbox
  \/ \E g \in Gateways : \/ RelayStep(g)
                         \/ PublishGraphRebuildFails(g)
                         \/ RelayStops(g)
  \/ WorkerStep
  \/ ProjectFails
  \/ WorkerExits

Spec == Init /\ [][Next]_vars

\* A relay ticks twice a second; the worker is restarted and goes on.
FairSpec ==
  /\ Spec
  /\ \A g \in Gateways : WF_vars(RelayStep(g))
  /\ WF_vars(WorkerStep)

-----------------------------------------------------------------------------
(* Every variable keeps its type.                                           *)
TypeOK ==
  /\ source \subseteq Items
  /\ rows \in 0 .. MaxRows
  /\ published \subseteq 1 .. rows
  /\ relay \in [Gateways -> Relay]
  /\ topic \in Seq(1 .. rows)
  /\ committed \in 0 .. Len(topic)
  /\ worker \in Worker
  /\ neo \in [nodes : SUBSET Nodes, edges : SUBSET Relations]
  /\ status \in Status
  /\ faults \in 0 .. MaxFaults

(* When every outbox row is published and every record committed, Neo4j is   *)
(* the source, and the status says so: no crash, duplicate or concurrent     *)
(* change leaves the projection behind with nothing on its way to repair it. *)
CaughtUp ==
  Unpublished = {} /\ committed = Len(topic) /\ rows > 0 =>
    /\ neo = [nodes |-> source \cap Nodes, edges |-> source \cap Relations]
    /\ worker.step = "idle" => /\ status.status = "ready"
                               /\ status.node_count = Cardinality(neo.nodes)
                               /\ status.relation_count = Cardinality(neo.edges)

(* The projection implements a read model: at any time it shows rows of the  *)
(* source, never forgets one, although it is deleted and rebuilt each time,  *)
(* and under fairness shows every created row in the end.                    *)
View == INSTANCE ReadModel WITH view <- neo.nodes \cup neo.edges

ImplementsReadModel == View!Spec
EveryRowProjected == View!EverythingShown

=============================================================================
