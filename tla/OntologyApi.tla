----------------------------- MODULE OntologyApi -----------------------------
(***************************************************************************)
(* The ontology as its users write and read it.                            *)
(*                                                                         *)
(* A POST inserts a row of a semantic_* table and an outbox row in one     *)
(* transaction; names are unique, references are foreign keys, and several *)
(* gateways run such transactions at once.  A GET of the ontology is four  *)
(* statements, not one snapshot.  The browser asks it before an operator   *)
(* may change a rule.  The explorer reads the projection of the ontology in *)
(* Neo4j, in two more statements, while the graph worker rebuilds it from  *)
(* four; what makes the worker rebuild it is left to GraphProjection.      *)
(***************************************************************************)
EXTENDS Naturals, FiniteSets

CONSTANTS
  Requests,      \* POST requests
  Readers,       \* dialogs that read the ontology for a policy, explorers
  Explorers,     \* the readers that read the projection
  Entries,       \* rows of the four tables; an entry stands for its row's id
  Asked,         \* the entries that a POST may ask for
  KindOf,        \* the table of an entry
  KeyOf,         \* its name; the three references of a relation
  RefersTo,      \* the rows its foreign keys name
  Valid,         \* entries that pass the validation of their input
  Seeded,        \* rows of the migration
  RequiredIndividual, RequiredRelation,   \* what the policy asks for
  NodeLimit,     \* nodes of the projection that a read returns (200)
  MaxReads       \* bound: reads of all readers

KindNames == {"class", "property", "individual", "relation"}

ASSUME ConstantsAssumption ==
  /\ IsFiniteSet(Entries) /\ Explorers \subseteq Readers
  /\ KindOf \in [Entries -> KindNames]
  /\ RefersTo \in [Entries -> SUBSET Entries]
  /\ Asked \subseteq Entries
  /\ Valid \subseteq Entries /\ Seeded \subseteq Valid
  /\ \A e \in Seeded : RefersTo[e] \subseteq Seeded
  /\ \A d, e \in Seeded : KindOf[d] = KindOf[e] /\ KeyOf[d] = KeyOf[e] => d = e
  /\ RequiredIndividual \in Entries /\ RequiredRelation \in Entries
  /\ NodeLimit \in Nat /\ MaxReads \in Nat

(* A definition F_Variant is F as a plausible mistake would have it; it is   *)
(* used by no action, only to see that the properties notice the difference. *)

VARIABLES
  rows,        \* the committed rows of the four tables
  outbox,      \* requests whose outbox row is committed
  request,     \* each POST: its entry, its transaction, its answer
  rebuild,     \* the rebuild under way: its step, what it has read, and the
               \* rows there were when it began
  projection,  \* the rows in Neo4j
  whole,       \* the rows there were when the rebuild that made it began
  status,      \* graph_projection_status.status
  read,        \* what each reader has read
  reads        \* reads begun so far

writeVars == <<rows, outbox, request>>
graphVars == <<rebuild, projection, whole, status>>
readVars  == <<read, reads>>
vars      == <<writeVars, graphVars, readVars>>

-----------------------------------------------------------------------------
NoRebuild == [step |-> "idle", rows |-> {}, began |-> {}]

\* due: rows this read must not miss.
Unread == [step |-> "idle", seen |-> {}, nodes |-> {}, due |-> {}, result |-> "none"]

Init ==
  /\ rows = Seeded /\ outbox = {}
  /\ request \in [Requests -> [entry : Asked, state : {"sent"}, answer : {0}]]
  /\ rebuild = NoRebuild
  /\ projection = {} /\ whole = {} /\ status = "not_built"
  /\ read = [r \in Readers |-> Unread]
  /\ reads = 0

-----------------------------------------------------------------------------
(* The create handlers.  A request that has no answer yet is in a           *)
(* transaction: "begun", "inserted" or "outboxed".                           *)

Entry(q) == request[q].entry
Is(q, state) == request[q].state = state
Becomes(q, state) == request' = [request EXCEPT ![q].state = state]
Answer(q, code) == request' = [request EXCEPT ![q].state = "done", ![q].answer = code]

SameKey(d, e) == KindOf[d] = KindOf[e] /\ KeyOf[d] = KeyOf[e]

\* The row that another transaction has inserted and not committed.
Blocked(q) == \E p \in Requests \ {q} :
  request[p].state \in {"inserted", "outboxed"} /\ SameKey(Entry(p), Entry(q))

\* The tables without their foreign keys.
Conflicts_NoReferences(e) == \E d \in rows : SameKey(d, e)

\* 23505, then 23503.
Conflicts(e) ==
  \/ \E d \in rows : SameKey(d, e)
  \/ ~(RefersTo[e] \subseteq rows)

Validate(q) ==
  /\ Is(q, "sent")
  /\ IF Entry(q) \in Valid THEN Becomes(q, "begun") ELSE Answer(q, 400)
  /\ UNCHANGED <<rows, outbox, graphVars, readVars>>

\* The insert, and the query for the names the row refers to.
Insert(q) ==
  /\ Is(q, "begun") /\ ~Blocked(q)
  /\ IF Conflicts(Entry(q)) THEN Answer(q, 409) ELSE Becomes(q, "inserted")
  /\ UNCHANGED <<rows, outbox, graphVars, readVars>>

insertOutbox(q) ==
  /\ Is(q, "inserted")
  /\ Becomes(q, "outboxed")
  /\ UNCHANGED <<rows, outbox, graphVars, readVars>>

\* A commit whose answer is lost is reported as a conflict.
Codes_Conflict == {201, 409}

\* The answer of the commit may be lost on its way to the gateway.
Codes == {201, 503}

Commit(q) ==
  /\ Is(q, "outboxed")
  /\ rows' = rows \cup {Entry(q)}
  /\ outbox' = outbox \cup {q}
  /\ \E code \in Codes : Answer(q, code)
  /\ UNCHANGED <<graphVars, readVars>>

\* The transaction of the row ends before the outbox row is written.
Fail_RowKept(q) ==
  /\ request[q].state \in {"sent", "begun", "inserted", "outboxed"}
  /\ Answer(q, 503)
  /\ rows' = IF Is(q, "outboxed") THEN rows \cup {Entry(q)} ELSE rows
  /\ UNCHANGED <<outbox, graphVars, readVars>>

\* A statement, the connection or the gateway fails, and the transaction is undone.
Fail(q) ==
  /\ request[q].state \in {"sent", "begun", "inserted", "outboxed"}
  /\ Answer(q, 503)
  /\ UNCHANGED <<rows, outbox, graphVars, readVars>>

-----------------------------------------------------------------------------
(* The rebuild of the projection: four statements, then one transaction in   *)
(* Neo4j.  A row joins the table it refers to, and not what an earlier        *)
(* statement has read of it.                                                  *)

OfKind(S, kinds) == {e \in S : KindOf[e] \in kinds}

\* The tables in the order in which they are read, here and in GetOntology.
After == [class |-> "property", property |-> "individual", individual |-> "relation",
          relation |-> "listed"]

RebuildBegins ==
  /\ rebuild.step = "idle"
  /\ rebuild' = [step |-> "class", rows |-> {}, began |-> rows]
  /\ status' = "running"
  /\ UNCHANGED <<writeVars, projection, whole, readVars>>

RebuildReads ==
  /\ rebuild.step \in KindNames
  /\ rebuild' = [rebuild EXCEPT !.step = After[@], !.rows = @ \cup OfKind(rows, {rebuild.step})]
  /\ UNCHANGED <<writeVars, projection, whole, status, readVars>>

EndsOf(e) == {d \in RefersTo[e] : KindOf[d] = "individual"}

\* Every edge with its two ends.
Drawn(S) == \A e \in OfKind(S, {"relation"}) : EndsOf(e) \subseteq S

\* An edge is created though its ends are not matched.
Projection_Unmatched(S) == S

\* An edge is created when both its ends are matched.
Projection(S) == {e \in S : KindOf[e] = "relation" => EndsOf(e) \subseteq S}

RebuildReplaces ==
  /\ rebuild.step = "listed"
  /\ rebuild' = [rebuild EXCEPT !.step = "replaced"]
  /\ projection' = Projection(rebuild.rows) /\ whole' = rebuild.began
  /\ UNCHANGED <<writeVars, status, readVars>>

RebuildEnds ==
  /\ rebuild.step = "replaced"
  /\ rebuild' = NoRebuild
  /\ status' = "ready"
  /\ UNCHANGED <<writeVars, projection, whole, readVars>>

\* A statement, Neo4j or the worker fails; the answer of the replacement may be
\* what is lost.  The status says so if the worker could still write it.
RebuildFails ==
  /\ rebuild.step # "idle"
  /\ rebuild' = NoRebuild
  /\ \/ UNCHANGED <<projection, whole>>
     \/ /\ rebuild.step = "listed"
        /\ projection' = Projection(rebuild.rows) /\ whole' = rebuild.began
  /\ status' \in (IF rebuild.step = "replaced" THEN {status} ELSE {status, "failed"})
  /\ UNCHANGED <<writeVars, readVars>>

-----------------------------------------------------------------------------
(* Reads. *)

At(r, step) == read[r].step = step

Begin(r) ==
  /\ read[r].step \in {"idle", "done"} /\ reads < MaxReads
  /\ reads' = reads + 1
  /\ read' = [read EXCEPT ![r] = [Unread EXCEPT
       !.step = IF r \in Explorers THEN "status" ELSE "class",
       !.due = IF r \in Explorers THEN whole ELSE rows]]
  /\ UNCHANGED <<writeVars, graphVars>>

\* ListClasses, ListProperties, ListIndividuals, ListRelations: each joins the
\* tables its rows refer to, in a statement of its own.
GetOntology(r) ==
  \E kind \in KindNames :
    /\ At(r, kind)
    /\ read' = [read EXCEPT ![r].step = After[kind], ![r].seen = @ \cup OfKind(rows, {kind})]
    /\ UNCHANGED <<writeVars, graphVars, reads>>

\* A list that fails is an empty list.
ReadFails_Empty(r) ==
  /\ read[r].step \in KindNames
  /\ read' = [read EXCEPT ![r].step = After[@]]
  /\ UNCHANGED <<writeVars, graphVars, reads>>

ReadFails(r) ==
  /\ read[r].step \notin {"idle", "done"}
  /\ read' = [read EXCEPT ![r].step = "done", ![r].result = "unavailable"]
  /\ UNCHANGED <<writeVars, graphVars, reads>>

Passes(seen) == RequiredIndividual \in seen /\ RequiredRelation \in seen

confirmSemanticPolicy(r) ==
  /\ At(r, "listed")
  /\ read' = [read EXCEPT ![r].step = "done",
                          ![r].result = IF Passes(read[r].seen) THEN "allowed" ELSE "refused"]
  /\ UNCHANGED <<writeVars, graphVars, reads>>

graphOntology(r) ==
  /\ At(r, "status")
  /\ read' = [read EXCEPT ![r] = IF status = "ready" THEN [@ EXCEPT !.step = "nodes"]
                                 ELSE [@ EXCEPT !.step = "done", !.result = "unavailable"]]
  /\ UNCHANGED <<writeVars, graphVars, reads>>

\* Nodes without the properties.
Matched_NoProperties(nodes) == OfKind(nodes, {"class", "individual"})

Matched(nodes) == OfKind(nodes, KindNames)

\* LIMIT 200 keeps a part of the nodes.
MatchNodes(r) ==
  /\ At(r, "nodes")
  /\ LET all == OfKind(projection, KindNames \ {"relation"})
         number == Cardinality(Matched(all)) IN
     \E some \in SUBSET Matched(all) :
       /\ Cardinality(some) = IF number <= NodeLimit THEN number ELSE NodeLimit
       /\ read' = [read EXCEPT ![r].step = "relations", ![r].nodes = all, ![r].seen = some]
  /\ UNCHANGED <<writeVars, graphVars, reads>>

MatchRelations(r) ==
  /\ At(r, "relations")
  /\ read' = [read EXCEPT ![r].step = "done", ![r].result = "shown",
                          ![r].seen = @ \cup OfKind(projection, {"relation"})]
  /\ UNCHANGED <<writeVars, graphVars, reads>>

Next ==
  \/ \E q \in Requests : Validate(q) \/ Insert(q) \/ insertOutbox(q) \/ Commit(q) \/ Fail(q)
  \/ RebuildBegins \/ RebuildReads \/ RebuildReplaces \/ RebuildEnds \/ RebuildFails
  \/ \E r \in Readers : \/ Begin(r) \/ GetOntology(r) \/ ReadFails(r) \/ confirmSemanticPolicy(r)
                        \/ graphOntology(r) \/ MatchNodes(r) \/ MatchRelations(r)

Spec == Init /\ [][Next]_vars

-----------------------------------------------------------------------------
TypeOK ==
  /\ rows \subseteq Entries /\ outbox \subseteq Requests
  /\ request \in [Requests -> [entry : Entries, answer : {0, 201, 400, 409, 503},
                               state : {"sent", "begun", "inserted", "outboxed", "done"}]]
  /\ rebuild \in [step : KindNames \cup {"idle", "listed", "replaced"},
                  rows : SUBSET Entries, began : SUBSET Entries]
  /\ projection \subseteq Entries /\ whole \subseteq Entries
  /\ status \in {"not_built", "running", "ready", "failed"}
  /\ reads \in 0 .. MaxReads
  /\ read \in [Readers ->
       [step : KindNames \cup {"idle", "listed", "status", "nodes", "relations", "done"},
        seen : SUBSET Entries, nodes : SUBSET Entries, due : SUBSET Entries,
        result : {"none", "unavailable", "allowed", "refused", "shown"}]]

(* Transactions that overlap leave no two rows with one name, and no row     *)
(* that refers to a row which is not there.                                  *)
TablesConsistent ==
  /\ \A d, e \in rows : SameKey(d, e) => d = e
  /\ \A e \in rows : RefersTo[e] \subseteq rows
  /\ rows \subseteq Valid

(* 2nd-009: every semantic mutation commits in one transaction with its      *)
(* outbox row.  Each row that is not of the migration has exactly one, and   *)
(* an outbox row is there for a row.                                         *)
RowWithOutbox ==
  /\ \A e \in rows \ Seeded : Cardinality({q \in outbox : Entry(q) = e}) = 1
  /\ \A q \in outbox : Entry(q) \in rows

(* The answers can be relied on: 201 only for a row this request has         *)
(* committed, 400 and 409 only when it has not; 503 leaves both open.        *)
AnswersHonest == \A q \in Requests :
  /\ request[q].answer = 201 => q \in outbox
  /\ request[q].answer \in {400, 409} => q \notin outbox

(* What is written is consistent, recorded for the graph and reported as it  *)
(* is, however the transactions overlap and wherever they fail.              *)
WritesSound == TablesConsistent /\ RowWithOutbox /\ AnswersHonest

(* The ontology gate, though four statements are no snapshot: an operator is *)
(* let through only when the required individual and relation are both in    *)
(* the ontology, and is refused only if one of them was not when the read    *)
(* began.                                                                    *)
GateRight == \A r \in Readers :
  /\ read[r].result = "allowed" => {RequiredIndividual, RequiredRelation} \subseteq rows
  /\ read[r].result = "refused" =>
       ~({RequiredIndividual, RequiredRelation} \subseteq read[r].due)

(* The explorer, though neither the rebuild nor the read is a snapshot: it    *)
(* shows only what was committed, and all that was when the last rebuild      *)
(* before the read began, unless there are too many nodes; and an edge lacks  *)
(* an end only because of that limit, or because a rebuild took effect        *)
(* between the two statements.                                                *)
ExplorerGrounded == \A r \in Explorers : read[r].result = "shown" =>
  /\ read[r].seen \subseteq rows
  /\ \/ Cardinality(read[r].nodes) > NodeLimit
     \/ /\ read[r].due \subseteq read[r].seen
        /\ \/ Drawn(read[r].seen)
           \/ read[r].nodes # OfKind(projection, KindNames \ {"relation"})

(* What is read, in several statements, is enough for what it is used for.   *)
ReadsSound == GateRight /\ ExplorerGrounded
=============================================================================
