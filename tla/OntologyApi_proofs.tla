-------------------------- MODULE OntologyApi_proofs --------------------------
(***************************************************************************)
(* Proofs about the ontology, for any requests, readers, entries and       *)
(* limits: what overlapping transactions write is consistent and recorded, *)
(* and what is read in several statements is enough for its use.           *)
(***************************************************************************)
EXTENDS OntologyApi, FiniteSetTheorems, TLAPS

Writing(q) == request[q].state \in {"inserted", "outboxed"}

(* A transaction that has inserted its row can commit: nobody has taken its  *)
(* name, and what the row refers to is there.                                *)
InsertsSound ==
  /\ \A q \in Requests : request[q].state = "begun" \/ Writing(q) => Entry(q) \in Valid
  /\ \A q \in Requests : Writing(q) =>
       /\ \A d \in rows : ~ SameKey(d, Entry(q))
       /\ RefersTo[Entry(q)] \subseteq rows
  /\ \A p, q \in Requests : Writing(p) /\ Writing(q) /\ p # q => ~ SameKey(Entry(p), Entry(q))

OutboxSound ==
  /\ \A q \in Requests : request[q].state # "done" => q \notin outbox /\ request[q].answer = 0
  /\ \A q \in outbox : Entry(q) \in rows \ Seeded
  /\ \A p, q \in outbox : Entry(p) = Entry(q) => p = q
  /\ \A e \in rows \ Seeded : \E q \in outbox : Entry(q) = e

WritesInv == TablesConsistent /\ Seeded \subseteq rows /\ InsertsSound /\ OutboxSound /\ AnswersHonest

Closed(S) == \A e \in S : RefersTo[e] \subseteq S

(* The tables that a reader, or a rebuild, has read when it is at a step.    *)
ReadAt(step) ==
  {kind \in KindNames : \/ step = "listed"
                        \/ kind = "class" /\ step \in {"property", "individual", "relation"}
                        \/ kind = "property" /\ step \in {"individual", "relation"}
                        \/ kind = "individual" /\ step = "relation"}

NodesOf(S) == OfKind(S, KindNames \ {"relation"})

(* A reader has seen only rows, and of the tables it has read all the rows   *)
(* that were there when it began.                                            *)
PolicyInv(r) ==
  /\ read[r].seen \subseteq rows /\ read[r].due \subseteq rows
  /\ OfKind(read[r].due, ReadAt(read[r].step)) \subseteq read[r].seen
  /\ read[r].step # "done" => read[r].result = "none"
  /\ read[r].result = "allowed" => {RequiredIndividual, RequiredRelation} \subseteq rows
  /\ read[r].result = "refused" => ~({RequiredIndividual, RequiredRelation} \subseteq read[r].due)

(* Whatever an explorer must show is in the projection, whose nodes it has   *)
(* all, unless there were too many.                                          *)
ExplorerInv(r) ==
  /\ read[r].nodes \subseteq NodesOf(projection)
  /\ read[r].step \in {"status", "nodes", "relations"} => read[r].due \subseteq projection
  /\ read[r].step = "relations" =>
       \/ Cardinality(read[r].nodes) > NodeLimit
       \/ read[r].seen = read[r].nodes /\ NodesOf(read[r].due) \subseteq read[r].seen
  /\ read[r].result = "shown" =>
       \/ Cardinality(read[r].nodes) > NodeLimit
       \/ /\ read[r].due \subseteq read[r].seen
          /\ Drawn(read[r].seen) \/ read[r].nodes # NodesOf(projection)

(* A rebuild has read, of its tables, all that was there when it began and   *)
(* all that the projection shows: it takes nothing away.                     *)
RebuildInv ==
  /\ rebuild.rows \subseteq rows /\ rebuild.began \subseteq rows /\ Closed(rebuild.began)
  /\ OfKind(rebuild.began, ReadAt(rebuild.step)) \subseteq rebuild.rows
  /\ OfKind(projection, ReadAt(rebuild.step)) \subseteq rebuild.rows
  /\ projection \subseteq rows /\ Drawn(projection) /\ whole \subseteq projection

ReadsInv == RebuildInv /\ \A r \in Readers : PolicyInv(r) /\ ExplorerInv(r)

IInv == TypeOK /\ WritesInv /\ ReadsInv

-----------------------------------------------------------------------------
LEMMA UnreadTyped ==
  /\ Unread.step = "idle" /\ Unread.seen = {} /\ Unread.nodes = {} /\ Unread.due = {} /\ Unread.result = "none"
  /\ Unread \in [step : KindNames \cup {"idle", "listed", "status", "nodes", "relations", "done"},
                 seen : SUBSET Entries, nodes : SUBSET Entries, due : SUBSET Entries,
                 result : {"none", "unavailable", "allowed", "refused", "shown"}]
  BY DEF Unread

LEMMA InvInit == Init => IInv
<1> SUFFICES ASSUME Init PROVE IInv
  OBVIOUS
<1>1. /\ rows = Seeded /\ outbox = {} /\ read = [r \in Readers |-> Unread]
      /\ rebuild = NoRebuild /\ projection = {} /\ whole = {}
      /\ request \in [Requests -> [entry : Asked, state : {"sent"}, answer : {0}]]
  BY DEF Init
<1>2. TypeOK
  BY <1>1, UnreadTyped, ConstantsAssumption DEF Init, TypeOK, NoRebuild, ConstantsAssumption
<1>3. TablesConsistent
  BY <1>1, ConstantsAssumption DEF TablesConsistent, SameKey, ConstantsAssumption
<1>4. InsertsSound
  BY <1>1 DEF InsertsSound, Writing
<1>5. OutboxSound /\ AnswersHonest
  BY <1>1 DEF OutboxSound, AnswersHonest
<1>6. ReadsInv
  BY <1>1, UnreadTyped DEF ReadsInv, RebuildInv, NoRebuild, PolicyInv, ExplorerInv, Closed, Drawn, OfKind
<1> QED BY <1>1, <1>2, <1>3, <1>4, <1>5, <1>6 DEF IInv, WritesInv

-----------------------------------------------------------------------------
(* The writers.                                                             *)

LEMMA ARequestTyped ==
  ASSUME TypeOK, NEW q \in Requests
  PROVE  /\ Entry(q) \in Entries
         /\ request[q].state \in {"sent", "begun", "inserted", "outboxed", "done"}
         /\ request[q].answer \in {0, 201, 400, 409, 503}
  BY DEF TypeOK, Entry

(* A request moves on, and writes nothing.                                   *)
Moves(q) ==
  /\ \/ \E state \in {"begun", "inserted", "outboxed"} : Becomes(q, state)
     \/ \E code \in {400, 409, 503} : Answer(q, code)
  /\ request[q].state # "done"
  /\ request'[q].state = "begun" => request[q].state = "sent" /\ Entry(q) \in Valid
  /\ request'[q].state = "inserted" =>
       request[q].state = "begun" /\ ~ Blocked(q) /\ ~ Conflicts(Entry(q))
  /\ request'[q].state = "outboxed" => request[q].state = "inserted"
  /\ UNCHANGED <<rows, outbox, graphVars, readVars>>

LEMMA MovesTyped ==
  ASSUME IInv, NEW q \in Requests,
         \/ \E state \in {"begun", "inserted", "outboxed"} : Becomes(q, state)
         \/ \E code \in {201, 400, 409, 503} : Answer(q, code)
  PROVE  /\ request' \in [Requests -> [entry : Entries, answer : {0, 201, 400, 409, 503},
                               state : {"sent", "begun", "inserted", "outboxed", "done"}]]
         /\ \A p \in Requests : request'[p].entry = request[p].entry
         /\ \A p \in Requests \ {q} : request'[p] = request[p]
         /\ \A state \in {"begun", "inserted", "outboxed"} :
              Becomes(q, state) => request'[q].state = state /\ request'[q].answer = request[q].answer
         /\ \A code \in {201, 400, 409, 503} :
              Answer(q, code) => request'[q].state = "done" /\ request'[q].answer = code
<1>1. request \in [Requests -> [entry : Entries, answer : {0, 201, 400, 409, 503},
                               state : {"sent", "begun", "inserted", "outboxed", "done"}]]
  BY DEF IInv, TypeOK
<1> QED BY <1>1 DEF Becomes, Answer

LEMMA WritersMove ==
  ASSUME IInv, NEW q \in Requests, Validate(q) \/ Insert(q) \/ insertOutbox(q) \/ Fail(q)
  PROVE  Moves(q)
<1>1. CASE Validate(q)
  <2>1. CASE Becomes(q, "begun")
    BY <1>1, <2>1, MovesTyped DEF Validate, Moves, Is
  <2>2. CASE Answer(q, 400)
    BY <1>1, <2>2, MovesTyped DEF Validate, Moves, Is
  <2> QED BY <1>1, <2>1, <2>2 DEF Validate
<1>2. CASE Insert(q)
  <2>1. CASE Becomes(q, "inserted")
    <3>1. ~ Conflicts(Entry(q))
      BY <1>2, <2>1, MovesTyped DEF Insert
    <3> QED BY <1>2, <2>1, <3>1, MovesTyped DEF Insert, Moves, Is
  <2>2. CASE Answer(q, 409)
    BY <1>2, <2>2, MovesTyped DEF Insert, Moves, Is
  <2> QED BY <1>2, <2>1, <2>2 DEF Insert
<1>3. CASE insertOutbox(q)
  BY <1>3, MovesTyped DEF insertOutbox, Moves, Is
<1>4. CASE Fail(q)
  BY <1>4, MovesTyped DEF Fail, Moves
<1> QED BY <1>1, <1>2, <1>3, <1>4

LEMMA MovesKeep ==
  ASSUME IInv, NEW q \in Requests, Moves(q)
  PROVE  IInv'
<1>1. UNCHANGED <<rows, outbox, rebuild, projection, whole, status, read, reads>>
  BY DEF Moves, graphVars, readVars
<1>2. /\ \A p \in Requests : request'[p].entry = request[p].entry
      /\ \A p \in Requests \ {q} : request'[p] = request[p]
      /\ request' \in [Requests -> [entry : Entries, answer : {0, 201, 400, 409, 503},
                               state : {"sent", "begun", "inserted", "outboxed", "done"}]]
  BY MovesTyped DEF Moves
<1>3. \/ request'[q].state \in {"begun", "inserted", "outboxed"} /\ request'[q].answer = request[q].answer
      \/ request'[q].state = "done" /\ request'[q].answer \in {400, 409, 503}
  BY MovesTyped DEF Moves
<1>4. TypeOK'
  BY <1>1, <1>2 DEF IInv, TypeOK
<1>5. TablesConsistent' /\ (Seeded \subseteq rows)'
  BY <1>1 DEF IInv, WritesInv, TablesConsistent
<1>6. \A p \in Requests : Entry(p)' = Entry(p)
  BY <1>2 DEF Entry
<1>7. InsertsSound'
  <2>1. ASSUME NEW p \in Requests, request'[p].state = "begun" \/ Writing(p)' PROVE Entry(p) \in Valid
    BY <1>2, <1>3, <2>1 DEF Moves, Writing, IInv, WritesInv, InsertsSound
  <2>2. ASSUME NEW p \in Requests, Writing(p)', ~ Writing(p) PROVE p = q /\ ~ Blocked(q) /\ ~ Conflicts(Entry(q))
    BY <1>2, <1>3, <2>2 DEF Moves, Writing
  <2>3. ASSUME NEW p \in Requests, Writing(p)'
        PROVE  (\A d \in rows : ~ SameKey(d, Entry(p))) /\ RefersTo[Entry(p)] \subseteq rows
    BY <2>2, <2>3 DEF IInv, WritesInv, InsertsSound, Conflicts
  <2>4. ASSUME NEW p \in Requests, NEW o \in Requests, Writing(p)', Writing(o)', p # o
        PROVE  ~ SameKey(Entry(p), Entry(o))
    <3>1. CASE Writing(p) /\ Writing(o)
      BY <2>4, <3>1 DEF IInv, WritesInv, InsertsSound
    <3>2. CASE ~ Writing(p)
      BY <2>2, <2>4, <3>2 DEF Blocked, Writing, SameKey
    <3>3. CASE ~ Writing(o)
      BY <2>2, <2>4, <3>3 DEF Blocked, Writing, SameKey
    <3> QED BY <3>1, <3>2, <3>3
  <2> QED BY <1>1, <1>6, <2>1, <2>3, <2>4 DEF InsertsSound, SameKey
<1>8. OutboxSound'
  <2>1. q \notin outbox /\ request[q].answer = 0 /\ outbox \subseteq Requests
    BY DEF Moves, IInv, TypeOK, WritesInv, OutboxSound
  <2>2. \A p \in Requests : request'[p].state # "done" => p \notin outbox /\ request'[p].answer = 0
    BY <1>2, <1>3, <2>1 DEF IInv, WritesInv, OutboxSound
  <2> QED BY <1>1, <1>6, <2>1, <2>2 DEF IInv, WritesInv, OutboxSound
<1>9. AnswersHonest'
  <2>1. q \notin outbox /\ request[q].answer = 0
    BY DEF Moves, IInv, WritesInv, OutboxSound
  <2> QED BY <1>1, <1>2, <1>3, <2>1 DEF IInv, WritesInv, AnswersHonest
<1>10. ReadsInv'
  BY <1>1 DEF IInv, ReadsInv, RebuildInv, PolicyInv, ExplorerInv, Closed, Drawn, OfKind, NodesOf, ReadAt
<1> QED BY <1>4, <1>5, <1>7, <1>8, <1>9, <1>10 DEF IInv, WritesInv

LEMMA CommitKeeps ==
  ASSUME IInv, NEW q \in Requests, Commit(q)
  PROVE  IInv'
<1>1. /\ UNCHANGED <<rebuild, projection, whole, status, read, reads>>
      /\ rows' = rows \cup {Entry(q)} /\ outbox' = outbox \cup {q} /\ request[q].state = "outboxed"
  BY DEF Commit, graphVars, readVars, Is
<1>2. PICK code \in {201, 503} : Answer(q, code)
  BY DEF Commit, Codes
<1>3. /\ \A p \in Requests : request'[p].entry = request[p].entry
      /\ \A p \in Requests \ {q} : request'[p] = request[p]
      /\ request'[q].state = "done" /\ request'[q].answer = code
      /\ request' \in [Requests -> [entry : Entries, answer : {0, 201, 400, 409, 503},
                               state : {"sent", "begun", "inserted", "outboxed", "done"}]]
  BY <1>2, MovesTyped
<1> PICK e \in Entries : e = Entry(q)
  BY ARequestTyped DEF IInv
<1>4. /\ e \in Valid /\ RefersTo[e] \subseteq rows /\ q \notin outbox
      /\ \A d \in rows : ~ SameKey(d, e)
      /\ rows \subseteq Entries /\ outbox \subseteq Requests
  BY <1>1 DEF IInv, TypeOK, WritesInv, InsertsSound, OutboxSound, Writing
<1>5. e \notin rows
  BY <1>4 DEF SameKey
<1>6. TypeOK'
  BY <1>1, <1>3, <1>4 DEF IInv, TypeOK
<1>7. TablesConsistent' /\ (Seeded \subseteq rows)'
  <2>1. \A d, f \in rows' : SameKey(d, f) => d = f
    BY <1>1, <1>4 DEF IInv, WritesInv, TablesConsistent, SameKey
  <2>2. (\A d \in rows' : RefersTo[d] \subseteq rows') /\ rows' \subseteq Valid /\ Seeded \subseteq rows'
    BY <1>1, <1>4 DEF IInv, WritesInv, TablesConsistent
  <2> QED BY <2>1, <2>2 DEF TablesConsistent, SameKey
<1>8. \A p \in Requests : Entry(p)' = Entry(p)
  BY <1>3 DEF Entry
<1>9. InsertsSound'
  <2>1. ASSUME NEW p \in Requests, Writing(p)' PROVE p # q /\ Writing(p) /\ ~ SameKey(e, Entry(p))
    BY <1>1, <1>3, <2>1 DEF Writing, IInv, WritesInv, InsertsSound
  <2>2. \A p \in Requests : request'[p].state = "begun" \/ Writing(p)' => Entry(p) \in Valid
    BY <1>3 DEF Writing, IInv, WritesInv, InsertsSound
  <2>3. ASSUME NEW p \in Requests, Writing(p)'
        PROVE  (\A d \in rows' : ~ SameKey(d, Entry(p))) /\ RefersTo[Entry(p)] \subseteq rows'
    BY <1>1, <2>1, <2>3 DEF IInv, WritesInv, InsertsSound
  <2>4. \A p, o \in Requests : Writing(p)' /\ Writing(o)' /\ p # o => ~ SameKey(Entry(p), Entry(o))
    BY <2>1 DEF IInv, WritesInv, InsertsSound
  <2> QED BY <1>8, <2>2, <2>3, <2>4 DEF InsertsSound, SameKey
<1>10. OutboxSound'
  <2>1. \A p \in Requests : request'[p].state # "done" => p \notin outbox' /\ request'[p].answer = 0
    BY <1>1, <1>3 DEF IInv, WritesInv, OutboxSound
  <2>2. e \in rows' \ Seeded
    BY <1>1, <1>5 DEF IInv, WritesInv
  <2>3. \A p \in outbox' : Entry(p) \in rows' \ Seeded
    BY <1>1, <2>2 DEF IInv, WritesInv, OutboxSound
  <2>4. \A p, o \in outbox' : Entry(p) = Entry(o) => p = o
    BY <1>1, <1>5 DEF IInv, WritesInv, OutboxSound
  <2>5. \A d \in rows' \ Seeded : \E p \in outbox' : Entry(p) = d
    BY <1>1 DEF IInv, WritesInv, OutboxSound
  <2>6. outbox' \subseteq Requests
    BY <1>1, <1>4
  <2> QED BY <1>8, <2>1, <2>3, <2>4, <2>5, <2>6 DEF OutboxSound
<1>11. AnswersHonest'
  <2>1. ASSUME NEW p \in Requests, p # q PROVE (p \in outbox' <=> p \in outbox) /\ request'[p] = request[p]
    BY <1>1, <1>3, <2>1
  <2>2. ASSUME NEW p \in Requests
        PROVE  /\ request'[p].answer = 201 => p \in outbox'
               /\ request'[p].answer \in {400, 409} => p \notin outbox'
    BY <1>1, <1>3, <2>1 DEF IInv, WritesInv, AnswersHonest
  <2> QED BY <2>2 DEF AnswersHonest
<1>12. ReadsInv'
  BY <1>1 DEF IInv, ReadsInv, RebuildInv, PolicyInv, ExplorerInv, Closed, Drawn, OfKind, NodesOf, ReadAt
<1> QED BY <1>6, <1>7, <1>9, <1>10, <1>11, <1>12 DEF IInv, WritesInv

-----------------------------------------------------------------------------
(* The projection and its readers write nothing.                             *)

LEMMA ReadersKeepWrites ==
  ASSUME IInv, UNCHANGED writeVars
  PROVE  WritesInv'
<1>1. UNCHANGED <<rows, outbox, request>>
  BY DEF writeVars
<1>2. TablesConsistent' /\ AnswersHonest'
  BY <1>1 DEF IInv, WritesInv, TablesConsistent, SameKey, AnswersHonest
<1>3. InsertsSound' /\ OutboxSound'
  BY <1>1 DEF IInv, WritesInv, InsertsSound, OutboxSound, Writing, Entry, SameKey
<1> QED BY <1>1, <1>2, <1>3 DEF IInv, WritesInv

(* A rebuild that writes nothing to Neo4j leaves the readers what they have. *)
LEMMA RebuildMoves ==
  ASSUME IInv, UNCHANGED <<writeVars, projection, whole, readVars>>,
         rebuild' \in [step : KindNames \cup {"idle", "listed", "replaced"},
                       rows : SUBSET Entries, began : SUBSET Entries],
         status' \in {"not_built", "running", "ready", "failed"},
         rebuild'.rows \subseteq rows, rebuild'.began \subseteq rows, Closed(rebuild'.began),
         OfKind(rebuild'.began, ReadAt(rebuild'.step)) \subseteq rebuild'.rows,
         OfKind(projection, ReadAt(rebuild'.step)) \subseteq rebuild'.rows
  PROVE  IInv'
<1>1. UNCHANGED <<rows, outbox, request, projection, whole, read, reads>> /\ UNCHANGED writeVars
  BY DEF writeVars, readVars
<1>2. TypeOK'
  BY <1>1 DEF IInv, TypeOK
<1>3. RebuildInv'
  BY <1>1 DEF IInv, ReadsInv, RebuildInv, Closed, Drawn, OfKind, ReadAt
<1>4. \A r \in Readers : PolicyInv(r)' /\ ExplorerInv(r)'
  BY <1>1 DEF IInv, ReadsInv, PolicyInv, ExplorerInv, Drawn, OfKind, NodesOf, ReadAt
<1> QED BY <1>1, <1>2, <1>3, <1>4, ReadersKeepWrites DEF IInv, ReadsInv

Replaces ==
  /\ rebuild.step = "listed"
  /\ projection' = Projection(rebuild.rows) /\ whole' = rebuild.began
  /\ rebuild' \in {NoRebuild, [rebuild EXCEPT !.step = "replaced"]}
  /\ status' \in {status, "failed"}
  /\ UNCHANGED <<writeVars, readVars>>

(* The new projection draws every edge, keeps what the old one showed, and   *)
(* has all that was there when the rebuild began.                            *)
LEMMA ReplacedGrows ==
  ASSUME IInv, rebuild.step = "listed"
  PROVE  /\ projection \subseteq Projection(rebuild.rows)
         /\ rebuild.began \subseteq Projection(rebuild.rows)
         /\ Projection(rebuild.rows) \subseteq rows
         /\ Drawn(Projection(rebuild.rows))
<1> PICK S \in SUBSET Entries : S = rebuild.rows
  BY DEF IInv, TypeOK
<1> PICK began \in SUBSET Entries : began = rebuild.began
  BY DEF IInv, TypeOK
<1>1. \A T \in SUBSET Entries : OfKind(T, ReadAt("listed")) = T
  BY ConstantsAssumption DEF OfKind, ReadAt, ConstantsAssumption
<1>2. projection \in SUBSET Entries /\ projection \subseteq S /\ began \subseteq S /\ S \subseteq rows
  BY <1>1 DEF IInv, TypeOK, ReadsInv, RebuildInv
<1>3. Closed(began) /\ Drawn(projection)
  BY DEF IInv, ReadsInv, RebuildInv
<1>4. projection \subseteq Projection(S)
  BY <1>2, <1>3 DEF Drawn, OfKind, Projection
<1>5. began \subseteq Projection(S)
  BY <1>2, <1>3 DEF Closed, EndsOf, Projection
<1>6. ASSUME NEW e \in Projection(S), KindOf[e] = "relation", NEW d \in EndsOf(e)
      PROVE  d \in Projection(S)
  BY <1>6 DEF EndsOf, Projection
<1>7. Drawn(Projection(S))
  BY <1>6 DEF Drawn, OfKind
<1> QED BY <1>2, <1>4, <1>5, <1>7 DEF Projection

LEMMA ReplaceKeeps ==
  ASSUME IInv, Replaces
  PROVE  IInv'
<1>1. UNCHANGED <<rows, outbox, request, read, reads>> /\ UNCHANGED writeVars
  BY DEF Replaces, writeVars, readVars
<1>2. /\ projection \subseteq projection' /\ whole' \subseteq projection' /\ projection' \subseteq rows
      /\ Drawn(projection')
  BY ReplacedGrows DEF Replaces
<1>3. /\ rebuild' \in [step : KindNames \cup {"idle", "listed", "replaced"},
                       rows : SUBSET Entries, began : SUBSET Entries]
      /\ rebuild'.rows \subseteq rows /\ rebuild'.began \subseteq rows /\ Closed(rebuild'.began)
      /\ rebuild'.step \in {"idle", "replaced"}
  <2>1. CASE rebuild' = NoRebuild
    BY <2>1 DEF NoRebuild, Closed
  <2>2. CASE rebuild' = [rebuild EXCEPT !.step = "replaced"]
    BY <2>2 DEF IInv, TypeOK, ReadsInv, RebuildInv
  <2> QED BY <2>1, <2>2 DEF Replaces
<1>4. status' \in {"not_built", "running", "ready", "failed"} /\ rows \subseteq Entries /\ whole' \subseteq Entries
  BY <1>2 DEF Replaces, IInv, TypeOK
<1>5. TypeOK'
  BY <1>1, <1>2, <1>3, <1>4 DEF IInv, TypeOK
<1>6. ReadAt(rebuild'.step) = {}
  BY <1>3 DEF ReadAt
<1>7. RebuildInv'
  <2>1. \A T : OfKind(T, {}) = {}
    BY DEF OfKind
  <2>2. Closed(rebuild.began)' /\ Drawn(projection)' /\ ReadAt(rebuild.step)' = {}
    BY <1>2, <1>3, <1>6 DEF Closed, Drawn, OfKind, ReadAt
  <2>3. OfKind(rebuild.began, ReadAt(rebuild.step))' = {} /\ OfKind(projection, ReadAt(rebuild.step))' = {}
    BY <2>1, <2>2 DEF OfKind
  <2> QED BY <1>1, <1>2, <1>3, <2>2, <2>3 DEF RebuildInv
<1>8. ASSUME NEW r \in Readers PROVE PolicyInv(r)' /\ ExplorerInv(r)'
  <2>1. PolicyInv(r)'
    BY <1>1 DEF IInv, ReadsInv, PolicyInv, OfKind, ReadAt
  <2>2. NodesOf(projection) \subseteq NodesOf(projection') /\ NodesOf(projection)' = NodesOf(projection')
    BY <1>2 DEF NodesOf, OfKind
  <2>3. read[r].nodes \subseteq NodesOf(projection) /\ ExplorerInv(r)
    BY DEF IInv, ReadsInv, ExplorerInv
  <2>4. read[r].nodes # NodesOf(projection) => read[r].nodes # NodesOf(projection')
    BY <2>2, <2>3
  <2>5. Drawn(read[r].seen)' = Drawn(read[r].seen) /\ NodesOf(read[r].due)' = NodesOf(read[r].due)
    BY <1>1 DEF Drawn, OfKind, NodesOf
  <2> QED BY <1>1, <1>2, <2>1, <2>2, <2>3, <2>4, <2>5 DEF ExplorerInv
<1> QED BY <1>1, <1>5, <1>7, <1>8, ReadersKeepWrites DEF IInv, ReadsInv

LEMMA TablesRead ==
  ASSUME NEW kind \in KindNames
  PROVE  /\ After[kind] \in {"property", "individual", "relation", "listed"}
         /\ ReadAt(After[kind]) \subseteq ReadAt(kind) \cup {kind}
<1>1. /\ After["class"] = "property" /\ After["property"] = "individual"
      /\ After["individual"] = "relation" /\ After["relation"] = "listed"
  BY DEF After
<1>2. CASE kind = "class"
  BY <1>1, <1>2 DEF ReadAt, KindNames
<1>3. CASE kind = "property"
  BY <1>1, <1>3 DEF ReadAt, KindNames
<1>4. CASE kind = "individual"
  BY <1>1, <1>4 DEF ReadAt, KindNames
<1>5. CASE kind = "relation"
  BY <1>1, <1>5 DEF ReadAt, KindNames
<1> QED BY <1>2, <1>3, <1>4, <1>5 DEF KindNames

LEMMA RebuildsKeep ==
  ASSUME IInv,
         RebuildBegins \/ RebuildReads \/ RebuildReplaces \/ RebuildEnds \/ RebuildFails
  PROVE  IInv'
<1>1. rows \subseteq Entries /\ projection \subseteq rows /\ Closed(rows) /\ status \in {"not_built", "running", "ready", "failed"}
  BY DEF IInv, TypeOK, ReadsInv, RebuildInv, WritesInv, TablesConsistent, Closed
<1>2. /\ ReadAt("idle") = {} /\ ReadAt("replaced") = {} /\ ReadAt("class") = {}
      /\ \A T : OfKind(T, {}) = {}
  BY DEF ReadAt, OfKind
<1>3. CASE RebuildBegins
  <2>1. rebuild'.step = "class" /\ rebuild'.rows = {} /\ rebuild'.began = rows
    BY <1>3 DEF RebuildBegins
  <2> QED BY <1>1, <1>2, <1>3, <2>1, RebuildMoves DEF RebuildBegins, KindNames
<1>4. CASE RebuildReads
  <2> PICK kind \in KindNames : kind = rebuild.step
    BY <1>4 DEF RebuildReads
  <2>1. /\ rebuild' = [rebuild EXCEPT !.step = After[kind], !.rows = @ \cup OfKind(rows, {kind})]
        /\ UNCHANGED <<writeVars, projection, whole, status, readVars>>
    BY <1>4 DEF RebuildReads
  <2> PICK next \in {"property", "individual", "relation", "listed"} : next = After[kind]
    BY TablesRead
  <2>2. /\ rebuild \in [step : KindNames \cup {"idle", "listed", "replaced"},
                         rows : SUBSET Entries, began : SUBSET Entries]
        /\ rebuild.rows \subseteq rows /\ rebuild.began \subseteq rows /\ Closed(rebuild.began)
        /\ OfKind(rebuild.began, ReadAt(kind)) \subseteq rebuild.rows
        /\ OfKind(projection, ReadAt(kind)) \subseteq rebuild.rows
    BY DEF IInv, TypeOK, ReadsInv, RebuildInv
  <2>3. OfKind(rows, {kind}) \subseteq rows
    BY DEF OfKind
  <2>4. /\ rebuild'.step = next /\ rebuild'.rows = rebuild.rows \cup OfKind(rows, {kind})
        /\ rebuild'.began = rebuild.began
        /\ rebuild' \in [step : KindNames \cup {"idle", "listed", "replaced"},
                         rows : SUBSET Entries, began : SUBSET Entries]
    BY <1>1, <2>1, <2>2, <2>3 DEF KindNames
  <2>5. ReadAt(next) \subseteq ReadAt(kind) \cup {kind}
    BY TablesRead
  <2>6. \A T \in SUBSET rows : OfKind(T, ReadAt(kind)) \subseteq rebuild.rows =>
                              OfKind(T, ReadAt(next)) \subseteq rebuild'.rows
    BY <2>4, <2>5 DEF OfKind
  <2>7. /\ OfKind(rebuild'.began, ReadAt(rebuild'.step)) \subseteq rebuild'.rows
        /\ OfKind(projection, ReadAt(rebuild'.step)) \subseteq rebuild'.rows
    BY <1>1, <2>2, <2>4, <2>6
  <2>8. rebuild'.rows \subseteq rows /\ rebuild'.began \subseteq rows /\ Closed(rebuild'.began)
    BY <2>2, <2>3, <2>4
  <2> QED BY <1>1, <2>1, <2>4, <2>7, <2>8, RebuildMoves
<1>5. CASE RebuildReplaces
  BY <1>5, ReplaceKeeps DEF RebuildReplaces, Replaces
<1>6. ASSUME rebuild' = NoRebuild, UNCHANGED <<writeVars, projection, whole, readVars>>,
             status' \in {"not_built", "running", "ready", "failed"}
      PROVE  IInv'
  <2>1. /\ rebuild'.step = "idle" /\ rebuild'.rows = {} /\ rebuild'.began = {}
        /\ rebuild' \in [step : KindNames \cup {"idle", "listed", "replaced"},
                         rows : SUBSET Entries, began : SUBSET Entries]
    BY <1>6 DEF NoRebuild
  <2>2. Closed({})
    BY DEF Closed
  <2> QED BY <1>2, <1>6, <2>1, <2>2, RebuildMoves
<1>7. CASE RebuildEnds
  BY <1>6, <1>7 DEF RebuildEnds
<1>8. CASE RebuildFails
  <2>1. CASE UNCHANGED <<projection, whole>>
    BY <1>1, <1>6, <1>8, <2>1 DEF RebuildFails
  <2>2. CASE /\ rebuild.step = "listed"
             /\ projection' = Projection(rebuild.rows) /\ whole' = rebuild.began
    BY <1>8, <2>2, ReplaceKeeps DEF RebuildFails, Replaces
  <2> QED BY <1>8, <2>1, <2>2 DEF RebuildFails
<1> QED BY <1>3, <1>4, <1>5, <1>7, <1>8

Read ==
  [step : KindNames \cup {"idle", "listed", "status", "nodes", "relations", "done"},
   seen : SUBSET Entries, nodes : SUBSET Entries, due : SUBSET Entries,
   result : {"none", "unavailable", "allowed", "refused", "shown"}]

(* A reader writes only what it has read itself.                             *)
LEMMA ReaderKeeps ==
  ASSUME IInv, NEW r \in Readers, NEW new \in Read, read' = [read EXCEPT ![r] = new],
         UNCHANGED <<writeVars, graphVars>>, reads' \in 0 .. MaxReads,
         new.seen \subseteq rows, new.due \subseteq rows,
         OfKind(new.due, ReadAt(new.step)) \subseteq new.seen,
         new.step # "done" => new.result = "none",
         new.result = "allowed" => {RequiredIndividual, RequiredRelation} \subseteq rows,
         new.result = "refused" => ~({RequiredIndividual, RequiredRelation} \subseteq new.due),
         new.nodes \subseteq NodesOf(projection),
         new.step \in {"status", "nodes", "relations"} => new.due \subseteq projection,
         new.step = "relations" =>
           \/ Cardinality(new.nodes) > NodeLimit
           \/ new.seen = new.nodes /\ NodesOf(new.due) \subseteq new.seen,
         new.result = "shown" =>
           \/ Cardinality(new.nodes) > NodeLimit
           \/ new.due \subseteq new.seen /\ (Drawn(new.seen) \/ new.nodes # NodesOf(projection))
  PROVE  IInv'
<1>1. UNCHANGED <<rows, outbox, request, rebuild, projection, whole, status>>
  BY DEF writeVars, graphVars
<1>2. read \in [Readers -> Read]
  BY DEF IInv, TypeOK, Read
<1>3. read' \in [Readers -> Read] /\ read'[r] = new /\ \A v \in Readers \ {r} : read'[v] = read[v]
  BY <1>2
<1>4. TypeOK'
  BY <1>1, <1>3 DEF IInv, TypeOK, Read
<1>5. PolicyInv(r)' /\ ExplorerInv(r)'
  BY <1>1, <1>3 DEF PolicyInv, ExplorerInv, OfKind, ReadAt, Drawn, NodesOf
<1>6. ASSUME NEW v \in Readers, v # r PROVE PolicyInv(v)' /\ ExplorerInv(v)'
  BY <1>1, <1>3, <1>6 DEF IInv, ReadsInv, PolicyInv, ExplorerInv, OfKind, ReadAt, Drawn, NodesOf
<1>7. ReadsInv'
  BY <1>1, <1>5, <1>6 DEF IInv, ReadsInv, RebuildInv, Closed, Drawn, OfKind, ReadAt
<1> QED BY <1>4, <1>7, ReadersKeepWrites DEF IInv

LEMMA AReader ==
  ASSUME IInv, NEW r \in Readers
  PROVE  /\ read[r] \in Read
         /\ read[r].seen \subseteq rows /\ read[r].due \subseteq rows
         /\ OfKind(read[r].due, ReadAt(read[r].step)) \subseteq read[r].seen
         /\ read[r].step # "done" => read[r].result = "none"
         /\ read[r].nodes \subseteq NodesOf(projection)
         /\ read[r].step \in {"status", "nodes", "relations"} => read[r].due \subseteq projection
         /\ read[r].step = "relations" =>
              \/ Cardinality(read[r].nodes) > NodeLimit
              \/ read[r].seen = read[r].nodes /\ NodesOf(read[r].due) \subseteq read[r].seen
         /\ rows \subseteq Entries /\ projection \subseteq rows /\ whole \subseteq projection
         /\ reads \in 0 .. MaxReads
  BY DEF IInv, TypeOK, ReadsInv, RebuildInv, PolicyInv, ExplorerInv, Read

LEMMA BeginKeeps ==
  ASSUME IInv, NEW r \in Readers, Begin(r)
  PROVE  IInv'
<1> PICK step \in {"status", "class"}, due \in SUBSET Entries :
      /\ read' = [read EXCEPT ![r] = [Unread EXCEPT !.step = step, !.due = due]]
      /\ due \subseteq rows /\ (step = "status" => due \subseteq projection)
  BY AReader DEF Begin
<1> PICK new : new = [Unread EXCEPT !.step = step, !.due = due]
  OBVIOUS
<1>1. /\ new.step = step /\ new.due = due /\ new.seen = {} /\ new.nodes = {} /\ new.result = "none"
      /\ new \in Read
  BY UnreadTyped DEF Read, KindNames
<1>2. ReadAt(new.step) = {}
  BY <1>1 DEF ReadAt
<1>3. reads' \in 0 .. MaxReads
  BY AReader, ConstantsAssumption DEF Begin, ConstantsAssumption
<1>4. UNCHANGED <<writeVars, graphVars>>
  BY DEF Begin
<1>5. OfKind(new.due, ReadAt(new.step)) \subseteq new.seen
  BY <1>2 DEF OfKind
<1> QED BY <1>1, <1>3, <1>4, <1>5, ReaderKeeps

LEMMA GetOntologyKeeps ==
  ASSUME IInv, NEW r \in Readers, GetOntology(r)
  PROVE  IInv'
<1> PICK kind \in KindNames :
      /\ At(r, kind)
      /\ read' = [read EXCEPT ![r].step = After[kind], ![r].seen = @ \cup OfKind(rows, {kind})]
  BY DEF GetOntology
<1> PICK old \in Read : old = read[r]
  BY AReader
<1> PICK step \in {"property", "individual", "relation", "listed"} : step = After[kind]
  BY TablesRead
<1> PICK seen \in SUBSET Entries : seen = old.seen \cup OfKind(rows, {kind})
  BY AReader DEF Read, OfKind
<1>1. old.step = kind /\ ReadAt(step) \subseteq ReadAt(kind) \cup {kind}
  BY TablesRead DEF At
<1> PICK new \in Read : new = [old EXCEPT !.step = step, !.seen = seen]
  BY DEF Read, KindNames
<1>2. /\ new.step = step /\ new.seen = seen /\ new.due = old.due /\ new.nodes = old.nodes
      /\ new.result = old.result
  BY DEF Read
<1>3. read' = [read EXCEPT ![r] = new]
  <2>1. read \in [Readers -> Read]
    BY DEF IInv, TypeOK, Read
  <2> QED BY <2>1
<1>4. UNCHANGED <<writeVars, graphVars>> /\ reads' \in 0 .. MaxReads
  BY AReader DEF GetOntology
<1>5. new.seen \subseteq rows /\ new.due \subseteq rows
  BY <1>2, AReader DEF OfKind
<1>6. OfKind(new.due, ReadAt(new.step)) \subseteq new.seen
  BY <1>1, <1>2, AReader DEF OfKind
<1>7. new.result = "none" /\ new.nodes \subseteq NodesOf(projection)
  BY <1>1, <1>2, AReader DEF KindNames
<1> QED BY <1>2, <1>3, <1>4, <1>5, <1>6, <1>7, ReaderKeeps

LEMMA ReadFailsKeeps ==
  ASSUME IInv, NEW r \in Readers, ReadFails(r)
  PROVE  IInv'
<1>1. read \in [Readers -> Read]
  BY DEF IInv, TypeOK, Read
<1>2. read' = [read EXCEPT ![r].step = "done", ![r].result = "unavailable"]
  BY DEF ReadFails
<1>3. UNCHANGED <<writeVars, graphVars>> /\ reads' \in 0 .. MaxReads
  BY AReader DEF ReadFails
<1> PICK old \in Read : old = read[r]
  BY AReader
<1>4. /\ old.seen \subseteq rows /\ old.due \subseteq rows
      /\ old.nodes \subseteq NodesOf(projection)
  BY AReader
<1> DEFINE given == [old EXCEPT !.step = "done", !.result = "unavailable"]
<1>5. given \in Read
  BY DEF Read
<1> PICK new \in Read : new = given
  BY <1>5
<1>6. /\ new.step = "done" /\ new.result = "unavailable" /\ new.seen = old.seen /\ new.due = old.due
      /\ new.nodes = old.nodes
  BY DEF Read
<1>7. read' = [read EXCEPT ![r] = new]
  BY <1>1, <1>2
<1> HIDE DEF given
<1>8. OfKind(new.due, ReadAt(new.step)) \subseteq new.seen
  BY <1>6 DEF ReadAt, OfKind
<1>9. /\ new.seen \subseteq rows /\ new.due \subseteq rows
      /\ new.nodes \subseteq NodesOf(projection)
  BY <1>4, <1>6
<1>10. /\ new.step \notin {"status", "nodes", "relations"}
       /\ new.result \notin {"allowed", "refused", "shown"} /\ (new.step # "done" => new.result = "none")
  BY <1>6
<1> QED BY <1>3, <1>7, <1>8, <1>9, <1>10, ReaderKeeps

(* At the decision all four tables have been read.                           *)
LEMMA confirmSemanticPolicyKeeps ==
  ASSUME IInv, NEW r \in Readers, confirmSemanticPolicy(r)
  PROVE  IInv'
<1> PICK old \in Read : old = read[r]
  BY AReader
<1>1. old.step = "listed" /\ old.seen \subseteq rows /\ old.due \subseteq old.seen /\ old.due \subseteq rows
  <2>1. old.step = "listed" /\ ReadAt("listed") = KindNames
    BY DEF confirmSemanticPolicy, At, ReadAt
  <2>2. old.seen \subseteq rows /\ OfKind(old.due, KindNames) \subseteq old.seen /\ old.due \subseteq Entries
    BY <2>1, AReader
  <2>3. OfKind(old.due, KindNames) = old.due
    BY <2>2, ConstantsAssumption DEF OfKind, ConstantsAssumption
  <2> QED BY <2>1, <2>2, <2>3, AReader
<1> PICK result \in {"allowed", "refused"} : result = IF Passes(old.seen) THEN "allowed" ELSE "refused"
  OBVIOUS
<1> PICK new \in Read : new = [old EXCEPT !.step = "done", !.result = result]
  BY DEF Read
<1>2. /\ new.step = "done" /\ new.result = result /\ new.seen = old.seen /\ new.due = old.due
      /\ new.nodes = old.nodes
  BY DEF Read
<1>3. read' = [read EXCEPT ![r] = new]
  BY DEF confirmSemanticPolicy, IInv, TypeOK
<1>4. UNCHANGED <<writeVars, graphVars>> /\ reads' \in 0 .. MaxReads
  BY AReader DEF confirmSemanticPolicy
<1>5. OfKind(new.due, ReadAt(new.step)) \subseteq new.seen
  BY <1>2 DEF ReadAt, OfKind
<1>6. /\ result = "allowed" => {RequiredIndividual, RequiredRelation} \subseteq rows
      /\ result = "refused" => ~({RequiredIndividual, RequiredRelation} \subseteq old.due)
  BY <1>1 DEF Passes
<1>7. new.seen \subseteq rows /\ new.due \subseteq rows /\ new.nodes \subseteq NodesOf(projection)
  BY <1>1, <1>2, AReader
<1> QED BY <1>2, <1>3, <1>4, <1>5, <1>6, <1>7, ReaderKeeps

LEMMA graphOntologyKeeps ==
  ASSUME IInv, NEW r \in Readers, graphOntology(r)
  PROVE  IInv'
<1> PICK old \in Read : old = read[r]
  BY AReader
<1>1. old.step = "status" /\ old.result = "none"
  BY AReader DEF graphOntology, At
<1> PICK new \in Read :
      /\ read' = [read EXCEPT ![r] = new]
      /\ \/ new = [old EXCEPT !.step = "nodes"]
         \/ new = [old EXCEPT !.step = "done", !.result = "unavailable"]
  <2>1. [old EXCEPT !.step = "nodes"] \in Read /\ [old EXCEPT !.step = "done", !.result = "unavailable"] \in Read
    BY DEF Read
  <2>2. CASE status = "ready"
    BY <2>1, <2>2 DEF graphOntology
  <2>3. CASE status # "ready"
    BY <2>1, <2>3 DEF graphOntology
  <2> QED BY <2>2, <2>3
<1>2. /\ new.seen = old.seen /\ new.due = old.due /\ new.nodes = old.nodes
      /\ \/ new.step = "nodes" /\ new.result = "none"
         \/ new.step = "done" /\ new.result = "unavailable"
  BY <1>1 DEF Read
<1>3. UNCHANGED <<writeVars, graphVars>> /\ reads' \in 0 .. MaxReads
  BY AReader DEF graphOntology
<1>4. OfKind(new.due, ReadAt(new.step)) \subseteq new.seen
  BY <1>2 DEF ReadAt, OfKind
<1> QED BY <1>1, <1>2, <1>3, <1>4, AReader, ReaderKeeps

(* Below the limit all the nodes are returned.                               *)
LEMMA MatchNodesKeeps ==
  ASSUME IInv, NEW r \in Readers, MatchNodes(r)
  PROVE  IInv'
<1> PICK old \in Read : old = read[r]
  BY AReader
<1> PICK all \in SUBSET Entries : all = NodesOf(projection)
  BY AReader DEF NodesOf, OfKind
<1>1. Matched(all) = all /\ IsFiniteSet(all) /\ Cardinality(all) \in Nat
  BY ConstantsAssumption, FS_Subset, FS_CardinalityType DEF Matched, OfKind, ConstantsAssumption
<1> PICK some \in SUBSET all :
      /\ Cardinality(some) = IF Cardinality(all) <= NodeLimit THEN Cardinality(all) ELSE NodeLimit
      /\ read' = [read EXCEPT ![r].step = "relations", ![r].nodes = all, ![r].seen = some]
  BY <1>1 DEF MatchNodes, NodesOf
<1>2. Cardinality(all) > NodeLimit \/ some = all
  <2>1. CASE Cardinality(all) <= NodeLimit
    BY <1>1, <2>1, FS_Subset
  <2> QED BY <1>1, <2>1, ConstantsAssumption DEF ConstantsAssumption
<1>3. some \in SUBSET Entries /\ some \subseteq rows /\ old.step = "nodes" /\ old.result = "none"
  BY AReader DEF NodesOf, OfKind, MatchNodes, At
<1> PICK new \in Read : new = [old EXCEPT !.step = "relations", !.nodes = all, !.seen = some]
  BY <1>3 DEF Read
<1>4. /\ new.step = "relations" /\ new.nodes = all /\ new.seen = some /\ new.due = old.due
      /\ new.result = "none"
  BY <1>3 DEF Read
<1>5. read' = [read EXCEPT ![r] = new]
  BY DEF IInv, TypeOK
<1>6. UNCHANGED <<writeVars, graphVars>> /\ reads' \in 0 .. MaxReads
  BY AReader DEF MatchNodes
<1>7. OfKind(new.due, ReadAt(new.step)) \subseteq new.seen
  BY <1>4 DEF ReadAt, OfKind
<1>8. new.seen \subseteq rows /\ new.due \subseteq rows /\ new.nodes \subseteq NodesOf(projection)
  BY <1>3, <1>4, AReader
<1>9. new.due \subseteq projection /\ NodesOf(new.due) \subseteq all
  BY <1>3, <1>4, AReader DEF NodesOf, OfKind
<1>10. \/ Cardinality(new.nodes) > NodeLimit
       \/ new.seen = new.nodes /\ NodesOf(new.due) \subseteq new.seen
  BY <1>2, <1>4, <1>9
<1> QED BY <1>4, <1>5, <1>6, <1>7, <1>8, <1>9, <1>10, ReaderKeeps

(* With all the nodes of the projection every edge has its ends.             *)
LEMMA MatchRelationsKeeps ==
  ASSUME IInv, NEW r \in Readers, MatchRelations(r)
  PROVE  IInv'
<1> PICK old \in Read : old = read[r]
  BY AReader
<1>1. /\ old.step = "relations" /\ old.due \subseteq projection
      /\ \/ Cardinality(old.nodes) > NodeLimit
         \/ old.seen = old.nodes /\ NodesOf(old.due) \subseteq old.seen
  BY AReader DEF MatchRelations, At
<1> PICK seen \in SUBSET Entries : seen = old.seen \cup OfKind(projection, {"relation"})
  BY AReader DEF OfKind
<1> PICK new \in Read : new = [old EXCEPT !.step = "done", !.result = "shown", !.seen = seen]
  BY DEF Read
<1>2. /\ new.step = "done" /\ new.result = "shown" /\ new.seen = seen /\ new.due = old.due
      /\ new.nodes = old.nodes
  BY DEF Read
<1>3. read' = [read EXCEPT ![r] = new]
  BY DEF MatchRelations, IInv, TypeOK
<1>4. UNCHANGED <<writeVars, graphVars>> /\ reads' \in 0 .. MaxReads
  BY AReader DEF MatchRelations
<1>5. OfKind(new.due, ReadAt(new.step)) \subseteq new.seen /\ new.seen \subseteq rows
  <2>1. OfKind(old.due, ReadAt("relations")) = OfKind(old.due, {}) /\ ReadAt("done") = {}
    BY DEF ReadAt
  <2> QED BY <1>2, <2>1, AReader DEF OfKind
<1>6. ASSUME old.seen = old.nodes, NodesOf(old.due) \subseteq old.seen
      PROVE  old.due \subseteq seen /\ (Drawn(seen) \/ old.nodes # NodesOf(projection))
  <2>1. old.due \subseteq seen
    BY <1>1, <1>6, ConstantsAssumption, AReader DEF NodesOf, OfKind, ConstantsAssumption, KindNames
  <2>2. ASSUME old.nodes = NodesOf(projection) PROVE Drawn(seen)
    <3>1. projection \subseteq Entries /\ Drawn(projection)
      BY DEF IInv, TypeOK, ReadsInv, RebuildInv
    <3>2. seen = projection
      BY <1>6, <2>2, <3>1, ConstantsAssumption DEF NodesOf, OfKind, ConstantsAssumption, KindNames
    <3> QED BY <3>1, <3>2
  <2> QED BY <2>1, <2>2
<1>7. new.due \subseteq rows /\ new.nodes \subseteq NodesOf(projection)
  BY <1>2, AReader
<1>8. \/ Cardinality(new.nodes) > NodeLimit
      \/ new.due \subseteq new.seen /\ (Drawn(new.seen) \/ new.nodes # NodesOf(projection))
  BY <1>1, <1>2, <1>6
<1> QED BY <1>2, <1>3, <1>4, <1>5, <1>7, <1>8, ReaderKeeps

-----------------------------------------------------------------------------
LEMMA InvStep == IInv /\ [Next]_vars => IInv'
<1> SUFFICES ASSUME IInv, [Next]_vars PROVE IInv'
  OBVIOUS
<1>1. CASE \E q \in Requests : Validate(q) \/ Insert(q) \/ insertOutbox(q) \/ Commit(q) \/ Fail(q)
  BY <1>1, WritersMove, MovesKeep, CommitKeeps
<1>2. CASE RebuildBegins \/ RebuildReads \/ RebuildReplaces \/ RebuildEnds \/ RebuildFails
  BY <1>2, RebuildsKeep
<1>3. CASE \E r \in Readers : \/ Begin(r) \/ GetOntology(r) \/ ReadFails(r) \/ confirmSemanticPolicy(r)
                              \/ graphOntology(r) \/ MatchNodes(r) \/ MatchRelations(r)
  BY <1>3, BeginKeeps, GetOntologyKeeps, ReadFailsKeeps, confirmSemanticPolicyKeeps, graphOntologyKeeps,
     MatchNodesKeeps, MatchRelationsKeeps
<1>4. CASE UNCHANGED vars
  <2>1. UNCHANGED <<writeVars, rebuild, projection, whole, status, read, reads, rows, outbox, request>>
    BY <1>4 DEF vars, writeVars, graphVars, readVars
  <2>2. TypeOK' /\ ReadsInv'
    BY <2>1 DEF IInv, TypeOK, ReadsInv, RebuildInv, PolicyInv, ExplorerInv, Closed, Drawn, OfKind, NodesOf, ReadAt
  <2> QED BY <2>1, <2>2, ReadersKeepWrites DEF IInv
<1> QED BY <1>1, <1>2, <1>3, <1>4 DEF Next

(* Transactions that have inserted can commit, readers have what they read,  *)
(* and the variables keep their types.                                       *)
THEOREM OntologyInvariant == Spec => []IInv
<1>1. IInv /\ [Next]_vars => IInv'
  BY InvStep
<1> QED BY InvInit, <1>1, PTL DEF Spec

(* However the create transactions overlap and wherever they fail: names are *)
(* unique and references there, each new row has exactly one outbox row, and *)
(* an answer says what happened.                                             *)
THEOREM WritesAreSound == Spec => []WritesSound
<1>1. IInv => WritesSound
  <2> SUFFICES ASSUME IInv PROVE WritesSound
    OBVIOUS
  <2>1. ASSUME NEW e \in rows \ Seeded PROVE Cardinality({q \in outbox : Entry(q) = e}) = 1
    <3>1. PICK p \in outbox : Entry(p) = e
      BY DEF IInv, WritesInv, OutboxSound
    <3>2. {q \in outbox : Entry(q) = e} = {p}
      BY <3>1 DEF IInv, WritesInv, OutboxSound
    <3> QED BY <3>2, FS_Singleton
  <2>2. RowWithOutbox
    BY <2>1 DEF IInv, WritesInv, OutboxSound, RowWithOutbox
  <2> QED BY <2>2 DEF IInv, WritesInv, WritesSound
<1> QED BY <1>1, OntologyInvariant, PTL

(* Four statements are enough for the gate of confirmSemanticPolicy, and two *)
(* for the explorer, although neither is one snapshot.                       *)
THEOREM ReadsAreSound == Spec => []ReadsSound
<1>1. IInv => ReadsSound
  BY ConstantsAssumption
     DEF IInv, ReadsInv, PolicyInv, ExplorerInv, ReadsSound, GateRight, ExplorerGrounded, NodesOf, ConstantsAssumption
<1> QED BY <1>1, OntologyInvariant, PTL

===============================================================================
