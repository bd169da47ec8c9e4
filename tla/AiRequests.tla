------------------------------ MODULE AiRequests ------------------------------
(***************************************************************************)
(* Requests to the language model: the daily allowance of a visitor, and   *)
(* what a request spends of the model once it is admitted.                 *)
(*                                                                         *)
(* chat      turns of tool calls, the first on the ontology, at most seven *)
(* propose   ontology, sensors and devices in turn, then the proposal      *)
(* explain   three reviews and a critic, each replaced when it fails       *)
(*                                                                         *)
(* The web server runs requests concurrently and switches between them at  *)
(* each await.  The counts are in memory; a runtime with an edge cache     *)
(* reads and writes them there, with an await before each.                 *)
(***************************************************************************)
EXTENDS Naturals, Sequences, FiniteSets

CONSTANTS
  Requests,      \* requests, each of one visitor and one kind
  Visitors,      \* values of the client address headers
  VisitorOf,     \* the visitor of a request
  KindOf,        \* chat, propose or explain
  Limit,         \* the daily limit of a bucket
  Tools,         \* the application tools, getOntology among them
  MaxTurns,      \* turns of a chat (7)
  Runtimes,      \* what the runtime may be: TRUE for one that has caches.default
  MaxDay,        \* bound: days
  MaxSpent       \* bound: where the history of model calls stops counting

Kinds == {"chat", "propose", "explain"}
Buckets == {"ask", "explain"}

ASSUME RequestsAssumption ==
  /\ VisitorOf \in [Requests -> Visitors]
  /\ KindOf \in [Requests -> Kinds]
  /\ Limit \in [Buckets -> Nat \ {0}]
  /\ {"getOntology", "getSensors", "getDevices"} \subseteq Tools
  /\ MaxTurns \in Nat \ {0}
  /\ Runtimes \subseteq BOOLEAN
  /\ MaxDay \in Nat
  /\ MaxSpent \in Nat

(* A definition F_Variant is F as a plausible mistake would have it; it is   *)
(* used by no action, only to see that the properties notice the difference. *)

VARIABLES
  edgeCache,     \* the runtime has caches.default
  today,         \* the UTC date
  localCounts,   \* the map of the process
  edge,          \* the counts in the edge cache
  req,           \* where a request is
  used,          \* the tools a request has called
  admitted,      \* history: requests admitted, by key
  spent          \* history: calls of the model, by key

countVars   == <<localCounts, edge>>
requestVars == <<edgeCache, today, countVars, req, used, admitted, spent>>

-----------------------------------------------------------------------------
Keys == Buckets \X (0 .. MaxDay) \X Visitors

Request ==
  [step : {"new", "matching", "putting", "running", "answered", "limited", "failed"},
   day : 0 .. MaxDay, count : Nat, turn : Nat]

BucketOf(r) == IF KindOf[r] = "explain" THEN "explain" ELSE "ask"

\* Counts are never reset.
Key_NoDate(r, day) == <<BucketOf(r), 0, VisitorOf[r]>>

Key(r, day) == <<BucketOf(r), day, VisitorOf[r]>>

\* The bucket, day and visitor of a request, whatever the code counts under.
TrueKey(r, day) == <<BucketOf(r), day, VisitorOf[r]>>

RequestsInit ==
  /\ edgeCache \in Runtimes
  /\ today = 0
  /\ localCounts = [k \in Keys |-> 0]
  /\ edge = [k \in Keys |-> 0]
  /\ req = [r \in Requests |-> [step |-> "new", day |-> 0, count |-> 0, turn |-> 0]]
  /\ used = [r \in Requests |-> {}]
  /\ admitted = [k \in Keys |-> 0]
  /\ spent = [k \in Keys |-> 0]

At(r, step) == req[r].step = step

-----------------------------------------------------------------------------
(* consumeDailyAllowance                                                    *)
\* One request too many.
Spends_OneMore(r, count) == count <= Limit[BucketOf(r)]

Spends(r, count) == count < Limit[BucketOf(r)]

\* Reject, or count in memory and go on.
Consume(r, day, count, next) ==
  IF Spends(r, count)
  THEN /\ localCounts' = [localCounts EXCEPT ![Key(r, day)] = count + 1]
       /\ admitted' = [admitted EXCEPT ![TrueKey(r, day)] = @ + 1]
       /\ req' = [req EXCEPT ![r] = [step |-> next, day |-> day, count |-> count + 1, turn |-> 0]]
  ELSE /\ req' = [req EXCEPT ![r].step = "limited", ![r].day = day]
       /\ UNCHANGED <<localCounts, admitted>>

\* Without an edge cache there is no await from the read to the write.
CountInMemory(r) ==
  /\ ~edgeCache
  /\ At(r, "new")
  /\ Consume(r, today, localCounts[Key(r, today)], "running")
  /\ UNCHANGED <<edgeCache, today, edge, used, spent>>

\* The date and the count in memory are read before the cache is asked.
Arrive(r) ==
  /\ edgeCache
  /\ At(r, "new")
  /\ req' = [req EXCEPT ![r] = [step |-> "matching", day |-> today,
                               count |-> localCounts[Key(r, today)], turn |-> 0]]
  /\ UNCHANGED <<edgeCache, today, countVars, used, admitted, spent>>

\* An entry may have been evicted: then the count read from memory stands.
Match(r) ==
  /\ At(r, "matching")
  /\ \E stored \in {edge[Key(r, req[r].day)], 0} :
       Consume(r, req[r].day, IF stored = 0 THEN req[r].count ELSE stored, "putting")
  /\ UNCHANGED <<edgeCache, today, edge, used, spent>>

Put(r) ==
  /\ At(r, "putting")
  /\ edge' = [edge EXCEPT ![Key(r, req[r].day)] = req[r].count]
  /\ req' = [req EXCEPT ![r].step = "running"]
  /\ UNCHANGED <<edgeCache, today, localCounts, used, admitted, spent>>

NextDay ==
  /\ today < MaxDay
  /\ today' = today + 1
  /\ UNCHANGED <<edgeCache, countVars, req, used, admitted, spent>>

-----------------------------------------------------------------------------
CallModel(r) ==
  spent' = [spent EXCEPT ![TrueKey(r, req[r].day)] = IF @ < MaxSpent THEN @ + 1 ELSE @]

Call(r, tools) == used' = [used EXCEPT ![r] = @ \cup tools]

Go(r, step) == req' = [req EXCEPT ![r].step = step, ![r].turn = @ + 1]

\* The first turn is not bound to the ontology.
Declared_All(r) == Tools

\* The tools the model is offered, and bound to call in the first turn.
Declared(r) == IF req[r].turn = 0 THEN {"getOntology"} ELSE Tools

\* The turns are counted from the start again.
NextTurn_Again(r) == req' = [req EXCEPT ![r].turn = IF @ + 1 < MaxTurns THEN @ + 1 ELSE 1]

NextTurn(r) == Go(r, IF req[r].turn + 1 < MaxTurns THEN "running" ELSE "failed")

\* One turn: the model calls tools, or answers.
Chat(r) ==
  /\ KindOf[r] = "chat"
  /\ At(r, "running")
  /\ CallModel(r)
  /\ \/ \E tools \in SUBSET Declared(r) :
          tools # {} /\ Call(r, tools) /\ NextTurn(r)
     \/ Go(r, "answered") /\ UNCHANGED used
  /\ UNCHANGED <<edgeCache, today, countVars, admitted>>

Proposing == <<"getOntology", "getSensors", "getDevices">>

\* Three turns, each bound to one tool, and the structured proposal.
Propose(r) ==
  /\ KindOf[r] = "propose"
  /\ At(r, "running")
  /\ CallModel(r)
  /\ IF req[r].turn < Len(Proposing)
     THEN Call(r, {Proposing[req[r].turn + 1]}) /\ Go(r, "running")
     ELSE Go(r, "answered") /\ UNCHANGED used
  /\ UNCHANGED <<edgeCache, today, countVars, admitted>>

\* Three reviews in any order and the critic; one that fails is replaced by
\* the deterministic one.
Explain(r) ==
  /\ KindOf[r] = "explain"
  /\ At(r, "running")
  /\ CallModel(r)
  /\ Go(r, IF req[r].turn < 3 THEN "running" ELSE "answered")
  /\ UNCHANGED <<edgeCache, today, countVars, used, admitted>>

\* The credentials, the model, a tool or the validation of the answer fails; what
\* has been spent stays spent.  An explanation fails only for want of its trace.
RequestFails(r) ==
  /\ At(r, "running")
  /\ req' = [req EXCEPT ![r].step = "failed"]
  /\ \/ KindOf[r] # "explain" /\ CallModel(r)
     \/ (KindOf[r] = "explain" => req[r].turn = 0) /\ UNCHANGED spent
  /\ UNCHANGED <<edgeCache, today, countVars, used, admitted>>

-----------------------------------------------------------------------------
Step(r) ==
  \/ Match(r)
  \/ Put(r)
  \/ Chat(r)
  \/ Propose(r)
  \/ Explain(r)
  \/ RequestFails(r)

RequestsNext == NextDay \/ \E r \in Requests : CountInMemory(r) \/ Arrive(r) \/ Step(r)

RequestsSpec == RequestsInit /\ [][RequestsNext]_requestVars

\* The model and the tools answer or fail.
RequestsFairSpec == RequestsSpec /\ \A r \in Requests : WF_requestVars(Step(r))

-----------------------------------------------------------------------------
(* Every variable keeps its type.                                           *)
RequestsTypeOK ==
  /\ edgeCache \in Runtimes
  /\ today \in 0 .. MaxDay
  /\ localCounts \in [Keys -> Nat]
  /\ edge \in [Keys -> Nat]
  /\ req \in [Requests -> Request]
  /\ used \in [Requests -> SUBSET Tools]
  /\ admitted \in [Keys -> Nat]
  /\ spent \in [Keys -> Nat]

(* What a visitor's requests of a day cost is bounded by the requests        *)
(* admitted and what one may spend, whatever the model answers; without an   *)
(* edge cache the requests admitted, however they overlap, by the limit.     *)
Cost(bucket) == IF bucket = "explain" THEN 4 ELSE IF MaxTurns > 4 THEN MaxTurns ELSE 4

ModelCallsBounded == \A k \in Keys :
  /\ spent[k] <= admitted[k] * Cost(k[1])
  /\ ~edgeCache => admitted[k] <= Limit[k[1]]

(* A request is turned away only when its visitor has had the requests of    *)
(* that day: neither the other bucket nor another visitor or day count.      *)
TurnedAwayRightly ==
  \A r \in Requests : At(r, "limited") => admitted[TrueKey(r, req[r].day)] >= Limit[BucketOf(r)]

(* The allowance is neither overrun nor withheld.                            *)
AllowanceKept == ModelCallsBounded /\ TurnedAwayRightly

(* No tool is called before the ontology has been inspected.                 *)
OntologyFirst == \A r \in Requests : used[r] # {} => "getOntology" \in used[r]

(* A model that keeps calling tools does not keep a request open for ever.   *)
RequestsEnd ==
  \A r \in Requests :
    req[r].step # "new" ~> req[r].step \in {"answered", "limited", "failed"}

-----------------------------------------------------------------------------
(* What the documents say and the code does not do.                         *)

(* The README says ten requests per visitor and UTC day; with an edge cache, *)
(* requests that overlap read the same count.                                *)
WithinDailyLimit == \A k \in Keys : admitted[k] <= Limit[k[1]]
=============================================================================
