# A TLA+ development of semantic-layer-explore

This directory holds TLA+ modules that model the parts of this repository that
keep state and run concurrently, TLC configurations that check them on small
instances, and TLAPS proofs of the properties that matter most. Every definition
is translated from the code under `src/`; `PROJECT.json` maps each one to its
lines.

    tlc -workers 2 -config CommandDispatch.cfg MCCommandDispatch
    tlapm CommandDispatch_proofs.tla

## 1. The system

Simulated factory devices send readings over MQTT to several Go gateways, which
append them to Kafka. NestJS workers store them in PostgreSQL, evaluate rules and
queue device commands. The gateways dispatch the commands over MQTT, pass the
devices' results back through Kafka, and the workers finalise them. Changes of
the ontology go through an outbox to a Rust worker that projects them into Neo4j.
A Next.js server and its pages show all of it, and ask a language model for chats,
rule proposals and reviews of an explanation.

    device -MQTT-> gateway xN -Kafka telemetry.raw-> worker xN -> PostgreSQL
    PostgreSQL device_command -> gateway xN -MQTT-> device
    device -MQTT-> gateway xN -Kafka command.result-> worker xN -> PostgreSQL
    PostgreSQL outbox_event -> gateway xN -Kafka semantic.graph.rebuild-> Rust -> Neo4j
    PostgreSQL workspace_event -> gateway (SSE) -> Next.js -> browser

### Components, their state and operations

| Component | State | Operations | What is hard | What makes it correct |
|---|---|---|---|---|
| Command dispatch (`api/internal/mqtt/adapter.go`, `persistence/commands.go`) | `device_command` rows, the claims a gateway holds in memory | claim under a lease, publish, retry, exhaust, time out, complete | gateways overtake each other's leases; every call may fail after taking effect | one verdict per command, announced once, backed by what happened; bounded attempts; every command is decided |
| Device (`telemetry-simulator/simulator.py`) | result cache, device state | carry out, answer again, restart | duplicates, restarts | a remembered command is not carried out again |
| Command results in the worker (`command-result-service.ts`) | terminal row and event | apply once, commit the offset | redelivery after the transaction | no verdict is revised |
| Telemetry (`worker/src/telemetry`, `consumer`, `dead-letter`, `mastra`) | readings, markers, audit rows, dead letters, offsets | two transactions, a decision, dead letters, offset commit, retention | crash between steps, rebalance in mid-record, failures of each step | no event is stored and then forgotten by the rules; no rule fires twice for an event; no record blocks a partition |
| Rules (`applyDeterministicRules`, `operations.go`) | rules, cooldowns, device rows, row locks | evaluate, create, patch, enable, disable, delete | lock waits, edits during an evaluation, read-modify-write | evaluations as if alone; wait cycles end; a disable sticks |
| Ontology (`ontology.go`, migration 003, `semantic-policy.ts`, `graph-worker/src/projection.rs`, `neo4j.rs`) | four tables with keys, outbox rows, Neo4j | four creates, four lists, the policy check, the rebuild and the two reads of the projection | overlapping transactions, lost answers, reads and rebuilds in several statements that are no snapshot | rows and outbox rows together; honest answers; a gate and an explorer that are not fooled |
| Outbox relay and graph worker (`outbox/relay.go`, `graph-worker`) | published marks, offset, Neo4j, status row | publish, rebuild query by query, replace, commit | relays without a lock, rows created between queries, exits at any point | the projection never forgets and catches up |
| Workspace feed (`events.go`, `workspace-dashboard.tsx`) | cursor, `Last-Event-ID`, the list, buffers | poll, reconnect, merge, replace | ids that commit out of order, snapshot against stream | nothing twice, nothing out of order, nothing received and not shown |
| Gateway session (`adapter.go` `Run`, `identity.go`, `router.go` `ready`, `main.go`) | MQTT session, `ready`, `accepting` | connect, subscribe, lose, probe, stop | handlers of several connections overlap | `/ready` says what is so; SIGTERM ends the process |
| Requests to the model (`rate-limit.ts`, `chat/route.ts`, `propose/route.ts`) | counts per visitor and day | allow, turn of tools, finish | requests overlap at awaits | the allowance bounds the calls of the model; the ontology comes first |
| Explain (`events.go` `causalTrace`, `lib/explain`, `explain-review.ts`) | trace, reviews | trace, three reviews, critic | any mixture of model and fallback | no claim beyond the evidence |
| Deployment (`.fordeploy/deploy.sh`) | images, bundles, links, containers by service | deploy, refuse, roll back, clean up | a failure between any two commands | what the links name can be brought up, and is what runs at the end |
| Worker process (`worker/src/main.ts`, `telemetry-consumer.ts`, `health.ts`) | where start and shutdown are, `ready`, `connected`, the pool | start with retries, serve, give up, stop, die, restart | a signal at any step of the start; hooks that wait for each other | `/ready` only while it serves; the pool outlives the record in hand; every start and stop ends |
| Retention (`retention-service.ts`, `postgres-service.ts` `cleanupRetention`) | schedule row, advisory lock, clients of the pool | try at start and at each interval, run, skip | every worker tries; a failure between lock and commit; shutdown meanwhile | one cleanup per interval; every client goes back |
| User interface (`client-app.tsx`, `rule-studio.tsx`, `ask-ai.tsx`, `ontology-graph.tsx`, `workspace-dashboard.tsx`, `semantic-policy.ts`) | what is on the screen, busy flags, handlers in flight | tabs, propose, approve, switch, ask, explain, load, rebuild, refresh | handlers overlap at their awaits and outlive their tab | what is saved was reviewed; the role stands between click and request; the screen catches up; buttons come back |
| Read queries, configuration, SSH demonstration | none | | | see "What is not modelled" |

They interact through tables (gateways and workers share `device_command`,
`workspace_event` and `rules`), through Kafka (three topics with their own
consumer groups), through MQTT, and through HTTP calls of the web server. No two
processes share memory. The pages reach the rest through the proxies of
`src/app/api`, which keep nothing.

The hazards of the code, each at its line, with the properties that watch it, are
the `hazards` of `PROJECT.json`.

## 2. The modules

| Module | Models | Composed with |
|---|---|---|
| `CommandLifecycle` | what a command promises: one verdict, announced once, never revised | abstract specification |
| `CommandDispatch` | gateways, device, Kafka and worker around `device_command` | implements `CommandLifecycle` |
| `TelemetryPipeline` | a reading from the gateway to rules, decision or dead letter | evaluates rules in one step, which `RuleEvaluation` refines |
| `RuleBook` | what evaluations by themselves do to rules and markers | abstract specification |
| `RuleEvaluation` | an evaluation as a transaction with row locks, beside operators' edits | implements `RuleBook` |
| `ReadModel` | what a rebuildable projection promises | abstract specification |
| `GraphProjection` | outbox, relays, graph worker, Neo4j | implements `ReadModel` |
| `OntologyApi` | create transactions, reads, policy check, the rebuild table by table and the read of the projection | when the worker rebuilds is `GraphProjection` |
| `EventFeed` | events from their insert to the list of a dashboard | |
| `GatewaySession` | MQTT session, readiness, shutdown of a gateway | |
| `WorkerProcess` | start, readiness and shutdown of the workers, and the retention job in them | what a worker does with a record is `TelemetryPipeline` |
| `AiRequests` | allowance and conversations with the model | `ExplainEvent` details its "explain" |
| `ExplainEvent` | trace, reviews, critic | |
| `ClientApp` | the tabs of the browser client and what outlives them | composes the next four by INSTANCE |
| `RuleStudio`, `AskAi`, `OntologyGraph`, `Dashboard` | one tab's component each, with its handlers in flight | `OntologyGraph` and `Dashboard` share the projection's server side |
| `SemanticPolicy` | the role check of the browser | used by `RuleStudio` and `AskAi` |
| `Deployment` | `deploy.sh` with its failures | |
| `<Module>_proofs` | theorems of `CommandDispatch`, `TelemetryPipeline`, `RuleEvaluation`, `GraphProjection`, `OntologyApi` | extends `<Module>` |
| `Events_proofs` | theorems of `ExplainEvent` and `EventFeed` | extends both, which share no names |
| `Operations_proofs` | theorems of `WorkerProcess`, `GatewaySession` and `Deployment` | extends the three |
| `WebTier_proofs` | theorems of `ClientApp` and `AiRequests` | extends both |
| `MC<Module>` | constants of the instances | extends `<Module>` |

A definition named `F_Variant` is `F` with a plausible mistake. No action uses it;
`PROJECT.json` pairs each with the property that must notice it.

### How state and actions correspond to the code

**CommandDispatch.** `row[c]` is the row of `device_command` with status, owner,
attempts and the instants its queries compare, reduced to what a query can tell:
lease running or expired, next attempt due or not, acknowledgement timeout
reached. `phase[g]` and `work[g]` are where `dispatchLoop` is and the claims it
holds between two statements. Each SQL statement of `commands.go` is an action, as
is each call of MQTT or Kafka, and each has the outcome "failed" beside its own;
`enroute`, `acks` and `log` are messages that MQTT and Kafka hold. A fault is a
crash, a statement that fails, a lost or repeated message, a restart of the
device, or a gateway slower than its lease.

**TelemetryPipeline.** `task[w]` is where `eachMessage` of a worker is; each
transaction, the audit insert, the Kafka sends, the dead-letter row and the offset
commit are actions. A transaction that fails may have taken effect. `owner` is the
assignment of a partition; a rebalance leaves the old owner at work. `position` is
where the owner fetches from. A member that joins goes on from the committed offset;
if the group has committed none, it goes on from the end of the log, for the
consumer subscribes with `fromBeginning: false`: the records in between, the one in
hand included, are skipped. Both initial states are in the run. `origin`, `stored`,
`fired`, `decisions` and `evaluated` are history.

**RuleEvaluation.** `tx[w]` is a transaction of `applyDeterministicRules`: the
places, in the order of the sensor's rules, of the rows its SELECT found and has
not locked yet (`todo`) and of those locked and still to evaluate (`rows`), and the
rules it has triggered; the next is always the least place. `ruleLock` and `deviceLock` are row locks; a
statement that waited re-reads the row. A transaction of a wait cycle is aborted.
`edit` holds the copy that a PATCH is about to write back: `enabled`, and the
`terms`, which are condition, action and cooldown. A condition is the set of events
that satisfy it. That a PATCH may move a rule to another sensor is left out.

**GraphProjection.** `source` is the four tables, `rows`/`published` the outbox,
`relay[g]` the row a relay has read. `worker` holds the rows the queries have read
so far; the Neo4j transaction, the status row and the offset commit are steps of
their own, and the worker may exit between any two.

**OntologyApi.** A request is in its transaction from "begun" to "outboxed"; a
request of the same name waits for the other's end as the unique index makes it.
A reader of the ontology takes one table per step, and so does a rebuild of the
projection, which then creates an edge only where both its individuals were read. So
an individual may be in Neo4j without its class, and an edge without its property,
until the next rebuild: `ReadsSound` says what holds all the same.

**EventFeed.** `id` is drawn at the insert and `committed` grows in any order.
`stream` is the EventSource with the cursor of its connection, `wire` what is on
its way, `lastEventId` what the browser reconnects with. `shown`, `buffered` and
`snapshot` are the list, the list of a hidden tab, and responses not yet set.

**GatewaySession.** `handlers[g]` are the goroutines of OnConnect and
OnConnectionLost that have not ended; each ends with `setReady`, which writes
`adapterReady[g]`. `mainRoutine[g]` is where the main goroutine is.

**WorkerProcess.** `main[w]` is where `bootstrap` and the loop of
`startWithRetry` are, `stopping[w]` where `shutdown` is; the two run at the same
time. `ready`, `connected` and `consuming` are the fields of the health server and
the consumer and the state of kafkajs. `job[w]` is where `runNow` is between two
statements; `started` is the schedule row, written in its transaction, and the
worker that is "locked" or "marked" holds the advisory lock. `leased[w]` counts the
clients that the job has not given back, for which `pool.end()` waits.

**ClientApp.** `tab` is the tab mounted; leaving it resets its component's state
(`ShowStudio`, `ShowAi`, `ShowGraph`, `ShowDash`), not its handlers. Each module
keeps the handlers in flight with what their closures captured (`studioCalls`,
`aiCalls`, `graphCall`, `dashCalls`), and each step of a handler is what runs from
one await to the next. `row`, `built` and `queued` are the status row of the
projection, its version and the rebuilds not yet begun; the initial row "ready" with
version 1 is the state after a first rebuild. `plan` names the part of the screen
that the operator uses in a behaviour: parts share nothing but the tab and the
ontology, so that one behaviour need not click through all of them.

**AiRequests.** `localCounts` and `edge` are the two stores of counts. `req[r]` is
where a request is between two awaits.

**ExplainEvent.** A claim is the set of evidence ids it cites. `reviews` has the
review of each agent that has finished, with its source; the workflow's parallel
step lets them finish in any order.

**Deployment.** One action per command of the script that changes the host or can
fail, with the ERR trap where the script sets it. `composed[s]` is the version of a
service's containers: a deployment brings all of them up, a rollback those of the
graph profile, which the simulator is not of. A script that finds a deployment
directory without the link `current` refuses to go on.

## 3. What is checked

One run per module that is a specification, with the properties of that module;
the sizes (distinct states) are those TLC reports. A run with a liveness property
checks the specification with fairness, and uses no symmetry.

| Run | Instance | States | Shows |
|---|---|---|---|
| `command_dispatch` | 2 gateways, 1 command, 2 attempts, 1 fault | 275k | stale claims are fenced; attempts are bounded by the maximum and the faults; results are backed; a device repeats nothing it remembers; `CommandLifecycle` is implemented; every command is decided |
| `telemetry_pipeline` | 2 workers; a good, a malformed and an incompatible event; 2 records, 2 faults; with and without a committed offset | 163k | no record that the group has committed past was skipped since its first commit; a reading is stored, a rule triggers and a decision runs at most once per event; every record is handled |
| `rule_evaluation` | 2 workers, 3 events of 2 sensors, 4 rules that lock 2 devices in opposite orders, one device perhaps off, an editor, 2 conditions, actions and cooldowns, 1 change, 2 deliveries | 272k | no rule is missed; `RuleBook` is implemented: every evaluation is one that ran alone; every transaction ends |
| `graph_projection` | 2 relays, an individual and its relation to create, 2 outbox rows, 2 faults | 148k | a projection left behind has a rebuild ahead of it; `ReadModel` is implemented; every row is projected |
| `ontology_api` | 2 POSTs of any of 6 rows, rebuilds, and one read by a policy check or an explorer | 632k | `WritesSound`: keys and references hold, row and outbox row come together, answers are honest; `ReadsSound`: the gate is right; the explorer shows what there was when the last rebuild began, and edges with their ends |
| `event_feed` | 3 events, 2 faults, 2 snapshots | 333k | what is received is shown; nothing twice or out of order, and what is ahead of the cursor is received |
| `gateway_session` | a gateway with any settings, 2 connections, 2 requests | 56k | a handler of the present connection is right; SIGTERM ends the process |
| `worker_process` | 2 workers, one of which starts, stops and dies; an interval of 2, time up to 2, 3 faults | 145k | `/ready` and the pool keep their order; one cleanup per interval; starts, stops and cleanups end |
| `ai_requests` | chat, proposal and explanation of a visitor, 2 days, limit 1, with and without edge cache | 53k | calls of the model are bounded and nobody is turned away early; the ontology comes first; every request ends |
| `explain_event` | 5 ids, claims of up to 2 | 43k | claims are within the evidence; the fallback agrees; without a model all evidence is reviewed |
| `client_app` | 7 plans of up to 5 clicks, 2 rules, 2 devices, 2 changes, 2 calls at a time | 83k | what is saved was reviewed; overlapping proposals are bounded; the map is honest; the role stands between click and request; the dashboard catches up; buttons come back |
| `deployment` | 4 versions, 3 services, 3 faults | 67k | links name what can be brought up; the legacy container is kept until a release is ready; what succeeds or rolls back leaves what `current` names, whatever earlier deployments left |

The bounds are the smallest at which the interesting cases happen: two actors of a
kind, because every race here is between two; two attempts, because the retry
logic tells first, middle and last apart by comparison with the maximum; queues
that hold two records, because an overtaking needs two; one fault in
`command_dispatch`, where the theorems hold for any number, and two or more
elsewhere, because the second may hit the repair of the first. Each property has a
mutant of the code that TLC finds at these bounds. `MaxFaults`, `MaxLog`,
`MaxRecords`, `MaxRows`, `MaxTime`, `MaxDeliveries`, `MaxChanges`, `MaxRefreshes`,
`MaxDay`, `MaxSpent`, `MaxConnections`, `MaxRequests`, `MaxReads`, `MaxClicks`,
`MaxCalls`, `MaxVersion`, `Plans`, `Asked` and `Watched` are bounds of the model;
`MaxAttempts`, `ClaimLimit`, `Window`, `Batch`, `Limit`, `MaxTurns`, `NodeLimit`,
`Interval` and the cooldowns of `Terms` are limits of the code, made small. What the code does not change while
it runs is chosen in the initial state from a constant set: the settings of a
gateway, the runtime of the web server (`Runtimes`), the devices that are not
enabled (`Outages`), the rules there were (`Tables`), the rows a POST asks for.

Five clicks are what it takes to open the rule studio, make a proposal, approve it,
press a rule button, whose handler empties `busy`, and approve or propose again.
An interval of two units of time is enough for a second cleanup that comes too early
and for one that is due, and three faults for a start that fails, is signalled and
restarted.

Symmetry is used in `deployment` (versions) and `ontology_api` (requests).

The type invariant of every component is proved (section 4) and is in no run:
`TypeOK`, or in the modules that are extended together `RequestsTypeOK`,
`ClientTypeOK`, `DeploymentTypeOK`, `FeedTypeOK`, `SessionTypeOK` and
`WorkerTypeOK`. Some safety properties are likewise proved and in no run:
`RetryEventIsNew`, `IdsIncrease` alone, `NoCompetition`,
`FlagsAreHeld`, `NewsIsPursued` and `ClientsGivenBack`. TLC finds each to hold when
it is added to its module's configuration as an INVARIANT, or a PROPERTY where it
is about steps.

Deadlock is checked in `command_dispatch`, and is switched off where the model
really comes to rest: when every record, event, POST, click or request has been
handled and the bounds are used up, a deployment has ended, or a process has
stopped. `EvaluationsEnd`, `StartsAndStops` and `Terminates` state there that
nobody waits for ever.

### Disagreements between the code and its documents

Where the code does not do what a document, a comment or the screen says, its module
states the claim at its end, and TLC refutes it. Some have a configuration of their
own, which is given one of its properties at a time; the others are checked as the
only property of the module's configuration (for `ClientApp`, with INIT and NEXT in
place of the fair specification).

| Property, configuration | What happens | What is said |
|---|---|---|
| `AttemptsWithinMaximum`, `CommandDispatch.cfg` | the reclaim of an expired lease goes beyond the maximum of attempts | handoff 015: retries are bounded |
| `RecordedStateIsDeviceState`, `CommandResultOrder.cfg` | two results of one device overtake each other; `devices.state` stays at the older | `README.md:36`: "preserving order per device" |
| `StoredIsEvaluated`, `TelemetryDivergences.cfg` | a worker that stops before its group has committed any offset of a partition skips the record in hand: stored, and never seen by the rules | `k8s/README.md:71`: "Kafka delivery remains at-least-once" |
| `RedeliveryTriggersNothing`, `TelemetryDivergences.cfg` | an event whose rule was cooling down triggers it when redelivered after the cooldown | `k8s/README.md:71`: uniqueness absorbs redelivery |
| `BoundaryNeverFailsTelemetry`, `TelemetryDivergences.cfg` | a decision failure that cannot be recorded dead-letters stored telemetry | `docs/implementation-2nd-005-worker-mastra-boundary-handoff.md:25` |
| `DisableSticks`, `RulePatch.cfg` | a PATCH of another field undoes a disable | the README lists enable and disable as operations of their own |
| `CommitsAheadOfCursor`, `EventFeed.cfg` | an event that commits after a later id was polled is never streamed | clients receive the events by polling the store |
| `DashboardComplete`, `EventFeed.cfg` | snapshot and stream leave a gap | the snapshot is kept and the server pushes what follows |
| `Reconnecting`, `EventFeed.cfg` | an error status ends the reconnection for good | `workspace-dashboard.tsx:249`: "is reconnecting" |
| `WithinDailyLimit`, `AiAllowanceEdge.cfg` | overlapping requests pass the limit when an edge cache is there | `README.md:323` |
| `FailureReviewed`, `ExplainEvent.cfg` | the constraint removes the claim about a failure that the prompt itself contains | `docs/implementation-2nd-015-mqtt-outbound-failure-ux-handoff.md:139` |
| `ProvenanceKept`, `ExplainEvent.cfg` | a query that fails is reported as missing evidence | |
| `ExecutionNotFabricated`, `ExplainEvent.cfg` | a command never published is explained as received | `docs/implementation-1st-plan.md:223`: "must never fabricate missing evidence" |
| `ReadyMeansSubscribed`, `GatewaySession.cfg` | `/ready` without a connection, after the handlers ran in the other order | `k8s/README.md:67` |
| `ReadyMeansConsuming`, `WorkerProcess.cfg` | `/ready` after kafkajs has given the consumer up | |
| `ConsumesWithPool`, `StopsFromAnywhere`, `WorkerProcess.cfg` | a signal during the first connect: the pool ends, the consumer joins its group, the process stays | |
| `FailureRollsBack`, `Deployment.cfg` | `exit 1` does not run the rollback trap | `docs/implementation-2nd-002-aws-demo-deployment-preparation.md:91`: on failure, roll back |
| `RollbackIsWhole`, `Deployment.cfg` | the rollback starts the graph profile only: the simulator stays at the version that failed | the same: roll back to the previous release |
| `NoReleaseIsAccepted`, `Deployment.cfg` | after a first deployment that left no link `current`, `readlink -f` prints the path all the same and every later run exits with "Unsafe previous release path" | `deploy.sh:239`: a previous release may be missing |
| `SavedOnce`, `ClientApp.cfg` | one review saves two rules: another button's handler has enabled Approve again, or the answer was lost | `README.md:332`: a human gate |
| `DiscardedIsDropped`, `ClientApp.cfg` | a proposal discarded while its approval awaits is saved | |
| `ExplainedOncePerClick`, `ClientApp.cfg` | returning to the tab explains the event again, and spends allowance | |
| `RebuildShowsTheNew`, `ClientApp.cfg` | the one read after a rebuild may come before the worker has begun it: the old graph is shown as ready | |
| `ViewNeverGoesBack`, `ClientApp.cfg` | an older answer replaces a newer on the dashboard | |
| `OneCommandAtATime`, `ClientApp.cfg` | the end of another device's handler enables the button: a second command goes to a device whose first is active | |

`GatewayReplicas.cfg` checks `NoCompetition` for two gateways by hand: it holds.

Smaller hazards without a property: clocks of two workers that differ shorten a
cooldown; a Neo4j transaction of a worker that died could be applied late, for the
client has no time limit; two deployments at once are not kept apart; each attempt
at a dead letter draws a new id; the retry delay would wrap past 2^63.

### Fairness

Weak fairness of `GatewayStep` stands for the one-second ticker of `dispatchLoop`,
of `ClockStep` for clocks that go on, of `ConsumeResult` and of the workers' steps
for a consumer group that has a live member. Weak fairness of the relays stands for
their ticker, of the graph worker for the restart policy of its container. In
`EventFeed` it stands for the browser's automatic reconnection, the poll every
second and the event loop. In `AiRequests` a call of the model answers or fails,
and in `GatewaySession` waits of main and of the handlers have time limits. A
transaction of `RuleEvaluation` is strongly fair, because PostgreSQL serves
the waiters of a row lock in turn, so that one is not overtaken for ever. In `ClientApp` it stands for promises that settle, prompts
that are answered and timers that fire: every request of the client is answered or
fails. In `WorkerProcess` every call returns or fails, and the abort or the timer
ends a delay; signals, records, restarts and the interval timer are not fair.
Faults, crashes, new requests, closing a stream and the actions of operators are
never fair.

## 4. What is proved

`CommandDispatch_proofs` proves, for every set of gateways, commands and devices
and all bounds, from `ConstantsAssumption` alone:

- `TypeCorrect`, and `Inductive`: `Spec => []IInv`;
- `StaleClaimsFenced`, `AttemptsBoundedByFaults`, `ResultsAreBacked`,
  `DeviceRunsOncePerBoot` from it;
- `RetryEventsAreNew`, an action property;
- `LifecycleImplemented`: `Spec => Lifecycle!Spec`, step by step.

None of these invariants is inductive alone. That a stale claim is told apart by
the owner test needs the claims to be no newer than their row (`ClaimsFenced`) and
leases to be held only in the states that give them (`LeasesOwned`). A result in
the topic is honest only if the claim it came from was (`ClaimsBacked`), which
holds only while nothing undoes the row behind it (`LogFenced`, `BudgetKept`), and
success needs the device's cache and acknowledgements to stand for runs
(`DeviceHonest`). That no verdict is revised needs row and event to agree
(`VerdictsAgree`), and that retry events are new needs all earlier ones to be of
smaller attempts (`RetriesPast`). `IInv` is the conjunction; TLC found it to hold
before the proof was begun (`INVARIANT IInv` in `CommandDispatch.cfg` repeats it),
and each conjunct has a lemma that every step keeps it. Lemmas about rows
(`RowStep`), claims (`ClaimsStep`) and records (`LogStep`) reduce the thirty
actions to a few shapes first.

`TelemetryPipeline_proofs` proves `PipelineTyped`, `NothingIsSkipped` and
`EffectsHappenOnce` for any workers, partitions, events and rules, whether the group
has committed an offset or not. A worker at work may have lost its partition, so
what it holds is only a record of the log (`RecordsInHand`), and it is the next to
commit only while it owns the partition (`CommitsNext`). That every record from
`origin` up to the committed offset was handled needs every step of a worker to have
the steps before it behind it (`Backed`): "evaluate" a stored reading, "decide" an
evaluated one. That effects happen once needs markers and tombstones to outlive what
retention deletes (`MarkerInv`, `StoredInv`), and a decision under way to be the
only one of its event, by the unique audit row (`DecisionInv`).

`RuleEvaluation_proofs` proves `RulesInvariant`, `RulesAllConsidered` and
`EvaluationsAreSerialisable`, a refinement of `RuleBook`. The argument is that of
the code: whoever holds the row lock of a rule is the only one to write its row, its
`last_triggered_at` or a marker, so that what the holder has read stays so until it
commits (`LockProtects`, `TableSound`, `RowsSound`, `TriggeredSound`); and where a
transaction is in its loop says which rules it has behind it (`PhaseSound`,
`NothingMissed`).

`GraphProjection_proofs` proves `ProjectionInvariant`, `ProjectionRepaired` and
`ProjectionIsReadModel`. A rebuild may read the tables too early; what saves it is
that whatever it did not read has an outbox row without a record among those
committed (`Pending`), so that a rebuild follows. `RepairPending` states it for
Neo4j and `RowsBehind` for what the worker has read; `ReadsCover`, `GraphSound` and
`OutboxSound` say that rows are read, written and marked no sooner than they exist.

`OntologyApi_proofs` proves `OntologyInvariant`, `WritesAreSound` and
`ReadsAreSound`. A transaction that has inserted its row can still commit, whatever
the others do, because the unique index and the foreign keys made it wait
(`InsertsSound`); a committed row has its outbox row (`OutboxSound`). A policy check
that reads individuals before relations misses nothing that was there when it began
(`PolicyInv`). A rebuild that reads classes, properties and individuals before
relations takes nothing away that Neo4j shows, and reads all that was there when it
began with the individuals of its edges (`RebuildInv`); so what an explorer has read
as nodes is still there when it reads the edges (`ExplorerInv`). Nothing is assumed
of what a rebuild reads.

`Events_proofs` proves of `ExplainEvent` `Invariance` and from it `TypeCorrect`,
`ClaimsStayWithinTheTrace`, `FallbackAgreesWithReviewers` and `WholeTraceReviewed`,
for any ids a model may cite and any answers it may give.
Its invariant adds to the properties the order of the steps (`InOrder`), that a
review by code is the deterministic one (`ReviewsByCode`), and that every review
finished, and the critic's, cites only its part of the trace (`ReviewsBacked`,
`CriticBacked`): the critic verifies claims, so its claims are as good as those.
`constrainLlmReview` enters through one lemma (`ConstrainedIsBacked`).

Of `EventFeed` it proves `ReceivedStaysShown`, `ReplayInOrder` and `FeedTyped`, for
any events, window, batch and faults. What is on the wire lies between the last id
received and the cursor of its connection, in increasing order (`FeedSent`), which
is why a replay neither repeats nor overtakes. That the newest `Window` events
received are on the screen has to survive lists that are cut, merged and cut again,
and a snapshot that replaces them: cutting keeps the newest of a subset
(`TopKeeps`), and merging two cut lists loses none of the newest of the union
(`MergeKeeps`). The list of a poll is the one sequence in increasing order
(`ById`), whose existence `ByIdOrders` gets from numbering each event by the count
of older ones (`RanksTaken`); that a list cut to `Window` has no more than `Window`
members (`FirstAreFew`) rests on the same ranks.

`Operations_proofs` proves of `WorkerProcess` `WorkersOrderly`,
`OneCleanupPerInterval`, `WorkersTyped` and `ClientsComeBack`, for any workers and
interval. The first needs `connected` to be set before anything that a shutdown
must wait for (`Lifecycle`); the second the lock to have one holder, who found
the schedule due and committed nothing since, and the schedule row to be the last of
the cleanups there have been (`Schedule`, `Record`). That clients come back
needs a run of the job in a transaction to hold one client of a pool that has not
ended, and a process that is down to have left none (`Clients`, `DownIsIdle`).

Of `GatewaySession` it proves `SessionTyped`, `HandlersAreRight` and
`GatewaysDoNotCompete`, for any gateways, settings and number of connections.
Handlers of several connections overlap, so the invariant says of each whom it
speaks for: connections are numbered in the order they are made (`Numbered`), and a
handler of the present connection whose subscriptions were acknowledged has them at
the broker (`Truthful`). The third says that resolving the client id gives two
gateways with different instance ids different sessions.

Of `Deployment` it proves `DeploymentTyped`, `LinksCanBeBroughtUp`, `LegacyIsKept`
and `DeploymentsEndAtCurrent`, for any versions, services and faults. What the script
has done is read off where it is (`Progress`): before it links, what it saved as its
previous release is still the one linked, and from there until it ends the release
has images and bundle. One script runs at a time (`OneScript`), as section 5 assumes.

`WebTier_proofs` proves of `ClientApp` `ProjectionIsHonest`, `SavedIsReviewed` and
`ActsInRole`, for any rules, plans and bounds. Each rests on what a handler in
flight has behind it at each await (`GraphInv`, `StudioInv`, `AiInv`), whatever the
screen has become. `ProposalsKeptApart` counts the drafts under way against the
times another handler emptied `busy` (`DraftsInv`): one more with the button
disabled than with it enabled, which is what makes the bound inductive.
`ClientTyped`, `FlagsStayHeld` and `NewsStaysPursued` come from their conjunction
(`ClientInv`): that a flag has a handler in flight which lowers it is the safety
half of `ButtonsComeBack`, and that an event not yet on the screen has a timer, or
a read late enough for it, the safety half of `CatchesUp`.

Of `AiRequests` it proves `RequestsTyped`, `OntologyIsFirst` and `AllowanceIsKept`,
for any requests, limits and turns, with and without the edge cache. The allowance
is an argument about cardinalities: the requests admitted under a key are the set
`Charged`, the calls of the model they may have made the pairs `Units` of a request
and a number, and each request has at most as many as its kind costs (`Accounts`).
Without an edge cache the count in memory is exact, for no request is between its
counts (`InMemory`); with one, no count runs ahead of the requests admitted
(`Counts`), so that nobody is turned away early.

Each of these invariants holds in its module's instance too: TLC finds so when its
definition is set beside the module's and given to its configuration as an
INVARIANT.

Only model-checked: liveness, for the prover has neither fairness nor ENABLED. These
are `EveryCommandDecided`, `EveryRecordHandled`, `EvaluationsEnd`,
`EveryRowProjected`, `RequestsEnd`, `Terminates`, `StartsAndStops`, `CatchesUp`,
`ButtonsComeBack`, and the half of `ReplayExact` that says what is ahead of the
cursor is received. Every invariant and action property of the runs is proved.

## 5. What is not modelled, and assumptions

- Telemetry values, conditions and their arithmetic, texts, names and layouts; the
  validation of inputs beyond "valid or not"; configuration parsing.
- The generation of telemetry in the simulator: random walks without a promise.
- The rendering of the pages, the explorer's tree and the JSON viewer: what they
  show is a function of the state that is modelled.
- Routes of the Next.js server that only pass a request on: one request, and one
  answer or failure, in `ClientApp`.
- Of the retention, the batch limits and the parsing of the configuration.
- Read queries of the gateway that serve one statement and keep nothing.
- The SSH endpoint, the OAuth token cache of the model's provider, the conversion
  of messages, seed data, Kubernetes manifests and exercise scripts.
- One graph worker: the deployment has one replica and one partition.
- A Neo4j transaction takes effect, or fails, before the worker is replaced.
- Workers share one clock; the code takes the clock of each worker's host.
- Retention does not delete the feed's rows while a dashboard reads them.
- Deployments run one at a time, and each version is deployed once.
- A subscription that the broker answers with failure (0x80): the broker
  configuration of this repository refuses none.
- The deferred closing of store and producer when a gateway's main returns.
- An EventSource closes on any status but 200, as the HTML standard has it.
- The provider obeys the tool choice it is given (mode ANY).
- MQTT sessions are clean: what the broker does with undelivered messages is
  modelled as loss.

## 6. Plan

Done, in this order: `CommandDispatch` with its refinement and proofs,
`TelemetryPipeline`, `GraphProjection`, `RuleEvaluation`, `EventFeed`,
`Deployment`, `AiRequests`, `ExplainEvent` with proofs, `GatewaySession`,
`OntologyApi`; then `ClientApp` with its four components and `WorkerProcess`, both
with proofs, and the proofs of `TelemetryPipeline`, `RuleEvaluation`,
`GraphProjection`, `OntologyApi`, `EventFeed`, `Deployment`, `GatewaySession` and
`AiRequests`.

Left to model: two commands in one claim, and the retry delays as arithmetic
against a reference definition (`CommandDispatch`); retention by batches; the
simulator's telemetry; the validation in `operations.go` and of a proposal.

Left to prove: the safety halves of the other liveness properties, each the claim
that whatever waits has something in flight that will serve it (`EveryRecordHandled`
by the partitions' owners, `StartsAndStops` by the hooks of a shutdown).
