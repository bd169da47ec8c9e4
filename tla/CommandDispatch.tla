--------------------------- MODULE CommandDispatch ---------------------------
(***************************************************************************)
(* The life of a device command, from the row in device_command to its     *)
(* terminal status.                                                        *)
(*                                                                         *)
(*   rule engine / HTTP -> device_command row -> Go gateways (dispatchLoop)*)
(*     -> MQTT -> device -> MQTT -> Go gateways -> Kafka command.result    *)
(*     -> worker (applyCommandResult) -> terminal row + workspace event    *)
(*                                                                         *)
(* Several gateways share the table.  A gateway claims rows under a lease, *)
(* keeps the claims in memory while it calls MQTT or Kafka, and writes the *)
(* outcome back in a statement that requires it to be still the owner.     *)
(* Gateways crash and restart, are slower than their lease, and their      *)
(* database and Kafka calls fail; MQTT messages are lost or duplicated;    *)
(* the device forgets its result cache when it restarts; the worker stops  *)
(* between its transaction and its offset commit.                          *)
(*                                                                         *)
(* Clocks are abstracted to the events the queries can see: a lease that   *)
(* expires, a next_attempt_at that falls due, a published_at that becomes  *)
(* older than the acknowledgement timeout.                                 *)
(***************************************************************************)
EXTENDS Naturals, Sequences, FiniteSets

CONSTANTS
  Gateways,      \* Go gateway instances (the dispatch_owner values)
  Commands,      \* command identifiers
  Devices,       \* devices; a device is a partition of command.result
  DeviceOf,      \* the device each command addresses
  NoOwner,       \* dispatch_owner is null
  NoCommand,     \* a device state no command has set
  MaxAttempts,   \* MQTT_COMMAND_MAX_PUBLISH_ATTEMPTS
  ClaimLimit,    \* rows one claim may take (20 in the code)
  MaxFaults,     \* bound: faults in a behaviour
  MaxLog         \* bound: unconsumed command.result records of a partition

ASSUME ConstantsAssumption ==
  /\ NoOwner \notin Gateways
  /\ NoCommand \notin Commands
  /\ DeviceOf \in [Commands -> Devices]
  /\ MaxAttempts \in Nat \ {0}
  /\ ClaimLimit \in Nat \ {0}
  /\ MaxFaults \in Nat
  /\ MaxLog \in Nat \ {0}

(* A definition F_Variant is F as a plausible mistake would have it; it is   *)
(* used by no action, only to see that the properties notice the difference. *)

VARIABLES
  row,           \* device_command, one row per command
  retries,       \* workspace_event rows <command>:retry:<attempt>
  final,         \* the terminal workspace_event of a command, by its outcome
  deviceState,   \* devices.state: the command that last set it
  phase,         \* where a gateway's dispatchLoop is
  work,          \* the claims a gateway still holds in memory
  enroute,       \* commands the MQTT broker holds for a device
  cache,         \* the device's command_results cache
  physical,      \* the device's own state: the command that last set it
  runs,          \* how often the device has carried a command out
  acks,          \* command results the MQTT broker holds for the gateways
  log,           \* unconsumed command.result records of a partition
  faults         \* faults so far

dbVars     == <<row, retries, final, deviceState>>
gwVars     == <<phase, work>>
deviceVars == <<enroute, cache, physical, runs, acks>>
vars       == <<dbVars, gwVars, deviceVars, log, faults>>

-----------------------------------------------------------------------------
Failures == {"device.command.rejected", "mqtt.publish.exhausted",
             "device.ack.timeout"}
Outcomes == Failures \cup {"success"}
Statuses == {"absent", "pending", "publishing", "retrying", "published",
             "finalizing", "succeeded", "failed"}

Row == [status   : Statuses,
        attempts : Nat,                               \* publish_attempts
        owner    : Gateways \cup {NoOwner},           \* dispatch_owner
        lease    : {"none", "live", "expired"},       \* lease_until
        due      : BOOLEAN,        \* next_attempt_at is set and has passed
        overdue  : BOOLEAN,        \* published_at is older than the timeout
        code     : Failures \cup {"none", "mqtt.publish.failed"}]

\* A claimed row in a gateway's memory, and how far its handling has come:
\* claimed, or its external call has returned ("sent") or failed.
Claim == [cmd : Commands, attempts : Nat, step : {"claimed", "sent", "failed"}]

\* A record of the command.result topic.
Result == [cmd : Commands, outcome : Outcomes, attempts : Nat]

Ack == [cmd : Commands, outcome : {"success", "device.command.rejected"}]

NoRow == [status |-> "absent", attempts |-> 0, owner |-> NoOwner,
          lease |-> "none", due |-> FALSE, overdue |-> FALSE, code |-> "none"]

Terminal(c) == row[c].status \in {"succeeded", "failed"}

Owns_AnyStatus(g, c, status) == row[c].owner = g

\* The condition of every owner-conditioned update in commands.go.
Owns(g, c, status) == row[c].status = status /\ row[c].owner = g

Init ==
  /\ row = [c \in Commands |-> NoRow]
  /\ retries = {}
  /\ final = [c \in Commands |-> "none"]
  /\ deviceState = [d \in Devices |-> NoCommand]
  /\ phase = [g \in Gateways |-> "publish"]
  /\ work = [g \in Gateways |-> {}]
  /\ enroute = {}
  /\ cache = [c \in Commands |-> "none"]
  /\ physical = [d \in Devices |-> NoCommand]
  /\ runs = [c \in Commands |-> 0]
  /\ acks = {}
  /\ log = [d \in Devices |-> <<>>]
  /\ faults = 0

\* Every fault is charged to one budget, so that a behaviour has finitely many.
Fault == faults < MaxFaults /\ faults' = faults + 1

-----------------------------------------------------------------------------
(* The HTTP handler and the rule engine queue a command: the row and its    *)
(* pending event (which exists exactly when the row does) in one            *)
(* transaction; a command that is already there is left alone.              *)
CreateDeviceCommand(c) ==
  /\ row[c].status = "absent"
  /\ row' = [row EXCEPT ![c].status = "pending"]
  /\ UNCHANGED <<retries, final, deviceState, gwVars, deviceVars, log, faults>>

-----------------------------------------------------------------------------
(* The queries of dispatchLoop.                                             *)
Dispatchable ==
  {c \in Commands : \/ row[c].status = "pending"
                    \/ row[c].status = "retrying" /\ row[c].due
                    \/ row[c].status = "publishing" /\ row[c].lease # "live"}

TimedOut ==
  {c \in Commands : /\ row[c].status = "published"
                    /\ row[c].overdue
                    /\ row[c].lease # "live"}

AwaitingFailureResult_NeverReclaims ==
  {c \in Commands : row[c].status = "finalizing" /\ row[c].due /\ row[c].lease = "none"}

AwaitingFailureResult ==
  {c \in Commands : /\ row[c].status = "finalizing"
                    /\ row[c].due
                    /\ row[c].lease # "live"}

\* for update skip locked limit n: a claim may miss rows other transactions
\* hold, and takes something when there is something to take.
Takes(S, candidates) ==
  /\ S \subseteq candidates
  /\ Cardinality(S) <= ClaimLimit
  /\ candidates # {} => S # {}

LeaseTo_KeepsOwner(g, r) ==
  [r EXCEPT !.owner = IF @ = NoOwner THEN g ELSE @, !.lease = "live"]

LeaseTo(g, r) == [r EXCEPT !.owner = g, !.lease = "live"]

\* update ... returning: the gateway keeps a copy of the rows it has leased.
Returning(S, rows) ==
  {[cmd |-> c, attempts |-> rows[c].attempts, step |-> "claimed"] : c \in S}

\* publishTimeouts and publishExhaustedFailures: lease the rows.
ClaimForResult(g, from, to, candidates) ==
  /\ phase[g] = from
  /\ work[g] = {}
  /\ \E S \in SUBSET candidates :
       /\ Takes(S, candidates)
       /\ row' = [c \in Commands |-> IF c \in S THEN LeaseTo(g, row[c]) ELSE row[c]]
       /\ work' = [work EXCEPT ![g] = Returning(S, row')]
  /\ phase' = [phase EXCEPT ![g] = to]
  /\ UNCHANGED <<retries, final, deviceState, deviceVars, log, faults>>

ClaimTimedOutCommands(g) ==
  ClaimForResult(g, "publish", "notify", TimedOut)

ClaimCommandsAwaitingFailureResult(g) ==
  ClaimForResult(g, "notify", "finalize", AwaitingFailureResult)

ClaimForPublish_CountsOnce(g, r) ==
  [LeaseTo(g, r) EXCEPT !.status = "publishing", !.attempts = IF @ = 0 THEN 1 ELSE @,
                        !.due = FALSE]

\* The claim itself counts the attempt.
ClaimForPublish(g, r) ==
  [LeaseTo(g, r) EXCEPT !.status = "publishing", !.attempts = @ + 1, !.due = FALSE]

ClaimDispatchableCommands(g) ==
  /\ phase[g] = "finalize"
  /\ work[g] = {}
  /\ \E S \in SUBSET Dispatchable :
       /\ Takes(S, Dispatchable)
       /\ row' = [c \in Commands |-> IF c \in S THEN ClaimForPublish(g, row[c]) ELSE row[c]]
       /\ work' = [work EXCEPT ![g] = Returning(S, row')]
  /\ phase' = [phase EXCEPT ![g] = "publish"]
  /\ UNCHANGED <<retries, final, deviceState, deviceVars, log, faults>>

\* A claim query fails: the loop logs and goes on with nothing claimed.
Following == [publish |-> "notify", notify |-> "finalize", finalize |-> "publish"]

ClaimQueryFails(g) ==
  /\ work[g] = {}
  /\ Fault
  /\ phase' = [phase EXCEPT ![g] = Following[@]]
  /\ UNCHANGED <<dbVars, work, deviceVars, log>>

-----------------------------------------------------------------------------
(* The claims of a batch are handled one after the other.                   *)
IsNext(g, w) == w \in work[g] /\ \A v \in work[g] : v.step = "claimed"

Stepped(g, w, step) ==
  work' = [work EXCEPT ![g] = (@ \ {w}) \cup {[w EXCEPT !.step = step]}]

Done(g, w) == work' = [work EXCEPT ![g] = @ \ {w}]

BudgetLeft_OneMore(w) == w.attempts <= MaxAttempts
BudgetLeft_OneLess(w) == w.attempts + 1 < MaxAttempts

\* command.PublishAttempts is the copy taken by the claim, not the row.
BudgetLeft(w) == w.attempts < MaxAttempts

\* PublishCommand: the broker has the message; or the client is not connected;
\* or the five seconds pass and the broker may have it none the less.
PublishCommand(g) ==
  /\ phase[g] = "publish"
  /\ \E w \in work[g] :
       /\ IsNext(g, w)
       /\ \/ Stepped(g, w, "sent") /\ enroute' = enroute \cup {w.cmd}
          \/ Stepped(g, w, "failed") /\ enroute' \in {enroute, enroute \cup {w.cmd}}
  /\ UNCHANGED <<dbVars, phase, cache, physical, runs, acks, log, faults>>

\* update device_command ... where id = c and status = status and
\* dispatch_owner = g: it takes effect or touches no row.
UpdateIfOwner(g, c, status, r) ==
  row' = IF Owns(g, c, status) THEN [row EXCEPT ![c] = r] ELSE row

Released(r) == [r EXCEPT !.owner = NoOwner, !.lease = "none"]

Published(r) == [Released(r) EXCEPT !.status = "published", !.due = FALSE, !.overdue = FALSE]

MarkCommandPublished(g) ==
  /\ phase[g] = "publish"
  /\ \E w \in work[g] :
       /\ w.step = "sent"
       /\ UpdateIfOwner(g, w.cmd, "publishing", Published(row[w.cmd]))
       /\ Done(g, w)
  /\ UNCHANGED <<retries, final, deviceState, phase, deviceVars, log, faults>>

Retrying(r) ==
  [Released(r) EXCEPT !.status = "retrying", !.due = FALSE, !.code = "mqtt.publish.failed"]

ScheduleCommandRetry(g) ==
  /\ phase[g] = "publish"
  /\ \E w \in work[g] :
       /\ w.step = "failed"
       /\ BudgetLeft(w)
       /\ UpdateIfOwner(g, w.cmd, "publishing", Retrying(row[w.cmd]))
       /\ retries' = IF Owns(g, w.cmd, "publishing")
                     THEN retries \cup {<<w.cmd, w.attempts>>} ELSE retries
       /\ Done(g, w)
  /\ UNCHANGED <<final, deviceState, phase, deviceVars, log, faults>>

Exhausted(r) ==
  [Released(r) EXCEPT !.status = "finalizing", !.due = TRUE, !.code = "mqtt.publish.exhausted"]

MarkCommandPublishExhausted(g) ==
  /\ phase[g] = "publish"
  /\ \E w \in work[g] :
       /\ w.step = "failed"
       /\ ~ BudgetLeft(w)
       /\ UpdateIfOwner(g, w.cmd, "publishing", Exhausted(row[w.cmd]))
       /\ Done(g, w)
  /\ UNCHANGED <<retries, final, deviceState, phase, deviceVars, log, faults>>

-----------------------------------------------------------------------------
(* Synthetic failures go to the partition of the device.                    *)
Room(d) == Len(log[d]) < MaxLog

Produce(r) ==
  LET d == DeviceOf[r.cmd] IN Room(d) /\ log' = [log EXCEPT ![d] = Append(@, r)]

SyntheticFailure(g, w) ==
  [cmd |-> w.cmd, attempts |-> w.attempts,
   outcome |-> IF phase[g] = "notify" THEN "device.ack.timeout"
                                      ELSE "mqtt.publish.exhausted"]

PublishSyntheticResult(g) ==
  /\ phase[g] \in {"notify", "finalize"}
  /\ \E w \in work[g] : /\ IsNext(g, w)
                        /\ Produce(SyntheticFailure(g, w))
                        /\ Stepped(g, w, "sent")
  /\ UNCHANGED <<dbVars, phase, deviceVars, faults>>

\* Kafka refuses, or does not answer and has the record none the less: the
\* loop goes on to the next claim and leaves the lease to expire.
PublishSyntheticResultFails(g) ==
  /\ phase[g] \in {"notify", "finalize"}
  /\ Fault
  /\ \E w \in work[g] : /\ IsNext(g, w)
                        /\ Produce(SyntheticFailure(g, w)) \/ UNCHANGED log
                        /\ Done(g, w)
  /\ UNCHANGED <<dbVars, phase, deviceVars>>

Notified(r) == [Released(r) EXCEPT !.overdue = FALSE]

MarkCommandTimeoutNotified(g) ==
  /\ phase[g] = "notify"
  /\ \E w \in work[g] :
       /\ w.step = "sent"
       /\ UpdateIfOwner(g, w.cmd, "published", Notified(row[w.cmd]))
       /\ Done(g, w)
  /\ UNCHANGED <<retries, final, deviceState, phase, deviceVars, log, faults>>

Delayed(r) == [Released(r) EXCEPT !.due = FALSE]

DelayCommandFailureResult(g) ==
  /\ phase[g] = "finalize"
  /\ \E w \in work[g] :
       /\ w.step = "sent"
       /\ UpdateIfOwner(g, w.cmd, "finalizing", Delayed(row[w.cmd]))
       /\ Done(g, w)
  /\ UNCHANGED <<retries, final, deviceState, phase, deviceVars, log, faults>>

\* The statement that would record an outcome fails: the error is only logged.
StoreUpdateFails(g) ==
  /\ Fault
  /\ \E w \in work[g] : w.step # "claimed" /\ Done(g, w)
  /\ UNCHANGED <<dbVars, phase, deviceVars, log>>

\* The process dies; its successor starts a fresh loop under the same identity.
CrashGateway(g) ==
  /\ work[g] # {}
  /\ Fault
  /\ work' = [work EXCEPT ![g] = {}]
  /\ phase' = [phase EXCEPT ![g] = "publish"]
  /\ UNCHANGED <<dbVars, deviceVars, log>>

-----------------------------------------------------------------------------
(* Time passes.                                                             *)
Holds(g, c) == \E w \in work[g] : w.cmd = c

ExpireAbandonedLease(c) ==
  /\ ~ Terminal(c)
  /\ row[c].lease = "live"
  /\ ~ Holds(row[c].owner, c)
  /\ row' = [row EXCEPT ![c].lease = "expired"]
  /\ UNCHANGED <<retries, final, deviceState, gwVars, deviceVars, log, faults>>

\* The owner is still busy with its batch: 20 claims of up to 5 s each under
\* one 30 s lease.
ExpireLeaseOfSlowGateway(c) ==
  /\ ~ Terminal(c)
  /\ row[c].lease = "live"
  /\ Holds(row[c].owner, c)
  /\ Fault
  /\ row' = [row EXCEPT ![c].lease = "expired"]
  /\ UNCHANGED <<retries, final, deviceState, gwVars, deviceVars, log>>

NextAttemptFallsDue(c) ==
  /\ row[c].status \in {"retrying", "finalizing"}
  /\ ~ row[c].due
  /\ row' = [row EXCEPT ![c].due = TRUE]
  /\ UNCHANGED <<retries, final, deviceState, gwVars, deviceVars, log, faults>>

AckBecomesOverdue(c) ==
  /\ row[c].status = "published"
  /\ ~ row[c].overdue
  /\ row' = [row EXCEPT ![c].overdue = TRUE]
  /\ UNCHANGED <<retries, final, deviceState, gwVars, deviceVars, log, faults>>

-----------------------------------------------------------------------------
(* The device (handle_command and on_message of the simulator).  A command  *)
(* it has a result for is answered from the cache; the acknowledgement may  *)
(* be dropped; the broker may deliver the command again.                    *)
Answer_NotCached(c, outcome) ==
  /\ UNCHANGED cache
  /\ acks' \in {acks, acks \cup {[cmd |-> c, outcome |-> outcome]}}

Answer(c, outcome) ==
  /\ cache' = [cache EXCEPT ![c] = outcome]
  /\ acks' \in {acks, acks \cup {[cmd |-> c, outcome |-> outcome]}}

handle_command(c) ==
  /\ c \in enroute
  /\ enroute' \in {enroute, enroute \ {c}}
  /\ \/ /\ cache[c] # "none"
        /\ Answer(c, cache[c])
        /\ UNCHANGED <<physical, runs>>
     \/ /\ cache[c] = "none"
        /\ Answer(c, "success")
        /\ physical' = [physical EXCEPT ![DeviceOf[c]] = c]
        /\ runs' = [runs EXCEPT ![c] = @ + 1]
     \/ /\ cache[c] = "none"
        /\ Answer(c, "device.command.rejected")
        /\ UNCHANGED <<physical, runs>>
  /\ UNCHANGED <<dbVars, gwVars, log, faults>>

\* The device was not subscribed when the broker would have delivered.
LoseCommand(c) ==
  /\ c \in enroute
  /\ enroute' = enroute \ {c}
  /\ UNCHANGED <<dbVars, gwVars, cache, physical, runs, acks, log, faults>>

\* Cache and states live in process memory.
RestartDevice(d) ==
  /\ Fault
  /\ cache' = [c \in Commands |-> IF DeviceOf[c] = d THEN "none" ELSE cache[c]]
  /\ physical' = [physical EXCEPT ![d] = NoCommand]
  /\ UNCHANGED <<dbVars, gwVars, enroute, runs, acks, log>>

LoseAck(a) ==
  /\ acks' = acks \ {a}
  /\ UNCHANGED <<dbVars, gwVars, enroute, cache, physical, runs, log, faults>>

(* A device result on the shared subscription: any gateway takes it, hands  *)
(* it to Kafka and acknowledges it.  Deliveries run concurrently            *)
(* (SetOrderMatters(false)), so there is no order between them.             *)
AckResult_NoDefaultCode(a) ==
  [cmd |-> a.cmd, outcome |-> IF a.outcome = "success" THEN "success" ELSE "none",
   attempts |-> 0]

\* The worker completes a failure without a code with device.command.rejected.
AckResult(a) == [cmd |-> a.cmd, outcome |-> a.outcome, attempts |-> 0]

handleCommandResult(a) ==
  /\ Produce(AckResult(a))
  /\ acks' = acks \ {a}
  /\ UNCHANGED <<dbVars, gwVars, enroute, cache, physical, runs, faults>>

\* In Kafka, but the MQTT acknowledgement does not get through.
handleCommandResultUnacked(a) ==
  /\ Fault
  /\ Produce(AckResult(a))
  /\ UNCHANGED <<dbVars, gwVars, deviceVars>>

-----------------------------------------------------------------------------
(* The worker applies the record at the head of a partition in one          *)
(* transaction.  dispatch_owner and lease_until stay as they are.           *)
Greatest(a, b) == IF a >= b THEN a ELSE b

Completed(r, result) ==
  [r EXCEPT !.status = IF result.outcome = "success" THEN "succeeded" ELSE "failed",
            !.code = IF result.outcome = "success" THEN "none" ELSE result.outcome,
            !.attempts = Greatest(@, result.attempts)]

\* A result of an unknown command throws.
applyCommandResult(result) ==
  LET c == result.cmd
  IN  /\ row[c].status # "absent"
      /\ IF Terminal(c)
         THEN UNCHANGED dbVars
         ELSE /\ row' = [row EXCEPT ![c] = Completed(@, result)]
              /\ deviceState' = IF result.outcome = "success"
                                THEN [deviceState EXCEPT ![DeviceOf[c]] = c]
                                ELSE deviceState
              \* on conflict (event_id) do nothing
              /\ final' = [final EXCEPT ![c] = IF @ = "none" THEN result.outcome ELSE @]
              /\ UNCHANGED retries

ConsumeResult(d) ==
  /\ log[d] # <<>>
  /\ applyCommandResult(Head(log[d]))
  /\ log' = [log EXCEPT ![d] = Tail(@)]
  /\ UNCHANGED <<gwVars, deviceVars, faults>>

\* The worker stops after its transaction and before commitOffsets.
ConsumeResultUncommitted(d) ==
  /\ log[d] # <<>>
  /\ Fault
  /\ applyCommandResult(Head(log[d]))
  /\ UNCHANGED <<gwVars, deviceVars, log>>

\* The transaction fails: the record goes to the dead letters and is committed.
\* A worker that stops with it in hand, before its group has committed any offset
\* of the partition, skips it too: the group goes on at the end (fromBeginning).
DeadLetterResult(d) ==
  /\ log[d] # <<>>
  /\ Fault
  /\ log' = [log EXCEPT ![d] = Tail(@)]
  /\ UNCHANGED <<dbVars, gwVars, deviceVars>>

-----------------------------------------------------------------------------
GatewayStep(g) ==
  \/ ClaimTimedOutCommands(g)
  \/ ClaimCommandsAwaitingFailureResult(g)
  \/ ClaimDispatchableCommands(g)
  \/ PublishCommand(g)
  \/ MarkCommandPublished(g)
  \/ ScheduleCommandRetry(g)
  \/ MarkCommandPublishExhausted(g)
  \/ PublishSyntheticResult(g)
  \/ MarkCommandTimeoutNotified(g)
  \/ DelayCommandFailureResult(g)

GatewayFault(g) ==
  \/ ClaimQueryFails(g)
  \/ PublishSyntheticResultFails(g)
  \/ StoreUpdateFails(g)
  \/ CrashGateway(g)

ClockStep(c) ==
  \/ ExpireAbandonedLease(c)
  \/ NextAttemptFallsDue(c)
  \/ AckBecomesOverdue(c)

DeviceStep(c) == handle_command(c) \/ LoseCommand(c)

AckStep(a) ==
  \/ LoseAck(a)
  \/ handleCommandResult(a)
  \/ handleCommandResultUnacked(a)

WorkerStep(d) ==
  \/ ConsumeResult(d)
  \/ ConsumeResultUncommitted(d)
  \/ DeadLetterResult(d)

Next ==
  \/ \E c \in Commands : \/ CreateDeviceCommand(c)
                         \/ ClockStep(c)
                         \/ ExpireLeaseOfSlowGateway(c)
                         \/ DeviceStep(c)
  \/ \E g \in Gateways : GatewayStep(g) \/ GatewayFault(g)
  \/ \E a \in acks : AckStep(a)
  \/ \E d \in Devices : RestartDevice(d) \/ WorkerStep(d)

Spec == Init /\ [][Next]_vars

\* The loop of a gateway ticks every second, clocks advance, and the consumer
\* group keeps fetching.  Nothing is assumed of the device or of MQTT.
Fairness ==
  /\ \A g \in Gateways : WF_vars(GatewayStep(g))
  /\ \A c \in Commands : WF_vars(ClockStep(c))
  /\ \A d \in Devices : WF_vars(ConsumeResult(d))

FairSpec == Spec /\ Fairness

-----------------------------------------------------------------------------
(* Every variable keeps its type.                                           *)
TypeOK ==
  /\ row \in [Commands -> Row]
  /\ retries \subseteq Commands \X Nat
  /\ final \in [Commands -> Outcomes \cup {"none"}]
  /\ deviceState \in [Devices -> Commands \cup {NoCommand}]
  /\ phase \in [Gateways -> {"publish", "notify", "finalize"}]
  /\ work \in [Gateways -> SUBSET Claim]
  /\ enroute \subseteq Commands
  /\ cache \in [Commands -> {"none", "success", "device.command.rejected"}]
  /\ physical \in [Devices -> Commands \cup {NoCommand}]
  /\ runs \in [Commands -> Nat]
  /\ acks \subseteq Ack
  /\ log \in [Devices -> Seq(Result)]
  /\ faults \in 0 .. MaxFaults

(* A claim in memory never runs ahead of its row, and while its gateway is   *)
(* still the owner in the state the claim was taken for, it is the claim of  *)
(* the current attempt: the owner test alone tells a stale claim apart, and  *)
(* the attempt number that decides between retry and exhaustion, and that    *)
(* the retry event is named after, is the one in the row.                    *)
ClaimedFor == [publish |-> "publishing", notify |-> "published", finalize |-> "finalizing"]

ClaimsFenced ==
  \A g \in Gateways : \A w \in work[g] :
    /\ w.attempts <= row[w.cmd].attempts
    /\ Owns(g, w.cmd, ClaimedFor[phase[g]]) => w.attempts = row[w.cmd].attempts

(* Every publish attempt beyond the configured maximum is the reclaim of an  *)
(* expired lease, and takes a fault of its own: a crash, a lost database     *)
(* update, a gateway slower than its lease.                                  *)
AttemptsBounded == \A c \in Commands : row[c].attempts <= MaxAttempts + faults

(* A result on its way to the worker, or announced, is backed by what        *)
(* happened: a success by a run of the device, an exhaustion by a spent      *)
(* budget, a timeout by a completed publish that nothing has undone.         *)
Backed(c, outcome) ==
  CASE outcome = "success" -> runs[c] > 0
    [] outcome = "mqtt.publish.exhausted" ->
         /\ row[c].attempts >= MaxAttempts
         /\ row[c].status = "finalizing" \/ Terminal(c)
    [] outcome = "device.ack.timeout" -> row[c].status = "published" \/ Terminal(c)
    [] OTHER -> TRUE

ResultsBacked ==
  /\ \A d \in Devices : \A i \in 1 .. Len(log[d]) :
       Backed(log[d][i].cmd, log[d][i].outcome)
  /\ \A c \in Commands : Backed(c, final[c])

(* A device carries a command out once, however often the command is         *)
(* published or delivered, unless it lost its cache in between.              *)
RunsOncePerBoot == \A c \in Commands : runs[c] <= 1 + faults

(* The scheduling of a retry always adds an event of its own to the feed: no *)
(* two attempts share an event id, so on conflict do nothing never swallows  *)
(* one.                                                                      *)
RetryEventIsNew ==
  [][\A c \in Commands :
       row[c].status # "retrying" /\ row'[c].status = "retrying" =>
         <<c, row[c].attempts>> \in retries' \ retries]_vars

(* The detailed protocol implements the abstract life of a command: one      *)
(* verdict, announced once and never revised, whatever gateways, device and  *)
(* Kafka do; and under fairness every command gets its verdict.              *)
Verdict(c) == IF row[c].status = "absent" \/ Terminal(c) THEN row[c].status ELSE "open"

Announced(c) ==
  IF final[c] = "none" THEN "none" ELSE IF final[c] = "success" THEN "succeeded" ELSE "failed"

Lifecycle == INSTANCE CommandLifecycle WITH
  verdict   <- [c \in Commands |-> Verdict(c)],
  announced <- [c \in Commands |-> Announced(c)]

ImplementsLifecycle == Lifecycle!Spec
EveryCommandDecided == Lifecycle!FairSpec

-----------------------------------------------------------------------------
(* The inductive invariant behind the properties above, in named parts.      *)

\* A record on its way to the worker never claims more attempts than its row.
LogFenced ==
  \A d \in Devices : \A i \in 1 .. Len(log[d]) :
    log[d][i].attempts <= row[log[d][i].cmd].attempts

\* A lease has an owner, and so has an attempt in progress.
LeasesOwned ==
  \A c \in Commands :
    row[c].lease = "live" \/ row[c].status = "publishing" => row[c].owner \in Gateways

\* The attempt is still in the hands of a gateway that has its lease.
InHand(c) ==
  LET g == row[c].owner
  IN  row[c].lease = "live" /\ phase[g] = "publish" /\ Holds(g, c)

\* An attempt nobody has in hand has already cost the fault that pays for the
\* next one; a scheduled retry is still within the budget.
BudgetKept ==
  \A c \in Commands :
    /\ row[c].attempts <= MaxAttempts + faults
    /\ row[c].status \in {"absent", "pending"} => row[c].attempts = 0
    /\ row[c].status = "retrying" => row[c].attempts < MaxAttempts
    /\ row[c].status = "publishing" /\ ~ InHand(c) =>
         row[c].attempts < MaxAttempts + faults

\* A terminal status and the terminal event come together and agree.
VerdictsAgree ==
  \A c \in Commands :
    /\ row[c].status = "succeeded" <=> final[c] = "success"
    /\ row[c].status = "failed" <=> final[c] \in Failures
    /\ row[c].status = "failed" => row[c].code = final[c]

\* What a gateway is about to announce is as true as when it was claimed.
ClaimsBacked ==
  /\ \A c \in Commands : row[c].status = "finalizing" => row[c].attempts >= MaxAttempts
  /\ \A g \in Gateways : \A w \in work[g] :
       /\ phase[g] = "notify" => Backed(w.cmd, "device.ack.timeout")
       /\ phase[g] = "finalize" => Backed(w.cmd, "mqtt.publish.exhausted")

\* The device answers success only for what it has carried out.
DeviceHonest ==
  /\ \A c \in Commands : cache[c] = "success" => runs[c] > 0
  /\ \A a \in acks : a.outcome = "success" => runs[a.cmd] > 0
  /\ \A c \in Commands : cache[c] = "none" => runs[c] <= faults

\* A retry event belongs to an attempt that is over.
RetriesPast ==
  \A e \in retries : /\ e[2] <= row[e[1]].attempts
                     /\ row[e[1]].status = "publishing" => e[2] < row[e[1]].attempts

IInv ==
  /\ TypeOK
  /\ ClaimsFenced
  /\ LogFenced
  /\ LeasesOwned
  /\ BudgetKept
  /\ VerdictsAgree
  /\ ClaimsBacked
  /\ ResultsBacked
  /\ DeviceHonest
  /\ RunsOncePerBoot
  /\ RetriesPast

-----------------------------------------------------------------------------
(* What the documents say and the code does not do.                         *)

(* Handoff 015 says the stage bounds retries; the reclaim of an expired      *)
(* lease counts an attempt without looking at the maximum.                   *)
AttemptsWithinMaximum == \A c \in Commands : row[c].attempts <= MaxAttempts

(* The README promises order per device; results of one device are handed to *)
(* Kafka by concurrent handlers, so once two commands have succeeded and     *)
(* nothing is under way the recorded state may be that of the earlier one.   *)
Quiet(d) ==
  /\ log[d] = <<>> /\ enroute = {} /\ acks = {}
  /\ \A c \in Commands : DeviceOf[c] = d => row[c].status = "succeeded"

RecordedStateIsDeviceState == \A d \in Devices : Quiet(d) => deviceState[d] = physical[d]
=============================================================================
