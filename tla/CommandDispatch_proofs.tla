------------------------ MODULE CommandDispatch_proofs ------------------------
(***************************************************************************)
(* Proofs about CommandDispatch, for any number of gateways, commands and  *)
(* devices and any bounds.                                                 *)
(***************************************************************************)
EXTENDS CommandDispatch, TLAPS

-----------------------------------------------------------------------------
(* What the statements of commands.go and of the worker leave in a row.  The *)
(* proofs below use these facts instead of the definitions.                  *)

(* A claim leases the row to the claiming gateway and changes nothing else. *)
LEMMA LeaseToRow ==
  ASSUME NEW g \in Gateways, NEW r \in Row
  PROVE  /\ LeaseTo(g, r) \in Row
         /\ LeaseTo(g, r).owner = g
         /\ LeaseTo(g, r).lease = "live"
         /\ LeaseTo(g, r).status = r.status
         /\ LeaseTo(g, r).attempts = r.attempts
         /\ LeaseTo(g, r).code = r.code
         /\ LeaseTo(g, r).due = r.due
  BY DEF LeaseTo, Row

(* The claim of a publish attempt leases the row and counts the attempt. *)
LEMMA ClaimForPublishRow ==
  ASSUME NEW g \in Gateways, NEW r \in Row
  PROVE  /\ ClaimForPublish(g, r) \in Row
         /\ ClaimForPublish(g, r).owner = g
         /\ ClaimForPublish(g, r).lease = "live"
         /\ ClaimForPublish(g, r).status = "publishing"
         /\ ClaimForPublish(g, r).attempts = r.attempts + 1
         /\ ClaimForPublish(g, r).code = r.code
<1>1. PICK n \in Nat : n = r.attempts + 1
  BY DEF Row
<1>2. PICK q \in Row : /\ q = LeaseTo(g, r) /\ q.owner = g /\ q.lease = "live"
                      /\ q.attempts = r.attempts /\ q.code = r.code
  BY LeaseToRow
<1>3. ClaimForPublish(g, r) = [q EXCEPT !.status = "publishing", !.attempts = n, !.due = FALSE]
  BY <1>1, <1>2 DEF ClaimForPublish
<1>4. QED
  BY <1>1, <1>2, <1>3 DEF Row, Statuses

(* Every owner-conditioned update releases the row and keeps the attempts. *)
LEMMA ReleasedRow ==
  ASSUME NEW r \in Row
  PROVE  /\ Released(r) \in Row
         /\ Released(r).owner = NoOwner
         /\ Released(r).lease = "none"
         /\ Released(r).status = r.status
         /\ Released(r).attempts = r.attempts
         /\ Released(r).code = r.code
  BY DEF Released, Row

LEMMA PublishedRow ==
  ASSUME NEW r \in Row
  PROVE  /\ Published(r) \in Row
         /\ Published(r).owner = NoOwner
         /\ Published(r).lease = "none"
         /\ Published(r).status = "published"
         /\ Published(r).attempts = r.attempts
<1>1. PICK q \in Row : q = Released(r) /\ q.owner = NoOwner /\ q.lease = "none"
                       /\ q.status = r.status /\ q.attempts = r.attempts
  BY ReleasedRow
<1>2. QED
  BY <1>1 DEF Published, Row, Statuses

LEMMA RetryingRow ==
  ASSUME NEW r \in Row
  PROVE  /\ Retrying(r) \in Row
         /\ Retrying(r).owner = NoOwner
         /\ Retrying(r).lease = "none"
         /\ Retrying(r).status = "retrying"
         /\ Retrying(r).attempts = r.attempts
<1>1. PICK q \in Row : q = Released(r) /\ q.owner = NoOwner /\ q.lease = "none"
                       /\ q.status = r.status /\ q.attempts = r.attempts
  BY ReleasedRow
<1>2. QED
  BY <1>1 DEF Retrying, Row, Statuses

LEMMA ExhaustedRow ==
  ASSUME NEW r \in Row
  PROVE  /\ Exhausted(r) \in Row
         /\ Exhausted(r).owner = NoOwner
         /\ Exhausted(r).lease = "none"
         /\ Exhausted(r).status = "finalizing"
         /\ Exhausted(r).attempts = r.attempts
<1>1. PICK q \in Row : q = Released(r) /\ q.owner = NoOwner /\ q.lease = "none"
                       /\ q.status = r.status /\ q.attempts = r.attempts
  BY ReleasedRow
<1>2. QED
  BY <1>1 DEF Exhausted, Row, Statuses, Failures

LEMMA NotifiedRow ==
  ASSUME NEW r \in Row
  PROVE  /\ Notified(r) \in Row
         /\ Notified(r).owner = NoOwner
         /\ Notified(r).lease = "none"
         /\ Notified(r).status = r.status
         /\ Notified(r).attempts = r.attempts
<1>1. PICK q \in Row : q = Released(r) /\ q.owner = NoOwner /\ q.lease = "none"
                       /\ q.status = r.status /\ q.attempts = r.attempts
  BY ReleasedRow
<1>2. QED
  BY <1>1 DEF Notified, Row

LEMMA DelayedRow ==
  ASSUME NEW r \in Row
  PROVE  /\ Delayed(r) \in Row
         /\ Delayed(r).owner = NoOwner
         /\ Delayed(r).lease = "none"
         /\ Delayed(r).status = r.status
         /\ Delayed(r).attempts = r.attempts
<1>1. PICK q \in Row : q = Released(r) /\ q.owner = NoOwner /\ q.lease = "none"
                       /\ q.status = r.status /\ q.attempts = r.attempts
  BY ReleasedRow
<1>2. QED
  BY <1>1 DEF Delayed, Row

(* The worker's update decides the row and keeps its lease. *)
LEMMA CompletedRow ==
  ASSUME NEW r \in Row, NEW result \in Result
  PROVE  /\ Completed(r, result) \in Row
         /\ Completed(r, result).owner = r.owner
         /\ Completed(r, result).lease = r.lease
         /\ Completed(r, result).attempts \in {r.attempts, result.attempts}
         /\ Completed(r, result).attempts >= r.attempts
         /\ Completed(r, result).attempts >= result.attempts
         /\ result.outcome = "success" => Completed(r, result).status = "succeeded"
         /\ result.outcome # "success" =>
              /\ Completed(r, result).status = "failed"
              /\ Completed(r, result).code = result.outcome
              /\ result.outcome \in Failures
<1>1. PICK n \in Nat : /\ n = Greatest(r.attempts, result.attempts)
                      /\ n \in {r.attempts, result.attempts}
                      /\ n >= r.attempts /\ n >= result.attempts
  <2>1. r.attempts \in Nat /\ result.attempts \in Nat
    BY DEF Row, Result
  <2>2. QED
    BY <2>1 DEF Greatest
<1>2. CASE result.outcome = "success"
  <2>1. Completed(r, result) = [r EXCEPT !.status = "succeeded", !.code = "none", !.attempts = n]
    BY <1>1, <1>2 DEF Completed
  <2>2. QED
    BY <1>1, <1>2, <2>1 DEF Row, Statuses
<1>3. CASE result.outcome # "success"
  <2>1. result.outcome \in Failures
    BY <1>3 DEF Result, Outcomes
  <2>2. Completed(r, result) =
          [r EXCEPT !.status = "failed", !.code = result.outcome, !.attempts = n]
    BY <1>1, <1>3 DEF Completed
  <2>3. PICK f \in Failures : f = result.outcome
    BY <2>1
  <2>4. QED
    BY <1>1, <1>3, <2>2, <2>3 DEF Row, Statuses
<1>4. QED
  BY <1>2, <1>3

-----------------------------------------------------------------------------
(* How the row of a command may move in one step, to a new value q: this is  *)
(* all that the invariants need to know of the queries.                     *)

\* Nothing but a clock has touched the row.
Kept(c, q) ==
  /\ q.status = row[c].status /\ q.attempts = row[c].attempts
  /\ q.owner = row[c].owner /\ q.code = row[c].code /\ q.lease = row[c].lease

Expired(c, q) ==
  /\ q.status = row[c].status /\ q.attempts = row[c].attempts
  /\ q.owner = row[c].owner /\ q.code = row[c].code /\ q.lease = "expired"
  /\ UNCHANGED gwVars /\ (~ Holds(row[c].owner, c) \/ Fault)

Queued(c, q) ==
  /\ CreateDeviceCommand(c) /\ row[c].status = "absent" /\ q.status = "pending"
  /\ q.attempts = row[c].attempts /\ q.owner = row[c].owner /\ q.lease = row[c].lease

\* A gateway claims only when it has handled all it claimed before.
Leased(c, q) ==
  /\ row[c].status \in {"published", "finalizing"} /\ q.status = row[c].status
  /\ q.attempts = row[c].attempts /\ q.lease = "live"
  /\ q.owner \in Gateways /\ work[q.owner] = {}

\* A publish attempt begins, in the hands of the gateway that counts it.
Attempted(c, q) ==
  /\ row[c].status \in {"pending", "retrying", "publishing"} /\ q.status = "publishing"
  /\ row[c].status = "publishing" => row[c].lease # "live"
  /\ q.attempts = row[c].attempts + 1 /\ q.lease = "live"
  /\ q.owner \in Gateways /\ work[q.owner] = {}
  /\ phase'[q.owner] = "publish" /\ \E w \in work'[q.owner] : w.cmd = c

\* The owner has recorded an outcome and lets the row go.
Free(c, q) == q.attempts = row[c].attempts /\ q.owner = NoOwner /\ q.lease = "none"

Settled(c, q) ==
  /\ Free(c, q)
  /\ \/ row[c].status = "publishing" /\ q.status = "published"
     \/ row[c].status \in {"published", "finalizing"} /\ q.status = row[c].status

\* The publish failed: another attempt is scheduled, or there will be none.
Rescheduled(c, q) ==
  /\ Free(c, q) /\ row[c].status = "publishing" /\ q.status = "retrying"
  /\ \E g \in Gateways : \E w \in work[g] :
       /\ w.cmd = c /\ Owns(g, c, "publishing") /\ phase[g] = "publish" /\ BudgetLeft(w)
       /\ retries' = retries \cup {<<c, w.attempts>>}

GivenUp(c, q) ==
  /\ Free(c, q) /\ row[c].status = "publishing" /\ q.status = "finalizing"
  /\ \E g \in Gateways : \E w \in work[g] :
       w.cmd = c /\ Owns(g, c, "publishing") /\ phase[g] = "publish" /\ ~ BudgetLeft(w)

Decided(c, q) ==
  /\ ~ Terminal(c) /\ q.status \in {"succeeded", "failed"}
  /\ q.attempts >= row[c].attempts /\ q.owner = row[c].owner /\ q.lease = row[c].lease
  /\ \E d \in Devices : /\ log[d] # <<>> /\ Head(log[d]).cmd = c
                        /\ q = Completed(row[c], Head(log[d]))
                        /\ applyCommandResult(Head(log[d]))

Moves(c, q) ==
  \/ Kept(c, q) \/ Expired(c, q) \/ Queued(c, q) \/ Leased(c, q) \/ Attempted(c, q)
  \/ Settled(c, q) \/ Rescheduled(c, q) \/ GivenUp(c, q) \/ Decided(c, q)

RowsMove == row' \in [Commands -> Row] /\ \A c \in Commands : Moves(c, row'[c])

(* An update of one row, and an owner-conditioned update, move that row only. *)
LEMMA OneRowMoves ==
  ASSUME row \in [Commands -> Row], NEW c \in Commands, NEW q \in Row,
         row' = [row EXCEPT ![c] = q], Moves(c, q)
  PROVE  RowsMove
<1>1. \A b \in Commands : Kept(b, row[b])
  BY DEF Kept
<1>2. \A b \in Commands : Moves(b, row'[b])
  BY <1>1 DEF Moves
<1>3. QED
  BY <1>2 DEF RowsMove

LEMMA NoRowMoves ==
  ASSUME row \in [Commands -> Row], UNCHANGED row
  PROVE  RowsMove
  BY DEF RowsMove, Moves, Kept

LEMMA OwnedRowMoves ==
  ASSUME row \in [Commands -> Row], NEW g \in Gateways, NEW c \in Commands,
         NEW status, NEW q \in Row, UpdateIfOwner(g, c, status, q),
         Owns(g, c, status) => Moves(c, q)
  PROVE  RowsMove
<1>1. CASE Owns(g, c, status)
  BY <1>1, OneRowMoves DEF UpdateIfOwner, Owns
<1>2. CASE ~ Owns(g, c, status)
  BY <1>2, NoRowMoves DEF UpdateIfOwner
<1>3. QED
  BY <1>1, <1>2

(* What the clocks and the creation of a command do to a row. *)
LEMMA TouchedRow ==
  ASSUME row \in [Commands -> Row], NEW c \in Commands
  PROVE  /\ [row[c] EXCEPT !.lease = "expired"] \in Row
         /\ [row[c] EXCEPT !.due = TRUE] \in Row
         /\ [row[c] EXCEPT !.overdue = TRUE] \in Row
         /\ [row[c] EXCEPT !.status = "pending"] \in Row
         /\ UNCHANGED gwVars /\ (~ Holds(row[c].owner, c) \/ Fault) =>
              Expired(c, [row[c] EXCEPT !.lease = "expired"])
         /\ Kept(c, [row[c] EXCEPT !.due = TRUE])
         /\ Kept(c, [row[c] EXCEPT !.overdue = TRUE])
         /\ CreateDeviceCommand(c) => Queued(c, [row[c] EXCEPT !.status = "pending"])
<1>1. row[c] \in Row
  OBVIOUS
<1>2. CreateDeviceCommand(c) => row[c].status = "absent"
  BY DEF CreateDeviceCommand
<1>3. QED
  BY <1>1, <1>2 DEF Row, Statuses, Kept, Expired, Queued

(* Every step of the system moves the rows in one of those ways. *)
LEMMA RowStep ==
  ASSUME row \in [Commands -> Row], log \in [Devices -> Seq(Result)],
         work \in [Gateways -> SUBSET Claim],
         phase \in [Gateways -> {"publish", "notify", "finalize"}], [Next]_vars
  PROVE  RowsMove
<1>. USE ConstantsAssumption DEF ConstantsAssumption
<1>1. ASSUME NEW c \in Commands, CreateDeviceCommand(c)
      PROVE  RowsMove
  <2>1. row[c] \in Row /\ row[c].status = "absent"
    BY <1>1 DEF CreateDeviceCommand
  <2>2. row' = [row EXCEPT ![c] = [row[c] EXCEPT !.status = "pending"]]
    BY <1>1 DEF CreateDeviceCommand
  <2>3. QED
    BY <1>1, <2>1, <2>2, TouchedRow, OneRowMoves DEF Moves
<1>2. ASSUME NEW c \in Commands, ExpireAbandonedLease(c) \/ ExpireLeaseOfSlowGateway(c)
      PROVE  RowsMove
  <2>1. /\ row' = [row EXCEPT ![c] = [row[c] EXCEPT !.lease = "expired"]]
        /\ UNCHANGED gwVars /\ (~ Holds(row[c].owner, c) \/ Fault)
    BY <1>2 DEF ExpireAbandonedLease, ExpireLeaseOfSlowGateway
  <2>2. QED
    BY <2>1, TouchedRow, OneRowMoves DEF Moves
<1>3. ASSUME NEW c \in Commands, NextAttemptFallsDue(c)
      PROVE  RowsMove
  <2>1. row' = [row EXCEPT ![c] = [row[c] EXCEPT !.due = TRUE]]
    BY <1>3 DEF NextAttemptFallsDue
  <2>2. QED
    BY <2>1, TouchedRow, OneRowMoves DEF Moves
<1>4. ASSUME NEW c \in Commands, AckBecomesOverdue(c)
      PROVE  RowsMove
  <2>1. row' = [row EXCEPT ![c] = [row[c] EXCEPT !.overdue = TRUE]]
    BY <1>4 DEF AckBecomesOverdue
  <2>2. QED
    BY <2>1, TouchedRow, OneRowMoves DEF Moves
<1>5. ASSUME NEW g \in Gateways,
             ClaimTimedOutCommands(g) \/ ClaimCommandsAwaitingFailureResult(g)
      PROVE  RowsMove
  <2>0. work[g] = {}
    BY <1>5 DEF ClaimTimedOutCommands, ClaimCommandsAwaitingFailureResult, ClaimForResult
  <2>1. PICK S : /\ S \subseteq TimedOut \/ S \subseteq AwaitingFailureResult
                 /\ row' = [c \in Commands |-> IF c \in S THEN LeaseTo(g, row[c]) ELSE row[c]]
    BY <1>5 DEF ClaimTimedOutCommands, ClaimCommandsAwaitingFailureResult, ClaimForResult
  <2>2. \A c \in S : c \in Commands /\ row[c].status \in {"published", "finalizing"}
    BY <2>1 DEF TimedOut, AwaitingFailureResult
  <2>3. \A c \in S : LeaseTo(g, row[c]) \in Row /\ Leased(c, LeaseTo(g, row[c]))
    BY <2>0, <2>2, LeaseToRow DEF Leased
  <2>4. row' \in [Commands -> Row]
    BY <2>1, <2>3
  <2>5. ASSUME NEW c \in Commands PROVE Moves(c, row'[c])
    BY <2>1, <2>3 DEF Moves, Kept
  <2>6. QED
    BY <2>4, <2>5 DEF RowsMove
<1>6. ASSUME NEW g \in Gateways, ClaimDispatchableCommands(g)
      PROVE  RowsMove
  <2>1. PICK S : /\ S \subseteq Dispatchable
                 /\ row' = [c \in Commands |-> IF c \in S THEN ClaimForPublish(g, row[c]) ELSE row[c]]
                 /\ work' = [work EXCEPT ![g] = Returning(S, row')]
                 /\ work[g] = {} /\ phase' = [phase EXCEPT ![g] = "publish"]
    BY <1>6 DEF ClaimDispatchableCommands
  <2>2. \A c \in S : /\ c \in Commands /\ row[c].status \in {"pending", "retrying", "publishing"}
                     /\ row[c].status = "publishing" => row[c].lease # "live"
    BY <2>1 DEF Dispatchable
  <2>3. ASSUME NEW c \in S PROVE \E w \in work'[g] : w.cmd = c
    <3>1. work'[g] = Returning(S, row')
      BY <2>1
    <3>2. [cmd |-> c, attempts |-> row'[c].attempts, step |-> "claimed"] \in work'[g]
      BY <3>1 DEF Returning
    <3>3. QED
      BY <3>2
  <2>4. ASSUME NEW c \in S
        PROVE  ClaimForPublish(g, row[c]) \in Row /\ Attempted(c, ClaimForPublish(g, row[c]))
    <3>. DEFINE q == ClaimForPublish(g, row[c])
    <3>1. phase'[g] = "publish" /\ row[c] \in Row
      BY <2>1, <2>2
    <3>2. q \in Row /\ q.status = "publishing" /\ q.attempts = row[c].attempts + 1
          /\ q.lease = "live" /\ q.owner = g
      BY <3>1, ClaimForPublishRow
    <3>. HIDE DEF q
    <3>3. Attempted(c, q)
      BY <2>1, <2>2, <2>3, <3>1, <3>2 DEF Attempted
    <3>4. QED
      BY <3>2, <3>3 DEF q
  <2>5. row' \in [Commands -> Row]
    BY <2>1, <2>4
  <2>6. ASSUME NEW c \in Commands PROVE Moves(c, row'[c])
    BY <2>1, <2>4 DEF Moves, Kept
  <2>7. QED
    BY <2>5, <2>6 DEF RowsMove
<1>7. ASSUME NEW g \in Gateways, MarkCommandPublished(g)
      PROVE  RowsMove
  <2>1. PICK w \in work[g] : UpdateIfOwner(g, w.cmd, "publishing", Published(row[w.cmd]))
    BY <1>7 DEF MarkCommandPublished
  <2>2. w.cmd \in Commands
    BY DEF Claim
  <2>3. QED
    BY <2>1, <2>2, PublishedRow, OwnedRowMoves DEF Moves, Settled, Free, Owns
<1>8. ASSUME NEW g \in Gateways, ScheduleCommandRetry(g)
      PROVE  RowsMove
  <2>1. PICK w \in work[g] :
          /\ UpdateIfOwner(g, w.cmd, "publishing", Retrying(row[w.cmd]))
          /\ phase[g] = "publish" /\ BudgetLeft(w)
          /\ Owns(g, w.cmd, "publishing") => retries' = retries \cup {<<w.cmd, w.attempts>>}
    BY <1>8 DEF ScheduleCommandRetry
  <2>2. w.cmd \in Commands
    BY DEF Claim
  <2>3. Retrying(row[w.cmd]) \in Row /\ Free(w.cmd, Retrying(row[w.cmd]))
        /\ Retrying(row[w.cmd]).status = "retrying"
    BY <2>2, RetryingRow DEF Free
  <2>4. ASSUME Owns(g, w.cmd, "publishing") PROVE Rescheduled(w.cmd, Retrying(row[w.cmd]))
    <3>1. row[w.cmd].status = "publishing"
      BY <2>4 DEF Owns
    <3>2. QED
      BY <2>1, <2>3, <2>4, <3>1 DEF Rescheduled
  <2>5. QED
    BY <2>1, <2>2, <2>3, <2>4, OwnedRowMoves DEF Moves
<1>9. ASSUME NEW g \in Gateways, MarkCommandPublishExhausted(g)
      PROVE  RowsMove
  <2>1. PICK w \in work[g] :
          /\ UpdateIfOwner(g, w.cmd, "publishing", Exhausted(row[w.cmd]))
          /\ phase[g] = "publish" /\ ~ BudgetLeft(w)
    BY <1>9 DEF MarkCommandPublishExhausted
  <2>2. w.cmd \in Commands
    BY DEF Claim
  <2>3. Exhausted(row[w.cmd]) \in Row /\ Free(w.cmd, Exhausted(row[w.cmd]))
        /\ Exhausted(row[w.cmd]).status = "finalizing"
    BY <2>2, ExhaustedRow DEF Free
  <2>4. ASSUME Owns(g, w.cmd, "publishing") PROVE GivenUp(w.cmd, Exhausted(row[w.cmd]))
    <3>1. row[w.cmd].status = "publishing"
      BY <2>4 DEF Owns
    <3>2. QED
      BY <2>1, <2>3, <2>4, <3>1 DEF GivenUp
  <2>5. QED
    BY <2>1, <2>2, <2>3, <2>4, OwnedRowMoves DEF Moves
<1>10. ASSUME NEW g \in Gateways, MarkCommandTimeoutNotified(g)
      PROVE  RowsMove
  <2>1. PICK w \in work[g] : UpdateIfOwner(g, w.cmd, "published", Notified(row[w.cmd]))
    BY <1>10 DEF MarkCommandTimeoutNotified
  <2>2. w.cmd \in Commands
    BY DEF Claim
  <2>3. QED
    BY <2>1, <2>2, NotifiedRow, OwnedRowMoves DEF Moves, Settled, Free, Owns
<1>11. ASSUME NEW g \in Gateways, DelayCommandFailureResult(g)
      PROVE  RowsMove
  <2>1. PICK w \in work[g] : UpdateIfOwner(g, w.cmd, "finalizing", Delayed(row[w.cmd]))
    BY <1>11 DEF DelayCommandFailureResult
  <2>2. w.cmd \in Commands
    BY DEF Claim
  <2>3. QED
    BY <2>1, <2>2, DelayedRow, OwnedRowMoves DEF Moves, Settled, Free, Owns
<1>12. ASSUME NEW d \in Devices, ConsumeResult(d) \/ ConsumeResultUncommitted(d)
      PROVE  RowsMove
  <2>. DEFINE result == Head(log[d])
  <2>1. log[d] # <<>> /\ applyCommandResult(result)
    BY <1>12 DEF ConsumeResult, ConsumeResultUncommitted
  <2>2. result \in Result
    BY <2>1
  <2>3. result.cmd \in Commands
    BY <2>2 DEF Result
  <2>. HIDE DEF result
  <2>4. CASE Terminal(result.cmd)
    BY <2>1, <2>4, NoRowMoves DEF applyCommandResult, dbVars
  <2>5. CASE ~ Terminal(result.cmd)
    <3>. DEFINE q == Completed(row[result.cmd], result)
    <3>1. q \in Row /\ q.status \in {"succeeded", "failed"} /\ q.attempts >= row[result.cmd].attempts
          /\ q.owner = row[result.cmd].owner /\ q.lease = row[result.cmd].lease
      <4>1. PICK r \in Row : r = row[result.cmd]
        BY <2>3
      <4>2. Completed(r, result).status \in {"succeeded", "failed"}
        BY <2>2, CompletedRow, Zenon
      <4> QED BY <2>2, <4>1, <4>2, CompletedRow, Zenon
    <3>2. row' = [row EXCEPT ![result.cmd] = q]
      BY <2>1, <2>5 DEF applyCommandResult
    <3>3. Decided(result.cmd, q)
      BY <2>1, <2>3, <2>5, <3>1 DEF Decided, result
    <3>. HIDE DEF q
    <3>4. QED
      BY <2>3, <3>1, <3>2, <3>3, OneRowMoves DEF Moves
  <2>6. QED
    BY <2>4, <2>5
<1>13. CASE UNCHANGED row
  BY <1>13, NoRowMoves
<1>14. QED
  BY <1>1, <1>2, <1>3, <1>4, <1>5, <1>6, <1>7, <1>8, <1>9, <1>10, <1>11, <1>12, <1>13
  DEF Next, ClockStep, GatewayStep, GatewayFault, PublishCommand, PublishSyntheticResult,
     ClaimQueryFails, PublishSyntheticResultFails, StoreUpdateFails, CrashGateway,
     DeviceStep, handle_command, LoseCommand, AckStep, LoseAck, handleCommandResult,
     handleCommandResultUnacked, RestartDevice, WorkerStep, DeadLetterResult, vars, dbVars

-----------------------------------------------------------------------------
(* How the claims in a gateway's memory may move in one step.               *)

\* Handled in order: some settled, one a step further, none new.
Worked(g) ==
  /\ phase'[g] = phase[g]
  /\ \A w \in work'[g] : \E v \in work[g] : w.cmd = v.cmd /\ w.attempts = v.attempts

\* Fresh from a query: the row is leased in the state the claims are for.
Claimed(g) ==
  /\ work[g] = {}
  /\ \A w \in work'[g] : /\ w.attempts = row'[w.cmd].attempts
                         /\ row'[w.cmd].status = ClaimedFor[phase'[g]]

ClaimsMove ==
  /\ work' \in [Gateways -> SUBSET Claim]
  /\ phase' \in [Gateways -> {"publish", "notify", "finalize"}]
  /\ \A g \in Gateways : Worked(g) \/ Claimed(g) \/ work'[g] = {}

LEMMA SteppedClaims ==
  ASSUME work \in [Gateways -> SUBSET Claim],
         phase \in [Gateways -> {"publish", "notify", "finalize"}],
         NEW g \in Gateways, NEW w \in work[g],
         NEW step \in {"sent", "failed"}, Stepped(g, w, step), UNCHANGED phase
  PROVE  ClaimsMove
<1>. DEFINE v == [w EXCEPT !.step = step]
<1>1. v \in Claim /\ v.cmd = w.cmd /\ v.attempts = w.attempts
  BY DEF Claim
<1>2. work' = [work EXCEPT ![g] = (work[g] \ {w}) \cup {v}]
  BY DEF Stepped
<1>. HIDE DEF v
<1>3. work' \in [Gateways -> SUBSET Claim]
  BY <1>1, <1>2
<1>4. ASSUME NEW h \in Gateways PROVE Worked(h)
  BY <1>1, <1>2 DEF Worked
<1>5. QED
  BY <1>3, <1>4 DEF ClaimsMove

LEMMA DoneClaims ==
  ASSUME work \in [Gateways -> SUBSET Claim],
         phase \in [Gateways -> {"publish", "notify", "finalize"}],
         NEW g \in Gateways, NEW w \in work[g], Done(g, w), UNCHANGED phase
  PROVE  ClaimsMove
  BY DEF Done, ClaimsMove, Worked

LEMMA NoClaimsMove ==
  ASSUME work \in [Gateways -> SUBSET Claim],
         phase \in [Gateways -> {"publish", "notify", "finalize"}],
         UNCHANGED gwVars
  PROVE  ClaimsMove
  BY DEF ClaimsMove, Worked, gwVars

(* A query's claims carry the attempts of the rows they lease. *)
LEMMA QueriedClaims ==
  ASSUME work \in [Gateways -> SUBSET Claim],
         phase \in [Gateways -> {"publish", "notify", "finalize"}],
         row \in [Commands -> Row], row' \in [Commands -> Row],
         NEW g \in Gateways, work[g] = {}, NEW S \in SUBSET Commands,
         NEW to \in {"publish", "notify", "finalize"},
         phase' = [phase EXCEPT ![g] = to],
         work' = [work EXCEPT ![g] = Returning(S, row')],
         \A c \in S : row'[c].status = ClaimedFor[to]
  PROVE  ClaimsMove
<1>1. Returning(S, row') \subseteq Claim
  BY DEF Claim, Row, Returning
<1>2. work' \in [Gateways -> SUBSET Claim]
  BY <1>1
<1>3. phase' \in [Gateways -> {"publish", "notify", "finalize"}] /\ phase'[g] = to
  OBVIOUS
<1>4. ASSUME NEW w \in work'[g]
      PROVE  w.attempts = row'[w.cmd].attempts /\ row'[w.cmd].status = ClaimedFor[to]
  <2>1. work'[g] = Returning(S, row')
    OBVIOUS
  <2>2. PICK c \in S : w = [cmd |-> c, attempts |-> row'[c].attempts, step |-> "claimed"]
    BY <2>1, <1>4 DEF Returning
  <2>3. w.cmd = c /\ w.attempts = row'[c].attempts
    BY <2>2
  <2>4. QED
    BY <2>3
<1>5. Claimed(g)
  BY <1>3, <1>4 DEF Claimed
<1>6. ASSUME NEW h \in Gateways, h # g PROVE Worked(h)
  BY <1>6 DEF Worked
<1>7. QED
  BY <1>2, <1>3, <1>5, <1>6 DEF ClaimsMove

(* Every step of the system moves the claims in one of those ways. *)
LEMMA ClaimsStep ==
  ASSUME row \in [Commands -> Row], log \in [Devices -> Seq(Result)],
         work \in [Gateways -> SUBSET Claim],
         phase \in [Gateways -> {"publish", "notify", "finalize"}], [Next]_vars
  PROVE  ClaimsMove
<1>. USE ConstantsAssumption DEF ConstantsAssumption
<1>0. row' \in [Commands -> Row]
  BY RowStep DEF RowsMove
<1>1. ASSUME NEW g \in Gateways, ClaimTimedOutCommands(g)
      PROVE  ClaimsMove
  <2>1. PICK S : /\ S \in SUBSET TimedOut
                 /\ row' = [c \in Commands |-> IF c \in S THEN LeaseTo(g, row[c]) ELSE row[c]]
                 /\ work' = [work EXCEPT ![g] = Returning(S, row')]
                 /\ work[g] = {} /\ phase' = [phase EXCEPT ![g] = "notify"]
    BY <1>1 DEF ClaimTimedOutCommands, ClaimForResult
  <2>2. S \in SUBSET Commands /\ \A c \in S : row[c].status = "published"
    BY <2>1 DEF TimedOut
  <2>3. ASSUME NEW c \in S PROVE row'[c].status = "published"
    <3>1. row'[c] = LeaseTo(g, row[c]) /\ row[c] \in Row /\ row[c].status = "published"
      BY <2>1, <2>2
    <3>2. QED
      BY <3>1, LeaseToRow
  <2>4. QED
    BY <1>0, <2>1, <2>2, <2>3, QueriedClaims DEF ClaimedFor
<1>2. ASSUME NEW g \in Gateways, ClaimCommandsAwaitingFailureResult(g)
      PROVE  ClaimsMove
  <2>1. PICK S : /\ S \in SUBSET AwaitingFailureResult
                 /\ row' = [c \in Commands |-> IF c \in S THEN LeaseTo(g, row[c]) ELSE row[c]]
                 /\ work' = [work EXCEPT ![g] = Returning(S, row')]
                 /\ work[g] = {} /\ phase' = [phase EXCEPT ![g] = "finalize"]
    BY <1>2 DEF ClaimCommandsAwaitingFailureResult, ClaimForResult
  <2>2. S \in SUBSET Commands /\ \A c \in S : row[c].status = "finalizing"
    BY <2>1 DEF AwaitingFailureResult
  <2>3. ASSUME NEW c \in S PROVE row'[c].status = "finalizing"
    <3>1. row'[c] = LeaseTo(g, row[c]) /\ row[c] \in Row /\ row[c].status = "finalizing"
      BY <2>1, <2>2
    <3>2. QED
      BY <3>1, LeaseToRow
  <2>4. QED
    BY <1>0, <2>1, <2>2, <2>3, QueriedClaims DEF ClaimedFor
<1>3. ASSUME NEW g \in Gateways, ClaimDispatchableCommands(g)
      PROVE  ClaimsMove
  <2>1. PICK S : /\ S \in SUBSET Dispatchable
                 /\ row' = [c \in Commands |-> IF c \in S THEN ClaimForPublish(g, row[c]) ELSE row[c]]
                 /\ work' = [work EXCEPT ![g] = Returning(S, row')]
                 /\ work[g] = {} /\ phase' = [phase EXCEPT ![g] = "publish"]
    BY <1>3 DEF ClaimDispatchableCommands
  <2>2. S \in SUBSET Commands
    BY <2>1 DEF Dispatchable
  <2>3. \A c \in S : row'[c].status = "publishing"
    BY <2>1, <2>2, ClaimForPublishRow
  <2>4. QED
    BY <1>0, <2>1, <2>2, <2>3, QueriedClaims DEF ClaimedFor
<1>4. ASSUME NEW g \in Gateways, PublishCommand(g) \/ PublishSyntheticResult(g)
      PROVE  ClaimsMove
  <2>1. PICK w \in work[g] : Stepped(g, w, "sent") \/ Stepped(g, w, "failed")
    BY <1>4 DEF PublishCommand, PublishSyntheticResult
  <2>2. UNCHANGED phase
    BY <1>4 DEF PublishCommand, PublishSyntheticResult
  <2>3. QED
    BY <2>1, <2>2, SteppedClaims
<1>5. ASSUME NEW g \in Gateways,
             \/ MarkCommandPublished(g) \/ ScheduleCommandRetry(g)
             \/ MarkCommandPublishExhausted(g) \/ MarkCommandTimeoutNotified(g)
             \/ DelayCommandFailureResult(g)
             \/ PublishSyntheticResultFails(g) \/ StoreUpdateFails(g)
      PROVE  ClaimsMove
  <2>1. PICK w \in work[g] : Done(g, w)
    BY <1>5 DEF MarkCommandPublished, ScheduleCommandRetry, MarkCommandPublishExhausted,
       MarkCommandTimeoutNotified, DelayCommandFailureResult, PublishSyntheticResultFails,
       StoreUpdateFails
  <2>2. UNCHANGED phase
    BY <1>5 DEF MarkCommandPublished, ScheduleCommandRetry, MarkCommandPublishExhausted,
       MarkCommandTimeoutNotified, DelayCommandFailureResult, PublishSyntheticResultFails,
       StoreUpdateFails
  <2>3. QED
    BY <2>1, <2>2, DoneClaims
<1>6. ASSUME NEW g \in Gateways, ClaimQueryFails(g)
      PROVE  ClaimsMove
  <2>1. /\ work' = work /\ work[g] = {}
        /\ phase' = [phase EXCEPT ![g] = Following[phase[g]]]
    BY <1>6 DEF ClaimQueryFails
  <2>2. Following[phase[g]] \in {"publish", "notify", "finalize"}
    BY DEF Following
  <2>3. QED
    BY <2>1, <2>2 DEF ClaimsMove, Worked
<1>7. ASSUME NEW g \in Gateways, CrashGateway(g)
      PROVE  ClaimsMove
  BY <1>7 DEF CrashGateway, ClaimsMove, Worked
<1>8. CASE UNCHANGED gwVars
  BY <1>8, NoClaimsMove
<1>9. QED
  BY <1>1, <1>2, <1>3, <1>4, <1>5, <1>6, <1>7, <1>8
  DEF Next, CreateDeviceCommand, ClockStep, ExpireAbandonedLease, ExpireLeaseOfSlowGateway,
     NextAttemptFallsDue, AckBecomesOverdue, GatewayStep, GatewayFault, DeviceStep,
     handle_command, LoseCommand, AckStep, LoseAck, handleCommandResult,
     handleCommandResultUnacked, RestartDevice, WorkerStep, ConsumeResult,
     ConsumeResultUncommitted, DeadLetterResult, vars

-----------------------------------------------------------------------------
(* Which steps can change the other variables.                              *)
LEMMA Frames ==
  ASSUME [Next]_vars
  PROVE  /\ UNCHANGED retries \/ \E g \in Gateways : ScheduleCommandRetry(g)
         /\ \/ UNCHANGED <<final, deviceState>>
            \/ \E d \in Devices : log[d] # <<>> /\ applyCommandResult(Head(log[d]))
         /\ \/ UNCHANGED <<enroute, cache, physical, runs>>
            \/ \E g \in Gateways : PublishCommand(g)
            \/ \E c \in Commands : handle_command(c) \/ LoseCommand(c)
            \/ \E d \in Devices : RestartDevice(d)
         /\ \/ UNCHANGED acks
            \/ \E c \in Commands : handle_command(c)
            \/ \E a \in acks : acks' = acks \ {a}
         /\ \/ UNCHANGED log
            \/ \E d \in Devices : log[d] # <<>> /\ log' = [log EXCEPT ![d] = Tail(@)]
            \/ \E g \in Gateways : /\ phase[g] \in {"notify", "finalize"}
                                   /\ \E w \in work[g] : Produce(SyntheticFailure(g, w))
            \/ \E a \in acks : Produce(AckResult(a))
         /\ UNCHANGED faults \/ Fault
<1>1. CASE Next
  <2>1. ASSUME NEW c \in Commands,
               CreateDeviceCommand(c) \/ ClockStep(c) \/ ExpireLeaseOfSlowGateway(c)
        PROVE  UNCHANGED <<retries, final, deviceState, deviceVars, log>> /\ (UNCHANGED faults \/ Fault)
    BY <2>1 DEF CreateDeviceCommand, ClockStep, ExpireAbandonedLease, ExpireLeaseOfSlowGateway,
       NextAttemptFallsDue, AckBecomesOverdue
  <2>2. ASSUME NEW c \in Commands, DeviceStep(c)
        PROVE  /\ UNCHANGED <<retries, final, deviceState, log, faults>>
               /\ handle_command(c) \/ (LoseCommand(c) /\ UNCHANGED acks)
    <3>1. CASE handle_command(c)
      <4>1. UNCHANGED <<retries, final, deviceState, log, faults>>
        BY <3>1 DEF handle_command, dbVars
      <4>2. QED
        BY <3>1, <4>1
    <3>2. CASE LoseCommand(c)
      <4>1. UNCHANGED <<retries, final, deviceState, log, faults, acks>>
        BY <3>2 DEF LoseCommand, dbVars
      <4>2. QED
        BY <3>2, <4>1
    <3>3. QED
      BY <2>2, <3>1, <3>2 DEF DeviceStep
  <2>3. ASSUME NEW g \in Gateways, GatewayStep(g)
        PROVE  /\ UNCHANGED <<final, deviceState, cache, physical, runs, acks, faults>>
               /\ UNCHANGED retries \/ ScheduleCommandRetry(g)
               /\ UNCHANGED enroute \/ PublishCommand(g)
               /\ UNCHANGED log \/ /\ phase[g] \in {"notify", "finalize"}
                                   /\ \E w \in work[g] : Produce(SyntheticFailure(g, w))
    <3>1. CASE ClaimTimedOutCommands(g) \/ ClaimCommandsAwaitingFailureResult(g)
      BY <3>1 DEF ClaimTimedOutCommands, ClaimCommandsAwaitingFailureResult, ClaimForResult, deviceVars
    <3>2. CASE ClaimDispatchableCommands(g)
      BY <3>2 DEF ClaimDispatchableCommands, deviceVars
    <3>3. CASE PublishCommand(g)
      BY <3>3 DEF PublishCommand, dbVars
    <3>4. CASE MarkCommandPublished(g)
      BY <3>4 DEF MarkCommandPublished, deviceVars
    <3>5. CASE ScheduleCommandRetry(g)
      BY <3>5 DEF ScheduleCommandRetry, deviceVars
    <3>6. CASE MarkCommandPublishExhausted(g)
      BY <3>6 DEF MarkCommandPublishExhausted, deviceVars
    <3>7. CASE PublishSyntheticResult(g)
      BY <3>7 DEF PublishSyntheticResult, dbVars, deviceVars
    <3>8. CASE MarkCommandTimeoutNotified(g)
      BY <3>8 DEF MarkCommandTimeoutNotified, deviceVars
    <3>9. CASE DelayCommandFailureResult(g)
      BY <3>9 DEF DelayCommandFailureResult, deviceVars
    <3>10. QED
      BY <2>3, <3>1, <3>2, <3>3, <3>4, <3>5, <3>6, <3>7, <3>8, <3>9 DEF GatewayStep
  <2>4. ASSUME NEW g \in Gateways, GatewayFault(g)
        PROVE  /\ UNCHANGED <<retries, final, deviceState, deviceVars>> /\ Fault
               /\ UNCHANGED log \/ /\ phase[g] \in {"notify", "finalize"}
                                   /\ \E w \in work[g] : Produce(SyntheticFailure(g, w))
    BY <2>4 DEF GatewayFault, ClaimQueryFails, PublishSyntheticResultFails, StoreUpdateFails,
       CrashGateway, dbVars, deviceVars
  <2>5. ASSUME NEW a \in acks, AckStep(a)
        PROVE  /\ UNCHANGED <<retries, final, deviceState, enroute, cache, physical, runs>>
               /\ UNCHANGED faults \/ Fault
               /\ UNCHANGED acks \/ acks' = acks \ {a}
               /\ UNCHANGED log \/ Produce(AckResult(a))
    BY <2>5 DEF AckStep, LoseAck, handleCommandResult, handleCommandResultUnacked, dbVars, deviceVars
  <2>6. ASSUME NEW d \in Devices, RestartDevice(d)
        PROVE  UNCHANGED <<retries, final, deviceState, acks, log>> /\ Fault
    BY <2>6 DEF RestartDevice, dbVars
  <2>7. ASSUME NEW d \in Devices, WorkerStep(d)
        PROVE  /\ UNCHANGED retries /\ UNCHANGED deviceVars
               /\ UNCHANGED faults \/ Fault
               /\ UNCHANGED <<final, deviceState>> \/ (log[d] # <<>> /\ applyCommandResult(Head(log[d])))
               /\ UNCHANGED log \/ (log[d] # <<>> /\ log' = [log EXCEPT ![d] = Tail(@)])
    <3>1. CASE ConsumeResult(d) \/ ConsumeResultUncommitted(d)
      <4>1. /\ UNCHANGED deviceVars /\ (UNCHANGED faults \/ Fault)
            /\ log[d] # <<>> /\ applyCommandResult(Head(log[d]))
            /\ UNCHANGED log \/ log' = [log EXCEPT ![d] = Tail(@)]
        BY <3>1 DEF ConsumeResult, ConsumeResultUncommitted
      <4>2. UNCHANGED retries
        BY <4>1 DEF applyCommandResult, dbVars
      <4>3. QED
        BY <4>1, <4>2
    <3>2. CASE DeadLetterResult(d)
      BY <3>2 DEF DeadLetterResult, dbVars
    <3>3. QED
      BY <2>7, <3>1, <3>2 DEF WorkerStep
  <2>8. QED
    BY <1>1, <2>1, <2>2, <2>3, <2>4, <2>5, <2>6, <2>7 DEF Next, deviceVars
<1>2. CASE UNCHANGED vars
  BY <1>2 DEF vars, dbVars, deviceVars
<1>3. QED
  BY <1>1, <1>2

(* The device's answers, the device's records and the records made by the    *)
(* gateways are well formed.                                                *)
LEMMA RecordTypes ==
  /\ \A a \in Ack : AckResult(a) \in Result /\ AckResult(a).cmd = a.cmd
                    /\ AckResult(a).outcome = a.outcome /\ AckResult(a).attempts = 0
  /\ \A g : \A w \in Claim :
       /\ SyntheticFailure(g, w) \in Result
       /\ SyntheticFailure(g, w).cmd = w.cmd
       /\ SyntheticFailure(g, w).attempts = w.attempts
       /\ SyntheticFailure(g, w).outcome =
            IF phase[g] = "notify" THEN "device.ack.timeout" ELSE "mqtt.publish.exhausted"
<1>1. ASSUME NEW a \in Ack
      PROVE  /\ AckResult(a) \in Result /\ AckResult(a).cmd = a.cmd
             /\ AckResult(a).outcome = a.outcome /\ AckResult(a).attempts = 0
  BY DEF Ack, AckResult, Result, Outcomes, Failures
<1>2. ASSUME NEW g, NEW w \in Claim
      PROVE  /\ SyntheticFailure(g, w) \in Result
             /\ SyntheticFailure(g, w).cmd = w.cmd
             /\ SyntheticFailure(g, w).attempts = w.attempts
             /\ SyntheticFailure(g, w).outcome =
                  IF phase[g] = "notify" THEN "device.ack.timeout" ELSE "mqtt.publish.exhausted"
  BY DEF Claim, SyntheticFailure, Result, Outcomes, Failures
<1>3. QED
  BY <1>1, <1>2

(* What the log of a partition holds after a record is appended or consumed. *)
LEMMA LogStep ==
  ASSUME log \in [Devices -> Seq(Result)], work \in [Gateways -> SUBSET Claim],
         acks \subseteq Ack, [Next]_vars
  PROVE  /\ log' \in [Devices -> Seq(Result)]
         /\ \A d \in Devices : \A i \in 1 .. Len(log'[d]) :
              \/ \E j \in 1 .. Len(log[d]) : log'[d][i] = log[d][j]
              \/ \E g \in Gateways : /\ phase[g] \in {"notify", "finalize"}
                                     /\ \E w \in work[g] : log'[d][i] = SyntheticFailure(g, w)
              \/ \E a \in acks : log'[d][i] = AckResult(a)
<1>. USE ConstantsAssumption DEF ConstantsAssumption
<1>1. ASSUME NEW r \in Result, Produce(r)
      PROVE  /\ log' \in [Devices -> Seq(Result)]
             /\ \A d \in Devices : \A i \in 1 .. Len(log'[d]) :
                  (\E j \in 1 .. Len(log[d]) : log'[d][i] = log[d][j]) \/ log'[d][i] = r
  <2>1. PICK e \in Devices : e = DeviceOf[r.cmd] /\ log' = [log EXCEPT ![e] = Append(@, r)]
    BY <1>1 DEF Produce, Result
  <2>2. log[e] \in Seq(Result) /\ log'[e] = Append(log[e], r) /\ Append(log[e], r) \in Seq(Result)
    BY <2>1
  <2>3. \A d \in Devices : d # e => log'[d] = log[d]
    BY <2>1
  <2>4. \A i \in 1 .. Len(log'[e]) :
          (\E j \in 1 .. Len(log[e]) : log'[e][i] = log[e][j]) \/ log'[e][i] = r
    BY <2>2
  <2>5. log' \in [Devices -> Seq(Result)]
    BY <2>1, <2>2
  <2>6. QED
    BY <2>3, <2>4, <2>5
<1>2. ASSUME NEW e \in Devices, log[e] # <<>>, log' = [log EXCEPT ![e] = Tail(@)]
      PROVE  /\ log' \in [Devices -> Seq(Result)]
             /\ \A d \in Devices : \A i \in 1 .. Len(log'[d]) :
                  \E j \in 1 .. Len(log[d]) : log'[d][i] = log[d][j]
  <2>1. log[e] \in Seq(Result) /\ log'[e] = Tail(log[e]) /\ Tail(log[e]) \in Seq(Result)
    BY <1>2
  <2>2. ASSUME NEW i \in 1 .. Len(log'[e])
        PROVE  i + 1 \in 1 .. Len(log[e]) /\ log'[e][i] = log[e][i + 1]
    BY <1>2, <2>1
  <2>3. \A d \in Devices : d # e => log'[d] = log[d]
    BY <1>2
  <2>4. log' \in [Devices -> Seq(Result)]
    BY <1>2, <2>1
  <2>5. QED
    BY <2>2, <2>3, <2>4
<1>3. CASE UNCHANGED log
  BY <1>3
<1>4. ASSUME NEW g \in Gateways, phase[g] \in {"notify", "finalize"},
             NEW w \in work[g], Produce(SyntheticFailure(g, w))
      PROVE  /\ log' \in [Devices -> Seq(Result)]
             /\ \A d \in Devices : \A i \in 1 .. Len(log'[d]) :
                  \/ \E j \in 1 .. Len(log[d]) : log'[d][i] = log[d][j]
                  \/ log'[d][i] = SyntheticFailure(g, w)
  <2>1. SyntheticFailure(g, w) \in Result
    BY RecordTypes
  <2>2. QED
    BY <2>1, <1>1, <1>4
<1>5. ASSUME NEW a \in acks, Produce(AckResult(a))
      PROVE  /\ log' \in [Devices -> Seq(Result)]
             /\ \A d \in Devices : \A i \in 1 .. Len(log'[d]) :
                  \/ \E j \in 1 .. Len(log[d]) : log'[d][i] = log[d][j]
                  \/ log'[d][i] = AckResult(a)
  <2>1. AckResult(a) \in Result
    BY RecordTypes
  <2>2. QED
    BY <2>1, <1>1, <1>5
<1>6. \/ UNCHANGED log
      \/ \E d \in Devices : log[d] # <<>> /\ log' = [log EXCEPT ![d] = Tail(@)]
      \/ \E g \in Gateways : /\ phase[g] \in {"notify", "finalize"}
                             /\ \E w \in work[g] : Produce(SyntheticFailure(g, w))
      \/ \E a \in acks : Produce(AckResult(a))
  BY Frames
<1>7. CASE \E d \in Devices : log[d] # <<>> /\ log' = [log EXCEPT ![d] = Tail(@)]
  BY <1>2, <1>7
<1>8. CASE \E g \in Gateways : /\ phase[g] \in {"notify", "finalize"}
                              /\ \E w \in work[g] : Produce(SyntheticFailure(g, w))
  BY <1>4, <1>8
<1>9. CASE \E a \in acks : Produce(AckResult(a))
  BY <1>5, <1>9
<1>10. QED
  BY <1>3, <1>6, <1>7, <1>8, <1>9

-----------------------------------------------------------------------------
(* Type correctness: a row stays a row, a claim a claim, a record a record,  *)
(* whatever the order of gateways, clocks, device and worker.               *)
LEMMA TypeInit ==
  ASSUME Init PROVE TypeOK
<1>1. row \in [Commands -> Row]
  <2>1. NoRow \in Row
    BY DEF NoRow, Row, Statuses
  <2>2. QED
    BY <2>1 DEF Init
<1>2. log \in [Devices -> Seq(Result)]
  BY DEF Init
<1>3. faults \in 0 .. MaxFaults
  BY ConstantsAssumption DEF Init, ConstantsAssumption
<1>4. /\ final \in [Commands -> Outcomes \cup {"none"}]
      /\ phase \in [Gateways -> {"publish", "notify", "finalize"}]
      /\ work \in [Gateways -> SUBSET Claim]
  BY DEF Init
<1>5. QED
  BY <1>1, <1>2, <1>3, <1>4 DEF Init, TypeOK

LEMMA TypeStep ==
  ASSUME TypeOK, [Next]_vars PROVE TypeOK'
<1>. USE ConstantsAssumption DEF ConstantsAssumption
<1>1. /\ row \in [Commands -> Row]
      /\ work \in [Gateways -> SUBSET Claim]
      /\ phase \in [Gateways -> {"publish", "notify", "finalize"}]
      /\ log \in [Devices -> Seq(Result)]
      /\ acks \subseteq Ack
  BY DEF TypeOK
<1>2. /\ row' \in [Commands -> Row]
      /\ work' \in [Gateways -> SUBSET Claim]
      /\ phase' \in [Gateways -> {"publish", "notify", "finalize"}]
      /\ log' \in [Devices -> Seq(Result)]
  BY <1>1, RowStep, ClaimsStep, LogStep DEF RowsMove, ClaimsMove
<1>3. retries' \subseteq Commands \X Nat
  <2>0. retries \subseteq Commands \X Nat
    BY DEF TypeOK
  <2>1. CASE UNCHANGED retries
    BY <2>0, <2>1
  <2>2. ASSUME NEW g \in Gateways, ScheduleCommandRetry(g)
        PROVE  retries' \subseteq Commands \X Nat
    <3>1. PICK w \in work[g] : retries' = retries \/ retries' = retries \cup {<<w.cmd, w.attempts>>}
      BY <2>2 DEF ScheduleCommandRetry
    <3>2. w.cmd \in Commands /\ w.attempts \in Nat
      BY <1>1 DEF Claim
    <3>3. QED
      BY <2>0, <3>1, <3>2
  <2>3. QED
    BY <2>1, <2>2, Frames
<1>4. final' \in [Commands -> Outcomes \cup {"none"}] /\ deviceState' \in [Devices -> Commands \cup {NoCommand}]
  <2>0. final \in [Commands -> Outcomes \cup {"none"}] /\ deviceState \in [Devices -> Commands \cup {NoCommand}]
    BY DEF TypeOK
  <2>1. CASE UNCHANGED <<final, deviceState>>
    BY <2>0, <2>1
  <2>2. ASSUME NEW d \in Devices, log[d] # <<>>, applyCommandResult(Head(log[d]))
        PROVE  final' \in [Commands -> Outcomes \cup {"none"}] /\ deviceState' \in [Devices -> Commands \cup {NoCommand}]
    <3>1. PICK result \in Result : applyCommandResult(result)
      BY <1>1, <2>2
    <3>2. result.cmd \in Commands /\ result.outcome \in Outcomes
      BY DEF Result
    <3>3. QED
      BY <2>0, <3>1, <3>2 DEF applyCommandResult, dbVars
  <2>3. QED
    BY <2>1, <2>2, Frames
<1>5. faults' \in 0 .. MaxFaults
  <2>1. faults \in 0 .. MaxFaults
    BY DEF TypeOK
  <2>2. QED
    BY <2>1, Frames DEF Fault
<1>6. acks' \subseteq Ack
  <2>1. CASE UNCHANGED acks
    BY <1>1, <2>1
  <2>2. ASSUME NEW c \in Commands, handle_command(c)
        PROVE  acks' \subseteq Ack
    <3>0. cache[c] \in {"none", "success", "device.command.rejected"}
      BY DEF TypeOK
    <3>1. PICK outcome \in {"success", "device.command.rejected"} : Answer(c, outcome)
      BY <2>2, <3>0 DEF handle_command
    <3>2. [cmd |-> c, outcome |-> outcome] \in Ack
      BY DEF Ack
    <3>3. QED
      BY <1>1, <3>1, <3>2 DEF Answer
  <2>3. ASSUME NEW a \in acks, acks' = acks \ {a}
        PROVE  acks' \subseteq Ack
    BY <1>1, <2>3
  <2>4. QED
    BY <2>1, <2>2, <2>3, Frames
<1>7. /\ enroute' \subseteq Commands
      /\ cache' \in [Commands -> {"none", "success", "device.command.rejected"}]
      /\ physical' \in [Devices -> Commands \cup {NoCommand}]
      /\ runs' \in [Commands -> Nat]
  <2>0. /\ enroute \subseteq Commands
        /\ cache \in [Commands -> {"none", "success", "device.command.rejected"}]
        /\ physical \in [Devices -> Commands \cup {NoCommand}]
        /\ runs \in [Commands -> Nat]
    BY DEF TypeOK
  <2>1. CASE UNCHANGED <<enroute, cache, physical, runs>>
    BY <2>0, <2>1
  <2>2. ASSUME NEW g \in Gateways, PublishCommand(g)
        PROVE  enroute' \subseteq Commands /\ UNCHANGED <<cache, physical, runs>>
    <3>1. PICK w \in work[g] : enroute' \in {enroute, enroute \cup {w.cmd}}
      BY <2>2 DEF PublishCommand
    <3>2. w.cmd \in Commands
      BY <1>1 DEF Claim
    <3>3. UNCHANGED <<cache, physical, runs>>
      BY <2>2 DEF PublishCommand
    <3>4. QED
      BY <2>0, <3>1, <3>2, <3>3
  <2>3. ASSUME NEW c \in Commands, handle_command(c)
        PROVE  /\ enroute' \subseteq Commands
               /\ cache' \in [Commands -> {"none", "success", "device.command.rejected"}]
               /\ physical' \in [Devices -> Commands \cup {NoCommand}]
               /\ runs' \in [Commands -> Nat]
    <3>1. enroute' \subseteq Commands
      BY <2>0, <2>3 DEF handle_command
    <3>2. cache' \in [Commands -> {"none", "success", "device.command.rejected"}]
      BY <2>0, <2>3 DEF handle_command, Answer
    <3>3. physical' \in [Devices -> Commands \cup {NoCommand}] /\ runs' \in [Commands -> Nat]
      BY <2>0, <2>3 DEF handle_command
    <3>4. QED
      BY <3>1, <3>2, <3>3
  <2>4. ASSUME NEW c \in Commands, LoseCommand(c)
        PROVE  enroute' \subseteq Commands /\ UNCHANGED <<cache, physical, runs>>
    BY <2>0, <2>4 DEF LoseCommand
  <2>5. ASSUME NEW d \in Devices, RestartDevice(d)
        PROVE  /\ UNCHANGED <<enroute, runs>>
               /\ cache' \in [Commands -> {"none", "success", "device.command.rejected"}]
               /\ physical' \in [Devices -> Commands \cup {NoCommand}]
    BY <2>0, <2>5 DEF RestartDevice
  <2>6. QED
    BY <2>0, <2>1, <2>2, <2>3, <2>4, <2>5, Frames
<1>8. QED
  BY <1>2, <1>3, <1>4, <1>5, <1>6, <1>7 DEF TypeOK

(* Every behaviour of the pipeline is type correct. *)
THEOREM TypeCorrect == Spec => []TypeOK
<1>1. Init => TypeOK
  BY TypeInit
<1>2. TypeOK /\ [Next]_vars => TypeOK'
  BY TypeStep
<1>3. QED
  BY <1>1, <1>2, PTL DEF Spec

-----------------------------------------------------------------------------
(* The safety invariants.  TypesNow collects the types the parts below need. *)
TypesNow ==
  /\ row \in [Commands -> Row]
  /\ log \in [Devices -> Seq(Result)]
  /\ work \in [Gateways -> SUBSET Claim]
  /\ phase \in [Gateways -> {"publish", "notify", "finalize"}]
  /\ acks \subseteq Ack

LEMMA StepFacts ==
  ASSUME TypesNow, [Next]_vars
  PROVE  /\ row' \in [Commands -> Row]
         /\ work' \in [Gateways -> SUBSET Claim]
         /\ phase' \in [Gateways -> {"publish", "notify", "finalize"}]
         /\ log' \in [Devices -> Seq(Result)]
         /\ \A c \in Commands : Moves(c, row'[c])
         /\ \A g \in Gateways : Worked(g) \/ Claimed(g) \/ work'[g] = {}
<1>1. row' \in [Commands -> Row] /\ \A c \in Commands : Moves(c, row'[c])
  BY RowStep DEF TypesNow, RowsMove
<1>2. /\ work' \in [Gateways -> SUBSET Claim]
      /\ phase' \in [Gateways -> {"publish", "notify", "finalize"}]
      /\ \A g \in Gateways : Worked(g) \/ Claimed(g) \/ work'[g] = {}
  BY ClaimsStep DEF TypesNow, ClaimsMove
<1>3. log' \in [Devices -> Seq(Result)]
  BY LogStep DEF TypesNow
<1>4. QED
  BY <1>1, <1>2, <1>3

(* No step takes an attempt back. *)
LEMMA AttemptsGrow ==
  ASSUME TypesNow, [Next]_vars, NEW c \in Commands
  PROVE  row[c].attempts \in Nat /\ row'[c].attempts \in Nat /\ row'[c].attempts >= row[c].attempts
<1>1. row[c] \in Row /\ row'[c] \in Row /\ Moves(c, row'[c])
  BY StepFacts DEF TypesNow
<1>2. row[c].attempts \in Nat /\ row'[c].attempts \in Nat
  BY <1>1 DEF Row
<1>3. \/ row'[c].attempts = row[c].attempts
      \/ row'[c].attempts = row[c].attempts + 1
      \/ row'[c].attempts >= row[c].attempts
  BY <1>1 DEF Moves, Kept, Expired, Queued, Leased, Attempted, Free, Settled, Rescheduled, GivenUp, Decided
<1>4. QED
  BY <1>2, <1>3

(* Stale claims are told apart by the owner test alone. *)
LEMMA ClaimsFencedStep ==
  ASSUME TypesNow, ClaimsFenced, [Next]_vars
  PROVE  ClaimsFenced'
<1>. USE ConstantsAssumption DEF ConstantsAssumption
<1>. SUFFICES ASSUME NEW g \in Gateways, NEW w \in work'[g]
     PROVE  /\ w.attempts <= row'[w.cmd].attempts
            /\ (row'[w.cmd].status = ClaimedFor[phase'[g]] /\ row'[w.cmd].owner = g) =>
                 w.attempts = row'[w.cmd].attempts
  BY DEF ClaimsFenced, Owns
<1>1. w \in Claim /\ w.cmd \in Commands /\ w.attempts \in Nat
  <2>1. w \in Claim
    BY StepFacts DEF TypesNow
  <2>2. QED
    BY <2>1 DEF Claim
<1>2. CASE Worked(g)
  <2>1. PICK v \in work[g] : w.cmd = v.cmd /\ w.attempts = v.attempts
    BY <1>2 DEF Worked
  <2>2. /\ w.attempts <= row[w.cmd].attempts
        /\ (row[w.cmd].status = ClaimedFor[phase[g]] /\ row[w.cmd].owner = g) =>
              w.attempts = row[w.cmd].attempts
    BY <2>1 DEF ClaimsFenced, Owns
  <2>3. w.attempts <= row'[w.cmd].attempts
    BY <1>1, <2>2, AttemptsGrow
  <2>4. ClaimedFor[phase'[g]] \in {"publishing", "published", "finalizing"} /\ phase'[g] = phase[g]
    BY <1>2 DEF Worked, TypesNow, ClaimedFor
  <2>5. ASSUME row'[w.cmd].status = ClaimedFor[phase'[g]], row'[w.cmd].owner = g
        PROVE  w.attempts = row'[w.cmd].attempts
    <3>1. Moves(w.cmd, row'[w.cmd])
      BY <1>1, StepFacts
    <3>2. Kept(w.cmd, row'[w.cmd]) \/ Expired(w.cmd, row'[w.cmd])
      BY <2>1, <2>4, <2>5, <3>1
      DEF Moves, Queued, Leased, Attempted, Free, Settled, Rescheduled, GivenUp, Decided
    <3>3. QED
      BY <2>2, <2>4, <2>5, <3>2 DEF Kept, Expired
  <2>6. QED
    BY <2>3, <2>5
<1>3. CASE Claimed(g)
  BY <1>1, <1>3 DEF Claimed
<1>4. QED
  BY <1>2, <1>3, StepFacts

(* Synthetic failures carry the attempts of a claim, device results none. *)
LEMMA LogFencedStep ==
  ASSUME TypesNow, ClaimsFenced, LogFenced, [Next]_vars
  PROVE  LogFenced'
<1>. SUFFICES ASSUME NEW d \in Devices, NEW i \in 1 .. Len(log'[d])
     PROVE  log'[d][i].attempts <= row'[log'[d][i].cmd].attempts
  BY DEF LogFenced
<1>1. CASE \E j \in 1 .. Len(log[d]) : log'[d][i] = log[d][j]
  <2>1. PICK j \in 1 .. Len(log[d]) : log'[d][i] = log[d][j]
    BY <1>1
  <2>2. log[d][j] \in Result
    BY DEF TypesNow
  <2>3. log[d][j].attempts <= row[log[d][j].cmd].attempts
    BY DEF LogFenced
  <2>4. log[d][j].cmd \in Commands /\ log[d][j].attempts \in Nat
    BY <2>2 DEF Result
  <2>5. QED
    BY <2>1, <2>3, <2>4, AttemptsGrow
<1>2. CASE \E g \in Gateways : \E w \in work[g] : log'[d][i] = SyntheticFailure(g, w)
  <2>0. PICK g \in Gateways : \E w \in work[g] : log'[d][i] = SyntheticFailure(g, w)
    BY <1>2
  <2>1. PICK w \in work[g] : log'[d][i] = SyntheticFailure(g, w)
    BY <2>0
  <2>2. w \in Claim /\ w.attempts <= row[w.cmd].attempts
    BY DEF TypesNow, ClaimsFenced
  <2>3. w.cmd \in Commands /\ w.attempts \in Nat
    BY <2>2 DEF Claim
  <2>4. log'[d][i].cmd = w.cmd /\ log'[d][i].attempts = w.attempts
    BY <2>1, <2>2, RecordTypes
  <2>5. QED
    BY <2>2, <2>3, <2>4, AttemptsGrow
<1>3. CASE \E a \in acks : log'[d][i] = AckResult(a)
  <2>1. PICK a \in acks : log'[d][i] = AckResult(a)
    BY <1>3
  <2>2. a \in Ack /\ a.cmd \in Commands
    BY DEF TypesNow, Ack
  <2>3. log'[d][i].cmd = a.cmd /\ log'[d][i].attempts = 0
    BY <2>1, <2>2, RecordTypes
  <2>4. QED
    BY <2>2, <2>3, AttemptsGrow
<1>4. QED
  BY <1>1, <1>2, <1>3, LogStep DEF TypesNow

(* Leases and publish attempts belong to a gateway. *)
LEMMA LeasesOwnedStep ==
  ASSUME TypesNow, LeasesOwned, [Next]_vars
  PROVE  LeasesOwned'
<1>. SUFFICES ASSUME NEW c \in Commands, row'[c].lease = "live" \/ row'[c].status = "publishing"
     PROVE  row'[c].owner \in Gateways
  BY DEF LeasesOwned
<1>1. row[c].lease = "live" \/ row[c].status = "publishing" => row[c].owner \in Gateways
  BY DEF LeasesOwned
<1>2. Moves(c, row'[c])
  BY StepFacts
<1>3. QED
  BY <1>1, <1>2
  DEF Moves, Kept, Expired, Queued, Leased, Attempted, Free, Settled, Rescheduled, GivenUp, Decided

(* A publish attempt leaves the hands of its gateway only with an outcome    *)
(* recorded, or at the price of a fault.                                    *)
LEMMA CustodyStep ==
  ASSUME TypesNow, LeasesOwned, [Next]_vars, NEW c \in Commands,
         InHand(c), row[c].status = "publishing", row'[c].status = "publishing",
         row'[c].owner = row[c].owner, row'[c].lease = "live"
  PROVE  InHand(c)' \/ Fault
<1>. DEFINE g == row[c].owner
<1>1. g \in Gateways /\ row[c].lease = "live" /\ phase[g] = "publish" /\ row'[c].owner = g
  BY DEF InHand, LeasesOwned
<1>2. PICK u \in work[g] : u.cmd = c
  BY DEF InHand, Holds
<1>. HIDE DEF g
<1>. SUFFICES ASSUME ~ Fault
     PROVE  phase'[g] = "publish" /\ \E w \in work'[g] : w.cmd = c
  BY <1>1 DEF InHand, Holds
<1>. DEFINE Kept_g == phase'[g] = "publish" /\ \E w \in work'[g] : w.cmd = c
<1>3. ASSUME NEW h \in Gateways,
             \/ ClaimTimedOutCommands(h) \/ ClaimCommandsAwaitingFailureResult(h)
             \/ ClaimDispatchableCommands(h)
      PROVE  Kept_g
  <2>1. h # g /\ \E S, to : /\ work' = [work EXCEPT ![h] = Returning(S, row')]
                            /\ phase' = [phase EXCEPT ![h] = to]
    BY <1>2, <1>3 DEF ClaimTimedOutCommands, ClaimCommandsAwaitingFailureResult, ClaimForResult,
       ClaimDispatchableCommands
  <2>2. QED
    BY <1>1, <1>2, <2>1 DEF TypesNow
<1>4. ASSUME NEW h \in Gateways, PublishCommand(h) \/ PublishSyntheticResult(h)
      PROVE  Kept_g
  <2>1. PICK w \in work[h], step \in {"sent", "failed"} : Stepped(h, w, step)
    BY <1>4 DEF PublishCommand, PublishSyntheticResult
  <2>2. UNCHANGED phase
    BY <1>4 DEF PublishCommand, PublishSyntheticResult
  <2>. DEFINE v == [w EXCEPT !.step = step]
  <2>3. v.cmd = w.cmd
    BY DEF Claim, TypesNow
  <2>4. work' = [work EXCEPT ![h] = (work[h] \ {w}) \cup {v}]
    BY <2>1 DEF Stepped
  <2>. HIDE DEF v
  <2>5. QED
    BY <1>1, <1>2, <2>2, <2>3, <2>4 DEF TypesNow
<1>5. ASSUME NEW h \in Gateways, NEW w \in work[h], NEW q \in Row,
             UpdateIfOwner(h, w.cmd, "publishing", q), q.owner = NoOwner,
             Done(h, w), UNCHANGED phase
      PROVE  Kept_g
  <2>1. h = g => w.cmd # c
    <3>1. SUFFICES ASSUME h = g, w.cmd = c PROVE FALSE
      OBVIOUS
    <3>2. Owns(h, c, "publishing")
      BY <1>1, <3>1 DEF Owns, g
    <3>3. row'[c] = q
      BY <1>5, <3>1, <3>2 DEF UpdateIfOwner, TypesNow
    <3>4. QED
      BY <1>1, <1>5, <3>3, ConstantsAssumption DEF ConstantsAssumption
  <2>2. QED
    BY <1>1, <1>2, <1>5, <2>1 DEF Done, TypesNow
<1>6. ASSUME NEW h \in Gateways,
             MarkCommandPublished(h) \/ ScheduleCommandRetry(h) \/ MarkCommandPublishExhausted(h)
      PROVE  Kept_g
  <2>1. PICK w \in work[h] :
          /\ \/ UpdateIfOwner(h, w.cmd, "publishing", Published(row[w.cmd]))
             \/ UpdateIfOwner(h, w.cmd, "publishing", Retrying(row[w.cmd]))
             \/ UpdateIfOwner(h, w.cmd, "publishing", Exhausted(row[w.cmd]))
          /\ Done(h, w) /\ UNCHANGED phase
    BY <1>6 DEF MarkCommandPublished, ScheduleCommandRetry, MarkCommandPublishExhausted
  <2>2. row[w.cmd] \in Row
    BY DEF TypesNow, Claim
  <2>3. QED
    BY <1>5, <2>1, <2>2, PublishedRow, RetryingRow, ExhaustedRow
<1>7. ASSUME NEW h \in Gateways, MarkCommandTimeoutNotified(h) \/ DelayCommandFailureResult(h)
      PROVE  Kept_g
  <2>1. h # g /\ UNCHANGED phase /\ \E w \in work[h] : Done(h, w)
    BY <1>1, <1>7 DEF MarkCommandTimeoutNotified, DelayCommandFailureResult
  <2>2. QED
    BY <1>1, <1>2, <2>1 DEF Done, TypesNow
<1>8. CASE UNCHANGED gwVars
  BY <1>1, <1>2, <1>8 DEF gwVars
<1>9. UNCHANGED gwVars \/ \E h \in Gateways : GatewayStep(h) \/ GatewayFault(h)
  BY DEF Next, CreateDeviceCommand, ClockStep, ExpireAbandonedLease, ExpireLeaseOfSlowGateway,
     NextAttemptFallsDue, AckBecomesOverdue, DeviceStep, handle_command, LoseCommand, AckStep,
     LoseAck, handleCommandResult, handleCommandResultUnacked, RestartDevice, WorkerStep,
     ConsumeResult, ConsumeResultUncommitted, DeadLetterResult, vars
<1>10. \A h \in Gateways : ~ GatewayFault(h)
  BY DEF GatewayFault, ClaimQueryFails, PublishSyntheticResultFails, StoreUpdateFails, CrashGateway
<1>11. QED
  BY <1>3, <1>4, <1>6, <1>7, <1>8, <1>9, <1>10 DEF GatewayStep

(* An attempt beyond the maximum takes over a lease that has expired, and    *)
(* the fault behind that expiry has not been used to pay for another one.    *)
LEMMA BudgetKeptStep ==
  ASSUME TypesNow, faults \in Nat, ClaimsFenced, LogFenced, LeasesOwned, BudgetKept, [Next]_vars
  PROVE  BudgetKept'
<1>. USE ConstantsAssumption DEF ConstantsAssumption
<1>1. faults' \in Nat /\ faults' >= faults /\ (Fault => faults' = faults + 1)
  BY Frames DEF Fault
<1>. SUFFICES ASSUME NEW c \in Commands
     PROVE  /\ row'[c].attempts <= MaxAttempts + faults'
            /\ row'[c].status \in {"absent", "pending"} => row'[c].attempts = 0
            /\ row'[c].status = "retrying" => row'[c].attempts < MaxAttempts
            /\ row'[c].status = "publishing" /\ ~ InHand(c)' => row'[c].attempts < MaxAttempts + faults'
  BY DEF BudgetKept
<1>2. /\ row[c].attempts <= MaxAttempts + faults
      /\ row[c].status \in {"absent", "pending"} => row[c].attempts = 0
      /\ row[c].status = "retrying" => row[c].attempts < MaxAttempts
      /\ row[c].status = "publishing" /\ ~ InHand(c) => row[c].attempts < MaxAttempts + faults
  BY DEF BudgetKept
<1>3. row[c].attempts \in Nat
  BY DEF TypesNow, Row
<1>4. CASE Kept(c, row'[c])
  <2>1. CASE row[c].status = "publishing" /\ InHand(c)
    <3>1. InHand(c)' \/ Fault
      <4>1. row[c].lease = "live"
        BY <2>1 DEF InHand
      <4>2. QED
        BY <1>4, <2>1, <4>1, CustodyStep DEF Kept
    <3>2. QED
      BY <1>1, <1>2, <1>3, <1>4, <2>1, <3>1 DEF Kept
  <2>2. CASE ~ (row[c].status = "publishing" /\ InHand(c))
    BY <1>1, <1>2, <1>3, <1>4, <2>2 DEF Kept
  <2>3. QED
    BY <2>1, <2>2
<1>5. CASE Expired(c, row'[c])
  <2>1. InHand(c) => Fault
    BY <1>5 DEF Expired, InHand
  <2>2. QED
    BY <1>1, <1>2, <1>3, <1>5, <2>1 DEF Expired
<1>6. CASE Queued(c, row'[c])
  BY <1>1, <1>2, <1>3, <1>6 DEF Queued
<1>7. CASE Leased(c, row'[c]) \/ Settled(c, row'[c])
  BY <1>1, <1>2, <1>3, <1>7 DEF Leased, Settled, Free
<1>8. CASE Attempted(c, row'[c])
  <2>1. InHand(c)'
    BY <1>8 DEF Attempted, InHand, Holds
  <2>2. row[c].status = "publishing" => ~ InHand(c)
    BY <1>8 DEF Attempted, InHand
  <2>3. row[c].attempts < MaxAttempts + faults
    BY <1>2, <1>3, <1>8, <2>2 DEF Attempted
  <2>4. row'[c].attempts = row[c].attempts + 1 /\ row'[c].status = "publishing"
    BY <1>8 DEF Attempted
  <2>5. QED
    BY <1>1, <1>3, <2>1, <2>3, <2>4
<1>9. CASE Rescheduled(c, row'[c])
  <2>1. PICK g \in Gateways : \E w \in work[g] :
          w.cmd = c /\ Owns(g, c, "publishing") /\ phase[g] = "publish" /\ BudgetLeft(w)
    BY <1>9 DEF Rescheduled
  <2>2. PICK w \in work[g] :
          w.cmd = c /\ Owns(g, c, "publishing") /\ phase[g] = "publish" /\ BudgetLeft(w)
    BY <2>1
  <2>3. w.attempts = row[c].attempts
    BY <2>2 DEF ClaimsFenced, ClaimedFor
  <2>4. row[c].attempts < MaxAttempts
    BY <2>2, <2>3 DEF BudgetLeft
  <2>5. QED
    BY <1>1, <1>2, <1>3, <1>9, <2>4 DEF Rescheduled, Free
<1>10. CASE GivenUp(c, row'[c])
  BY <1>1, <1>2, <1>3, <1>10 DEF GivenUp, Free
<1>11. CASE Decided(c, row'[c])
  <2>1. row'[c].status \in {"succeeded", "failed"}
    BY <1>11 DEF Decided
  <2>2. PICK d \in Devices : log[d] # <<>> /\ Head(log[d]).cmd = c
                             /\ row'[c] = Completed(row[c], Head(log[d]))
    BY <1>11 DEF Decided
  <2>3. Head(log[d]) \in Result /\ Head(log[d]).attempts <= row[c].attempts
    <3>1. log[d] \in Seq(Result) /\ 1 \in 1 .. Len(log[d]) /\ Head(log[d]) = log[d][1]
      BY <2>2 DEF TypesNow
    <3>2. QED
      BY <2>2, <3>1 DEF LogFenced
  <2>4. row'[c].attempts \in {row[c].attempts, Head(log[d]).attempts} /\ row'[c].attempts >= row[c].attempts
    BY <2>2, <2>3, CompletedRow DEF TypesNow
  <2>5. row'[c].attempts = row[c].attempts
    BY <1>3, <2>3, <2>4 DEF Result
  <2>6. QED
    BY <1>1, <1>2, <1>3, <2>1, <2>5
<1>12. QED
  BY <1>4, <1>5, <1>6, <1>7, <1>8, <1>9, <1>10, <1>11, StepFacts DEF Moves

(* The terminal status and the terminal event are written together.         *)
LEMMA VerdictsAgreeStep ==
  ASSUME TypesNow, final \in [Commands -> Outcomes \cup {"none"}], VerdictsAgree, [Next]_vars
  PROVE  VerdictsAgree'
<1>. DEFINE Agree(r, f) == /\ r.status = "succeeded" <=> f = "success"
                           /\ r.status = "failed" <=> f \in Failures
                           /\ r.status = "failed" => r.code = f
<1>. SUFFICES ASSUME NEW c \in Commands PROVE Agree(row'[c], final'[c])
  BY DEF VerdictsAgree
<1>1. Agree(row[c], final[c])
  BY DEF VerdictsAgree
<1>2. ASSUME NEW r \in Result, applyCommandResult(r), r.cmd = c, ~ Terminal(c)
      PROVE  Agree(row'[c], final'[c])
  <2>1. row'[c] = Completed(row[c], r)
    BY <1>2 DEF applyCommandResult, TypesNow
  <2>2. final[c] = "none"
    BY <1>1, <1>2 DEF Terminal, Outcomes
  <2>3. final'[c] = r.outcome
    BY <1>2, <2>2 DEF applyCommandResult
  <2>4. "success" \notin Failures
    BY DEF Failures
  <2>5. QED
    BY <2>1, <2>3, <2>4, CompletedRow DEF TypesNow
<1>3. CASE Decided(c, row'[c])
  <2>1. PICK d \in Devices : log[d] # <<>> /\ Head(log[d]).cmd = c /\ applyCommandResult(Head(log[d]))
    BY <1>3 DEF Decided
  <2>2. Head(log[d]) \in Result
    BY <2>1 DEF TypesNow
  <2>3. QED
    BY <1>2, <1>3, <2>1, <2>2 DEF Decided
<1>4. CASE ~ Decided(c, row'[c])
  <2>1. final'[c] = final[c] \/ Agree(row'[c], final'[c])
    <3>1. CASE UNCHANGED <<final, deviceState>>
      BY <3>1
    <3>2. ASSUME NEW d \in Devices, log[d] # <<>>, applyCommandResult(Head(log[d]))
          PROVE  final'[c] = final[c] \/ Agree(row'[c], final'[c])
      <4>1. Head(log[d]) \in Result
        BY <3>2 DEF TypesNow
      <4>2. CASE Head(log[d]).cmd = c /\ ~ Terminal(c)
        BY <1>2, <3>2, <4>1, <4>2
      <4>3. CASE Head(log[d]).cmd # c \/ Terminal(Head(log[d]).cmd)
        BY <3>2, <4>3 DEF applyCommandResult, dbVars
      <4>4. QED
        BY <4>2, <4>3
    <3>3. QED
      BY <3>1, <3>2, Frames
  <2>2. Agree(row'[c], final[c])
    BY <1>1, <1>4, StepFacts
    DEF Moves, Kept, Expired, Queued, Leased, Attempted, Free, Settled, Rescheduled, GivenUp
  <2>3. QED
    BY <2>1, <2>2
<1>5. QED
  BY <1>3, <1>4

(* The device never undoes a run. *)
LEMMA RunsGrow ==
  ASSUME runs \in [Commands -> Nat], [Next]_vars
  PROVE  \A c \in Commands : runs'[c] >= runs[c]
<1>1. CASE UNCHANGED runs
  BY <1>1
<1>2. ASSUME NEW b \in Commands, handle_command(b)
      PROVE  \A c \in Commands : runs'[c] >= runs[c]
  <2>1. UNCHANGED runs \/ runs' = [runs EXCEPT ![b] = @ + 1]
    BY <1>2 DEF handle_command
  <2>2. QED
    BY <2>1
<1>3. QED
  BY <1>1, <1>2, Frames DEF PublishCommand, LoseCommand, RestartDevice

(* What backs a result is never taken back: a run, a spent budget, a         *)
(* completed publish that only a decision ends.                             *)
LEMMA BackedStable ==
  ASSUME TypesNow, runs \in [Commands -> Nat], [Next]_vars, NEW c \in Commands,
         NEW outcome, Backed(c, outcome)
  PROVE  Backed(c, outcome)'
<1>. USE ConstantsAssumption DEF ConstantsAssumption
<1>1. Moves(c, row'[c])
  BY StepFacts
<1>2. CASE outcome = "success"
  <2>1. runs[c] > 0 /\ runs'[c] >= runs[c] /\ runs[c] \in Nat
    BY <1>2, RunsGrow DEF Backed
  <2>2. runs'[c] \in Nat
    <3>1. UNCHANGED runs \/ \E b \in Commands : runs' = [runs EXCEPT ![b] = @ + 1]
      BY Frames DEF PublishCommand, handle_command, LoseCommand, RestartDevice
    <3>2. QED
      BY <3>1
  <2>3. runs'[c] > 0
    BY <2>1, <2>2
  <2>4. QED
    BY <1>2, <2>3 DEF Backed
<1>3. CASE outcome = "mqtt.publish.exhausted"
  <2>1. row[c].attempts >= MaxAttempts /\ (row[c].status = "finalizing" \/ Terminal(c))
    BY <1>3 DEF Backed
  <2>2. row'[c].attempts >= MaxAttempts
    BY <2>1, AttemptsGrow
  <2>3. row'[c].status \in {"finalizing", "succeeded", "failed"}
    BY <1>1, <2>1
    DEF Moves, Kept, Expired, Queued, Leased, Attempted, Settled, Rescheduled, GivenUp, Decided, Terminal
  <2>4. QED
    BY <1>3, <2>2, <2>3 DEF Backed, Terminal
<1>4. CASE outcome = "device.ack.timeout"
  <2>1. row[c].status = "published" \/ Terminal(c)
    BY <1>4 DEF Backed
  <2>2. row'[c].status \in {"published", "succeeded", "failed"}
    BY <1>1, <2>1
    DEF Moves, Kept, Expired, Queued, Leased, Attempted, Settled, Rescheduled, GivenUp, Decided, Terminal
  <2>3. QED
    BY <1>4, <2>2 DEF Backed, Terminal
<1>5. CASE outcome \notin {"success", "mqtt.publish.exhausted", "device.ack.timeout"}
  BY <1>5 DEF Backed
<1>6. QED
  BY <1>2, <1>3, <1>4, <1>5

(* A gateway announces what was true when it claimed, and still is.         *)
LEMMA ClaimsBackedStep ==
  ASSUME TypesNow, runs \in [Commands -> Nat], ClaimsFenced, ClaimsBacked, [Next]_vars
  PROVE  ClaimsBacked'
<1>1. ASSUME NEW c \in Commands, row'[c].status = "finalizing"
      PROVE  row'[c].attempts >= MaxAttempts
  <2>1. row[c].attempts \in Nat /\ row'[c].attempts >= row[c].attempts /\ row'[c].attempts \in Nat
    BY AttemptsGrow
  <2>2. CASE row[c].status = "finalizing"
    BY <2>1, <2>2, ConstantsAssumption DEF ClaimsBacked, ConstantsAssumption
  <2>3. CASE row[c].status # "finalizing"
    <3>1. GivenUp(c, row'[c])
      BY <1>1, <2>3, StepFacts
      DEF Moves, Kept, Expired, Queued, Leased, Attempted, Settled, Rescheduled, Decided
    <3>2. PICK g \in Gateways : \E w \in work[g] :
            w.cmd = c /\ Owns(g, c, "publishing") /\ phase[g] = "publish" /\ ~ BudgetLeft(w)
      BY <3>1 DEF GivenUp
    <3>3. PICK w \in work[g] :
            w.cmd = c /\ Owns(g, c, "publishing") /\ phase[g] = "publish" /\ ~ BudgetLeft(w)
      BY <3>2
    <3>4. w.attempts = row[c].attempts
      BY <3>3 DEF ClaimsFenced, ClaimedFor
    <3>5. QED
      BY <2>1, <3>3, <3>4, ConstantsAssumption DEF BudgetLeft, ConstantsAssumption
  <2>4. QED
    BY <2>2, <2>3
<1>2. ASSUME NEW g \in Gateways, NEW w \in work'[g]
      PROVE  /\ phase'[g] = "notify" => Backed(w.cmd, "device.ack.timeout")'
             /\ phase'[g] = "finalize" => Backed(w.cmd, "mqtt.publish.exhausted")'
  <2>1. w.cmd \in Commands
    BY StepFacts DEF Claim
  <2>2. CASE Worked(g)
    <3>1. PICK v \in work[g] : w.cmd = v.cmd
      BY <2>2 DEF Worked
    <3>2. /\ phase'[g] = "notify" => Backed(w.cmd, "device.ack.timeout")
          /\ phase'[g] = "finalize" => Backed(w.cmd, "mqtt.publish.exhausted")
      BY <2>2, <3>1 DEF ClaimsBacked, Worked
    <3>3. QED
      BY <2>1, <3>2, BackedStable
  <2>3. CASE Claimed(g)
    <3>1. row'[w.cmd].status = ClaimedFor[phase'[g]]
      BY <2>3 DEF Claimed
    <3>2. CASE phase'[g] = "notify"
      BY <3>1, <3>2 DEF Backed, ClaimedFor
    <3>3. CASE phase'[g] = "finalize"
      BY <1>1, <2>1, <3>1, <3>3 DEF Backed, ClaimedFor
    <3>4. QED
      BY <3>2, <3>3
  <2>4. QED
    BY <2>2, <2>3, StepFacts
<1>3. QED
  BY <1>1, <1>2 DEF ClaimsBacked

(* Neither the topic nor the feed holds a result that did not happen.       *)
LEMMA ResultsBackedStep ==
  ASSUME TypesNow, runs \in [Commands -> Nat], final \in [Commands -> Outcomes \cup {"none"}],
         ClaimsBacked, DeviceHonest, ResultsBacked, [Next]_vars
  PROVE  ResultsBacked'
<1>1. ASSUME NEW d \in Devices, NEW i \in 1 .. Len(log'[d]), NEW r, r = log'[d][i]
      PROVE  Backed(r.cmd, r.outcome)'
  <2>1. CASE \E j \in 1 .. Len(log[d]) : r = log[d][j]
    <3>1. PICK j \in 1 .. Len(log[d]) : r = log[d][j]
      BY <2>1
    <3>2. r \in Result /\ r.cmd \in Commands
      <4>1. r \in Result
        BY <3>1 DEF TypesNow
      <4>2. QED
        BY <4>1 DEF Result
    <3>3. Backed(r.cmd, r.outcome)
      BY <3>1 DEF ResultsBacked
    <3>4. QED
      BY <3>1, <3>2, <3>3, BackedStable
  <2>2. ASSUME NEW g \in Gateways, phase[g] \in {"notify", "finalize"},
               NEW w \in work[g], r = SyntheticFailure(g, w)
        PROVE  Backed(r.cmd, r.outcome)'
    <3>1. w \in Claim /\ w.cmd \in Commands
      BY DEF TypesNow, Claim
    <3>2. /\ r.cmd = w.cmd
          /\ r.outcome =
               IF phase[g] = "notify" THEN "device.ack.timeout" ELSE "mqtt.publish.exhausted"
      BY <2>2, <3>1, RecordTypes
    <3>3. Backed(w.cmd, r.outcome)
      BY <2>2, <3>2 DEF ClaimsBacked
    <3>4. QED
      BY <3>1, <3>2, <3>3, BackedStable
  <2>3. ASSUME NEW a \in acks, r = AckResult(a)
        PROVE  Backed(r.cmd, r.outcome)'
    <3>1. a \in Ack /\ a.cmd \in Commands /\ a.outcome \in {"success", "device.command.rejected"}
      BY DEF TypesNow, Ack
    <3>2. r.cmd = a.cmd /\ r.outcome = a.outcome
      BY <2>3, <3>1, RecordTypes
    <3>3. Backed(a.cmd, a.outcome)
      BY <3>1 DEF Backed, DeviceHonest
    <3>4. QED
      BY <3>1, <3>2, <3>3, BackedStable
  <2>4. QED
    BY <1>1, <2>1, <2>2, <2>3, LogStep DEF TypesNow
<1>2. ASSUME NEW c \in Commands, NEW f, f = final'[c]
      PROVE  Backed(c, f)'
  <2>1. f = final[c] \/ Backed(c, f)
    <3>1. ASSUME NEW d \in Devices, log[d] # <<>>, applyCommandResult(Head(log[d]))
          PROVE  f = final[c] \/ Backed(c, f)
      <4>1. log[d] \in Seq(Result) /\ 1 \in 1 .. Len(log[d]) /\ Head(log[d]) = log[d][1]
        BY <3>1 DEF TypesNow
      <4>2. Backed(Head(log[d]).cmd, Head(log[d]).outcome)
        BY <4>1 DEF ResultsBacked
      <4>3. f = final[c] \/ (Head(log[d]).cmd = c /\ f = Head(log[d]).outcome)
        BY <1>2, <3>1 DEF applyCommandResult, dbVars
      <4>4. QED
        BY <4>2, <4>3
    <3>2. QED
      BY <1>2, <3>1, Frames
  <2>2. Backed(c, final[c])
    BY DEF ResultsBacked
  <2>3. QED
    BY <2>1, <2>2, BackedStable
<1>3. QED
  BY <1>1, <1>2 DEF ResultsBacked

(* A success is answered only for a run, and a run is repeated only after    *)
(* the restart that lost its result.                                        *)
LEMMA DeviceStepKeeps ==
  ASSUME runs \in [Commands -> Nat], faults \in Nat, acks \subseteq Ack,
         cache \in [Commands -> {"none", "success", "device.command.rejected"}],
         DeviceHonest, RunsOncePerBoot, [Next]_vars
  PROVE  DeviceHonest' /\ RunsOncePerBoot'
<1>1. faults' \in Nat /\ faults' >= faults /\ (Fault => faults' = faults + 1)
  BY Frames DEF Fault
<1>2. CASE UNCHANGED <<cache, runs, acks>>
  BY <1>1, <1>2 DEF DeviceHonest, RunsOncePerBoot
<1>3. ASSUME NEW b \in Commands, handle_command(b)
      PROVE  DeviceHonest' /\ RunsOncePerBoot'
  <2>1. PICK outcome \in {"success", "device.command.rejected"} :
          /\ cache' = [cache EXCEPT ![b] = outcome]
          /\ acks' \subseteq acks \cup {[cmd |-> b, outcome |-> outcome]}
          /\ \/ cache[b] = outcome /\ runs' = runs
             \/ cache[b] = "none" /\ outcome = "success" /\ runs' = [runs EXCEPT ![b] = @ + 1]
             \/ cache[b] = "none" /\ outcome = "device.command.rejected" /\ runs' = runs
    BY <1>3 DEF handle_command, Answer
  <2>2. \A c \in Commands : runs'[c] \in Nat /\ runs'[c] >= runs[c]
    BY <2>1
  <2>3. outcome = "success" => runs'[b] > 0
    BY <2>1 DEF DeviceHonest
  <2>4. \A c \in Commands : cache'[c] = "success" => runs'[c] > 0
    BY <2>1, <2>2, <2>3 DEF DeviceHonest
  <2>5. ASSUME NEW a \in acks', a.outcome = "success"
        PROVE  runs'[a.cmd] > 0
    <3>1. CASE a \in acks
      <4>1. a.cmd \in Commands /\ runs[a.cmd] > 0
        BY <2>5, <3>1 DEF DeviceHonest, Ack
      <4>2. QED
        BY <4>1, <2>2
    <3>2. CASE a \notin acks
      <4>1. a.cmd = b /\ a.outcome = outcome
        BY <2>1, <3>2
      <4>2. QED
        BY <2>3, <2>5, <4>1
    <3>3. QED
      BY <3>1, <3>2
  <2>6. ASSUME NEW c \in Commands, cache'[c] = "none" PROVE runs'[c] <= faults'
    <3>1. c # b /\ cache[c] = "none" /\ runs'[c] = runs[c]
      BY <2>1, <2>6
    <3>2. runs[c] <= faults
      BY <3>1 DEF DeviceHonest
    <3>3. QED
      BY <1>1, <3>1, <3>2
  <2>7. ASSUME NEW c \in Commands PROVE runs'[c] <= 1 + faults'
    <3>1. runs'[c] = runs[c] \/ (cache[c] = "none" /\ runs'[c] = runs[c] + 1)
      BY <2>1
    <3>2. runs[c] <= 1 + faults /\ (cache[c] = "none" => runs[c] <= faults)
      BY DEF DeviceHonest, RunsOncePerBoot
    <3>3. QED
      BY <1>1, <3>1, <3>2
  <2>8. QED
    BY <2>4, <2>5, <2>6, <2>7 DEF DeviceHonest, RunsOncePerBoot
<1>4. ASSUME NEW d \in Devices, RestartDevice(d)
      PROVE  DeviceHonest' /\ RunsOncePerBoot'
  <2>1. /\ Fault /\ UNCHANGED <<runs, acks>>
        /\ cache' = [c \in Commands |-> IF DeviceOf[c] = d THEN "none" ELSE cache[c]]
    BY <1>4 DEF RestartDevice
  <2>2. QED
    BY <1>1, <2>1 DEF DeviceHonest, RunsOncePerBoot
<1>5. ASSUME NEW a \in acks, acks' = acks \ {a}, UNCHANGED <<cache, runs>>
      PROVE  DeviceHonest' /\ RunsOncePerBoot'
  BY <1>1, <1>5 DEF DeviceHonest, RunsOncePerBoot
<1>6. QED
  BY <1>2, <1>3, <1>4, <1>5, Frames DEF PublishCommand, LoseCommand, handle_command, RestartDevice

(* A retry event names an attempt that is over: the next one is counted      *)
(* before it can fail.                                                      *)
LEMMA RetriesPastStep ==
  ASSUME TypesNow, retries \subseteq Commands \X Nat, ClaimsFenced, RetriesPast, [Next]_vars
  PROVE  RetriesPast'
<1>. USE ConstantsAssumption DEF ConstantsAssumption
<1>1. ASSUME NEW c \in Commands, NEW n \in Nat, <<c, n>> \in retries
      PROVE  n <= row'[c].attempts /\ (row'[c].status = "publishing" => n < row'[c].attempts)
  <2>1. n <= row[c].attempts /\ (row[c].status = "publishing" => n < row[c].attempts)
    <3>. DEFINE e == <<c, n>>
    <3>1. e \in retries /\ e[1] = c /\ e[2] = n
      BY <1>1
    <3>. HIDE DEF e
    <3>2. QED
      BY <3>1 DEF RetriesPast
  <2>2. Moves(c, row'[c]) /\ row[c].attempts \in Nat /\ row'[c].attempts \in Nat
    BY StepFacts, AttemptsGrow
  <2>3. n <= row'[c].attempts
    BY <2>1, AttemptsGrow
  <2>4. ASSUME row'[c].status = "publishing" PROVE n < row'[c].attempts
    <3>1. \/ row[c].status = "publishing" /\ row'[c].attempts = row[c].attempts
          \/ row'[c].attempts = row[c].attempts + 1
      BY <2>2, <2>4
      DEF Moves, Kept, Expired, Queued, Leased, Attempted, Free, Settled, Rescheduled, GivenUp, Decided
    <3>2. QED
      BY <2>1, <2>2, <3>1
  <2>5. QED
    BY <2>3, <2>4
<1>2. ASSUME NEW g \in Gateways, ScheduleCommandRetry(g), NEW e \in retries', e \notin retries
      PROVE  e[2] <= row'[e[1]].attempts /\ row'[e[1]].status # "publishing"
  <2>1. PICK w \in work[g] : /\ phase[g] = "publish" /\ e = <<w.cmd, w.attempts>>
                             /\ Owns(g, w.cmd, "publishing")
                             /\ UpdateIfOwner(g, w.cmd, "publishing", Retrying(row[w.cmd]))
    BY <1>2 DEF ScheduleCommandRetry
  <2>2. w.attempts = row[w.cmd].attempts /\ w.cmd \in Commands /\ w.attempts \in Nat
    <3>1. w \in Claim
      BY DEF TypesNow
    <3>2. QED
      BY <2>1, <3>1 DEF ClaimsFenced, ClaimedFor, Claim
  <2>3. row'[w.cmd] = Retrying(row[w.cmd])
    BY <2>1, <2>2 DEF UpdateIfOwner, TypesNow
  <2>4. row'[w.cmd].status = "retrying" /\ row'[w.cmd].attempts = w.attempts
    BY <2>2, <2>3, RetryingRow DEF TypesNow
  <2>5. QED
    BY <2>1, <2>2, <2>4
<1>3. ASSUME NEW e \in retries'
      PROVE  e[2] <= row'[e[1]].attempts /\ (row'[e[1]].status = "publishing" => e[2] < row'[e[1]].attempts)
  <2>1. CASE e \in retries
    <3>1. PICK c \in Commands, n \in Nat : e = <<c, n>>
      BY <2>1
    <3>2. QED
      BY <1>1, <2>1, <3>1
  <2>2. CASE e \notin retries
    BY <1>2, <2>2, Frames
  <2>3. QED
    BY <2>1, <2>2
<1>4. QED
  BY <1>3 DEF RetriesPast

-----------------------------------------------------------------------------
(* The inductive invariant.                                                 *)
LEMMA IInvInit ==
  ASSUME Init PROVE IInv
<1>. USE ConstantsAssumption DEF ConstantsAssumption, Init
<1>1. TypeOK
  BY TypeInit
<1>2. ClaimsFenced /\ LogFenced /\ RetriesPast
  BY DEF ClaimsFenced, LogFenced, RetriesPast
<1>3. LeasesOwned /\ BudgetKept
  BY DEF LeasesOwned, BudgetKept, NoRow
<1>4. VerdictsAgree /\ ClaimsBacked /\ DeviceHonest /\ RunsOncePerBoot
  BY DEF VerdictsAgree, ClaimsBacked, DeviceHonest, RunsOncePerBoot, NoRow, Failures
<1>5. ResultsBacked
  BY DEF ResultsBacked, Backed
<1>6. QED
  BY <1>1, <1>2, <1>3, <1>4, <1>5 DEF IInv

LEMMA IInvStep ==
  ASSUME IInv, [Next]_vars PROVE IInv'
<1>1. /\ TypesNow /\ faults \in Nat /\ runs \in [Commands -> Nat]
      /\ final \in [Commands -> Outcomes \cup {"none"}]
      /\ retries \subseteq Commands \X Nat
      /\ acks \subseteq Ack
      /\ cache \in [Commands -> {"none", "success", "device.command.rejected"}]
  BY ConstantsAssumption DEF IInv, TypeOK, TypesNow, ConstantsAssumption
<1>2. TypeOK'
  BY TypeStep DEF IInv
<1>3. ClaimsFenced' /\ LogFenced' /\ LeasesOwned'
  BY <1>1, ClaimsFencedStep, LogFencedStep, LeasesOwnedStep DEF IInv
<1>4. BudgetKept' /\ VerdictsAgree'
  BY <1>1, BudgetKeptStep, VerdictsAgreeStep DEF IInv
<1>5. ClaimsBacked' /\ ResultsBacked'
  BY <1>1, ClaimsBackedStep, ResultsBackedStep DEF IInv
<1>6. DeviceHonest' /\ RunsOncePerBoot' /\ RetriesPast'
  BY <1>1, DeviceStepKeeps, RetriesPastStep DEF IInv
<1>7. QED
  BY <1>2, <1>3, <1>4, <1>5, <1>6 DEF IInv

(* The inductive invariant holds in every reachable state. *)
THEOREM Inductive == Spec => []IInv
<1>1. Init => IInv
  BY IInvInit
<1>2. IInv /\ [Next]_vars => IInv'
  BY IInvStep
<1>3. QED
  BY <1>1, <1>2, PTL DEF Spec

(* An update that has lost its lease is recognised by the owner test: the    *)
(* claim it acts on is the current attempt or it changes nothing.           *)
THEOREM StaleClaimsFenced == Spec => []ClaimsFenced
<1>1. IInv => ClaimsFenced
  BY DEF IInv
<1>2. QED
  BY <1>1, Inductive, PTL

(* Attempts beyond the maximum are bounded by the faults. *)
THEOREM AttemptsBoundedByFaults == Spec => []AttemptsBounded
<1>1. IInv => AttemptsBounded
  BY DEF IInv, BudgetKept, AttemptsBounded
<1>2. QED
  BY <1>1, Inductive, PTL

(* No result reaches the worker, or the feed, that did not happen. *)
THEOREM ResultsAreBacked == Spec => []ResultsBacked
<1>1. IInv => ResultsBacked
  BY DEF IInv
<1>2. QED
  BY <1>1, Inductive, PTL

(* Redelivery and republishing do not make the device repeat a command. *)
THEOREM DeviceRunsOncePerBoot == Spec => []RunsOncePerBoot
<1>1. IInv => RunsOncePerBoot
  BY DEF IInv
<1>2. QED
  BY <1>1, Inductive, PTL

-----------------------------------------------------------------------------
(* Action properties and refinement.                                        *)

(* The event of a scheduled retry is never the duplicate of an earlier one,  *)
(* so on conflict do nothing never swallows it.                             *)
THEOREM RetryEventsAreNew == Spec => RetryEventIsNew
<1>1. ASSUME IInv, [Next]_vars, NEW c \in Commands,
             row[c].status # "retrying", row'[c].status = "retrying"
      PROVE  <<c, row[c].attempts>> \in retries' \ retries
  <2>1. TypesNow /\ ClaimsFenced /\ RetriesPast
    BY <1>1 DEF IInv, TypeOK, TypesNow
  <2>2. Rescheduled(c, row'[c])
    BY <1>1, <2>1, StepFacts
    DEF Moves, Kept, Expired, Queued, Leased, Attempted, Settled, GivenUp, Decided
  <2>3. PICK g \in Gateways : \E w \in work[g] :
          /\ w.cmd = c /\ Owns(g, c, "publishing") /\ phase[g] = "publish"
          /\ retries' = retries \cup {<<c, w.attempts>>}
    BY <2>2 DEF Rescheduled
  <2>4. PICK w \in work[g] :
          /\ w.cmd = c /\ Owns(g, c, "publishing") /\ phase[g] = "publish"
          /\ retries' = retries \cup {<<c, w.attempts>>}
    BY <2>3
  <2>5. w.attempts = row[c].attempts
    BY <2>1, <2>4 DEF ClaimsFenced, ClaimedFor
  <2>. DEFINE e == <<c, row[c].attempts>>
  <2>6. e[1] = c /\ e[2] = row[c].attempts /\ row[c].attempts \in Nat
    BY <2>1 DEF TypesNow, Row
  <2>7. e \in retries'
    BY <2>4, <2>5
  <2>8. e \notin retries
    <3>. HIDE DEF e
    <3>1. SUFFICES ASSUME e \in retries PROVE FALSE
      OBVIOUS
    <3>2. row[c].status = "publishing"
      BY <2>4 DEF Owns
    <3>3. e[2] < row[c].attempts
      BY <2>1, <2>6, <3>1, <3>2 DEF RetriesPast
    <3>4. QED
      BY <2>6, <3>3
  <2>9. QED
    BY <2>7, <2>8
<1>2. IInv /\ [Next]_vars =>
        [\A c \in Commands : row[c].status # "retrying" /\ row'[c].status = "retrying" =>
           <<c, row[c].attempts>> \in retries' \ retries]_vars
  BY <1>1
<1>3. QED
  BY <1>2, Inductive, PTL DEF Spec, RetryEventIsNew

(* Whatever moves a row does not change what is known of its command, unless *)
(* it queues the command or decides it.                                     *)
LEMMA VerdictKept ==
  ASSUME NEW c \in Commands, Moves(c, row'[c]), ~ Queued(c, row'[c]), ~ Decided(c, row'[c])
  PROVE  Verdict(c)' = Verdict(c)
  BY DEF Moves, Kept, Expired, Leased, Attempted, Free, Settled, Rescheduled, GivenUp, Verdict, Terminal

(* The pipeline implements the abstract life of a command, for any number of *)
(* gateways: one verdict, announced once and never revised.                 *)
THEOREM LifecycleImplemented == Spec => ImplementsLifecycle
<1>. USE ConstantsAssumption DEF ConstantsAssumption
<1>1. Init => Lifecycle!Init
  <2>1. ASSUME Init
        PROVE  \A c \in Commands : Verdict(c) = "absent" /\ Announced(c) = "none"
    BY <2>1 DEF Init, NoRow, Verdict, Announced
  <2>2. ASSUME Init PROVE deviceState = [d \in Devices |-> NoCommand]
    BY <2>2 DEF Init
  <2>3. QED
    BY <2>1, <2>2 DEF Lifecycle!Init
<1>2. ASSUME IInv, [Next]_vars
      PROVE  [Lifecycle!Next]_(Lifecycle!vars)
  <2>1. /\ TypesNow /\ VerdictsAgree /\ final \in [Commands -> Outcomes \cup {"none"}]
        /\ VerdictsAgree' /\ \A c \in Commands : Moves(c, row'[c])
    <3>1. TypesNow /\ VerdictsAgree /\ final \in [Commands -> Outcomes \cup {"none"}]
      BY <1>2 DEF IInv, TypeOK, TypesNow
    <3>2. VerdictsAgree' /\ \A c \in Commands : Moves(c, row'[c])
      BY <1>2, <3>1, VerdictsAgreeStep, StepFacts
    <3>3. QED
      BY <3>1, <3>2
  <2>2. ASSUME NEW c \in Commands, CreateDeviceCommand(c)
        PROVE  Lifecycle!Request(c)
    <3>1. /\ row[c].status = "absent" /\ row'[c].status = "pending"
          /\ \A b \in Commands : b # c => row'[b] = row[b]
          /\ UNCHANGED <<final, deviceState>>
      BY <2>1, <2>2 DEF CreateDeviceCommand, TypesNow, Row
    <3>2. Verdict(c) = "absent" /\ Verdict(c)' = "open"
      BY <3>1 DEF Verdict, Terminal
    <3>3. \A b \in Commands : b # c => Verdict(b)' = Verdict(b)
      BY <3>1 DEF Verdict, Terminal
    <3>4. \A b \in Commands : Announced(b)' = Announced(b)
      BY <3>1 DEF Announced
    <3>5. QED
      BY <3>1, <3>2, <3>3, <3>4 DEF Lifecycle!Request
  <2>3. ASSUME NEW r \in Result, applyCommandResult(r), ~ Terminal(r.cmd)
        PROVE  \E v \in {"succeeded", "failed"} : Lifecycle!Decide(r.cmd, v)
    <3>. DEFINE c == r.cmd
                v == IF r.outcome = "success" THEN "succeeded" ELSE "failed"
    <3>1. c \in Commands /\ r.outcome \in Outcomes /\ v \in {"succeeded", "failed"}
      BY DEF Result
    <3>2. /\ row'[c] = Completed(row[c], r)
          /\ \A b \in Commands : b # c => row'[b] = row[b]
          /\ \A b \in Commands : b # c => final'[b] = final[b]
          /\ deviceState' = IF r.outcome = "success"
                            THEN [deviceState EXCEPT ![DeviceOf[c]] = c] ELSE deviceState
      BY <2>1, <2>3, <3>1 DEF applyCommandResult, TypesNow
    <3>3. row'[c].status = v
      BY <2>1, <3>1, <3>2, CompletedRow DEF TypesNow
    <3>4. final'[c] = r.outcome
      <4>1. final[c] = "none"
        BY <2>1, <2>3, <3>1 DEF VerdictsAgree, Terminal, Outcomes
      <4>2. QED
        BY <2>1, <2>3, <3>1, <4>1 DEF applyCommandResult
    <3>5. Verdict(c) = "open" /\ Verdict(c)' = v
      BY <2>3, <3>3 DEF Verdict, Terminal, applyCommandResult
    <3>6. Announced(c)' = v
      BY <3>1, <3>4 DEF Announced, Outcomes, Failures
    <3>7. \A b \in Commands : b # c => Verdict(b)' = Verdict(b) /\ Announced(b)' = Announced(b)
      BY <3>2 DEF Verdict, Terminal, Announced
    <3>8. deviceState' = IF v = "succeeded" THEN [deviceState EXCEPT ![DeviceOf[c]] = c] ELSE deviceState
      BY <3>2
    <3>. HIDE DEF v
    <3>9. Lifecycle!Decide(c, v)
      BY <3>1, <3>5, <3>6, <3>7, <3>8 DEF Lifecycle!Decide
    <3>10. QED
      BY <3>1, <3>9
  <2>4. CASE \E c \in Commands : Queued(c, row'[c])
    BY <2>2, <2>4 DEF Queued, Lifecycle!Next
  <2>5. CASE \E d \in Devices : /\ log[d] # <<>> /\ applyCommandResult(Head(log[d]))
                               /\ ~ Terminal(Head(log[d]).cmd)
    <3>1. PICK d \in Devices : /\ log[d] # <<>> /\ applyCommandResult(Head(log[d]))
                              /\ ~ Terminal(Head(log[d]).cmd)
      BY <2>5
    <3>2. Head(log[d]) \in Result
      BY <2>1, <3>1 DEF TypesNow
    <3>3. Head(log[d]).cmd \in Commands
      BY <3>2 DEF Result
    <3>4. \E v \in {"succeeded", "failed"} : Lifecycle!Decide(Head(log[d]).cmd, v)
      BY <2>3, <3>1, <3>2
    <3>5. QED
      BY <3>3, <3>4 DEF Lifecycle!Next
  <2>6. CASE /\ \A c \in Commands : ~ Queued(c, row'[c]) /\ ~ Decided(c, row'[c])
             /\ UNCHANGED <<final, deviceState>>
    <3>1. \A c \in Commands : Verdict(c)' = Verdict(c) /\ Announced(c)' = Announced(c)
      BY <2>1, <2>6, VerdictKept DEF Announced
    <3>2. QED
      BY <2>6, <3>1 DEF Lifecycle!vars
  <2>7. UNCHANGED <<final, deviceState>>
        \/ \E d \in Devices : /\ log[d] # <<>> /\ applyCommandResult(Head(log[d]))
                              /\ ~ Terminal(Head(log[d]).cmd)
    <3>1. ASSUME NEW d \in Devices, log[d] # <<>>, applyCommandResult(Head(log[d])),
                 Terminal(Head(log[d]).cmd)
          PROVE  UNCHANGED <<final, deviceState>>
      BY <3>1 DEF applyCommandResult, dbVars
    <3>2. QED
      BY <1>2, <3>1, Frames
  <2>8. QED
    BY <2>4, <2>5, <2>6, <2>7 DEF Decided
<1>3. QED
  BY <1>1, <1>2, Inductive, PTL DEF Spec, ImplementsLifecycle, Lifecycle!Spec

=============================================================================
