---------------------------- MODULE WorkerProcess ----------------------------
(***************************************************************************)
(* The life of the worker processes (worker/src/main.ts) and the retention *)
(* job inside them: the start of the Kafka consumer with its retries, the  *)
(* readiness a probe reads, the shutdown a signal starts at any moment of  *)
(* it, and the cleanup that every worker tries once per interval and that  *)
(* one of them carries out.  What the consumer does with a record is       *)
(* TelemetryPipeline's; here a record is only being handled or not.        *)
(*                                                                         *)
(* External: kafkajs, whose connect, subscribe and run fail or take effect *)
(* after any delay, and whose disconnect waits for the record in hand; pg, *)
(* whose pool refuses a connection once it is ending and ends when every   *)
(* client is back; and node, which exits when nothing is left to wait for. *)
(***************************************************************************)
EXTENDS Integers, Sequences, FiniteSets

CONSTANTS Workers,   \* worker processes
          Watched,   \* bound: those that start, stop and die; the others serve throughout
          Interval,  \* RETENTION_CLEANUP_INTERVAL_MS, in units of time
          MaxTime,   \* bound: units of time
          MaxFaults  \* bound: failed calls, crashes, signals and restarts

\* The interval is a positive integer (retention-config.ts positiveInteger).
ConstantsAssumption ==
  Watched \subseteq Workers /\ Interval \in Nat \ {0} /\ MaxTime \in Nat /\ MaxFaults \in Nat

ASSUME ConstantsAssumption

VARIABLES main,      \* bootstrap: down, top, connect, subscribe, delay, serving or thrown
          stopping,  \* shutdown: no, consumer, app, health or done
          ready,     \* HealthServer.ready
          connected, \* TelemetryConsumer.connected
          consuming, \* kafkajs runs eachMessage
          handling,  \* a record is in hand
          pool,      \* the pg pool: open, ending or ended
          leased,    \* clients of the pool that the retention job has not released
          job,       \* runNow: none, connect, began, locked or marked
          jobAt,     \* now() of its transaction
          timerAt,   \* when the interval timer fires next
          started,   \* retention_cleanup_state.last_started_at
          cleanups,  \* history: now() of the transactions that have cleaned up, in order
          now,
          faults,
          settled    \* history: the first signal came to a worker that was serving

procVars == <<main, stopping, ready, connected, consuming, handling, settled>>
scheduleVars == <<started, cleanups>>
jobVars  == <<pool, leased, job, jobAt, timerAt, scheduleVars>>
vars     == <<procVars, jobVars, now, faults>>

Never == -Interval

Init ==
  /\ main = [w \in Workers |-> IF w \in Watched THEN "top" ELSE "serving"] /\ stopping = [w \in Workers |-> "no"]
  /\ ready = [w \in Workers |-> w \notin Watched] /\ connected = [w \in Workers |-> w \notin Watched]
  /\ consuming = [w \in Workers |-> w \notin Watched] /\ handling = [w \in Workers |-> FALSE]
  /\ settled = [w \in Workers |-> FALSE]
  /\ pool = [w \in Workers |-> "open"] /\ leased = [w \in Workers |-> 0]
  /\ job = [w \in Workers |-> "connect"] /\ jobAt = [w \in Workers |-> 0]
  /\ timerAt = [w \in Workers |-> Interval]
  /\ started = Never /\ cleanups = <<>> /\ now = 0 /\ faults = 0

Fault == faults < MaxFaults /\ faults' = faults + 1

-------------------------------------------------------------------------------
(* The start: startWithRetry.                                               *)

Goes(w, to) == main' = [main EXCEPT ![w] = to]

\* The top of the loop, the only place that looks at the abort signal.  A start
\* that was aborted throws, and bootstrap sets the exit code.
LoopTop(w) ==
  /\ main[w] = "top"
  /\ Goes(w, IF stopping[w] # "no" THEN "thrown" ELSE "connect")
  /\ UNCHANGED <<stopping, ready, connected, consuming, handling, settled, jobVars, now, faults>>

Connected(w) ==
  /\ main[w] = "connect"
  /\ Goes(w, "subscribe")
  /\ connected' = [connected EXCEPT ![w] = TRUE]
  /\ UNCHANGED <<stopping, ready, consuming, handling, settled, jobVars, now, faults>>

\* A bug: the worker is ready without a look at what happened meanwhile.
Marks_Always(w) == TRUE

\* Whether bootstrap marks the worker ready once its consumer runs.
Marks(w) == stopping[w] = "no"

\* Both subscriptions and run succeed.
Serves(w) ==
  /\ main[w] = "subscribe"
  /\ Goes(w, "serving")
  /\ consuming' = [consuming EXCEPT ![w] = TRUE]
  /\ ready' = [ready EXCEPT ![w] = Marks(w)]
  /\ UNCHANGED <<stopping, connected, handling, settled, jobVars, now, faults>>

\* A call of kafkajs fails, for instance because shutdown has disconnected the
\* consumer under it; connected stays as it is.
StartFails(w) ==
  /\ main[w] \in {"connect", "subscribe"}
  /\ IF main[w] = "subscribe" /\ ~connected[w] THEN UNCHANGED faults ELSE Fault
  /\ Goes(w, "delay")
  /\ UNCHANGED <<stopping, ready, connected, consuming, handling, settled, jobVars, now>>

\* A bug: only the abort ends the delay.
DelayOver_OnAbort(w) ==
  /\ main[w] = "delay" /\ stopping[w] # "no"
  /\ Goes(w, "top")
  /\ UNCHANGED <<stopping, ready, connected, consuming, handling, settled, jobVars, now, faults>>

\* The delay is over, or the abort woke it.
DelayOver(w) ==
  /\ main[w] = "delay"
  /\ Goes(w, "top")
  /\ UNCHANGED <<stopping, ready, connected, consuming, handling, settled, jobVars, now, faults>>

\* The consumer, unless it is disconnecting, hands a record to eachMessage, which
\* ends one way or another.
Takes(w) ==
  /\ consuming[w] /\ ~handling[w] /\ stopping[w] # "consumer"
  /\ handling' = [handling EXCEPT ![w] = TRUE]
  /\ UNCHANGED <<main, stopping, ready, connected, consuming, settled, jobVars, now, faults>>

Handled(w) ==
  /\ handling[w]
  /\ handling' = [handling EXCEPT ![w] = FALSE]
  /\ UNCHANGED <<main, stopping, ready, connected, consuming, settled, jobVars, now, faults>>

\* kafkajs gives up after an error it does not retry.  Nobody is told.
GivesUp(w) ==
  /\ consuming[w] /\ ~handling[w]
  /\ Fault
  /\ consuming' = [consuming EXCEPT ![w] = FALSE]
  /\ UNCHANGED <<main, stopping, ready, connected, handling, settled, jobVars, now>>

-------------------------------------------------------------------------------
(* The end: shutdown.                                                       *)

\* app.close() runs the destroy hooks of all providers: the retention timer is
\* cleared and the pool begins to end.
Closes(w) == pool' = [pool EXCEPT ![w] = "ending"]

\* A bug: consumer.stop() is not awaited.
StopConsumer_NotAwaited(w) == stopping' = [stopping EXCEPT ![w] = "app"] /\ Closes(w)

\* consumer.stop() returns at once if the consumer never connected.
StopConsumer(w) ==
  IF connected[w]
  THEN stopping' = [stopping EXCEPT ![w] = "consumer"] /\ UNCHANGED pool
  ELSE stopping' = [stopping EXCEPT ![w] = "app"] /\ Closes(w)

\* The first SIGINT or SIGTERM: not ready, startup aborted, consumer.stop()
\* called.  Another one finds shuttingDown set and returns.
Shutdown(w) ==
  /\ main[w] # "down" /\ stopping[w] = "no"
  /\ Fault
  /\ ready' = [ready EXCEPT ![w] = FALSE]
  /\ settled' = [settled EXCEPT ![w] = main[w] = "serving"]
  /\ StopConsumer(w)
  /\ UNCHANGED <<main, connected, consuming, handling, leased, job, jobAt, timerAt, scheduleVars, now>>

\* consumer.disconnect() has waited for the record in hand.
Disconnected(w) ==
  /\ stopping[w] = "consumer" /\ ~handling[w]
  /\ connected' = [connected EXCEPT ![w] = FALSE]
  /\ consuming' = [consuming EXCEPT ![w] = FALSE]
  /\ stopping' = [stopping EXCEPT ![w] = "app"]
  /\ Closes(w)
  /\ UNCHANGED <<main, ready, handling, settled, leased, job, jobAt, timerAt, scheduleVars, now, faults>>

\* The pool ends when its clients are back.
PoolEnds(w) ==
  /\ stopping[w] = "app" /\ leased[w] = 0
  /\ pool' = [pool EXCEPT ![w] = "ended"]
  /\ stopping' = [stopping EXCEPT ![w] = "health"]
  /\ UNCHANGED <<main, ready, connected, consuming, handling, settled, leased, job, jobAt, timerAt, scheduleVars, now, faults>>

HealthStops(w) ==
  /\ stopping[w] = "health"
  /\ stopping' = [stopping EXCEPT ![w] = "done"]
  /\ UNCHANGED <<main, ready, connected, consuming, handling, settled, jobVars, now, faults>>

\* What a process leaves behind when it is gone: its transaction is rolled back.
Gone(w) ==
  /\ Goes(w, "down")
  /\ stopping' = [stopping EXCEPT ![w] = "no"]
  /\ ready' = [ready EXCEPT ![w] = FALSE] /\ connected' = [connected EXCEPT ![w] = FALSE]
  /\ consuming' = [consuming EXCEPT ![w] = FALSE] /\ handling' = [handling EXCEPT ![w] = FALSE]
  /\ settled' = [settled EXCEPT ![w] = FALSE]
  /\ pool' = [pool EXCEPT ![w] = "open"] /\ leased' = [leased EXCEPT ![w] = 0]
  /\ job' = [job EXCEPT ![w] = "none"] /\ jobAt' = [jobAt EXCEPT ![w] = 0]
  /\ timerAt' = [timerAt EXCEPT ![w] = 0]
  /\ UNCHANGED <<scheduleVars, now>>

\* Nothing is left to wait for.
Exits(w) ==
  /\ stopping[w] = "done" /\ main[w] \in {"serving", "thrown"} /\ ~consuming[w] /\ job[w] = "none"
  /\ Gone(w)
  /\ UNCHANGED faults

\* The process dies: a second signal of one kind, for which no handler is left,
\* a step of the shutdown that rejects, the machine.
Dies(w) == main[w] # "down" /\ Fault /\ Gone(w)

\* The container is started again: a new process, whose first cleanup begins.
Restarts(w) ==
  /\ main[w] = "down" /\ Fault
  /\ Goes(w, "top")
  /\ job' = [job EXCEPT ![w] = "connect"]
  /\ timerAt' = [timerAt EXCEPT ![w] = now + Interval]
  /\ UNCHANGED <<stopping, ready, connected, consuming, handling, settled, pool, leased, jobAt, scheduleVars, now>>

-------------------------------------------------------------------------------
(* The retention job: runNow and cleanupRetention.                          *)

JobGoes(w, to) == job' = [job EXCEPT ![w] = to]

\* The interval timer: a run still in progress makes this one return.
TimerFires(w) ==
  /\ main[w] # "down" /\ pool[w] = "open" /\ now >= timerAt[w]
  /\ timerAt' = [timerAt EXCEPT ![w] = now + Interval]
  /\ JobGoes(w, IF job[w] = "none" THEN "connect" ELSE job[w])
  /\ UNCHANGED <<procVars, pool, leased, jobAt, scheduleVars, now, faults>>

\* pool.connect() and begin, which fixes the transaction's now().
Begins(w) ==
  /\ job[w] = "connect" /\ pool[w] = "open"
  /\ leased' = [leased EXCEPT ![w] = @ + 1]
  /\ jobAt' = [jobAt EXCEPT ![w] = now]
  /\ JobGoes(w, "began")
  /\ UNCHANGED <<procVars, pool, timerAt, scheduleVars, now, faults>>

\* The pool is ending, or the database cannot be reached.
Refused(w) ==
  /\ job[w] = "connect"
  /\ IF pool[w] = "open" THEN Fault ELSE UNCHANGED faults
  /\ JobGoes(w, "none")
  /\ UNCHANGED <<procVars, pool, leased, jobAt, timerAt, scheduleVars, now>>

LockFree == \A v \in Workers : job[v] \notin {"locked", "marked"}

\* A bug: a run that returns early keeps its client.
Release_OnCommit(w, committed) ==
  leased' = [leased EXCEPT ![w] = IF committed THEN @ - 1 ELSE @]

\* The finally block gives the client back.
Release(w, committed) == leased' = [leased EXCEPT ![w] = @ - 1]

\* The transaction ends, and with it the advisory lock.
TransactionEnds(w, committed) ==
  /\ Release(w, committed)
  /\ JobGoes(w, "none")
  /\ jobAt' = [jobAt EXCEPT ![w] = 0]
  /\ UNCHANGED <<procVars, pool, timerAt, now>>

\* pg_try_advisory_xact_lock.
Locks(w) ==
  /\ job[w] = "began" /\ LockFree
  /\ JobGoes(w, "locked")
  /\ UNCHANGED <<procVars, pool, leased, jobAt, timerAt, scheduleVars, now, faults>>

NotAcquired(w) ==
  /\ job[w] = "began" /\ ~LockFree
  /\ TransactionEnds(w, FALSE)
  /\ UNCHANGED <<scheduleVars, faults>>

\* A bug: the worker that has the lock cleans up, whoever did before it.
Due_Always(w) == TRUE

\* A bug: any later transaction finds the cleanup due.
Due_Later(w) == started < jobAt[w]

\* last_started_at <= now() - interval.
Due(w) == started <= jobAt[w] - Interval

\* The update of the schedule, uncommitted, and then the deletions.
MarksSchedule(w) ==
  /\ job[w] = "locked" /\ Due(w)
  /\ JobGoes(w, "marked")
  /\ UNCHANGED <<procVars, pool, leased, jobAt, timerAt, scheduleVars, now, faults>>

NotDue(w) ==
  /\ job[w] = "locked" /\ ~Due(w)
  /\ TransactionEnds(w, FALSE)
  /\ UNCHANGED <<scheduleVars, faults>>

Commits(w) ==
  /\ job[w] = "marked"
  /\ started' = jobAt[w]
  /\ cleanups' = Append(cleanups, jobAt[w])
  /\ TransactionEnds(w, TRUE)
  /\ UNCHANGED faults

\* A statement fails: rolled back and logged.
StatementFails(w) ==
  /\ job[w] \in {"began", "locked", "marked"}
  /\ Fault
  /\ TransactionEnds(w, FALSE)
  /\ UNCHANGED scheduleVars

-------------------------------------------------------------------------------
StartStep(w) == LoopTop(w) \/ Connected(w) \/ Serves(w) \/ StartFails(w) \/ DelayOver(w)
StopStep(w)  == Disconnected(w) \/ PoolEnds(w) \/ HealthStops(w) \/ Exits(w)
JobStep(w)   == \/ Begins(w) \/ Refused(w) \/ Locks(w) \/ NotAcquired(w)
                \/ MarksSchedule(w) \/ NotDue(w) \/ Commits(w) \/ StatementFails(w)

Time == now < MaxTime /\ now' = now + 1 /\ UNCHANGED <<procVars, jobVars, faults>>

Next ==
  \/ \E w \in Watched :
       \/ StartStep(w) \/ Takes(w) \/ Handled(w) \/ GivesUp(w)
       \/ Shutdown(w) \/ StopStep(w) \/ Dies(w) \/ Restarts(w)
  \/ \E w \in Workers : TimerFires(w) \/ JobStep(w)
  \/ Time

\* Every call returns or fails in the end, and timers of the start's delay fire.
\* Signals, records, restarts and the interval timer promise nothing.
Spec ==
  /\ Init /\ [][Next]_vars
  /\ \A w \in Workers : WF_vars(StartStep(w)) /\ WF_vars(Handled(w)) /\ WF_vars(StopStep(w)) /\ WF_vars(JobStep(w))

-------------------------------------------------------------------------------
\* The types; no transaction, and no cleanup on record, began in the future.
WorkerTypeOK ==
  /\ main \in [Workers -> {"down", "top", "connect", "subscribe", "delay", "serving", "thrown"}]
  /\ stopping \in [Workers -> {"no", "consumer", "app", "health", "done"}]
  /\ ready \in [Workers -> BOOLEAN] /\ connected \in [Workers -> BOOLEAN]
  /\ consuming \in [Workers -> BOOLEAN] /\ handling \in [Workers -> BOOLEAN]
  /\ settled \in [Workers -> BOOLEAN]
  /\ pool \in [Workers -> {"open", "ending", "ended"}] /\ leased \in [Workers -> Nat]
  /\ job \in [Workers -> {"none", "connect", "began", "locked", "marked"}]
  /\ jobAt \in [Workers -> 0..now] /\ timerAt \in [Workers -> Nat]
  /\ started \in {Never} \cup 0..now /\ cleanups \in Seq(0..now)
  /\ now \in 0..MaxTime /\ faults \in 0..MaxFaults

\* However a run of the retention job ends, it gives back the one client it took,
\* and no transaction is under way in a pool that has ended: the shutdown neither
\* waits for a lost client nor closes the database under a cleanup.
ClientsGivenBack == \A w \in Workers :
  /\ leased[w] = IF job[w] \in {"began", "locked", "marked"} THEN 1 ELSE 0
  /\ pool[w] = "ended" => leased[w] = 0

\* A worker answers /ready only while its consumer was started, its pool is open
\* and no shutdown has begun, although start and shutdown run at the same time;
\* and a signal that comes to a serving worker closes the pool only after the
\* record in hand is handled and no other can come.
Orderly == \A w \in Workers :
  /\ ready[w] => main[w] = "serving" /\ stopping[w] = "no" /\ pool[w] = "open"
  /\ settled[w] /\ (consuming[w] \/ handling[w]) => pool[w] = "open"

\* Of all workers, restarted ones included, one cleans up per interval, however
\* their runs overlap, and a cleanup that was rolled back does not count.
OncePerInterval == \A i, j \in 1..Len(cleanups) : i < j => cleanups[j] >= cleanups[i] + Interval

\* Whatever fails at first, a worker that starts is ready in the end, unless it is
\* stopped; a serving worker that is told to stop does, with a cleanup in
\* progress or not; and every cleanup ends.
StartsAndStops == \A w \in Workers :
  /\ main[w] # "down" ~> main[w] = "down" \/ stopping[w] # "no" \/ ready[w]
  /\ settled[w] ~> main[w] = "down"
  /\ job[w] # "none" ~> job[w] = "none"

-------------------------------------------------------------------------------
(* What the code does not do.  A signal that comes while the consumer is   *)
(* connecting for the first time finds connected FALSE: consumer.stop()    *)
(* returns, the pool ends, and then the connect succeeds.  The worker      *)
(* joins its group with nothing to handle a record with, and does not exit.*)
ConsumesWithPool == \A w \in Workers : consuming[w] => pool[w] = "open"

StopsFromAnywhere == \A w \in Workers : stopping[w] # "no" ~> main[w] = "down"

\* Readiness is set once: it says nothing of a consumer that has given up since.
ReadyMeansConsuming == \A w \in Workers : ready[w] => consuming[w]
=============================================================================
