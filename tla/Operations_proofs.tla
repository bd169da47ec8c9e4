-------------------------- MODULE Operations_proofs ---------------------------
(*****************************************************************************)
(* Proofs about how the processes run: the workers (WorkerProcess), the      *)
(* MQTT session of the gateways (GatewaySession) and the scripts that deploy *)
(* a release (Deployment), for any number of workers, gateways and versions, *)
(* and any bounds.  The modules share no variable: each theorem is about the *)
(* specification of one.                                                     *)
(*****************************************************************************)
EXTENDS WorkerProcess, GatewaySession, Deployment, TLAPS

Mains == {"down", "top", "connect", "subscribe", "delay", "serving", "thrown"}
Stops == {"no", "consumer", "app", "health", "done"}
Held  == {"locked", "marked"}

-------------------------------------------------------------------------------
(* Start and shutdown.                                                      *)

ProcType ==
  /\ main \in [Workers -> Mains] /\ stopping \in [Workers -> Stops]
  /\ ready \in [Workers -> BOOLEAN] /\ connected \in [Workers -> BOOLEAN]
  /\ consuming \in [Workers -> BOOLEAN] /\ handling \in [Workers -> BOOLEAN]
  /\ settled \in [Workers -> BOOLEAN]
  /\ pool \in [Workers -> {"open", "ending", "ended"}]

\* A process that has connected and is not stopping is known to be connected, so
\* that a signal finds it so; and the pool is open until the consumer is stopped.
ProcInv(w) ==
  /\ main[w] \in {"subscribe", "serving"} /\ stopping[w] = "no" => connected[w]
  /\ ready[w] => main[w] = "serving" /\ stopping[w] = "no"
  /\ stopping[w] \in {"no", "consumer"} => pool[w] = "open"
  /\ settled[w] => main[w] = "serving" /\ stopping[w] # "no"
  /\ settled[w] /\ stopping[w] # "consumer" => ~consuming[w] /\ ~handling[w]

Lifecycle == ProcType /\ \A w \in Workers : ProcInv(w)

LEMMA LifecycleOrderly == Lifecycle => Orderly
  BY DEF Lifecycle, ProcInv, Orderly, ProcType, Stops

LEMMA LifecycleKept ==
  ASSUME Lifecycle, UNCHANGED <<procVars, pool>>
  PROVE  Lifecycle'
  BY DEF Lifecycle, ProcType, ProcInv, procVars

LEMMA LifecycleStarts ==
  ASSUME Lifecycle, NEW w \in Workers, StartStep(w)
  PROVE  Lifecycle'
<1>1. CASE LoopTop(w)
  BY <1>1 DEF LoopTop, Goes, jobVars, Lifecycle, ProcType, ProcInv, Mains, Stops
<1>2. CASE Connected(w)
  BY <1>2 DEF Connected, Goes, jobVars, Lifecycle, ProcType, ProcInv, Mains, Stops
<1>3. CASE Serves(w)
  BY <1>3 DEF Serves, Marks, Goes, jobVars, Lifecycle, ProcType, ProcInv, Mains, Stops
<1>4. CASE StartFails(w)
  BY <1>4 DEF StartFails, Goes, jobVars, Lifecycle, ProcType, ProcInv, Mains, Stops
<1>5. CASE DelayOver(w)
  BY <1>5 DEF DelayOver, Goes, jobVars, Lifecycle, ProcType, ProcInv, Mains, Stops
<1> QED BY <1>1, <1>2, <1>3, <1>4, <1>5 DEF StartStep

LEMMA LifecycleWorks ==
  ASSUME Lifecycle, NEW w \in Workers, Takes(w) \/ Handled(w) \/ GivesUp(w)
  PROVE  Lifecycle'
<1>1. CASE Takes(w)
  BY <1>1 DEF Takes, jobVars, Lifecycle, ProcType, ProcInv, Stops
<1>2. CASE Handled(w)
  BY <1>2 DEF Handled, jobVars, Lifecycle, ProcType, ProcInv, Stops
<1>3. CASE GivesUp(w)
  BY <1>3 DEF GivesUp, jobVars, Lifecycle, ProcType, ProcInv, Stops
<1> QED BY <1>1, <1>2, <1>3

LEMMA LifecycleSignalled ==
  ASSUME Lifecycle, NEW w \in Workers, Shutdown(w)
  PROVE  Lifecycle'
<1>1. ProcType'
  BY DEF Shutdown, StopConsumer, Closes, Lifecycle, ProcType, Stops
<1>2. ASSUME NEW v \in Workers PROVE ProcInv(v)'
  <2>1. CASE v = w /\ connected[w]
    BY <2>1 DEF Shutdown, StopConsumer, Closes, Lifecycle, ProcType, ProcInv, Stops
  <2>2. CASE v = w /\ ~connected[w]
    BY <2>2 DEF Shutdown, StopConsumer, Closes, Lifecycle, ProcType, ProcInv, Stops
  <2>3. CASE v # w
    BY <2>3 DEF Shutdown, StopConsumer, Closes, Lifecycle, ProcType, ProcInv, Stops
  <2> QED BY <2>1, <2>2, <2>3
<1> QED BY <1>1, <1>2 DEF Lifecycle

LEMMA LifecycleGone ==
  ASSUME Lifecycle, NEW w \in Workers, Gone(w)
  PROVE  Lifecycle'
  BY DEF Gone, Goes, Lifecycle, ProcType, ProcInv, Mains, Stops

LEMMA LifecycleStops ==
  ASSUME Lifecycle, NEW w \in Workers, StopStep(w)
  PROVE  Lifecycle'
<1>1. CASE Disconnected(w)
  BY <1>1 DEF Disconnected, Closes, Lifecycle, ProcType, ProcInv, Stops
<1>2. CASE PoolEnds(w)
  BY <1>2 DEF PoolEnds, Lifecycle, ProcType, ProcInv, Stops
<1>3. CASE HealthStops(w)
  BY <1>3 DEF HealthStops, jobVars, Lifecycle, ProcType, ProcInv, Stops
<1>4. CASE Exits(w)
  BY <1>4, LifecycleGone DEF Exits
<1> QED BY <1>1, <1>2, <1>3, <1>4 DEF StopStep

LEMMA LifecycleRestarts ==
  ASSUME Lifecycle, NEW w \in Workers, Restarts(w)
  PROVE  Lifecycle'
  BY DEF Restarts, Goes, Lifecycle, ProcType, ProcInv, Mains, Stops

LEMMA LifecycleInductive ==
  ASSUME Lifecycle, [Next]_vars
  PROVE  Lifecycle'
<1>1. ASSUME NEW w \in Watched, StartStep(w) \/ Takes(w) \/ Handled(w) \/ GivesUp(w)
      PROVE  Lifecycle'
  BY <1>1, LifecycleStarts, LifecycleWorks, ConstantsAssumption DEF ConstantsAssumption
<1>2. ASSUME NEW w \in Watched, Shutdown(w) \/ StopStep(w) \/ Dies(w) \/ Restarts(w)
      PROVE  Lifecycle'
  BY <1>2, LifecycleSignalled, LifecycleStops, LifecycleGone, LifecycleRestarts, ConstantsAssumption
     DEF ConstantsAssumption, Dies
<1>3. ASSUME NEW w \in Workers, TimerFires(w) \/ JobStep(w)
      PROVE  Lifecycle'
  BY <1>3, LifecycleKept DEF TimerFires, JobStep, Begins, Refused, Locks, NotAcquired, MarksSchedule,
     NotDue, Commits, StatementFails, TransactionEnds
<1>4. CASE Time \/ UNCHANGED vars
  BY <1>4, LifecycleKept DEF Time, vars, jobVars
<1> QED BY <1>1, <1>2, <1>3, <1>4 DEF Next

LEMMA LifecycleInitially == Init => Lifecycle
<1> SUFFICES ASSUME Init PROVE Lifecycle
  OBVIOUS
<1>1. ProcType
  BY DEF Init, ProcType, Mains, Stops
<1>2. ASSUME NEW w \in Workers PROVE ProcInv(w)
  <2>1. stopping[w] = "no" /\ settled[w] = FALSE /\ pool[w] = "open"
    BY DEF Init
  <2>2. main[w] \in {"subscribe", "serving"} => connected[w]
    BY DEF Init
  <2>3. ready[w] => main[w] = "serving"
    BY DEF Init
  <2> QED BY <2>1, <2>2, <2>3 DEF ProcInv
<1> QED BY <1>1, <1>2 DEF Lifecycle

\* Readiness and the order of the shutdown, however they interleave with the
\* start: for any workers and bounds (main.ts, telemetry-consumer.ts).
THEOREM WorkersOrderly == Spec => []Orderly
  BY LifecycleInitially, LifecycleInductive, LifecycleOrderly, PTL DEF Spec

-------------------------------------------------------------------------------
(* The schedule.                                                            *)

\* The cleanups there have been, an interval apart, the last one on record.
Record ==
  /\ cleanups \in Seq(Int) /\ started \in Int
  /\ Len(cleanups) > 0 => cleanups[Len(cleanups)] = started
  /\ OncePerInterval

\* One transaction at a time holds the advisory lock, and the one that has marked
\* the schedule found it due: nothing has been committed since.
Schedule ==
  /\ job \in [Workers -> {"none", "connect", "began"} \cup Held]
  /\ jobAt \in [Workers -> Int] /\ now \in Int
  /\ \A v, w \in Workers : job[v] \in Held /\ job[w] \in Held => v = w
  /\ \A w \in Workers : job[w] = "marked" => started <= jobAt[w] - Interval
  /\ Record

LEMMA RecordKept == ASSUME Record, UNCHANGED scheduleVars PROVE Record'
  BY DEF Record, OncePerInterval, scheduleVars

\* A cleanup that was due follows all those on record.
LEMMA RecordGrows ==
  ASSUME Record, NEW t \in Int, started <= t - Interval, started' = t, cleanups' = Append(cleanups, t)
  PROVE  Record'
<1>i. Interval \in Nat
  BY ConstantsAssumption DEF ConstantsAssumption
<1>1. /\ cleanups' \in Seq(Int) /\ Len(cleanups) \in Nat /\ Len(cleanups') = Len(cleanups) + 1
      /\ cleanups'[Len(cleanups) + 1] = t
      /\ \A k \in 1 .. Len(cleanups) : cleanups'[k] = cleanups[k] /\ cleanups[k] \in Int
  BY DEF Record
<1>2. ASSUME NEW i \in 1 .. Len(cleanups'), NEW j \in 1 .. Len(cleanups'), i < j
      PROVE  cleanups'[j] >= cleanups'[i] + Interval
  <2>1. i \in 1 .. Len(cleanups)
    BY <1>1, <1>2
  <2>2. CASE j = Len(cleanups) + 1
    <3>1. cleanups[i] <= started
      <4>1. CASE i = Len(cleanups)
        BY <1>1, <2>1, <4>1 DEF Record
      <4>2. CASE i < Len(cleanups)
        <5>1. cleanups[Len(cleanups)] >= cleanups[i] + Interval
          BY <1>1, <2>1, <4>2 DEF Record, OncePerInterval
        <5> QED BY <1>i, <1>1, <2>1, <4>2, <5>1 DEF Record
      <4> QED BY <1>1, <2>1, <4>1, <4>2
    <3> QED BY <1>i, <1>1, <2>1, <2>2, <3>1 DEF Record
  <2>3. CASE j # Len(cleanups) + 1
    <3>1. j \in 1 .. Len(cleanups)
      BY <1>1, <2>3
    <3> QED BY <1>1, <1>2, <2>1, <3>1 DEF Record, OncePerInterval
  <2> QED BY <2>2, <2>3
<1> QED BY <1>1, <1>2 DEF Record, OncePerInterval

LEMMA ScheduleKept ==
  ASSUME Schedule, UNCHANGED <<job, jobAt, scheduleVars>>, now' \in Int
  PROVE  Schedule'
  BY RecordKept DEF Schedule, scheduleVars

\* A transaction that ends gives up the lock; the schedule is as it was, or no
\* other transaction has marked it.
LEMMA ScheduleEnds ==
  ASSUME Schedule, NEW w \in Workers, TransactionEnds(w, FALSE) \/ TransactionEnds(w, TRUE),
         Record', started' = started \/ job[w] \in Held
  PROVE  Schedule'
<1>1. job' = [job EXCEPT ![w] = "none"] /\ jobAt' = [jobAt EXCEPT ![w] = 0] /\ now' = now
  BY DEF TransactionEnds, JobGoes
<1>2. \A v \in Workers : job'[v] \in Held => job'[v] = job[v] /\ v # w /\ jobAt'[v] = jobAt[v]
  BY <1>1 DEF Schedule, Held
<1>3. \A v \in Workers : job'[v] = "marked" => started' = started
  BY <1>2 DEF Schedule, Held
<1> QED BY <1>1, <1>2, <1>3 DEF Schedule, Held

LEMMA ScheduleSteps ==
  ASSUME Schedule, NEW w \in Workers, JobStep(w)
  PROVE  Schedule'
<1>i. Interval \in Int
  BY ConstantsAssumption DEF ConstantsAssumption
<1>r. ASSUME UNCHANGED scheduleVars PROVE Record' /\ started' = started
  BY <1>r, RecordKept DEF Schedule, scheduleVars
<1>1. CASE Begins(w)
  BY <1>1, <1>r DEF Begins, JobGoes, procVars, Schedule, Held
<1>2. CASE Refused(w)
  BY <1>2, <1>r DEF Refused, JobGoes, procVars, Schedule, Held
<1>3. CASE Locks(w)
  BY <1>3, <1>r DEF Locks, LockFree, JobGoes, procVars, Schedule, Held
<1>4. CASE NotAcquired(w)
  BY <1>4, <1>r, ScheduleEnds DEF NotAcquired
<1>5. CASE MarksSchedule(w)
  BY <1>5, <1>i, <1>r DEF MarksSchedule, Due, JobGoes, procVars, Schedule, Held
<1>6. CASE NotDue(w)
  BY <1>6, <1>r, ScheduleEnds DEF NotDue
<1>7. CASE Commits(w)
  <2>1. started' = jobAt[w] /\ cleanups' = Append(cleanups, jobAt[w]) /\ jobAt[w] \in Int /\ job[w] \in Held
        /\ started <= jobAt[w] - Interval /\ Record
    BY <1>7 DEF Commits, Schedule, Held
  <2>2. Record'
    BY <2>1, RecordGrows
  <2> QED BY <1>7, <2>1, <2>2, ScheduleEnds DEF Commits
<1>8. CASE StatementFails(w)
  BY <1>8, <1>r, ScheduleEnds DEF StatementFails
<1> QED BY <1>1, <1>2, <1>3, <1>4, <1>5, <1>6, <1>7, <1>8 DEF JobStep

LEMMA ScheduleGone ==
  ASSUME Schedule, NEW w \in Workers, Gone(w)
  PROVE  Schedule'
<1>1. Record' /\ started' = started
  BY RecordKept DEF Gone, Schedule, scheduleVars
<1> QED BY <1>1 DEF Gone, Schedule, Held

LEMMA ScheduleInductive ==
  ASSUME Schedule, [Next]_vars
  PROVE  Schedule'
<1>0. now \in Int
  BY DEF Schedule
<1>r. ASSUME UNCHANGED scheduleVars PROVE Record' /\ started' = started
  BY <1>r, RecordKept DEF Schedule, scheduleVars
<1>1. ASSUME NEW w \in Watched, StartStep(w) \/ Takes(w) \/ Handled(w) \/ GivesUp(w) \/ Shutdown(w)
      PROVE  Schedule'
  BY <1>0, <1>1, ScheduleKept DEF StartStep, LoopTop, Connected, Serves, StartFails, DelayOver,
     Takes, Handled, GivesUp, Shutdown, jobVars
<1>2. ASSUME NEW w \in Watched, StopStep(w) \/ Dies(w)
      PROVE  Schedule'
  <2>1. w \in Workers
    BY <1>2, ConstantsAssumption DEF ConstantsAssumption
  <2>2. CASE Disconnected(w) \/ PoolEnds(w) \/ HealthStops(w)
    BY <1>0, <2>2, ScheduleKept DEF Disconnected, PoolEnds, HealthStops, jobVars
  <2>3. CASE Exits(w) \/ Dies(w)
    BY <2>1, <2>3, ScheduleGone DEF Exits, Dies
  <2> QED BY <1>2, <2>2, <2>3 DEF StopStep
<1>3. ASSUME NEW w \in Watched, Restarts(w)
      PROVE  Schedule'
  BY <1>3, <1>r, ConstantsAssumption DEF ConstantsAssumption, Restarts, Schedule, Held
<1>4. ASSUME NEW w \in Workers, TimerFires(w)
      PROVE  Schedule'
  BY <1>4, <1>r DEF TimerFires, JobGoes, Schedule, Held
<1>5. CASE Time \/ UNCHANGED vars
  BY <1>0, <1>5, ScheduleKept DEF Time, vars, jobVars
<1> QED BY <1>1, <1>2, <1>3, <1>4, <1>5, ScheduleSteps DEF Next, vars, jobVars

\* Whatever workers there are, however their runs overlap and they are restarted,
\* every cleanup is committed an interval after the one before it
\* (postgres-service.ts, cleanupRetention).
THEOREM OneCleanupPerInterval == Spec => []OncePerInterval
<1>1. Init => Schedule
  BY ConstantsAssumption DEF ConstantsAssumption, Init, Never, Schedule, Held, Record, OncePerInterval
<1>2. Schedule => OncePerInterval
  BY DEF Schedule, Record
<1> QED BY <1>1, <1>2, ScheduleInductive, PTL DEF Spec

-----------------------------------------------------------------------------
(* The clients of the pool, and the clock.                                  *)

InTransaction == {"began", "locked", "marked"}

\* A run of the job that is in a transaction has one client of a pool that has not ended.
Clients ==
  /\ job \in [Workers -> {"none", "connect"} \cup InTransaction]
  /\ leased = [w \in Workers |-> IF job[w] \in InTransaction THEN 1 ELSE 0]
  /\ \A w \in Workers : pool[w] = "ended" => job[w] \notin InTransaction

\* A process that is down has left no run of the job.
DownIsIdle == \A w \in Workers : main[w] = "down" => job[w] = "none"

Clocks ==
  /\ jobAt \in [Workers -> 0..now] /\ timerAt \in [Workers -> Nat]
  /\ started \in {Never} \cup 0..now /\ cleanups \in Seq(0..now)
  /\ now \in 0..MaxTime /\ faults \in 0..MaxFaults

LEMMA ClientsKept ==
  ASSUME Clients, UNCHANGED <<leased, job>>, UNCHANGED pool \/ \E w \in Workers : pool' = [pool EXCEPT ![w] = "ending"],
         ProcType
  PROVE  Clients'
<1>1. \A w \in Workers : pool'[w] = "ended" => pool[w] = "ended"
  BY DEF ProcType
<1> QED BY <1>1 DEF Clients

\* A run takes its client, moves on, or gives the client back.
LEMMA JobMoves ==
  ASSUME Clients, NEW w \in Workers, NEW to \in {"none", "connect"} \cup InTransaction, job' = [job EXCEPT ![w] = to],
         leased' = [leased EXCEPT ![w] = IF to \in InTransaction THEN 1 ELSE 0],
         \A v \in Workers : pool'[v] = "ended" => pool[v] = "ended" \/ v = w,
         pool'[w] = "ended" => to \notin InTransaction
  PROVE  Clients'
<1>1. job' \in [Workers -> {"none", "connect"} \cup InTransaction]
  BY DEF Clients
<1>2. leased' = [v \in Workers |-> IF job'[v] \in InTransaction THEN 1 ELSE 0]
  BY DEF Clients
<1>3. ASSUME NEW v \in Workers, pool'[v] = "ended" PROVE job'[v] \notin InTransaction
  BY <1>3 DEF Clients
<1> QED BY <1>1, <1>2, <1>3 DEF Clients

LEMMA TransactionReturns ==
  ASSUME Clients, NEW w \in Workers, job[w] \in InTransaction,
         TransactionEnds(w, FALSE) \/ TransactionEnds(w, TRUE)
  PROVE  Clients'
<1>1. leased[w] = 1 /\ leased \in [Workers -> {0, 1}]
  BY DEF Clients
<1>2. leased' = [leased EXCEPT ![w] = leased[w] - 1]
  BY DEF TransactionEnds, Release
<1>3. leased[w] - 1 = 0
  BY <1>1
<1>4. leased' = [leased EXCEPT ![w] = IF "none" \in InTransaction THEN 1 ELSE 0]
  BY <1>2, <1>3 DEF InTransaction
<1>5. job' = [job EXCEPT ![w] = "none"] /\ pool' = pool /\ "none" \notin InTransaction
  BY DEF TransactionEnds, JobGoes, InTransaction
<1> QED BY <1>4, <1>5, JobMoves

LEMMA ClientsStep ==
  ASSUME Clients, ProcType, NEW w \in Workers, JobStep(w) \/ TimerFires(w)
  PROVE  Clients'
<1>0. leased[w] = (IF job[w] \in InTransaction THEN 1 ELSE 0) /\ leased \in [Workers -> {0, 1}]
      /\ job[w] \in {"none", "connect"} \cup InTransaction
      /\ job \in [Workers -> {"none", "connect"} \cup InTransaction]
  BY DEF Clients
<1>1. CASE Begins(w)
  <2>1. leased' = [leased EXCEPT ![w] = leased[w] + 1] /\ leased[w] = 0 /\ job[w] = "connect"
    BY <1>0, <1>1 DEF Begins, InTransaction
  <2>2. leased[w] + 1 = 1
    BY <2>1
  <2>3. leased' = [leased EXCEPT ![w] = IF "began" \in InTransaction THEN 1 ELSE 0]
    BY <2>1, <2>2 DEF InTransaction
  <2>4. job' = [job EXCEPT ![w] = "began"] /\ pool' = pool /\ pool[w] = "open" /\ "began" \in InTransaction
    BY <1>1 DEF Begins, JobGoes, InTransaction
  <2> QED BY <2>3, <2>4, JobMoves
<1>2. CASE Refused(w)
  <2>1. job' = [job EXCEPT ![w] = "none"] /\ leased' = leased /\ pool' = pool /\ "none" \notin InTransaction /\ leased[w] = 0
    BY <1>0, <1>2 DEF Refused, JobGoes, InTransaction
  <2>2. leased' = [leased EXCEPT ![w] = IF "none" \in InTransaction THEN 1 ELSE 0]
    BY <1>0, <2>1
  <2> QED BY <2>1, <2>2, JobMoves
<1>3. CASE Locks(w)
  <2>1. job' = [job EXCEPT ![w] = "locked"] /\ leased' = leased /\ pool' = pool /\ "locked" \in InTransaction
        /\ leased[w] = 1 /\ job[w] \in InTransaction
    BY <1>0, <1>3 DEF Locks, JobGoes, InTransaction, procVars
  <2>2. leased' = [leased EXCEPT ![w] = IF "locked" \in InTransaction THEN 1 ELSE 0]
    BY <1>0, <2>1
  <2>3. pool[w] # "ended"
    BY <2>1 DEF Clients
  <2> QED BY <2>1, <2>2, <2>3, JobMoves
<1>4. CASE MarksSchedule(w)
  <2>1. job' = [job EXCEPT ![w] = "marked"] /\ leased' = leased /\ pool' = pool /\ "marked" \in InTransaction
        /\ leased[w] = 1 /\ job[w] \in InTransaction
    BY <1>0, <1>4 DEF MarksSchedule, JobGoes, InTransaction, procVars
  <2>2. leased' = [leased EXCEPT ![w] = IF "marked" \in InTransaction THEN 1 ELSE 0]
    BY <1>0, <2>1
  <2>3. pool[w] # "ended"
    BY <2>1 DEF Clients
  <2> QED BY <2>1, <2>2, <2>3, JobMoves
<1>5. CASE NotAcquired(w) \/ NotDue(w) \/ Commits(w) \/ StatementFails(w)
  <2>1. job[w] \in InTransaction /\ (TransactionEnds(w, FALSE) \/ TransactionEnds(w, TRUE))
    BY <1>5 DEF NotAcquired, NotDue, Commits, StatementFails, InTransaction
  <2> QED BY <2>1, TransactionReturns
<1>6. CASE TimerFires(w)
  <2>1. job' = [job EXCEPT ![w] = IF job[w] = "none" THEN "connect" ELSE job[w]] /\ leased' = leased /\ pool' = pool
    BY <1>6 DEF TimerFires, JobGoes
  <2>2. \A v \in Workers : job'[v] \in InTransaction <=> job[v] \in InTransaction
    BY <1>0, <2>1 DEF InTransaction
  <2>3. job' \in [Workers -> {"none", "connect"} \cup InTransaction]
    BY <1>0, <2>1
  <2> QED BY <2>1, <2>2, <2>3 DEF Clients
<1> QED BY <1>1, <1>2, <1>3, <1>4, <1>5, <1>6 DEF JobStep

LEMMA ClientsLeft ==
  ASSUME Clients, ProcType, NEW w \in Workers, Gone(w)
  PROVE  Clients'
<1>1. job' = [job EXCEPT ![w] = "none"] /\ leased' = [leased EXCEPT ![w] = IF "none" \in InTransaction THEN 1 ELSE 0]
      /\ pool' = [pool EXCEPT ![w] = "open"] /\ "none" \notin InTransaction
  BY DEF Gone, InTransaction
<1>2. \A v \in Workers : pool'[v] = "ended" => pool[v] = "ended"
  BY <1>1 DEF ProcType
<1> QED BY <1>1, <1>2, JobMoves

LEMMA ClientsInductive ==
  ASSUME Clients, DownIsIdle, ProcType, [Next]_vars
  PROVE  Clients'
<1>0. Watched \subseteq Workers
  BY ConstantsAssumption DEF ConstantsAssumption
<1>1. ASSUME NEW w \in Watched, StartStep(w) \/ Takes(w) \/ Handled(w) \/ GivesUp(w) \/ Shutdown(w)
      PROVE  Clients'
  <2>1. UNCHANGED <<leased, job>> /\ (pool' = pool \/ pool' = [pool EXCEPT ![w] = "ending"])
    BY <1>1 DEF StartStep, LoopTop, Connected, Serves, StartFails, DelayOver, Takes, Handled, GivesUp, Shutdown,
       StopConsumer, Closes, jobVars
  <2> QED BY <1>0, <2>1, ClientsKept
<1>2. ASSUME NEW w \in Watched, StopStep(w) \/ Dies(w)
      PROVE  Clients'
  <2>1. CASE Disconnected(w) \/ HealthStops(w)
    <3>1. UNCHANGED <<leased, job>> /\ (pool' = pool \/ pool' = [pool EXCEPT ![w] = "ending"])
      BY <2>1 DEF Disconnected, HealthStops, Closes, jobVars
    <3> QED BY <1>0, <3>1, ClientsKept
  <2>2. CASE PoolEnds(w)
    <3>1. leased[w] = 0 /\ pool' = [pool EXCEPT ![w] = "ended"] /\ UNCHANGED <<leased, job>>
      BY <2>2 DEF PoolEnds
    <3>2. w \in Workers /\ job[w] \notin InTransaction
      BY <1>0, <3>1 DEF Clients
    <3>3. \A v \in Workers : pool'[v] = "ended" => pool[v] = "ended" \/ v = w
      BY <3>1 DEF ProcType
    <3> QED BY <3>1, <3>2, <3>3 DEF Clients
  <2>3. CASE Exits(w) \/ Dies(w)
    BY <1>0, <2>3, ClientsLeft DEF Exits, Dies
  <2> QED BY <1>2, <2>1, <2>2, <2>3 DEF StopStep
<1>3. ASSUME NEW w \in Watched, Restarts(w)
      PROVE  Clients'
  <2>1. job' = [job EXCEPT ![w] = "connect"] /\ UNCHANGED <<leased, pool>> /\ main[w] = "down"
    BY <1>3 DEF Restarts
  <2>2. w \in Workers /\ job[w] = "none" /\ "none" \notin InTransaction /\ "connect" \notin InTransaction
    BY <1>0, <2>1 DEF DownIsIdle, InTransaction
  <2>3. \A v \in Workers : job'[v] \in InTransaction <=> job[v] \in InTransaction
    BY <2>1, <2>2 DEF Clients
  <2>4. job' \in [Workers -> {"none", "connect"} \cup InTransaction]
    BY <2>1 DEF Clients
  <2> QED BY <2>1, <2>3, <2>4 DEF Clients
<1>4. ASSUME NEW w \in Workers, TimerFires(w) \/ JobStep(w)
      PROVE  Clients'
  BY <1>4, ClientsStep
<1>5. CASE Time \/ UNCHANGED vars
  BY <1>5, ClientsKept DEF Time, vars, jobVars
<1> QED BY <1>1, <1>2, <1>3, <1>4, <1>5 DEF Next

LEMMA DownInductive ==
  ASSUME DownIsIdle, Clients, ProcType, [Next]_vars
  PROVE  DownIsIdle'
<1>0. Watched \subseteq Workers /\ job \in [Workers -> {"none", "connect"} \cup InTransaction]
      /\ main \in [Workers -> Mains]
  BY ConstantsAssumption DEF ConstantsAssumption, Clients, ProcType
<1>1. ASSUME NEW w \in Watched, StartStep(w) \/ Restarts(w)
      PROVE  DownIsIdle'
  <2>1. PICK to \in Mains \ {"down"} : main' = [main EXCEPT ![w] = to]
    BY <1>1 DEF StartStep, LoopTop, Connected, Serves, StartFails, DelayOver, Restarts, Goes, Mains
  <2>2. job' = job \/ job' = [job EXCEPT ![w] = "connect"]
    BY <1>1 DEF StartStep, LoopTop, Connected, Serves, StartFails, DelayOver, Restarts, jobVars
  <2> QED BY <1>0, <2>1, <2>2 DEF DownIsIdle
<1>2. ASSUME NEW w \in Watched, Exits(w) \/ Dies(w)
      PROVE  DownIsIdle'
  BY <1>0, <1>2 DEF Exits, Dies, Gone, Goes, DownIsIdle
<1>3. ASSUME NEW w \in Workers, TimerFires(w) \/ JobStep(w)
      PROVE  DownIsIdle'
  <2>1. main' = main /\ main[w] # "down"
    BY <1>3 DEF TimerFires, JobStep, Begins, Refused, Locks, NotAcquired, MarksSchedule, NotDue, Commits,
       StatementFails, TransactionEnds, DownIsIdle, procVars
  <2>2. \E to : job' = [job EXCEPT ![w] = to]
    BY <1>3 DEF TimerFires, JobStep, Begins, Refused, Locks, NotAcquired, MarksSchedule, NotDue, Commits,
       StatementFails, TransactionEnds, JobGoes
  <2> QED BY <1>0, <2>1, <2>2 DEF DownIsIdle
<1>4. CASE UNCHANGED <<main, job>>
  BY <1>4 DEF DownIsIdle
<1> QED BY <1>1, <1>2, <1>3, <1>4 DEF Next, StopStep, Takes, Handled, GivesUp, Shutdown, Disconnected, PoolEnds, HealthStops,
    Time, vars, procVars, jobVars

LEMMA SeqOfMore ==
  ASSUME NEW A, NEW B, A \subseteq B, NEW q \in Seq(A)
  PROVE  q \in Seq(B)
<1>1. Len(q) \in Nat /\ q = [k \in 1..Len(q) |-> q[k]] /\ \A k \in 1..Len(q) : q[k] \in B
  OBVIOUS
<1>2. [k \in 1..Len(q) |-> q[k]] \in Seq(B)
  BY <1>1
<1> QED BY <1>1, <1>2

\* The clock only moves forward, and what is noted is the present.
LEMMA ClocksGrow ==
  ASSUME Clocks, NEW w, faults' \in 0..MaxFaults,
         (now' = now + 1 /\ now < MaxTime) \/ now' = now,
         jobAt' = jobAt \/ jobAt' = [jobAt EXCEPT ![w] = 0] \/ jobAt' = [jobAt EXCEPT ![w] = now],
         timerAt' = timerAt \/ timerAt' = [timerAt EXCEPT ![w] = 0] \/ timerAt' = [timerAt EXCEPT ![w] = now + Interval],
         \/ UNCHANGED scheduleVars
         \/ w \in Workers /\ started' = jobAt[w] /\ cleanups' = Append(cleanups, jobAt[w])
  PROVE  Clocks'
<1>1. now \in 0..MaxTime /\ MaxTime \in Nat /\ Interval \in Nat
  BY ConstantsAssumption DEF ConstantsAssumption, Clocks
<1>2. now' \in 0..MaxTime /\ 0..now \subseteq 0..now' /\ 0 \in 0..now' /\ now \in 0..now'
  BY <1>1
<1>3. now + Interval \in Nat /\ 0 \in Nat
  BY <1>1
<1>4. jobAt' \in [Workers -> 0..now']
  <2>1. jobAt \in [Workers -> 0..now']
    BY <1>2 DEF Clocks
  <2> QED BY <1>2, <2>1
<1>5. timerAt' \in [Workers -> Nat]
  BY <1>3 DEF Clocks
<1>6. started' \in {Never} \cup 0..now'
  BY <1>2 DEF Clocks, scheduleVars
<1>7. cleanups' \in Seq(0..now')
  <2>1. cleanups \in Seq(0..now')
    <3>1. cleanups \in Seq(0..now)
      BY DEF Clocks
    <3> QED BY <1>2, <3>1, SeqOfMore
  <2>2. ASSUME w \in Workers, cleanups' = Append(cleanups, jobAt[w]) PROVE cleanups' \in Seq(0..now')
    <3>1. jobAt[w] \in 0..now'
      BY <1>2, <2>2 DEF Clocks
    <3> QED BY <2>1, <2>2, <3>1
  <2>3. CASE UNCHANGED scheduleVars
    BY <2>1, <2>3 DEF scheduleVars
  <2> QED BY <2>2, <2>3
<1> QED BY <1>2, <1>4, <1>5, <1>6, <1>7 DEF Clocks, Never

LEMMA FaultBounded ==
  ASSUME Clocks, Fault
  PROVE  faults' \in 0..MaxFaults
<1>1. MaxFaults \in Nat /\ faults \in 0..MaxFaults /\ faults < MaxFaults /\ faults' = faults + 1
  BY ConstantsAssumption DEF ConstantsAssumption, Clocks, Fault
<1> QED BY <1>1

LEMMA ClocksInductive ==
  ASSUME Clocks, [Next]_vars
  PROVE  Clocks'
<1>0. Watched \subseteq Workers /\ faults \in 0..MaxFaults
  BY ConstantsAssumption DEF ConstantsAssumption, Clocks
<1>1. ASSUME NEW w \in Watched, StartStep(w) \/ Takes(w) \/ Handled(w) \/ GivesUp(w) \/ Shutdown(w)
                                \/ Disconnected(w) \/ PoolEnds(w) \/ HealthStops(w)
      PROVE  Clocks'
  <2>1. UNCHANGED <<jobAt, timerAt, scheduleVars, now>> /\ (UNCHANGED faults \/ Fault)
    BY <1>1 DEF StartStep, LoopTop, Connected, Serves, StartFails, DelayOver, Takes, Handled, GivesUp, Shutdown,
       Disconnected, PoolEnds, HealthStops, jobVars
  <2> QED BY <1>0, <2>1, ClocksGrow, FaultBounded
<1>2. ASSUME NEW w \in Watched, Exits(w) \/ Dies(w) \/ Restarts(w)
      PROVE  Clocks'
  <2>1. UNCHANGED faults \/ Fault
    BY <1>2 DEF Exits, Dies, Restarts
  <2>2. /\ UNCHANGED <<now, scheduleVars>> /\ (jobAt' = jobAt \/ jobAt' = [jobAt EXCEPT ![w] = 0])
        /\ (timerAt' = [timerAt EXCEPT ![w] = 0] \/ timerAt' = [timerAt EXCEPT ![w] = now + Interval])
    BY <1>2 DEF Exits, Dies, Restarts, Gone
  <2> QED BY <1>0, <2>1, <2>2, ClocksGrow, FaultBounded
<1>3. ASSUME NEW w \in Workers, TimerFires(w) \/ JobStep(w)
      PROVE  Clocks'
  <2>1. UNCHANGED faults \/ Fault
    BY <1>3 DEF TimerFires, JobStep, Begins, Refused, Locks, NotAcquired, MarksSchedule, NotDue, Commits, StatementFails
  <2>2. /\ now' = now
        /\ UNCHANGED scheduleVars \/ (started' = jobAt[w] /\ cleanups' = Append(cleanups, jobAt[w]))
        /\ (timerAt' = timerAt \/ timerAt' = [timerAt EXCEPT ![w] = now + Interval])
        /\ (jobAt' = jobAt \/ jobAt' = [jobAt EXCEPT ![w] = 0] \/ jobAt' = [jobAt EXCEPT ![w] = now])
    BY <1>3 DEF TimerFires, JobStep, Begins, Refused, Locks, NotAcquired, MarksSchedule, NotDue, Commits,
       StatementFails, TransactionEnds
  <2> QED BY <1>0, <2>1, <2>2, ClocksGrow, FaultBounded
<1>4. CASE Time
  BY <1>0, <1>4, ClocksGrow DEF Time, jobVars
<1>5. CASE UNCHANGED vars
  BY <1>5 DEF Clocks, vars, jobVars, scheduleVars, Never
<1> QED BY <1>1, <1>2, <1>3, <1>4, <1>5 DEF Next, StopStep

WorkerInv == Lifecycle /\ Clients /\ DownIsIdle /\ Clocks

LEMMA WorkerInvAlways == Spec => []WorkerInv
<1>1. Init => WorkerInv
  <2> SUFFICES ASSUME Init PROVE WorkerInv
    OBVIOUS
  <2>1. Lifecycle
    BY LifecycleInitially
  <2>2. Clients /\ DownIsIdle
    BY DEF Init, Clients, DownIsIdle, InTransaction
  <2>3. Interval \in Nat /\ 0 \in 0..MaxTime /\ 0 \in 0..MaxFaults /\ 0 \in 0..0
    BY ConstantsAssumption DEF ConstantsAssumption
  <2>4. Clocks
    BY <2>3 DEF Init, Clocks
  <2> QED BY <2>1, <2>2, <2>4 DEF WorkerInv
<1>2. WorkerInv /\ [Next]_vars => WorkerInv'
  BY LifecycleInductive, ClientsInductive, DownInductive, ClocksInductive DEF WorkerInv, Lifecycle
<1> QED BY <1>1, <1>2, PTL DEF Spec

\* However the processes of the workers start, stop, die and are restarted, their
\* state is of its types, and no cleanup is on record from the future (main.ts).
THEOREM WorkersTyped == Spec => []WorkerTypeOK
<1>1. WorkerInv => WorkerTypeOK
  <2> SUFFICES ASSUME WorkerInv PROVE WorkerTypeOK
    OBVIOUS
  <2>1. ProcType /\ Clients /\ Clocks
    BY DEF WorkerInv, Lifecycle
  <2>2. leased \in [Workers -> Nat]
    BY <2>1 DEF Clients
  <2>3. job \in [Workers -> {"none", "connect", "began", "locked", "marked"}]
    BY <2>1 DEF Clients, InTransaction
  <2> QED BY <2>1, <2>2, <2>3 DEF WorkerTypeOK, ProcType, Mains, Stops, Clocks
<1> QED BY <1>1, WorkerInvAlways, PTL

\* Whatever way a run of the retention job ends, its client goes back to the pool
\* once, and the pool ends under no transaction (postgres-service.ts, the finally
\* block of cleanupRetention; main.ts, the shutdown).
THEOREM ClientsComeBack == Spec => []ClientsGivenBack
<1>1. WorkerInv => ClientsGivenBack
  BY DEF WorkerInv, Clients, ClientsGivenBack, InTransaction
<1> QED BY <1>1, WorkerInvAlways, PTL

-------------------------------------------------------------------------------
(* GatewaySession                                                            *)

\* Connections are numbered in the order they are made.
Numbered(g) ==
  /\ \A h \in handlers[g] : h.conn <= made[g]
  /\ wrote[g] <= made[g]

\* What a handler of the connection g has was told, and what one of them has set.
Truthful(g) ==
  /\ \A h \in handlers[g] :
       h.state = "acknowledged" /\ h.conn = connection[g] /\ connection[g] # 0 => subscribed[g]
  /\ adapterReady[g] /\ connection[g] # 0 /\ wrote[g] = connection[g] => subscribed[g]

SessionInv ==
  /\ SessionTypeOK
  /\ \A g \in Gateways : Numbered(g)
  /\ \A g \in Gateways : Truthful(g)
  /\ \A g \in Gateways : adapter[g] = "running" => CanRun(g)

\* What SessionTypeOK says of numbers.
LEMMA SessionNumbers ==
  ASSUME SessionTypeOK
  PROVE  /\ made \in [Gateways -> 0 .. MaxConnections]
         /\ connection \in [Gateways -> 0 .. MaxConnections]
         /\ wrote \in [Gateways -> 0 .. MaxConnections]
         /\ asked \in [Gateways -> 0 .. MaxRequests]
         /\ \A g \in Gateways : connection[g] = 0 \/ connection[g] = made[g]
         /\ \A g \in Gateways : \A h \in handlers[g] : h.conn \in 1 .. MaxConnections
         /\ MaxConnections \in Nat /\ MaxRequests \in Nat
<1>1. ASSUME NEW g \in Gateways, NEW h \in handlers[g] PROVE h.conn \in 1 .. MaxConnections
  <2>1. handlers[g] \subseteq [kind : {"connected", "lost"}, conn : 1 .. MaxConnections,
                               state : {"waiting", "acknowledged", "failed"}]
    BY DEF SessionTypeOK
  <2> QED BY <2>1, Zenon
<1> QED BY <1>1, SessionAssumption, Zenon DEF SessionTypeOK, SessionAssumption

LEMMA SessionInitially == SessionInit => SessionInv
  BY SessionAssumption DEF SessionAssumption, SessionInit, SessionInv, SessionTypeOK, Numbered, Truthful

\* A step that only the main routine, the adapter or the probe of a gateway takes.
LEMMA SessionSame ==
  ASSUME SessionInv, SessionTypeOK', UNCHANGED <<settings, made>>,
         \A g \in Gateways : adapter'[g] = "running" => adapter[g] = "running",
         \A g \in Gateways :
           \/ /\ handlers'[g] = handlers[g] /\ wrote'[g] = wrote[g] /\ adapterReady'[g] = adapterReady[g]
              /\ connection'[g] = connection[g] /\ subscribed'[g] = subscribed[g]
           \/ Numbered(g)' /\ Truthful(g)'
  PROVE  SessionInv'
<1>1. ASSUME NEW g \in Gateways PROVE Numbered(g)' /\ Truthful(g)'
  BY <1>1 DEF SessionInv, Numbered, Truthful
<1>2. ASSUME NEW g \in Gateways, adapter'[g] = "running" PROVE CanRun(g)'
  BY <1>2 DEF SessionInv, CanRun, ClientId
<1> QED BY <1>1, <1>2 DEF SessionInv

\* The new connection has a number of its own; of those it closes nothing is said.
LEMMA ConnectKeeps ==
  ASSUME SessionInv, NEW g \in Gateways, Connect(g)
  PROVE  SessionInv'
<1> DEFINE n == made[g] + 1
<1>0. SessionTypeOK /\ n \in 1 .. MaxConnections /\ made[g] \in Nat
  <2>1. SessionTypeOK
    BY DEF SessionInv
  <2>2. made[g] < MaxConnections
    BY DEF Connect
  <2> QED BY <2>1, <2>2, SessionNumbers
<1>1. /\ made' = [made EXCEPT ![g] = n]
      /\ connection' = [h \in Gateways |->
           CASE h = g -> n [] h \in TakenOver(g) -> 0 [] OTHER -> connection[h]]
      /\ handlers' = [h \in Gateways |-> handlers[h] \cup
           CASE h = g -> {OnConnect(n)}
             [] h \in TakenOver(g) -> {OnConnectionLost(connection[h])}
             [] OTHER -> {}]
      /\ subscribed' = [h \in Gateways |-> subscribed[h] /\ h \notin TakenOver(g)]
      /\ UNCHANGED <<settings, mainRoutine, adapter, adapterReady, wrote, httpVars>>
      /\ connection[g] = 0 /\ g \notin TakenOver(g)
  BY Zenon DEF Connect, TakenOver
<1> HIDE DEF n
<1>2. /\ connection'[g] = n /\ made'[g] = n /\ handlers'[g] = handlers[g] \cup {OnConnect(n)}
      /\ \A h \in Gateways \ {g} : made'[h] = made[h]
      /\ \A h \in Gateways \ {g} :
           \/ h \in TakenOver(g) /\ connection'[h] = 0 /\ handlers'[h] = handlers[h] \cup {OnConnectionLost(connection[h])}
           \/ h \notin TakenOver(g) /\ connection'[h] = connection[h] /\ handlers'[h] = handlers[h]
  BY <1>0, <1>1 DEF SessionTypeOK
<1>3. \A h \in TakenOver(g) : h \in Gateways /\ connection[h] # 0 /\ connection[h] = made[h]
  BY <1>0, SessionNumbers DEF TakenOver
<1>4. SessionTypeOK'
  <2>1. OnConnect(n) \in [kind : {"connected", "lost"}, conn : 1 .. MaxConnections, state : {"waiting", "acknowledged", "failed"}]
    BY <1>0 DEF OnConnect, Handler
  <2>2. \A h \in TakenOver(g) : connection[h] \in 1 .. MaxConnections
    BY <1>0, <1>3, SessionNumbers
  <2>3. \A h \in TakenOver(g) : OnConnectionLost(connection[h]) \in
          [kind : {"connected", "lost"}, conn : 1 .. MaxConnections, state : {"waiting", "acknowledged", "failed"}]
    BY <2>2 DEF OnConnectionLost, Handler
  <2>4. handlers' \in [Gateways -> SUBSET [kind : {"connected", "lost"}, conn : 1 .. MaxConnections,
                                          state : {"waiting", "acknowledged", "failed"}]]
    <3>1. \A h \in Gateways : handlers'[h] \in SUBSET [kind : {"connected", "lost"}, conn : 1 .. MaxConnections,
                                          state : {"waiting", "acknowledged", "failed"}]
      <4>1. ASSUME NEW h \in Gateways PROVE handlers'[h] \subseteq
              [kind : {"connected", "lost"}, conn : 1 .. MaxConnections, state : {"waiting", "acknowledged", "failed"}]
        <5>1. handlers[h] \subseteq
                [kind : {"connected", "lost"}, conn : 1 .. MaxConnections, state : {"waiting", "acknowledged", "failed"}]
          BY <1>0, Zenon DEF SessionTypeOK
        <5>2. \/ handlers'[h] = handlers[h] \cup {OnConnect(n)}
              \/ h \in TakenOver(g) /\ handlers'[h] = handlers[h] \cup {OnConnectionLost(connection[h])}
              \/ handlers'[h] = handlers[h]
          BY <1>2
        <5> QED BY <2>1, <2>3, <5>1, <5>2
      <4> QED BY <4>1
    <3> QED BY <1>1, <3>1
  <2>5. connection' \in [Gateways -> 0 .. MaxConnections] /\ made' \in [Gateways -> 0 .. MaxConnections]
    <3>1. \A h \in Gateways : connection'[h] \in 0 .. MaxConnections
      BY <1>0, <1>2, SessionNumbers
    <3> QED BY <1>0, <1>1, <3>1, SessionNumbers
  <2>6. \A h \in Gateways : connection'[h] \in {0, made'[h]}
    BY <1>0, <1>2, SessionNumbers
  <2>7. subscribed' \in [Gateways -> BOOLEAN]
    BY <1>0, <1>1 DEF SessionTypeOK
  <2> QED BY <1>0, <1>1, <2>4, <2>5, <2>6, <2>7 DEF SessionTypeOK, httpVars
<1>5. Numbered(g)' /\ Truthful(g)'
  <2>1. \A h \in handlers[g] : h.conn <= made[g] /\ h.conn \in Nat /\ h.conn # n
    BY <1>0, SessionNumbers DEF SessionInv, Numbered, n
  <2>2. wrote'[g] <= n /\ wrote'[g] # n
    <3>1. wrote[g] <= made[g] /\ wrote'[g] = wrote[g]
      BY <1>1 DEF SessionInv, Numbered
    <3> QED BY <1>0, <3>1, SessionNumbers DEF n
  <2>3. \A h \in handlers'[g] : h \in handlers[g] \/ (h.conn = n /\ h.state = "waiting")
    BY <1>2 DEF OnConnect, Handler
  <2>4. \A h \in handlers'[g] : h.conn <= n
    BY <1>0, <2>1, <2>3 DEF n
  <2> QED BY <1>2, <2>1, <2>2, <2>3, <2>4, Zenon DEF Numbered, Truthful
<1>6. ASSUME NEW h \in Gateways \ {g} PROVE Numbered(h)' /\ Truthful(h)'
  <2>0. Numbered(h) /\ Truthful(h) /\ made[h] \in Nat /\ made'[h] = made[h] /\ wrote'[h] = wrote[h]
    BY <1>0, <1>1, <1>2, SessionNumbers DEF SessionInv
  <2>1. CASE h \in TakenOver(g)
    <3>1. \A x \in handlers'[h] : x \in handlers[h] \/ x.conn = made[h]
      BY <1>2, <1>3, <2>1 DEF OnConnectionLost, Handler
    <3>2. connection'[h] = 0
      BY <1>2, <2>1
    <3>3. Numbered(h)'
      BY <2>0, <3>1 DEF Numbered
    <3> QED BY <3>2, <3>3 DEF Truthful
  <2>2. CASE h \notin TakenOver(g)
    BY <1>1, <1>2, <2>0, <2>2 DEF Numbered, Truthful
  <2> QED BY <2>1, <2>2
<1>7. ASSUME NEW h \in Gateways, adapter'[h] = "running" PROVE CanRun(h)'
  BY <1>1, <1>7 DEF SessionInv, CanRun, ClientId
<1> QED BY <1>4, <1>5, <1>6, <1>7 DEF SessionInv

LEMMA ConnectionEnds ==
  ASSUME SessionInv, NEW g \in Gateways, ConnectionLost(g)
  PROVE  SessionInv'
<1>0. SessionTypeOK /\ Numbered(g) /\ connection[g] = made[g] /\ made[g] \in 1 .. MaxConnections
  <2>1. SessionTypeOK /\ Numbered(g) /\ connection[g] # 0
    BY DEF SessionInv, ConnectionLost
  <2> QED BY <2>1, SessionNumbers
<1>1. /\ connection' = [connection EXCEPT ![g] = 0] /\ connection'[g] = 0
      /\ subscribed' = [subscribed EXCEPT ![g] = FALSE]
      /\ handlers' = [handlers EXCEPT ![g] = @ \cup {OnConnectionLost(made[g])}]
      /\ handlers'[g] = handlers[g] \cup {OnConnectionLost(made[g])}
      /\ UNCHANGED <<settings, mainRoutine, adapter, adapterReady, made, wrote, httpVars>>
  BY <1>0 DEF ConnectionLost, SessionTypeOK
<1>2. SessionTypeOK'
  <2>1. OnConnectionLost(made[g]) \in
          [kind : {"connected", "lost"}, conn : 1 .. MaxConnections, state : {"waiting", "acknowledged", "failed"}]
    BY <1>0 DEF OnConnectionLost, Handler
  <2>2. connection' \in [Gateways -> 0 .. MaxConnections]
    BY <1>0, <1>1, SessionNumbers
  <2>3. handlers' \in [Gateways -> SUBSET [kind : {"connected", "lost"}, conn : 1 .. MaxConnections,
                                          state : {"waiting", "acknowledged", "failed"}]]
    BY <1>0, <1>1, <2>1 DEF SessionTypeOK
  <2> QED BY <1>0, <1>1, <2>2, <2>3 DEF SessionTypeOK, httpVars
<1>3. Numbered(g)' /\ Truthful(g)'
  <2>1. \A x \in handlers'[g] : x \in handlers[g] \/ x.conn = made[g]
    BY <1>1 DEF OnConnectionLost, Handler
  <2>2. Numbered(g)'
    BY <1>0, <1>1, <2>1 DEF Numbered
  <2> QED BY <1>1, <2>2 DEF Truthful
<1>4. \A h \in Gateways \ {g} : /\ handlers'[h] = handlers[h] /\ wrote'[h] = wrote[h]
                                 /\ adapterReady'[h] = adapterReady[h]
                                 /\ connection'[h] = connection[h] /\ subscribed'[h] = subscribed[h]
  BY <1>0, <1>1 DEF SessionTypeOK
<1> QED BY <1>1, <1>2, <1>3, <1>4, SessionSame

\* The subscriptions of g, taken by the broker, make no handler wrong.
LEMMA BrokerSubscribes ==
  ASSUME SessionInv, NEW g \in Gateways, Subscribe(g)
  PROVE  SessionInv'
<1>0. SessionTypeOK /\ Numbered(g)
  BY DEF SessionInv
<1>1. SessionTypeOK'
  BY <1>0 DEF Subscribe, SessionTypeOK, httpVars
<1>2. subscribed'[g] = TRUE /\ \A h \in Gateways \ {g} : subscribed'[h] = subscribed[h]
  BY <1>0 DEF Subscribe, SessionTypeOK
<1>3. Numbered(g)' /\ Truthful(g)'
  BY <1>0, <1>2 DEF Subscribe, Numbered, Truthful
<1> QED BY <1>1, <1>2, <1>3, SessionSame DEF Subscribe

\* A handler hears of its own subscriptions only.
LEMMA HandlerIsAnswered ==
  ASSUME SessionInv, NEW g \in Gateways, SubscribeReturns(g)
  PROVE  SessionInv'
<1>0. SessionTypeOK /\ Numbered(g) /\ Truthful(g)
  BY DEF SessionInv
<1>11. PICK h \in handlers[g] : \E o \in Outcomes(g, h) :
        handlers' = [handlers EXCEPT ![g] = (@ \ {h}) \cup {[h EXCEPT !.state = o]}]
  BY DEF SubscribeReturns
<1>1. PICK o \in Outcomes(g, h) :
        handlers' = [handlers EXCEPT ![g] = (@ \ {h}) \cup {[h EXCEPT !.state = o]}]
  BY <1>11
<1>2. UNCHANGED <<settings, mainRoutine, adapter, adapterReady, connection, made, subscribed, wrote, httpVars>>
  BY DEF SubscribeReturns
<1>3. /\ h \in [kind : {"connected", "lost"}, conn : 1 .. MaxConnections, state : {"waiting", "acknowledged", "failed"}]
      /\ o \in {"acknowledged", "failed"}
      /\ o = "acknowledged" => h.conn = connection[g] /\ subscribed[g]
  BY <1>0 DEF SessionTypeOK, Outcomes
<1> DEFINE k == [h EXCEPT !.state = o]
<1>5. /\ k \in [kind : {"connected", "lost"}, conn : 1 .. MaxConnections, state : {"waiting", "acknowledged", "failed"}]
      /\ k.conn = h.conn /\ k.state = o
  BY <1>3
<1> HIDE DEF k
<1>6. handlers' = [handlers EXCEPT ![g] = (handlers[g] \ {h}) \cup {k}] /\ handlers'[g] = (handlers[g] \ {h}) \cup {k}
  BY <1>0, <1>1 DEF SessionTypeOK, k
<1>7. SessionTypeOK'
  <2>1. handlers' \in [Gateways -> SUBSET [kind : {"connected", "lost"}, conn : 1 .. MaxConnections,
                                          state : {"waiting", "acknowledged", "failed"}]]
    BY <1>0, <1>5, <1>6 DEF SessionTypeOK
  <2> QED BY <1>0, <1>2, <2>1 DEF SessionTypeOK, httpVars
<1>8. Numbered(g)'
  BY <1>0, <1>2, <1>5, <1>6 DEF Numbered
<1>9. Truthful(g)'
  BY <1>0, <1>2, <1>3, <1>5, <1>6, Zenon DEF Truthful
<1>10. \A x \in Gateways \ {g} : handlers'[x] = handlers[x]
  BY <1>0, <1>6 DEF SessionTypeOK
<1> QED BY <1>2, <1>7, <1>8, <1>9, <1>10, SessionSame

\* What a handler sets is what it was told.
LEMMA HandlerEnds ==
  ASSUME SessionInv, NEW g \in Gateways, SetReady(g)
  PROVE  SessionInv'
<1>0. SessionTypeOK /\ Numbered(g) /\ Truthful(g)
  BY DEF SessionInv
<1>1. PICK h \in handlers[g] :
        /\ handlers' = [handlers EXCEPT ![g] = @ \ {h}]
        /\ adapterReady' = [adapterReady EXCEPT ![g] = (h.state = "acknowledged")]
        /\ wrote' = [wrote EXCEPT ![g] = h.conn]
  BY DEF SetReady
<1>2. UNCHANGED <<settings, mainRoutine, adapter, connection, made, subscribed, httpVars>>
  BY DEF SetReady
<1>3. h.conn \in 1 .. MaxConnections /\ h.conn <= made[g] /\ MaxConnections \in Nat
  BY <1>0, SessionNumbers DEF Numbered
<1>4. /\ handlers'[g] = handlers[g] \ {h} /\ adapterReady'[g] = (h.state = "acknowledged") /\ wrote'[g] = h.conn
      /\ \A x \in Gateways \ {g} :
           handlers'[x] = handlers[x] /\ adapterReady'[x] = adapterReady[x] /\ wrote'[x] = wrote[x]
  BY <1>0, <1>1, Zenon DEF SessionTypeOK
<1>5. SessionTypeOK'
  <2>1. adapterReady' \in [Gateways -> BOOLEAN]
    BY <1>0, <1>1, Zenon DEF SessionTypeOK
  <2>2. wrote' \in [Gateways -> 0 .. MaxConnections]
    BY <1>0, <1>1, <1>3, SessionNumbers
  <2>3. handlers' \in [Gateways -> SUBSET [kind : {"connected", "lost"}, conn : 1 .. MaxConnections,
                                          state : {"waiting", "acknowledged", "failed"}]]
    BY <1>0, <1>1 DEF SessionTypeOK
  <2> QED BY <1>0, <1>2, <2>1, <2>2, <2>3 DEF SessionTypeOK, httpVars
<1>6. Numbered(g)'
  BY <1>0, <1>2, <1>3, <1>4 DEF Numbered
<1>7. Truthful(g)'
  BY <1>0, <1>2, <1>4, Zenon DEF Truthful
<1> QED BY <1>2, <1>4, <1>5, <1>6, <1>7, SessionSame

\* With the connection its handlers are forgotten.
LEMMA RoutineEnds ==
  ASSUME SessionInv, NEW g \in Gateways, AdapterStops(g) \/ Exit(g)
  PROVE  SessionInv'
<1>0. SessionTypeOK /\ Numbered(g)
  BY DEF SessionInv
<1>1. /\ connection' = [connection EXCEPT ![g] = 0]
      /\ subscribed' = [subscribed EXCEPT ![g] = FALSE]
      /\ adapterReady' = [adapterReady EXCEPT ![g] = FALSE]
      /\ UNCHANGED <<settings, made>>
  BY DEF AdapterStops, Exit
<1>2. /\ wrote' \in {wrote, [wrote EXCEPT ![g] = 0]}
      /\ handlers' \in {handlers, [handlers EXCEPT ![g] = {}]}
  BY DEF AdapterStops, Exit
<1>3. connection' \in [Gateways -> 0 .. MaxConnections] /\ wrote' \in [Gateways -> 0 .. MaxConnections]
  BY <1>0, <1>1, <1>2, SessionNumbers
<1>4. \A x \in Gateways \ {g} :
        /\ handlers'[x] = handlers[x] /\ wrote'[x] = wrote[x] /\ adapterReady'[x] = adapterReady[x]
        /\ connection'[x] = connection[x] /\ subscribed'[x] = subscribed[x]
  BY <1>0, <1>1, <1>2 DEF SessionTypeOK
<1>5. /\ connection'[g] = 0 /\ (wrote'[g] = wrote[g] \/ wrote'[g] = 0) /\ handlers'[g] \subseteq handlers[g]
      /\ made'[g] = made[g] /\ made[g] \in Nat
  <2>1. handlers'[g] \subseteq handlers[g]
    BY <1>0, <1>2 DEF SessionTypeOK
  <2> QED BY <1>0, <1>1, <1>2, <2>1, SessionNumbers
<1>6. Numbered(g)' /\ Truthful(g)'
  BY <1>0, <1>5 DEF Numbered, Truthful
<1>7. adapter' \in [Gateways -> {"failed", "running", "stopped"}] /\ \A x \in Gateways : adapter'[x] = "running" => adapter[x] = "running"
  BY <1>0 DEF AdapterStops, Exit, SessionTypeOK
<1>8. SessionTypeOK'
  <2>1. /\ mainRoutine' \in [Gateways -> {"serving", "signalled", "lowered", "draining", "ended"}]
        /\ accepting' = accepting /\ asked' = asked
        /\ stream' \in [Gateways -> BOOLEAN]
        /\ probe' \in [Gateways -> {"none", "postgres", "kafka", "ready", "not ready"}]
    BY <1>0 DEF AdapterStops, Exit, SessionTypeOK, httpVars
  <2>2. \A x \in Gateways : connection'[x] \in {0, made'[x]}
    BY <1>0, <1>1, <1>4, <1>5 DEF SessionTypeOK
  <2>3. subscribed' \in [Gateways -> BOOLEAN] /\ adapterReady' \in [Gateways -> BOOLEAN]
    BY <1>0, <1>1 DEF SessionTypeOK
  <2>4. handlers' \in [Gateways -> SUBSET [kind : {"connected", "lost"}, conn : 1 .. MaxConnections,
                                          state : {"waiting", "acknowledged", "failed"}]]
    BY <1>0, <1>2 DEF SessionTypeOK
  <2> QED BY <1>0, <1>1, <1>3, <1>7, <2>1, <2>2, <2>3, <2>4 DEF SessionTypeOK
<1> QED BY <1>1, <1>4, <1>6, <1>7, <1>8, SessionSame

LEMMA OthersKeepSession ==
  ASSUME SessionInv, NEW g \in Gateways,
         \/ ProbeBegins(g) \/ ProbeAnswers(g) \/ StreamOpens(g) \/ StreamCloses(g)
         \/ Signal(g) \/ LowerAccepting(g) \/ Drain(g)
  PROVE  SessionInv'
<1>0. SessionTypeOK
  BY DEF SessionInv
<1>1. UNCHANGED <<settings, adapter, mqttVars>>
  BY DEF ProbeBegins, ProbeAnswers, StreamOpens, StreamCloses, Signal, LowerAccepting, Drain
<1>2. /\ mainRoutine' \in [Gateways -> {"serving", "signalled", "lowered", "draining", "ended"}]
      /\ accepting' \in [Gateways -> BOOLEAN]
      /\ stream' \in [Gateways -> BOOLEAN]
      /\ probe' \in [Gateways -> {"none", "postgres", "kafka", "ready", "not ready"}]
  BY <1>0 DEF ProbeBegins, ProbeAnswers, StreamOpens, StreamCloses, Signal, LowerAccepting, Drain, SessionTypeOK, httpVars
<1>3. asked' \in [Gateways -> 0 .. MaxRequests]
  <2>1. asked' = asked \/ (asked[g] < MaxRequests /\ asked' = [asked EXCEPT ![g] = asked[g] + 1])
    BY DEF ProbeBegins, ProbeAnswers, StreamOpens, StreamCloses, Signal, LowerAccepting, Drain, httpVars
  <2> QED BY <1>0, <2>1, SessionNumbers
<1>4. SessionTypeOK'
  BY <1>0, <1>1, <1>2, <1>3 DEF SessionTypeOK, mqttVars
<1> QED BY <1>1, <1>4, SessionSame DEF mqttVars

LEMMA SessionInvInductive ==
  ASSUME SessionInv, [SessionNext]_sessionVars
  PROVE  SessionInv'
<1>1. CASE SessionNext
  BY <1>1, ConnectKeeps, ConnectionEnds, BrokerSubscribes, HandlerIsAnswered, HandlerEnds, RoutineEnds, OthersKeepSession
     DEF SessionNext
<1>2. CASE UNCHANGED sessionVars
  BY <1>2 DEF sessionVars, mqttVars, httpVars, SessionInv, SessionTypeOK, Numbered, Truthful, CanRun, ClientId
<1> QED BY <1>1, <1>2

LEMMA SessionInvAlways == SessionSpec => []SessionInv
  BY SessionInitially, SessionInvInductive, PTL DEF SessionSpec

\* The types of the session, for any gateways and bounds (adapter.go, main.go).
THEOREM SessionTyped == SessionSpec => []SessionTypeOK
<1>1. SessionInv => SessionTypeOK
  BY DEF SessionInv
<1> QED BY <1>1, SessionInvAlways, PTL

\* However the handlers of lost and new connections overlap, a gateway whose
\* readiness was set by the handler of its own connection is right about it: for
\* any gateways and connections (adapter.go, setReady in onConnect and
\* onConnectionLost).
THEOREM HandlersAreRight == SessionSpec => []OwnHandlerIsRight
<1>1. SessionInv => OwnHandlerIsRight
  BY DEF SessionInv, Truthful, OwnHandlerIsRight
<1> QED BY <1>1, SessionInvAlways, PTL

LEMMA Pairs == ASSUME NEW a, NEW b, NEW c, NEW d, <<a, b>> = <<c, d>> PROVE a = c /\ b = d
  OBVIOUS

\* Ids that are equal were named alike, or made from one instance.
LEMMA SameClientId ==
  ASSUME NEW s \in Settings, NEW t \in Settings, resolveClientID(s) = resolveClientID(t), resolveClientID(s) # NoId
  PROVE  \/ s.explicit # Unset /\ s.explicit = t.explicit
         \/ s.explicit = Unset /\ s.instance = t.instance
<1>1. ASSUME NEW x \in Settings, resolveClientID(x) # NoId
      PROVE  \/ x.explicit \in Explicit /\ resolveClientID(x) = <<"explicit", x.explicit>>
             \/ x.explicit = Unset /\ resolveClientID(x) = <<"derived", x.instance>>
  BY <1>1, SessionAssumption DEF SessionAssumption, Settings, resolveClientID, Derived
<1>2. \A x \in Explicit : x # Unset
  BY SessionAssumption DEF SessionAssumption
<1>3. /\ \/ s.explicit \in Explicit /\ resolveClientID(s) = <<"explicit", s.explicit>>
         \/ s.explicit = Unset /\ resolveClientID(s) = <<"derived", s.instance>>
      /\ \/ t.explicit \in Explicit /\ resolveClientID(s) = <<"explicit", t.explicit>>
         \/ t.explicit = Unset /\ resolveClientID(s) = <<"derived", t.instance>>
  BY <1>1
<1>4. ASSUME NEW a, NEW b PROVE <<"explicit", a>> # <<"derived", b>>
  <2>1. "explicit" # "derived"
    OBVIOUS
  <2> QED BY <2>1, Pairs, Zenon
<1>5. ASSUME <<"explicit", s.explicit>> = <<"explicit", t.explicit>> PROVE s.explicit = t.explicit
  BY <1>5, Pairs, Zenon
<1>6. ASSUME <<"derived", s.instance>> = <<"derived", t.instance>> PROVE s.instance = t.instance
  BY <1>6, Pairs, Zenon
<1>7. <<"explicit", s.explicit>> # <<"derived", t.instance>> /\ <<"explicit", t.explicit>> # <<"derived", s.instance>>
  BY <1>4
<1>8. CASE s.explicit \in Explicit /\ resolveClientID(s) = <<"explicit", s.explicit>>
  <2>1. resolveClientID(s) = <<"explicit", t.explicit>>
    BY <1>3, <1>7, <1>8, Zenon
  <2>2. s.explicit = t.explicit
    BY <1>5, <1>8, <2>1, Zenon
  <2> QED BY <1>2, <1>8, <2>2, Zenon
<1>9. CASE s.explicit = Unset /\ resolveClientID(s) = <<"derived", s.instance>>
  <2>1. resolveClientID(s) = <<"derived", t.instance>>
    BY <1>3, <1>7, <1>9, Zenon
  <2>2. s.instance = t.instance
    BY <1>6, <1>9, <2>1, Zenon
  <2> QED BY <1>9, <2>2, Zenon
<1> QED BY <1>3, <1>8, <1>9, Zenon

\* No gateway closes the session of another unless both are given one client id, or
\* derive it from one instance id: for any settings (identity.go, resolveClientID).
THEOREM GatewaysDoNotCompete == SessionSpec => NoCompetition
<1> DEFINE Allowed ==
      \A g, h \in Gateways :
        made'[g] # made[g] /\ h # g /\ connection[h] # 0 /\ connection'[h] = 0 =>
          \/ settings[g].explicit # Unset /\ settings[g].explicit = settings[h].explicit
          \/ settings[g].explicit = Unset /\ settings[g].instance = settings[h].instance
<1>1. ASSUME SessionInv, [SessionNext]_sessionVars PROVE [Allowed]_sessionVars
  <2> SUFFICES ASSUME SessionNext, NEW g \in Gateways, NEW h \in Gateways,
                      made'[g] # made[g], h # g, connection[h] # 0, connection'[h] = 0
               PROVE  \/ settings[g].explicit # Unset /\ settings[g].explicit = settings[h].explicit
                      \/ settings[g].explicit = Unset /\ settings[g].instance = settings[h].instance
    BY <1>1
  <2>0. SessionTypeOK
    BY <1>1 DEF SessionInv
  <2>1. PICK x \in Gateways : Connect(x)
    BY DEF SessionNext, Subscribe, ConnectionLost, SubscribeReturns, SetReady, ProbeBegins, ProbeAnswers, StreamOpens,
           StreamCloses, Signal, AdapterStops, LowerAccepting, Drain, Exit, mqttVars
  <2>2. x = g
    BY <2>0, <2>1 DEF Connect, SessionTypeOK
  <2>3. h \in TakenOver(g)
    BY <2>1, <2>2 DEF Connect
  <2>4. ClientId(g) = ClientId(h) /\ ClientId(g) # NoId
    BY <1>1, <2>1, <2>2, <2>3 DEF TakenOver, Connect, SessionInv, CanRun
  <2>5. settings[g] \in Settings /\ settings[h] \in Settings
    BY <2>0, SessionAssumption DEF SessionTypeOK, SessionAssumption
  <2> QED BY <2>4, <2>5, SameClientId DEF ClientId
<1> QED BY <1>1, SessionInvAlways, PTL DEF SessionSpec, NoCompetition

-------------------------------------------------------------------------------
(* Deployment                                                                *)

Unlinked == {"new", "transferred", "loaded", "stopped", "up", "ready", "healthy",
             "linkedPrevious", "rollback"}
Unpacked == {"loaded", "stopped", "up", "ready", "healthy", "linkedPrevious", "linked", "cleaned", "rollback"}

\* One script runs at a time.
OneScript == \A u, v \in Versions : step[u] \notin Over /\ step[v] \notin Over => u = v

\* What a script has done, by where it is.
Progress(v) ==
  /\ step[v] \in Unpacked => Images(v) \subseteq images /\ v \in bundles
  /\ step[v] \in {"up", "ready", "healthy", "linkedPrevious", "linked", "cleaned"} => \A s \in Services : composed[s] = v
  /\ step[v] \in {"healthy", "linkedPrevious", "linked", "cleaned"} => v \in everReady
  /\ step[v] \in Unpacked \cap Unlinked => PREVIOUS_RELEASE[v] = current
  /\ step[v] \in {"linkedPrevious", "linked"} => previous = PREVIOUS_RELEASE[v]
  /\ step[v] \in {"linked", "cleaned"} => current = v
  /\ step[v] \in Unlinked => v \notin {current, previous}

DeploymentInv ==
  /\ DeploymentTypeOK
  /\ OneScript
  /\ \A v \in Versions : Progress(v)
  /\ current = None => previous = None
  /\ RollbackTargetsIntact

LEMMA DeploymentInitially == DeploymentInit => DeploymentInv
<1> SUFFICES ASSUME DeploymentInit PROVE DeploymentInv
  OBVIOUS
<1>1. DeploymentTypeOK
  <2>1. /\ composed \in [Services -> Versions \cup {None}]
        /\ \A s \in Services : composed[s] # None => <<s, composed[s]>> \in images
    BY DEF DeploymentInit
  <2>2. failures \in 0 .. MaxFailures
    BY DeploymentAssumption DEF DeploymentAssumption, DeploymentInit
  <2>3. step \in [Versions -> Steps] /\ PREVIOUS_RELEASE \in [Versions -> Versions \cup {None}]
        /\ LEGACY_WAS_RUNNING \in [Versions -> BOOLEAN]
    BY DEF DeploymentInit, Steps
  <2> QED BY <2>1, <2>2, <2>3 DEF DeploymentInit, DeploymentTypeOK
<1>2. OneScript
  BY DEF DeploymentInit, OneScript, Over
<1>3. \A v \in Versions : Progress(v)
  BY DeploymentAssumption DEF DeploymentAssumption, DeploymentInit, Progress, Unpacked, Unlinked
<1>4. RollbackTargetsIntact
  BY DeploymentAssumption DEF DeploymentAssumption, DeploymentInit, RollbackTargetsIntact
<1> QED BY <1>1, <1>2, <1>3, <1>4 DEF DeploymentInv, DeploymentInit

\* A script that moves on, or ends, without changing the host.
LEMMA OnlyMoves ==
  ASSUME DeploymentInv, NEW v \in Versions, NEW s \in Steps, GoTo(v, s),
         UNCHANGED <<PREVIOUS_RELEASE, hostVars, linkVars, composed, everReady>>,
         LEGACY_WAS_RUNNING' \in [Versions -> BOOLEAN], legacy' \in {"running", "stopped", "absent"},
         failures' \in 0 .. MaxFailures,
         step[v] \notin Over \/ \A u \in Versions : step[u] \in Over,
         Progress(v)'
  PROVE  DeploymentInv'
<1>1. step' \in [Versions -> Steps] /\ step'[v] = s /\ \A u \in Versions \ {v} : step'[u] = step[u]
  BY DEF GoTo, DeploymentInv, DeploymentTypeOK
<1>2. DeploymentTypeOK'
  BY <1>1 DEF DeploymentInv, DeploymentTypeOK, hostVars, linkVars
<1>3. OneScript'
  BY <1>1 DEF DeploymentInv, OneScript
<1>4. ASSUME NEW u \in Versions PROVE Progress(u)'
  <2>1. CASE u = v
    BY <2>1
  <2>2. CASE u # v
    BY <1>1, <2>2 DEF DeploymentInv, Progress, hostVars, linkVars
  <2> QED BY <2>1, <2>2
<1>5. RollbackTargetsIntact' /\ (current' = None => previous' = None)
  BY DEF DeploymentInv, RollbackTargetsIntact, hostVars, linkVars
<1> QED BY <1>2, <1>3, <1>4, <1>5 DEF DeploymentInv


LEMMA FailureIsCounted == ASSUME DeploymentInv, Failure PROVE failures' \in 0 .. MaxFailures /\ failures' # failures
  BY DeploymentAssumption DEF DeploymentAssumption, DeploymentInv, DeploymentTypeOK, Failure

\* A change of the host by the script of v, which the other scripts do not notice.
LEMMA OtherScripts ==
  ASSUME DeploymentInv, NEW v \in Versions, NEW s \in Steps, GoTo(v, s),
         step[v] \notin Over, PREVIOUS_RELEASE' \in [Versions -> Versions \cup {None}],
         \A u \in Versions \ {v} : PREVIOUS_RELEASE'[u] = PREVIOUS_RELEASE[u],
         current' \in {current, v}, previous' \in {previous, current}
  PROVE  /\ step' \in [Versions -> Steps] /\ step'[v] = s /\ \A u \in Versions \ {v} : step'[u] = step[u]
         /\ OneScript'
         /\ \A u \in Versions \ {v} : Progress(u)'
<1>1. step' \in [Versions -> Steps] /\ step'[v] = s /\ \A u \in Versions \ {v} : step'[u] = step[u]
  BY DEF GoTo, DeploymentInv, DeploymentTypeOK
<1>2. OneScript'
  BY <1>1 DEF DeploymentInv, OneScript
<1>3. ASSUME NEW u \in Versions \ {v} PROVE Progress(u)'
  <2>1. step[u] \in Over /\ step'[u] = step[u]
    BY <1>1 DEF DeploymentInv, OneScript
  <2>2. step[u] \in Unlinked => u \notin {current, previous}
    BY DEF DeploymentInv, Progress
  <2> QED BY <2>1, <2>2 DEF Progress, Over, Unlinked, Unpacked
<1> QED BY <1>1, <1>2, <1>3

LEMMA ScriptMoves ==
  ASSUME DeploymentInv, NEW v \in Versions,
         \/ Transfer(v) \/ UnsafePreviousRelease(v) \/ StopLegacy(v) \/ StopLegacyFails(v) \/ LocallyReady(v)
         \/ NotLocallyReady(v) \/ NotPubliclyReady(v) \/ LinkFails(v) \/ Report(v) \/ LoseConnection(v)
  PROVE  DeploymentInv'
<1>0. Progress(v) /\ DeploymentTypeOK
  BY DEF DeploymentInv
<1> USE DEF hostVars, linkVars, scriptVars, runVars
<1>a. ASSUME NEW s \in Steps, GoTo(v, s) PROVE step'[v] = s
  BY <1>0, <1>a DEF GoTo, DeploymentTypeOK
<1>1. CASE Transfer(v)
  <2>1. GoTo(v, "transferred") /\ "transferred" \in Steps
    BY <1>1 DEF Transfer, Steps
  <2>2. Progress(v)'
    BY <1>0, <1>1, <1>a, <2>1 DEF Transfer, At, Progress, Unpacked, Unlinked
  <2>3. UNCHANGED <<PREVIOUS_RELEASE, hostVars, linkVars, composed, everReady, LEGACY_WAS_RUNNING, legacy, failures>>
    BY <1>1 DEF Transfer
  <2> QED BY <1>0, <1>1, <2>1, <2>2, <2>3, OnlyMoves DEF Transfer, DeploymentTypeOK
<1>u. CASE UnsafePreviousRelease(v)
  <2>1. GoTo(v, "failed") /\ "failed" \in Steps /\ step[v] \notin Over
    BY <1>u DEF UnsafePreviousRelease, Steps, At, Over
  <2>2. Progress(v)'
    BY <1>0, <1>u, <1>a, <2>1 DEF UnsafePreviousRelease, At, Progress, Unpacked, Unlinked
  <2>3. UNCHANGED <<PREVIOUS_RELEASE, hostVars, linkVars, composed, everReady, LEGACY_WAS_RUNNING, legacy, failures>>
    BY <1>u DEF UnsafePreviousRelease
  <2> QED BY <1>0, <2>1, <2>2, <2>3, OnlyMoves DEF DeploymentTypeOK
<1>2. CASE StopLegacy(v)
  <2>1. GoTo(v, "stopped") /\ "stopped" \in Steps /\ step[v] \notin Over
    BY <1>2 DEF StopLegacy, Steps, At, Over
  <2>2. Progress(v)'
    BY <1>0, <1>2, <1>a, <2>1 DEF StopLegacy, At, Progress, Unpacked, Unlinked
  <2>3. UNCHANGED <<PREVIOUS_RELEASE, hostVars, linkVars, composed, everReady, failures>>
    BY <1>2 DEF StopLegacy
  <2>4. LEGACY_WAS_RUNNING' \in [Versions -> BOOLEAN] /\ legacy' \in {"running", "stopped", "absent"}
    BY <1>0, <1>2 DEF StopLegacy, DeploymentTypeOK
  <2> QED BY <1>0, <2>1, <2>2, <2>3, <2>4, OnlyMoves DEF DeploymentTypeOK
<1>3. CASE StopLegacyFails(v)
  <2>1. PICK s \in {"failed"} : GoTo(v, s)
    BY <1>3 DEF StopLegacyFails
  <2>2. s \in Steps /\ step'[v] = s /\ step[v] \notin Over
    BY <1>3, <1>a, <2>1 DEF StopLegacyFails, Steps, At, Over
  <2>3. UNCHANGED <<PREVIOUS_RELEASE, hostVars, linkVars, composed, everReady, LEGACY_WAS_RUNNING, legacy>>
    BY <1>3 DEF StopLegacyFails
  <2>4. Progress(v)'
    BY <1>0, <1>3, <2>1, <2>2, <2>3 DEF StopLegacyFails, At, Progress, Unpacked, Unlinked
  <2>5. failures' \in 0 .. MaxFailures
    BY <1>0, <1>3, FailureIsCounted, DeploymentAssumption DEF StopLegacyFails, DeploymentTypeOK, DeploymentAssumption
  <2> QED BY <1>0, <2>1, <2>2, <2>3, <2>4, <2>5, OnlyMoves DEF DeploymentTypeOK
<1>4. CASE LocallyReady(v)
  <2>1. PICK s \in {"ready"} : GoTo(v, s)
    BY <1>4 DEF LocallyReady
  <2>2. s \in Steps /\ step'[v] = s /\ step[v] \notin Over
    BY <1>4, <1>a, <2>1 DEF LocallyReady, Steps, At, Over
  <2>3. UNCHANGED <<PREVIOUS_RELEASE, hostVars, linkVars, composed, everReady, LEGACY_WAS_RUNNING, legacy>>
    BY <1>4 DEF LocallyReady
  <2>4. Progress(v)'
    BY <1>0, <1>4, <2>1, <2>2, <2>3 DEF LocallyReady, At, Progress, Unpacked, Unlinked
  <2>5. failures' \in 0 .. MaxFailures
    BY <1>0, <1>4, FailureIsCounted, DeploymentAssumption DEF LocallyReady, DeploymentTypeOK, DeploymentAssumption
  <2> QED BY <1>0, <2>1, <2>2, <2>3, <2>4, <2>5, OnlyMoves DEF DeploymentTypeOK
<1>5. CASE NotLocallyReady(v)
  <2>1. PICK s \in {"failed", "rollback"} : GoTo(v, s)
    BY <1>5 DEF NotLocallyReady
  <2>2. s \in Steps /\ step'[v] = s /\ step[v] \notin Over
    BY <1>5, <1>a, <2>1 DEF NotLocallyReady, Steps, At, Over
  <2>3. UNCHANGED <<PREVIOUS_RELEASE, hostVars, linkVars, composed, everReady, LEGACY_WAS_RUNNING, legacy>>
    BY <1>5 DEF NotLocallyReady
  <2>4. Progress(v)'
    BY <1>0, <1>5, <2>1, <2>2, <2>3 DEF NotLocallyReady, At, Progress, Unpacked, Unlinked
  <2>5. failures' \in 0 .. MaxFailures
    BY <1>0, <1>5, FailureIsCounted, DeploymentAssumption DEF NotLocallyReady, DeploymentTypeOK, DeploymentAssumption
  <2> QED BY <1>0, <2>1, <2>2, <2>3, <2>4, <2>5, OnlyMoves DEF DeploymentTypeOK
<1>6. CASE NotPubliclyReady(v)
  <2>1. PICK s \in {"failed"} : GoTo(v, s)
    BY <1>6 DEF NotPubliclyReady
  <2>2. s \in Steps /\ step'[v] = s /\ step[v] \notin Over
    BY <1>6, <1>a, <2>1 DEF NotPubliclyReady, Steps, At, Over
  <2>3. UNCHANGED <<PREVIOUS_RELEASE, hostVars, linkVars, composed, everReady, LEGACY_WAS_RUNNING, legacy>>
    BY <1>6 DEF NotPubliclyReady
  <2>4. Progress(v)'
    BY <1>0, <1>6, <2>1, <2>2, <2>3 DEF NotPubliclyReady, At, Progress, Unpacked, Unlinked
  <2>5. failures' \in 0 .. MaxFailures
    BY <1>0, <1>6, FailureIsCounted, DeploymentAssumption DEF NotPubliclyReady, DeploymentTypeOK, DeploymentAssumption
  <2> QED BY <1>0, <2>1, <2>2, <2>3, <2>4, <2>5, OnlyMoves DEF DeploymentTypeOK
<1>7. CASE LinkFails(v)
  <2>1. PICK s \in {"failed"} : GoTo(v, s)
    BY <1>7 DEF LinkFails
  <2>2. s \in Steps /\ step'[v] = s /\ step[v] \notin Over
    BY <1>7, <1>a, <2>1 DEF LinkFails, Steps, At, Over
  <2>3. UNCHANGED <<PREVIOUS_RELEASE, hostVars, linkVars, composed, everReady, LEGACY_WAS_RUNNING, legacy>>
    BY <1>7 DEF LinkFails
  <2>4. Progress(v)'
    BY <1>0, <1>7, <2>1, <2>2, <2>3 DEF LinkFails, At, Progress, Unpacked, Unlinked
  <2>5. failures' \in 0 .. MaxFailures
    BY <1>0, <1>7, FailureIsCounted, DeploymentAssumption DEF LinkFails, DeploymentTypeOK, DeploymentAssumption
  <2> QED BY <1>0, <2>1, <2>2, <2>3, <2>4, <2>5, OnlyMoves DEF DeploymentTypeOK
<1>8. CASE Report(v)
  <2>1. PICK s \in {"succeeded"} : GoTo(v, s)
    BY <1>8 DEF Report
  <2>2. s \in Steps /\ step'[v] = s /\ step[v] \notin Over
    BY <1>8, <1>a, <2>1 DEF Report, Steps, At, Over
  <2>3. UNCHANGED <<PREVIOUS_RELEASE, hostVars, linkVars, composed, everReady, LEGACY_WAS_RUNNING, legacy>>
    BY <1>8 DEF Report
  <2>4. Progress(v)'
    BY <1>0, <1>8, <2>1, <2>2, <2>3 DEF Report, At, Progress, Unpacked, Unlinked
  <2>5. failures' \in 0 .. MaxFailures
    BY <1>0, <1>8, FailureIsCounted, DeploymentAssumption DEF Report, DeploymentTypeOK, DeploymentAssumption
  <2> QED BY <1>0, <2>1, <2>2, <2>3, <2>4, <2>5, OnlyMoves DEF DeploymentTypeOK
<1>9. CASE LoseConnection(v)
  <2>1. PICK s \in {"lost"} : GoTo(v, s)
    BY <1>9 DEF LoseConnection
  <2>2. s \in Steps /\ step'[v] = s /\ step[v] \notin Over
    BY <1>9, <1>a, <2>1 DEF LoseConnection, Steps, At, Over
  <2>3. UNCHANGED <<PREVIOUS_RELEASE, hostVars, linkVars, composed, everReady, LEGACY_WAS_RUNNING, legacy>>
    BY <1>9 DEF LoseConnection
  <2>4. Progress(v)'
    BY <1>0, <1>9, <2>1, <2>2, <2>3 DEF LoseConnection, At, Progress, Unpacked, Unlinked
  <2>5. failures' \in 0 .. MaxFailures
    BY <1>0, <1>9, FailureIsCounted, DeploymentAssumption DEF LoseConnection, DeploymentTypeOK, DeploymentAssumption
  <2> QED BY <1>0, <2>1, <2>2, <2>3, <2>4, <2>5, OnlyMoves DEF DeploymentTypeOK
<1> QED BY <1>u, <1>1, <1>2, <1>3, <1>4, <1>5, <1>6, <1>7, <1>8, <1>9

LEMMA LoadKeeps ==
  ASSUME DeploymentInv, NEW v \in Versions, Load(v) \/ LoadFails(v)
  PROVE  DeploymentInv'
<1>0. Progress(v) /\ DeploymentTypeOK
  BY DEF DeploymentInv
<1>1. PICK s \in {"loaded", "failed"} : GoTo(v, s)
  BY DEF Load, LoadFails
<1>2. s \in Steps /\ step[v] = "transferred" /\ step[v] \notin Over
  BY DEF Load, LoadFails, Steps, At, Over
<1>3. UNCHANGED <<linkVars, runVars, LEGACY_WAS_RUNNING>>
  BY DEF Load, LoadFails, scriptVars
<1>4. /\ PREVIOUS_RELEASE' \in [Versions -> Versions \cup {None}]
      /\ \A u \in Versions \ {v} : PREVIOUS_RELEASE'[u] = PREVIOUS_RELEASE[u]
  BY <1>0 DEF Load, LoadFails, scriptVars, DeploymentTypeOK
<1>5. /\ step' \in [Versions -> Steps] /\ step'[v] = s
      /\ OneScript'
      /\ \A u \in Versions \ {v} : Progress(u)'
  BY <1>1, <1>2, <1>3, <1>4, OtherScripts DEF linkVars
<1>6. /\ images \subseteq images' /\ bundles \subseteq bundles'
      /\ images' \subseteq Services \X Versions /\ bundles' \subseteq Versions /\ deployRoot' \in BOOLEAN
  <2>1. CASE Load(v)
    BY <1>0, <2>1 DEF Load, DeploymentTypeOK, Images
  <2>2. CASE LoadFails(v)
    BY <1>0, <2>2 DEF LoadFails, DeploymentTypeOK, Images, hostVars
  <2> QED BY <2>1, <2>2
<1>7. failures' \in 0 .. MaxFailures
  BY <1>0, FailureIsCounted DEF Load, LoadFails, DeploymentTypeOK
<1>8. DeploymentTypeOK'
  BY <1>0, <1>3, <1>4, <1>5, <1>6, <1>7 DEF DeploymentTypeOK, linkVars, runVars
<1>9. RollbackTargetsIntact' /\ (current' = None => previous' = None)
  BY <1>3, <1>6 DEF DeploymentInv, RollbackTargetsIntact, linkVars, runVars
<1>10. Progress(v)'
  <2>1. CASE Load(v)
    <3>1. step'[v] = "loaded" /\ Images(v) \subseteq images' /\ v \in bundles' /\ PREVIOUS_RELEASE'[v] = current
      BY <1>0, <2>1 DEF Load, GoTo, DeploymentTypeOK
    <3> QED BY <1>0, <1>2, <1>3, <3>1 DEF Progress, Unpacked, Unlinked, linkVars, runVars
  <2>2. CASE LoadFails(v)
    <3>1. step'[v] = "failed"
      BY <1>0, <2>2 DEF LoadFails, GoTo, DeploymentTypeOK
    <3> QED BY <3>1 DEF Progress, Unpacked, Unlinked
  <2> QED BY <2>1, <2>2
<1> QED BY <1>5, <1>8, <1>9, <1>10 DEF DeploymentInv

\* Containers are replaced only by those of a version whose images are there.
LEMMA ReplacedByWhatIsThere ==
  ASSUME DeploymentTypeOK, NEW u \in Versions \cup {None}, NEW some \in SUBSET Services,
         u # None => some \X {u} \subseteq images
  PROVE  /\ Replaced(some, u) \in [Services -> Versions \cup {None}]
         /\ \A t \in Services : Replaced(some, u)[t] # None => <<t, Replaced(some, u)[t]>> \in images
<1>1. composed \in [Services -> Versions \cup {None}]
  BY DEF DeploymentTypeOK
<1>2. ASSUME NEW t \in Services, Replaced(some, u)[t] # None PROVE <<t, Replaced(some, u)[t]>> \in images
  <2>1. CASE t \in some
    BY <1>2, <2>1 DEF Replaced
  <2>2. CASE t \notin some
    BY <1>2, <2>2 DEF Replaced, DeploymentTypeOK
  <2> QED BY <2>1, <2>2
<1> QED BY <1>1, <1>2 DEF Replaced

LEMMA ComposeKeeps ==
  ASSUME DeploymentInv, NEW v \in Versions, ComposeUp(v) \/ ComposeUpFails(v)
  PROVE  DeploymentInv'
<1>0. Progress(v) /\ DeploymentTypeOK
  BY DEF DeploymentInv
<1>1. PICK s \in {"up", "rollback"} : GoTo(v, s)
  BY DEF ComposeUp, ComposeUpFails
<1>2. s \in Steps /\ step[v] = "stopped" /\ step[v] \notin Over
  BY DEF ComposeUp, ComposeUpFails, Steps, At, Over
<1>3. UNCHANGED <<PREVIOUS_RELEASE, LEGACY_WAS_RUNNING, deployRoot, images, bundles, current, previous, legacy, everReady>>
  BY DEF ComposeUp, ComposeUpFails, scriptVars, hostVars, linkVars
<1>5. /\ step' \in [Versions -> Steps] /\ step'[v] = s
      /\ OneScript'
      /\ \A u \in Versions \ {v} : Progress(u)'
  BY <1>0, <1>1, <1>2, <1>3, OtherScripts DEF DeploymentTypeOK
<1>6. /\ composed' \in [Services -> Versions \cup {None}]
      /\ \A t \in Services : composed'[t] # None => <<t, composed'[t]>> \in images
  <2>1. PICK some \in SUBSET Services : composed' = Replaced(some, v)
    BY DEF ComposeUp, ComposeUpFails
  <2>2. Images(v) \subseteq images
    BY <1>0, <1>2 DEF Progress, Unpacked
  <2> QED BY <1>0, <2>1, <2>2, ReplacedByWhatIsThere DEF Images
<1>7. failures' \in 0 .. MaxFailures
  BY <1>0, FailureIsCounted DEF ComposeUp, ComposeUpFails, DeploymentTypeOK
<1>8. DeploymentTypeOK'
  BY <1>0, <1>3, <1>5, <1>6, <1>7 DEF DeploymentTypeOK
<1>9. RollbackTargetsIntact' /\ (current' = None => previous' = None)
  BY <1>3 DEF DeploymentInv, RollbackTargetsIntact
<1>10. Progress(v)'
  <2>1. s = "up" => \A t \in Services : composed'[t] = v
    BY <1>0, <1>1, <1>5 DEF ComposeUp, ComposeUpFails, GoTo, DeploymentTypeOK, Replaced
  <2> QED BY <1>0, <1>2, <1>3, <1>5, <2>1 DEF Progress, Unpacked, Unlinked
<1> QED BY <1>5, <1>8, <1>9, <1>10 DEF DeploymentInv

\* The release found current can be brought up again, and v is not among what the
\* links name.
LEMMA RollbackKeeps ==
  ASSUME DeploymentInv, NEW v \in Versions, rollback(v)
  PROVE  DeploymentInv'
<1>0. Progress(v) /\ DeploymentTypeOK /\ RollbackTargetsIntact
  BY DEF DeploymentInv
<1>1. PICK e \in {"rolledBack", "failed"} : GoTo(v, e)
  BY DEF rollback
<1>a. e \in Steps /\ step[v] = "rollback" /\ step[v] \notin Over
  BY DEF rollback, Steps, At, Over
<1>2. UNCHANGED <<PREVIOUS_RELEASE, LEGACY_WAS_RUNNING, deployRoot, bundles, current, previous, everReady>>
  BY DEF rollback, scriptVars, linkVars
<1>5. /\ step' \in [Versions -> Steps] /\ step'[v] = e
      /\ OneScript'
      /\ \A u \in Versions \ {v} : Progress(u)'
  BY <1>0, <1>1, <1>a, <1>2, OtherScripts DEF DeploymentTypeOK
<1>6. /\ composed' \in [Services -> Versions \cup {None}]
      /\ \A t \in Services : composed'[t] # None => <<t, composed'[t]>> \in images
  <2>1. \/ composed' = composed
        \/ \E u \in Versions \cup {None} : \E some \in SUBSET Services :
             (u # None => some \X {u} \subseteq images) /\ composed' = Replaced(some, u)
    <3>1. CASE HasPrevious(v) /\ UNCHANGED legacy
      <4>1. PREVIOUS_RELEASE[v] \in Versions \cup {None} /\ GraphProfile \in SUBSET Services
        BY <1>0, DeploymentAssumption DEF DeploymentTypeOK, DeploymentAssumption
      <4> QED BY <3>1, <4>1 DEF rollback, RestorePrevious, RestoreLegacy, NothingToRestore, RestoreFails
    <3>2. CASE ~ HasPrevious(v)
      BY <3>2 DEF rollback, RestorePrevious, RestoreLegacy, NothingToRestore, RestoreFails
    <3> QED BY <3>1, <3>2 DEF rollback, RestorePrevious, RestoreLegacy, NothingToRestore, RestoreFails
  <2>2. CASE composed' = composed
    BY <1>0, <2>2 DEF DeploymentTypeOK
  <2> QED BY <1>0, <2>1, <2>2, ReplacedByWhatIsThere
<1>b. legacy' \in {"running", "stopped", "absent"}
  BY <1>0 DEF rollback, RestorePrevious, RestoreLegacy, NothingToRestore, RestoreFails, DeploymentTypeOK
<1>7. failures' \in 0 .. MaxFailures
  BY <1>0, FailureIsCounted DEF rollback, DeploymentTypeOK
<1>8. /\ images' \subseteq images /\ images \ Images(v) \subseteq images'
      /\ \A t \in Services : <<t, composed'[t]>> \in images => <<t, composed'[t]>> \in images'
  BY DEF rollback, Unused
<1>9. DeploymentTypeOK'
  <2>1. \A t \in Services : composed'[t] # None => <<t, composed'[t]>> \in images'
    BY <1>6, <1>8
  <2> QED BY <1>0, <1>2, <1>5, <1>6, <1>b, <1>7, <1>8, <2>1 DEF DeploymentTypeOK
<1>10. v \notin {current, previous}
  BY <1>0, <1>a DEF Progress, Unlinked
<1>11. RollbackTargetsIntact' /\ (current' = None => previous' = None)
  BY <1>0, <1>2, <1>8, <1>10 DEF DeploymentInv, RollbackTargetsIntact, Images
<1>12. Progress(v)'
  BY <1>5 DEF Progress, Unpacked, Unlinked
<1> QED BY <1>5, <1>9, <1>11, <1>12 DEF DeploymentInv

LEMMA ReadyKeeps ==
  ASSUME DeploymentInv, NEW v \in Versions, PubliclyReady(v)
  PROVE  DeploymentInv'
<1>0. Progress(v) /\ DeploymentTypeOK /\ RollbackTargetsIntact
  BY DEF DeploymentInv
<1>1. GoTo(v, "healthy") /\ "healthy" \in Steps /\ step[v] = "ready" /\ step[v] \notin Over
  BY DEF PubliclyReady, Steps, At, Over
<1>2. /\ UNCHANGED <<PREVIOUS_RELEASE, LEGACY_WAS_RUNNING, deployRoot, images, bundles, current, previous, composed, legacy, failures>>
      /\ everReady' = everReady \cup {v}
  BY DEF PubliclyReady, scriptVars, linkVars, hostVars
<1>5. /\ step' \in [Versions -> Steps] /\ step'[v] = "healthy"
      /\ OneScript'
      /\ \A u \in Versions \ {v} : Progress(u)'
  BY <1>0, <1>1, <1>2, OtherScripts DEF DeploymentTypeOK
<1>9. DeploymentTypeOK'
  BY <1>0, <1>2, <1>5 DEF DeploymentTypeOK
<1>11. RollbackTargetsIntact' /\ (current' = None => previous' = None)
  BY <1>0, <1>2 DEF DeploymentInv, RollbackTargetsIntact
<1>12. Progress(v)'
  BY <1>0, <1>1, <1>2, <1>5 DEF Progress, Unpacked, Unlinked
<1> QED BY <1>5, <1>9, <1>11, <1>12 DEF DeploymentInv

\* Both links move to releases that have been ready, previous before current.
LEMMA LinksKeep ==
  ASSUME DeploymentInv, NEW v \in Versions, LinkPrevious(v) \/ LinkCurrent(v)
  PROVE  DeploymentInv'
<1>0. Progress(v) /\ DeploymentTypeOK /\ RollbackTargetsIntact
  BY DEF DeploymentInv
<1>1. UNCHANGED <<PREVIOUS_RELEASE, LEGACY_WAS_RUNNING, deployRoot, images, bundles, composed, legacy, everReady, failures>>
  BY DEF LinkPrevious, LinkCurrent, scriptVars, hostVars, runVars
<1>2. Images(v) \subseteq images /\ v \in bundles \cap everReady /\ PREVIOUS_RELEASE[v] = current /\ v # None
  BY <1>0, DeploymentAssumption DEF DeploymentAssumption, LinkPrevious, LinkCurrent, At, Progress, Unpacked, Unlinked
<1>3. CASE LinkPrevious(v)
  <2>1. GoTo(v, "linkedPrevious") /\ "linkedPrevious" \in Steps /\ step[v] = "healthy" /\ step[v] \notin Over
    BY <1>3 DEF LinkPrevious, Steps, At, Over
  <2>2. current' = current /\ previous' = PREVIOUS_RELEASE[v] /\ previous' = current
    BY <1>2, <1>3 DEF LinkPrevious, DeploymentInv
  <2>3. /\ step' \in [Versions -> Steps] /\ step'[v] = "linkedPrevious"
        /\ OneScript'
        /\ \A u \in Versions \ {v} : Progress(u)'
    BY <1>0, <1>1, <2>1, <2>2, OtherScripts DEF DeploymentTypeOK
  <2>4. DeploymentTypeOK'
    BY <1>0, <1>1, <2>2, <2>3 DEF DeploymentTypeOK
  <2>5. RollbackTargetsIntact' /\ (current' = None => previous' = None)
    BY <1>0, <1>1, <2>2 DEF RollbackTargetsIntact
  <2>6. Progress(v)'
    BY <1>0, <1>1, <1>2, <2>1, <2>2, <2>3 DEF Progress, Unpacked, Unlinked
  <2> QED BY <2>3, <2>4, <2>5, <2>6 DEF DeploymentInv
<1>4. CASE LinkCurrent(v)
  <2>1. GoTo(v, "linked") /\ "linked" \in Steps /\ step[v] = "linkedPrevious" /\ step[v] \notin Over
    BY <1>4 DEF LinkCurrent, Steps, At, Over
  <2>2. current' = v /\ previous' = previous
    BY <1>4 DEF LinkCurrent
  <2>3. /\ step' \in [Versions -> Steps] /\ step'[v] = "linked"
        /\ OneScript'
        /\ \A u \in Versions \ {v} : Progress(u)'
    BY <1>0, <1>1, <2>1, <2>2, OtherScripts DEF DeploymentTypeOK
  <2>4. DeploymentTypeOK'
    BY <1>0, <1>1, <2>2, <2>3 DEF DeploymentTypeOK
  <2>5. RollbackTargetsIntact' /\ (current' = None => previous' = None)
    BY <1>0, <1>1, <1>2, <2>2 DEF RollbackTargetsIntact
  <2>6. Progress(v)'
    BY <1>0, <1>1, <1>2, <2>1, <2>2, <2>3 DEF Progress, Unpacked, Unlinked
  <2> QED BY <2>3, <2>4, <2>5, <2>6 DEF DeploymentInv
<1> QED BY <1>3, <1>4

\* What is cleaned away is neither what runs nor what a link names.
LEMMA CleanKeeps ==
  ASSUME DeploymentInv, NEW v \in Versions, Clean(v)
  PROVE  DeploymentInv'
<1>0. Progress(v) /\ DeploymentTypeOK /\ RollbackTargetsIntact
  BY DEF DeploymentInv
<1>1. GoTo(v, "cleaned") /\ "cleaned" \in Steps /\ step[v] = "linked" /\ step[v] \notin Over
  BY DEF Clean, Steps, At, Over
<1>2. /\ UNCHANGED <<PREVIOUS_RELEASE, LEGACY_WAS_RUNNING, deployRoot, bundles, current, previous, composed, everReady>>
      /\ legacy' \in {"running", "stopped", "absent"}
  BY <1>0 DEF Clean, scriptVars, linkVars, DeploymentTypeOK
<1>3. /\ images' \subseteq images /\ images \cap (Services \X Kept(v)) \subseteq images'
      /\ \A t \in Services : <<t, composed'[t]>> \in images => <<t, composed'[t]>> \in images'
  BY DEF Clean, Unused
<1>4. failures' \in 0 .. MaxFailures
  BY <1>0, FailureIsCounted DEF Clean, DeploymentTypeOK
<1>5. /\ step' \in [Versions -> Steps] /\ step'[v] = "cleaned"
      /\ OneScript'
      /\ \A u \in Versions \ {v} : Progress(u)'
  BY <1>0, <1>1, <1>2, OtherScripts DEF DeploymentTypeOK
<1>6. DeploymentTypeOK'
  BY <1>0, <1>2, <1>3, <1>4, <1>5 DEF DeploymentTypeOK
<1>7. \A u \in Versions \cap {current, previous} : u \in Kept(v)
  BY <1>0, <1>1 DEF Progress, Kept, RollbackTargetsIntact
<1>8. RollbackTargetsIntact' /\ (current' = None => previous' = None)
  BY <1>0, <1>2, <1>3, <1>7 DEF DeploymentInv, RollbackTargetsIntact, Images
<1>9. Progress(v)'
  BY <1>0, <1>1, <1>2, <1>3, <1>5 DEF Progress, Unpacked, Unlinked, Kept, Images
<1> QED BY <1>5, <1>6, <1>8, <1>9 DEF DeploymentInv

LEMMA DeploymentInvInductive ==
  ASSUME DeploymentInv, [DeploymentNext]_deploymentVars
  PROVE  DeploymentInv'
<1>1. ASSUME NEW v \in Versions, Step(v) PROVE DeploymentInv'
  BY <1>1, ScriptMoves, LoadKeeps, ComposeKeeps, RollbackKeeps, ReadyKeeps, LinksKeep, CleanKeeps DEF Step
<1>2. CASE UNCHANGED deploymentVars
  BY <1>2 DEF deploymentVars, scriptVars, hostVars, linkVars, runVars, DeploymentInv, DeploymentTypeOK, OneScript,
     Progress, RollbackTargetsIntact
<1> QED BY <1>1, <1>2 DEF DeploymentNext

LEMMA DeploymentInvAlways == DeploymentSpec => []DeploymentInv
  BY DeploymentInitially, DeploymentInvInductive, PTL DEF DeploymentSpec

\* The types of the host and the scripts, for any versions and bounds (deploy.sh).
THEOREM DeploymentTyped == DeploymentSpec => []DeploymentTypeOK
<1>1. DeploymentInv => DeploymentTypeOK
  BY DEF DeploymentInv
<1> QED BY <1>1, DeploymentInvAlways, PTL

\* What the links current and previous name has been ready, and its images and
\* bundle are still there, whatever scripts failed, rolled back or cleaned up: for
\* any versions and failures (deploy.sh).
THEOREM LinksCanBeBroughtUp == DeploymentSpec => []RollbackTargetsIntact
<1>1. DeploymentInv => RollbackTargetsIntact
  BY DEF DeploymentInv
<1> QED BY <1>1, DeploymentInvAlways, PTL

\* The legacy container is given up only for a release that has been ready: for
\* any versions and failures (deploy.sh).
THEOREM LegacyIsKept == DeploymentSpec => LegacyKeptUntilReady
<1>1. ASSUME DeploymentInv, [DeploymentNext]_deploymentVars
      PROVE  [legacy # "absent" /\ legacy' = "absent" => \A s \in Services : composed[s] \in everReady]_deploymentVars
  <2> SUFFICES ASSUME DeploymentNext, legacy # "absent", legacy' = "absent"
               PROVE  \A s \in Services : composed[s] \in everReady
    BY <1>1
  <2>1. PICK v \in Versions : Step(v)
    BY DEF DeploymentNext
  <2>2. Clean(v)
    BY <2>1 DEF Step, Transfer, UnsafePreviousRelease, Load, LoadFails, StopLegacy, StopLegacyFails, ComposeUp, ComposeUpFails,
       rollback, RestorePrevious, RestoreLegacy, NothingToRestore, RestoreFails, LocallyReady, NotLocallyReady,
       PubliclyReady, NotPubliclyReady, LinkPrevious, LinkCurrent, LinkFails, Report, LoseConnection, runVars
  <2>3. Progress(v) /\ step[v] = "linked"
    BY <1>1, <2>2 DEF DeploymentInv, Clean, At
  <2> QED BY <2>3 DEF Progress
<1> QED BY <1>1, DeploymentInvAlways, PTL DEF DeploymentSpec, LegacyKeptUntilReady

\* What a deployment leaves that has reported its success: every service at the
\* release that current names.
SuccessAtCurrent(v) == step'[v] = "succeeded" => \A s \in Services : composed'[s] = current'

\* What its rollback leaves: the graph profile there, or the legacy container.
RollbackAtCurrent(v) ==
  step'[v] = "rolledBack" =>
    \/ current' # None /\ \A s \in GraphProfile : composed'[s] = current'
    \/ /\ current' = None
       /\ LEGACY_WAS_RUNNING'[v] => legacy' = "running" /\ \A s \in Services : composed'[s] = None

LEMMA SuccessLeavesCurrent ==
  ASSUME DeploymentInv, NEW v \in Versions, Report(v)
  PROVE  SuccessAtCurrent(v)
<1>1. Progress(v) /\ step[v] = "cleaned"
  BY DEF DeploymentInv, Report, At
<1> QED BY <1>1 DEF Progress, Report, SuccessAtCurrent, linkVars, runVars

LEMMA RollbackLeavesCurrent ==
  ASSUME DeploymentInv, NEW v \in Versions, rollback(v), step'[v] = "rolledBack"
  PROVE  RollbackAtCurrent(v)
<1>0. DeploymentTypeOK /\ Progress(v) /\ RollbackTargetsIntact
  BY DEF DeploymentInv
<1>1. /\ RestorePrevious(v) \/ RestoreLegacy(v) \/ NothingToRestore(v)
      /\ UNCHANGED <<current, LEGACY_WAS_RUNNING>>
  BY <1>0 DEF rollback, GoTo, DeploymentTypeOK, linkVars, scriptVars
<1>2. PREVIOUS_RELEASE[v] = current /\ None \notin bundles
  BY <1>0, DeploymentAssumption DEF rollback, At, Progress, Unpacked, Unlinked, DeploymentTypeOK, DeploymentAssumption
<1>3. CASE current # None
  <2>1. RestorePrevious(v)
    BY <1>0, <1>1, <1>2, <1>3 DEF HasPrevious, RestoreLegacy, NothingToRestore, RollbackTargetsIntact, DeploymentTypeOK
  <2>2. \A s \in GraphProfile : composed'[s] = current
    BY <1>2, <2>1, DeploymentAssumption DEF RestorePrevious, Replaced, DeploymentAssumption
  <2> QED BY <1>1, <1>3, <2>2 DEF RollbackAtCurrent
<1>4. CASE current = None
  <2>1. RestoreLegacy(v) \/ NothingToRestore(v)
    BY <1>1, <1>2, <1>4 DEF RestorePrevious, HasPrevious
  <2>2. LEGACY_WAS_RUNNING[v] => legacy' = "running" /\ \A s \in Services : composed'[s] = None
    BY <2>1 DEF RestoreLegacy, NothingToRestore, Replaced
  <2> QED BY <1>1, <1>4, <2>2 DEF RollbackAtCurrent
<1> QED BY <1>3, <1>4

\* Whatever earlier deployments have left, one that succeeds leaves every service
\* at the release that current names, and one that ends by its rollback leaves the
\* graph profile there, or the legacy container running: for any versions, services
\* and failures (deploy.sh).
THEOREM DeploymentsEndAtCurrent == DeploymentSpec => EndsAtCurrent
<1> DEFINE Ends ==
      \A v \in Versions : step'[v] # step[v] =>
       /\ step'[v] = "succeeded" => \A s \in Services : composed'[s] = current'
       /\ step'[v] = "rolledBack" =>
            \/ current' # None /\ \A s \in GraphProfile : composed'[s] = current'
            \/ /\ current' = None
               /\ LEGACY_WAS_RUNNING'[v] => legacy' = "running" /\ \A s \in Services : composed'[s] = None
<1>1. ASSUME DeploymentInv, [DeploymentNext]_deploymentVars
      PROVE  [Ends]_deploymentVars
  <2> SUFFICES ASSUME DeploymentNext, NEW v \in Versions, step'[v] # step[v]
               PROVE  SuccessAtCurrent(v) /\ RollbackAtCurrent(v)
    BY <1>1 DEF SuccessAtCurrent, RollbackAtCurrent
  <2>0. DeploymentTypeOK
    BY <1>1 DEF DeploymentInv
  <2>1. PICK u \in Versions : Step(u)
    BY DEF DeploymentNext
  <2>2. CASE Report(u)
    <3>1. u = v /\ step'[v] = "succeeded"
      BY <2>0, <2>2 DEF Report, GoTo, DeploymentTypeOK
    <3> QED BY <1>1, <2>2, <3>1, SuccessLeavesCurrent DEF RollbackAtCurrent
  <2>3. CASE rollback(u)
    <3>1. u = v /\ step'[v] # "succeeded"
      BY <2>0, <2>3 DEF rollback, GoTo, DeploymentTypeOK
    <3> QED BY <1>1, <2>3, <3>1, RollbackLeavesCurrent DEF SuccessAtCurrent, RollbackAtCurrent
  <2>4. CASE ~ Report(u) /\ ~ rollback(u)
    <3>1. PICK s \in Steps \ {"succeeded", "rolledBack"} : GoTo(u, s)
      BY <2>1, <2>4 DEF Step, Transfer, UnsafePreviousRelease, Load, LoadFails, StopLegacy, StopLegacyFails, ComposeUp, ComposeUpFails,
         LocallyReady, NotLocallyReady, Clean, Steps,
         PubliclyReady, NotPubliclyReady, LinkPrevious, LinkCurrent, LinkFails, LoseConnection
    <3>2. step'[v] = s
      BY <2>0, <3>1 DEF GoTo, DeploymentTypeOK
    <3> QED BY <3>1, <3>2 DEF SuccessAtCurrent, RollbackAtCurrent
  <2> QED BY <2>2, <2>3, <2>4
<1> QED BY <1>1, DeploymentInvAlways, PTL DEF DeploymentSpec, EndsAtCurrent
===============================================================================
