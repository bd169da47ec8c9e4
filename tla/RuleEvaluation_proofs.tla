------------------------ MODULE RuleEvaluation_proofs ------------------------
(***************************************************************************)
(* Proofs about the evaluation of rules, for any workers, operators, rules *)
(* and bounds: evaluations are serialisable, and no rule is missed.        *)
(*                                                                         *)
(* All rests on the row locks: what a worker knows of a rule it has locked *)
(* stays true until it commits, since only the holder of the lock writes   *)
(* the row or a marker of the rule.                                        *)
(***************************************************************************)
EXTENDS RuleEvaluation, TLAPS

(* A locked row is one that was stored, and such a row never vanishes; one  *)
(* that is not stored was never triggered.                                  *)
TableSound ==
  \A r \in Rules : /\ ruleLock[r] # Nobody => rules[r].stored # "absent"
                   /\ rules[r].stored = "absent" => rules[r].last = 0

(* The rows a worker has yet to lock exist; those it has are locked by it    *)
(* and still enabled.                                                       *)
RowsSound(w) ==
  /\ \A i \in tx[w].todo : i \in DOMAIN Watched[tx[w].event] /\ rules[RuleAt(w, i)].stored # "absent"
  /\ \A i \in tx[w].rows : /\ i \in DOMAIN Watched[tx[w].event]
                           /\ ruleLock[RuleAt(w, i)] = w /\ Live(RuleAt(w, i))

(* What a worker has triggered it may still trigger when it commits.        *)
TriggeredSound(w) ==
  \A r \in tx[w].triggered : ruleLock[r] = w /\ Live(r) /\ Triggers(tx[w].event, r, tx[w].at)

PhaseSound(w) ==
  /\ tx[w].step = "idle" => tx[w] = Idle /\ \A r \in Rules : ruleLock[r] # w
  /\ tx[w].step = "lock" =>
       /\ tx[w].triggered = {}
       /\ \A r \in Rules : ruleLock[r] = w /\ Live(r) => \E i \in tx[w].rows : RuleAt(w, i) = r
  /\ tx[w].step = "evaluate" => tx[w].todo = {} /\ tx[w].at \in 1 .. MaxTime

NothingMissed(w) ==
  tx[w].step = "evaluate" =>
    \A r \in Rules : ruleLock[r] = w /\ Live(r) /\ Triggers(tx[w].event, r, tx[w].at) =>
      r \in tx[w].triggered \/ \E i \in tx[w].rows : RuleAt(w, i) = r

WorkerSound(w) == RowsSound(w) /\ TriggeredSound(w) /\ PhaseSound(w) /\ NothingMissed(w)

IInv == TypeOK /\ TableSound /\ \A w \in Workers : WorkerSound(w)

-----------------------------------------------------------------------------
LEMMA ConstantsTyped ==
  /\ Idle \in Transaction /\ Idle.step = "idle" /\ Idle.todo = {} /\ Idle.rows = {}
  /\ Idle.triggered = {} /\ Idle.at = 0 /\ NoEdit \in Edit
  BY ConstantsAssumption DEF ConstantsAssumption, Idle, NoEdit, Transaction, Edit

LEMMA RulesAtPlaces ==
  ASSUME NEW e \in Events, NEW i \in DOMAIN Watched[e]
  PROVE  Watched[e][i] \in Rules /\ i \in Nat
  BY ConstantsAssumption DEF ConstantsAssumption

(* The lock of a rule protects what its holder knows of it.                  *)
LEMMA LockProtects ==
  ASSUME IInv, NEW v \in Workers, UNCHANGED tx[v],
         \A r \in Rules : (ruleLock'[r] = v) <=> (ruleLock[r] = v),
         \A r \in Rules : ruleLock[r] = v =>
           rules'[r] = rules[r] /\ \A e \in Events : <<e, r>> \in marked' <=> <<e, r>> \in marked,
         \A r \in Rules : rules[r].stored # "absent" => rules'[r].stored # "absent"
  PROVE  WorkerSound(v)'
<1>1. WorkerSound(v) /\ tx[v] \in Transaction
  BY DEF IInv, TypeOK
<1> PICK t \in Transaction : t = tx[v]
  BY <1>1
<1>2. t.event \in Events /\ t.todo \subseteq Nat /\ t.rows \subseteq Nat /\ t.triggered \subseteq Rules
  BY DEF Transaction
<1>3. tx'[v] = t
  OBVIOUS
<1>4. \A i \in DOMAIN Watched[t.event] : Watched[t.event][i] \in Rules
  BY <1>2, RulesAtPlaces
<1>5. RowsSound(v)'
  BY <1>1, <1>2, <1>3, <1>4 DEF WorkerSound, RowsSound, RuleAt, Live
<1>6. TriggeredSound(v)'
  BY <1>1, <1>2, <1>3 DEF WorkerSound, TriggeredSound, Triggers, Cooled, Live
<1>7. PhaseSound(v)'
  BY <1>1, <1>2, <1>3 DEF WorkerSound, PhaseSound, RuleAt, Live
<1>8. NothingMissed(v)'
  BY <1>1, <1>2, <1>3 DEF WorkerSound, NothingMissed, RuleAt, Triggers, Cooled, Live
<1> QED BY <1>5, <1>6, <1>7, <1>8 DEF WorkerSound

LEMMA InvInit == Init => IInv
<1> SUFFICES ASSUME Init PROVE IInv
  OBVIOUS
<1>1. rules \in [Rules -> Rule] /\ \A r \in Rules : rules[r].last = 0
  BY ConstantsAssumption DEF Init, ConstantsAssumption
<1>2. tx = [w \in Workers |-> Idle] /\ ruleLock = [r \in Rules |-> Nobody] /\ marked = {}
  BY DEF Init
<1>3. TypeOK
  BY <1>1, ConstantsTyped, ConstantsAssumption DEF Init, TypeOK, ConstantsAssumption
<1>4. TableSound
  BY <1>1, <1>2 DEF TableSound
<1>5. ASSUME NEW w \in Workers PROVE WorkerSound(w)
  <2>1. tx[w] = Idle /\ \A r \in Rules : ruleLock[r] # w
    BY <1>2, ConstantsAssumption DEF ConstantsAssumption
  <2> QED BY <2>1, ConstantsTyped DEF WorkerSound, RowsSound, TriggeredSound, PhaseSound, NothingMissed
<1> QED BY <1>3, <1>4, <1>5 DEF IInv

-----------------------------------------------------------------------------
(* The worker's own steps.                                                  *)

LEMMA ATransactionTyped ==
  ASSUME TypeOK, NEW w \in Workers
  PROVE  /\ tx[w] \in Transaction /\ tx[w].event \in Events /\ tx[w].todo \subseteq Nat
         /\ tx[w].rows \subseteq Nat /\ tx[w].triggered \subseteq Rules /\ tx[w].at \in 0 .. MaxTime
         /\ tx[w].step \in {"idle", "lock", "evaluate"}
  BY DEF TypeOK, Transaction

LEMMA BeginKeeps ==
  ASSUME IInv, NEW w \in Workers, NEW e \in Events, Begin(w, e)
  PROVE  TypeOK' /\ TableSound' /\ WorkerSound(w)'
<1> DEFINE places == {i \in DOMAIN Watched[e] : Live(Watched[e][i])}
<1> DEFINE new == [Idle EXCEPT !.step = "lock", !.event = e, !.todo = places]
<1>1. places \subseteq Nat
  BY RulesAtPlaces
<1>2. /\ new \in Transaction /\ new.step = "lock" /\ new.event = e /\ new.todo = places
      /\ new.rows = {} /\ new.triggered = {}
  BY <1>1, ConstantsTyped DEF Transaction
<1> HIDE DEF new
<1>3. tx' = [tx EXCEPT ![w] = new] /\ tx[w].step = "idle"
  BY DEF Begin, new
<1>4. TypeOK'
  BY <1>2, <1>3, ConstantsAssumption DEF IInv, TypeOK, Begin, lockVars, ConstantsAssumption
<1>5. TableSound'
  BY DEF IInv, TableSound, Begin, lockVars
<1>6. tx'[w] = new /\ UNCHANGED <<rules, marked, ruleLock>>
  BY <1>3 DEF IInv, TypeOK, Begin, lockVars
<1>7. \A r \in Rules : ruleLock[r] # w
  BY <1>3 DEF IInv, WorkerSound, PhaseSound
<1>8. RowsSound(w)'
  BY <1>2, <1>6 DEF RowsSound, RuleAt, Live
<1>9. TriggeredSound(w)' /\ PhaseSound(w)' /\ NothingMissed(w)'
  BY <1>2, <1>6, <1>7 DEF TriggeredSound, PhaseSound, NothingMissed
<1> QED BY <1>4, <1>5, <1>8, <1>9 DEF WorkerSound

LEMMA LockRuleKeeps ==
  ASSUME IInv, NEW w \in Workers, LockRule(w)
  PROVE  TypeOK' /\ TableSound' /\ WorkerSound(w)'
<1> PICK t \in Transaction : t = tx[w]
  BY ATransactionTyped DEF IInv
<1>1. /\ t.event \in Events /\ t.todo \subseteq Nat /\ t.rows \subseteq Nat
      /\ TypeOK /\ WorkerSound(w) /\ TableSound
  BY DEF Transaction, IInv
<1>2. PICK i \in t.todo :
        /\ t.step = "lock" /\ ForUpdate(w, RuleAt(w, i))
        /\ tx' = [tx EXCEPT ![w].todo = @ \ {i}, ![w].rows = IF Live(RuleAt(w, i)) THEN @ \cup {i} ELSE @]
  BY DEF LockRule, Locking
<1> PICK r \in Rules : r = RuleAt(w, i)
  BY <1>1, <1>2, RulesAtPlaces DEF WorkerSound, RowsSound, RuleAt
<1>3. UNCHANGED <<unavailable, deliveries, rules, marked, now, deviceLock, edit, changes>>
  BY DEF LockRule
<1>4. ruleLock[r] = Nobody /\ ruleLock' = [ruleLock EXCEPT ![r] = w]
  BY <1>2 DEF ForUpdate
<1> PICK u \in Transaction : u = tx'[w]
  <2>. tx \in [Workers -> Transaction]
    BY <1>1 DEF TypeOK
  <2>1. CASE Live(r)
    BY <1>1, <1>2, <2>1 DEF Transaction
  <2>2. CASE ~ Live(r)
    BY <1>1, <1>2, <2>2 DEF TypeOK, Transaction
  <2> QED BY <2>1, <2>2
<1>5. /\ u.step = t.step /\ u.event = t.event /\ u.todo = t.todo \ {i} /\ u.triggered = t.triggered
      /\ u.rows = IF Live(r) THEN t.rows \cup {i} ELSE t.rows
  BY <1>1, <1>2 DEF TypeOK, Transaction
<1>6. tx' \in [Workers -> Transaction]
  BY <1>1, <1>2 DEF TypeOK
<1>7. TypeOK'
  BY <1>1, <1>3, <1>4, <1>6 DEF TypeOK
<1>8. rules[r].stored # "absent" /\ i \in DOMAIN Watched[t.event] /\ Watched[t.event][i] = r
  BY <1>1, <1>2 DEF WorkerSound, RowsSound, RuleAt
<1>9. TableSound'
  BY <1>1, <1>3, <1>4, <1>8 DEF TableSound, TypeOK
<1>10. RowsSound(w)'
  <2>1. ASSUME NEW j \in u.todo PROVE j \in DOMAIN Watched[u.event] /\ rules'[Watched[u.event][j]].stored # "absent"
    BY <1>1, <1>3, <1>5 DEF WorkerSound, RowsSound, RuleAt
  <2>2. ASSUME NEW j \in u.rows
        PROVE  j \in DOMAIN Watched[u.event] /\ ruleLock'[Watched[u.event][j]] = w /\ Live(Watched[u.event][j])
    <3>1. CASE j \in t.rows
      <4>1. j \in DOMAIN Watched[t.event] /\ ruleLock[Watched[t.event][j]] = w /\ Live(Watched[t.event][j])
        BY <1>1, <3>1 DEF WorkerSound, RowsSound, RuleAt
      <4> QED BY <1>1, <1>4, <1>5, <4>1, RulesAtPlaces DEF TypeOK
    <3>2. CASE j = i /\ Live(r)
      BY <1>1, <1>4, <1>5, <1>8, <3>2 DEF TypeOK
    <3> QED BY <1>5, <3>1, <3>2
  <2> QED BY <1>3, <2>1, <2>2 DEF RowsSound, RuleAt, Live
<1>11. PhaseSound(w)'
  <2>1. ASSUME NEW q \in Rules, ruleLock'[q] = w, Live(q) PROVE \E j \in u.rows : Watched[u.event][j] = q
    <3>1. CASE q = r
      BY <1>5, <1>8, <2>1, <3>1
    <3>2. CASE q # r
      <4>1. ruleLock[q] = w
        BY <1>1, <1>4, <2>1, <3>2 DEF TypeOK
      <4>2. PICK j \in t.rows : Watched[t.event][j] = q
        BY <1>1, <1>2, <2>1, <4>1 DEF WorkerSound, PhaseSound, RuleAt
      <4> QED BY <1>5, <4>2
    <3> QED BY <3>1, <3>2
  <2>2. \A q \in Rules : ruleLock'[q] = w /\ Live(q) => \E j \in u.rows : Watched[u.event][j] = q
    BY <2>1
  <2>3. u.triggered = {} /\ u.step = "lock"
    BY <1>1, <1>2, <1>5 DEF WorkerSound, PhaseSound
  <2> QED BY <1>3, <2>2, <2>3 DEF PhaseSound, RuleAt, Live
<1>12. TriggeredSound(w)' /\ NothingMissed(w)'
  BY <1>1, <1>2, <1>5 DEF WorkerSound, PhaseSound, TriggeredSound, NothingMissed
<1> QED BY <1>7, <1>9, <1>10, <1>11, <1>12 DEF WorkerSound

LEMMA TakeTimeKeeps ==
  ASSUME IInv, NEW w \in Workers, TakeTime(w)
  PROVE  TypeOK' /\ TableSound' /\ WorkerSound(w)'
<1> PICK t \in Transaction : t = tx[w]
  BY ATransactionTyped DEF IInv
<1>1. TypeOK /\ WorkerSound(w) /\ TableSound /\ t.step = "lock" /\ t.todo = {} /\ now \in 1 .. MaxTime
  BY DEF IInv, TakeTime, TypeOK
<1>a. now \in 0 .. MaxTime
  BY <1>1, ConstantsAssumption DEF ConstantsAssumption
<1>b. tx' = [tx EXCEPT ![w].step = "evaluate", ![w].at = now]
  BY DEF TakeTime
<1> PICK u \in Transaction : u = tx'[w]
  BY <1>1, <1>a, <1>b DEF TypeOK, Transaction
<1>2. /\ u.step = "evaluate" /\ u.at = now /\ u.event = t.event /\ u.todo = t.todo
      /\ u.rows = t.rows /\ u.triggered = t.triggered
  BY <1>1 DEF TakeTime, TypeOK, Transaction
<1>3. UNCHANGED <<unavailable, deliveries, rules, marked, now, lockVars, edit, changes>>
  BY DEF TakeTime
<1>4. tx' \in [Workers -> Transaction]
  BY <1>1 DEF TypeOK, TakeTime
<1>5. TypeOK' /\ TableSound'
  BY <1>1, <1>3, <1>4 DEF TypeOK, TableSound, lockVars
<1>6. RowsSound(w)'
  BY <1>1, <1>2, <1>3 DEF WorkerSound, RowsSound, RuleAt, Live, lockVars
<1>7. PhaseSound(w)' /\ TriggeredSound(w)'
  BY <1>1, <1>2 DEF WorkerSound, PhaseSound, TriggeredSound
<1>8. NothingMissed(w)'
  BY <1>1, <1>2, <1>3 DEF WorkerSound, PhaseSound, NothingMissed, RuleAt, Live, lockVars
<1> QED BY <1>5, <1>6, <1>7, <1>8 DEF WorkerSound

LEMMA SkipRuleKeeps ==
  ASSUME IInv, NEW w \in Workers, SkipRule(w)
  PROVE  TypeOK' /\ TableSound' /\ WorkerSound(w)'
<1> PICK t \in Transaction : t = tx[w]
  BY ATransactionTyped DEF IInv
<1>1. TypeOK /\ WorkerSound(w) /\ TableSound /\ t.event \in Events /\ t.rows \subseteq Nat
  BY DEF IInv, Transaction
<1>2. PICK i \in t.rows : /\ t.step = "evaluate" /\ ~ Triggers(t.event, Watched[t.event][i], t.at)
                          /\ tx' = [tx EXCEPT ![w].rows = @ \ {i}]
  BY DEF SkipRule, Evaluating, TriggersAt, RuleAt
<1> PICK u \in Transaction : u = tx'[w]
  BY <1>1, <1>2 DEF TypeOK, Transaction
<1>3. /\ u.step = t.step /\ u.at = t.at /\ u.event = t.event /\ u.todo = t.todo
      /\ u.rows = t.rows \ {i} /\ u.triggered = t.triggered
  BY <1>1, <1>2 DEF TypeOK, Transaction
<1>4. UNCHANGED <<unavailable, deliveries, rules, marked, now, lockVars, edit, changes>>
  BY DEF SkipRule
<1>5. TypeOK' /\ TableSound'
  BY <1>1, <1>2, <1>4 DEF TypeOK, TableSound, lockVars, Transaction
<1>6. RowsSound(w)'
  BY <1>1, <1>3, <1>4 DEF WorkerSound, RowsSound, RuleAt, Live, lockVars
<1>7. PhaseSound(w)' /\ TriggeredSound(w)'
  BY <1>1, <1>2, <1>3, <1>4 DEF WorkerSound, PhaseSound, TriggeredSound, Live, Triggers, Cooled, lockVars
<1>8. NothingMissed(w)'
  <2>1. ASSUME NEW q \in Rules, ruleLock[q] = w, Live(q), Triggers(t.event, q, t.at)
        PROVE  q \in u.triggered \/ \E j \in u.rows : Watched[u.event][j] = q
    BY <1>1, <1>2, <1>3, <2>1 DEF WorkerSound, NothingMissed, RuleAt
  <2> QED BY <1>3, <1>4, <2>1 DEF NothingMissed, RuleAt, Live, Triggers, Cooled, lockVars
<1> QED BY <1>5, <1>6, <1>7, <1>8 DEF WorkerSound

LEMMA TriggerRuleKeeps ==
  ASSUME IInv, NEW w \in Workers, TriggerRule(w)
  PROVE  TypeOK' /\ TableSound' /\ WorkerSound(w)'
<1> PICK t \in Transaction : t = tx[w]
  BY ATransactionTyped DEF IInv
<1>1. TypeOK /\ WorkerSound(w) /\ TableSound /\ t.event \in Events /\ t.rows \subseteq Nat /\ t.triggered \subseteq Rules
  BY DEF IInv, Transaction
<1>2. PICK i \in t.rows : /\ t.step = "evaluate" /\ Triggers(t.event, RuleAt(w, i), t.at)
                          /\ LockDevice(w, TargetOf(RuleAt(w, i)))
                          /\ tx' = [tx EXCEPT ![w].rows = @ \ {i}, ![w].triggered = @ \cup {RuleAt(w, i)}]
  BY DEF TriggerRule, Evaluating, TriggersAt
<1> PICK r \in Rules : r = RuleAt(w, i)
  BY <1>1, <1>2, RulesAtPlaces DEF WorkerSound, RowsSound, RuleAt
<1> PICK u \in Transaction : u = tx'[w]
  BY <1>1, <1>2 DEF TypeOK, Transaction
<1>3. /\ u.step = t.step /\ u.at = t.at /\ u.event = t.event /\ u.todo = t.todo
      /\ u.rows = t.rows \ {i} /\ u.triggered = t.triggered \cup {r}
  BY <1>1, <1>2 DEF TypeOK, Transaction
<1>4. UNCHANGED <<unavailable, deliveries, rules, marked, now, ruleLock, edit, changes>>
  BY DEF TriggerRule
<1>5. tx' \in [Workers -> Transaction] /\ deviceLock' \in [Devices -> Workers \cup {Nobody}]
  BY <1>1, <1>2 DEF TypeOK, LockDevice, Transaction
<1>6. TypeOK' /\ TableSound'
  BY <1>1, <1>4, <1>5 DEF TypeOK, TableSound
<1>7. RowsSound(w)'
  BY <1>1, <1>3, <1>4 DEF WorkerSound, RowsSound, RuleAt, Live
<1>8. TriggeredSound(w)'
  <2>1. ruleLock[r] = w /\ Live(r) /\ Triggers(t.event, r, t.at)
    BY <1>1, <1>2 DEF WorkerSound, RowsSound
  <2>2. \A q \in u.triggered : ruleLock[q] = w /\ Live(q) /\ Triggers(t.event, q, t.at)
    BY <1>1, <1>3, <2>1 DEF WorkerSound, TriggeredSound
  <2> QED BY <1>3, <1>4, <2>2 DEF TriggeredSound, Live, Triggers, Cooled
<1>9. PhaseSound(w)'
  BY <1>1, <1>2, <1>3 DEF WorkerSound, PhaseSound
<1>10. NothingMissed(w)'
  <2>1. ASSUME NEW q \in Rules, ruleLock[q] = w, Live(q), Triggers(t.event, q, t.at)
        PROVE  q \in u.triggered \/ \E j \in u.rows : Watched[u.event][j] = q
    <3>1. q \in t.triggered \/ \E j \in t.rows : Watched[t.event][j] = q
      BY <1>1, <1>2, <2>1 DEF WorkerSound, NothingMissed, RuleAt
    <3>2. Watched[t.event][i] = r
      BY DEF RuleAt
    <3> QED BY <1>3, <3>1, <3>2
  <2> QED BY <1>3, <1>4, <2>1 DEF NothingMissed, RuleAt, Live, Triggers, Cooled
<1> QED BY <1>6, <1>7, <1>8, <1>9, <1>10 DEF WorkerSound

(* A transaction that ends has nothing and holds no lock.                    *)
LEMMA ReleaseKeeps ==
  ASSUME IInv, NEW w \in Workers, Release(w)
  PROVE  /\ tx' \in [Workers -> Transaction]
         /\ ruleLock' \in [Rules -> Workers \cup {Nobody}]
         /\ deviceLock' \in [Devices -> Workers \cup {Nobody}]
         /\ WorkerSound(w)'
         /\ \A r \in Rules : ruleLock'[r] = IF ruleLock[r] = w THEN Nobody ELSE ruleLock[r]
         /\ \A v \in Workers \ {w} : tx'[v] = tx[v]
<1>1. TypeOK
  BY DEF IInv
<1>2. tx'[w] = Idle /\ \A r \in Rules : ruleLock'[r] # w
  BY <1>1, ConstantsAssumption DEF Release, TypeOK, ConstantsAssumption
<1>3. WorkerSound(w)'
  BY <1>2, ConstantsTyped DEF WorkerSound, RowsSound, TriggeredSound, PhaseSound, NothingMissed
<1> QED BY <1>1, <1>3, ConstantsTyped DEF Release, TypeOK

LEMMA RollbackKeeps ==
  ASSUME IInv, NEW w \in Workers, Rollback(w), UNCHANGED <<unavailable, deliveries, now, edit, changes>>
  PROVE  TypeOK' /\ TableSound' /\ WorkerSound(w)'
<1>1. UNCHANGED <<rules, marked>> /\ Release(w)
  BY DEF Rollback
<1>2. TypeOK'
  BY <1>1, ReleaseKeeps DEF IInv, TypeOK
<1>3. TableSound'
  BY <1>1, ReleaseKeeps DEF IInv, TableSound
<1> QED BY <1>1, <1>2, <1>3, ReleaseKeeps

LEMMA RulesTriggered ==
  ASSUME IInv, NEW w \in Workers, Commit(w)
  PROVE  /\ rules' \in [Rules -> Rule]
         /\ marked' \subseteq Events \X Rules
         /\ \A r \in Rules : /\ rules'[r].stored = rules[r].stored
                             /\ rules'[r].last # rules[r].last => r \in tx[w].triggered
                             /\ r \notin tx[w].triggered => rules'[r] = rules[r]
<1> PICK t \in Transaction : t = tx[w]
  BY ATransactionTyped DEF IInv
<1>1. /\ t.triggered \subseteq Rules /\ t.at \in 0 .. MaxTime /\ t.event \in Events
      /\ rules \in [Rules -> Rule] /\ marked \subseteq Events \X Rules
  BY DEF Transaction, IInv, TypeOK
<1>2. rules' = [r \in Rules |-> IF r \in t.triggered THEN [rules[r] EXCEPT !.last = t.at] ELSE rules[r]]
  BY DEF Commit
<1>3. marked' = marked \cup {<<t.event, r>> : r \in t.triggered}
  BY DEF Commit
<1>4. \A r \in Rules : [rules[r] EXCEPT !.last = t.at] \in Rule
                       /\ [rules[r] EXCEPT !.last = t.at].stored = rules[r].stored
  BY <1>1 DEF Rule
<1> QED BY <1>1, <1>2, <1>3, <1>4

LEMMA CommitKeeps ==
  ASSUME IInv, NEW w \in Workers, Commit(w)
  PROVE  TypeOK' /\ TableSound' /\ WorkerSound(w)'
<1>1. Release(w) /\ UNCHANGED <<unavailable, deliveries, now, edit, changes>>
  BY DEF Commit
<1>2. TypeOK'
  BY <1>1, ReleaseKeeps, RulesTriggered DEF IInv, TypeOK
<1>3. ASSUME NEW r \in tx[w].triggered PROVE rules[r].stored = "live"
  BY ATransactionTyped DEF IInv, WorkerSound, TriggeredSound, Live
<1>4. ASSUME NEW r \in Rules
      PROVE  /\ ruleLock'[r] # Nobody => rules'[r].stored # "absent"
             /\ rules'[r].stored = "absent" => rules'[r].last = 0
  <2>1. ruleLock'[r] # Nobody => ruleLock[r] # Nobody
    BY <1>1, ReleaseKeeps
  <2>2. rules[r].stored = "absent" => r \notin tx[w].triggered
    BY <1>3
  <2> QED BY <2>1, <2>2, RulesTriggered DEF IInv, TableSound
<1>5. TableSound'
  BY <1>4 DEF TableSound
<1> QED BY <1>1, <1>2, <1>5, ReleaseKeeps

(* A statement of an operator writes one row, which nobody has locked.       *)
Authored(r) ==
  /\ ruleLock[r] = Nobody
  /\ rules' \in [Rules -> Rule]
  /\ \A q \in Rules \ {r} : rules'[q] = rules[q]
  /\ rules'[r].last = rules[r].last
  /\ rules'[r].stored # "absent"

LEMMA CreateRuleAuthors ==
  ASSUME IInv, NEW r \in Rules, CreateRule(r)
  PROVE  Authored(r)
<1>1. PICK enabled \in BOOLEAN, terms \in Terms :
        rules' = [rules EXCEPT ![r] = [stored |-> "live", enabled |-> enabled,
                                       terms |-> terms, last |-> 0]]
  BY DEF CreateRule
<1>2. rules \in [Rules -> Rule] /\ rules[r].last = 0 /\ ruleLock[r] = Nobody
  BY DEF IInv, TypeOK, TableSound, CreateRule
<1>3. [stored |-> "live", enabled |-> enabled, terms |-> terms, last |-> 0] \in Rule
  BY ConstantsAssumption DEF Rule, ConstantsAssumption
<1> QED BY <1>1, <1>2, <1>3 DEF Authored

LEMMA SetRuleEnabledAuthors ==
  ASSUME IInv, NEW r \in Rules, NEW enabled \in BOOLEAN, SetRuleEnabled(r, enabled)
  PROVE  Authored(r)
<1>1. rules' = [rules EXCEPT ![r].enabled = enabled] /\ rules[r].stored = "live" /\ ruleLock[r] = Nobody
  BY DEF SetRuleEnabled, Writable
<1>2. rules \in [Rules -> Rule]
  BY DEF IInv, TypeOK
<1> QED BY <1>1, <1>2 DEF Authored, Rule

LEMMA DeleteRuleAuthors ==
  ASSUME IInv, NEW r \in Rules, DeleteRule(r)
  PROVE  Authored(r)
<1>1. rules' = [rules EXCEPT ![r].stored = "deleted"] /\ rules[r].stored = "live" /\ ruleLock[r] = Nobody
  BY DEF DeleteRule, Writable
<1>2. rules \in [Rules -> Rule]
  BY DEF IInv, TypeOK
<1> QED BY <1>1, <1>2 DEF Authored, Rule

LEMMA UpdateRuleAuthors ==
  ASSUME IInv, NEW o \in Editors, UpdateRule(o), rules' # rules
  PROVE  Authored(Edited[o])
<1> PICK r \in Rules : r = Edited[o]
  BY ConstantsAssumption DEF ConstantsAssumption
<1>1. rules' = [rules EXCEPT ![r] = Columns(o, rules[r])] /\ rules[r].stored = "live" /\ ruleLock[r] = Nobody
  BY DEF UpdateRule, Writable
<1>2. rules \in [Rules -> Rule] /\ edit[o] \in Edit
  BY DEF IInv, TypeOK
<1>3. edit[o].enabled \in BOOLEAN /\ edit[o].terms \in Terms
  BY <1>2 DEF Edit
<1> PICK enabled \in BOOLEAN : enabled = edit[o].enabled
  <2>1. CASE edit[o].enabled = TRUE
    BY <2>1
  <2>2. CASE edit[o].enabled = FALSE
    BY <2>2
  <2> QED BY <1>3, <2>1, <2>2
<1> PICK terms \in Terms : terms = edit[o].terms
  BY <1>3
<1>4. Columns(o, rules[r]) = [rules[r] EXCEPT !.enabled = enabled, !.terms = terms]
  BY DEF Columns
<1>5. rules' = [rules EXCEPT ![r] = [rules[r] EXCEPT !.enabled = enabled, !.terms = terms]]
  BY <1>1, <1>4
<1> PICK old \in Rule : old = rules[r]
  BY <1>2
<1> PICK new \in Rule : new = [old EXCEPT !.enabled = enabled, !.terms = terms]
  BY DEF Rule
<1>6. new.last = old.last /\ new.stored = old.stored
  BY DEF Rule
<1>a. Columns(o, rules[r]) = new
  BY <1>4
<1>7. rules' = [rules EXCEPT ![r] = new]
  BY <1>1, <1>a, Zenon
<1>8. rules' \in [Rules -> Rule] /\ rules'[r] = new /\ \A q \in Rules \ {r} : rules'[q] = rules[q]
  BY <1>2, <1>7
<1> QED BY <1>1, <1>6, <1>8 DEF Authored

LEMMA EditsTyped ==
  ASSUME IInv, NEW o \in Editors, GetRule(o) \/ UpdateRule(o)
  PROVE  edit' \in [Editors -> Edit]
<1>1. edit \in [Editors -> Edit] /\ rules \in [Rules -> Rule] /\ Edited[o] \in Rules
  BY ConstantsAssumption DEF IInv, TypeOK, ConstantsAssumption
<1>2. CASE UpdateRule(o)
  BY <1>1, <1>2, ConstantsTyped DEF UpdateRule
<1>3. CASE GetRule(o)
  <2>1. PICK fields \in SUBSET {"enabled", "terms"}, enabled \in BOOLEAN, terms \in Terms :
       edit' = [edit EXCEPT ![o] = [step |-> "merged", fields |-> fields,
                                    enabled |-> enabled, terms |-> terms]]
    BY <1>3 DEF GetRule
  <2> QED BY <1>1, <2>1 DEF Edit
<1> QED BY <1>2, <1>3

-----------------------------------------------------------------------------
(* No step disturbs what another worker knows.                               *)

WorkerActs(w) ==
  \/ \E e \in Events : Begin(w, e)
  \/ LockRule(w) \/ TakeTime(w) \/ SkipRule(w) \/ TriggerRule(w)
  \/ Commit(w)
  \/ /\ Rollback(w)
     /\ UNCHANGED <<unavailable, deliveries, now, edit, changes>>

LEMMA WorkerActsAre ==
  ASSUME NEW w \in Workers,
         (\E e \in Events : Begin(w, e)) \/ WorkerStep(w) \/ TransactionFails(w)
  PROVE  WorkerActs(w)
  BY DEF WorkerActs, WorkerStep, TransactionFails, ThrowUnavailable, BreakDeadlock

LEMMA OthersUndisturbed ==
  ASSUME IInv, NEW w \in Workers, WorkerActs(w), NEW v \in Workers, v # w
  PROVE  WorkerSound(v)'
<1>1. /\ tx \in [Workers -> Transaction] /\ ruleLock \in [Rules -> Workers \cup {Nobody}]
      /\ rules \in [Rules -> Rule] /\ v # Nobody
  BY ConstantsAssumption DEF IInv, TypeOK, ConstantsAssumption
<1>2. CASE \E e \in Events : Begin(w, e)
  <2>1. UNCHANGED <<rules, marked, ruleLock, tx[v]>>
    BY <1>1, <1>2 DEF Begin, lockVars
  <2> QED BY <2>1, LockProtects
<1>3. CASE LockRule(w)
  <2>1. PICK i \in tx[w].todo :
          /\ ForUpdate(w, RuleAt(w, i))
          /\ tx' = [tx EXCEPT ![w].todo = @ \ {i}, ![w].rows = IF Live(RuleAt(w, i)) THEN @ \cup {i} ELSE @]
    BY <1>3 DEF LockRule
  <2>2. UNCHANGED <<rules, marked, tx[v]>>
    BY <1>1, <1>3, <2>1 DEF LockRule
  <2>3. \A r \in Rules : (ruleLock'[r] = v) <=> (ruleLock[r] = v)
    BY <1>1, <2>1 DEF ForUpdate
  <2> QED BY <2>2, <2>3, LockProtects
<1>4. CASE TakeTime(w)
  <2>1. UNCHANGED <<rules, marked, ruleLock, tx[v]>>
    BY <1>1, <1>4 DEF TakeTime, lockVars
  <2> QED BY <2>1, LockProtects
<1>5. CASE SkipRule(w)
  <2>1. UNCHANGED <<rules, marked, ruleLock, tx[v]>>
    BY <1>1, <1>5 DEF SkipRule, lockVars
  <2> QED BY <2>1, LockProtects
<1>6. CASE TriggerRule(w)
  <2>1. UNCHANGED <<rules, marked, ruleLock, tx[v]>>
    BY <1>1, <1>6 DEF TriggerRule
  <2> QED BY <2>1, LockProtects
<1>7. CASE Commit(w)
  <2>1. UNCHANGED tx[v] /\ \A r \in Rules : (ruleLock'[r] = v) <=> (ruleLock[r] = v)
    BY <1>1, <1>7, ReleaseKeeps DEF Commit
  <2>2. ASSUME NEW r \in Rules, ruleLock[r] = v PROVE r \notin tx[w].triggered
    BY <2>2 DEF IInv, WorkerSound, TriggeredSound
  <2>3. marked' = marked \cup {<<tx[w].event, r>> : r \in tx[w].triggered}
    BY <1>7 DEF Commit
  <2>4. \A r \in Rules : ruleLock[r] = v =>
           rules'[r] = rules[r] /\ \A e \in Events : <<e, r>> \in marked' <=> <<e, r>> \in marked
    BY <1>7, <2>2, <2>3, RulesTriggered
  <2>5. \A r \in Rules : rules[r].stored # "absent" => rules'[r].stored # "absent"
    BY <1>7, RulesTriggered
  <2> QED BY <2>1, <2>4, <2>5, LockProtects
<1>8. CASE Rollback(w) /\ UNCHANGED <<unavailable, deliveries, now, edit, changes>>
  <2>1. UNCHANGED <<rules, marked, tx[v]>> /\ \A r \in Rules : (ruleLock'[r] = v) <=> (ruleLock[r] = v)
    BY <1>1, <1>8, ReleaseKeeps DEF Rollback
  <2> QED BY <2>1, LockProtects
<1> QED BY <1>2, <1>3, <1>4, <1>5, <1>6, <1>7, <1>8 DEF WorkerActs

LEMMA WorkerActsKeep ==
  ASSUME IInv, NEW w \in Workers, WorkerActs(w)
  PROVE  IInv'
<1>1. TypeOK' /\ TableSound' /\ WorkerSound(w)'
  BY BeginKeeps, LockRuleKeeps, TakeTimeKeeps, SkipRuleKeeps, TriggerRuleKeeps, CommitKeeps, RollbackKeeps
     DEF WorkerActs
<1> QED BY <1>1, OthersUndisturbed DEF IInv

LEMMA OperatorsKeep ==
  ASSUME IInv, OperatorStep
  PROVE  IInv' /\ UNCHANGED marked /\ (rules' = rules \/ \E r \in Rules : Authored(r))
<1>1. UNCHANGED <<unavailable, deliveries, marked, now, lockVars, tx>>
  BY DEF OperatorStep, CreateRule, SetRuleEnabled, DeleteRule, GetRule, UpdateRule
<1>2. changes' \in 0 .. MaxChanges
  BY ConstantsAssumption
     DEF IInv, TypeOK, ConstantsAssumption, OperatorStep, Change, CreateRule, SetRuleEnabled, DeleteRule,
         GetRule, UpdateRule
<1>3. edit' \in [Editors -> Edit]
  BY EditsTyped DEF IInv, TypeOK, OperatorStep, CreateRule, SetRuleEnabled, DeleteRule
<1>4. rules' = rules \/ \E r \in Rules : Authored(r)
  <2>1. \A o \in Editors : Edited[o] \in Rules
    BY ConstantsAssumption DEF ConstantsAssumption
  <2> QED BY <2>1, CreateRuleAuthors, SetRuleEnabledAuthors, DeleteRuleAuthors, UpdateRuleAuthors
          DEF OperatorStep, GetRule
<1>5. TypeOK'
  BY <1>1, <1>2, <1>3, <1>4 DEF IInv, TypeOK, lockVars, Authored
<1>6. TableSound'
  BY <1>1, <1>4 DEF IInv, TableSound, lockVars, Authored
<1>7. ASSUME NEW v \in Workers PROVE WorkerSound(v)'
  <2>1. v # Nobody
    BY ConstantsAssumption DEF ConstantsAssumption
  <2> QED BY <1>1, <1>4, <2>1, LockProtects DEF lockVars, Authored
<1> QED BY <1>1, <1>4, <1>5, <1>6, <1>7 DEF IInv

LEMMA TickKeeps ==
  ASSUME IInv, Tick
  PROVE  IInv'
<1>1. UNCHANGED <<unavailable, deliveries, rules, marked, lockVars, tx, edit, changes>>
  BY DEF Tick
<1>2. now' \in 1 .. MaxTime
  BY ConstantsAssumption DEF IInv, TypeOK, Tick, ConstantsAssumption
<1>3. TypeOK' /\ TableSound'
  BY <1>1, <1>2 DEF IInv, TypeOK, TableSound, lockVars
<1>4. ASSUME NEW v \in Workers PROVE WorkerSound(v)'
  BY <1>1, LockProtects DEF lockVars
<1> QED BY <1>3, <1>4 DEF IInv

LEMMA InvStep == IInv /\ [Next]_vars => IInv'
<1> SUFFICES ASSUME IInv, [Next]_vars PROVE IInv'
  OBVIOUS
<1>1. CASE \E w \in Workers : \/ \E e \in Events : Begin(w, e)
                              \/ WorkerStep(w)
                              \/ TransactionFails(w)
  BY <1>1, WorkerActsAre, WorkerActsKeep
<1>2. CASE OperatorStep
  BY <1>2, OperatorsKeep
<1>3. CASE Tick
  BY <1>3, TickKeeps
<1>4. CASE UNCHANGED vars
  <2>1. TypeOK' /\ TableSound'
    BY <1>4 DEF IInv, TypeOK, TableSound, vars, lockVars
  <2>2. ASSUME NEW v \in Workers PROVE WorkerSound(v)'
    BY <1>4, LockProtects DEF vars, lockVars
  <2> QED BY <2>1, <2>2 DEF IInv
<1> QED BY <1>1, <1>2, <1>3, <1>4 DEF Next

(* Row locks keep what the workers know true, and the variables keep their   *)
(* types.                                                                    *)
THEOREM RulesInvariant == Spec => []IInv
<1>1. IInv /\ [Next]_vars => IInv'
  BY InvStep
<1> QED BY InvInit, <1>1, PTL DEF Spec

(* A worker that is about to commit has triggered, or has yet to look at,    *)
(* every rule it locked that the event triggers: applyDeterministicRules     *)
(* leaves none out.                                                          *)
THEOREM RulesAllConsidered == Spec => []NoRuleMissed
<1>1. IInv => NoRuleMissed
  <2> SUFFICES ASSUME IInv, NEW w \in Workers, tx[w].step = "evaluate",
                      NEW i \in DOMAIN Watched[tx[w].event],
                      ruleLock[RuleAt(w, i)] = w, Live(RuleAt(w, i)), TriggersAt(w, i)
               PROVE  RuleAt(w, i) \in tx[w].triggered \/ \E j \in tx[w].rows : RuleAt(w, j) = RuleAt(w, i)
    BY DEF NoRuleMissed
  <2>1. tx[w].event \in Events
    BY ATransactionTyped DEF IInv
  <2> PICK r \in Rules : r = RuleAt(w, i)
    BY <2>1, RulesAtPlaces DEF RuleAt
  <2>2. NothingMissed(w)
    BY DEF IInv, WorkerSound
  <2> QED BY <2>2 DEF NothingMissed, TriggersAt
<1> QED BY <1>1, RulesInvariant, PTL

-----------------------------------------------------------------------------
(* The transaction takes effect at its commit, as RuleBook has it.            *)

LEMMA CommitEvaluates ==
  ASSUME IInv, NEW w \in Workers, Commit(w)
  PROVE  Book!Next
<1> PICK t \in Transaction : t = tx[w]
  BY ATransactionTyped DEF IInv
<1>1. t.event \in Events /\ t.triggered \subseteq Rules
  BY DEF Transaction
<1>2. t.at \in 1 .. MaxTime
  BY DEF IInv, WorkerSound, PhaseSound, Commit
<1>3. \A r \in t.triggered : Live(r) /\ Triggers(t.event, r, t.at)
  BY DEF IInv, WorkerSound, TriggeredSound
<1>4. \A r \in t.triggered : Book!Due(t.event, r, t.at)
  BY <1>3 DEF Book!Due, Book!Live, Book!Cooled, Live, Triggers, Cooled
<1>5. /\ rules' = [r \in Rules |-> IF r \in t.triggered THEN [rules[r] EXCEPT !.last = t.at] ELSE rules[r]]
      /\ marked' = marked \cup {<<t.event, r>> : r \in t.triggered}
  BY DEF Commit
<1>6. Book!Evaluate(t.event, t.at, t.triggered)
  BY <1>4, <1>5 DEF Book!Evaluate
<1> QED BY <1>1, <1>2, <1>6 DEF Book!Next

LEMMA StepsAreTheBooks ==
  IInv /\ [Next]_vars => [Book!Next]_<<rules, marked>>
<1> SUFFICES ASSUME IInv, [Next]_vars PROVE Book!Next \/ UNCHANGED <<rules, marked>>
  OBVIOUS
<1>1. CASE \E w \in Workers : WorkerActs(w)
  <2>1. PICK w \in Workers : WorkerActs(w)
    BY <1>1
  <2>2. CASE Commit(w)
    BY <2>2, CommitEvaluates
  <2>3. CASE ~ Commit(w)
    BY <2>1, <2>3 DEF WorkerActs, Begin, LockRule, TakeTime, SkipRule, TriggerRule, Rollback
  <2> QED BY <2>2, <2>3
<1>2. CASE OperatorStep
  <2>1. UNCHANGED marked /\ (rules' = rules \/ \E r \in Rules : Authored(r))
    BY <1>2, OperatorsKeep
  <2>2. ASSUME NEW r \in Rules, Authored(r) PROVE Book!Author(r)
    BY <2>1, <2>2 DEF Authored, Book!Author
  <2> QED BY <2>1, <2>2 DEF Book!Next
<1>3. CASE Tick
  BY <1>3 DEF Tick
<1>4. CASE UNCHANGED vars
  BY <1>4 DEF vars
<1> QED BY <1>1, <1>2, <1>3, <1>4, WorkerActsAre DEF Next

(* Evaluations under concurrent workers and operators are serialisable, in   *)
(* the order of their commits: the rules of applyDeterministicRules are      *)
(* triggered on the strength of what they are when it commits.               *)
THEOREM EvaluationsAreSerialisable == Spec => EvaluationsSerialisable
<1>1. Init => Book!Init
  BY ConstantsAssumption DEF Init, Book!Init, ConstantsAssumption
<1>2. IInv /\ [Next]_vars => [Book!Next]_<<rules, marked>>
  BY StepsAreTheBooks
<1> QED BY <1>1, <1>2, RulesInvariant, PTL DEF Spec, EvaluationsSerialisable, Book!Spec

===============================================================================
