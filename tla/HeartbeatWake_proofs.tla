------------------------- MODULE HeartbeatWake_proofs -------------------------
(***************************************************************************)
(* Proofs about HeartbeatWake, for every set of targets, every delay and   *)
(* any number of runners and batches.                                      *)
(***************************************************************************)
EXTENDS HeartbeatWake, FiniteSetTheorems, TLAPS

-----------------------------------------------------------------------------
(* The inductive invariant.                                                 *)

\* What a batch still has to answer was in it from the start.
HeldInBatch == \A i \in 1 .. MaxBatches : Held(i) \subseteq batch[i].wakes

\* Before the first runner nothing is called; after that there is one batch less
\* than there were runners whenever the running flag is clear.
RunningCounted ==
    /\ Underway \subseteq 1 .. MaxBatches
    /\ started = 0 => Underway = {} /\ handler = 0
    /\ started > 0 =>
          Cardinality(Underway) + (IF running THEN 0 ELSE 1) <= started

IInv == /\ TypeOK
        /\ HeldInBatch
        /\ RunningCounted
        /\ NothingStranded
        /\ NoWakeLost
        /\ RegistrationKept

-----------------------------------------------------------------------------
(* schedule.                                                                *)

LEMMA DelaysAreNat == Delays \subseteq Nat
BY NumbersAssumption DEF Delays

LEMMA ScheduleFacts ==
    ASSUME NEW tm \in Timer, NEW delay \in Delays \cup {0}, NEW kind \in {"normal", "retry"}
    PROVE  /\ schedule(tm, delay, kind) \in Timer
           /\ schedule(tm, delay, kind).kind # "none"
           /\ tm.kind = "retry" => schedule(tm, delay, kind) = tm
BY DelaysAreNat DEF schedule, Timer

LEMMA NoTimerFacts == NoTimer \in Timer
BY DEF NoTimer, Timer

LEMMA NoBatchFacts == NoBatch \in Batch
BY NumbersAssumption DEF NoBatch, Batch

-----------------------------------------------------------------------------
LEMMA InitIInv == Init => IInv
<1> SUFFICES ASSUME Init PROVE IInv
  OBVIOUS
<1>1. TypeOK
  <2>1. batch \in [1 .. MaxBatches -> Batch]
    BY NoBatchFacts DEF Init
  <2>2. \A i \in 1 .. MaxBatches : batch[i].at = {}
    BY DEF Init, NoBatch
  <2>3. /\ started \in 0 .. MaxRunners /\ handler \in 0 .. started
        /\ stopped \subseteq 1 .. started
    BY NumbersAssumption DEF Init
  <2>. QED
    BY <2>1, <2>2, <2>3, NoTimerFacts DEF Init, TypeOK
<1>2. Underway = {} /\ HeldInBatch
  BY DEF Init, Underway, HeldInBatch, Held, NoBatch
<1>3. RunningCounted
  BY <1>2 DEF Init, RunningCounted
<1>4. NothingStranded /\ NoWakeLost /\ RegistrationKept
  BY DEF Init, NothingStranded, NoWakeLost, RegistrationKept
<1>. QED
  BY <1>1, <1>2, <1>3, <1>4 DEF IInv

-----------------------------------------------------------------------------
(* Steps that leave the batches alone.                                      *)

LEMMA BatchUnchanged ==
    ASSUME IInv, UNCHANGED batch
    PROVE  HeldInBatch' /\ Underway' = Underway /\ \A i : Held(i)' = Held(i)
BY DEF IInv, HeldInBatch, Held, Underway

LEMMA RequestStep ==
    ASSUME IInv, NEW t \in Targets, NEW d \in CoalesceDelays, requestHeartbeat(t, d)
    PROVE  IInv'
<1>1. timer' \in Timer /\ timer'.kind # "none"
  BY ScheduleFacts DEF requestHeartbeat, IInv, TypeOK, Delays
<1>2. TypeOK'
  BY <1>1 DEF requestHeartbeat, IInv, TypeOK
<1>3. RunningCounted' /\ HeldInBatch'
  BY BatchUnchanged DEF requestHeartbeat, IInv, RunningCounted
<1>4. NoWakeLost'
  BY BatchUnchanged DEF requestHeartbeat, IInv, TypeOK, NoWakeLost
<1>. QED
  BY <1>1, <1>2, <1>3, <1>4
  DEF requestHeartbeat, IInv, NothingStranded, RegistrationKept

LEMMA TickStep ==
    ASSUME IInv, Tick
    PROVE  IInv'
<1>1. timer' \in Timer /\ timer'.kind = timer.kind
  BY DEF Tick, IInv, TypeOK, Timer
<1>2. TypeOK'
  BY <1>1 DEF Tick, IInv, TypeOK
<1>3. RunningCounted' /\ HeldInBatch'
  BY BatchUnchanged DEF Tick, IInv, RunningCounted
<1>4. NoWakeLost'
  BY BatchUnchanged DEF Tick, IInv, NoWakeLost
<1>. QED
  BY <1>1, <1>2, <1>3, <1>4 DEF Tick, IInv, NothingStranded, RegistrationKept

LEMMA FiresIdleStep ==
    ASSUME IInv, FiresIdle
    PROVE  IInv'
<1>1. TypeOK'
  BY NoTimerFacts DEF FiresIdle, IInv, TypeOK
<1>2. RunningCounted' /\ HeldInBatch'
  BY BatchUnchanged DEF FiresIdle, IInv, RunningCounted
<1>3. NoWakeLost'
  BY BatchUnchanged DEF FiresIdle, IInv, NoWakeLost
<1>. QED
  BY <1>1, <1>2, <1>3 DEF FiresIdle, IInv, NothingStranded, RegistrationKept

LEMMA FiresWhileRunningStep ==
    ASSUME IInv, FiresWhileRunning
    PROVE  IInv'
<1>1. timer' \in Timer /\ timer'.kind # "none"
  <2>1. timer.delay \in Delays \cup {0} /\ timer.kind \in {"normal", "retry"}
    BY DEF FiresWhileRunning, Due, IInv, TypeOK, Timer
  <2>. QED
    BY <2>1, ScheduleFacts, NoTimerFacts DEF FiresWhileRunning
<1>2. TypeOK'
  BY <1>1 DEF FiresWhileRunning, IInv, TypeOK
<1>3. RunningCounted' /\ HeldInBatch'
  BY BatchUnchanged DEF FiresWhileRunning, IInv, RunningCounted
<1>4. NoWakeLost'
  BY BatchUnchanged DEF FiresWhileRunning, IInv, NoWakeLost
<1>. QED
  BY <1>1, <1>2, <1>3, <1>4
  DEF FiresWhileRunning, IInv, NothingStranded, RegistrationKept

LEMMA UnderwayIsFinite == IsFiniteSet(Underway) /\ Cardinality(Underway) \in Nat
<1>1. IsFiniteSet(1 .. MaxBatches)
  BY FS_Interval, NumbersAssumption
<1>2. IsFiniteSet(Underway)
  BY <1>1, FS_Subset DEF Underway
<1>. QED
  BY <1>2, FS_CardinalityType

LEMMA StartRunnerStep ==
    ASSUME IInv, StartRunner
    PROVE  IInv'
<1>1. timer' \in Timer /\ (pendingWakes # {} => timer'.kind # "none")
  BY ScheduleFacts, NoTimerFacts DEF StartRunner, Delays
<1>2. TypeOK'
  <2>1. /\ started' \in 0 .. MaxRunners /\ handler' \in 0 .. started'
        /\ stopped' \subseteq 1 .. started'
    BY NumbersAssumption DEF StartRunner, IInv, TypeOK
  <2>. QED
    BY <1>1, <2>1 DEF StartRunner, IInv, TypeOK
<1>3. RunningCounted'
  <2>1. Underway' = Underway
    BY BatchUnchanged DEF StartRunner
  <2>2. CASE started = 0
    <3>1. Cardinality(Underway) = 0
      BY <2>2, FS_EmptySet DEF IInv, RunningCounted
    <3>. QED
      BY <2>1, <2>2, <3>1 DEF StartRunner, IInv, RunningCounted
  <2>3. CASE started # 0
    BY <2>1, <2>3, UnderwayIsFinite, NumbersAssumption
    DEF StartRunner, IInv, TypeOK, RunningCounted
  <2>. QED
    BY <2>2, <2>3
<1>4. HeldInBatch' /\ NoWakeLost'
  BY BatchUnchanged DEF StartRunner, IInv, NoWakeLost
<1>5. NothingStranded' /\ RegistrationKept'
  BY <1>1 DEF StartRunner, NothingStranded, RegistrationKept
<1>. QED
  BY <1>2, <1>3, <1>4, <1>5 DEF IInv

LEMMA StopRunnerStep ==
    ASSUME IInv, NEW r \in 1 .. MaxRunners, StopRunner(r)
    PROVE  IInv'
<1>1. TypeOK'
  BY NumbersAssumption DEF StopRunner, IInv, TypeOK
<1>2. RunningCounted' /\ HeldInBatch'
  BY BatchUnchanged DEF StopRunner, IInv, RunningCounted
<1>3. NoWakeLost'
  BY BatchUnchanged DEF StopRunner, IInv, NoWakeLost
<1>. QED
  BY <1>1, <1>2, <1>3 DEF StopRunner, IInv, NothingStranded, RegistrationKept

-----------------------------------------------------------------------------
(* Steps of the batches.                                                    *)

LEMMA FiresBatchStep ==
    ASSUME IInv, NEW t \in Targets, FiresBatch(t)
    PROVE  IInv'
<1> DEFINE B == [wakes |-> pendingWakes, at |-> {t}, todo |-> pendingWakes \ {t},
                 runner |-> handler, disabled |-> FALSE, delay |-> timer.delay]
<1>1. PICK i \in 1 .. MaxBatches : i \notin Underway /\ batch' = [batch EXCEPT ![i] = B]
  BY DEF FiresBatch
<1>2. B \in Batch /\ B # NoBatch
  <2>1. timer.delay \in Delays \cup {0} /\ handler \in 0 .. MaxRunners
    BY NumbersAssumption DEF IInv, TypeOK, Timer
  <2>2. B \in Batch
    BY <2>1 DEF Batch, IInv, TypeOK
  <2>3. B.at # NoBatch.at
    BY DEF NoBatch
  <2>. QED
    BY <2>2, <2>3
<1>3. /\ batch' \in [1 .. MaxBatches -> Batch] /\ batch'[i] = B
      /\ \A j \in 1 .. MaxBatches : j # i => batch'[j] = batch[j]
  BY <1>1, <1>2 DEF IInv, TypeOK
<1>4. TypeOK'
  <2>1. \A j \in 1 .. MaxBatches : \A u, v \in batch'[j].at : u = v
    BY <1>3 DEF IInv, TypeOK
  <2>. QED
    BY <1>3, <2>1, NoTimerFacts DEF FiresBatch, IInv, TypeOK
<1>5. Underway' = Underway \cup {i}
  BY <1>2, <1>3 DEF Underway
<1>6. /\ Held(i)' = pendingWakes
      /\ \A j \in 1 .. MaxBatches : j # i => Held(j)' = Held(j)
  BY <1>3 DEF Held, FiresBatch
<1>7. HeldInBatch'
  BY <1>3, <1>6 DEF HeldInBatch, IInv
<1>8. RunningCounted'
  <2>1. Cardinality(Underway') = Cardinality(Underway) + 1
    BY <1>1, <1>5, UnderwayIsFinite, FS_AddElement
  <2>2. started \in Nat /\ started # 0
    BY NumbersAssumption DEF IInv, TypeOK, RunningCounted, FiresBatch
  <2>3. Underway' \subseteq 1 .. MaxBatches
    BY <1>5 DEF IInv, RunningCounted
  <2>. QED
    BY <2>1, <2>2, <2>3, UnderwayIsFinite DEF FiresBatch, IInv, RunningCounted
<1>9. NoWakeLost'
  <2> SUFFICES ASSUME NEW u \in Targets, owed'[u] = "owed"
               PROVE  \E j \in Underway' : u \in Held(j)'
    BY DEF NoWakeLost
  <2>1. CASE u \in pendingWakes
    BY <2>1, <1>5, <1>6
  <2>2. CASE u \notin pendingWakes
    <3>1. PICK j \in Underway : u \in Held(j)
      BY <2>2 DEF FiresBatch, IInv, NoWakeLost
    <3>. QED
      BY <3>1, <1>1, <1>5, <1>6 DEF Underway
  <2>. QED
    BY <2>1, <2>2
<1>. QED
  BY <1>4, <1>7, <1>8, <1>9 DEF FiresBatch, IInv, NothingStranded, RegistrationKept

LEMMA BatchEnds ==
    ASSUME IInv, NEW i \in Underway, batch' = [batch EXCEPT ![i] = NoBatch],
           running' = FALSE, UNCHANGED <<started, handler>>
    PROVE  /\ batch' \in [1 .. MaxBatches -> Batch]
           /\ \A j \in 1 .. MaxBatches : \A u, v \in batch'[j].at : u = v
           /\ HeldInBatch' /\ RunningCounted'
           /\ Underway' = Underway \ {i}
           /\ \A j \in 1 .. MaxBatches : j # i => Held(j)' = Held(j)
<1>1. i \in 1 .. MaxBatches
  BY DEF Underway
<1>2. /\ batch' \in [1 .. MaxBatches -> Batch] /\ batch'[i] = NoBatch
      /\ \A j \in 1 .. MaxBatches : j # i => batch'[j] = batch[j]
  BY <1>1, NoBatchFacts DEF IInv, TypeOK
<1>3. \A j \in 1 .. MaxBatches : \A u, v \in batch'[j].at : u = v
  BY <1>2 DEF NoBatch, IInv, TypeOK
<1>4. /\ Held(i)' = {}
      /\ \A j \in 1 .. MaxBatches : j # i => Held(j)' = Held(j)
  BY <1>2 DEF Held, NoBatch
<1>5. HeldInBatch'
  BY <1>2, <1>4 DEF HeldInBatch, IInv
<1>6. Underway' = Underway \ {i}
  BY <1>1, <1>2 DEF Underway
<1>7. RunningCounted'
  <2>1. Cardinality(Underway') = Cardinality(Underway) - 1
    BY <1>6, UnderwayIsFinite, FS_RemoveElement
  <2>2. started \in Nat
    BY NumbersAssumption DEF IInv, TypeOK
  <2>3. started # 0
    BY DEF IInv, RunningCounted
  <2>4. Cardinality(Underway) <= started
    BY <2>2, <2>3, UnderwayIsFinite DEF IInv, RunningCounted
  <2>5. Underway' \subseteq 1 .. MaxBatches
    BY <1>6 DEF IInv, RunningCounted
  <2>. QED
    BY <2>1, <2>2, <2>3, <2>4, <2>5, UnderwayIsFinite DEF RunningCounted
<1>. QED
  BY <1>2, <1>3, <1>4, <1>5, <1>6, <1>7

\* The loop goes on: the batch has the same wakes and one more under way.
LEMMA BatchGoesOn ==
    ASSUME IInv, NEW i \in Underway, NEW t \in batch[i].todo,
           batch' = [batch EXCEPT ![i] = [batch[i] EXCEPT
              !.at = {t}, !.todo = @ \ {t}, !.disabled = batch[i].runner \in stopped]],
           UNCHANGED <<running, started, handler>>
    PROVE  /\ batch' \in [1 .. MaxBatches -> Batch]
           /\ \A j \in 1 .. MaxBatches : \A u, v \in batch'[j].at : u = v
           /\ HeldInBatch' /\ RunningCounted'
           /\ Underway' = Underway /\ Held(i)' = batch[i].todo
           /\ \A j \in 1 .. MaxBatches : j # i => Held(j)' = Held(j)
<1> DEFINE B == [batch[i] EXCEPT
              !.at = {t}, !.todo = @ \ {t}, !.disabled = batch[i].runner \in stopped]
<1>1. i \in 1 .. MaxBatches /\ batch[i] \in Batch
  BY DEF Underway, IInv, TypeOK
<1>2. /\ B \in Batch /\ B.at = {t} /\ B.todo = batch[i].todo \ {t}
      /\ B.wakes = batch[i].wakes
  <2>1. \A d \in BOOLEAN :
          LET C == [batch[i] EXCEPT !.at = {t}, !.todo = @ \ {t}, !.disabled = d]
          IN  /\ C \in Batch /\ C.at = {t} /\ C.todo = batch[i].todo \ {t}
              /\ C.wakes = batch[i].wakes
    BY <1>1 DEF Batch
  <2>2. (batch[i].runner \in stopped) \in BOOLEAN
    OBVIOUS
  <2>. QED
    BY <2>1, <2>2, Zenon
<1>3. B # NoBatch
  BY <1>2 DEF NoBatch
<1>4. /\ batch' \in [1 .. MaxBatches -> Batch] /\ batch'[i] = B
      /\ \A j \in 1 .. MaxBatches : j # i => batch'[j] = batch[j]
  BY <1>1, <1>2 DEF IInv, TypeOK
<1>5. \A j \in 1 .. MaxBatches : \A u, v \in batch'[j].at : u = v
  BY <1>2, <1>4 DEF IInv, TypeOK
<1>6. /\ Held(i)' = batch[i].todo
      /\ \A j \in 1 .. MaxBatches : j # i => Held(j)' = Held(j)
  BY <1>2, <1>4 DEF Held
<1>7. HeldInBatch'
  BY <1>2, <1>4, <1>6 DEF HeldInBatch, Held, IInv
<1>8. Underway' = Underway
  BY <1>1, <1>3, <1>4 DEF Underway
<1>9. RunningCounted'
  BY <1>8 DEF RunningCounted, IInv
<1>. QED
  BY <1>4, <1>5, <1>6, <1>7, <1>8, <1>9

LEMMA NextCallFacts ==
    ASSUME IInv, NEW i \in Underway, NEW tm \in Timer, NextCall(i, tm),
           UNCHANGED <<started, handler>>
    PROVE  /\ batch' \in [1 .. MaxBatches -> Batch]
           /\ \A j \in 1 .. MaxBatches : \A u, v \in batch'[j].at : u = v
           /\ HeldInBatch' /\ RunningCounted'
           /\ timer' \in Timer /\ running' \in BOOLEAN
           /\ tm.kind # "none" => timer'.kind # "none"
           /\ timer' # tm => timer'.kind # "none"
           /\ timer' = tm => pendingWakes' = {} \/ batch[i].todo # {} \/ tm.kind # "none"
           /\ tm.kind = "retry" => timer' = tm
           /\ \A j \in Underway : j # i => j \in Underway' /\ Held(j)' = Held(j)
           /\ batch[i].todo # {} => i \in Underway' /\ Held(i)' = batch[i].todo
<1>1. batch[i] \in Batch /\ Underway \subseteq 1 .. MaxBatches
  BY DEF Underway, IInv, TypeOK
<1>2. CASE batch[i].todo # {}
  <2>1. PICK t \in batch[i].todo :
          /\ batch' = [batch EXCEPT ![i] = [batch[i] EXCEPT
                !.at = {t}, !.todo = @ \ {t}, !.disabled = batch[i].runner \in stopped]]
          /\ timer' = tm
          /\ UNCHANGED running
    BY <1>2 DEF NextCall
  <2>2. /\ batch' \in [1 .. MaxBatches -> Batch]
        /\ \A j \in 1 .. MaxBatches : \A u, v \in batch'[j].at : u = v
        /\ HeldInBatch' /\ RunningCounted'
        /\ Underway' = Underway /\ Held(i)' = batch[i].todo
        /\ \A j \in 1 .. MaxBatches : j # i => Held(j)' = Held(j)
    BY <2>1, BatchGoesOn
  <2>3. running' \in BOOLEAN
    BY <2>1 DEF IInv, TypeOK
  <2>. QED
    BY <1>1, <1>2, <2>1, <2>2, <2>3
<1>3. CASE batch[i].todo = {}
  <2>1. /\ batch' = [batch EXCEPT ![i] = NoBatch]
        /\ running' = FALSE
        /\ timer' = IF scheduled \/ pendingWakes' # {}
                    THEN schedule(tm, batch[i].delay, "normal") ELSE tm
    BY <1>3 DEF NextCall
  <2>2. /\ batch' \in [1 .. MaxBatches -> Batch]
        /\ \A j \in 1 .. MaxBatches : \A u, v \in batch'[j].at : u = v
        /\ HeldInBatch' /\ RunningCounted'
        /\ Underway' = Underway \ {i}
        /\ \A j \in 1 .. MaxBatches : j # i => Held(j)' = Held(j)
    BY <2>1, BatchEnds
  <2>3. batch[i].delay \in Delays \cup {0}
    BY <1>1 DEF Batch
  <2>4. /\ timer' \in Timer
        /\ tm.kind # "none" => timer'.kind # "none"
        /\ timer' # tm => timer'.kind # "none"
        /\ timer' = tm => pendingWakes' = {} \/ tm.kind # "none"
        /\ tm.kind = "retry" => timer' = tm
    BY <2>1, <2>3, ScheduleFacts
  <2>. QED
    BY <1>1, <1>3, <2>1, <2>2, <2>4
<1>. QED
  BY <1>2, <1>3

LEMMA HandlerAnswersStep ==
    ASSUME IInv, NEW i \in 1 .. MaxBatches, HandlerAnswers(i)
    PROVE  IInv'
<1>1. i \in Underway /\ timer \in Timer /\ NextCall(i, timer)
  BY DEF HandlerAnswers, IInv, TypeOK
<1>2. UNCHANGED <<pendingWakes, scheduled, handler, started, stopped>>
  BY DEF HandlerAnswers
<1>3. PICK t \in batch[i].at, how \in {"no", "dropped"} : Answer(i, t, how)
  BY DEF HandlerAnswers
<1>4. t \in Targets /\ batch[i].at = {t}
  BY DEF IInv, TypeOK, Batch
<1>5. /\ owed' \in [Targets -> {"no", "owed", "dropped"}]
      /\ \A u \in Targets : owed'[u] = "owed" => owed[u] = "owed"
      /\ owed'[t] = "owed" =>
            t \in pendingWakes \/ \E j \in Underway \ {i} : t \in Held(j)
  BY <1>3, <1>4 DEF Answer, IInv, TypeOK
<1>6. TypeOK'
  BY <1>1, <1>2, <1>5, NextCallFacts DEF IInv, TypeOK
<1>7. HeldInBatch' /\ RunningCounted'
  BY <1>1, <1>2, NextCallFacts
<1>8. NothingStranded'
  BY <1>1, <1>2, NextCallFacts DEF NothingStranded, IInv
<1>9. NoWakeLost'
  <2> SUFFICES ASSUME NEW u \in Targets, owed'[u] = "owed", u \notin pendingWakes
               PROVE  \E j \in Underway' : u \in Held(j)'
    BY <1>2 DEF NoWakeLost
  <2>1. PICK j \in Underway : u \in Held(j) /\ (u = t => j # i)
    BY <1>5 DEF IInv, NoWakeLost
  <2>2. CASE j = i
    BY <1>1, <1>2, <1>4, <2>1, <2>2, NextCallFacts DEF Held
  <2>3. CASE j # i
    BY <1>1, <1>2, <2>1, <2>3, NextCallFacts
  <2>. QED
    BY <2>2, <2>3
<1>. QED
  BY <1>2, <1>6, <1>7, <1>8, <1>9 DEF IInv, RegistrationKept

LEMMA HandlerBusyStep ==
    ASSUME IInv, NEW i \in 1 .. MaxBatches, HandlerBusy(i)
    PROVE  IInv'
<1> DEFINE tm == schedule(timer, DEFAULT_RETRY, "retry")
<1>1. i \in Underway /\ batch[i] \in Batch /\ NextCall(i, tm)
  BY DEF HandlerBusy, IInv, TypeOK
<1>2. UNCHANGED <<scheduled, handler, started, stopped, owed>>
  BY DEF HandlerBusy
<1>3. tm \in Timer /\ tm.kind # "none"
  BY ScheduleFacts DEF IInv, TypeOK, Delays
<1> HIDE DEF tm
<1>4. pendingWakes' = pendingWakes \cup batch[i].at /\ pendingWakes' \subseteq Targets
  BY <1>1 DEF HandlerBusy, IInv, TypeOK, Batch
<1>5. TypeOK'
  BY <1>1, <1>2, <1>3, <1>4, NextCallFacts DEF IInv, TypeOK
<1>6. HeldInBatch' /\ RunningCounted' /\ NothingStranded'
  BY <1>1, <1>2, <1>3, NextCallFacts DEF NothingStranded
<1>7. NoWakeLost'
  <2> SUFFICES ASSUME NEW u \in Targets, owed[u] = "owed", u \notin pendingWakes'
               PROVE  \E j \in Underway' : u \in Held(j)'
    BY <1>2 DEF NoWakeLost
  <2>1. PICK j \in Underway : u \in Held(j)
    BY <1>4 DEF IInv, NoWakeLost
  <2>2. CASE j = i
    BY <1>1, <1>2, <1>3, <1>4, <2>1, <2>2, NextCallFacts DEF Held
  <2>3. CASE j # i
    BY <1>1, <1>2, <1>3, <2>1, <2>3, NextCallFacts
  <2>. QED
    BY <2>2, <2>3
<1>. QED
  BY <1>2, <1>5, <1>6, <1>7 DEF IInv, RegistrationKept

LEMMA HandlerThrowsStep ==
    ASSUME IInv, NEW i \in 1 .. MaxBatches, HandlerThrows(i)
    PROVE  IInv'
<1>1. i \in Underway /\ batch[i] \in Batch
  BY DEF HandlerThrows, IInv, TypeOK
<1>2. /\ UNCHANGED <<scheduled, handler, started, stopped, owed>>
      /\ batch' = [batch EXCEPT ![i] = NoBatch] /\ running' = FALSE
  BY DEF HandlerThrows
<1>3. /\ batch' \in [1 .. MaxBatches -> Batch]
      /\ \A j \in 1 .. MaxBatches : \A u, v \in batch'[j].at : u = v
      /\ HeldInBatch' /\ RunningCounted'
      /\ Underway' = Underway \ {i}
      /\ \A j \in 1 .. MaxBatches : j # i => Held(j)' = Held(j)
  BY <1>1, <1>2, BatchEnds
<1>4. timer' \in Timer /\ timer'.kind # "none"
  <2> DEFINE tm == schedule(timer, DEFAULT_RETRY, "retry")
  <2>1. tm \in Timer
    BY ScheduleFacts DEF IInv, TypeOK, Delays
  <2>2. batch[i].delay \in Delays \cup {0} /\ timer' = schedule(tm, batch[i].delay, "normal")
    BY <1>1 DEF HandlerThrows, Batch
  <2> HIDE DEF tm
  <2>. QED
    BY <2>1, <2>2, ScheduleFacts
<1>5. pendingWakes' = pendingWakes \cup batch[i].wakes /\ pendingWakes' \subseteq Targets
  BY <1>1 DEF HandlerThrows, RequeuedAfterThrow, IInv, TypeOK, Batch
<1>6. TypeOK'
  BY <1>2, <1>3, <1>4, <1>5 DEF IInv, TypeOK
<1>7. NoWakeLost'
  <2> SUFFICES ASSUME NEW u \in Targets, owed[u] = "owed", u \notin pendingWakes'
               PROVE  \E j \in Underway' : u \in Held(j)'
    BY <1>2 DEF NoWakeLost
  <2>1. PICK j \in Underway : u \in Held(j)
    BY <1>5 DEF IInv, NoWakeLost
  <2>2. j # i /\ j \in 1 .. MaxBatches
    BY <1>5, <2>1 DEF IInv, HeldInBatch, Underway
  <2>. QED
    BY <1>3, <2>1, <2>2
<1>. QED
  BY <1>2, <1>3, <1>4, <1>6, <1>7 DEF IInv, NothingStranded, RegistrationKept

-----------------------------------------------------------------------------
(* The theorems.                                                            *)

LEMMA Inductive == IInv /\ [Next]_vars => IInv'
<1> SUFFICES ASSUME IInv, [Next]_vars
             PROVE  IInv'
  OBVIOUS
<1>1. ASSUME NEW t \in Targets, NEW d \in CoalesceDelays, requestHeartbeat(t, d)
      PROVE  IInv'
  BY <1>1, RequestStep
<1>2. CASE Tick
  BY <1>2, TickStep
<1>3. CASE Fires
  BY <1>3, FiresIdleStep, FiresWhileRunningStep, FiresBatchStep DEF Fires
<1>4. ASSUME NEW i \in 1 .. MaxBatches, HandlerReturns(i)
      PROVE  IInv'
  BY <1>4, HandlerAnswersStep, HandlerBusyStep, HandlerThrowsStep DEF HandlerReturns
<1>5. CASE StartRunner
  BY <1>5, StartRunnerStep
<1>6. ASSUME NEW r \in 1 .. MaxRunners, StopRunner(r)
      PROVE  IInv'
  BY <1>6, StopRunnerStep
<1>7. CASE UNCHANGED vars
  <2>1. Underway' = Underway /\ HeldInBatch' /\ \A i : Held(i)' = Held(i)
    BY <1>7, BatchUnchanged DEF vars
  <2>. QED
    BY <1>7, <2>1 DEF vars, IInv, TypeOK, RunningCounted, NothingStranded,
                      NoWakeLost, RegistrationKept
<1>. QED
  BY <1>1, <1>2, <1>3, <1>4, <1>5, <1>6, <1>7 DEF Next

LEMMA InvariantHolds == Spec => []IInv
BY InitIInv, Inductive, PTL DEF Spec

\* Every variable keeps its type, a batch has at most one handler call under way,
\* and only runners that started are stopped or registered.
THEOREM TypeCorrect == Spec => []TypeOK
<1>1. IInv => TypeOK
  BY DEF IInv
<1>. QED
  BY <1>1, InvariantHolds, PTL

\* A pending wake always has a timer while a handler is registered: through busy
\* answers, throws, timers that fire into a running batch, and restarts.
THEOREM NoPendingWakeIsStranded == Spec => []NothingStranded
<1>1. IInv => NothingStranded
  BY DEF IInv
<1>. QED
  BY <1>1, InvariantHolds, PTL

\* A requested wake is pending or in a batch until it is answered.
THEOREM RequestsAreKept == Spec => []NoWakeLost
<1>1. IInv => NoWakeLost
  BY DEF IInv
<1>. QED
  BY <1>1, InvariantHolds, PTL

\* There are never more batches under way than runners were started, although a
\* restart clears the flag that keeps one batch waiting for the other.
THEOREM BatchesAreBounded == Spec => []BatchesBounded
<1>1. IInv => BatchesBounded
  <2> SUFFICES ASSUME IInv PROVE Cardinality(Underway) <= started
    BY DEF BatchesBounded
  <2>1. started \in Nat
    BY NumbersAssumption DEF IInv, TypeOK
  <2>2. CASE started = 0
    <3>1. Cardinality(Underway) = 0
      BY <2>2, FS_EmptySet DEF IInv, RunningCounted
    <3>. QED
      BY <2>2, <3>1
  <2>3. CASE started # 0
    BY <2>1, <2>3, UnderwayIsFinite DEF IInv, RunningCounted
  <2>. QED
    BY <2>2, <2>3
<1>. QED
  BY <1>1, InvariantHolds, PTL

\* The disposer of an older runner never takes away the handler of a newer one.
THEOREM LastRegistrationIsKept == Spec => []RegistrationKept
<1>1. IInv => RegistrationKept
  BY DEF IInv
<1>. QED
  BY <1>1, InvariantHolds, PTL

\* A retry timer runs its full time whatever requests, answers, throws and stops
\* come meanwhile; only the start of another runner takes it away.
THEOREM RetryTimersRunOut == Spec => CooldownHeld
<1> DEFINE Kept == timer' \in {timer, [timer EXCEPT !.left = @ - 1]}
<1>1. ASSUME IInv, Next, timer.kind = "retry", timer.left > 0, started' = started
      PROVE  Kept
  <2>1. timer \in Timer /\ timer.left # 0
    BY <1>1 DEF IInv, TypeOK, Timer
  <2>2. ASSUME NEW t \in Targets, NEW d \in CoalesceDelays, requestHeartbeat(t, d)
        PROVE  Kept
    BY <1>1, <2>2 DEF requestHeartbeat, schedule
  <2>3. CASE Tick
    BY <2>3 DEF Tick
  <2>4. CASE Fires
    BY <2>1, <2>4 DEF Fires, FiresIdle, FiresWhileRunning, FiresBatch, Due
  <2>5. ASSUME NEW i \in 1 .. MaxBatches, HandlerAnswers(i)
        PROVE  Kept
    <3>1. i \in Underway /\ NextCall(i, timer) /\ UNCHANGED <<started, handler>>
      BY <2>5 DEF HandlerAnswers
    <3>. QED
      BY <1>1, <2>1, <3>1, NextCallFacts
  <2>6. ASSUME NEW i \in 1 .. MaxBatches, HandlerBusy(i)
        PROVE  Kept
    <3>1. schedule(timer, DEFAULT_RETRY, "retry") = timer
      BY <1>1 DEF schedule
    <3>2. i \in Underway /\ NextCall(i, timer) /\ UNCHANGED <<started, handler>>
      BY <2>6, <3>1 DEF HandlerBusy
    <3>. QED
      BY <1>1, <2>1, <3>2, NextCallFacts
  <2>7. ASSUME NEW i \in 1 .. MaxBatches, HandlerThrows(i)
        PROVE  Kept
    BY <1>1, <2>7 DEF HandlerThrows, schedule
  <2>8. CASE StartRunner
    BY <1>1, <2>8 DEF StartRunner, IInv, TypeOK
  <2>9. ASSUME NEW r \in 1 .. MaxRunners, StopRunner(r)
        PROVE  Kept
    BY <2>9 DEF StopRunner
  <2>. QED
    BY <1>1, <2>2, <2>3, <2>4, <2>5, <2>6, <2>7, <2>8, <2>9 DEF Next, HandlerReturns
<1>2. IInv /\ [Next]_vars =>
        [timer.kind = "retry" /\ timer.left > 0 /\ started' = started
            => timer' \in {timer, [timer EXCEPT !.left = @ - 1]}]_vars
  BY <1>1
<1>. QED
  BY <1>2, InvariantHolds, PTL DEF Spec, CooldownHeld
=============================================================================
