----------------------------- MODULE HeartbeatWake -----------------------------
(***************************************************************************)
(* Heartbeat wakes (src/infra/heartbeat-wake.ts): requests to run the      *)
(* heartbeat of a target are coalesced in a map, a single timer takes them *)
(* as a batch, and the registered handler is called for each wake of the   *)
(* batch in turn.  The handler belongs to a heartbeat runner               *)
(* (infra/heartbeat-runner.ts), which an in-process restart stops and      *)
(* starts anew while a batch of the old one may still be under way.        *)
(*                                                                         *)
(* Abstractions:                                                           *)
(*  - A wake is its target: which of two wakes for one target goes on (the *)
(*    one of higher priority, else the later) is left out.                 *)
(*  - Time passes in ticks for the one timer; Date.now() never goes back.  *)
(*  - The wakes of a batch are handled in any order.                       *)
(*  - handlerGeneration only tells whether a registration is still the     *)
(*    last one, which here the identity of its runner does.                *)
(*  - The handler is a runner's: nothing registers null.                   *)
(***************************************************************************)
EXTENDS Integers, FiniteSets

CONSTANTS
    Targets,            \* agentId::sessionKey
    CoalesceDelays,     \* coalesceMs of the requests, in ticks
    DEFAULT_COALESCE,
    DEFAULT_RETRY,
    MaxRunners,         \* bound on the starts of a heartbeat runner
    MaxBatches          \* bound on the batches under way at a time

ASSUME NumbersAssumption ==
    /\ CoalesceDelays \subseteq Nat
    /\ DEFAULT_COALESCE \in Nat /\ DEFAULT_RETRY \in Nat
    /\ MaxRunners \in Nat /\ MaxBatches \in Nat \ {0}

VARIABLES
    pendingWakes,   \* the targets that have a wake
    timer,          \* Timer: timer, timerDueAt and timerKind
    scheduled,
    running,
    handler,        \* the runner whose handler is registered, or 0
    started,        \* how many runners have started: 1 .. started
    stopped,        \* the runners that were stopped
    batch,          \* [1 .. MaxBatches -> Batch]: the callbacks under way
    owed            \* [Targets -> ...]: was the last request answered? (history)

vars == <<pendingWakes, timer, scheduled, running, handler, started, stopped, batch, owed>>

Delays == CoalesceDelays \cup {DEFAULT_COALESCE, DEFAULT_RETRY}
Timer == [kind : {"none", "normal", "retry"}, left : Nat, delay : Delays \cup {0}]
NoTimer == [kind |-> "none", left |-> 0, delay |-> 0]

\* at: the targets (one, or none) whose wake the handler is busy with; todo: the
\* ones to come; disabled: the call found its runner stopped.
Batch == [wakes : SUBSET Targets, at : SUBSET Targets, todo : SUBSET Targets,
          runner : 0 .. MaxRunners, disabled : BOOLEAN, delay : Delays \cup {0}]
NoBatch == [wakes |-> {}, at |-> {}, todo |-> {}, runner |-> 0,
            disabled |-> FALSE, delay |-> 0]

Underway == {i \in 1 .. MaxBatches : batch[i] # NoBatch}

TypeOK ==
    /\ pendingWakes \subseteq Targets
    /\ timer \in Timer
    /\ scheduled \in BOOLEAN /\ running \in BOOLEAN
    /\ started \in 0 .. MaxRunners
    /\ stopped \subseteq 1 .. started
    /\ handler \in 0 .. started
    /\ batch \in [1 .. MaxBatches -> Batch]
    /\ \A i \in 1 .. MaxBatches : \A t, u \in batch[i].at : t = u
    /\ owed \in [Targets -> {"no", "owed", "dropped"}]

Init ==
    /\ pendingWakes = {}
    /\ timer = NoTimer
    /\ scheduled = FALSE /\ running = FALSE
    /\ handler = 0 /\ started = 0 /\ stopped = {}
    /\ batch = [i \in 1 .. MaxBatches |-> NoBatch]
    /\ owed = [t \in Targets |-> "no"]

-----------------------------------------------------------------------------
\* Wrong on purpose (W_...): a sooner request replaces the retry timer as well.
W_ScheduleCollapsesRetry(tm, delay, kind) ==
    IF tm.kind # "none" /\ tm.left <= delay
    THEN tm
    ELSE [kind |-> kind, left |-> delay, delay |-> delay]

\* schedule: the timer tm stays if it is a retry, or due no later.
schedule(tm, delay, kind) ==
    IF tm.kind = "retry" \/ (tm.kind # "none" /\ tm.left <= delay)
    THEN tm
    ELSE [kind |-> kind, left |-> delay, delay |-> delay]

requestHeartbeat(t, coalesce) ==
    /\ pendingWakes' = pendingWakes \cup {t}
    /\ timer' = schedule(timer, coalesce, "normal")
    /\ owed' = [owed EXCEPT ![t] = "owed"]
    /\ UNCHANGED <<scheduled, running, handler, started, stopped, batch>>

-----------------------------------------------------------------------------
(* The timer.                                                               *)

\* Wrong on purpose: a timer that is due goes on counting.
W_TickPastDue ==
    /\ timer.kind # "none" /\ timer.left >= 0
    /\ timer' = [timer EXCEPT !.left = @ - 1]
    /\ UNCHANGED <<pendingWakes, scheduled, running, handler, started, stopped, batch, owed>>

Tick ==
    /\ timer.left > 0
    /\ timer' = [timer EXCEPT !.left = @ - 1]
    /\ UNCHANGED <<pendingWakes, scheduled, running, handler, started, stopped, batch, owed>>

Due == timer.kind # "none" /\ timer.left = 0

\* Nothing to call, or nothing to call it for: the pending wakes stay.
FiresIdle ==
    /\ Due
    /\ handler = 0 \/ (~running /\ pendingWakes = {})
    /\ timer' = NoTimer
    /\ scheduled' = FALSE
    /\ UNCHANGED <<pendingWakes, running, handler, started, stopped, batch, owed>>

FiresWhileRunning ==
    /\ Due
    /\ handler # 0 /\ running
    /\ timer' = schedule(NoTimer, timer.delay, timer.kind)
    /\ scheduled' = TRUE
    /\ UNCHANGED <<pendingWakes, running, handler, started, stopped, batch, owed>>

\* Wrong on purpose: a batch under way does not keep the next one waiting.
W_FiresBatchConcurrently(t) ==
    /\ Due
    /\ handler # 0
    /\ t \in pendingWakes
    /\ \E i \in 1 .. MaxBatches :
          /\ i \notin Underway /\ \A j \in 1 .. i - 1 : j \in Underway
          /\ batch' = [batch EXCEPT ![i] =
                [wakes |-> pendingWakes, at |-> {t}, todo |-> pendingWakes \ {t},
                 runner |-> handler, disabled |-> FALSE, delay |-> timer.delay]]
    /\ pendingWakes' = {}
    /\ timer' = NoTimer
    /\ scheduled' = FALSE
    /\ running' = TRUE
    /\ UNCHANGED <<handler, started, stopped, owed>>

\* Take the pending wakes as a batch, and call the handler for the first, t.
FiresBatch(t) ==
    /\ Due
    /\ handler # 0 /\ ~running
    /\ t \in pendingWakes
    /\ \E i \in 1 .. MaxBatches :
          /\ i \notin Underway /\ \A j \in 1 .. i - 1 : j \in Underway
          /\ batch' = [batch EXCEPT ![i] =
                [wakes |-> pendingWakes, at |-> {t}, todo |-> pendingWakes \ {t},
                 runner |-> handler, disabled |-> FALSE, delay |-> timer.delay]]
    /\ pendingWakes' = {}
    /\ timer' = NoTimer
    /\ scheduled' = FALSE
    /\ running' = TRUE
    /\ UNCHANGED <<handler, started, stopped, owed>>

-----------------------------------------------------------------------------
(* The handler returns.  To await the next call, or to leave the loop and   *)
(* go through `finally', is one step with what its result calls for.        *)

\* The wakes of batch i that are its to answer.
Held(i) == batch[i].at \cup batch[i].todo

\* The loop goes on with one of the targets to come, or is over.
NextCall(i, tm) ==
    LET b == batch[i]
    IN  \/ \E t \in b.todo :
              /\ batch' = [batch EXCEPT ![i] = [b EXCEPT
                    !.at = {t}, !.todo = @ \ {t}, !.disabled = b.runner \in stopped]]
              /\ timer' = tm
              /\ UNCHANGED running
        \/ /\ b.todo = {}
           /\ batch' = [batch EXCEPT ![i] = NoBatch]
           /\ running' = FALSE
           /\ timer' = IF scheduled \/ pendingWakes' # {}
                       THEN schedule(tm, b.delay, "normal") ELSE tm

\* The last request of t is over unless there is another wake for t.
Answer(i, t, how) ==
    owed' = IF t \in pendingWakes \/ \E j \in Underway \ {i} : t \in Held(j)
            THEN owed ELSE [owed EXCEPT ![t] = how]

\* It ran, or was skipped or failed for good. A stopped runner does nothing.
HandlerAnswers(i) ==
    /\ i \in Underway
    /\ \E t \in batch[i].at : Answer(i, t, IF batch[i].disabled THEN "dropped" ELSE "no")
    /\ UNCHANGED pendingWakes
    /\ NextCall(i, timer)
    /\ UNCHANGED <<scheduled, handler, started, stopped>>

\* Busy: requests in flight, cron in progress, or lanes busy.
HandlerBusy(i) ==
    /\ i \in Underway /\ ~batch[i].disabled
    /\ pendingWakes' = pendingWakes \cup batch[i].at
    /\ NextCall(i, schedule(timer, DEFAULT_RETRY, "retry"))
    /\ UNCHANGED <<scheduled, handler, started, stopped, owed>>

\* Wrong on purpose: only the wake that failed is queued again.
W_RequeuedAfterThrow(i) == batch[i].at

\* What a throw queues again: the whole batch, the wakes that ran included.
RequeuedAfterThrow(i) == batch[i].wakes

HandlerThrows(i) ==
    /\ i \in Underway /\ ~batch[i].disabled
    /\ pendingWakes' = pendingWakes \cup RequeuedAfterThrow(i)
    /\ batch' = [batch EXCEPT ![i] = NoBatch]
    /\ running' = FALSE
    /\ timer' = schedule(schedule(timer, DEFAULT_RETRY, "retry"), batch[i].delay, "normal")
    /\ UNCHANGED <<scheduled, handler, started, stopped, owed>>

-----------------------------------------------------------------------------
(* The runners.                                                             *)

\* Wrong on purpose: a new handler leaves what is pending to the next request,
\* or finds the flags as the last lifecycle left them.
W_StartRunnerIdle ==
    /\ started < MaxRunners
    /\ started' = started + 1 /\ handler' = started + 1
    /\ running' = FALSE /\ scheduled' = FALSE
    /\ timer' = NoTimer
    /\ UNCHANGED <<pendingWakes, stopped, batch, owed>>

W_StartRunnerKeepsFlags ==
    /\ started < MaxRunners
    /\ started' = started + 1 /\ handler' = started + 1
    /\ timer' = IF pendingWakes = {} THEN NoTimer
                ELSE schedule(NoTimer, DEFAULT_COALESCE, "normal")
    /\ UNCHANGED <<pendingWakes, running, scheduled, stopped, batch, owed>>

\* setHeartbeatWakeHandler: a fresh timer and fresh flags, whatever is under way.
StartRunner ==
    /\ started < MaxRunners
    /\ started' = started + 1 /\ handler' = started + 1
    /\ running' = FALSE /\ scheduled' = FALSE
    /\ timer' = IF pendingWakes = {} THEN NoTimer
                ELSE schedule(NoTimer, DEFAULT_COALESCE, "normal")
    /\ UNCHANGED <<pendingWakes, stopped, batch, owed>>

\* Wrong on purpose: the disposer of an old registration clears the new one.
W_StopRunnerStale(r) ==
    /\ r \in 1 .. started /\ r \notin stopped
    /\ stopped' = stopped \cup {r}
    /\ handler' = 0
    /\ UNCHANGED <<pendingWakes, timer, scheduled, running, started, batch, owed>>

\* The runner's cleanup; its disposer spares the handler of a later runner.
StopRunner(r) ==
    /\ r \in 1 .. started /\ r \notin stopped
    /\ stopped' = stopped \cup {r}
    /\ handler' = IF handler = r THEN 0 ELSE handler
    /\ UNCHANGED <<pendingWakes, timer, scheduled, running, started, batch, owed>>

-----------------------------------------------------------------------------
HandlerReturns(i) == HandlerAnswers(i) \/ HandlerBusy(i) \/ HandlerThrows(i)

Fires == FiresIdle \/ FiresWhileRunning \/ \E t \in Targets : FiresBatch(t)

Next ==
    \/ \E t \in Targets, d \in CoalesceDelays : requestHeartbeat(t, d)
    \/ Tick \/ Fires
    \/ \E i \in 1 .. MaxBatches : HandlerReturns(i)
    \/ StartRunner
    \/ \E r \in 1 .. MaxRunners : StopRunner(r)

Spec == Init /\ [][Next]_vars

\* Time passes, due timers fire, and a heartbeat ends, since its run has a
\* timeout; not necessarily so when its runner was stopped meanwhile.
FairSpec ==
    /\ Spec
    /\ WF_vars(Tick) /\ WF_vars(Fires)
    /\ \A i \in 1 .. MaxBatches : WF_vars(batch[i].runner \notin stopped /\ HandlerReturns(i))

-----------------------------------------------------------------------------
(* Properties.                                                              *)

\* While a handler is registered a pending wake has a timer that will take it:
\* also after a busy or failed batch, and after a restart that found it pending.
NothingStranded == handler # 0 /\ pendingWakes # {} => timer.kind # "none"

\* A requested wake is pending or in a batch until its handler has answered it;
\* only a runner that is stopped under its own batch drops one.
NoWakeLost == \A t \in Targets :
    owed[t] = "owed" => t \in pendingWakes \/ \E i \in Underway : t \in Held(i)

\* One batch at a time; each restart that finds one under way adds at most one.
BatchesBounded == Cardinality(Underway) <= started

\* A runner that was started last and not stopped keeps its registration.
RegistrationKept == started \in stopped \cup {0} \/ handler = started

\* "Keep retry cooldown as a hard minimum delay" (heartbeat-wake.ts:192): a retry
\* timer runs its full time, whatever is requested meanwhile, unless a new
\* handler is registered.
CooldownHeld ==
    [][timer.kind = "retry" /\ timer.left > 0 /\ started' = started
          => timer' \in {timer, [timer EXCEPT !.left = @ - 1]}]_vars

\* A pending wake is taken, or the handler goes: neither a stream of requests nor
\* busy targets nor a batch that hangs in a stopped runner starve it.
WakesAreTaken == \A t \in Targets :
    t \in pendingWakes ~> t \notin pendingWakes \/ handler = 0
=============================================================================
