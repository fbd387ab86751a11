------------------------------ MODULE EmbeddedRun ------------------------------
(***************************************************************************)
(* How agent runs use the command queue (src/agents/embedded-agent-runner/ *)
(* run.ts): the body of an entry in the session lane submits the run       *)
(* itself to a global lane and awaits it.  Around that: the registry of    *)
(* active runs (runs.ts), the interrupt of a session (auto-reply/reply/    *)
(* get-reply-run.ts), the recovery of a stuck session                      *)
(* (logging/diagnostic-stuck-session-recovery.runtime.ts) and the          *)
(* in-process restart of the gateway (cli/gateway-cli/run-loop.ts).        *)
(*                                                                         *)
(* The queue itself is CommandQueue, instantiated: every action here takes *)
(* one action of it, or leaves it alone.                                   *)
(*                                                                         *)
(* Abstractions:                                                           *)
(*  - A session is its lane, and its session id its session key.           *)
(*  - The parameters of a run (session, lane, priority, timeout) are given *)
(*    with it, as constants.                                               *)
(*  - Sessions here have no reply operation (cron, heartbeat and memory    *)
(*    runs): the reply-run registry is not consulted.                      *)
(*  - Whether a session looks stuck, whether recovery may abort, and the   *)
(*    session queue depth it is told are free choices.                     *)
(***************************************************************************)
EXTENDS Integers, FiniteSets, Sequences

CONSTANTS
    Runs,
    SessionOf,          \* [Runs -> Sessions]
    LaneOf,             \* [Runs -> GlobalLanes], after resolveGlobalLane
    PriorityOf,         \* [Runs -> Int], by the trigger
    TimedRuns,          \* runs with a finite, positive timeoutMs
    Sessions,
    GlobalLanes,
    RecoverableSessions,    \* sessions the stuck-session recovery visits
    Limits,             \* concurrency limits of the global lanes
    Restarts,           \* the in-process restarts of the gateway
    MaxGeneration

NoRun == "none"
NoWaiter == "none"

ASSUME RunsAssumption ==
    /\ IsFiniteSet(Runs) /\ NoRun \notin Runs
    /\ SessionOf \in [Runs -> Sessions] /\ LaneOf \in [Runs -> GlobalLanes]
    /\ PriorityOf \in [Runs -> Int] /\ TimedRuns \subseteq Runs
ASSUME SessionsAssumption ==
    /\ Sessions # {} /\ Sessions \cap GlobalLanes = {}
    /\ RecoverableSessions \subseteq Sessions
ASSUME LimitsAssumption ==
    /\ Limits \subseteq Nat /\ MaxGeneration \in Nat
    /\ NoWaiter \notin Restarts

VARIABLES
    gatewayDraining, queue, active, maxConcurrent, generation,
    nextQueueSequence, entry, waiter,       \* of CommandQueue
    aborted,        \* [Runs -> BOOLEAN]: the run's abort signal
    handle,         \* [Sessions -> Runs \cup {NoRun}]: ACTIVE_EMBEDDED_RUNS
    recovery,       \* [Sessions -> Recovery]
    restart         \* the restart under way

Session(r) == <<"session", r>>
Global(r)  == <<"global", r>>

CQ == INSTANCE CommandQueue WITH
        Lanes      <- Sessions \cup GlobalLanes,
        ProbeLanes <- {},
        Entries    <- {"session", "global"} \X Runs,
        Waiters    <- Restarts,
        Priorities <- {PriorityOf[r] : r \in Runs}

queueVars == <<gatewayDraining, queue, active, maxConcurrent, generation,
               nextQueueSequence, entry, waiter>>
vars == <<queueVars, aborted, handle, recovery, restart>>

Recovery == [phase : {"idle", "settling", "drained"},
             preAbort : SUBSET ({"session", "global"} \X Runs)]

\* Wrong on purpose (W_...): a field is not initialised.
W_IdleUninitialised == [phase |-> "idle"]

Idle == [phase |-> "idle", preAbort |-> {}]

RestartPhases == {"none", "marked", "waiting", "overdue", "drained", "timedOut"}
NoRestart == [phase |-> "none", runs |-> FALSE, waiter |-> NoWaiter]

SessionBody(r) == entry[Session(r)].body
RunBody(r)     == entry[Global(r)].body
Forwarded(r)   == entry[Global(r)].promise # "unsubmitted"

TypeOK ==
    /\ CQ!TypeOK
    /\ aborted \in [Runs -> BOOLEAN]
    /\ handle \in [Sessions -> Runs \cup {NoRun}]
    /\ recovery \in [Sessions -> Recovery]
    /\ restart \in [phase : RestartPhases,
                    runs : BOOLEAN, waiter : Restarts \cup {NoWaiter}]

Init ==
    /\ CQ!Init
    /\ aborted = [r \in Runs |-> FALSE]
    /\ handle = [s \in Sessions |-> NoRun]
    /\ recovery = [s \in Sessions |-> Idle]
    /\ restart = NoRestart

-----------------------------------------------------------------------------
(* runEmbeddedAgent.                                                        *)

\* The session entry has no timeout.
Submit(r) ==
    /\ ~aborted[r]
    /\ \/ CQ!Enqueue(Session(r), SessionOf[r], PriorityOf[r], FALSE)
       \/ CQ!EnqueueRefused(Session(r))
    /\ UNCHANGED <<aborted, handle, recovery, restart>>

\* Wrong on purpose: the run goes to the lane its session entry is holding.
W_ForwardToOwnLane(r) ==
    /\ SessionBody(r) = "executing"
    /\ ~Forwarded(r)
    /\ ~aborted[r]
    /\ \/ CQ!Enqueue(Global(r), SessionOf[r], PriorityOf[r], r \in TimedRuns)
       \/ CQ!EnqueueRefused(Global(r))
    /\ UNCHANGED <<aborted, handle, recovery, restart>>

\* The body of the session entry: submit the run, unless it was aborted.
Forward(r) ==
    /\ SessionBody(r) = "executing"
    /\ ~Forwarded(r)
    /\ ~aborted[r]
    /\ \/ CQ!Enqueue(Global(r), LaneOf[r], PriorityOf[r], r \in TimedRuns)
       \/ CQ!EnqueueRefused(Global(r))
    /\ UNCHANGED <<aborted, handle, recovery, restart>>

\* Wrong on purpose: the session entry does not await the run it submitted.
W_SessionSettlesAtOnce(r) ==
    /\ Forwarded(r) \/ aborted[r]
    /\ CQ!TaskSettles(Session(r))
    /\ UNCHANGED <<aborted, handle, recovery, restart>>

\* The body of the session entry ends with the promise it awaits.
SessionSettles(r) ==
    /\ IF Forwarded(r) THEN CQ!Settled(Global(r)) ELSE aborted[r]
    /\ CQ!TaskSettles(Session(r))
    /\ UNCHANGED <<aborted, handle, recovery, restart>>

\* The body of the run: an attempt registers the run and, at its end, removes
\* it, unless another run has taken the place; there may be several attempts.
Register(r) ==
    /\ RunBody(r) = "executing"
    /\ handle[SessionOf[r]] # r
    /\ handle' = [handle EXCEPT ![SessionOf[r]] = r]
    /\ UNCHANGED <<queueVars, aborted, recovery, restart>>

\* notifyEmbeddedRunEnded wakes a recovery that waits for the end of the run.
Unregister(r) ==
    LET s == SessionOf[r]
    IN  /\ handle[s] = r
        /\ handle' = [handle EXCEPT ![s] = NoRun]
        /\ recovery' = [recovery EXCEPT ![s].phase = IF @ = "settling" THEN "drained" ELSE @]
        /\ UNCHANGED <<queueVars, aborted, restart>>

RunSettles(r) ==
    /\ handle[SessionOf[r]] # r
    /\ CQ!TaskSettles(Global(r)) \/ CQ!LateSettle(Global(r))
    /\ UNCHANGED <<aborted, handle, recovery, restart>>

RunTimesOut(r) ==
    /\ CQ!TaskTimesOut(Global(r))
    /\ UNCHANGED <<aborted, handle, recovery, restart>>

\* The caller's abort signal.
Abort(r) ==
    /\ ~aborted[r]
    /\ aborted' = [aborted EXCEPT ![r] = TRUE]
    /\ UNCHANGED <<queueVars, handle, recovery, restart>>

-----------------------------------------------------------------------------
(* Intervention from outside.                                               *)

\* A limit of a global lane changes with the configuration.
SetConcurrency(l, n) ==
    /\ CQ!SetConcurrency(l, n)
    /\ UNCHANGED <<aborted, handle, recovery, restart>>

\* abortEmbeddedAgentRun of the sessions ss.
AbortHandles(ss) ==
    aborted' = [r \in Runs |-> aborted[r] \/ (SessionOf[r] \in ss /\ handle[SessionOf[r]] = r)]

\* A message in interrupt mode: clear the lane of the session, abort its run.
Interrupt(s) ==
    /\ queue[s] # <<>> \/ active[s] # {} \/ handle[s] # NoRun
    /\ IF queue[s] # <<>> THEN CQ!ClearLane(s) ELSE UNCHANGED queueVars
    /\ AbortHandles({s})
    /\ UNCHANGED <<handle, recovery, restart>>

\* recoverStuckDiagnosticSession, up to the wait for the aborted run to end.
RecoveryAborts(s) ==
    /\ recovery[s].phase = "idle"
    /\ handle[s] # NoRun
    /\ AbortHandles({s})
    /\ recovery' = [recovery EXCEPT ![s] = [phase |-> "settling", preAbort |-> active[s]]]
    /\ UNCHANGED <<queueVars, handle, restart>>

\* The rest of it. The wait ended because a run of the session was removed from
\* the registry, or after STUCK_SESSION_ABORT_SETTLE_MS, and then whichever run
\* is registered is cleared. The lane is not reset if it started a task since.
RecoveryReleases(s, drained, hasQueuedSessionWork) ==
    /\ recovery[s].phase = IF drained THEN "drained" ELSE "settling"
    /\ handle' = IF drained THEN handle ELSE [handle EXCEPT ![s] = NoRun]
    /\ recovery' = [recovery EXCEPT ![s] = Idle]
    /\ IF /\ active[s] \subseteq recovery[s].preAbort
          /\ queue[s] # <<>> \/ hasQueuedSessionWork \/ ~drained
       THEN CQ!ResetLane(s)
       ELSE UNCHANGED queueVars
    /\ UNCHANGED <<aborted, restart>>

\* Nothing is registered and the lane runs nothing: it is reset at once.
RecoveryResetsIdleLane(s) ==
    /\ recovery[s].phase = "idle"
    /\ handle[s] = NoRun /\ active[s] = {}
    /\ CQ!ResetLane(s)
    /\ UNCHANGED <<aborted, handle, recovery, restart>>

-----------------------------------------------------------------------------
(* In-process restart.                                                      *)

\* Wrong on purpose: new work is not refused during the drain.
W_BeginRestartOpen ==
    /\ restart = NoRestart
    /\ \E w \in Restarts : waiter[w].state = "idle"
    /\ restart' = [NoRestart EXCEPT !.phase = "marked"]
    /\ UNCHANGED <<queueVars, aborted, handle, recovery>>

BeginRestart ==
    /\ restart = NoRestart
    /\ \E w \in Restarts : waiter[w].state = "idle"
    /\ CQ!MarkGatewayDraining
    /\ restart' = [NoRestart EXCEPT !.phase = "marked"]
    /\ UNCHANGED <<aborted, handle, recovery>>

RegisteredRuns == {s \in Sessions : handle[s] # NoRun}

\* Wait for the active tasks, and for the registered runs if there are any.
WaitForDrain(w) ==
    /\ restart.phase = "marked"
    /\ CQ!WaitForActiveTasks(w, "some")
    /\ restart' = [phase |-> "waiting", runs |-> RegisteredRuns # {}, waiter |-> w]
    /\ UNCHANGED <<aborted, handle, recovery>>

WaitTimesOut(w) ==
    /\ CQ!WaiterGivesUp(w)
    /\ UNCHANGED <<aborted, handle, recovery, restart>>

\* The registered runs are awaited before the tasks; runs that register while
\* the tasks are awaited are not looked at again.
RunsDrain ==
    /\ restart.phase = "waiting" /\ restart.runs
    /\ RegisteredRuns = {}
    /\ restart' = [restart EXCEPT !.runs = FALSE]
    /\ UNCHANGED <<queueVars, aborted, handle, recovery>>

\* Their budget ends: abort all.  The tasks are still awaited.
RunsTimeOut ==
    /\ restart.phase = "waiting" /\ restart.runs
    /\ RegisteredRuns # {}
    /\ AbortHandles(Sessions)
    /\ restart' = [restart EXCEPT !.phase = "overdue"]
    /\ UNCHANGED <<queueVars, handle, recovery>>

DrainEnds ==
    /\ restart.phase = "waiting" /\ ~restart.runs
    /\ waiter[restart.waiter].state = "drained"
    /\ restart' = [restart EXCEPT !.phase = "drained"]
    /\ UNCHANGED <<queueVars, aborted, handle, recovery>>

\* A forced restart or the end of the budget for tasks: abort all, unless the
\* end of the budget for runs did.
DrainTimesOut ==
    /\ \/ /\ \/ restart.phase = "marked"
             \/ /\ restart.phase = "waiting" /\ ~restart.runs
                /\ waiter[restart.waiter].state = "gaveUp"
          /\ AbortHandles(Sessions)
       \/ /\ restart.phase = "overdue"
          /\ waiter[restart.waiter].state # "waiting"
          /\ UNCHANGED aborted
    /\ restart' = [restart EXCEPT !.phase = "timedOut"]
    /\ UNCHANGED <<queueVars, handle, recovery>>

\* The server has closed; the next iteration of the run loop resets the lanes.
NextIteration ==
    /\ restart.phase \in {"drained", "timedOut"}
    /\ CQ!ResetAllLanes
    /\ restart' = NoRestart
    /\ UNCHANGED <<aborted, handle, recovery>>

-----------------------------------------------------------------------------
Next ==
    \/ \E r \in Runs :
          \/ Submit(r) \/ Forward(r) \/ SessionSettles(r)
          \/ Register(r) \/ Unregister(r)
          \/ RunSettles(r) \/ RunTimesOut(r)
          \/ Abort(r)
    \/ \E l \in GlobalLanes, n \in Limits : SetConcurrency(l, n)
    \/ \E s \in Sessions : Interrupt(s)
    \/ \E s \in RecoverableSessions :
          \/ RecoveryAborts(s) \/ RecoveryResetsIdleLane(s)
          \/ \E drained, hasQueued \in BOOLEAN : RecoveryReleases(s, drained, hasQueued)
    \/ BeginRestart
    \/ \E w \in Restarts : WaitForDrain(w) \/ WaitTimesOut(w)
    \/ RunsDrain \/ RunsTimeOut \/ DrainEnds \/ DrainTimesOut \/ NextIteration

Spec == Init /\ [][Next]_vars

\* What run.ts does by itself: the body of a session entry forwards and ends
\* with its run, and a run that has a lane timeout ends or times out.
RunAdvances(r) ==
    \/ Forward(r) \/ SessionSettles(r)
    \/ r \in TimedRuns /\ (RunSettles(r) \/ RunTimesOut(r))

FairSpec == Spec /\ \A r \in Runs : WF_vars(RunAdvances(r))

-----------------------------------------------------------------------------
(* Properties.                                                              *)

TurnOf(r) ==
    CASE entry[Session(r)].promise = "unsubmitted" -> "new"
      [] RunBody(r) = "executing" ->
            IF entry[Global(r)].promise = "pending" /\ CQ!Current(Session(r))
            THEN "executing" ELSE "abandoned"
      [] entry[Session(r)].promise # "unsubmitted" /\ RunBody(r) # "executing" ->
            IF CQ!Settled(Session(r)) \/ CQ!Settled(Global(r)) THEN "over" ELSE "accepted"

Turns == INSTANCE SessionTurns WITH turn <- [r \in Runs |-> TurnOf(r)]

\* The lanes keep the promise of SessionTurns: through interrupts, recoveries,
\* restarts and timeouts a turn executes at most once, and two executing turns
\* of a session are never both in possession of their session's slot.
ImplementsSessionTurns == Turns!Spec

\* After a drain that succeeded, no turn executes on its session's slot when
\* the server closes: a turn submitted before the drain was waited for, a later
\* one was refused. (Work abandoned earlier may still execute.)
DrainedMeansQuiet == restart.phase = "drained" => \A r \in Runs : TurnOf(r) # "executing"

\* A turn that was accepted settles when runs have lane timeouts: waiting in the
\* session lane for a slot of the global lane never deadlocks, whatever is
\* reset, cleared or aborted on the way.
TurnsSettle ==
    TimedRuns = Runs =>
        \A r \in Runs : entry[Session(r)].promise = "pending" ~> CQ!Settled(Session(r))

\* docs/concepts/queue.md:121: "Per-session lanes guarantee that only one agent run
\* touches a given session at a time."  Not so after a lane timeout.
OneRunPerSession == \A q, r \in Runs :
    /\ RunBody(q) = "executing" /\ RunBody(r) = "executing"
    /\ SessionOf[q] = SessionOf[r]
    => q = r
=============================================================================
