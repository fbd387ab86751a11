# Verification of the gateway's queues

TLA+ specifications, TLC model checking and TLAPS proofs for the concurrent
core of ailb: the OpenClaw gateway that runs the agent. Source paths below are
relative to the repository; `process/...`, `infra/...`, `agents/...` and so on
stand for `src/process/...` etc. of the gateway package.

    tlc -config CommandQueue_lanes.cfg MC_CommandQueue.tla      # one run
    tlapm CommandQueue_proofs.tla                               # the proofs,
    tlapm HeartbeatWake_proofs.tla                              # module by module
    tlapm OutboundDelivery_proofs.tla
    tlapm CronService_proofs.tla
    tlapm FollowupQueue_proofs.tla
    tlapm FollowupMessages_proofs.tla
    tlapm EmbeddedRun_proofs.tla

`PROJECT.json` lists every run with its properties, the source lines behind
every definition, for each property a deliberately wrong definition (named
`W_...` and defined just above the right one) under which TLC finds the
property violated, the findings, and the hazards the properties are for.

## 1. The system

Users reach one agent from WhatsApp or from the web. The web site is a set of
Cloudflare Pages functions over a key/value store (`site/functions`). They call
a relay (`infra/relay-server.js`), which runs the gateway's command line. The
gateway is a single Node.js process: between two `await`s its code is atomic,
and its hazards lie in what happens between them, in timers, in restarts, and
in what is left on disk after a crash.

### Inventory

| Component | State | Operations | Hard behaviour | What makes it correct |
|---|---|---|---|---|
| Command queue, `process/command-queue.ts` | lanes: priority queue, task ids in slots, limit, generation; the waiters; the draining flag | enqueue, pump, settle, time out, set limit, clear, reset one or all lanes, wait for active tasks | completions of tasks that outlived a reset or their timeout; limits that change under running tasks; waiters woken by resets | every slot is owned by a current task, no accepted work is lost, starts are in order and within the limit, no lane idles with work, nobody waits for nothing |
| Embedded runs, `agents/embedded-agent-runner/run.ts`, `runs.ts` | a session entry and a global entry per run, the abort signal, the registry of active runs | submit, forward, register, unregister, time out, abort, interrupt, recover a stuck session, restart in process | a slot held while waiting for another; bodies that go on after their promise settled; snapshots kept across awaits | one turn of a session at a time, no deadlock, a drained gateway is quiet |
| Outbound delivery, `infra/outbound/deliver.ts`, `delivery-queue-*.ts`, `infra/delivery-queue-sqlite.ts` | rows on disk; claims in memory; what the platform has shown | enqueue, claim, mark, send, ack, fail, give up; recovery at startup, drains on reconnect and periodically; reconciliation | crashes between any two steps, ambiguous errors of the platform, failed writes, several drains and a live send with the same row | one sender at a time, no replay of what is visible, bounded duplicates, nothing acked that is neither visible nor suppressed, every row that is drained leaves the queue |
| Heartbeat wake, `infra/heartbeat-wake.ts` | pending wakes, one timer, the flags `running` and `scheduled`, the registered handler | request, timer, handler result (ran, busy, threw), register, dispose | a batch of the old runner still under way after a restart; retry cooldown against new requests | no wake lost, stranded or starved; batches bounded |
| Follow-up queue, `auto-reply/reply/queue/*` | per session a queue object in a map: items, mode, drop policy, drop summaries; the drain that works on it | arrive, dedupe, enqueue, drop by policy, drain one by one or collected, defer, fail, clear (`/stop`) | the queue object is detached from the map, or refilled, while its drain awaits a turn; a turn that ends as a message is queued behind it | no message lost, answered twice, overtaken, or left without a drain; a cleared one stays cleared |
| Reply-run registry, `auto-reply/reply/reply-run-registry.ts`, `reply-turn-admission.ts` | one active operation per session, its phase, waiters | admit, complete, fail, abort, wait | visible turns and drains wait for the same slot; an abort frees it under its holder | one operation per session; every waiter goes on |
| Restart sentinel, `gateway/server-restart-sentinel.ts` | a file, a queue row | write, read, enqueue, send, ack | sends without a claim while startup recovery runs | the notice arrives once |
| Cron service, `cron/service/*` | jobs in memory and in SQLite (next run, running marker, enabled), the timer, the flag `running` | tick, start with recovery and catch-up, run by hand, add, update, remove, list | jobs run outside of the lock that guards the store; a crash between marker and result; a save that fails; memory and disk that differ | one run of a job at a time, every slot run once and none passed over, no marker for ever, due jobs run |
| Store writer queue, session write lock | promise chains, lock files | acquire, release, steal stale | crash of the holder, other processes | one writer |
| Site functions, `site/functions` | login codes, sessions, listings, images in a key/value store | request/verify a login, create/update/delete/list listings, upload | read-modify-write of an index by concurrent requests, no transactions | index and listings agree |
| Relay | none | `/chat`, `/send`, `/hooks/new-listing` | timeouts of the child process | - |
| Approvals, pairing, registries of tasks and subagents, ACP actor queue, gateway lock | tables | request, resolve, expire | expiry against resolution | each request resolved once |

How they interact: an inbound message becomes a run (through the follow-up
queue if the session is busy); a run is two entries of the command queue; the
answer is an outbound delivery; heartbeats and cron jobs are runs that were
woken by a timer; an in-process restart drains the command queue, resets its
lanes, stops the heartbeat runner, and on the way up recovers the delivery
queue and sends the restart notice.

## 2. Modules

    SessionTurns   <--(refinement)--  EmbeddedRun  --(INSTANCE)-->  CommandQueue
                                        ^                               ^
                               EmbeddedRun_proofs  --(INSTANCE)-->  CommandQueue_proofs
    OutboundDelivery <-- OutboundDelivery_proofs
    HeartbeatWake    <-- HeartbeatWake_proofs
    CronService      <-- CronService_proofs
    FollowupQueue    <-- FollowupQueue_proofs <-- FollowupMessages_proofs

**CommandQueue** is `process/command-queue.ts`. Every function of that file is
synchronous and is one action, `drainLane` (`DrainLanes`) included: it is part
of each action that calls it. `queue`, `active`, `maxConcurrent` and
`generation` are the fields of `LaneState`; `entry` holds what an entry's
closure holds: its promise (what the caller awaits) and its body (the task).
The two are separate because the timeout of `runQueueEntryTask` settles the
promise while the body executes on. `waiter` holds the calls of
`waitForActiveTasks`.

**SessionTurns** is what the lanes promise to a session, without lanes: a turn
is accepted, executes, is over or abandoned, and at most one turn of a session
executes at a time. A turn counts as abandoned when its timeout fired or its
session's lane was reset under it.

**EmbeddedRun** composes the queue with its main user. Each run has two entries
of an instantiated CommandQueue: the body of the one in the session lane
submits the other to a global lane and awaits it (`run.ts`). Around it are the
registry of active runs, `interrupt`, the recovery of a stuck session, which
takes a snapshot of the lane, awaits the aborted run and then may reset the
lane, and the in-process restart (`cli/gateway-cli/run-loop.ts`): refuse new
work, wait for the registered runs (`RunsDrain`, `RunsTimeOut`) and then for the
active tasks, close, reset all lanes. The two waits are not checked together at the
end: a run may register after the runs have drained and before the tasks have, which
is why `DrainedMeansQuiet` rests on the tasks alone. When the budget for runs ends
they are aborted and the restart is `overdue`: it still awaits the tasks. `restart`
remembers the `waiter` that this restart started, since an earlier restart may have
left one behind.
`ImplementsSessionTurns` is the refinement: `TurnOf` maps a run's two entries
to its turn.

**OutboundDelivery** is the delivery queue with its senders. `row` is the SQLite
table and survives `Crash`; `claim` is `entriesInProgress` in memory and does
not. A live send is enqueue, claim, mark the row as started, call the platform
payload by payload, mark the outcome as unknown, ack. A drain job takes a
snapshot, then per row: claim, re-read, reconcile if the row carries a mark,
send, ack or count a failure. `copies` is what the recipient sees. A platform
call is accepted and returned in separate steps, so that a crash or an error
can fall in between. A send may also pass over a payload (`PayloadSuppressed`):
`withheld`, when a hook cancels it or it renders to nothing and no call is made, or
`no_identity`, when its call returns without a message identity; `suppressed`
remembers which. An error ends the send (`SendFails`) or, with `bestEffort`, only
its payload (`PayloadFails`); but one before the first payload has its turn, as when
the channel's handler cannot be created, ends a best-effort send too. Startup
recovery takes every pending row, a drain those that its account `Selects`. Each
write of the queue may fail, `MaxFaults` times.

**HeartbeatWake** is the coalescing timer and its batches. `batch` holds the
callbacks under way, since after a restart more than one can be. A handler call
returns in `HandlerAnswers`, `HandlerBusy` or `HandlerThrows`, each of which
goes on with the loop or through `finally` in the same step, as the code does.
`owed` is a history variable for `NoWakeLost`.

**FollowupQueue** is the queue of one session with what decides when it moves:
the reply slot of the session, the visible turns that hold it, and `/stop`. A
queue is an object: `map` is the entry of `FOLLOWUP_QUEUES`, `queue` and `drain`
are indexed by the object, so that a drain may go on with an object that `/stop`
has taken out of the map while a new object, with a drain of its own, takes its
place. A pass of the drain's loop computes the turns it will await
(`NextTurns`: one item, the summary with the item it takes along, or the items
collected by sender); each is then admitted (`Admit`) and completes, throws or
is deferred. What was taken leaves the queue when its turn is back, as in the
code, and `Finish` is the `finally` block. `Arrive` and `EnqueueBehind` are two
steps because the busy check and the enqueue are some awaits apart.

**CronService** is the scheduler. `locked` serialises the sections that touch the
store, so a section is an action and the runs between them are not: `TickReserves`
marks the due jobs and saves, `RunStarts` and `RunEnds` are the workers, and
`TickApplies` reads the store again and writes the results; `StartRecovers`,
`StartPlans`, `StartApplies` and `StartArms` are `start()`; `RunByHand` and
`ManualRunEnds` are a manual run. `mem` is the store in memory and `disk` the
saved one; each save may fail, once, in which case memory keeps the change. Time
is abstract: a next run is in the future or due, and `SlotComes` makes it due; a
marker is fresh or, after `MarkerAges`, older than `STUCK_RUN_MS`.

**CommandQueue_proofs**, **EmbeddedRun_proofs**, **OutboundDelivery_proofs**,
**HeartbeatWake_proofs**, **CronService_proofs**, **FollowupQueue_proofs** and
**FollowupMessages_proofs** hold the theorems (section 5).
The `MC_` modules give TLC its constants.

## 3. Runs

| Run | Question | Bounds |
|---|---|---|
| `queue_lanes` | Do slots, promises and waiters stay consistent? `TypeOK`, `SlotsOwned`, `NothingLost`, `NoForgottenWaiter` | 2 lanes (one a probe lane), 2 entries, 1 waiter, limits 0 and 2, 1 reset per lane |
| `queue_live` | Does a lane start the right work, at once, within its limit, and does accepted work settle? `QueueOrdered`, `WorkConserving`, `StartsInOrder`, `StartsWithinLimit`, `AcceptedWorkSettles` | 1 lane, 3 entries of 3 priorities, limits 0 and 2, 1 reset, fairness |
| `run_turns` | Do the lanes implement the abstract turns? `TypeOK`, `ImplementsSessionTurns` | 1 session, 3 runs, one of them with a timeout; limit 3, recovery, 1 reset |
| `run_live` | Can nested slots deadlock, and is a drained gateway quiet? `TurnsSettle`, `DrainedMeansQuiet` | 1 session, 2 runs with timeouts, 1 restart, fairness |
| `run_overlap` | finding: `OneRunPerSession` | 2 runs, one with a timeout |
| `delivery_safety` | Who sends, what is replayed, what is acked? `TypeOK`, `ExclusiveSend`, `NoReplayOfLiveSend`, `AckedMeansHandled`, `BoundedDuplicates` | 1 message of 2 payloads, startup recovery and 2 drains, 1 crash, 1 failed write, ambiguous errors, 2 retries |
| `delivery_live` | Does every row that a recurring drain selects leave the queue? `QueueDrains` | 2 messages (one best effort), 1 drain, 1 crash, ambiguous errors, 1 retry, fairness |
| `wakes` | Is a wake lost, stranded or starved? `NothingStranded`, `NoWakeLost`, `BatchesBounded`, `RegistrationKept`, `CooldownHeld`, `WakesAreTaken`, `TypeOK` | 2 targets, 2 runners, 3 batches at a time, delays 0, 1 and 2 ticks, fairness |
| `followup` | Is a message lost, answered twice, overtaken or stranded? `TypeOK`, `NothingLost`, `AtMostOneCompletedTurn`, `NoOvertaking`, `NothingStranded`, `ClearedStaysCleared`, `QueuedMessagesAreTaken` | 4 messages, of 2 routes or none and 2 senders, arriving in order, one delivered twice; cap 2; both modes and the policies `summarize` and `new`, changing with every message; 2 queue objects and 1 `/stop`; 1 turn that throws or is deferred; fairness |
| `cron` | Is a job run twice at a time, a slot run twice or passed over, a marker left behind, a due job left waiting? `TypeOK`, `NoOverlap`, `MarkerHasOwner`, `SlotRunsOnce`, `SlotsAreNotSkipped`, `DueJobsRun` | a recurring job and a one-shot that is added later; a tick runs 1 job at a time, start catches up with 1; 2 events in all among updates, manual runs, 1 crash and 1 failed save of any section; additions, removals and reads at any time; fairness |
| `delivery_crash` | finding: `NoDuplicateAfterCrash` | 1 message, startup recovery, 1 crash |
| `delivery_partial` | finding: `PartialFailureNotAcked` | 1 best-effort message of 2 payloads, 1 drain |

Why these bounds are enough to meet the interesting cases. *Queue:* the hazards
are a slot held across one reset or one timeout, and one entry overtaking
another; two entries in a lane with limit 1, a limit that goes to 0 and to 2,
and three entries for an insertion in the middle show all of them; `Lanes`
interact only through `resetAllLanes` and the waiters, for which two lanes do.
The safety properties of the queue, of the runs on it, of the delivery, of the
wakes and, but for `SlotsAreNotSkipped`, of the cron service are also proved without
bounds, and so is `NothingStranded` of the follow-up queue. *Runs:* the third run of
`run_turns` is the one that waits in the lane while an abandoned body and its
successor execute. *Delivery:* rows do not interact except through the snapshot
of a job, so one message with every kind of competing process, and two messages
under one job, cover the code; two payloads are needed for a send that fails in
part, one crash and one fault for each step to be the last that was done. In the
runs every drain selects every message (`MCSelects`): a row that a drain does not
select is only left alone by it, and drains with overlapping rows, which the drain
keys of the bundled channels do not produce, leave it to the claims to keep them
apart.
`retryCount` is bounded by `MAX_RETRIES` plus the crashes and faults. *Wakes:*
one restart with a batch of the old runner under way, and batches of two.
*Follow-ups:* with cap 2 the third message meets a full queue while the first
two may be in a collected step of two turns, and the fourth comes from another
route, which ends collecting, while the second has no route and is collected with
either; one `/stop` detaches an object whose drain goes
on, and the second object takes the messages after it. The policy `old` drops
like `summarize` but counts nothing; the model has it and the run leaves it
out. *Cron:* the hazards are pairs: a run and what happens to its job, its store
or its process meanwhile. Two jobs are one that runs and one that waits for it;
slots come without bound. Two events are a crash with a failed save before it, a
manual run against an update, two manual runs of one job. `MaxEvents` bounds the
four kinds together, and `DeletedAfterRun` is empty because removal is an
operation of its own.

A `MaxGeneration`, `MaxCrashes`, `MaxFaults`, `MaxRunners`, `MaxBatches`,
`MaxClears`, `MaxFailures`, `MaxUpdates`, `MaxManualRuns` or `MaxEvents` guard is a bound of the model and not a rule of the code. `MaxBatches` is one more
than `BatchesBounded` allows in the run, so it never hides a violation. Deadlock
is not checked where the bounded number of submissions lets the system stop.

### Fairness

- `CommandQueue`: a task with a timeout ends, by its body or by its timer. A
  task without one may hang, and the property is only about lanes that have
  timeouts throughout and that are reopened again and again.
- `EmbeddedRun`: what `run.ts` does by itself happens: a session body forwards
  its run and ends with it, a run with a lane timeout ends or times out. Nothing
  is assumed of aborts, recoveries, limits or restarts.
- `OutboundDelivery`: a platform call returns or fails and the event loop runs
  on; a drain recurs. That is so for the rows of a WhatsApp account, every 30
  seconds while it is connected (`extensions/whatsapp/src/auto-reply/monitor.ts:564`),
  and for those only: Telegram drains after a reconnect
  (`extensions/telegram/src/polling-session.ts:415`), and what other channels leave
  behind waits for the next start of the gateway. `QueueDrains` is therefore about
  the rows that some drain `Selects`. *Strong* fairness of
  `Take` says that a row is not at every single drain found to be in its
  backoff, which is a bounded time in the code. Startup jobs need not run again
  and crashes need not happen.
- `HeartbeatWake`: time passes, a due timer fires, and a handler call returns
  (a heartbeat run has a timeout), but not if its runner was stopped: the code's
  comment names batches that were interrupted by a restart as the reason for
  resetting the flags.

- `FollowupQueue`: a visible turn gets the slot when it is free and ends, a drain
  goes on, gets the slot when it is free, and its turn comes back: runs have
  timeouts, and the registry wakes its waiters. Nothing is assumed of arrivals,
  failures, deferrals and `/stop`.
- `CronService`: the armed timer fires and the service goes on with its sections
  (`ServiceActs`), a run of a batch or by hand ends (jobs have timeouts), and two
  hours pass for a marker that no run explains. Slots need not come, operations
  and crashes need not happen.

## 4. Findings

1. **Two runs of one session** (`run_overlap`). `docs/concepts/queue.md:121`
   guarantees that one agent run touches a session at a time. After the lane
   timeout of a run fired its body goes on while the session lane starts the
   next one. `ImplementsSessionTurns` is what does hold.
2. **Blind replay after a crash in recovery** (`delivery_crash`).
   `infra/outbound/delivery-queue-recovery.ts:381` says that a crash after the
   platform send started is never replayed blindly. Recovery's own sends leave
   no mark on the row. `BoundedDuplicates` is what does hold.
3. **A partial failure is acked** (`delivery_partial`).
   `infra/outbound/deliver.ts:1317` tracks failed payloads so as not to ack. In
   a recovered best-effort send the tracking has no effect.

Smaller observations, met while modelling. No run is about them; where a
property would fail because of one, its comment names the exception.

- *Runs.* `process/command-queue.ts:526` says a lane is only reset after an attempt
  to abort the active work. Recovery aborts the *registered* run; after a lane
  timeout this may be the old one, while the next one, not registered yet, holds
  the slot that is taken away. A session entry that is pumped during the drain of a
  restart forwards its run and is refused (`command-queue.ts:566` speaks of queued
  work that is preserved).
- *Delivery.* A platform call that returns without a message identity is no error:
  its payload is recorded as `suppressed` (`deliver.ts:1730`, `:1784`, `:1842`,
  `:1919`), a reason that `deliver-types.ts:22` describes as "intentionally not
  sent", and the row is acked by the live send (`deliver.ts:1371`) or by recovery
  (`delivery-queue-recovery.ts:453`) with nothing of it visible, though
  `deliver.ts:1257` speaks of removing it "after success". `docs/cli/agent.md:90`
  documents `suppressed` as an outcome without a retry;
  `gateway/server-restart-sentinel.ts:147` takes the same result for a failure and
  tries again. `AckedMeansHandled` holds with this exception.
- *Heartbeat.* A failed batch runs again the wakes that already ran and puts them
  before newer requests; wakes of a batch whose runner is stopped are answered
  `disabled` and not seen by the next runner; a retry that meets a timer already
  set by a request does not get its cooldown.
- *Follow-ups.* A message queued behind the turn of an object that `/stop` detached
  has nobody to schedule its drain (`agent-runner.ts:1296`; `stale` in the model).
  Turns of a step that was formed before a `/stop` still run after it. In mode
  `followup` a summary takes along the head of the queue, whose own prompt is in no
  turn (`drain.ts:521`). Drops that arrive while a summary is sent are wiped with it
  (`drain.ts:542`). A deferred summary may be restored next to newer lines, beyond
  their limit (`drain.ts:294`). If the policy or the mode changes while drops are
  counted and no item waits, the loop ends at once and its `finally` block starts it
  again (`drain.ts:547`, `:571`). `dropAbortedFollowups` removes by an index it took
  before an await (`drain.ts:342`).
- *Cron, slots.* `add` makes the full pass over all jobs (`ops.ts:427`), which moves
  the due slots of the others on without a run, what the comment at
  `timer.ts:953` says must not happen. A refused manual run computes missing next
  runs in memory only (`ops.ts:716`); if they come due before the next save, the
  tick reads the store without them. `start` puts off the jobs of its plan even if
  they were run or rescheduled meanwhile (`timer.ts:1340`).
- *Cron, runs.* A job that is disabled, or changed, while it waits in a batch is run
  all the same (`timer.ts:876`). Disabling a job clears its marker (`ops.ts:495`,
  `jobs.ts:558`): enabled again, or run by hand twice, it has two runs. A one-shot
  that is moved while it runs is disabled when the run ends (`timer.ts:541`). One
  that was marked but not yet started when the gateway crashed counts as
  interrupted and is disabled. While one job runs, no other due job starts
  (`state.running`). Jobs without a timeout may outlive `STUCK_RUN_MS`.
- *Cron, failures.* After a failed save in `add`, `update` or `remove` the change
  stays in memory, is written by a later save, and the timer is not set
  (`ops.ts:429`). After one in the second section of a tick the marker stays on disk
  for two hours. `stop()` clears the timer only (`ops.ts:247`); a tick under way sets
  it again (`timer.ts:1000`), and after a config reload the new service takes the
  markers of the old one's runs for interrupted ones.

## 5. Proofs

`CommandQueue_proofs` proves for all lanes, entries, waiters, priorities and
limits, from the named assumptions of CommandQueue (there is a lane, probe
lanes are lanes, priorities are integers, limits are natural numbers, the set of
entries is finite):

| Theorem | Statement |
|---|---|
| `TypeCorrect` | `Spec => []TypeOK` |
| `WorkIsConserved` | `Spec => []WorkConserving` |
| `SlotsAreOwned` | `Spec => []SlotsOwned` |
| `NothingIsLost` | `Spec => []NothingLost` |
| `QueuesAreOrdered` | `Spec => []QueueOrdered` |
| `NoWaiterIsForgotten` | `Spec => []NoForgottenWaiter` |
| `LimitsAreKept` | `Spec => StartsWithinLimit` |
| `StartsAreInOrder` | `Spec => StartsInOrder` |

None of the invariants is inductive alone. That a lane is busy after a pump
needs to know how many entries of the queue take a slot, hence that the queue
holds no entry twice and none that already holds a slot; that slots are owned
needs to know that an entry in the queue has not run; that the queue stays
sorted needs sequence numbers to be issued in order. `IInv` is their
conjunction with what they need besides: `Past` (a task never belongs to a
generation its lane has not reached, so a reset makes every earlier task
foreign), `SequencesIssued` (the next number is larger than any in use) and
`UnsubmittedIdle` (nothing runs before it is submitted).

The argument has three layers. Lemmas about sequences and one lane: what
`SubSeq` leaves, how many entries start and that they are the first ones
(`StartCountBounds`, `StartedRemaining`, `StartedDistinct`), and that
`Enqueued` puts an entry where the queue stays sorted (`EnqueuedProperties`).
Then one lemma, `DrainConsistent`, for every pump: from a state in which all is
well but that some lanes `ls` may idle (`Consistent`), draining `ls` leads to
one in which all is well (`Drained`), no started entry exceeds a limit and none
overtakes. Each action then has a lemma which shows that the state it hands to
`DrainLanes` is `Consistent`, so what is proved of a step is `Preserved`: the
invariant afterwards, and the two step properties. The temporal theorems follow
with `PTL`.

`EmbeddedRun_proofs` proves for any runs, sessions, lanes, priorities, limits and
restarts, from `RunsAssumption`, `SessionsAssumption` and `LimitsAssumption` of
EmbeddedRun (there are finitely many runs, session lanes and global lanes are
distinct, recovery visits sessions):

| Theorem | Statement |
|---|---|
| `TypeCorrect` | `Spec => []TypeOK` |
| `UsesTheQueue` | `Spec => CQ!Spec` |
| `TurnsAreKept` | `Spec => ImplementsSessionTurns`, which is `Turns!Spec` |
| `DrainsAreQuiet` | `Spec => []DrainedMeansQuiet` |

It instantiates CommandQueue_proofs on the same queue (`CQP`; `SameActions` and
`SameState` say that its actions are those of `CQ`) and takes over the queue's
invariant and, from the section "What an operation does to the entries one by
one", what an operation does to an entry it is not about: it starts, or it is left
alone (`Moved`). The invariant adds three parts. `Linked` ties the two entries of a
run: the global one is submitted by the body of the session one, and while it is
pending the session one executes in its lane. `OneSlot`: a session lane never has
more than one slot, since limits change in global lanes only. `Quiet`: during a
restart the waiter watches every live run, one whose session entry holds its slot.
Whatever the action, a run sees one of seven steps (`RunStep`), each of which keeps
`Linked` and takes its turn along a move of SessionTurns (`TurnMoves`). That an
abandoned turn never executes again is `StaysLive`: the generation of a lane only
grows, so a session entry that lost its slot is never current again. Two executing
turns of a session would be two entries in one slot (`ExclusiveTurns`). A waiter is
woken only when the tasks it watched hold no slot; a live run has held one all the
time, and while new work is refused no run becomes live (`NoneBecomesLive`,
`QuietStays`). If the restart counted the waiter of an earlier restart the last
argument would fail, which is why `DrainEnds` asks for this restart's own waiter.

`HeartbeatWake_proofs` proves for all targets, delays, and numbers of runners
and batches, from `NumbersAssumption` (delays and the two bounds are natural
numbers):

| Theorem | Statement |
|---|---|
| `TypeCorrect` | `Spec => []TypeOK` |
| `NoPendingWakeIsStranded` | `Spec => []NothingStranded` |
| `RequestsAreKept` | `Spec => []NoWakeLost` |
| `BatchesAreBounded` | `Spec => []BatchesBounded` |
| `LastRegistrationIsKept` | `Spec => []RegistrationKept` |
| `RetryTimersRunOut` | `Spec => CooldownHeld` |

`NothingStranded` and `RegistrationKept` are inductive given the types. The other
two are strengthened: `BatchesBounded` by `RunningCounted` (a batch may start
only while `running` is clear, and then there is one batch less than there were
runners), and `NoWakeLost` by `HeldInBatch` (what a batch still has to answer is
among the wakes it was taken with, which is what a throw queues again). A batch
ends or goes on in three handler results, so what that does is stated once
(`BatchEnds`, `BatchGoesOn`, `NextCallFacts`) and each result's lemma adds what
becomes of the wake.

`OutboundDelivery_proofs` proves for all messages and jobs, any number of
payloads, retries, crashes and faults, and either kind of adapter, from the named
assumptions of OutboundDelivery (there is a message, messages and jobs are
distinct, the bounds are natural numbers and a message has a payload):

| Theorem | Statement |
|---|---|
| `TypeCorrect` | `Spec => []TypeOK` |
| `SendsAreExclusive` | `Spec => []ExclusiveSend` |
| `AckedIsHandled` | `Spec => []AckedMeansHandled` |
| `DuplicatesAreBounded` | `Spec => []BoundedDuplicates` |
| `LiveSendsAreNotReplayed` | `Spec => []NoReplayOfLiveSend` |

The root of the invariant is `Claimed`: who works on a message has the claim of
it. From it, only one process at a time writes a row (`RowsOfJobs`: a job's row
stays pending and has retries left until the job itself is done with it).
`PassedIsHandled` gives the acks: a
send that is past a payload has made it visible or has passed it over. The bound on duplicates needs an account,
`CopiesPaid`: every copy of a pending message was paid for by a counted retry, a
crash or a fault, and the copy of the job that has it in hand will be when the job
is done. No replay needs the order of things: nobody else sends a message before
its live send is over (`LiveFirst`, which rests on `NoIO`, the one assumption
about the event loop), the row carries its mark before the first live call
(`LiveMarked`), and so a job that sends has a message of which nothing was sent
live (`JobsSendUnsent`). A step is shown to have one of six shapes (a process
leaves its message, goes on with it, begins on one, stays idle; a call is accepted;
a crash), and each shape to keep the invariant.

`CronService_proofs` proves for all sets of jobs, any limits of a tick and of the
catch-up, and any number of updates, manual runs and crashes, from
`JobsAssumption` and `LimitsAssumption` of CronService:

| Theorem | Statement |
|---|---|
| `TypeCorrect` | `Spec => []TypeOK` |
| `RunsDoNotOverlap` | `Spec => []NoOverlap` |
| `MarkersHaveOwners` | `Spec => []MarkerHasOwner` |
| `SlotsRunOnce` | `Spec => SlotRunsOnce` |
| `DueSlotsAreKept` | `Spec => SlotsAreNotSkipped` |

The invariant relates who holds a job (a place in a batch, or a run by hand) to the
marker that the two stores show. `HeldIsTaken`: a job is held by one only, and
while it is held nobody else will start it, because in memory and on disk it is
enabled and freshly marked, or gone. `MarkersOwned`: until a save fails, a job that
nobody holds is not marked, and memory and disk list the same jobs, which is what
a manual run needs when it ends with a job that memory no longer has. An action
goes on with a job, begins with it or ends with it (`Goes`, `Begins`, `Ends`), and
each keeps the invariant. `SlotRunsOnce` takes a second invariant on top, `Slots`:
a job whose slot was run is marked or not due in both stores (`Handled`), and no
pass over a store makes a one-shot's past time due again (`HasSlot`); hence what a
batch takes, due and unmarked, was not run before.
`SlotsAreNotSkipped` needs a third one, because operations, manual runs and `start()`
save what memory holds and not what they read: `MemoryFollows`, until a save fails
memory lists the jobs that are on disk, as enabled as there and with the same next
runs, but for those that maintenance has computed in memory and not saved (a job
without one on disk). Every step either saves memory, or keeps this relation between
the two (`FollowStep`), and what it saves has the due slots of the disk unless the
step ends a run of the job or is one of the named operations (`SlotGoesOn`).
`MemoryFollows` was checked by TLC on the instance of run `cron`, with one event more,
before it was proved.

`FollowupQueue_proofs` proves for any messages, routes, senders, settings, numbers
of clears and failures, from `QueuesAssumption` and `BoundsAssumption` of
FollowupQueue (there are more identities of queue objects than uses of `/stop`):

| Theorem | Statement |
|---|---|
| `QueuedWorkIsNotStranded` | `Spec => []NothingStranded` |

Messages wait without a drain only when they were queued while someone held the
slot, so the invariant says that whoever holds it has a turn (`SlotHeld`): a visible
turn, whose end schedules the drain, or that of a drain. A drain that ends leaves
the map's entry without work or with a drain, or does not touch it because it is
not its own (`FinishFacts`). `DetachedByStop` bounds the objects that have a
drain though the map does not point to them, which shows that a new queue never
takes over an object whose drain goes on. What the items are does not matter, only
whether there are any.

`FollowupMessages_proofs` is about what the items are. It proves, from
`SettingsAssumption` (a cap of at least one, and some mode and drop policy) and the
two assumptions above:

| Theorem | Statement |
|---|---|
| `MessagesTyped` | `Spec => []TypeOK` |
| `AcceptedAreAccountedFor` | `Spec => []NothingLost` |
| `TurnsCompleteOnce` | `Spec => []AtMostOneCompletedTurn` |
| `OrderOfArrivalIsKept` | `Spec => []NoOvertaking` |
| `ClearedAreLeftAlone` | `Spec => ClearedStaysCleared` |

None of the four properties is inductive, because the items of a turn stay in the
queue while it runs: whether a message is lost, or has a second turn, is decided
when the turn is back and its items are taken out by reference, perhaps from an
object that `/stop` has emptied meanwhile. The invariant `MInv` therefore follows
the messages through the turns as well. Of the items: only the map's object has
any, in the order of arrival, and none is completed or cleared (`ItemsInMap`,
`ItemsSorted`, `ItemsWait`). Of the turns a drain has formed: they fit what they
take (`CallsFit`), no message is in the prompts of two of them, in one object or
across a detached one and its successor, and none of their prompts is completed
(`OneTurnEach`, `OwnItems`, `PromptsWait`). Of the order: whatever was accepted
before a message in a formed turn has started or is in that turn or an earlier one
(`InTurn`), which makes the same true of started messages (`StartedInTurn`).
`MInv` was checked by TLC on the instance of run `followup` before it was proved.

The proof first states what the operations on sequences return: `WithoutKeeps` (what
`removeQueuedItemsByRef` leaves, in its order), `AuthGroupsDivide` (the groups of
`splitCollectItemsByAuthorization` are the items, each in one group and in order),
`MakeRoomFacts`, `RestoredFacts` and `NextTurnsFormed` (the prompts of a
pass are a prefix of the items, in their order). The first two are about recursive functions
and need induction; it is done without the library's second-order theorems, on the
set of numbers for which the claim holds (`UpTo`) and on the existence of the
function (`Recursion`), both from the fact that `<` is well founded on the natural
numbers. A step then has one of six shapes, and each is shown to keep the
invariant once: it moves no message (`StillStep`), lets a drain begin or end and may
clear an object (`QuietStep`), accepts a message (`AcceptStep`), forms turns
(`FormStep`), starts one (`SlotStep`) or takes one back (`BackStep`).

Only model-checked: liveness (`AcceptedWorkSettles`, `TurnsSettle`, `QueueDrains`,
`WakesAreTaken`, `QueuedMessagesAreTaken`, `DueJobsRun`), which is outside the
prover's reach, and is all that is left to TLC alone.

## 6. Not modelled

The repository has more than two million lines; the map covers the few
thousand in which concurrent steps, crashes and timers meet. What is left out of
the modelled parts:

- *Command queue:* logging, `onWait` callbacks (re-entrant enqueues from one are
  possible in principle; every caller only logs), the migration of the global
  singleton between code versions.
- *Embedded runs:* the agent loop, compaction and fallback inside a run, the
  reply-run registry (the modelled sessions have no reply operation), the
  compaction wait of recovery.
- *Delivery:* backoff times, what hooks rewrite in payloads, commit
  hooks, the branch in which the first write fails and a best-effort send goes
  on without a row, the direct send of the restart sentinel.
- *Heartbeat wake:* which of two wakes for one target survives, the runner's own
  schedule and deferral rules, the global switch that disables heartbeats.
- *Follow-up queue:* mode `steer`, which hands a message to the running turn and
  not to the queue; the debounce times; abort signals of single messages;
  `refreshQueuedFollowupSession`; the expiry of the dedupe cache. Of the registry,
  everything but the slot: backends, phases, heartbeat turns, restarts.
- *Cron:* schedules as dates, hence the repairs of next runs; failure alerts,
  delivery and run logs; jobs without a timeout; several services on one store;
  start's replay of a slot by the history of a job's runs.
- *Everything else in the inventory* is listed in `PROJECT.json` with its
  reason. Channels, providers, plugins, apps and pages are adapters and
  presentation; the registries of tasks and subagents are bookkeeping around
  records; the gateway lock is about the operating system's processes.

## 7. Plan

Done: CommandQueue, SessionTurns with EmbeddedRun, OutboundDelivery, HeartbeatWake,
CronService and FollowupQueue, each with its proofs. What would come next:

1. **OutboundDelivery** extended by the restart sentinel's direct send, which
   takes no claim, and an abstract specification of delivery (a message is new,
   queued, visible or given up) that OutboundDelivery implements.
2. **SiteStore**: the handlers of `site/functions/api/listings.js` over a
   key/value store without transactions.
3. The **store writer queue** and the session write lock; a second cron service
   beside the first.
4. Proofs: that OutboundDelivery implements the specification of item 1.
