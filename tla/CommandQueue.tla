---------------------------- MODULE CommandQueue ----------------------------
(***************************************************************************)
(* The in-process command queue of the gateway (src/process/               *)
(* command-queue.ts).  Work is submitted to a lane; a lane holds a         *)
(* priority queue of waiting entries and the set of tasks that occupy one  *)
(* of its maxConcurrent slots.  Every function of the file is synchronous, *)
(* so it is one action; what interleaves are the callers, the settling of  *)
(* task bodies, the timers, and the resets.                                *)
(*                                                                         *)
(* Abstractions:                                                           *)
(*  - A task id (nextTaskId++) names the one start of one entry, so a task *)
(*    is identified with its entry.                                        *)
(*  - The flag `draining' of a lane is set and cleared inside drainLane,   *)
(*    so it is FALSE between any two actions and is left out.              *)
(*  - Whether a body resolves or rejects makes no difference to the lanes:  *)
(*    both settle the promise.                                             *)
(*  - A lane that getLaneState has not created yet is a lane with the      *)
(*    initial values.                                                      *)
(***************************************************************************)
EXTENDS Integers, FiniteSets, Sequences, FiniteSetsExt, SequencesExt

CONSTANTS
    Lanes,          \* lane names
    ProbeLanes,     \* "auth-probe:" and "session:probe-" lanes
    Entries,        \* the submissions; each is made at most once
    Waiters,        \* the calls of waitForActiveTasks
    Priorities,     \* background -1, normal 0, foreground 1
    Limits,         \* arguments of setCommandLaneConcurrency
    MaxGeneration   \* bound on the resets of a lane

ASSUME LanesAssumption == Lanes # {} /\ ProbeLanes \subseteq Lanes
ASSUME NumbersAssumption ==
    /\ Priorities \subseteq Int
    /\ Limits \subseteq Nat
    /\ MaxGeneration \in Nat
ASSUME EntriesAssumption == IsFiniteSet(Entries)

VARIABLES
    gatewayDraining,    \* new work is refused
    queue,              \* [Lanes -> Seq(Entries)]
    active,             \* [Lanes -> SUBSET Entries]: activeTaskIds
    maxConcurrent,      \* [Lanes -> Nat]
    generation,         \* [Lanes -> Nat]
    nextQueueSequence,
    entry,              \* [Entries -> Entry]
    waiter              \* [Waiters -> Waiter]: activeTaskWaiters

laneVars == <<queue, active, maxConcurrent, generation>>
vars == <<gatewayDraining, laneVars, nextQueueSequence, entry, waiter>>

-----------------------------------------------------------------------------
(* An entry's promise is what its caller awaits; its body is the task. The  *)
(* two part company when the timeout settles the promise first.             *)

Outcomes == {"settled", "timedOut", "cleared", "refused"}

Entry == [lane     : Lanes,
          priority : Priorities \cup {0},
          sequence : Nat,
          timed    : BOOLEAN,       \* the caller gave a taskTimeoutMs
          promise  : {"unsubmitted", "pending"} \cup Outcomes,
          body     : {"none", "executing", "finished"},
          generation : Nat]         \* taskGeneration, captured at the start

Waiter == [state : {"idle", "waiting", "drained", "gaveUp"},
           tasks : SUBSET Entries,
           timed : BOOLEAN]

Unsubmitted == [lane |-> CHOOSE l \in Lanes : TRUE, priority |-> 0, sequence |-> 0,
                timed |-> FALSE, promise |-> "unsubmitted", body |-> "none",
                generation |-> 0]

Settled(x) == entry[x].promise \in Outcomes
HasRun(x)  == entry[x].body # "none"
Running(x) == entry[x].promise = "pending" /\ HasRun(x)
Current(x) == entry[x].generation = generation[entry[x].lane]

TypeOK ==
    /\ gatewayDraining \in BOOLEAN
    /\ queue \in [Lanes -> Seq(Entries)]
    /\ active \in [Lanes -> SUBSET Entries]
    /\ maxConcurrent \in [Lanes -> Nat]
    /\ generation \in [Lanes -> Nat]
    /\ nextQueueSequence \in Nat
    /\ entry \in [Entries -> Entry]
    /\ waiter \in [Waiters -> Waiter]

Init ==
    /\ gatewayDraining = FALSE
    /\ queue = [l \in Lanes |-> <<>>]
    /\ active = [l \in Lanes |-> {}]
    /\ maxConcurrent = [l \in Lanes |-> 1]
    /\ generation = [l \in Lanes |-> 0]
    /\ nextQueueSequence = 1
    /\ entry = [x \in Entries |-> Unsubmitted]
    /\ waiter = [w \in Waiters |->
                    [state |-> "idle", tasks |-> {}, timed |-> FALSE]]

-----------------------------------------------------------------------------
(* Pumping a lane: the heads of its queue take the free slots.              *)

Min2(m, n) == IF m <= n THEN m ELSE n

\* Wrong on purpose (W_...): the limit is compared one too late.
W_StartCountOffByOne(q, a, m) ==
    IF Cardinality(a) > m THEN 0 ELSE Min2(Len(q), m + 1 - Cardinality(a))

StartCount(q, a, m) ==
    IF Cardinality(a) >= m THEN 0 ELSE Min2(Len(q), m - Cardinality(a))

Started(q, a, m) == {q[i] : i \in 1 .. StartCount(q, a, m)}

Remaining(q, a, m) == SubSeq(q, StartCount(q, a, m) + 1, Len(q))

\* drainLane on each lane of ls, from queues q and slots a, under the limits m:
\* what then waits, what then holds a slot, and what has started. A started
\* entry remembers its lane's generation g.
QueuesAfter(ls, q, a, m) ==
    [l \in Lanes |-> IF l \in ls THEN Remaining(q[l], a[l], m[l]) ELSE q[l]]

Starting(ls, q, a, m, l) == IF l \in ls THEN Started(q[l], a[l], m[l]) ELSE {}

SlotsAfter(ls, q, a, m) == [l \in Lanes |-> a[l] \cup Starting(ls, q, a, m, l)]

EntriesAfter(ls, q, a, m, g, e) ==
    [x \in Entries |-> IF \E l \in Lanes : x \in Starting(ls, q, a, m, l)
                       THEN [e[x] EXCEPT !.body = "executing", !.generation = g[e[x].lane]]
                       ELSE e[x]]

\* The caller has already given maxConcurrent and generation their next values.
DrainLanes(ls, q, a, e) ==
    /\ queue' = QueuesAfter(ls, q, a, maxConcurrent')
    /\ active' = SlotsAfter(ls, q, a, maxConcurrent')
    /\ entry' = EntriesAfter(ls, q, a, maxConcurrent', generation', e)

\* notifyActiveTaskWaiters, when the slots of all lanes are a.
HasPendingTask(w, a) == \E l \in Lanes : waiter[w].tasks \cap a[l] # {}

NotifyWaiters(a) ==
    waiter' = [w \in Waiters |->
        IF waiter[w].state = "waiting" /\ ~HasPendingTask(w, a)
        THEN [waiter[w] EXCEPT !.state = "drained"]
        ELSE waiter[w]]

-----------------------------------------------------------------------------
(* Submission.                                                              *)

\* e1 waits behind e2: lower priority, or the same and submitted later.
Behind(e1, e2) ==
    \/ e1.priority < e2.priority
    \/ e1.priority = e2.priority /\ e1.sequence > e2.sequence

\* Wrong on purpose: priorities are ignored; equals go last in, first out.
W_EnqueuedLast(q, x, e) == Append(q, x)

W_EnqueuedBeforeEquals(q, x, e) ==
    LET later == {i \in 1 .. Len(q) : e[q[i]].priority <= e[x].priority}
    IN  IF later = {} THEN Append(q, x) ELSE InsertAt(q, Min(later), x)

\* enqueueLaneEntry: before the first queued entry that belongs behind x.
Enqueued(q, x, e) ==
    LET later == {i \in 1 .. Len(q) : Behind(e[q[i]], e[x])}
    IN  IF later = {} THEN Append(q, x) ELSE InsertAt(q, Min(later), x)

Enqueue(x, l, p, timed) ==
    /\ entry[x].promise = "unsubmitted"
    /\ ~gatewayDraining
    /\ UNCHANGED <<gatewayDraining, maxConcurrent, generation, waiter>>
    /\ nextQueueSequence' = nextQueueSequence + 1
    /\ LET e == [entry EXCEPT ![x] = [@ EXCEPT !.lane = l, !.priority = p,
                    !.sequence = nextQueueSequence, !.timed = timed,
                    !.promise = "pending"]]
       IN  DrainLanes({l}, [queue EXCEPT ![l] = Enqueued(@, x, e)], active, e)

\* GatewayDrainingError.
EnqueueRefused(x) ==
    /\ entry[x].promise = "unsubmitted"
    /\ gatewayDraining
    /\ entry' = [entry EXCEPT ![x].promise = "refused"]
    /\ UNCHANGED <<gatewayDraining, laneVars, nextQueueSequence, waiter>>

-----------------------------------------------------------------------------
(* The end of a run.  Only a run of the lane's current generation gives its *)
(* slot back and pumps the lane.                                            *)

EndRun(x, outcome, body) ==
    LET l == entry[x].lane
        e == [entry EXCEPT ![x].promise = outcome, ![x].body = body]
        a == [active EXCEPT ![l] = @ \ {x}]
    IN  /\ UNCHANGED <<gatewayDraining, maxConcurrent, generation, nextQueueSequence>>
        /\ \/ /\ Current(x)
              /\ NotifyWaiters(a)
              /\ DrainLanes({l}, queue, a, e)
           \/ /\ ~Current(x)
              /\ entry' = e
              /\ UNCHANGED <<queue, active, waiter>>

\* The body resolves or rejects while its promise is pending.
TaskSettles(x) ==
    /\ Running(x)
    /\ EndRun(x, "settled", "finished")

\* Wrong on purpose: a timeout settles the promise and keeps the slot.
W_TaskTimesOutKeepsSlot(x) ==
    /\ Running(x)
    /\ entry[x].timed
    /\ entry' = [entry EXCEPT ![x].promise = "timedOut"]
    /\ UNCHANGED <<gatewayDraining, laneVars, nextQueueSequence, waiter>>

\* The timer wins the race; the body keeps executing without its slot. (The
\* progress callback may postpone this for as long as it reports progress.)
TaskTimesOut(x) ==
    /\ Running(x)
    /\ entry[x].timed
    /\ EndRun(x, "timedOut", "executing")

\* The body of a timed-out task settles at last; only a warning is logged.
LateSettle(x) ==
    /\ entry[x].promise = "timedOut"
    /\ entry[x].body = "executing"
    /\ entry' = [entry EXCEPT ![x].body = "finished"]
    /\ UNCHANGED <<gatewayDraining, laneVars, nextQueueSequence, waiter>>

-----------------------------------------------------------------------------
(* Administration of the lanes.                                             *)

\* Wrong on purpose: one slot too few, for any lane.
W_EffectiveLimitOffByOne(l, n) == n - 1

EffectiveLimit(l, n) == IF l \in ProbeLanes /\ n < 1 THEN 1 ELSE n

\* Wrong on purpose: a resumed lane is not pumped.
W_SetConcurrencyNoPump(l, n) ==
    /\ maxConcurrent' = [maxConcurrent EXCEPT ![l] = EffectiveLimit(l, n)]
    /\ UNCHANGED <<gatewayDraining, queue, active, generation, nextQueueSequence,
                   entry, waiter>>

SetConcurrency(l, n) ==
    /\ maxConcurrent' = [maxConcurrent EXCEPT ![l] = EffectiveLimit(l, n)]
    /\ UNCHANGED <<gatewayDraining, generation, nextQueueSequence, waiter>>
    /\ DrainLanes({k \in {l} : maxConcurrent'[k] > 0}, queue, active, entry)

ClearLane(l) ==
    /\ queue[l] # <<>>
    /\ entry' = [x \in Entries |-> IF x \in ToSet(queue[l])
                                   THEN [entry[x] EXCEPT !.promise = "cleared"]
                                   ELSE entry[x]]
    /\ queue' = [queue EXCEPT ![l] = <<>>]
    /\ UNCHANGED <<gatewayDraining, active, maxConcurrent, generation,
                   nextQueueSequence, waiter>>

\* Wrong on purpose: a reset that keeps the generation, that forgets the queue,
\* that wakes no waiter.
W_ResetKeepsGeneration(ls) ==
    /\ UNCHANGED <<maxConcurrent, generation, nextQueueSequence>>
    /\ DrainLanes(ls, queue, [l \in Lanes |-> IF l \in ls THEN {} ELSE active[l]], entry)
    /\ NotifyWaiters(active')

W_ResetForgetsQueue(ls) ==
    /\ \A l \in ls : generation[l] < MaxGeneration
    /\ generation' = [l \in Lanes |-> generation[l] + (IF l \in ls THEN 1 ELSE 0)]
    /\ queue' = [l \in Lanes |-> IF l \in ls THEN <<>> ELSE queue[l]]
    /\ active' = [l \in Lanes |-> IF l \in ls THEN {} ELSE active[l]]
    /\ UNCHANGED <<maxConcurrent, nextQueueSequence, entry>>
    /\ NotifyWaiters(active')

W_ResetWakesNobody(ls) ==
    /\ \A l \in ls : generation[l] < MaxGeneration
    /\ generation' = [l \in Lanes |-> generation[l] + (IF l \in ls THEN 1 ELSE 0)]
    /\ UNCHANGED <<maxConcurrent, nextQueueSequence, waiter>>
    /\ DrainLanes(ls, queue, [l \in Lanes |-> IF l \in ls THEN {} ELSE active[l]], entry)

\* Free every slot of the lanes ls, and start what waits there. The tasks that
\* held the slots go on executing in a generation that is past.
Reset(ls) ==
    /\ \A l \in ls : generation[l] < MaxGeneration
    /\ generation' = [l \in Lanes |-> generation[l] + (IF l \in ls THEN 1 ELSE 0)]
    /\ UNCHANGED <<maxConcurrent, nextQueueSequence>>
    /\ DrainLanes(ls, queue, [l \in Lanes |-> IF l \in ls THEN {} ELSE active[l]], entry)
    /\ NotifyWaiters(active')

ResetLane(l) == Reset({l}) /\ UNCHANGED gatewayDraining

ResetAllLanes == Reset(Lanes) /\ gatewayDraining' = FALSE

MarkGatewayDraining ==
    /\ gatewayDraining' = TRUE
    /\ UNCHANGED <<laneVars, nextQueueSequence, entry, waiter>>

-----------------------------------------------------------------------------
(* waitForActiveTasks: wait for the tasks that hold slots at the call.      *)

WaitForActiveTasks(w, timeout) ==
    LET tasks == UNION {active[l] : l \in Lanes}
        state == CASE tasks = {}       -> "drained"
                   [] tasks # {} /\ timeout = "zero" -> "gaveUp"
                   [] OTHER            -> "waiting"
    IN  /\ waiter[w].state = "idle"
        /\ waiter' = [waiter EXCEPT ![w] =
                        [state |-> state, tasks |-> tasks, timed |-> timeout = "some"]]
        /\ UNCHANGED <<gatewayDraining, laneVars, nextQueueSequence, entry>>

WaiterGivesUp(w) ==
    /\ waiter[w].state = "waiting"
    /\ waiter[w].timed
    /\ waiter' = [waiter EXCEPT ![w].state = "gaveUp"]
    /\ UNCHANGED <<gatewayDraining, laneVars, nextQueueSequence, entry>>

-----------------------------------------------------------------------------
Next ==
    \/ \E x \in Entries :
          \/ \E l \in Lanes, p \in Priorities, timed \in BOOLEAN : Enqueue(x, l, p, timed)
          \/ EnqueueRefused(x)
          \/ TaskSettles(x)
          \/ TaskTimesOut(x)
          \/ LateSettle(x)
    \/ \E l \in Lanes :
          \/ \E n \in Limits : SetConcurrency(l, n)
          \/ ClearLane(l)
          \/ ResetLane(l)
    \/ ResetAllLanes
    \/ MarkGatewayDraining
    \/ \E w \in Waiters :
          \/ \E timeout \in {"none", "zero", "some"} : WaitForActiveTasks(w, timeout)
          \/ WaiterGivesUp(w)

Spec == Init /\ [][Next]_vars

\* A task with a taskTimeoutMs ends, one way or the other: its body settles, or
\* stops reporting progress and the timer fires. A task without one may hang.
TimedRunEnds(x) ==
    /\ entry[x].timed
    /\ TaskSettles(x) \/ TaskTimesOut(x)

FairSpec == Spec /\ \A x \in Entries : WF_vars(TimedRunEnds(x))

-----------------------------------------------------------------------------
(* Properties.                                                              *)

\* No lane idles while it has work: an entry waits only when every slot of its
\* lane is taken. Each path that frees or adds a slot, or adds an entry, must
\* pump the lane for this (completion, timeout, resume, both resets, enqueue).
WorkConserving ==
    \A l \in Lanes : queue[l] # <<>> => Cardinality(active[l]) >= maxConcurrent[l]

\* The slots of a lane are held by exactly its unsettled runs of the current
\* generation: the completion of a run from before a reset frees no slot of a
\* later one, and no run leaks its slot when it settles or times out.
SlotsOwned ==
    \A l \in Lanes :
        active[l] = {x \in Entries : entry[x].lane = l /\ Running(x) /\ Current(x)}

\* Nothing accepted is lost or run twice: an entry that was accepted and has
\* neither started nor settled waits in the queue of its lane, once, and no
\* other entry is in a queue; resets keep the queued work.
NothingLost ==
    /\ \A l \in Lanes : \A x \in Entries :
          x \in ToSet(queue[l]) <=>
              entry[x].lane = l /\ entry[x].promise = "pending" /\ ~HasRun(x)
    /\ \A l \in Lanes : \A i, j \in 1 .. Len(queue[l]) :
          queue[l][i] = queue[l][j] => i = j

\* A queue is ordered by priority, and by submission within a priority.
QueueOrdered ==
    \A l \in Lanes : \A i, j \in 1 .. Len(queue[l]) :
        i < j => Behind(entry[queue[l][j]], entry[queue[l][i]])

\* A caller of waitForActiveTasks that still waits has a task to wait for:
\* whichever path empties the slots it waits on also wakes it.
NoForgottenWaiter ==
    \A w \in Waiters : waiter[w].state = "waiting" => HasPendingTask(w, active)

\* A step that starts tasks in a lane leaves the lane within its limit. (Only
\* lowering the limit below the running tasks may exceed it, and starts none.)
StartsWithinLimit ==
    [][\A l \in Lanes : active'[l] \subseteq active[l]
                        \/ Cardinality(active'[l]) <= maxConcurrent'[l]]_vars

\* A task that starts goes before everything still waiting in its lane.
StartsInOrder ==
    [][\A x \in Entries : ~HasRun(x) /\ HasRun(x)' =>
          \A y \in ToSet(queue'[entry'[x].lane]) : Behind(entry'[y], entry'[x])]_vars

\* Accepted work settles, in a lane that stays open and whose runs have
\* timeouts: no hung body, reset or late completion wedges such a lane.
AcceptedWorkSettles ==
    \A l \in Lanes :
        /\ []<>(maxConcurrent[l] > 0)
        /\ [](\A x \in Entries : Running(x) /\ entry[x].lane = l => entry[x].timed)
        => \A x \in Entries :
              entry[x].promise = "pending" /\ entry[x].lane = l ~> Settled(x)
=============================================================================
