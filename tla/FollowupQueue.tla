--------------------------- MODULE FollowupQueue ----------------------------
(***************************************************************************)
(* The follow-up queue of one session (src/auto-reply/reply/queue/): the   *)
(* messages that arrive while a turn of the session is active wait here,   *)
(* and a drain gives them their turns afterwards.  Modelled together with  *)
(* what it depends on: the one reply-run slot of the session               *)
(* (reply-run-registry.ts, reply-turn-admission.ts), the visible turns     *)
(* that take it (agent-runner.ts), and /stop (abort.ts).                   *)
(*                                                                         *)
(* A queue is an object that FOLLOWUP_QUEUES points to. Clearing removes   *)
(* it from the map while its drain may be awaiting a turn, so that an old  *)
(* object and a new one may have drains at the same time.                  *)
(*                                                                         *)
(* Abstractions:                                                           *)
(*  - The debounce is a free choice of when a drain goes on.               *)
(*  - Which waiter gets a free slot is left open. The end of a turn and    *)
(*    the drain's return from awaiting it are one step.                    *)
(*  - Whether an operation is still in its phase "queued", where an abort  *)
(*    frees the slot at once, is a free choice of the abort.               *)
(*  - Callbacks, abort signals of messages, images and lifecycles are left *)
(*    out. The dedupe cache forgets nothing, and a second delivery comes   *)
(*    while the session is busy: otherwise it does not reach this queue.   *)
(***************************************************************************)
EXTENDS Integers, Sequences, FiniteSets, SequencesExt

CONSTANTS
    Messages,
    Queues,         \* the identities of queue objects
    Modes,          \* subset of {"followup", "collect"}
    DropPolicies,   \* subset of {"summarize", "old", "new"}
    Cap,            \* of items, and of the lines of a summary
    RouteOf,        \* [Messages -> routes]: channel, recipient, account, thread;
                    \* "none" for a message without any of them, "alone"
                    \* for one that is never collected with others
    SenderOf,       \* [Messages -> senders]: resolveFollowupAuthorizationKey
    Redelivered,    \* messages that the channel delivers a second time
    MaxClears,      \* bound of the uses of /stop
    MaxFailures     \* bound of the turns that throw or are deferred

NoQueue == "no queue"
Free == "free"

ASSUME QueuesAssumption ==
    /\ IsFiniteSet(Queues) /\ Cardinality(Queues) > MaxClears
    /\ NoQueue \notin Queues /\ Free \notin Messages \cup Queues
    /\ Messages \cap Queues = {}
ASSUME SettingsAssumption ==
    /\ Modes \subseteq {"followup", "collect"} /\ Modes # {}
    /\ DropPolicies \subseteq {"summarize", "old", "new"} /\ DropPolicies # {}
    /\ Cap \in Nat \ {0} /\ Redelivered \subseteq Messages
ASSUME BoundsAssumption == MaxClears \in Nat /\ MaxFailures \in Nat

VARIABLES
    map,        \* Queues \cup {NoQueue}: the entry of FOLLOWUP_QUEUES
    queue,      \* [Queues -> Queue]
    drain,      \* [Queues -> Drain]: the drain of each queue object
    slot,       \* who holds the session's reply operation
    inbound,    \* [Messages -> ...]: what became of each message at arrival
    accepted,   \* the messages queued so far, in order (RECENT_QUEUE_MESSAGE_IDS)
    redelivery, \* the second deliveries still to come
    gone,       \* history: messages dropped by the cap, or taken from the head
                \* of the queue by a turn that had only the summary
    cleared,    \* history: messages that /stop removed
    stale,      \* history: a message was queued while the turn of a detached
                \* queue object held the slot
    started,    \* history: messages whose prompt was in a turn that began
    completed,  \* history: [Messages -> Nat], turns completed with its prompt
    clears, failures

historyVars == <<gone, cleared, stale, started, completed>>
counters == <<clears, failures>>
vars == <<map, queue, drain, slot, inbound, accepted, redelivery, historyVars, counters>>

-----------------------------------------------------------------------------
(* The state of a queue object and of its drain.                            *)

Queue == [items : Seq(Messages),
          mode : Modes, dropPolicy : DropPolicies,
          droppedCount : Nat,
          summaryLines : Seq(Messages)]

\* One awaited runFollowup: the messages in its prompt, whether the summary is
\* in it, and the messages taken out of the queue when it is back.
Call == [prompts : Seq(Messages), summary : BOOLEAN, takes : Seq(Messages)]

\* calls: the rest of a step of the loop; its head is awaited. saved: the
\* summary as it was at the step (previewRestorableQueueSummaryPrompt).
Drain == [pc : {"idle", "loop", "admit", "run"},
          forceIndividualCollect : BOOLEAN,
          calls : Seq(Call),
          saved : [droppedCount : Nat, summaryLines : Seq(Messages)]]

NoSummary == [droppedCount |-> 0, summaryLines |-> <<>>]
Idle == [pc |-> "idle", forceIndividualCollect |-> FALSE, calls |-> <<>>, saved |-> NoSummary]
Begun == [Idle EXCEPT !.pc = "loop"]

Created == [items |-> <<>>, mode |-> CHOOSE x \in Modes : TRUE,
            dropPolicy |-> CHOOSE x \in DropPolicies : TRUE,
            droppedCount |-> 0, summaryLines |-> <<>>]

Pending(q) == q.items # <<>> \/ q.droppedCount > 0
HasSummary(q) == q.dropPolicy = "summarize" /\ q.droppedCount > 0

TypeOK ==
    /\ map \in Queues \cup {NoQueue}
    /\ queue \in [Queues -> Queue] /\ \A q \in Queues : Len(queue[q].items) <= Cap
    /\ drain \in [Queues -> Drain]
    /\ slot \in {Free} \cup Messages \cup Queues
    /\ inbound \in [Messages -> {"new", "deciding", "starting", "turn", "ending",
                                 "over", "queued"}]
    /\ accepted \in Seq(Messages)
    /\ redelivery \subseteq Redelivered
    /\ gone \subseteq Messages /\ cleared \subseteq Messages /\ stale \in BOOLEAN
    /\ started \subseteq Messages
    /\ completed \in [Messages -> Nat]
    /\ clears \in 0 .. MaxClears /\ failures \in 0 .. MaxFailures

Init ==
    /\ map = NoQueue
    /\ queue = [q \in Queues |-> Created]
    /\ drain = [q \in Queues |-> Idle]
    /\ slot = Free
    /\ inbound = [m \in Messages |-> "new"]
    /\ accepted = <<>>
    /\ redelivery = Redelivered
    /\ gone = {} /\ cleared = {} /\ stale = FALSE
    /\ started = {} /\ completed = [m \in Messages |-> 0]
    /\ clears = 0 /\ failures = 0

-----------------------------------------------------------------------------
(* Scheduling and the end of a drain.                                       *)

\* scheduleFollowupDrain(key) with the map, the objects and the drains as they
\* are by then. A drain with nothing to do ends before its first await.
Schedule(mp, qs, dr) ==
    LET idle == mp # NoQueue /\ dr[mp].pc = "idle"
        work == idle /\ Pending(qs[mp])
    IN  /\ map' = IF idle /\ ~work THEN NoQueue ELSE mp
        /\ queue' = IF idle /\ ~work THEN [qs EXCEPT ![mp] = Created] ELSE qs
        /\ drain' = IF work THEN [dr EXCEPT ![mp] = Begun] ELSE dr

\* Wrong on purpose (W_...): the map entry goes whoever owns it.
W_FinishUnguarded(q, qs) ==
    LET pending == Pending(qs[q])
        ended == [drain EXCEPT ![q] = Idle]
    IN  IF pending
        THEN Schedule(map, IF map = q THEN qs ELSE [qs EXCEPT ![q] = Created], ended)
        ELSE /\ map' = NoQueue
             /\ queue' = [qs EXCEPT ![q] = Created] /\ drain' = ended

\* Wrong on purpose: a drain that ends with work left waits for the next message.
W_FinishParks(q, qs) ==
    /\ map' = IF map = q /\ ~Pending(qs[q]) THEN NoQueue ELSE map
    /\ queue' = IF map = q /\ Pending(qs[q]) THEN qs ELSE [qs EXCEPT ![q] = Created]
    /\ drain' = [drain EXCEPT ![q] = Idle]

\* The finally block of the drain of q. An object that is not in the map any
\* more is garbage once its drain has ended.
Finish(q, qs) ==
    LET pending == Pending(qs[q])
        kept == IF pending /\ map = q THEN qs ELSE [qs EXCEPT ![q] = Created]
        ended == [drain EXCEPT ![q] = Idle]
    IN  IF pending
        THEN Schedule(map, kept, ended)
        ELSE /\ map' = IF map = q THEN NoQueue ELSE map
             /\ queue' = kept /\ drain' = ended

-----------------------------------------------------------------------------
(* Inbound messages and visible turns.                                      *)

\* The busy check of get-reply-run.ts. What it saw decides whether the message
\* is queued or gets a turn of its own, some awaits later.
Arrive(m) ==
    /\ inbound[m] = "new"
    /\ inbound' = [inbound EXCEPT ![m] = IF slot = Free THEN "starting" ELSE "deciding"]
    /\ UNCHANGED <<map, queue, drain, slot, accepted, redelivery, historyVars, counters>>

Redeliver(m) ==
    /\ m \in redelivery /\ inbound[m] = "queued" /\ slot # Free
    /\ redelivery' = redelivery \ {m}
    /\ inbound' = [inbound EXCEPT ![m] = "deciding"]
    /\ UNCHANGED <<map, queue, drain, slot, accepted, historyVars, counters>>

\* getFollowupQueue: the object in the map with the message's settings, or a
\* new one.
QueueFor == IF map # NoQueue THEN map ELSE CHOOSE q \in Queues : drain[q].pc = "idle"

\* Wrong on purpose: only the messages that still wait are known.
W_KnownWhileQueued(m, q) == m \in Range(q.items)

\* isRunAlreadyQueued and the recent message ids.
Known(m, q) == m \in Range(accepted) \/ m \in Range(q.items)

\* Wrong on purpose: a full queue takes one more.
W_OverflowLate(q) ==
    IF Len(q.items) <= Cap THEN <<>> ELSE SubSeq(q.items, 1, Len(q.items) - Cap)

\* applyQueueDropPolicy on a queue that is not of policy "new".
Overflow(q) ==
    IF Len(q.items) < Cap THEN <<>> ELSE SubSeq(q.items, 1, Len(q.items) - Cap + 1)
LastLines(lines) ==
    IF Len(lines) <= Cap THEN lines ELSE SubSeq(lines, Len(lines) - Cap + 1, Len(lines))
MakeRoom(q) ==
    LET kept == [q EXCEPT !.items = SubSeq(@, Len(Overflow(q)) + 1, Len(@))]
    IN  IF q.dropPolicy # "summarize" THEN kept
        ELSE [kept EXCEPT !.droppedCount = @ + Len(Overflow(q)),
                          !.summaryLines = LastLines(@ \o Overflow(q))]

\* enqueueFollowupRun, then the second look at the busy state, which schedules
\* the drain if the turn has ended in between.
EnqueueBehind(m) ==
    /\ inbound[m] = "deciding"
    /\ inbound' = [inbound EXCEPT ![m] = "queued"]
    /\ \E mode \in Modes, policy \in DropPolicies :
        LET target == QueueFor
            q == [queue[target] EXCEPT !.mode = mode, !.dropPolicy = policy]
            refused == Known(m, q) \/ (policy = "new" /\ Len(q.items) >= Cap)
            filled == IF refused THEN q ELSE [MakeRoom(q) EXCEPT !.items = Append(@, m)]
            changed == [queue EXCEPT ![target] = filled]
        IN  /\ IF slot = Free
               THEN Schedule(target, changed, drain)
               ELSE map' = target /\ queue' = changed /\ drain' = drain
            /\ accepted' = IF refused THEN accepted ELSE Append(accepted, m)
            /\ gone' = IF refused THEN gone ELSE gone \cup Range(Overflow(q))
            /\ stale' = (stale \/ slot \in Queues \ {target})
    /\ UNCHANGED <<slot, redelivery, cleared, started, completed, counters>>

\* admitReplyTurn of a visible turn: it waits as long as it takes.
StartTurn(m) ==
    /\ inbound[m] = "starting" /\ slot = Free
    /\ slot' = m
    /\ inbound' = [inbound EXCEPT ![m] = "turn"]
    /\ UNCHANGED <<map, queue, drain, accepted, redelivery, historyVars, counters>>

\* replyOperation.fail frees the slot while the turn still sends its payload.
TurnFails(m) ==
    /\ inbound[m] = "turn" /\ slot = m
    /\ slot' = Free
    /\ inbound' = [inbound EXCEPT ![m] = "ending"]
    /\ UNCHANGED <<map, queue, drain, accepted, redelivery, historyVars, counters>>

\* Wrong on purpose: a turn that failed only completes.
W_TurnEndsQuietly(m) ==
    /\ inbound[m] \in {"turn", "ending"}
    /\ inbound' = [inbound EXCEPT ![m] = "over"]
    /\ slot' = IF slot = m THEN Free ELSE slot
    /\ IF inbound[m] = "turn" THEN Schedule(map, queue, drain) ELSE UNCHANGED <<map, queue, drain>>
    /\ UNCHANGED <<accepted, redelivery, historyVars, counters>>

\* completeThen(drainQueuedFollowupsAfterClear): free the slot, then schedule.
TurnEnds(m) ==
    /\ inbound[m] \in {"turn", "ending"}
    /\ inbound' = [inbound EXCEPT ![m] = "over"]
    /\ slot' = IF slot = m THEN Free ELSE slot
    /\ Schedule(map, queue, drain)
    /\ UNCHANGED <<accepted, redelivery, historyVars, counters>>

-----------------------------------------------------------------------------
(* The drain.                                                               *)

ItemTurn(m) == [prompts |-> <<m>>, summary |-> FALSE, takes |-> <<m>>]
SummaryTurn(taken) == [prompts |-> <<>>, summary |-> TRUE, takes |-> taken]

\* hasCrossChannelItems and hasRuntimeOnlyFollowupMetadata.
IsCrossChannel(items) ==
    \/ Cardinality({RouteOf[m] : m \in Range(items)} \ {"none"}) > 1
    \/ \E m \in Range(items) : RouteOf[m] = "alone"

\* splitCollectItemsByAuthorization: runs of messages of one sender.
AuthGroups(items) ==
    LET groups[n \in 0 .. Len(items)] ==
            IF n = 0 THEN <<>>
            ELSE IF n > 1 /\ SenderOf[items[n]] = SenderOf[items[n - 1]]
                 THEN Append(Front(groups[n - 1]), Append(Last(groups[n - 1]), items[n]))
                 ELSE Append(groups[n - 1], <<items[n]>>)
    IN  groups[Len(items)]

CollectTurns(q) ==
    LET groups == AuthGroups(q.items)
    IN  [k \in 1 .. Len(groups) |->
            [prompts |-> groups[k], summary |-> k = 1 /\ HasSummary(q), takes |-> groups[k]]]

\* What one pass of the loop awaits. Nothing: the loop ends. In mode "followup"
\* a summary replaces the prompt of the message it takes along.
NextTurns(q, individual) ==
    CASE q.items = <<>> ->
            IF q.mode = "collect" /\ HasSummary(q) THEN <<SummaryTurn(<<>>)>> ELSE <<>>
      [] q.items # <<>> /\ q.mode = "collect" /\ ~individual -> CollectTurns(q)
      [] q.items # <<>> /\ q.mode = "followup" /\ HasSummary(q) ->
            <<SummaryTurn(<<Head(q.items)>>)>>
      [] OTHER -> <<ItemTurn(Head(q.items))>>

DrainStep(q) ==
    /\ drain[q].pc = "loop"
    /\ LET Q == queue[q]
           individual == IF Q.mode = "collect"
                         THEN \/ IsCrossChannel(Q.items)
                              \/ drain[q].forceIndividualCollect /\ Len(Q.items) <= 1
                         ELSE drain[q].forceIndividualCollect
           turns == NextTurns(Q, individual)
       IN  IF turns = <<>>
           THEN Finish(q, queue)
           ELSE /\ drain' = [drain EXCEPT ![q] =
                    [pc |-> "admit", forceIndividualCollect |-> individual, calls |-> turns,
                     saved |-> [droppedCount |-> Q.droppedCount,
                                summaryLines |-> Q.summaryLines]]]
                /\ UNCHANGED <<map, queue>>
    /\ UNCHANGED <<slot, inbound, accepted, redelivery, historyVars, counters>>

\* admitReplyTurn of a queued turn finds the slot free.
Admit(q) ==
    /\ drain[q].pc = "admit" /\ slot = Free
    /\ slot' = q
    /\ drain' = [drain EXCEPT ![q].pc = "run"]
    /\ started' = started \cup Range(Head(drain[q].calls).prompts)
    /\ UNCHANGED <<map, queue, inbound, accepted, redelivery, gone, cleared, stale,
                   completed, counters>>

\* removeQueuedItemsByRef
Without(items, taken) ==
    LET kept[n \in 0 .. Len(items)] ==
            IF n = 0 THEN <<>>
            ELSE IF items[n] \in Range(taken) THEN kept[n - 1]
                 ELSE Append(kept[n - 1], items[n])
    IN  kept[Len(items)]

\* The awaited turn is back: its messages leave the queue, and its summary with
\* whatever has been dropped since.
CallCompletes(q) ==
    /\ drain[q].pc = "run"
    /\ LET call == Head(drain[q].calls)
           rest == Tail(drain[q].calls)
           kept == [queue[q] EXCEPT !.items = Without(@, call.takes)]
       IN  /\ queue' = [queue EXCEPT ![q] =
                IF call.summary
                THEN [kept EXCEPT !.droppedCount = 0, !.summaryLines = <<>>] ELSE kept]
           /\ drain' = [drain EXCEPT ![q].calls = rest,
                                     ![q].pc = IF rest = <<>> THEN "loop" ELSE "admit"]
           /\ completed' = [m \in Messages |->
                IF m \in Range(call.prompts) THEN completed[m] + 1 ELSE completed[m]]
           /\ gone' = gone \cup (Range(call.takes) \ Range(call.prompts))
    /\ slot' = IF slot = q THEN Free ELSE slot
    /\ UNCHANGED <<map, inbound, accepted, redelivery, cleared, stale, started, counters>>

\* Wrong on purpose: a turn that throws goes to the back of the queue.
W_CallFailsToTheBack(q) ==
    /\ drain[q].pc \in {"admit", "run"} /\ failures < MaxFailures
    /\ failures' = failures + 1
    /\ slot' = IF slot = q THEN Free ELSE slot
    /\ LET taken == Head(drain[q].calls).takes
           back == SelectSeq(queue[q].items, LAMBDA m : m \in Range(taken))
       IN  Finish(q, [queue EXCEPT ![q].items = Without(@, taken) \o back])
    /\ UNCHANGED <<inbound, accepted, redelivery, historyVars, clears>>

\* The turn throws, before or after it got the slot: what it took is not removed.
CallFails(q) ==
    /\ drain[q].pc \in {"admit", "run"} /\ failures < MaxFailures
    /\ failures' = failures + 1
    /\ slot' = IF slot = q THEN Free ELSE slot
    /\ Finish(q, queue)
    /\ UNCHANGED <<inbound, accepted, redelivery, historyVars, clears>>

\* restore of previewRestorableQueueSummaryPrompt
Restored(q, saved) ==
    IF q.droppedCount >= saved.droppedCount /\ IsPrefix(saved.summaryLines, q.summaryLines)
    THEN q
    ELSE [q EXCEPT !.droppedCount = IF @ >= saved.droppedCount THEN @
                                    ELSE @ + saved.droppedCount,
                   !.summaryLines = saved.summaryLines \o @]

\* REPLY_RUN_IDLE_SETTLE_TIMEOUT_MS passes before the slot is free.
CallDefers(q) ==
    /\ drain[q].pc = "admit" /\ slot # Free /\ failures < MaxFailures
    /\ failures' = failures + 1
    /\ Finish(q, IF Head(drain[q].calls).summary
                 THEN [queue EXCEPT ![q] = Restored(@, drain[q].saved)] ELSE queue)
    /\ UNCHANGED <<slot, inbound, accepted, redelivery, historyVars, clears>>

-----------------------------------------------------------------------------
(* /stop: abort the operation, which frees the slot at once in its phase    *)
(* "queued", then clearSessionQueues.                                       *)

\* Wrong on purpose: the entry leaves the map, and its drain keeps what it has.
W_EmptiedNot(q) == q

\* clearFollowupQueue empties the object in place: its drain may hold it.
Emptied(q) == [q EXCEPT !.items = <<>>, !.droppedCount = 0, !.summaryLines = <<>>]

Stop ==
    /\ clears < MaxClears
    /\ clears' = clears + 1
    /\ slot' \in {slot, Free}
    /\ IF map = NoQueue
       THEN UNCHANGED <<queue, cleared>>
       ELSE /\ queue' = [queue EXCEPT ![map] =
                IF drain[map].pc = "idle" THEN Created ELSE Emptied(@)]
            /\ cleared' = cleared \cup Range(queue[map].items)
    /\ map' = NoQueue
    /\ UNCHANGED <<drain, inbound, accepted, redelivery, gone, stale, started, completed,
                   failures>>

-----------------------------------------------------------------------------
Next ==
    \/ \E m \in Messages :
        \/ Arrive(m) \/ Redeliver(m) \/ EnqueueBehind(m)
        \/ StartTurn(m) \/ TurnFails(m) \/ TurnEnds(m)
    \/ \E q \in Queues :
        \/ DrainStep(q) \/ Admit(q)
        \/ CallCompletes(q) \/ CallFails(q) \/ CallDefers(q)
    \/ Stop

Spec == Init /\ [][Next]_vars

\* Waiters are woken when the slot is freed, and turns end: a run has a timeout.
Fairness ==
    /\ \A m \in Messages : WF_vars(StartTurn(m)) /\ WF_vars(TurnEnds(m))
    /\ \A q \in Queues :
        WF_vars(DrainStep(q)) /\ WF_vars(Admit(q)) /\ WF_vars(CallCompletes(q))

FairSpec == Spec /\ Fairness

-----------------------------------------------------------------------------
(* Properties.                                                              *)

QueuedItems == IF map = NoQueue THEN {} ELSE Range(queue[map].items)

\* A message that was accepted waits in the queue that the session's map entry
\* points to, or its turn is over, or the cap, a summary turn or /stop took it:
\* no drain that ends takes the map entry of other work with it.
NothingLost ==
    \A m \in Range(accepted) :
        \/ m \in QueuedItems
        \/ completed[m] > 0
        \/ m \in gone \cup cleared

\* However deliveries, failures, deferrals and clears interleave, no message has
\* its prompt in two turns that completed.
AtMostOneCompletedTurn == \A m \in Messages : completed[m] <= 1

\* Messages begin their turns in the order in which they were accepted: a message
\* still queued has not been passed by a younger one, in either mode, with mixed
\* routes and senders, and with turns that fail or are deferred.
NoOvertaking ==
    \A i, j \in DOMAIN accepted :
        (i < j /\ accepted[j] \in started /\ accepted[i] \in QueuedItems)
            => accepted[i] \in started

\* Queued work without a drain has a visible turn that will schedule one, unless
\* a message was queued behind the turn of a queue that /stop had detached (that
\* turn schedules nothing when it ends with its own object empty).
NothingStranded ==
    (~stale /\ map # NoQueue /\ Pending(queue[map]) /\ drain[map].pc = "idle")
        => \E m \in Messages : inbound[m] \in {"turn", "ending"}

\* After /stop no drain takes a message that was cleared into a new turn; only
\* turns that were already formed go on.
ClearedStaysCleared ==
    [][\A q \in Queues :
        (drain[q].pc = "loop" /\ drain'[q].pc = "admit")
            => \A k \in DOMAIN drain'[q].calls :
                Range(drain'[q].calls[k].prompts) \cap cleared = {}]_vars

\* The queue of a session empties, if the turns that hold the slot end: no drain
\* stops for good with messages left, and none waits for a slot it cannot get.
QueuedMessagesAreTaken == (QueuedItems # {}) ~> (QueuedItems = {} \/ stale)
=============================================================================
