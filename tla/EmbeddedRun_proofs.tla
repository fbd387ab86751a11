------------------------- MODULE EmbeddedRun_proofs -------------------------
(***************************************************************************)
(* Proofs about EmbeddedRun, for any runs, sessions, lanes, limits and     *)
(* restarts: the lanes implement the abstract turns of SessionTurns, and a *)
(* drain that succeeded leaves no turn executing.  What is proved of the   *)
(* command queue is taken over: a step of EmbeddedRun is one of the queue, *)
(* or leaves it alone.                                                     *)
(***************************************************************************)
EXTENDS EmbeddedRun, FiniteSetTheorems, TLAPS

\* The queue of CQ, with what is proved about it.
CQP == INSTANCE CommandQueue_proofs WITH
        Lanes      <- Sessions \cup GlobalLanes,
        ProbeLanes <- {},
        Entries    <- {"session", "global"} \X Runs,
        Waiters    <- Restarts,
        Priorities <- {PriorityOf[r] : r \in Runs}


-----------------------------------------------------------------------------
(* The two instances are of one queue.                                      *)

\* The assumptions of CommandQueue hold of it.
LEMMA QueueAssumptions ==
    CQP!LanesAssumption /\ CQP!NumbersAssumption /\ CQP!EntriesAssumption
<1>1. IsFiniteSet({"session", "global"} \X Runs)
  <2>1. IsFiniteSet({} \cup {"session"})
    BY FS_EmptySet, FS_AddElement
  <2>2. IsFiniteSet(({} \cup {"session"}) \cup {"global"})
    BY <2>1, FS_AddElement
  <2>3. {"session", "global"} = ({} \cup {"session"}) \cup {"global"}
    OBVIOUS
  <2>4. IsFiniteSet({"session", "global"})
    BY <2>2, <2>3
  <2>. QED
    BY <2>4, RunsAssumption, FS_Product
<1>2. {PriorityOf[r] : r \in Runs} \subseteq Int
  BY RunsAssumption
<1>. QED
  BY <1>1, <1>2, SessionsAssumption, LimitsAssumption
  DEF CQP!LanesAssumption, CQP!NumbersAssumption, CQP!EntriesAssumption, IsFiniteSet,
      CQP!IsFiniteSet

\* Both have the same actions.
LEMMA SameActions ==
    /\ \A x, l, p, timed : CQ!Enqueue(x, l, p, timed) <=> CQP!Enqueue(x, l, p, timed)
    /\ \A x : CQ!EnqueueRefused(x) <=> CQP!EnqueueRefused(x)
    /\ \A x : CQ!TaskSettles(x) <=> CQP!TaskSettles(x)
    /\ \A x : CQ!TaskTimesOut(x) <=> CQP!TaskTimesOut(x)
    /\ \A x : CQ!LateSettle(x) <=> CQP!LateSettle(x)
    /\ \A l, n : CQ!SetConcurrency(l, n) <=> CQP!SetConcurrency(l, n)
    /\ \A l : CQ!ClearLane(l) <=> CQP!ClearLane(l)
    /\ \A l : CQ!ResetLane(l) <=> CQP!ResetLane(l)
    /\ CQ!ResetAllLanes <=> CQP!ResetAllLanes
    /\ CQ!MarkGatewayDraining <=> CQP!MarkGatewayDraining
    /\ \A w, timeout : CQ!WaitForActiveTasks(w, timeout) <=> CQP!WaitForActiveTasks(w, timeout)
    /\ \A w : CQ!WaiterGivesUp(w) <=> CQP!WaiterGivesUp(w)
<1>. USE DEF CQ!laneVars, CQP!laneVars, CQ!Min2, CQP!Min2, CQ!Cardinality, CQP!Cardinality,
             CQ!IsFiniteSet, CQP!IsFiniteSet, CQ!ToSet, CQP!ToSet,
             CQ!StartCount, CQP!StartCount, CQ!Started, CQP!Started,
             CQ!Remaining, CQP!Remaining, CQ!Starting, CQP!Starting,
             CQ!QueuesAfter, CQP!QueuesAfter, CQ!SlotsAfter, CQP!SlotsAfter,
             CQ!EntriesAfter, CQP!EntriesAfter, CQ!DrainLanes, CQP!DrainLanes,
             CQ!HasPendingTask, CQP!HasPendingTask, CQ!NotifyWaiters, CQP!NotifyWaiters,
             CQ!Running, CQP!Running, CQ!HasRun, CQP!HasRun, CQ!Current, CQP!Current,
             CQ!EndRun, CQP!EndRun, CQ!Reset, CQP!Reset,
             CQ!EffectiveLimit, CQP!EffectiveLimit, CQ!Behind, CQP!Behind,
             CQ!Enqueued, CQP!Enqueued, CQ!InsertAt, CQP!InsertAt, CQ!Min, CQP!Min
<1>1. ASSUME NEW x, NEW l, NEW p, NEW timed
      PROVE  CQ!Enqueue(x, l, p, timed) <=> CQP!Enqueue(x, l, p, timed)
  BY Zenon DEF CQ!Enqueue, CQP!Enqueue
<1>2. ASSUME NEW x
      PROVE  /\ CQ!EnqueueRefused(x) <=> CQP!EnqueueRefused(x)
             /\ CQ!LateSettle(x) <=> CQP!LateSettle(x)
  BY DEF CQ!EnqueueRefused, CQP!EnqueueRefused, CQ!LateSettle, CQP!LateSettle
<1>3. ASSUME NEW x PROVE CQ!TaskSettles(x) <=> CQP!TaskSettles(x)
  BY DEF CQ!TaskSettles, CQP!TaskSettles
<1>4. ASSUME NEW x PROVE CQ!TaskTimesOut(x) <=> CQP!TaskTimesOut(x)
  BY DEF CQ!TaskTimesOut, CQP!TaskTimesOut
<1>5. ASSUME NEW l, NEW n PROVE CQ!SetConcurrency(l, n) <=> CQP!SetConcurrency(l, n)
  BY DEF CQ!SetConcurrency, CQP!SetConcurrency
<1>6. ASSUME NEW l PROVE CQ!ClearLane(l) <=> CQP!ClearLane(l)
  BY DEF CQ!ClearLane, CQP!ClearLane
<1>7. ASSUME NEW l PROVE CQ!ResetLane(l) <=> CQP!ResetLane(l)
  BY DEF CQ!ResetLane, CQP!ResetLane
<1>8. CQ!ResetAllLanes <=> CQP!ResetAllLanes
  BY DEF CQ!ResetAllLanes, CQP!ResetAllLanes
<1>9. CQ!MarkGatewayDraining <=> CQP!MarkGatewayDraining
  BY DEF CQ!MarkGatewayDraining, CQP!MarkGatewayDraining
<1>10. ASSUME NEW w, NEW timeout
       PROVE  CQ!WaitForActiveTasks(w, timeout) <=> CQP!WaitForActiveTasks(w, timeout)
  BY DEF CQ!WaitForActiveTasks, CQP!WaitForActiveTasks
<1>11. ASSUME NEW w PROVE CQ!WaiterGivesUp(w) <=> CQP!WaiterGivesUp(w)
  BY DEF CQ!WaiterGivesUp, CQP!WaiterGivesUp
<1>. QED
  BY <1>1, <1>2, <1>3, <1>4, <1>5, <1>6, <1>7, <1>8, <1>9, <1>10, <1>11, Zenon

\* Both have the same behaviours, and the same types.
LEMMA SameState ==
    /\ CQ!Init <=> CQP!Init
    /\ CQ!Next <=> CQP!Next
    /\ CQ!vars = CQP!vars /\ (UNCHANGED queueVars <=> UNCHANGED CQP!vars)
    /\ CQ!TypeOK <=> CQP!TypeOK
<1>1. CQ!Init <=> CQP!Init
  BY DEF CQ!Init, CQP!Init, CQ!Unsubmitted, CQP!Unsubmitted
<1>2. CQ!Next <=> CQP!Next
  <2>1. ASSUME NEW x
        PROVE  (\E l \in Sessions \cup GlobalLanes, p \in {PriorityOf[r] : r \in Runs},
                   timed \in BOOLEAN : CQ!Enqueue(x, l, p, timed))
               <=> (\E l \in Sessions \cup GlobalLanes, p \in {PriorityOf[r] : r \in Runs},
                       timed \in BOOLEAN : CQP!Enqueue(x, l, p, timed))
    BY SameActions, Zenon
  <2>2. ASSUME NEW l
        PROVE  (\E n \in Limits : CQ!SetConcurrency(l, n))
               <=> (\E n \in Limits : CQP!SetConcurrency(l, n))
    BY SameActions, Zenon
  <2>3. ASSUME NEW w
        PROVE  (\E t \in {"none", "zero", "some"} : CQ!WaitForActiveTasks(w, t))
               <=> (\E t \in {"none", "zero", "some"} : CQP!WaitForActiveTasks(w, t))
    BY SameActions, Zenon
  <2>. QED
    BY <2>1, <2>2, <2>3, SameActions DEF CQ!Next, CQP!Next
<1>3. CQ!vars = CQP!vars /\ (UNCHANGED queueVars <=> UNCHANGED CQP!vars)
  BY DEF CQ!vars, CQP!vars, CQ!laneVars, CQP!laneVars, queueVars
<1>4. CQ!TypeOK <=> CQP!TypeOK
  BY Zenon DEF CQ!TypeOK, CQP!TypeOK, CQ!Entry, CQP!Entry, CQ!Waiter, CQP!Waiter,
               CQ!Outcomes, CQP!Outcomes
<1>. QED
  BY <1>1, <1>2, <1>3, <1>4, Zenon

-----------------------------------------------------------------------------
(* The invariant.                                                           *)

\* The types that are EmbeddedRun's own.
OwnTypes ==
    /\ aborted \in [Runs -> BOOLEAN]
    /\ handle \in [Sessions -> Runs \cup {NoRun}]
    /\ recovery \in [Sessions -> Recovery]
    /\ restart \in [phase : RestartPhases,
                    runs : BOOLEAN, waiter : Restarts \cup {NoWaiter}]

\* How the two entries of a run are linked: the run is submitted by the body of
\* its session entry, which then stays in its lane until the run settles.
LinkedEntries(S, G, s, g) ==
    /\ S.promise = "pending" => S.lane = s
    /\ S.body = "executing" => S.promise = "pending"
    /\ G.promise # "unsubmitted" => S.body # "none"
    /\ G.promise = "pending" => S.body = "executing" /\ G.lane = g

Linked == \A r \in Runs :
    LinkedEntries(entry[Session(r)], entry[Global(r)], SessionOf[r], LaneOf[r])

\* A session lane never has a second slot.
OneSlot == \A s \in Sessions : maxConcurrent[s] = 1 /\ Cardinality(active[s]) <= 1

\* A run that is not settled and whose session entry holds its lane's slot.
Live(r) == entry[Global(r)].promise = "pending" /\ CQ!Current(Session(r))

\* During a restart new work is refused, and its waiter watches the live runs.
Quiet ==
    /\ restart.phase # "none" => gatewayDraining
    /\ restart.phase = "waiting" =>
          /\ restart.waiter \in Restarts
          /\ waiter[restart.waiter].state = "waiting" =>
                \A r \in Runs : Live(r) => Session(r) \in waiter[restart.waiter].tasks
          /\ waiter[restart.waiter].state = "drained" => \A r \in Runs : ~Live(r)
    /\ restart.phase = "drained" => \A r \in Runs : ~Live(r)

\* The conjunction that is inductive.
IInv == CQP!IInv /\ OwnTypes /\ Linked /\ OneSlot /\ Quiet

\* What the invariant says of one run.
LEMMA RunFacts ==
    ASSUME IInv, NEW r \in Runs
    PROVE  /\ Session(r) \in {"session", "global"} \X Runs
           /\ Global(r) \in {"session", "global"} \X Runs
           /\ SessionOf[r] \in Sessions
           /\ entry[Session(r)] \in CQP!Entry /\ entry[Global(r)] \in CQP!Entry
           /\ LinkedEntries(entry[Session(r)], entry[Global(r)], SessionOf[r], LaneOf[r])
           /\ entry[Session(r)].promise = "unsubmitted" => entry[Session(r)].body = "none"
           /\ entry[Global(r)].promise = "unsubmitted" => entry[Global(r)].body = "none"
           /\ generation \in [Sessions \cup GlobalLanes -> Nat]
           /\ entry[Session(r)].promise = "pending" /\ entry[Session(r)].body # "none" =>
                 entry[Session(r)].generation <= generation[SessionOf[r]]
<1>1. /\ Session(r) \in {"session", "global"} \X Runs
      /\ Global(r) \in {"session", "global"} \X Runs
      /\ SessionOf[r] \in Sessions
  BY RunsAssumption DEF Session, Global
<1>2. entry \in [{"session", "global"} \X Runs -> CQP!Entry]
      /\ generation \in [Sessions \cup GlobalLanes -> Nat]
  BY DEF IInv, CQP!IInv, CQP!TypeOK
<1>3. LinkedEntries(entry[Session(r)], entry[Global(r)], SessionOf[r], LaneOf[r])
  BY DEF IInv, Linked
<1>4. \A x \in {"session", "global"} \X Runs :
          /\ entry[x].promise = "unsubmitted" => entry[x].body = "none"
          /\ entry[x].promise = "pending" /\ entry[x].body # "none" =>
                entry[x].generation <= generation[entry[x].lane]
  BY DEF IInv, CQP!IInv, CQP!UnsubmittedIdle, CQP!Past
<1>. QED
  BY <1>1, <1>2, <1>3, <1>4 DEF LinkedEntries

-----------------------------------------------------------------------------
(* The steps, as a run sees them: what happens to its two entries.          *)

Carried(r) == CQP!Moved(entry, Session(r)) /\ CQP!Moved(entry, Global(r))

\* Accepted and perhaps started, or refused.
Offered(x) ==
    /\ entry[x].promise = "unsubmitted" /\ entry[x].body = "none"
    /\ \/ /\ ~gatewayDraining
          /\ entry'[x].promise = "pending" /\ entry'[x].body \in {"none", "executing"}
       \/ entry'[x].promise = "refused" /\ entry'[x].body = "none"

Submitted(r) ==
    /\ Offered(Session(r))
    /\ entry'[Session(r)].promise = "pending" => entry'[Session(r)].lane = SessionOf[r]
    /\ CQP!Moved(entry, Global(r))

Forwarding(r) ==
    /\ SessionBody(r) = "executing"
    /\ Offered(Global(r))
    /\ entry'[Global(r)].promise = "pending" => entry'[Global(r)].lane = LaneOf[r]
    /\ CQP!Moved(entry, Session(r))

\* An entry that ran gives up its promise; its body may go on after a timeout.
Ended(x, outcome, body) ==
    /\ entry[x].promise = "pending" /\ entry[x].body # "none"
    /\ entry'[x].promise = outcome /\ entry'[x].body = body

SessionEnds(r) ==
    /\ Forwarded(r) => entry[Global(r)].promise \in CQP!Outcomes
    /\ Ended(Session(r), "settled", "finished")
    /\ CQP!Moved(entry, Global(r))

RunEnds(r) ==
    /\ \/ Ended(Global(r), "settled", "finished")
       \/ Ended(Global(r), "timedOut", "executing")
    /\ CQP!Moved(entry, Session(r))

LateEnds(r) ==
    /\ entry[Global(r)].promise = "timedOut" /\ entry'[Global(r)].promise = "timedOut"
    /\ entry'[Global(r)].body = "finished"
    /\ CQP!Moved(entry, Session(r))

Cleared(r) ==
    /\ entry[Session(r)].promise = "pending" /\ SessionBody(r) = "none"
    /\ entry'[Session(r)].promise = "cleared" /\ entry'[Session(r)].body = "none"
    /\ CQP!Moved(entry, Global(r))

RunStep(r) ==
    Carried(r) \/ Submitted(r) \/ Forwarding(r) \/ SessionEnds(r) \/ RunEnds(r)
    \/ LateEnds(r) \/ Cleared(r)

\* A step of the lanes, for all runs and all sessions.
LanesStep ==
    /\ \A r \in Runs : RunStep(r)
    /\ \A l \in Sessions \cup GlobalLanes : generation'[l] >= generation[l]
    /\ \A s \in Sessions : maxConcurrent'[s] = maxConcurrent[s]

\* Waiters are left alone, woken by the end of their tasks, or give up.
WaitersStep ==
    \A w \in Restarts :
        \/ waiter'[w] = waiter[w]
        \/ waiter'[w].state = "gaveUp"
        \/ /\ waiter[w].state = "waiting" /\ waiter'[w].state = "drained"
           /\ \A l \in Sessions \cup GlobalLanes : \A x \in waiter[w].tasks \cap active'[l] :
                 entry[x].body = "none"

\* A step outside of the restart's own.
OrdinaryStep ==
    /\ LanesStep /\ WaitersStep
    /\ gatewayDraining' = gatewayDraining /\ restart' = restart

\* Its entries stay linked.
LEMMA LinkedStep ==
    ASSUME IInv, NEW r \in Runs, RunStep(r)
    PROVE  LinkedEntries(entry'[Session(r)], entry'[Global(r)], SessionOf[r], LaneOf[r])
<1>1. /\ LinkedEntries(entry[Session(r)], entry[Global(r)], SessionOf[r], LaneOf[r])
      /\ entry[Session(r)].promise = "unsubmitted" => entry[Session(r)].body = "none"
      /\ entry[Global(r)].promise = "unsubmitted" => entry[Global(r)].body = "none"
  BY RunFacts
<1>2. CASE Carried(r)
  BY <1>1, <1>2 DEF Carried, CQP!Moved, LinkedEntries
<1>3. CASE Submitted(r)
  BY <1>1, <1>3 DEF Submitted, Offered, CQP!Moved, LinkedEntries
<1>4. CASE Forwarding(r)
  BY <1>1, <1>4 DEF Forwarding, Offered, CQP!Moved, LinkedEntries, SessionBody
<1>5. CASE SessionEnds(r)
  BY <1>1, <1>5 DEF SessionEnds, Ended, CQP!Moved, CQP!Outcomes, LinkedEntries, Forwarded
<1>6. CASE RunEnds(r)
  BY <1>1, <1>6 DEF RunEnds, Ended, CQP!Moved, LinkedEntries
<1>7. CASE LateEnds(r)
  BY <1>1, <1>7 DEF LateEnds, CQP!Moved, LinkedEntries
<1>8. CASE Cleared(r)
  BY <1>1, <1>8 DEF Cleared, CQP!Moved, LinkedEntries, SessionBody
<1>. QED
  BY <1>2, <1>3, <1>4, <1>5, <1>6, <1>7, <1>8 DEF RunStep

\* A run whose session entry lost its slot never gets it back.
LEMMA StaysLive ==
    ASSUME IInv, NEW r \in Runs, RunStep(r), entry[Global(r)].promise = "pending",
           \A l \in Sessions \cup GlobalLanes : generation'[l] >= generation[l],
           generation' \in [Sessions \cup GlobalLanes -> Nat],
           entry'[Global(r)].promise = "pending", CQ!Current(Session(r))'
    PROVE  Live(r)
<1>1. /\ LinkedEntries(entry[Session(r)], entry[Global(r)], SessionOf[r], LaneOf[r])
      /\ SessionOf[r] \in Sessions /\ generation \in [Sessions \cup GlobalLanes -> Nat]
      /\ entry[Session(r)] \in CQP!Entry
      /\ entry[Session(r)].promise = "pending" /\ entry[Session(r)].body # "none" =>
            entry[Session(r)].generation <= generation[SessionOf[r]]
  BY RunFacts
<1>2. /\ entry[Session(r)].body = "executing" /\ entry[Session(r)].promise = "pending"
      /\ entry[Session(r)].lane = SessionOf[r]
  BY <1>1 DEF LinkedEntries
<1>3. CQP!Moved(entry, Session(r))
  BY <1>2 DEF RunStep, Carried, Submitted, Offered, Forwarding, SessionEnds, RunEnds, LateEnds,
              Cleared, SessionBody, Forwarded, CQP!Outcomes
<1>4. entry'[Session(r)].generation = entry[Session(r)].generation
      /\ entry'[Session(r)].lane = SessionOf[r]
  BY <1>2, <1>3 DEF CQP!Moved
<1>5. entry[Session(r)].generation = generation'[SessionOf[r]]
  BY <1>4 DEF CQ!Current
<1>6. /\ entry[Session(r)].generation \in Nat /\ generation'[SessionOf[r]] \in Nat
      /\ generation[SessionOf[r]] \in Nat /\ generation'[SessionOf[r]] >= generation[SessionOf[r]]
      /\ entry[Session(r)].generation <= generation[SessionOf[r]]
  BY <1>1, <1>2 DEF CQP!Entry
<1>7. entry[Session(r)].generation = generation[SessionOf[r]]
  BY <1>5, <1>6
<1>. QED
  BY <1>2, <1>7 DEF Live, CQ!Current

\* What a turn is, by the two entries and whether the session entry is current.
TurnFrom(S, G, current) ==
    CASE S.promise = "unsubmitted" -> "new"
      [] G.body = "executing" ->
            IF G.promise = "pending" /\ current THEN "executing" ELSE "abandoned"
      [] S.promise # "unsubmitted" /\ G.body # "executing" ->
            IF S.promise \in CQP!Outcomes \/ G.promise \in CQP!Outcomes
            THEN "over" ELSE "accepted"

LEMMA TurnOfIs ==
    ASSUME NEW r \in Runs
    PROVE  /\ TurnOf(r) = TurnFrom(entry[Session(r)], entry[Global(r)], CQ!Current(Session(r)))
           /\ TurnOf(r)' = TurnFrom(entry'[Session(r)], entry'[Global(r)], CQ!Current(Session(r))')
  BY DEF TurnOf, TurnFrom, RunBody, CQ!Settled, CQ!Outcomes, CQP!Outcomes

\* A step takes the turn of a run along one of the moves of SessionTurns.
LEMMA TurnMoves ==
    ASSUME IInv, NEW r \in Runs, RunStep(r),
           \A l \in Sessions \cup GlobalLanes : generation'[l] >= generation[l],
           generation' \in [Sessions \cup GlobalLanes -> Nat]
    PROVE  TurnOf(r)' = TurnOf(r) \/ <<TurnOf(r), TurnOf(r)'>> \in Turns!Moves
<1>. DEFINE S == entry[Session(r)]
            G == entry[Global(r)]
            S2 == entry'[Session(r)]
            G2 == entry'[Global(r)]
            c == CQ!Current(Session(r))
            c2 == CQ!Current(Session(r))'
            t == TurnFrom(S, G, c)
            t2 == TurnFrom(S2, G2, c2)
<1>1. /\ LinkedEntries(S, G, SessionOf[r], LaneOf[r])
      /\ LinkedEntries(S2, G2, SessionOf[r], LaneOf[r])
      /\ S.promise = "unsubmitted" => S.body = "none"
      /\ G.promise = "unsubmitted" => G.body = "none"
      /\ S.promise \in {"unsubmitted", "pending"} \cup CQP!Outcomes
      /\ G.promise \in {"unsubmitted", "pending"} \cup CQP!Outcomes
      /\ G.promise = "pending" /\ G2.promise = "pending" /\ c2 => c
  BY RunFacts, LinkedStep, StaysLive DEF Live, CQP!Entry
<1>2. TurnOf(r) = t /\ TurnOf(r)' = t2
  BY TurnOfIs
<1>. HIDE DEF c, c2
<1>. SUFFICES t2 = t \/ <<t, t2>> \in Turns!Moves
  BY <1>2
<1>. USE DEF LinkedEntries, TurnFrom, Turns!Moves, CQP!Outcomes, CQP!Moved, Offered, Ended
<1>3. CASE Carried(r)
  BY <1>1, <1>3 DEF Carried
<1>4. CASE Submitted(r)
  BY <1>1, <1>4 DEF Submitted
<1>5. CASE Forwarding(r)
  BY <1>1, <1>5 DEF Forwarding, SessionBody
<1>6. CASE SessionEnds(r)
  BY <1>1, <1>6 DEF SessionEnds, Forwarded
<1>7. CASE RunEnds(r)
  BY <1>1, <1>7 DEF RunEnds
<1>8. CASE LateEnds(r)
  BY <1>1, <1>8 DEF LateEnds
<1>9. CASE Cleared(r)
  BY <1>1, <1>9 DEF Cleared, SessionBody
<1>. QED
  BY <1>3, <1>4, <1>5, <1>6, <1>7, <1>8, <1>9 DEF RunStep

\* While new work is refused, no run becomes live.
LEMMA NoneBecomesLive ==
    ASSUME IInv, NEW r \in Runs, RunStep(r), gatewayDraining,
           \A l \in Sessions \cup GlobalLanes : generation'[l] >= generation[l],
           generation' \in [Sessions \cup GlobalLanes -> Nat], Live(r)'
    PROVE  Live(r)
<1>1. entry'[Global(r)].promise = "pending" /\ CQ!Current(Session(r))'
  BY DEF Live
<1>2. entry[Global(r)].promise = "pending"
  BY <1>1 DEF RunStep, Carried, Submitted, Offered, Forwarding, SessionEnds, RunEnds, LateEnds,
              Cleared, Ended, CQP!Moved
<1>. QED
  BY <1>1, <1>2, StaysLive

\* The session entry of a live run holds the slot of its lane.
LEMMA LiveHolds ==
    ASSUME IInv, NEW r \in Runs, Live(r)
    PROVE  Session(r) \in active[SessionOf[r]] /\ SessionBody(r) = "executing"
<1>1. /\ entry[Session(r)].body = "executing" /\ entry[Session(r)].promise = "pending"
      /\ entry[Session(r)].lane = SessionOf[r] /\ SessionOf[r] \in Sessions
      /\ Session(r) \in {"session", "global"} \X Runs
  BY RunFacts DEF LinkedEntries, Live
<1>2. CQP!Owned(active, entry, generation)
  BY DEF IInv, CQP!IInv
<1>. QED
  BY <1>1, <1>2 DEF CQP!Owned, CQP!Holder, Live, CQ!Current, SessionBody

\* Two executing turns of a session would hold two slots of its lane.
LEMMA ExclusiveTurns == IInv => Turns!Exclusive([r \in Runs |-> TurnOf(r)])
<1>. SUFFICES ASSUME IInv, NEW q \in Runs, NEW r \in Runs,
                     TurnOf(q) = "executing", TurnOf(r) = "executing",
                     SessionOf[q] = SessionOf[r]
              PROVE  q = r
  BY DEF Turns!Exclusive
<1>1. Live(q) /\ Live(r)
  BY TurnOfIs DEF TurnFrom, Live
<1>2. /\ Session(q) \in active[SessionOf[q]] /\ Session(r) \in active[SessionOf[q]]
      /\ SessionOf[q] \in Sessions
  BY <1>1, LiveHolds, RunFacts
<1>3. IsFiniteSet(active[SessionOf[q]]) /\ Cardinality(active[SessionOf[q]]) <= 1
  <2>1. /\ active[SessionOf[q]] \in SUBSET ({"session", "global"} \X Runs)
        /\ IsFiniteSet({"session", "global"} \X Runs)
    BY <1>2, QueueAssumptions DEF IInv, CQP!IInv, CQP!TypeOK, CQP!EntriesAssumption,
       IsFiniteSet, CQP!IsFiniteSet
  <2>. QED
    BY <1>2, <2>1, FS_Subset DEF IInv, OneSlot
<1>4. Session(q) = Session(r)
  <2>. DEFINE two == {Session(q), Session(r)}
  <2>1. two \subseteq active[SessionOf[q]]
    BY <1>2
  <2>2. Cardinality(two) <= 1
    BY <1>3, <2>1, FS_Subset, FS_CardinalityType
  <2>3. IsFiniteSet({Session(q)}) /\ Cardinality({Session(q)}) = 1
    BY FS_Singleton
  <2>4. two = {Session(q)} \cup {Session(r)}
    OBVIOUS
  <2>5. Session(r) \notin {Session(q)} => Cardinality(two) = 2
    <3>1. Session(r) \notin {Session(q)} =>
              Cardinality({Session(q)} \cup {Session(r)}) = Cardinality({Session(q)}) + 1
      BY <2>3, FS_AddElement, Zenon
    <3>. QED
      BY <2>3, <2>4, <3>1
  <2>. QED
    BY <2>2, <2>5
<1>. QED
  BY <1>4 DEF Session

-----------------------------------------------------------------------------
(* Every action is such a step, by what CommandQueue_proofs says of the     *)
(* operation it takes.                                                      *)

\* Where the other entries than x move on, the runs without x are carried.
LEMMA OthersCarried ==
    ASSUME NEW x, \A y \in ({"session", "global"} \X Runs) \ {x} : CQP!Moved(entry, y)
    PROVE  \A r \in Runs :
              /\ x # Session(r) => CQP!Moved(entry, Session(r))
              /\ x # Global(r) => CQP!Moved(entry, Global(r))
  BY DEF Session, Global

LEMMA Distinctness ==
    ASSUME NEW q, NEW r
    PROVE  /\ Session(q) # Global(r)
           /\ Session(q) = Session(r) => q = r
           /\ Global(q) = Global(r) => q = r
  BY DEF Session, Global

\* The limits, the generations and the waiters of an operation that keeps them.
LEMMA KeptStep ==
    ASSUME IInv
    PROVE  /\ UNCHANGED generation =>
                 \A l \in Sessions \cup GlobalLanes : generation'[l] >= generation[l]
           /\ UNCHANGED maxConcurrent => \A s \in Sessions : maxConcurrent'[s] = maxConcurrent[s]
           /\ UNCHANGED waiter => WaitersStep
           /\ CQP!Woken => WaitersStep
<1>1. \A l \in Sessions \cup GlobalLanes : generation[l] \in Nat
  BY DEF IInv, CQP!IInv, CQP!TypeOK
<1>2. CQP!Woken => WaitersStep
  BY DEF CQP!Woken, WaitersStep
<1>3. UNCHANGED waiter => WaitersStep
  BY DEF WaitersStep
<1>. QED
  BY <1>1, <1>2, <1>3

\* The queue is left alone.
LEMMA StillStep ==
    ASSUME IInv, UNCHANGED queueVars
    PROVE  LanesStep /\ WaitersStep /\ UNCHANGED gatewayDraining
<1>1. UNCHANGED <<entry, generation, maxConcurrent, waiter, gatewayDraining>>
  BY DEF queueVars
<1>2. \A r \in Runs : Carried(r)
  BY <1>1 DEF Carried, CQP!Moved
<1>. QED
  BY <1>1, <1>2, KeptStep DEF LanesStep, RunStep

\* A submission, refused or accepted, at most starts the other entries.
LEMMA RefusedStep ==
    ASSUME IInv, NEW x \in {"session", "global"} \X Runs, CQ!EnqueueRefused(x)
    PROVE  /\ Offered(x)
           /\ entry'[x].promise = "refused"
           /\ \A y \in ({"session", "global"} \X Runs) \ {x} : CQP!Moved(entry, y)
           /\ UNCHANGED <<generation, maxConcurrent, waiter, gatewayDraining>>
<1>1. /\ entry[x].promise = "unsubmitted" /\ entry' = [entry EXCEPT ![x].promise = "refused"]
      /\ UNCHANGED <<generation, maxConcurrent, waiter, gatewayDraining>>
  BY DEF CQ!EnqueueRefused, CQ!laneVars
<1>2. /\ entry \in [{"session", "global"} \X Runs -> CQP!Entry]
      /\ entry[x].body = "none"
  BY <1>1 DEF IInv, CQP!IInv, CQP!TypeOK, CQP!UnsubmittedIdle
<1>3. entry'[x].promise = "refused" /\ entry'[x].body = "none"
  BY <1>1, <1>2 DEF CQP!Entry
<1>4. \A y \in ({"session", "global"} \X Runs) \ {x} : entry'[y] = entry[y]
  BY <1>1, <1>2
<1>. QED
  BY <1>1, <1>2, <1>3, <1>4 DEF Offered, CQP!Moved

LEMMA AcceptedStep ==
    ASSUME IInv, NEW x \in {"session", "global"} \X Runs, NEW l \in Sessions \cup GlobalLanes,
           NEW p \in {PriorityOf[r] : r \in Runs}, NEW timed \in BOOLEAN,
           CQ!Enqueue(x, l, p, timed)
    PROVE  /\ Offered(x)
           /\ entry'[x].lane = l
           /\ \A y \in ({"session", "global"} \X Runs) \ {x} : CQP!Moved(entry, y)
           /\ UNCHANGED <<generation, maxConcurrent, waiter, gatewayDraining>>
<1>1. CQP!Enqueue(x, l, p, timed)
  BY SameActions
<1>2. /\ entry[x].promise = "unsubmitted" /\ entry[x].body = "none" /\ ~gatewayDraining
      /\ entry'[x].promise = "pending" /\ entry'[x].lane = l /\ entry'[x].timed = timed
      /\ \/ entry'[x].body = "none"
         \/ entry'[x].body = "executing" /\ entry'[x].generation = generation'[l]
      /\ \A y \in ({"session", "global"} \X Runs) \ {x} : CQP!Moved(entry, y)
      /\ UNCHANGED <<gatewayDraining, maxConcurrent, generation, waiter>>
  BY <1>1, QueueAssumptions, CQP!EnqueueMoves DEF IInv
<1>. QED
  BY <1>2 DEF Offered

LEMMA SubmitStep ==
    ASSUME IInv, NEW r \in Runs, Submit(r)
    PROVE  OrdinaryStep
<1>1. /\ Session(r) \in {"session", "global"} \X Runs
      /\ SessionOf[r] \in Sessions \cup GlobalLanes /\ FALSE \in BOOLEAN
      /\ PriorityOf[r] \in {PriorityOf[q] : q \in Runs}
  BY RunFacts
<1>2. /\ CQ!Enqueue(Session(r), SessionOf[r], PriorityOf[r], FALSE)
         \/ CQ!EnqueueRefused(Session(r))
      /\ restart' = restart
  BY DEF Submit
<1>3. /\ Offered(Session(r))
      /\ entry'[Session(r)].promise = "pending" => entry'[Session(r)].lane = SessionOf[r]
      /\ \A y \in ({"session", "global"} \X Runs) \ {Session(r)} : CQP!Moved(entry, y)
      /\ UNCHANGED <<generation, maxConcurrent, waiter, gatewayDraining>>
  BY <1>1, <1>2, AcceptedStep, RefusedStep
<1>4. \A q \in Runs : RunStep(q)
  BY <1>3, OthersCarried, Distinctness DEF RunStep, Submitted, Carried
<1>. QED
  BY <1>2, <1>3, <1>4, KeptStep DEF OrdinaryStep, LanesStep

LEMMA ForwardStep ==
    ASSUME IInv, NEW r \in Runs, Forward(r)
    PROVE  OrdinaryStep
<1>1. /\ Global(r) \in {"session", "global"} \X Runs
      /\ LaneOf[r] \in Sessions \cup GlobalLanes /\ (r \in TimedRuns) \in BOOLEAN
      /\ PriorityOf[r] \in {PriorityOf[q] : q \in Runs}
  BY RunFacts, RunsAssumption
<1>2. /\ CQ!Enqueue(Global(r), LaneOf[r], PriorityOf[r], r \in TimedRuns)
         \/ CQ!EnqueueRefused(Global(r))
      /\ SessionBody(r) = "executing" /\ restart' = restart
  BY DEF Forward
<1>3. /\ Offered(Global(r))
      /\ entry'[Global(r)].promise = "pending" => entry'[Global(r)].lane = LaneOf[r]
      /\ \A y \in ({"session", "global"} \X Runs) \ {Global(r)} : CQP!Moved(entry, y)
      /\ UNCHANGED <<generation, maxConcurrent, waiter, gatewayDraining>>
  <2>1. CASE CQ!EnqueueRefused(Global(r))
    BY <1>1, <2>1, RefusedStep
  <2>2. CASE CQ!Enqueue(Global(r), LaneOf[r], PriorityOf[r], r \in TimedRuns)
    <3>1. PICK timed \in BOOLEAN : CQ!Enqueue(Global(r), LaneOf[r], PriorityOf[r], timed)
      <4>. WITNESS (r \in TimedRuns) \in BOOLEAN
      <4>. QED
        BY <2>2
    <3>. QED
      BY <1>1, <3>1, AcceptedStep
  <2>. QED
    BY <1>2, <2>1, <2>2
<1>4. \A q \in Runs : RunStep(q)
  BY <1>2, <1>3, OthersCarried, Distinctness DEF RunStep, Forwarding, Carried
<1>. QED
  BY <1>2, <1>3, <1>4, KeptStep DEF OrdinaryStep, LanesStep

\* A body settles or its timer fires.
LEMMA SettlesStep ==
    ASSUME IInv, NEW x \in {"session", "global"} \X Runs,
           CQ!TaskSettles(x) \/ CQ!TaskTimesOut(x)
    PROVE  /\ IF CQ!TaskSettles(x) THEN Ended(x, "settled", "finished")
                                   ELSE Ended(x, "timedOut", "executing")
           /\ \A y \in ({"session", "global"} \X Runs) \ {x} : CQP!Moved(entry, y)
           /\ UNCHANGED <<generation, maxConcurrent, gatewayDraining>>
           /\ WaitersStep
<1>1. entry[x].promise = "pending" /\ entry[x].body # "none"
  BY DEF CQ!TaskSettles, CQ!TaskTimesOut, CQ!Running, CQ!HasRun
<1>2. CASE CQ!TaskSettles(x)
  <2>1. CQP!Running(x) /\ CQP!EndRun(x, "settled", "finished")
    BY <1>2, SameActions DEF CQP!TaskSettles
  <2>2. "settled" \in CQP!Outcomes /\ "finished" \in {"executing", "finished"}
    BY DEF CQP!Outcomes
  <2>3. /\ entry'[x].promise = "settled" /\ entry'[x].body = "finished"
        /\ \A y \in ({"session", "global"} \X Runs) \ {x} : CQP!Moved(entry, y)
        /\ UNCHANGED <<gatewayDraining, maxConcurrent, generation>>
        /\ CQP!Woken
    BY <2>1, <2>2, QueueAssumptions, CQP!EndRunMoves DEF IInv
  <2>. QED
    BY <1>1, <1>2, <2>3, KeptStep DEF Ended
<1>3. CASE ~CQ!TaskSettles(x)
  <2>1. CQP!Running(x) /\ CQP!EndRun(x, "timedOut", "executing")
    BY <1>3, SameActions DEF CQP!TaskTimesOut
  <2>2. "timedOut" \in CQP!Outcomes /\ "executing" \in {"executing", "finished"}
    BY DEF CQP!Outcomes
  <2>3. /\ entry'[x].promise = "timedOut" /\ entry'[x].body = "executing"
        /\ \A y \in ({"session", "global"} \X Runs) \ {x} : CQP!Moved(entry, y)
        /\ UNCHANGED <<gatewayDraining, maxConcurrent, generation>>
        /\ CQP!Woken
    BY <2>1, <2>2, QueueAssumptions, CQP!EndRunMoves DEF IInv
  <2>. QED
    BY <1>1, <1>3, <2>3, KeptStep DEF Ended
<1>. QED
  BY <1>2, <1>3

LEMMA SessionSettlesStep ==
    ASSUME IInv, NEW r \in Runs, SessionSettles(r)
    PROVE  OrdinaryStep
<1>1. /\ Forwarded(r) => entry[Global(r)].promise \in CQP!Outcomes
      /\ CQ!TaskSettles(Session(r)) /\ restart' = restart
  BY DEF SessionSettles, CQ!Settled, CQ!Outcomes, CQP!Outcomes
<1>2. /\ Ended(Session(r), "settled", "finished")
      /\ \A y \in ({"session", "global"} \X Runs) \ {Session(r)} : CQP!Moved(entry, y)
      /\ UNCHANGED <<generation, maxConcurrent, gatewayDraining>> /\ WaitersStep
  BY <1>1, RunFacts, SettlesStep
<1>3. \A q \in Runs : RunStep(q)
  BY <1>1, <1>2, OthersCarried, Distinctness DEF RunStep, SessionEnds, Carried
<1>. QED
  BY <1>1, <1>2, <1>3, KeptStep DEF OrdinaryStep, LanesStep

LEMMA RunEndsStep ==
    ASSUME IInv, NEW r \in Runs,
           CQ!TaskSettles(Global(r)) \/ CQ!TaskTimesOut(Global(r)), restart' = restart
    PROVE  OrdinaryStep
<1>1. /\ \/ Ended(Global(r), "settled", "finished")
         \/ Ended(Global(r), "timedOut", "executing")
      /\ \A y \in ({"session", "global"} \X Runs) \ {Global(r)} : CQP!Moved(entry, y)
      /\ UNCHANGED <<generation, maxConcurrent, gatewayDraining>> /\ WaitersStep
  BY RunFacts, SettlesStep
<1>2. \A q \in Runs : RunStep(q)
  BY <1>1, OthersCarried, Distinctness DEF RunStep, RunEnds, Carried
<1>. QED
  BY <1>1, <1>2, KeptStep DEF OrdinaryStep, LanesStep

LEMMA LateEndsStep ==
    ASSUME IInv, NEW r \in Runs, CQ!LateSettle(Global(r)), restart' = restart
    PROVE  OrdinaryStep
<1>1. /\ entry[Global(r)].promise = "timedOut"
      /\ entry' = [entry EXCEPT ![Global(r)].body = "finished"]
      /\ UNCHANGED <<generation, maxConcurrent, waiter, gatewayDraining>>
  BY DEF CQ!LateSettle, CQ!laneVars
<1>2. entry \in [{"session", "global"} \X Runs -> CQP!Entry]
  BY DEF IInv, CQP!IInv, CQP!TypeOK
<1>3. entry'[Global(r)].promise = "timedOut" /\ entry'[Global(r)].body = "finished"
  BY <1>1, <1>2, RunFacts DEF CQP!Entry
<1>4. \A y \in ({"session", "global"} \X Runs) \ {Global(r)} : CQP!Moved(entry, y)
  BY <1>1, <1>2 DEF CQP!Moved
<1>5. \A q \in Runs : RunStep(q)
  BY <1>1, <1>3, <1>4, OthersCarried, Distinctness DEF RunStep, LateEnds, Carried
<1>. QED
  BY <1>1, <1>5, KeptStep DEF OrdinaryStep, LanesStep

\* Limits change in global lanes only.
LEMMA LimitStep ==
    ASSUME IInv, NEW l \in GlobalLanes, NEW n \in Limits, SetConcurrency(l, n)
    PROVE  OrdinaryStep
<1>1. CQP!SetConcurrency(l, n) /\ restart' = restart
  BY SameActions DEF SetConcurrency
<1>2. l \in Sessions \cup GlobalLanes
  OBVIOUS
<1>3. /\ \A y \in {"session", "global"} \X Runs : CQP!Moved(entry, y)
      /\ \A k \in (Sessions \cup GlobalLanes) \ {l} : maxConcurrent'[k] = maxConcurrent[k]
      /\ UNCHANGED <<gatewayDraining, generation, waiter>>
  BY <1>1, <1>2, QueueAssumptions, CQP!SetConcurrencyMoves DEF IInv
<1>4. \A s \in Sessions : maxConcurrent'[s] = maxConcurrent[s]
  BY <1>3, SessionsAssumption
<1>5. \A q \in Runs : RunStep(q)
  BY <1>3, RunFacts DEF RunStep, Carried
<1>. QED
  BY <1>1, <1>3, <1>4, <1>5, KeptStep DEF OrdinaryStep, LanesStep

\* Only entries in its lane are cleared, and a run waits there before it forwards.
LEMMA InterruptStep ==
    ASSUME IInv, NEW s \in Sessions, Interrupt(s)
    PROVE  OrdinaryStep
<1>1. (CQP!ClearLane(s) \/ UNCHANGED queueVars) /\ restart' = restart
  BY SameActions DEF Interrupt
<1>2. CASE UNCHANGED queueVars
  BY <1>1, <1>2, StillStep DEF OrdinaryStep
<1>3. CASE CQP!ClearLane(s)
  <2>1. s \in Sessions \cup GlobalLanes
    OBVIOUS
  <2>2. /\ \A y \in {"session", "global"} \X Runs :
              \/ CQP!Moved(entry, y)
              \/ /\ CQP!Waits(entry, s, y)
                 /\ entry'[y].promise = "cleared" /\ entry'[y].body = "none"
        /\ UNCHANGED <<gatewayDraining, maxConcurrent, generation, waiter>>
    BY <1>3, <2>1, QueueAssumptions, CQP!ClearLaneMoves DEF IInv
  <2>3. ASSUME NEW r \in Runs PROVE CQP!Moved(entry, Global(r))
    <3>1. LaneOf[r] \in GlobalLanes
      BY RunsAssumption
    <3>2. entry[Global(r)].promise = "pending" => entry[Global(r)].lane # s
      BY <3>1, RunFacts, SessionsAssumption DEF LinkedEntries
    <3>. QED
      BY <2>2, <3>2, RunFacts DEF CQP!Waits
  <2>4. \A r \in Runs : RunStep(r)
    BY <2>2, <2>3, RunFacts DEF RunStep, Carried, Cleared, CQP!Waits, SessionBody
  <2>. QED
    BY <1>1, <2>2, <2>4, KeptStep DEF OrdinaryStep, LanesStep
<1>. QED
  BY <1>1, <1>2, <1>3

\* A reset makes the live runs of its lanes abandoned, and starts what waits.
LEMMA ResetStep ==
    ASSUME IInv, NEW ls \in SUBSET (Sessions \cup GlobalLanes), CQP!Reset(ls)
    PROVE  LanesStep /\ WaitersStep
<1>1. /\ \A y \in {"session", "global"} \X Runs : CQP!Moved(entry, y)
      /\ \A l \in Sessions \cup GlobalLanes : generation'[l] >= generation[l]
      /\ UNCHANGED maxConcurrent /\ CQP!Woken
  BY QueueAssumptions, CQP!ResetMoves DEF IInv
<1>2. \A q \in Runs : RunStep(q)
  BY <1>1, RunFacts DEF RunStep, Carried
<1>. QED
  BY <1>1, <1>2, KeptStep DEF LanesStep

LEMMA ResetLaneStep ==
    ASSUME IInv, NEW s \in Sessions, CQ!ResetLane(s), restart' = restart
    PROVE  OrdinaryStep
<1>1. CQP!Reset({s}) /\ UNCHANGED gatewayDraining
  BY SameActions DEF CQP!ResetLane
<1>2. {s} \in SUBSET (Sessions \cup GlobalLanes)
  OBVIOUS
<1>. QED
  BY <1>1, <1>2, ResetStep DEF OrdinaryStep

LEMMA GivesUpStep ==
    ASSUME IInv, NEW w \in Restarts, WaitTimesOut(w)
    PROVE  OrdinaryStep
<1>1. /\ waiter' = [waiter EXCEPT ![w].state = "gaveUp"] /\ restart' = restart
      /\ UNCHANGED <<gatewayDraining, maxConcurrent, generation, entry>>
  BY DEF WaitTimesOut, CQ!WaiterGivesUp, CQ!laneVars
<1>2. waiter \in [Restarts -> CQP!Waiter]
  BY DEF IInv, CQP!IInv, CQP!TypeOK
<1>3. WaitersStep
  BY <1>1, <1>2 DEF WaitersStep, CQP!Waiter
<1>4. \A q \in Runs : RunStep(q)
  BY <1>1 DEF RunStep, Carried, CQP!Moved
<1>. QED
  BY <1>1, <1>3, <1>4, KeptStep DEF OrdinaryStep, LanesStep

-----------------------------------------------------------------------------
(* The restart.                                                             *)

\* A waiter that is woken leaves no live run behind: a live run's session entry
\* has held its slot for as long as the waiter has watched it.
LEMMA QuietStays ==
    ASSUME IInv, OrdinaryStep, CQP!IInv', Linked'
    PROVE  Quiet'
<1>. DEFINE w == restart.waiter
<1>1. /\ Quiet /\ LanesStep /\ WaitersStep
      /\ gatewayDraining' = gatewayDraining /\ restart' = restart
  BY DEF IInv, OrdinaryStep
<1>2. ASSUME restart.phase # "none", NEW r \in Runs, Live(r)' PROVE Live(r)
  <2>1. generation' \in [Sessions \cup GlobalLanes -> Nat]
    BY DEF CQP!IInv, CQP!TypeOK
  <2>2. gatewayDraining
    BY <1>1, <1>2 DEF Quiet
  <2>. QED
    BY <1>1, <1>2, <2>1, <2>2, NoneBecomesLive DEF LanesStep
<1>3. ASSUME restart.phase = "waiting" PROVE
          /\ w \in Restarts
          /\ waiter'[w].state = "waiting" =>
                \A r \in Runs : Live(r)' => Session(r) \in waiter'[w].tasks
          /\ waiter'[w].state = "drained" => \A r \in Runs : ~Live(r)'
  <2>1. /\ w \in Restarts
        /\ waiter[w].state = "waiting" =>
              \A r \in Runs : Live(r) => Session(r) \in waiter[w].tasks
        /\ waiter[w].state = "drained" => \A r \in Runs : ~Live(r)
    BY <1>1, <1>3 DEF Quiet
  <2>2. CASE waiter'[w] = waiter[w]
    BY <1>2, <1>3, <2>1, <2>2
  <2>3. CASE waiter'[w].state = "gaveUp"
    BY <2>1, <2>3
  <2>4. CASE /\ waiter[w].state = "waiting" /\ waiter'[w].state = "drained"
             /\ \A l \in Sessions \cup GlobalLanes : \A x \in waiter[w].tasks \cap active'[l] :
                   entry[x].body = "none"
    <3>. SUFFICES ASSUME NEW r \in Runs, Live(r)' PROVE FALSE
      BY <2>1, <2>4
    <3>1. Live(r) /\ SessionBody(r) = "executing" /\ Session(r) \in waiter[w].tasks
      BY <1>2, <1>3, <2>1, <2>4, LiveHolds
    <3>2. Session(r) \in active'[SessionOf[r]]
      <4>1. /\ entry'[Global(r)].promise = "pending"
            /\ entry'[Session(r)].generation = generation'[entry'[Session(r)].lane]
        BY DEF Live, CQ!Current
      <4>2. LinkedEntries(entry'[Session(r)], entry'[Global(r)], SessionOf[r], LaneOf[r])
        BY DEF Linked
      <4>3. CQP!Owned(active', entry', generation')
        BY DEF CQP!IInv, CQP!Owned, CQP!Holder
      <4>. QED
        BY <4>1, <4>2, <4>3, RunFacts DEF LinkedEntries, CQP!Owned, CQP!Holder
    <3>. QED
      BY <2>4, <3>1, <3>2, RunFacts DEF SessionBody
  <2>. QED
    BY <1>1, <2>1, <2>2, <2>3, <2>4 DEF WaitersStep
<1>4. restart.phase # "none" => gatewayDraining
  BY <1>1 DEF Quiet
<1>5. restart.phase = "drained" => \A r \in Runs : ~Live(r)'
  BY <1>1, <1>2 DEF Quiet
<1>. QED
  BY <1>1, <1>3, <1>4, <1>5 DEF Quiet

\* The restart's own actions.
LEMMA RestartStep ==
    ASSUME IInv,
           \/ BeginRestart \/ RunsDrain \/ RunsTimeOut
           \/ DrainEnds \/ DrainTimesOut \/ NextIteration
           \/ \E w \in Restarts : WaitForDrain(w)
    PROVE  LanesStep /\ Quiet'
<1>1. CASE BeginRestart
  <2>1. /\ gatewayDraining' = TRUE /\ restart'.phase = "marked"
        /\ UNCHANGED <<entry, generation, maxConcurrent>>
    BY <1>1 DEF BeginRestart, CQ!MarkGatewayDraining, CQ!laneVars, NoRestart
  <2>2. \A q \in Runs : RunStep(q)
    BY <2>1 DEF RunStep, Carried, CQP!Moved
  <2>. QED
    BY <2>1, <2>2, KeptStep DEF LanesStep, Quiet
<1>2. CASE DrainEnds
  <2>1. /\ restart.phase = "waiting" /\ waiter[restart.waiter].state = "drained"
        /\ restart' = [restart EXCEPT !.phase = "drained"] /\ UNCHANGED queueVars
    BY <1>2 DEF DrainEnds
  <2>2. UNCHANGED <<gatewayDraining, entry, generation>>
    BY <2>1 DEF queueVars
  <2>3. restart'.phase = "drained"
    BY <2>1 DEF IInv, OwnTypes
  <2>4. gatewayDraining /\ \A r \in Runs : ~Live(r)
    BY <2>1 DEF IInv, Quiet
  <2>5. \A r \in Runs : Live(r)' => Live(r)
    BY <2>2 DEF Live, CQ!Current
  <2>. QED
    BY <2>1, <2>2, <2>3, <2>4, <2>5, StillStep DEF Quiet
<1>3. CASE DrainTimesOut
  <2>1. /\ restart.phase # "none" /\ restart' = [restart EXCEPT !.phase = "timedOut"]
        /\ UNCHANGED queueVars
    BY <1>3 DEF DrainTimesOut
  <2>2. gatewayDraining' /\ restart'.phase = "timedOut"
    BY <2>1 DEF IInv, OwnTypes, Quiet, queueVars
  <2>. QED
    BY <2>1, <2>2, StillStep DEF Quiet
<1>4. CASE NextIteration
  <2>1. CQP!Reset(Sessions \cup GlobalLanes) /\ restart'.phase = "none"
    BY <1>4, SameActions DEF NextIteration, CQP!ResetAllLanes, NoRestart
  <2>2. (Sessions \cup GlobalLanes) \in SUBSET (Sessions \cup GlobalLanes)
    OBVIOUS
  <2>. QED
    BY <2>1, <2>2, ResetStep DEF Quiet
<1>5. ASSUME NEW w \in Restarts, WaitForDrain(w) PROVE LanesStep /\ Quiet'
  <2>. DEFINE tasks == UNION {active[l] : l \in Sessions \cup GlobalLanes}
              state == CASE tasks = {} -> "drained"
                         [] tasks # {} /\ "some" = "zero" -> "gaveUp"
                         [] OTHER -> "waiting"
  <2>1. /\ restart.phase = "marked"
        /\ restart' = [phase |-> "waiting", runs |-> RegisteredRuns # {}, waiter |-> w]
        /\ waiter' = [waiter EXCEPT ![w] =
                        [state |-> state, tasks |-> tasks, timed |-> "some" = "some"]]
        /\ UNCHANGED <<gatewayDraining, entry, generation, maxConcurrent>>
    BY <1>5 DEF WaitForDrain, CQ!WaitForActiveTasks, CQ!laneVars
  <2>2. waiter \in [Restarts -> CQP!Waiter]
    BY DEF IInv, CQP!IInv, CQP!TypeOK
  <2>3. waiter'[w].state = state /\ waiter'[w].tasks = tasks
    BY <2>1, <2>2
  <2>4. \A r \in Runs : Live(r)' => Live(r)
    BY <2>1 DEF Live, CQ!Current
  <2>5. \A r \in Runs : Live(r) => Session(r) \in tasks
    BY LiveHolds, RunFacts
  <2>6. state = "drained" => tasks = {}
    OBVIOUS
  <2>7. gatewayDraining
    BY <2>1 DEF IInv, Quiet
  <2>8. restart'.phase = "waiting" /\ restart'.waiter = w
    BY <2>1
  <2>. HIDE DEF tasks, state
  <2>9. Quiet'
    BY <2>1, <2>3, <2>4, <2>5, <2>6, <2>7, <2>8 DEF Quiet
  <2>10. \A q \in Runs : RunStep(q)
    BY <2>1 DEF RunStep, Carried, CQP!Moved
  <2>. QED
    BY <2>1, <2>9, <2>10, KeptStep DEF LanesStep
<1>6. CASE RunsDrain
  <2>1. /\ restart.phase = "waiting" /\ restart' = [restart EXCEPT !.runs = FALSE]
        /\ UNCHANGED <<gatewayDraining, entry, generation, waiter>> /\ UNCHANGED queueVars
    BY <1>6 DEF RunsDrain, queueVars
  <2>2. restart'.phase = restart.phase /\ restart'.waiter = restart.waiter
    BY <2>1 DEF IInv, OwnTypes
  <2>3. \A r \in Runs : Live(r)' <=> Live(r)
    BY <2>1 DEF Live, CQ!Current
  <2>. QED
    BY <2>1, <2>2, <2>3, StillStep DEF IInv, Quiet
<1>7. CASE RunsTimeOut
  <2>1. /\ restart.phase # "none" /\ restart' = [restart EXCEPT !.phase = "overdue"]
        /\ UNCHANGED queueVars
    BY <1>7 DEF RunsTimeOut
  <2>2. gatewayDraining' /\ restart'.phase = "overdue"
    BY <2>1 DEF IInv, OwnTypes, Quiet, queueVars
  <2>. QED
    BY <2>1, <2>2, StillStep DEF Quiet
<1>. QED
  BY <1>1, <1>2, <1>3, <1>4, <1>5, <1>6, <1>7

-----------------------------------------------------------------------------
(* All actions.                                                             *)

\* An action takes a step of the queue, or leaves it alone.
LEMMA QueueStep == Next => CQ!Next \/ UNCHANGED queueVars
<1>. SUFFICES ASSUME Next PROVE CQ!Next \/ UNCHANGED queueVars
  OBVIOUS
<1>1. ASSUME NEW r \in Runs, Submit(r) \/ Forward(r) \/ SessionSettles(r)
                             \/ RunSettles(r) \/ RunTimesOut(r)
      PROVE  CQ!Next
  <2>1. /\ Session(r) \in {"session", "global"} \X Runs
        /\ Global(r) \in {"session", "global"} \X Runs
        /\ SessionOf[r] \in Sessions \cup GlobalLanes /\ LaneOf[r] \in Sessions \cup GlobalLanes
        /\ PriorityOf[r] \in {PriorityOf[q] : q \in Runs}
    BY RunsAssumption DEF Session, Global
  <2>2. PICK timed \in BOOLEAN : timed = (r \in TimedRuns)
    <3>. WITNESS (r \in TimedRuns) \in BOOLEAN
    <3>. QED
      OBVIOUS
  <2>3. \E x \in {"session", "global"} \X Runs :
            \/ \E l \in Sessions \cup GlobalLanes, p \in {PriorityOf[q] : q \in Runs},
                  t \in BOOLEAN : CQ!Enqueue(x, l, p, t)
            \/ CQ!EnqueueRefused(x) \/ CQ!TaskSettles(x) \/ CQ!TaskTimesOut(x)
            \/ CQ!LateSettle(x)
    BY <1>1, <2>1, <2>2 DEF Submit, Forward, SessionSettles, RunSettles, RunTimesOut
  <2>. QED
    BY <2>3 DEF CQ!Next
<1>2. ASSUME NEW r \in Runs, Register(r) \/ Unregister(r) \/ Abort(r)
      PROVE  UNCHANGED queueVars
  BY <1>2 DEF Register, Unregister, Abort
<1>3. ASSUME NEW l \in GlobalLanes, NEW n \in Limits, SetConcurrency(l, n) PROVE CQ!Next
  BY <1>3 DEF SetConcurrency, CQ!Next
<1>4. ASSUME NEW s \in Sessions, Interrupt(s) PROVE CQ!Next \/ UNCHANGED queueVars
  BY <1>4 DEF Interrupt, CQ!Next
<1>5. ASSUME NEW s \in RecoverableSessions,
             \/ RecoveryAborts(s) \/ RecoveryResetsIdleLane(s)
             \/ \E drained, hasQueued \in BOOLEAN : RecoveryReleases(s, drained, hasQueued)
      PROVE  CQ!Next \/ UNCHANGED queueVars
  <2>1. s \in Sessions \cup GlobalLanes
    BY SessionsAssumption
  <2>2. CQ!ResetLane(s) \/ UNCHANGED queueVars
    BY <1>5 DEF RecoveryAborts, RecoveryResetsIdleLane, RecoveryReleases
  <2>. QED
    BY <2>1, <2>2 DEF CQ!Next
<1>6. ASSUME NEW w \in Restarts, WaitForDrain(w) \/ WaitTimesOut(w) PROVE CQ!Next
  BY <1>6 DEF WaitForDrain, WaitTimesOut, CQ!Next
<1>7. BeginRestart \/ NextIteration => CQ!Next
  BY DEF BeginRestart, NextIteration, CQ!Next
<1>8. RunsDrain \/ RunsTimeOut \/ DrainEnds \/ DrainTimesOut => UNCHANGED queueVars
  BY DEF RunsDrain, RunsTimeOut, DrainEnds, DrainTimesOut
<1>. QED
  BY <1>1, <1>2, <1>3, <1>4, <1>5, <1>6, <1>7, <1>8 DEF Next

\* Every action but the restart's own is an ordinary step.
LEMMA NextIsOrdinary ==
    ASSUME IInv, Next
    PROVE  \/ OrdinaryStep
           \/ BeginRestart \/ RunsDrain \/ RunsTimeOut
           \/ DrainEnds \/ DrainTimesOut \/ NextIteration
           \/ \E w \in Restarts : WaitForDrain(w)
<1>1. ASSUME NEW r \in Runs, Submit(r) \/ Forward(r) \/ SessionSettles(r)
      PROVE  OrdinaryStep
  BY <1>1, SubmitStep, ForwardStep, SessionSettlesStep
<1>2. ASSUME NEW r \in Runs, RunSettles(r) \/ RunTimesOut(r) PROVE OrdinaryStep
  <2>1. /\ CQ!TaskSettles(Global(r)) \/ CQ!TaskTimesOut(Global(r)) \/ CQ!LateSettle(Global(r))
        /\ restart' = restart
    BY <1>2 DEF RunSettles, RunTimesOut
  <2>. QED
    BY <2>1, RunEndsStep, LateEndsStep
<1>3. ASSUME UNCHANGED <<queueVars, restart>> PROVE OrdinaryStep
  BY <1>3, StillStep DEF OrdinaryStep
<1>4. ASSUME NEW r \in Runs, Register(r) \/ Unregister(r) \/ Abort(r) PROVE OrdinaryStep
  BY <1>3, <1>4 DEF Register, Unregister, Abort
<1>5. ASSUME NEW s \in RecoverableSessions,
             \/ RecoveryAborts(s) \/ RecoveryResetsIdleLane(s)
             \/ \E drained, hasQueued \in BOOLEAN : RecoveryReleases(s, drained, hasQueued)
      PROVE  OrdinaryStep
  <2>1. s \in Sessions /\ restart' = restart /\ (CQ!ResetLane(s) \/ UNCHANGED queueVars)
    BY <1>5, SessionsAssumption
    DEF RecoveryAborts, RecoveryResetsIdleLane, RecoveryReleases
  <2>. QED
    BY <1>3, <2>1, ResetLaneStep
<1>. QED
  BY <1>1, <1>2, <1>4, <1>5, LimitStep, InterruptStep, GivesUpStep DEF Next

\* The registry, the recoveries and the restart keep their types.
LEMMA OwnTypesStep ==
    ASSUME IInv, Next
    PROVE  OwnTypes'
<1>1. OwnTypes /\ active \in [Sessions \cup GlobalLanes -> SUBSET ({"session", "global"} \X Runs)]
  BY DEF IInv, CQP!IInv, CQP!TypeOK
<1>2. CASE UNCHANGED <<aborted, handle, recovery, restart>>
  BY <1>1, <1>2 DEF OwnTypes
<1>3. ASSUME NEW r \in Runs, Register(r) \/ Unregister(r) \/ Abort(r) PROVE OwnTypes'
  <2>1. SessionOf[r] \in Sessions
    BY RunsAssumption
  <2>2. handle' \in [Sessions -> Runs \cup {NoRun}]
    BY <1>1, <1>3, <2>1 DEF OwnTypes, Register, Unregister, Abort
  <2>3. recovery' \in [Sessions -> Recovery]
    BY <1>1, <1>3, <2>1 DEF OwnTypes, Recovery, Register, Unregister, Abort
  <2>4. aborted' \in [Runs -> BOOLEAN] /\ restart' = restart
    BY <1>1, <1>3 DEF OwnTypes, Register, Unregister, Abort
  <2>. QED
    BY <1>1, <2>2, <2>3, <2>4 DEF OwnTypes
<1>4. ASSUME NEW ss, AbortHandles(ss) PROVE aborted' \in [Runs -> BOOLEAN]
  <2>1. \A r \in Runs : (aborted[r] \/ (SessionOf[r] \in ss /\ handle[SessionOf[r]] = r)) \in BOOLEAN
    BY <1>1 DEF OwnTypes
  <2>. QED
    BY <1>4, <2>1 DEF AbortHandles
<1>5. ASSUME NEW s \in Sessions, Interrupt(s) PROVE OwnTypes'
  BY <1>1, <1>4, <1>5 DEF OwnTypes, Interrupt
<1>6. ASSUME NEW s \in Sessions, RecoveryAborts(s) PROVE OwnTypes'
  <2>1. [phase |-> "settling", preAbort |-> active[s]] \in Recovery
    BY <1>1 DEF Recovery
  <2>. QED
    BY <1>1, <1>4, <1>6, <2>1 DEF OwnTypes, RecoveryAborts
<1>7. ASSUME NEW s \in Sessions, NEW drained \in BOOLEAN, NEW hasQueued \in BOOLEAN,
             RecoveryReleases(s, drained, hasQueued)
      PROVE  OwnTypes'
  <2>1. Idle \in Recovery
    BY DEF Idle, Recovery
  <2>. QED
    BY <1>1, <1>7, <2>1 DEF OwnTypes, RecoveryReleases
<1>8. CASE BeginRestart \/ NextIteration
  <2>1. \E phase \in {"marked", "none"} :
            restart' = [phase |-> phase, runs |-> FALSE, waiter |-> NoWaiter]
    BY <1>8 DEF BeginRestart, NextIteration, NoRestart
  <2>2. UNCHANGED <<aborted, handle, recovery>>
    BY <1>8 DEF BeginRestart, NextIteration
  <2>3. restart' \in [phase : RestartPhases,
                      runs : BOOLEAN, waiter : Restarts \cup {NoWaiter}]
    BY <2>1 DEF RestartPhases
  <2>. QED
    BY <1>1, <2>2, <2>3 DEF OwnTypes
<1>9. CASE RunsDrain \/ DrainEnds
  BY <1>1, <1>9 DEF OwnTypes, RestartPhases, RunsDrain, DrainEnds
<1>10. CASE RunsTimeOut \/ DrainTimesOut
  <2>1. aborted' \in [Runs -> BOOLEAN]
    BY <1>1, <1>4, <1>10 DEF OwnTypes, RunsTimeOut, DrainTimesOut
  <2>. QED
    BY <1>1, <1>10, <2>1 DEF OwnTypes, RestartPhases, RunsTimeOut, DrainTimesOut
<1>11. ASSUME NEW w \in Restarts, WaitForDrain(w) PROVE OwnTypes'
  BY <1>1, <1>11 DEF OwnTypes, RestartPhases, WaitForDrain
<1>12. RecoverableSessions \subseteq Sessions
  BY SessionsAssumption
<1>13. Next => \/ UNCHANGED <<aborted, handle, recovery, restart>>
               \/ \E r \in Runs : Register(r) \/ Unregister(r) \/ Abort(r)
               \/ \E s \in Sessions : Interrupt(s)
               \/ \E s \in RecoverableSessions :
                     \/ RecoveryAborts(s)
                     \/ \E drained, hasQueued \in BOOLEAN : RecoveryReleases(s, drained, hasQueued)
               \/ BeginRestart \/ NextIteration
               \/ RunsDrain \/ RunsTimeOut \/ DrainEnds \/ DrainTimesOut
               \/ \E w \in Restarts : WaitForDrain(w)
  BY DEF Next, Submit, Forward, SessionSettles, RunSettles, RunTimesOut, SetConcurrency,
         RecoveryResetsIdleLane, WaitTimesOut
<1>. QED
  BY <1>2, <1>3, <1>5, <1>6, <1>7, <1>8, <1>9, <1>10, <1>11, <1>12, <1>13

\* A lane with one slot that starts no task beyond it keeps to one.
LEMMA OneSlotStep ==
    ASSUME IInv, LanesStep, CQP!IInv', CQP!StepLimit
    PROVE  OneSlot'
<1>. SUFFICES ASSUME NEW s \in Sessions
              PROVE  maxConcurrent'[s] = 1 /\ Cardinality(active'[s]) <= 1
  BY DEF OneSlot
<1>1. maxConcurrent[s] = 1 /\ Cardinality(active[s]) <= 1 /\ maxConcurrent'[s] = 1
  BY DEF IInv, OneSlot, LanesStep
<1>2. /\ s \in Sessions \cup GlobalLanes
      /\ active[s] \in SUBSET ({"session", "global"} \X Runs)
      /\ active'[s] \in SUBSET ({"session", "global"} \X Runs)
  BY DEF IInv, CQP!IInv, CQP!TypeOK
<1>3. IsFiniteSet(active[s]) /\ IsFiniteSet(active'[s])
  <2>1. IsFiniteSet({"session", "global"} \X Runs)
    BY QueueAssumptions DEF CQP!EntriesAssumption, IsFiniteSet, CQP!IsFiniteSet
  <2>. QED
    BY <1>2, <2>1, FS_Subset
<1>4. CASE active'[s] \subseteq active[s]
  BY <1>1, <1>3, <1>4, FS_Subset, FS_CardinalityType
<1>5. CASE CQP!Cardinality(active'[s]) <= maxConcurrent'[s]
  <2>1. CQP!Cardinality(active'[s]) = Cardinality(active'[s])
    BY DEF CQP!Cardinality, Cardinality, CQP!IsFiniteSet, IsFiniteSet
  <2>. QED
    BY <1>1, <1>5, <2>1
<1>. QED
  BY <1>2, <1>4, <1>5 DEF CQP!StepLimit

LEMMA InitIInv == Init => IInv
<1>. SUFFICES ASSUME Init PROVE IInv
  OBVIOUS
<1>1. CQP!Init
  BY SameState DEF Init
<1>2. CQP!IInv
  BY <1>1, QueueAssumptions, CQP!InitIInv
<1>3. OwnTypes
  BY DEF Init, OwnTypes, NoRestart, RestartPhases, Idle, Recovery
<1>4. \A r \in Runs : /\ entry[Session(r)].promise = "unsubmitted"
                      /\ entry[Session(r)].body = "none"
                      /\ entry[Global(r)].promise = "unsubmitted"
  BY <1>1 DEF CQP!Init, CQP!Unsubmitted, Session, Global
<1>5. Linked
  BY <1>4 DEF Linked, LinkedEntries
<1>6. OneSlot
  BY <1>1, FS_EmptySet DEF CQP!Init, OneSlot
<1>7. Quiet
  BY DEF Init, Quiet, NoRestart
<1>. QED
  BY <1>2, <1>3, <1>5, <1>6, <1>7 DEF IInv

LEMMA NextStep ==
    ASSUME IInv, Next
    PROVE  IInv' /\ LanesStep
<1>1. CQP!Preserved
  BY QueueStep, SameState, QueueAssumptions, CQP!NextStep, CQP!StutterStep DEF IInv
<1>2. CQP!IInv' /\ CQP!StepLimit
  BY <1>1 DEF CQP!Preserved
<1>3. LanesStep
  BY NextIsOrdinary, RestartStep DEF OrdinaryStep
<1>4. Linked'
  BY <1>3, LinkedStep DEF Linked, LanesStep
<1>5. Quiet'
  BY <1>2, <1>4, NextIsOrdinary, RestartStep, QuietStays
<1>6. OneSlot'
  BY <1>2, <1>3, OneSlotStep
<1>. QED
  BY <1>2, <1>3, <1>4, <1>5, <1>6, OwnTypesStep DEF IInv

LEMMA StutterStep ==
    ASSUME IInv, UNCHANGED vars
    PROVE  IInv'
<1>1. UNCHANGED queueVars /\ UNCHANGED <<aborted, handle, recovery, restart>>
  BY DEF vars
<1>2. CQP!Preserved
  BY <1>1, SameState, QueueAssumptions, CQP!StutterStep DEF IInv
<1>3. CQP!IInv' /\ CQP!StepLimit
  BY <1>2 DEF CQP!Preserved
<1>4. OrdinaryStep
  BY <1>1, StillStep DEF OrdinaryStep
<1>5. LanesStep /\ Linked'
  BY <1>4, LinkedStep DEF Linked, LanesStep, OrdinaryStep
<1>6. OwnTypes'
  BY <1>1 DEF IInv, OwnTypes
<1>. QED
  BY <1>3, <1>4, <1>5, <1>6, OneSlotStep, QuietStays DEF IInv

-----------------------------------------------------------------------------
(* The theorems.                                                            *)

LEMMA Inductive == Spec => []IInv
<1>1. IInv /\ [Next]_vars => IInv'
  BY NextStep, StutterStep
<1>. QED
  BY InitIInv, <1>1, PTL DEF Spec

\* Every variable keeps its type through every run, intervention and restart.
THEOREM TypeCorrect == Spec => []TypeOK
<1>1. IInv => TypeOK
  BY SameState DEF IInv, CQP!IInv, OwnTypes, TypeOK
<1>. QED
  BY Inductive, <1>1, PTL

\* Whatever run.ts, the registry, a recovery or a restart does, the command queue
\* is used as CommandQueue says, so what is proved of the queue holds of it here.
THEOREM UsesTheQueue == Spec => CQ!Spec
<1>1. Init => CQ!Init
  BY DEF Init
<1>2. [Next]_vars => [CQ!Next]_(CQ!vars)
  <2>1. UNCHANGED vars => UNCHANGED queueVars
    BY DEF vars
  <2>2. UNCHANGED queueVars => UNCHANGED CQ!vars
    BY DEF queueVars, CQ!vars, CQ!laneVars
  <2>. QED
    BY <2>1, <2>2, QueueStep
<1>. QED
  BY <1>1, <1>2, PTL DEF Spec, CQ!Spec

\* Through interrupts, recoveries, restarts and lane timeouts, a turn executes at
\* most once and no two turns of a session execute on their session's slot: the
\* nesting of a global entry in a session entry keeps what SessionTurns promises.
THEOREM TurnsAreKept == Spec => ImplementsSessionTurns
<1>. DEFINE turns == [r \in Runs |-> TurnOf(r)]
<1>1. Init => Turns!Init
  <2>. SUFFICES ASSUME Init PROVE turns = [r \in Runs |-> "new"]
    BY DEF Turns!Init
  <2>1. \A r \in Runs : entry[Session(r)].promise = "unsubmitted" /\ RunBody(r) = "none"
    BY DEF Init, CQ!Init, CQ!Unsubmitted, Session, Global, RunBody
  <2>2. ASSUME NEW r \in Runs PROVE TurnOf(r) = "new"
    BY <2>1 DEF TurnOf
  <2>. QED
    BY <2>2
<1>2. IInv => Turns!Exclusive(turns)
  BY ExclusiveTurns
<1>3. IInv /\ Next /\ Turns!Exclusive(turns)' => Turns!Next
  <2>. SUFFICES ASSUME IInv, Next, Turns!Exclusive(turns)' PROVE Turns!Next
    OBVIOUS
  <2>1. IInv' /\ LanesStep
    BY NextStep
  <2>2. generation' \in [Sessions \cup GlobalLanes -> Nat]
    BY <2>1 DEF IInv, CQP!IInv, CQP!TypeOK
  <2>3. \A r \in Runs : TurnOf(r)' = TurnOf(r) \/ <<TurnOf(r), TurnOf(r)'>> \in Turns!Moves
    BY <2>1, <2>2, TurnMoves DEF LanesStep
  <2>. QED
    BY <2>3 DEF Turns!Next, Turns!Exclusive
<1>4. UNCHANGED vars => UNCHANGED turns
  BY DEF vars, queueVars, TurnOf, RunBody, CQ!Current, CQ!Settled
<1>5. IInv /\ Turns!Exclusive(turns)' /\ [Next]_vars => [Turns!Next]_turns
  BY <1>3, <1>4
<1>. QED
  BY Inductive, <1>1, <1>2, <1>5, PTL DEF Spec, ImplementsSessionTurns, Turns!Spec

\* When a restart closes the server after a drain that ended in time, no turn
\* executes on its session's slot, whatever was submitted, reset or cleared
\* while the restart waited.
THEOREM DrainsAreQuiet == Spec => []DrainedMeansQuiet
<1>1. IInv => DrainedMeansQuiet
  <2>. SUFFICES ASSUME IInv, restart.phase = "drained", NEW r \in Runs, TurnOf(r) = "executing"
                PROVE  FALSE
    BY DEF DrainedMeansQuiet
  <2>1. Live(r)
    BY TurnOfIs DEF TurnFrom, Live
  <2>. QED
    BY <2>1 DEF IInv, Quiet
<1>. QED
  BY Inductive, <1>1, PTL
=============================================================================
