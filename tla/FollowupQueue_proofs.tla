------------------------ MODULE FollowupQueue_proofs ------------------------
(***************************************************************************)
(* A proof about FollowupQueue, for any messages, settings, numbers of      *)
(* clears and failures: queued work is not left without a drain. What a     *)
(* queue's items are does not matter to it, only whether there are any, so  *)
(* the invariant says nothing of sequences.                                 *)
(***************************************************************************)
EXTENDS FollowupQueue, FiniteSetTheorems, TLAPS

-----------------------------------------------------------------------------
(* The inductive invariant.                                                 *)

Shape ==
    /\ map \in Queues \cup {NoQueue}
    /\ DOMAIN queue = Queues /\ DOMAIN drain = Queues /\ DOMAIN inbound = Messages
    /\ \A q \in Queues : "pc" \in DOMAIN drain[q]
    /\ stale \in BOOLEAN

\* Whoever holds the slot has a turn: visible, or of a drain.
SlotHeld ==
    /\ slot \in {Free} \cup Messages \cup Queues
    /\ slot \in Messages => inbound[slot] = "turn"
    /\ slot \in Queues => drain[slot].pc = "run"

\* The objects that have a drain though the map does not point to them.
Detached == {q \in Queues : drain[q].pc # "idle" /\ q # map}

\* It takes a /stop to detach one.
DetachedByStop ==
    clears \in 0 .. MaxClears /\ Cardinality(Detached) <= clears

IInv == Shape /\ SlotHeld /\ DetachedByStop /\ NothingStranded

-----------------------------------------------------------------------------
(* Schedule and Finish.                                                     *)

\* Where queue objects and drains are kept.
Queued(qs) == DOMAIN qs = Queues
Drained(dr) == DOMAIN dr = Queues /\ \A q \in Queues : "pc" \in DOMAIN dr[q]

\* Where a drain record is idle and where it is not.
LEMMA DrainRecords ==
    /\ "pc" \in DOMAIN Idle /\ Idle.pc = "idle"
    /\ "pc" \in DOMAIN Begun /\ Begun.pc = "loop"
BY DEF Idle, Begun, NoSummary

\* After scheduling, the object in the map has a drain; no other drain changes.
LEMMA ScheduleFacts ==
    ASSUME NEW mp \in Queues \cup {NoQueue}, NEW qs, Queued(qs), NEW dr, Drained(dr),
           Schedule(mp, qs, dr)
    PROVE  /\ map' = NoQueue \/ (map' = mp /\ drain'[mp].pc # "idle")
           /\ Queued(queue') /\ Drained(drain')
           /\ \A q \in Queues : q # mp \/ dr[q].pc # "idle" => drain'[q] = dr[q]
           /\ \A q \in Queues : q # mp => drain'[q] = dr[q]
           /\ map' = NoQueue => drain' = dr /\ (mp = NoQueue \/ dr[mp].pc = "idle")
<1>. DEFINE idle == mp # NoQueue /\ dr[mp].pc = "idle"
            work == idle /\ Pending(qs[mp])
<1>1. /\ map' = (IF idle /\ ~work THEN NoQueue ELSE mp)
      /\ queue' = (IF idle /\ ~work THEN [qs EXCEPT ![mp] = Created] ELSE qs)
      /\ drain' = (IF work THEN [dr EXCEPT ![mp] = Begun] ELSE dr)
  BY DEF Schedule
<1>2. NoQueue \notin Queues
  BY QueuesAssumption
<1>3. CASE work
  <2>1. map' = mp /\ mp \in Queues /\ queue' = qs /\ drain' = [dr EXCEPT ![mp] = Begun]
    BY <1>1, <1>3
  <2>2. drain'[mp] = Begun /\ DOMAIN drain' = Queues /\ \A q \in Queues \ {mp} : drain'[q] = dr[q]
    BY <2>1 DEF Drained
  <2>. QED
    BY <1>2, <1>3, <2>1, <2>2, DrainRecords DEF Queued, Drained
<1>4. CASE idle /\ ~work
  <2>1. map' = NoQueue /\ queue' = [qs EXCEPT ![mp] = Created] /\ drain' = dr
    BY <1>1, <1>4
  <2>. QED
    BY <1>4, <2>1 DEF Queued
<1>5. CASE ~idle
  <2>1. map' = mp /\ queue' = qs /\ drain' = dr
    BY <1>1, <1>5
  <2>. QED
    BY <1>5, <2>1
<1>. QED
  BY <1>3, <1>4, <1>5

\* The drain of q ends, with the objects qs, of which only q's is different.
LEMMA FinishFacts ==
    ASSUME Shape, NEW q \in Queues, NEW qs, Queued(qs),
           \A p \in Queues \ {q} : qs[p] = queue[p],
           Finish(q, qs)
    PROVE  /\ map' = NoQueue \/ map' = map
           /\ Queued(queue') /\ Drained(drain')
           /\ \A p \in Queues : p # q /\ drain[p].pc # "idle" => drain'[p] = drain[p]
           /\ \A p \in Queues : drain'[p].pc # "idle" => p = map' \/ (p # q /\ drain[p].pc # "idle")
           /\ map' = NoQueue => map = NoQueue \/ map = q \/ drain[map].pc = "idle"
           /\ \/ map' = NoQueue
              \/ drain'[map'].pc # "idle"
              \/ map' # q /\ queue'[map'] = queue[map'] /\ drain'[map'] = drain[map']
<1>. DEFINE kept == IF Pending(qs[q]) /\ map = q THEN qs ELSE [qs EXCEPT ![q] = Created]
            ended == [drain EXCEPT ![q] = Idle]
<1>1. NoQueue \notin Queues /\ map \in Queues \cup {NoQueue}
  BY QueuesAssumption DEF Shape
<1>2. Queued(kept) /\ \A p \in Queues \ {q} : kept[p] = queue[p]
  BY DEF Queued
<1>3. Drained(ended) /\ ended[q] = Idle /\ \A p \in Queues \ {q} : ended[p] = drain[p]
  BY DrainRecords DEF Drained, Shape
<1>4. CASE Pending(qs[q])
  <2>1. Schedule(map, kept, ended)
    BY <1>4 DEF Finish
  <2>. HIDE DEF kept, ended
  <2>2. /\ map' = NoQueue \/ (map' = map /\ drain'[map].pc # "idle")
        /\ Queued(queue') /\ Drained(drain')
        /\ \A p \in Queues : p # map \/ ended[p].pc # "idle" => drain'[p] = ended[p]
        /\ \A p \in Queues : p # map => drain'[p] = ended[p]
        /\ map' = NoQueue => drain' = ended /\ (map = NoQueue \/ ended[map].pc = "idle")
    BY <1>1, <1>2, <1>3, <2>1, ScheduleFacts
  <2>. QED
    BY <1>1, <1>3, <2>2, DrainRecords
<1>5. CASE ~Pending(qs[q])
  <2>1. /\ map' = IF map = q THEN NoQueue ELSE map
        /\ queue' = kept /\ drain' = ended
    BY <1>5 DEF Finish
  <2>. HIDE DEF kept, ended
  <2>. QED
    BY <1>1, <1>2, <1>3, <2>1, DrainRecords
<1>. QED
  BY <1>4, <1>5

-----------------------------------------------------------------------------
(* Detached objects.                                                        *)

\* The sets of objects are finite.
LEMMA DetachedFinite ==
    /\ IsFiniteSet(Detached) /\ Cardinality(Detached) \in Nat
    /\ IsFiniteSet(Queues) /\ Cardinality(Queues) \in Nat
BY QueuesAssumption, FS_Subset, FS_CardinalityType DEF Detached

\* Nothing more is detached.
LEMMA DetachedKept ==
    ASSUME DetachedByStop, Detached' \subseteq Detached, clears' = clears
    PROVE  DetachedByStop'
<1>1. IsFiniteSet(Detached) /\ Cardinality(Detached) \in Nat
  BY DetachedFinite
<1>2. IsFiniteSet(Detached') /\ Cardinality(Detached') <= Cardinality(Detached)
  BY <1>1, FS_Subset
<1>3. Cardinality(Detached') \in Nat
  BY <1>2, FS_CardinalityType
<1>4. clears \in Nat
  BY BoundsAssumption DEF DetachedByStop
<1>. QED
  BY <1>1, <1>2, <1>3, <1>4 DEF DetachedByStop

\* There is an object for a new queue: that is what MaxClears bounds.
LEMMA QueueForFacts ==
    ASSUME IInv
    PROVE  /\ QueueFor \in Queues
           /\ map # NoQueue => QueueFor = map
           /\ map = NoQueue => drain[QueueFor].pc = "idle"
<1>1. CASE map # NoQueue
  BY <1>1 DEF QueueFor, IInv, Shape
<1>2. CASE map = NoQueue
  <2>1. \E q \in Queues : drain[q].pc = "idle"
    <3>. SUFFICES ASSUME \A q \in Queues : drain[q].pc # "idle"
                  PROVE  FALSE
      OBVIOUS
    <3>1. Detached = Queues
      BY <1>2, QueuesAssumption DEF Detached
    <3>2. Cardinality(Queues) <= MaxClears
      BY <3>1, BoundsAssumption, DetachedFinite DEF IInv, DetachedByStop
    <3>. QED
      BY <3>2, QueuesAssumption, BoundsAssumption, DetachedFinite
  <2>2. QueueFor = CHOOSE q \in Queues : drain[q].pc = "idle"
    BY <1>2 DEF QueueFor
  <2>. QED
    BY <1>2, <2>1, <2>2
<1>. QED
  BY <1>1, <1>2

-----------------------------------------------------------------------------
(* The steps.                                                               *)

\* A step that changes no queue object and no drain.
LEMMA TurnStep ==
    ASSUME IInv, NEW m \in Messages,
           Arrive(m) \/ Redeliver(m) \/ StartTurn(m) \/ TurnFails(m)
    PROVE  IInv'
<1>1. /\ UNCHANGED <<map, queue, drain, stale, clears>>
      /\ \E to \in {"starting", "deciding", "turn", "ending"} :
             /\ inbound' = [inbound EXCEPT ![m] = to]
             /\ inbound[m] \in {"turn", "ending"} => to = "ending"
      /\ \/ slot' = slot /\ inbound[m] # "turn"
         \/ slot' = m /\ inbound'[m] = "turn"
         \/ slot' = Free
  BY DEF Arrive, Redeliver, StartTurn, TurnFails, historyVars, counters, IInv, Shape
<1>2. /\ DOMAIN inbound' = Messages
      /\ \A k \in Messages \ {m} : inbound'[k] = inbound[k]
      /\ inbound[m] \in {"turn", "ending"} => inbound'[m] \in {"turn", "ending"}
  BY <1>1 DEF IInv, Shape
<1>3. Shape'
  BY <1>1, <1>2 DEF IInv, Shape
<1>4. SlotHeld'
  BY <1>1, <1>2, QueuesAssumption DEF IInv, SlotHeld
<1>5. DetachedByStop'
  BY <1>1, DetachedKept DEF IInv, Detached
<1>6. NothingStranded'
  BY <1>1, <1>2 DEF IInv, NothingStranded
<1>. QED
  BY <1>3, <1>4, <1>5, <1>6 DEF IInv

\* A turn that ends schedules the drain.
LEMMA TurnEndsStep ==
    ASSUME IInv, NEW m \in Messages, TurnEnds(m)
    PROVE  IInv'
<1>1. /\ inbound' = [inbound EXCEPT ![m] = "over"]
      /\ slot' = (IF slot = m THEN Free ELSE slot)
      /\ Schedule(map, queue, drain)
      /\ UNCHANGED <<stale, clears>>
  BY DEF TurnEnds, historyVars, counters
<1>2. Shape /\ NoQueue \notin Queues
  BY QueuesAssumption DEF IInv
<1>3. /\ map' = NoQueue \/ (map' = map /\ drain'[map].pc # "idle")
      /\ Queued(queue') /\ Drained(drain')
      /\ \A q \in Queues : q # map \/ drain[q].pc # "idle" => drain'[q] = drain[q]
      /\ \A q \in Queues : q # map => drain'[q] = drain[q]
      /\ map' = NoQueue => drain' = drain /\ (map = NoQueue \/ drain[map].pc = "idle")
  BY <1>1, <1>2, ScheduleFacts DEF Shape, Queued, Drained
<1>4. Shape'
  BY <1>1, <1>2, <1>3 DEF Shape, Queued, Drained
<1>5. SlotHeld'
  BY <1>1, <1>2, <1>3, QueuesAssumption DEF IInv, SlotHeld, Shape
<1>6. DetachedByStop'
  <2>1. Detached' \subseteq Detached
    BY <1>2, <1>3 DEF Detached
  <2>. QED
    BY <1>1, <2>1, DetachedKept DEF IInv
<1>7. NothingStranded'
  BY <1>3 DEF NothingStranded
<1>. QED
  BY <1>4, <1>5, <1>6, <1>7 DEF IInv

\* A message that is queued behind a turn relies on that turn.
LEMMA EnqueueStep ==
    ASSUME IInv, NEW m \in Messages, EnqueueBehind(m)
    PROVE  IInv'
<1>. DEFINE target == QueueFor
<1>1. PICK filled :
          /\ IF slot = Free
             THEN Schedule(target, [queue EXCEPT ![target] = filled], drain)
             ELSE map' = target /\ queue' = [queue EXCEPT ![target] = filled] /\ drain' = drain
          /\ stale' = (stale \/ slot \in Queues \ {target})
  BY DEF EnqueueBehind
<1>2. /\ inbound[m] = "deciding" /\ inbound' = [inbound EXCEPT ![m] = "queued"]
      /\ slot' = slot /\ clears' = clears
  BY DEF EnqueueBehind, counters
<1>3. Shape /\ SlotHeld /\ NoQueue \notin Queues /\ target \in Queues
      /\ (map # NoQueue => target = map) /\ (map = NoQueue => drain[target].pc = "idle")
  BY QueueForFacts, QueuesAssumption DEF IInv
<1>4. DOMAIN inbound' = Messages /\ \A k \in Messages \ {m} : inbound'[k] = inbound[k]
  BY <1>2, <1>3 DEF Shape
<1>. HIDE DEF target
<1>. DEFINE changed == [queue EXCEPT ![target] = filled]
<1>5. Queued(changed) /\ stale' \in BOOLEAN
  BY <1>1, <1>3 DEF Queued, Shape
<1>6. CASE slot = Free
  <2>1. Schedule(target, changed, drain)
    BY <1>1, <1>6
  <2>. HIDE DEF changed
  <2>2. /\ map' = NoQueue \/ (map' = target /\ drain'[target].pc # "idle")
        /\ Queued(queue') /\ Drained(drain')
        /\ \A q \in Queues : q # target => drain'[q] = drain[q]
        /\ map' = NoQueue => drain' = drain /\ (target = NoQueue \/ drain[target].pc = "idle")
    BY <1>3, <1>5, <2>1, ScheduleFacts DEF Shape, Drained
  <2>3. Shape'
    BY <1>3, <1>4, <1>5, <2>2 DEF Shape, Queued, Drained
  <2>4. SlotHeld'
    BY <1>2, <1>6, QueuesAssumption DEF SlotHeld
  <2>5. Detached' \subseteq Detached
    BY <1>3, <2>2 DEF Detached
  <2>6. DetachedByStop'
    BY <1>2, <2>5, DetachedKept DEF IInv
  <2>7. NothingStranded'
    BY <2>2 DEF NothingStranded
  <2>. QED
    BY <2>3, <2>4, <2>6, <2>7 DEF IInv
<1>7. CASE slot # Free
  <2>1. map' = target /\ queue' = changed /\ drain' = drain
    BY <1>1, <1>7
  <2>. HIDE DEF changed
  <2>2. Shape'
    BY <1>3, <1>4, <1>5, <2>1 DEF Shape, Queued
  <2>3. SlotHeld'
    BY <1>2, <1>3, <1>4, <2>1, QueuesAssumption DEF SlotHeld
  <2>4. Detached' \subseteq Detached
    BY <1>3, <2>1 DEF Detached
  <2>5. DetachedByStop'
    BY <1>2, <2>4, DetachedKept DEF IInv
  <2>6. NothingStranded'
    <3>1. CASE slot \in Messages
      BY <1>2, <1>3, <1>4, <3>1 DEF SlotHeld, NothingStranded
    <3>2. CASE slot = target
      BY <1>3, <2>1, <3>2 DEF SlotHeld, NothingStranded
    <3>3. CASE slot \in Queues \ {target}
      BY <1>1, <3>3 DEF NothingStranded
    <3>. QED
      BY <1>3, <1>7, <3>1, <3>2, <3>3 DEF SlotHeld
  <2>. QED
    BY <2>2, <2>3, <2>5, <2>6 DEF IInv
<1>. QED
  BY <1>6, <1>7

\* The drain of q ends, and with it its hold on the slot.
LEMMA FinishStep ==
    ASSUME IInv, NEW q \in Queues, NEW qs, Queued(qs),
           \A p \in Queues \ {q} : qs[p] = queue[p],
           Finish(q, qs),
           slot' = (IF slot = q THEN Free ELSE slot),
           UNCHANGED <<inbound, stale, clears>>
    PROVE  IInv'
<1>1. Shape /\ SlotHeld /\ NothingStranded /\ NoQueue \notin Queues
  BY QueuesAssumption DEF IInv
<1>2. /\ map' = NoQueue \/ map' = map
      /\ Queued(queue') /\ Drained(drain')
      /\ \A p \in Queues : p # q /\ drain[p].pc # "idle" => drain'[p] = drain[p]
      /\ \A p \in Queues : drain'[p].pc # "idle" => p = map' \/ (p # q /\ drain[p].pc # "idle")
      /\ map' = NoQueue => map = NoQueue \/ map = q \/ drain[map].pc = "idle"
      /\ \/ map' = NoQueue
         \/ drain'[map'].pc # "idle"
         \/ map' # q /\ queue'[map'] = queue[map'] /\ drain'[map'] = drain[map']
  BY <1>1, FinishFacts
<1>3. Shape'
  BY <1>1, <1>2 DEF Shape, Queued, Drained
<1>4. SlotHeld'
  BY <1>1, <1>2, QueuesAssumption DEF SlotHeld
<1>5. DetachedByStop'
  <2>1. Detached' \subseteq Detached
    BY <1>1, <1>2 DEF Detached
  <2>. QED
    BY <2>1, DetachedKept DEF IInv
<1>6. NothingStranded'
  BY <1>1, <1>2 DEF NothingStranded
<1>. QED
  BY <1>3, <1>4, <1>5, <1>6 DEF IInv

\* A drain goes on within its loop: nothing of q but its items can change, and
\* it stays awake.
LEMMA DrainGoesOn ==
    ASSUME IInv, NEW q \in Queues, drain[q].pc # "idle",
           Queued(queue'), Drained(drain'),
           \A p \in Queues \ {q} : queue'[p] = queue[p] /\ drain'[p] = drain[p],
           drain'[q].pc # "idle",
           slot' = Free \/ (slot' = q /\ drain'[q].pc = "run") \/ (slot' = slot /\ slot # q),
           UNCHANGED <<map, inbound, stale, clears>>
    PROVE  IInv'
<1>1. Shape'
  BY DEF IInv, Shape, Queued, Drained
<1>2. SlotHeld'
  BY QueuesAssumption DEF IInv, SlotHeld
<1>3. DetachedByStop'
  <2>1. Detached' \subseteq Detached
    BY DEF Detached
  <2>. QED
    BY <2>1, DetachedKept DEF IInv
<1>4. NothingStranded'
  BY DEF IInv, Shape, NothingStranded
<1>. QED
  BY <1>1, <1>2, <1>3, <1>4 DEF IInv

\* A pass of the loop forms turns, or ends the drain.
LEMMA DrainStepStep ==
    ASSUME IInv, NEW q \in Queues, DrainStep(q)
    PROVE  IInv'
<1>1. /\ drain[q].pc = "loop" /\ slot # q
      /\ UNCHANGED <<slot, inbound, stale, clears>>
      /\ Queued(queue) /\ Drained(drain)
  BY QueuesAssumption DEF DrainStep, historyVars, counters, IInv, SlotHeld, Shape, Queued, Drained
<1>2. CASE Finish(q, queue)
  BY <1>1, <1>2, FinishStep
<1>3. CASE ~Finish(q, queue)
  <2>. DEFINE Q == queue[q]
              individual == IF Q.mode = "collect"
                            THEN \/ IsCrossChannel(Q.items)
                                 \/ drain[q].forceIndividualCollect /\ Len(Q.items) <= 1
                            ELSE drain[q].forceIndividualCollect
              next == [pc |-> "admit", forceIndividualCollect |-> individual,
                       calls |-> NextTurns(Q, individual),
                       saved |-> [droppedCount |-> Q.droppedCount,
                                  summaryLines |-> Q.summaryLines]]
  <2>1. drain' = [drain EXCEPT ![q] = next] /\ UNCHANGED <<map, queue>>
    BY <1>3 DEF DrainStep
  <2>2. /\ Drained(drain') /\ drain'[q].pc = "admit"
        /\ \A p \in Queues \ {q} : drain'[p] = drain[p]
    BY <1>1, <2>1 DEF Drained
  <2>. QED
    BY <1>1, <2>1, <2>2, DrainGoesOn
<1>. QED
  BY <1>2, <1>3

\* A queued turn takes the slot.
LEMMA AdmitStep ==
    ASSUME IInv, NEW q \in Queues, Admit(q)
    PROVE  IInv'
<1>1. /\ drain[q].pc = "admit" /\ slot' = q /\ drain' = [drain EXCEPT ![q].pc = "run"]
      /\ UNCHANGED <<map, queue, inbound, stale, clears>>
      /\ Queued(queue) /\ Drained(drain)
  BY DEF Admit, counters, IInv, Shape, Queued, Drained
<1>2. /\ Drained(drain') /\ drain'[q].pc = "run"
      /\ \A p \in Queues \ {q} : drain'[p] = drain[p]
  BY <1>1 DEF Drained
<1>. QED
  BY <1>1, <1>2, DrainGoesOn

\* A turn is back, and the drain goes on.
LEMMA CallCompletesStep ==
    ASSUME IInv, NEW q \in Queues, CallCompletes(q)
    PROVE  IInv'
<1>1. /\ drain[q].pc = "run" /\ slot' = (IF slot = q THEN Free ELSE slot)
      /\ \E filled : queue' = [queue EXCEPT ![q] = filled]
      /\ \E calls, pc : /\ pc \in {"loop", "admit"}
                        /\ drain' = [drain EXCEPT ![q].calls = calls, ![q].pc = pc]
      /\ UNCHANGED <<map, inbound, stale, clears>>
      /\ Queued(queue) /\ Drained(drain)
  BY DEF CallCompletes, counters, IInv, Shape, Queued, Drained
<1>2. /\ Queued(queue') /\ Drained(drain') /\ drain'[q].pc # "idle"
      /\ \A p \in Queues \ {q} : queue'[p] = queue[p] /\ drain'[p] = drain[p]
  BY <1>1 DEF Queued, Drained
<1>. QED
  BY <1>1, <1>2, DrainGoesOn

\* A turn throws, and the drain ends.
LEMMA CallFailsStep ==
    ASSUME IInv, NEW q \in Queues, CallFails(q)
    PROVE  IInv'
<1>1. /\ slot' = (IF slot = q THEN Free ELSE slot) /\ Finish(q, queue)
      /\ UNCHANGED <<inbound, stale, clears>> /\ Queued(queue)
  BY DEF CallFails, historyVars, IInv, Shape, Queued
<1>. QED
  BY <1>1, FinishStep

\* A turn gets no slot in time, and the drain ends.
LEMMA CallDefersStep ==
    ASSUME IInv, NEW q \in Queues, CallDefers(q)
    PROVE  IInv'
<1>1. slot' = slot /\ slot # q /\ UNCHANGED <<inbound, stale, clears>>
  BY QueuesAssumption DEF CallDefers, historyVars, IInv, SlotHeld
<1>2. \E qs : /\ Finish(q, qs)
              /\ qs = queue \/ \E restored : qs = [queue EXCEPT ![q] = restored]
  BY DEF CallDefers
<1>3. PICK qs : /\ Finish(q, qs) /\ Queued(qs)
                /\ \A p \in Queues \ {q} : qs[p] = queue[p]
  BY <1>2 DEF IInv, Shape, Queued
<1>. QED
  BY <1>1, <1>3, FinishStep

\* /stop detaches one object at most.
LEMMA StopStep ==
    ASSUME IInv, Stop
    PROVE  IInv'
<1>1. /\ clears < MaxClears /\ clears' = clears + 1
      /\ slot' \in {slot, Free} /\ map' = NoQueue
      /\ queue' = queue \/ \E emptied : queue' = [queue EXCEPT ![map] = emptied]
      /\ UNCHANGED <<drain, inbound, stale>>
  BY DEF Stop
<1>2. Shape'
  BY <1>1 DEF IInv, Shape
<1>3. SlotHeld'
  BY <1>1, QueuesAssumption DEF IInv, SlotHeld
<1>4. DetachedByStop'
  <2>1. Detached' \subseteq Detached \cup {map}
    BY <1>1 DEF Detached
  <2>2. /\ IsFiniteSet(Detached \cup {map})
        /\ Cardinality(Detached \cup {map}) <= Cardinality(Detached) + 1
    BY DetachedFinite, FS_AddElement
  <2>3. IsFiniteSet(Detached') /\ Cardinality(Detached') <= Cardinality(Detached \cup {map})
    BY <2>1, <2>2, FS_Subset
  <2>4. /\ Cardinality(Detached') \in Nat /\ Cardinality(Detached) \in Nat
        /\ Cardinality(Detached \cup {map}) \in Nat
    BY <2>2, <2>3, DetachedFinite, FS_CardinalityType
  <2>. QED
    BY <1>1, <2>2, <2>3, <2>4, BoundsAssumption DEF IInv, DetachedByStop
<1>5. NothingStranded'
  BY <1>1 DEF NothingStranded
<1>. QED
  BY <1>2, <1>3, <1>4, <1>5 DEF IInv

-----------------------------------------------------------------------------
(* The theorem.                                                             *)

\* The initial state has no queue,
LEMMA InitEstablishes == Init => IInv
<1>. SUFFICES ASSUME Init
              PROVE  IInv
  OBVIOUS
<1>1. /\ map = NoQueue /\ slot = Free /\ stale = FALSE /\ clears = 0
      /\ DOMAIN queue = Queues /\ DOMAIN inbound = Messages
      /\ DOMAIN drain = Queues /\ \A q \in Queues : drain[q] = Idle
  BY DEF Init
<1>2. Shape /\ SlotHeld /\ NothingStranded
  BY <1>1, DrainRecords, QueuesAssumption DEF Shape, SlotHeld, NothingStranded
<1>3. Detached = {}
  BY <1>1, DrainRecords DEF Detached
<1>4. DetachedByStop
  BY <1>1, <1>3, FS_EmptySet, BoundsAssumption DEF DetachedByStop
<1>. QED
  BY <1>2, <1>4 DEF IInv

\* and every step keeps the invariant.
LEMMA NextPreserves == IInv /\ [Next]_vars => IInv'
<1>. SUFFICES ASSUME IInv, [Next]_vars
              PROVE  IInv'
  OBVIOUS
<1>1. ASSUME NEW m \in Messages,
             \/ Arrive(m) \/ Redeliver(m) \/ EnqueueBehind(m)
             \/ StartTurn(m) \/ TurnFails(m) \/ TurnEnds(m)
      PROVE  IInv'
  BY <1>1, TurnStep, TurnEndsStep, EnqueueStep
<1>2. ASSUME NEW q \in Queues,
             \/ DrainStep(q) \/ Admit(q)
             \/ CallCompletes(q) \/ CallFails(q) \/ CallDefers(q)
      PROVE  IInv'
  BY <1>2, DrainStepStep, AdmitStep, CallCompletesStep, CallFailsStep, CallDefersStep
<1>3. CASE Stop
  BY <1>3, StopStep
<1>4. CASE UNCHANGED vars
  BY <1>4 DEF vars, historyVars, counters, IInv, Shape, SlotHeld, DetachedByStop, Detached,
       NothingStranded
<1>. QED
  BY <1>1, <1>2, <1>3, <1>4 DEF Next

\* Messages that wait in the queue of a session have a drain, or a visible turn
\* that schedules one when it ends (drainQueuedFollowupsAfterClear), however
\* drains end, fail, are deferred and are detached by /stop: unless a message was
\* queued behind the turn of a detached queue object.
THEOREM QueuedWorkIsNotStranded == Spec => []NothingStranded
<1>1. IInv => NothingStranded
  BY DEF IInv
<1>. QED
  BY <1>1, InitEstablishes, NextPreserves, PTL DEF Spec
=============================================================================
