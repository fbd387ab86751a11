----------------------- MODULE OutboundDelivery_proofs -----------------------
(***************************************************************************)
(* Proofs about OutboundDelivery, for every set of messages and jobs, any  *)
(* number of payloads and retries, and any bound on crashes and faults.    *)
(***************************************************************************)
EXTENDS OutboundDelivery, TLAPS

-----------------------------------------------------------------------------
(* The inductive invariant.                                                 *)

Working == Sending \cup {"reconciling"}

\* A live send works on its own message.
OwnMessage == \A m \in Messages : attempt[m].msg = m

\* A process that works on a message has the claim of it.
Claimed == \A p \in Procs : attempt[p].pc \in Working => claim[attempt[p].msg] = p

\* A job works on a row that is pending and has retries left.
RowsOfJobs ==
    \A j \in Jobs :
        attempt[j].pc \in Working =>
            Pending(attempt[j].msg) /\ row[attempt[j].msg].retryCount < MAX_RETRIES

\* Before its enqueue a message has no row; before its first call a send is at
\* its first payload.
AtStart ==
    /\ \A m \in Messages :
           /\ attempt[m].pc = "idle" => row[m].status = "none"
           /\ attempt[m].pc \in {"idle", "queued"} => attempt[m].payload = 1 /\ ~attempt[m].marked
    /\ \A j \in Jobs : attempt[j].pc = "reconciling" => attempt[j].payload = 1

\* The payloads that p is through with in the send it works on: the platform has
\* accepted a call, or the payload was passed over (or failed, with bestEffort).
Passed(p, k) ==
    \/ attempt[p].pc \in {"ready", "calling", "accepted"} /\ k < attempt[p].payload
    \/ attempt[p].pc = "accepted" /\ k = attempt[p].payload
    \/ attempt[p].pc \in {"returned", "unknown"}

PassedIsHandled ==
    \A p \in Procs :
        attempt[p].msg \notin BestEffort =>
            \A k \in 1 .. Payloads : Passed(p, k) => Handled(attempt[p].msg, k)

\* A copy of a pending message was paid for by a retry, a crash or a fault; the
\* one that a job has just made will be.
CopiesPaid ==
    \A m \in Messages, k \in 1 .. Payloads :
        Pending(m) =>
            /\ copies[m][k].recovery <= row[m].retryCount + crashes + faults + 1
            /\ (\A j \in Jobs : attempt[j].msg = m => ~Passed(j, k))
                   => copies[m][k].recovery <= row[m].retryCount + crashes + faults

\* Until its live send is over a message is sent by nobody else.
LiveFirst ==
    \A m \in Messages, k \in 1 .. Payloads :
        attempt[m].pc \in {"idle", "queued"} \cup Sending => copies[m][k].recovery = 0

Trusted(m) == m \in Required \/ faults = 0

\* A row in the queue carries a mark from before the first call of its live send.
LiveMarked ==
    \A m \in Messages :
        /\ attempt[m].pc \in {"idle", "queued"} =>
               \A k \in 1 .. Payloads : copies[m][k].live = 0
        /\ Trusted(m) /\ Pending(m)
             /\ (attempt[m].marked \/ attempt[m].pc \in {"calling", "accepted"}
                  \/ \E k \in 1 .. Payloads : copies[m][k].live > 0)
           => row[m].recoveryState # "none"

\* A job sends nothing that the live send may have made visible.
JobsSendUnsent ==
    \A j \in Jobs :
        attempt[j].pc \in Sending /\ Trusted(attempt[j].msg)
            => \A k \in 1 .. Payloads : copies[attempt[j].msg][k].live = 0

IInv == /\ TypeOK
        /\ OwnMessage /\ Claimed /\ RowsOfJobs /\ AtStart
        /\ PassedIsHandled /\ AckedMeansHandled
        /\ CopiesPaid /\ BoundedDuplicates
        /\ LiveFirst /\ LiveMarked /\ JobsSendUnsent /\ NoReplayOfLiveSend

-----------------------------------------------------------------------------
(* What the operations on rows, attempts and copies change. Row and Attempt *)
(* stay folded: the lemmas on their fields are all the steps need.          *)

PCs == {"idle", "queued", "draining", "reconciling"} \cup Sending
           \cup {"done", "yielded", "threw", "aborted", "crashed"}

\* Process p goes to pc, and nothing else of any attempt changes.
Moves(p, pc) ==
    /\ \A q \in Procs : q # p => attempt'[q] = attempt[q]
    /\ attempt'[p].pc = pc
    /\ attempt'[p].msg = attempt[p].msg /\ attempt'[p].payload = attempt[p].payload
    /\ attempt'[p].marked = attempt[p].marked

\* A process goes to another place.
LEMMA AttemptFields ==
    ASSUME NEW a \in Attempt, NEW pc \in PCs
    PROVE  /\ [a EXCEPT !.pc = pc] \in Attempt
           /\ [a EXCEPT !.pc = pc].pc = pc
           /\ [a EXCEPT !.pc = pc].msg = a.msg
           /\ [a EXCEPT !.pc = pc].payload = a.payload
           /\ [a EXCEPT !.pc = pc].marked = a.marked
BY DEF Attempt, PCs

\* Goto moves one process.
LEMMA GotoFacts ==
    ASSUME attempt \in [Procs -> Attempt], NEW p \in Procs, NEW pc \in PCs, Goto(p, pc)
    PROVE  attempt' \in [Procs -> Attempt] /\ Moves(p, pc)
BY AttemptFields DEF Goto, Moves

\* What a write of one column does to a row.
LEMMA StatusField ==
    ASSUME NEW r \in Row, NEW v \in {"none", "pending", "acked", "failed"}
    PROVE  /\ [r EXCEPT !.status = v] \in Row /\ [r EXCEPT !.status = v].status = v
           /\ [r EXCEPT !.status = v].retryCount = r.retryCount
           /\ [r EXCEPT !.status = v].recoveryState = r.recoveryState
BY DEF Row

\* The same of the count of retries.
LEMMA RetryField ==
    ASSUME NEW r \in Row, NEW v \in Nat
    PROVE  /\ [r EXCEPT !.retryCount = v] \in Row /\ [r EXCEPT !.retryCount = v].retryCount = v
           /\ [r EXCEPT !.retryCount = v].status = r.status
           /\ [r EXCEPT !.retryCount = v].recoveryState = r.recoveryState
BY DEF Row

\* The same of the recovery state.
LEMMA StateField ==
    ASSUME NEW r \in Row, NEW v \in {"none", "send_attempt_started", "unknown_after_send"}
    PROVE  /\ [r EXCEPT !.recoveryState = v] \in Row /\ [r EXCEPT !.recoveryState = v].recoveryState = v
           /\ [r EXCEPT !.recoveryState = v].status = r.status
           /\ [r EXCEPT !.recoveryState = v].retryCount = r.retryCount
BY DEF Row

\* Only the row of m changes.
OnlyRow(m) == \A n \in Messages : n # m => row'[n] = row[n]

\* The columns of a row.
LEMMA RowTypes ==
    ASSUME NEW r \in Row
    PROVE  /\ r.status \in {"none", "pending", "acked", "failed"} /\ r.retryCount \in Nat
           /\ r.recoveryState \in {"none", "send_attempt_started", "unknown_after_send"}
BY DEF Row

\* The parts of an attempt.
LEMMA AttemptTypes ==
    ASSUME NEW a \in Attempt
    PROVE  /\ a.pc \in PCs /\ a.msg \in Messages /\ a.payload \in 1 .. Payloads
           /\ a.marked \in BOOLEAN /\ a.partial \in BOOLEAN
BY DEF Attempt, PCs

\* failDelivery counts a retry of a pending row, and no more.
LEMMA FailFacts ==
    ASSUME row \in [Messages -> Row], NEW m \in Messages, failDelivery(m)
    PROVE  /\ row' \in [Messages -> Row] /\ OnlyRow(m)
           /\ row'[m].retryCount = (IF Pending(m) THEN row[m].retryCount + 1 ELSE row[m].retryCount)
           /\ row'[m].status = row[m].status /\ row'[m].recoveryState = row[m].recoveryState
<1>. DEFINE v == IF Pending(m) THEN row[m].retryCount + 1 ELSE row[m].retryCount
            r == [row[m] EXCEPT !.retryCount = v]
<1>1. row[m] \in Row
  OBVIOUS
<1>2. v \in Nat
  BY <1>1, RowTypes
<1>3. row' = [row EXCEPT ![m] = r]
  BY DEF failDelivery
<1>. HIDE DEF v
<1>4. r \in Row /\ r.retryCount = v /\ r.status = row[m].status /\ r.recoveryState = row[m].recoveryState
  BY <1>1, <1>2, RetryField
<1>. HIDE DEF r
<1>5. row'[m] = r /\ OnlyRow(m) /\ row' \in [Messages -> Row]
  BY <1>3, <1>4 DEF OnlyRow
<1>. QED
  BY <1>4, <1>5 DEF v

\* ackDelivery changes the status of a pending row, and no more.
LEMMA AckFacts ==
    ASSUME row \in [Messages -> Row], NEW m \in Messages, ackDelivery(m)
    PROVE  /\ row' \in [Messages -> Row] /\ OnlyRow(m)
           /\ row'[m].status = (IF Pending(m) THEN "acked" ELSE row[m].status)
           /\ row'[m].retryCount = row[m].retryCount /\ row'[m].recoveryState = row[m].recoveryState
<1>. DEFINE v == IF Pending(m) THEN "acked" ELSE row[m].status
            r == [row[m] EXCEPT !.status = v]
<1>1. row[m] \in Row
  OBVIOUS
<1>2. v \in {"none", "pending", "acked", "failed"}
  BY <1>1, RowTypes
<1>3. row' = [row EXCEPT ![m] = r]
  BY DEF ackDelivery
<1>. HIDE DEF v
<1>4. r \in Row /\ r.status = v /\ r.retryCount = row[m].retryCount /\ r.recoveryState = row[m].recoveryState
  BY <1>1, <1>2, StatusField
<1>. HIDE DEF r
<1>5. row'[m] = r /\ OnlyRow(m) /\ row' \in [Messages -> Row]
  BY <1>3, <1>4 DEF OnlyRow
<1>. QED
  BY <1>4, <1>5 DEF v

\* moveToFailed changes the status of a pending row, and no more.
LEMMA MoveToFailedFacts ==
    ASSUME row \in [Messages -> Row], NEW m \in Messages, moveToFailed(m)
    PROVE  /\ row' \in [Messages -> Row] /\ OnlyRow(m)
           /\ row'[m].status = (IF Pending(m) THEN "failed" ELSE row[m].status)
           /\ row'[m].retryCount = row[m].retryCount /\ row'[m].recoveryState = row[m].recoveryState
<1>. DEFINE v == IF Pending(m) THEN "failed" ELSE row[m].status
            r == [row[m] EXCEPT !.status = v]
<1>1. row[m] \in Row
  OBVIOUS
<1>2. v \in {"none", "pending", "acked", "failed"}
  BY <1>1, RowTypes
<1>3. row' = [row EXCEPT ![m] = r]
  BY DEF moveToFailed
<1>. HIDE DEF v
<1>4. r \in Row /\ r.status = v /\ r.retryCount = row[m].retryCount /\ r.recoveryState = row[m].recoveryState
  BY <1>1, <1>2, StatusField
<1>. HIDE DEF r
<1>5. row'[m] = r /\ OnlyRow(m) /\ row' \in [Messages -> Row]
  BY <1>3, <1>4 DEF OnlyRow
<1>. QED
  BY <1>4, <1>5 DEF v

\* A mark changes the recovery state of a pending row, and no more.
LEMMA MarkFacts ==
    ASSUME row \in [Messages -> Row], NEW m \in Messages,
           NEW state \in {"send_attempt_started", "unknown_after_send"}, mark(m, state)
    PROVE  /\ row' \in [Messages -> Row] /\ OnlyRow(m)
           /\ row'[m].recoveryState = (IF Pending(m) THEN state ELSE row[m].recoveryState)
           /\ row'[m].status = row[m].status /\ row'[m].retryCount = row[m].retryCount
<1>. DEFINE v == IF Pending(m) THEN state ELSE row[m].recoveryState
            r == [row[m] EXCEPT !.recoveryState = v]
<1>1. row[m] \in Row
  OBVIOUS
<1>2. v \in {"none", "send_attempt_started", "unknown_after_send"}
  BY <1>1, RowTypes
<1>3. row' = [row EXCEPT ![m] = r]
  BY DEF mark
<1>. HIDE DEF v
<1>4. r \in Row /\ r.recoveryState = v /\ r.status = row[m].status /\ r.retryCount = row[m].retryCount
  BY <1>1, <1>2, StateField
<1>. HIDE DEF r
<1>5. row'[m] = r /\ OnlyRow(m) /\ row' \in [Messages -> Row]
  BY <1>3, <1>4 DEF OnlyRow
<1>. QED
  BY <1>4, <1>5 DEF v

\* Nobody but p goes on.
OthersStay(p) == \A q \in Procs : q # p => attempt'[q] = attempt[q]

\* The claim of p's message is given up, and no other.
Unclaimed(p) ==
    /\ claim'[attempt[p].msg] = NoProc
    /\ \A n \in Messages : n # attempt[p].msg => claim'[n] = claim[n]

\* Release moves one process and gives up one claim.
LEMMA ReleaseFacts ==
    ASSUME TypeOK, NEW p \in Procs, NEW outcome \in PCs, Release(p, outcome)
    PROVE  /\ attempt' \in [Procs -> Attempt] /\ claim' \in [Messages -> Procs \cup {NoProc}]
           /\ Moves(p, IF IsLive(p) THEN outcome ELSE "draining") /\ Unclaimed(p)
<1>. DEFINE pc == IF IsLive(p) THEN outcome ELSE "draining"
<1>1. pc \in PCs /\ attempt \in [Procs -> Attempt] /\ claim \in [Messages -> Procs \cup {NoProc}]
  BY DEF PCs, TypeOK
<1>2. Goto(p, pc) /\ claim' = [claim EXCEPT ![attempt[p].msg] = NoProc]
  BY DEF Release, Goto
<1>3. attempt[p].msg \in Messages
  BY <1>1, AttemptTypes
<1>. HIDE DEF pc
<1>4. attempt' \in [Procs -> Attempt] /\ Moves(p, pc)
  BY <1>1, <1>2, GotoFacts
<1>. QED
  BY <1>1, <1>2, <1>3, <1>4 DEF Unclaimed, pc

\* The attempt of a live send that calls with its row marked.
LEMMA MarkedFields ==
    ASSUME NEW a \in Attempt
    PROVE  LET b == [a EXCEPT !.pc = "calling", !.marked = TRUE]
           IN  /\ b \in Attempt /\ b.pc = "calling" /\ b.marked = TRUE
               /\ b.msg = a.msg /\ b.payload = a.payload
BY DEF Attempt, Sending

\* The attempt of a send that goes on to its next payload.
LEMMA OnwardFields ==
    ASSUME NEW a \in Attempt, NEW partial \in BOOLEAN
    PROVE  LET b == IF a.payload < Payloads
                    THEN [a EXCEPT !.pc = "ready", !.payload = a.payload + 1,
                                   !.partial = partial]
                    ELSE [a EXCEPT !.pc = "returned", !.partial = partial]
           IN  /\ b \in Attempt /\ b.msg = a.msg /\ b.marked = a.marked
               /\ a.payload < Payloads => b.pc = "ready" /\ b.payload = a.payload + 1
               /\ a.payload = Payloads => b.pc = "returned" /\ b.payload = a.payload
<1>1. CASE a.payload < Payloads
  <2>1. a.payload + 1 \in 1 .. Payloads /\ a.payload # Payloads
    BY <1>1, AttemptTypes, NumbersAssumption
  <2>. QED
    BY <1>1, <2>1 DEF Attempt, Sending
<1>2. CASE ~(a.payload < Payloads)
  BY <1>2 DEF Attempt, Sending
<1>. QED
  BY <1>1, <1>2

\* p goes on to its next payload, or has its results.
Onward(p) ==
    /\ OthersStay(p)
    /\ attempt'[p].msg = attempt[p].msg /\ attempt'[p].marked = attempt[p].marked
    /\ \/ attempt'[p].pc = "ready" /\ attempt'[p].payload = attempt[p].payload + 1
       \/ attempt'[p].pc = "returned" /\ attempt[p].payload = Payloads

\* NextPayload moves one process, onward.
LEMMA NextPayloadFacts ==
    ASSUME TypeOK, NEW p \in Procs, NEW partial \in BOOLEAN, NextPayload(p, partial)
    PROVE  attempt' \in [Procs -> Attempt] /\ Onward(p)
<1>. DEFINE a == attempt[p]
            b == IF a.payload < Payloads
                 THEN [a EXCEPT !.pc = "ready", !.payload = a.payload + 1, !.partial = partial]
                 ELSE [a EXCEPT !.pc = "returned", !.partial = partial]
<1>1. attempt \in [Procs -> Attempt] /\ a \in Attempt
  BY DEF TypeOK
<1>2. attempt' = [attempt EXCEPT ![p] = b]
  BY DEF NextPayload
<1>3. /\ b \in Attempt /\ b.msg = a.msg /\ b.marked = a.marked
      /\ a.payload < Payloads => b.pc = "ready" /\ b.payload = a.payload + 1
      /\ a.payload = Payloads => b.pc = "returned" /\ b.payload = a.payload
  BY <1>1, OnwardFields
<1>4. a.payload < Payloads \/ a.payload = Payloads
  BY <1>1, AttemptTypes, NumbersAssumption
<1>. HIDE DEF b
<1>5. attempt'[p] = b /\ attempt' \in [Procs -> Attempt] /\ OthersStay(p)
  BY <1>1, <1>2, <1>3 DEF OthersStay
<1>. QED
  BY <1>3, <1>4, <1>5 DEF Onward

\* p begins on message m, at its first payload.
Starts(p, m, pc) ==
    /\ OthersStay(p)
    /\ attempt'[p].msg = m /\ attempt'[p].pc = pc
    /\ attempt'[p].payload = 1 /\ attempt'[p].marked = FALSE

\* A job that starts on m.
LEMMA FreshFields ==
    ASSUME NEW m \in Messages, NEW pc \in PCs
    PROVE  LET a == [Fresh(m) EXCEPT !.pc = pc]
           IN  a \in Attempt /\ a.msg = m /\ a.pc = pc /\ a.payload = 1 /\ a.marked = FALSE
<1>1. 1 \in 1 .. Payloads
  BY NumbersAssumption
<1>. QED
  BY <1>1 DEF Fresh, Attempt, PCs

\* Fresh is an attempt.
LEMMA FreshIsIdle ==
    ASSUME NEW m \in Messages
    PROVE  /\ Fresh(m) \in Attempt /\ Fresh(m).msg = m /\ Fresh(m).pc = "idle"
           /\ Fresh(m).payload = 1 /\ Fresh(m).marked = FALSE
<1>1. 1 \in 1 .. Payloads
  BY NumbersAssumption
<1>. QED
  BY <1>1 DEF Fresh, Attempt, PCs

\* Taken puts m, and its claim, into the hands of j.
LEMMA TakenFacts ==
    ASSUME TypeOK, NEW j \in Jobs, NEW m \in Messages, Taken(j, m)
    PROVE  /\ attempt' \in [Procs -> Attempt] /\ claim' \in [Messages -> Procs \cup {NoProc}]
           /\ todo' \in [Jobs -> SUBSET Messages]
           /\ Starts(j, m, IF row[m].recoveryState = "none" THEN "ready" ELSE "reconciling")
           /\ claim'[m] = j /\ \A n \in Messages : n # m => claim'[n] = claim[n]
<1>. DEFINE pc == IF row[m].recoveryState = "none" THEN "ready" ELSE "reconciling"
            a == [Fresh(m) EXCEPT !.pc = pc]
<1>1. /\ attempt \in [Procs -> Attempt] /\ claim \in [Messages -> Procs \cup {NoProc}]
      /\ todo \in [Jobs -> SUBSET Messages] /\ j \in Procs /\ pc \in PCs
  BY DEF TypeOK, Procs, PCs, Sending
<1>2. attempt' = [attempt EXCEPT ![j] = a]
  BY DEF Taken
<1>. HIDE DEF pc
<1>3. a \in Attempt /\ a.msg = m /\ a.pc = pc /\ a.payload = 1 /\ a.marked = FALSE
  BY <1>1, FreshFields
<1>. HIDE DEF a
<1>4. attempt' \in [Procs -> Attempt] /\ Starts(j, m, pc)
  BY <1>1, <1>2, <1>3 DEF Starts, OthersStay
<1>5. /\ claim' = [claim EXCEPT ![m] = j]
      /\ todo' = [todo EXCEPT ![j] = @ \ {m}]
  BY DEF Taken
<1>. QED
  BY <1>1, <1>4, <1>5 DEF pc

\* After a crash a live send that had begun is over, one that had not is not,
\* and a job has nothing in hand.
AfterCrash(p) ==
    /\ attempt'[p].msg = attempt[p].msg
    /\ IF IsLive(p) /\ attempt[p].pc \in {"idle"} \cup Over THEN attempt'[p] = attempt[p]
       ELSE attempt'[p].pc = IF IsLive(p) THEN "crashed" ELSE "idle"
    /\ IsLive(p) => attempt'[p].marked = attempt[p].marked

\* A crash clears the claims and ends what was going on.
LEMMA CrashFacts ==
    ASSUME TypeOK, Crash
    PROVE  /\ attempt' \in [Procs -> Attempt] /\ \A p \in Procs : AfterCrash(p)
           /\ claim' \in [Messages -> Procs \cup {NoProc}]
           /\ \A m \in Messages : claim'[m] = NoProc
<1>1. attempt \in [Procs -> Attempt]
  BY DEF TypeOK
<1>. DEFINE new(p) == CASE IsLive(p) /\ attempt[p].pc \in {"idle"} \cup Over -> attempt[p]
                        [] IsLive(p) /\ attempt[p].pc \notin {"idle"} \cup Over
                              -> [attempt[p] EXCEPT !.pc = "crashed"]
                        [] ~IsLive(p) -> Fresh(attempt[p].msg)
<1>2. attempt' = [p \in Procs |-> new(p)]
  BY DEF Crash
<1>3. ASSUME NEW p \in Procs
      PROVE  /\ new(p) \in Attempt /\ new(p).msg = attempt[p].msg
             /\ IF IsLive(p) /\ attempt[p].pc \in {"idle"} \cup Over THEN new(p) = attempt[p]
                ELSE new(p).pc = IF IsLive(p) THEN "crashed" ELSE "idle"
             /\ IsLive(p) => new(p).marked = attempt[p].marked
  <2>1. attempt[p] \in Attempt /\ attempt[p].msg \in Messages
    BY <1>1, AttemptTypes
  <2>2. CASE IsLive(p) /\ attempt[p].pc \in {"idle"} \cup Over
    <3>1. new(p) = attempt[p]
      BY <2>2
    <3>. QED
      BY <2>1, <2>2, <3>1
  <2>3. CASE IsLive(p) /\ attempt[p].pc \notin {"idle"} \cup Over
    <3>1. new(p) = [attempt[p] EXCEPT !.pc = "crashed"]
      BY <2>3
    <3>2. "crashed" \in PCs
      BY DEF PCs
    <3>. HIDE DEF new
    <3>. QED
      BY <2>1, <2>3, <3>1, <3>2, AttemptFields
  <2>4. CASE ~IsLive(p)
    <3>1. new(p) = Fresh(attempt[p].msg)
      BY <2>4
    <3>. HIDE DEF new
    <3>. QED
      BY <2>1, <2>4, <3>1, FreshIsIdle
  <2>. QED
    BY <2>2, <2>3, <2>4
<1>. HIDE DEF new
<1>4. attempt' \in [Procs -> Attempt] /\ \A p \in Procs : AfterCrash(p)
  BY <1>2, <1>3 DEF AfterCrash
<1>5. claim' = [m \in Messages |-> NoProc]
  BY DEF Crash
<1>. QED
  BY <1>4, <1>5

Count == [live : Nat, recovery : Nat]

\* One more copy of p's payload is visible, of a live send or of a recovery.
OneMore(p) ==
    LET m == attempt[p].msg
        k == attempt[p].payload
    IN  /\ \A n \in Messages, i \in 1 .. Payloads :
               n # m \/ i # k => copies'[n][i] = copies[n][i]
        /\ copies'[m][k].live = IF IsLive(p) THEN copies[m][k].live + 1 ELSE copies[m][k].live
        /\ copies'[m][k].recovery =
               IF IsLive(p) THEN copies[m][k].recovery ELSE copies[m][k].recovery + 1

\* One more copy, of a live send or of a recovery.
LEMMA CountFields ==
    ASSUME NEW c \in Count
    PROVE  /\ [c EXCEPT !["live"] = c["live"] + 1] \in Count
           /\ [c EXCEPT !["live"] = c["live"] + 1].live = c.live + 1
           /\ [c EXCEPT !["live"] = c["live"] + 1].recovery = c.recovery
           /\ [c EXCEPT !["recovery"] = c["recovery"] + 1] \in Count
           /\ [c EXCEPT !["recovery"] = c["recovery"] + 1].live = c.live
           /\ [c EXCEPT !["recovery"] = c["recovery"] + 1].recovery = c.recovery + 1
BY DEF Count

\* Accept adds one copy of one payload.
LEMMA AcceptFacts ==
    ASSUME TypeOK, NEW p \in Procs, Accept(p)
    PROVE  /\ copies' \in [Messages -> [1 .. Payloads -> Count]] /\ OneMore(p)
           /\ attempt' \in [Procs -> Attempt] /\ Moves(p, "accepted")
<1>. DEFINE m == attempt[p].msg
            k == attempt[p].payload
            origin == IF IsLive(p) THEN "live" ELSE "recovery"
            c == [copies[m][k] EXCEPT ![origin] = copies[m][k][origin] + 1]
<1>1. /\ copies \in [Messages -> [1 .. Payloads -> Count]]
      /\ attempt \in [Procs -> Attempt] /\ "accepted" \in PCs
  BY DEF TypeOK, Count, PCs, Sending
<1>2. m \in Messages /\ k \in 1 .. Payloads /\ copies[m][k] \in Count
  BY <1>1, AttemptTypes
<1>3. copies' = [copies EXCEPT ![m] = [copies[m] EXCEPT ![k] = c]]
  BY DEF Accept
<1>4. c \in Count /\ c.live = (IF IsLive(p) THEN copies[m][k].live + 1 ELSE copies[m][k].live)
      /\ c.recovery = IF IsLive(p) THEN copies[m][k].recovery ELSE copies[m][k].recovery + 1
  <2>1. CASE IsLive(p)
    <3>1. c = [copies[m][k] EXCEPT !["live"] = copies[m][k]["live"] + 1]
      BY <2>1
    <3>. HIDE DEF c
    <3>. QED
      BY <1>2, <2>1, <3>1, CountFields
  <2>2. CASE ~IsLive(p)
    <3>1. c = [copies[m][k] EXCEPT !["recovery"] = copies[m][k]["recovery"] + 1]
      BY <2>2
    <3>. HIDE DEF c
    <3>. QED
      BY <1>2, <2>2, <3>1, CountFields
  <2>. QED
    BY <2>1, <2>2
<1>5. attempt' \in [Procs -> Attempt] /\ Moves(p, "accepted")
  BY <1>1, GotoFacts DEF Accept
<1>. HIDE DEF c
<1>6. copies' \in [Messages -> [1 .. Payloads -> Count]]
  BY <1>1, <1>2, <1>3, <1>4
<1>7. copies'[m][k] = c
  BY <1>1, <1>2, <1>3, <1>4
<1>8. \A n \in Messages, i \in 1 .. Payloads : n # m \/ i # k => copies'[n][i] = copies[n][i]
  BY <1>1, <1>2, <1>3, <1>4
<1>. QED
  BY <1>4, <1>5, <1>6, <1>7, <1>8 DEF OneMore

-----------------------------------------------------------------------------
(* The shapes of the steps.                                                 *)

\* The types, field by field.
Typed ==
    /\ \A p \in Procs :
           /\ attempt[p].pc \in PCs /\ attempt[p].msg \in Messages
           /\ attempt[p].payload \in 1 .. Payloads /\ attempt[p].marked \in BOOLEAN
    /\ \A m \in Messages : row[m].retryCount \in Nat
    /\ \A m \in Messages, k \in 1 .. Payloads :
           copies[m][k].live \in Nat /\ copies[m][k].recovery \in Nat
    /\ faults \in Nat /\ crashes \in Nat

\* TypeOK says so of each field.
LEMMA TypedFields ==
    ASSUME TypeOK
    PROVE  Typed
<1>1. /\ \A p \in Procs : attempt[p] \in Attempt
      /\ \A m \in Messages : row[m] \in Row
      /\ \A m \in Messages, k \in 1 .. Payloads : copies[m][k] \in Count
      /\ faults \in Nat /\ crashes \in Nat
  BY NumbersAssumption DEF TypeOK, Count
<1>2. \A c \in Count : c.live \in Nat /\ c.recovery \in Nat
  BY DEF Count
<1>. QED
  BY <1>1, <1>2, AttemptTypes, RowTypes DEF Typed

\* And in the next state.
LEMMA TypedFieldsPrimed ==
    ASSUME TypeOK'
    PROVE  Typed'
BY TypedFields, PTL

\* p is done with its message m: its row may be failed, acked or given up.
Leaves(p) ==
    LET m == attempt[p].msg
    IN  /\ attempt[p].pc \in Working
        /\ OthersStay(p) /\ attempt'[p].msg = m
        /\ attempt'[p].pc \in {"draining", "done", "threw", "aborted"}
        /\ attempt'[p].marked = attempt[p].marked
        /\ Unclaimed(p)
        /\ OnlyRow(m)
        /\ row'[m].retryCount \in {row[m].retryCount, row[m].retryCount + 1}
        /\ row'[m].recoveryState = row[m].recoveryState
        /\ \/ row'[m].status = row[m].status
           \/ row'[m].status = "failed" /\ Pending(m)
           \/ /\ row'[m].status = "acked" /\ Pending(m)
              /\ \/ m \in BestEffort
                 \/ p = m /\ attempt'[p].pc = "aborted"
                 \/ \A k \in 1 .. Payloads : Handled(m, k)
        /\ p \in Jobs => \/ row'[m].status # "pending"
                         \/ row'[m].retryCount = row[m].retryCount + 1
                         \/ faults' = faults + 1
        /\ faults' \in {faults, faults + 1}
        /\ UNCHANGED <<copies, suppressed, crashes>>

\* The invariant holds after a process is done with its message.
LEMMA LeavesKeeps ==
    ASSUME IInv, TypeOK', NEW p \in Procs, Leaves(p)
    PROVE  IInv'
<1>1. Typed /\ Typed'
  BY TypedFields, TypedFieldsPrimed DEF IInv
<1>. DEFINE m == attempt[p].msg
<1>2. /\ m \in Messages /\ attempt[p].pc \in Working /\ attempt'[p].msg = m
      /\ attempt'[p].pc \in {"draining", "done", "threw", "aborted"}
      /\ attempt'[p].pc \notin Working \cup {"idle", "queued"}
      /\ attempt'[p].marked = attempt[p].marked
      /\ \A q \in Procs : q # p => attempt'[q] = attempt[q]
      /\ \A n \in Messages : n # m => row'[n] = row[n] /\ claim'[n] = claim[n]
  BY <1>1 DEF Leaves, Typed, OthersStay, Unclaimed, OnlyRow, Working, Sending
<1>3. \A q \in Procs : attempt'[q].msg = attempt[q].msg /\ attempt'[q].marked = attempt[q].marked
  BY <1>2
<1>4. \A q \in Procs : attempt'[q].pc \in Working => q # p /\ attempt[q].msg # m
  BY <1>2 DEF IInv, Claimed
<1>5. /\ copies' = copies /\ suppressed' = suppressed /\ crashes' = crashes
      /\ faults' \in {faults, faults + 1}
  BY DEF Leaves
<1>6. /\ \A n \in Messages : Pending(n)' => Pending(n)
      /\ \A n \in Messages : row'[n].recoveryState = row[n].recoveryState
      /\ \A n \in Messages : row'[n].status = "none" <=> row[n].status = "none"
      /\ \A n \in Messages : row'[n].retryCount \in {row[n].retryCount, row[n].retryCount + 1}
  BY <1>2 DEF Leaves, Pending
<1>7. \A n \in Messages : Trusted(n)' => Trusted(n)
  BY <1>1, <1>5 DEF Trusted, Typed
<1>8. \A q \in Procs, k \in 1 .. Payloads : q # p => Passed(q, k)' = Passed(q, k)
  BY <1>2 DEF Passed
<1>9. OwnMessage'
  BY <1>3 DEF IInv, OwnMessage, Procs
<1>10. Claimed'
  BY <1>1, <1>2, <1>4 DEF IInv, Claimed, Typed
<1>11. RowsOfJobs'
  BY <1>1, <1>2, <1>4 DEF IInv, RowsOfJobs, Pending, Procs, Typed
<1>12. AtStart'
  BY <1>2, <1>4, <1>6 DEF IInv, AtStart, Procs, Working
<1>13. PassedIsHandled'
  BY <1>2, <1>5 DEF IInv, PassedIsHandled, Passed, Handled, Visible, Working, Sending
<1>14. AckedMeansHandled'
  <2>1. ASSUME NEW n \in Messages \ BestEffort,
               row'[n].status = "acked", attempt'[n].pc # "aborted"
        PROVE  \A k \in 1 .. Payloads : Handled(n, k)
    <3>1. n \in Procs /\ attempt[n].pc # "aborted"
      BY <1>2, <2>1 DEF Procs, Working, Sending
    <3>2. CASE row[n].status = "acked"
      BY <2>1, <3>1, <3>2 DEF IInv, AckedMeansHandled
    <3>3. CASE row[n].status # "acked"
      BY <1>2, <2>1, <3>3 DEF Leaves
    <3>. QED
      BY <3>2, <3>3
  <2>. QED
    BY <1>5, <2>1 DEF AckedMeansHandled, Handled, Visible
<1>15. CopiesPaid'
  <2>1. ASSUME NEW n \in Messages, NEW k \in 1 .. Payloads, Pending(n)'
        PROVE  /\ copies[n][k].recovery <= row'[n].retryCount + crashes + faults' + 1
               /\ (\A j \in Jobs : attempt'[j].msg = n => ~Passed(j, k)')
                     => copies[n][k].recovery <= row'[n].retryCount + crashes + faults'
    <3>1. /\ Pending(n) /\ copies[n][k].recovery \in Nat /\ row[n].retryCount \in Nat
          /\ row'[n].retryCount \in Nat /\ faults \in Nat /\ faults' \in Nat /\ crashes \in Nat
          /\ row'[n].retryCount >= row[n].retryCount /\ faults' >= faults
      BY <1>1, <1>5, <1>6, <2>1 DEF Typed
    <3>2. /\ copies[n][k].recovery <= row[n].retryCount + crashes + faults + 1
          /\ (\A j \in Jobs : attempt[j].msg = n => ~Passed(j, k))
                => copies[n][k].recovery <= row[n].retryCount + crashes + faults
      BY <3>1 DEF IInv, CopiesPaid
    <3>3. CASE p \in Jobs /\ n = m
      <4>1. row'[n].retryCount + faults' >= row[n].retryCount + faults + 1
        BY <2>1, <3>1, <3>3 DEF Leaves, Pending
      <4>. QED
        BY <3>1, <3>2, <4>1
    <3>4. CASE ~(p \in Jobs /\ n = m)
      <4>1. \A j \in Jobs : attempt[j].msg = n =>
                attempt'[j].msg = n /\ Passed(j, k)' = Passed(j, k)
        BY <1>2, <1>8, <3>4 DEF Procs
      <4>. QED
        BY <3>1, <3>2, <4>1
    <3>. QED
      BY <3>3, <3>4
  <2>. QED
    BY <1>5, <2>1 DEF CopiesPaid
<1>16. BoundedDuplicates'
  BY <1>1, <1>5, NumbersAssumption DEF IInv, BoundedDuplicates, Typed
<1>17. LiveFirst'
  BY <1>2, <1>5 DEF IInv, LiveFirst, Procs, Working
<1>18. LiveMarked'
  BY <1>2, <1>3, <1>5, <1>6, <1>7 DEF IInv, LiveMarked, Procs, Working, Sending
<1>19. JobsSendUnsent'
  BY <1>1, <1>2, <1>5, <1>7 DEF IInv, JobsSendUnsent, Procs, Working, Trusted, Typed
<1>20. NoReplayOfLiveSend'
  BY <1>5, <1>7 DEF IInv, NoReplayOfLiveSend, Trusted
<1>. QED
  BY <1>9, <1>10, <1>11, <1>12, <1>13, <1>14, <1>15, <1>16, <1>17, <1>18, <1>19, <1>20 DEF IInv

\* p goes on with its message: it is through with no payload that is neither
\* visible nor noted as passed over,
\* and calls the platform with the row marked, if the mark can be written.
GoesOn(p) ==
    LET m == attempt[p].msg
    IN  /\ attempt[p].pc \in Working /\ attempt'[p].pc \in Sending
        /\ OthersStay(p) /\ attempt'[p].msg = m
        /\ \A k \in 1 .. Payloads :
               /\ Passed(p, k) => Passed(p, k)'
               /\ Passed(p, k)' =>
                      Passed(p, k) \/ m \in BestEffort \/ suppressed'[m][k] # "none"
        /\ \A n \in Messages, k \in 1 .. Payloads :
               suppressed[n][k] # "none" => suppressed'[n][k] # "none"
        /\ \A n \in Messages :
               /\ row'[n].status = row[n].status /\ row'[n].retryCount = row[n].retryCount
               /\ row[n].recoveryState # "none" => row'[n].recoveryState # "none"
        /\ p \in Messages =>
               /\ attempt'[p].marked = attempt[p].marked \/ row'[p].recoveryState # "none"
               /\ Trusted(p)' /\ Pending(p) /\ attempt'[p].pc \in {"calling", "accepted"}
                      => row'[p].recoveryState # "none"
        /\ \/ attempt[p].pc \in Sending
           \/ p \in Jobs /\ \A k \in 1 .. Payloads : ~Visible(m, k)
        /\ faults' \in {faults, faults + 1}
        /\ UNCHANGED <<copies, claim, crashes>>

\* The invariant holds after a process goes on with its message.
LEMMA GoesOnKeeps ==
    ASSUME IInv, TypeOK', NEW p \in Procs, GoesOn(p)
    PROVE  IInv'
<1>1. Typed /\ Typed'
  BY TypedFields, TypedFieldsPrimed DEF IInv
<1>. DEFINE m == attempt[p].msg
<1>2. /\ m \in Messages /\ attempt[p].pc \in Working /\ attempt'[p].msg = m
      /\ attempt'[p].pc \in Sending
      /\ \A q \in Procs : q # p => attempt'[q] = attempt[q]
      /\ \A k \in 1 .. Payloads :
             Passed(p, k)' => Passed(p, k) \/ m \in BestEffort \/ suppressed'[m][k] # "none"
      /\ \A n \in Messages, k \in 1 .. Payloads :
             suppressed[n][k] # "none" => suppressed'[n][k] # "none"
      /\ \A n \in Messages : row'[n].status = row[n].status
                             /\ row'[n].retryCount = row[n].retryCount
      /\ \A n \in Messages : row[n].recoveryState # "none" => row'[n].recoveryState # "none"
      /\ copies' = copies /\ crashes' = crashes /\ claim' = claim
      /\ faults' \in {faults, faults + 1}
  BY <1>1 DEF GoesOn, Typed, OthersStay
<1>3. \A q \in Procs : /\ attempt'[q].msg = attempt[q].msg
                       /\ attempt'[q].pc \in Working <=> attempt[q].pc \in Working
  BY <1>2 DEF Working
<1>4. \A n \in Messages : Trusted(n)' => Trusted(n)
  BY <1>1, <1>2 DEF Trusted, Typed
<1>5. \A q \in Procs, k \in 1 .. Payloads : Passed(q, k) => Passed(q, k)'
  BY <1>2 DEF Passed, GoesOn
<1>6. OwnMessage'
  BY <1>3 DEF IInv, OwnMessage, Procs
<1>7. Claimed'
  BY <1>2, <1>3 DEF IInv, Claimed
<1>8. RowsOfJobs'
  BY <1>1, <1>2, <1>3 DEF IInv, RowsOfJobs, Pending, Procs, Typed
<1>9. AtStart'
  BY <1>2 DEF IInv, AtStart, Procs, Sending
<1>10. PassedIsHandled'
  <2>1. ASSUME NEW q \in Procs, attempt[q].msg \notin BestEffort,
               NEW k \in 1 .. Payloads, Passed(q, k)'
        PROVE  Passed(q, k) \/ suppressed'[attempt[q].msg][k] # "none"
    BY <1>2, <2>1 DEF Passed
  <2>2. \A q \in Procs : attempt[q].msg \in Messages
    BY <1>1 DEF Typed
  <2>. QED
    BY <1>2, <1>3, <2>1, <2>2 DEF IInv, PassedIsHandled, Handled, Visible
<1>11. AckedMeansHandled'
  BY <1>2 DEF IInv, AckedMeansHandled, Handled, Visible, Procs, Working, Sending
<1>12. CopiesPaid'
  <2>1. ASSUME NEW n \in Messages, NEW k \in 1 .. Payloads, Pending(n)
        PROVE  /\ copies[n][k].recovery <= row[n].retryCount + crashes + faults' + 1
               /\ (\A j \in Jobs : attempt'[j].msg = n => ~Passed(j, k)')
                     => copies[n][k].recovery <= row[n].retryCount + crashes + faults'
    <3>1. /\ copies[n][k].recovery <= row[n].retryCount + crashes + faults + 1
          /\ (\A j \in Jobs : attempt[j].msg = n => ~Passed(j, k))
                => copies[n][k].recovery <= row[n].retryCount + crashes + faults
      BY <2>1 DEF IInv, CopiesPaid
    <3>2. (\A j \in Jobs : attempt'[j].msg = n => ~Passed(j, k)')
             => \A j \in Jobs : attempt[j].msg = n => ~Passed(j, k)
      BY <1>3, <1>5 DEF Procs
    <3>3. copies[n][k].recovery \in Nat /\ row[n].retryCount \in Nat
          /\ crashes \in Nat /\ faults \in Nat
      BY <1>1 DEF Typed
    <3>. QED
      BY <1>2, <3>1, <3>2, <3>3
  <2>. QED
    BY <1>2, <2>1 DEF CopiesPaid, Pending
<1>13. BoundedDuplicates'
  BY <1>1, <1>2, NumbersAssumption DEF IInv, BoundedDuplicates, Typed
<1>14. LiveFirst'
  <2>1. ASSUME NEW n \in Messages, attempt'[n].pc \in {"idle", "queued"} \cup Sending
        PROVE  attempt[n].pc \in {"idle", "queued"} \cup Sending
    <3>1. CASE n = p
      BY <3>1, MessagesAssumption DEF GoesOn
    <3>2. CASE n # p
      BY <1>2, <2>1, <3>2 DEF Procs
    <3>. QED
      BY <3>1, <3>2
  <2>. QED
    BY <1>2, <2>1 DEF IInv, LiveFirst
<1>15. LiveMarked'
  <2>1. ASSUME NEW n \in Messages, attempt'[n].pc \in {"idle", "queued"}
        PROVE  \A k \in 1 .. Payloads : copies[n][k].live = 0
    BY <1>2, <2>1 DEF IInv, LiveMarked, Procs, Sending
  <2>2. ASSUME NEW n \in Messages, Trusted(n)', Pending(n),
               \/ attempt'[n].marked \/ attempt'[n].pc \in {"calling", "accepted"}
               \/ \E k \in 1 .. Payloads : copies[n][k].live > 0
        PROVE  row'[n].recoveryState # "none"
    BY <1>2, <1>4, <2>2 DEF IInv, LiveMarked, Procs, GoesOn
  <2>. QED
    BY <1>2, <2>1, <2>2 DEF LiveMarked, Pending
<1>16. JobsSendUnsent'
  <2>1. ASSUME NEW j \in Jobs, attempt'[j].pc \in Sending, Trusted(attempt[j].msg)'
        PROVE  \A k \in 1 .. Payloads : copies[attempt[j].msg][k].live = 0
    <3>1. j \in Procs /\ Trusted(attempt[j].msg) /\ attempt[j].msg \in Messages
      BY <1>1, <1>2, <1>3, <2>1 DEF Procs, Typed, Trusted
    <3>2. CASE attempt[j].pc \in Sending
      BY <2>1, <3>1, <3>2 DEF IInv, JobsSendUnsent
    <3>3. CASE attempt[j].pc \notin Sending
      <4>1. \A k \in 1 .. Payloads : ~Visible(attempt[j].msg, k)
        BY <1>2, <2>1, <3>1, <3>3 DEF GoesOn
      <4>2. \A k \in 1 .. Payloads : copies[attempt[j].msg][k].live \in Nat
                                     /\ copies[attempt[j].msg][k].recovery \in Nat
        BY <1>1, <3>1 DEF Typed
      <4>. QED
        BY <4>1, <4>2 DEF Visible
    <3>. QED
      BY <3>2, <3>3
  <2>. QED
    BY <1>2, <1>3, <2>1 DEF JobsSendUnsent, Trusted, Procs
<1>17. NoReplayOfLiveSend'
  BY <1>2, <1>4 DEF IInv, NoReplayOfLiveSend, Trusted
<1>. QED
  BY <1>6, <1>7, <1>8, <1>9, <1>10, <1>11, <1>12, <1>13, <1>14, <1>15, <1>16, <1>17 DEF IInv

\* p begins on message m, which nobody has in hand; a job on a row it may send.
Begins(p, m) ==
    /\ attempt[p].pc \notin Working /\ attempt'[p].pc \in {"ready", "reconciling"}
    /\ OthersStay(p)
    /\ attempt'[p].msg = m /\ attempt'[p].payload = 1 /\ attempt'[p].marked = FALSE
    /\ claim[m] = NoProc /\ claim'[m] = p
    /\ \A n \in Messages : n # m => claim'[n] = claim[n]
    /\ p \in Messages => p = m /\ attempt[p].pc = "queued" /\ attempt'[p].pc = "ready"
    /\ p \in Jobs => /\ Pending(m) /\ row[m].retryCount < MAX_RETRIES
                     /\ attempt'[p].pc = "ready" => row[m].recoveryState = "none"
    /\ UNCHANGED <<row, copies, suppressed, faults, crashes>>

\* The invariant holds after a process has begun on a message.
LEMMA BeginsKeeps ==
    ASSUME IInv, TypeOK', NEW p \in Procs, NEW m \in Messages, Begins(p, m)
    PROVE  IInv'
<1>1. Typed /\ Typed'
  BY TypedFields, TypedFieldsPrimed DEF IInv
<1>2. /\ attempt[p].pc \notin Working /\ attempt'[p].pc \in {"ready", "reconciling"}
      /\ attempt'[p].msg = m /\ attempt'[p].payload = 1
      /\ \A q \in Procs : q # p => attempt'[q] = attempt[q]
      /\ row' = row /\ copies' = copies /\ suppressed' = suppressed
      /\ faults' = faults /\ crashes' = crashes
      /\ claim[m] = NoProc /\ claim'[m] = p
      /\ \A n \in Messages : n # m => claim'[n] = claim[n]
  BY DEF Begins, OthersStay
<1>3. \A k \in 1 .. Payloads : ~Passed(p, k) /\ ~Passed(p, k)'
  BY <1>2 DEF Passed, Working, Sending
<1>4. \A q \in Procs : q # p => (\A k \in 1 .. Payloads : Passed(q, k)' = Passed(q, k))
  BY <1>2 DEF Passed
<1>5. \A n \in Messages : Trusted(n)' = Trusted(n)
  BY <1>2 DEF Trusted
<1>6. p \in Messages => p \notin Jobs
  BY MessagesAssumption
<1>7. OwnMessage'
  BY <1>2 DEF IInv, OwnMessage, Procs, Begins
<1>8. Claimed'
  BY <1>1, <1>2, MessagesAssumption DEF IInv, Claimed, Typed
<1>9. RowsOfJobs'
  BY <1>1, <1>2 DEF IInv, RowsOfJobs, Pending, Procs, Begins
<1>10. AtStart'
  BY <1>2 DEF IInv, AtStart, Procs
<1>11. PassedIsHandled'
  BY <1>2, <1>3, <1>4 DEF IInv, PassedIsHandled, Handled, Visible
<1>12. AckedMeansHandled'
  BY <1>2 DEF IInv, AckedMeansHandled, Handled, Visible, Procs, Begins
<1>13. CopiesPaid'
  <2>1. ASSUME NEW n \in Messages, NEW k \in 1 .. Payloads,
               \A j \in Jobs : attempt'[j].msg = n => ~Passed(j, k)'
        PROVE  \A j \in Jobs : attempt[j].msg = n => ~Passed(j, k)
    BY <1>2, <1>3, <1>4, <2>1 DEF Procs
  <2>. QED
    BY <1>2, <2>1 DEF IInv, CopiesPaid, Pending
<1>14. BoundedDuplicates'
  BY <1>2 DEF IInv, BoundedDuplicates
<1>15. LiveFirst'
  BY <1>2 DEF IInv, LiveFirst, Procs, Begins
<1>16. LiveMarked'
  BY <1>2, <1>5 DEF IInv, LiveMarked, Procs, Pending, Begins
<1>17. JobsSendUnsent'
  <2>1. ASSUME NEW j \in Jobs, attempt'[j].pc \in Sending, Trusted(attempt'[j].msg),
               NEW k \in 1 .. Payloads
        PROVE  copies[attempt'[j].msg][k].live = 0
    <3>1. CASE j = p
      <4>1. Pending(m) /\ row[m].recoveryState = "none"
        BY <1>2, <2>1, <3>1 DEF Begins, Sending
      <4>2. ~(copies[m][k].live > 0) /\ copies[m][k].live \in Nat
        BY <1>1, <1>2, <2>1, <3>1, <4>1 DEF IInv, LiveMarked, Typed
      <4>. QED
        BY <1>2, <3>1, <4>2
    <3>2. CASE j # p
      BY <1>2, <2>1, <3>2 DEF IInv, JobsSendUnsent, Procs
    <3>. QED
      BY <3>1, <3>2
  <2>. QED
    BY <1>2, <2>1 DEF JobsSendUnsent, Trusted
<1>18. NoReplayOfLiveSend'
  BY <1>2 DEF IInv, NoReplayOfLiveSend
<1>. QED
  BY <1>7, <1>8, <1>9, <1>10, <1>11, <1>12, <1>13, <1>14, <1>15, <1>16, <1>17, <1>18 DEF IInv

\* p has no message in hand and takes none; a row may be written or given up.
StaysIdle(p) ==
    /\ attempt[p].pc \notin Working /\ attempt'[p].pc \notin Working
    /\ OthersStay(p)
    /\ attempt'[p].msg = attempt[p].msg
    /\ p \in Messages => /\ attempt'[p].marked = attempt[p].marked
                         /\ attempt'[p].payload = attempt[p].payload
                         /\ \/ attempt[p].pc = "idle" /\ attempt'[p].pc = "queued"
                            \/ attempt[p].pc = "queued" /\ attempt'[p].pc = "yielded"
    /\ \A n \in Messages :
           /\ row'[n].retryCount = row[n].retryCount
           /\ row'[n].recoveryState = row[n].recoveryState
           /\ \/ row'[n].status = row[n].status
              \/ claim[n] = NoProc /\ Pending(n) /\ row'[n].status = "failed"
              \/ n = p /\ attempt[p].pc = "idle" /\ attempt'[p].pc = "queued"
                       /\ row'[n].status = "pending"
    /\ faults' \in {faults, faults + 1}
    /\ UNCHANGED <<copies, suppressed, claim, crashes>>

\* The invariant holds after a step of a process with no message in hand.
LEMMA StaysIdleKeeps ==
    ASSUME IInv, TypeOK', NEW p \in Procs, StaysIdle(p)
    PROVE  IInv'
<1>1. Typed /\ Typed'
  BY TypedFields, TypedFieldsPrimed DEF IInv
<1>2. /\ attempt[p].pc \notin Working /\ attempt'[p].pc \notin Working
      /\ attempt'[p].msg = attempt[p].msg
      /\ \A q \in Procs : q # p => attempt'[q] = attempt[q]
      /\ \A n \in Messages : row'[n].retryCount = row[n].retryCount
                             /\ row'[n].recoveryState = row[n].recoveryState
      /\ copies' = copies /\ suppressed' = suppressed
      /\ claim' = claim /\ crashes' = crashes
      /\ faults' \in {faults, faults + 1}
  BY DEF StaysIdle, OthersStay
<1>3. \A q \in Procs : attempt'[q].msg = attempt[q].msg
  BY <1>2
<1>4. \A q \in Procs, k \in 1 .. Payloads : Passed(q, k)' = Passed(q, k)
  BY <1>2 DEF Passed, Working, Sending
<1>5. \A n \in Messages : Trusted(n)' => Trusted(n)
  BY <1>1, <1>2 DEF Trusted, Typed
<1>6. OwnMessage'
  BY <1>3 DEF IInv, OwnMessage, Procs
<1>7. Claimed'
  BY <1>2 DEF IInv, Claimed
<1>8. RowsOfJobs'
  <2>1. ASSUME NEW j \in Jobs, attempt'[j].pc \in Working
        PROVE  /\ Pending(attempt[j].msg) /\ row[attempt[j].msg].retryCount < MAX_RETRIES
               /\ claim[attempt[j].msg] = j /\ attempt[j].msg \in Messages /\ j # NoProc
    BY <1>1, <1>2, <2>1, MessagesAssumption DEF IInv, RowsOfJobs, Claimed, Procs, Typed
  <2>. QED
    BY <1>2, <1>3, <2>1 DEF RowsOfJobs, Pending, StaysIdle, Procs
<1>9. AtStart'
  BY <1>2 DEF IInv, AtStart, Procs, StaysIdle, Pending, Working
<1>10. PassedIsHandled'
  BY <1>2, <1>3, <1>4 DEF IInv, PassedIsHandled, Handled, Visible
<1>11. AckedMeansHandled'
  BY <1>2 DEF IInv, AckedMeansHandled, Handled, Visible, Procs, StaysIdle
<1>12. CopiesPaid'
  <2>1. ASSUME NEW n \in Messages, NEW k \in 1 .. Payloads, Pending(n)'
        PROVE  /\ copies[n][k].recovery <= row[n].retryCount + crashes + faults' + 1
               /\ (\A j \in Jobs : attempt[j].msg = n => ~Passed(j, k))
                     => copies[n][k].recovery <= row[n].retryCount + crashes + faults'
    <3>1. copies[n][k].recovery \in Nat /\ row[n].retryCount \in Nat
          /\ crashes \in Nat /\ faults \in Nat /\ faults' \in Nat /\ faults <= faults'
      BY <1>1, <1>2 DEF Typed
    <3>2. CASE Pending(n)
      BY <3>1, <3>2 DEF IInv, CopiesPaid
    <3>3. CASE ~Pending(n)
      <4>1. n = p /\ attempt[n].pc = "idle"
        BY <2>1, <3>3 DEF StaysIdle, Pending
      <4>2. copies[n][k].recovery = 0
        BY <4>1 DEF IInv, LiveFirst
      <4>. QED
        BY <3>1, <4>2
    <3>. QED
      BY <3>2, <3>3
  <2>. QED
    BY <1>2, <1>3, <1>4, <2>1 DEF CopiesPaid, Procs
<1>13. BoundedDuplicates'
  BY <1>1, <1>2, NumbersAssumption DEF IInv, BoundedDuplicates, Typed
<1>14. LiveFirst'
  BY <1>2 DEF IInv, LiveFirst, Procs, StaysIdle, Working
<1>15. LiveMarked'
  <2>1. ASSUME NEW n \in Messages, attempt'[n].pc \in {"idle", "queued"}
        PROVE  \A k \in 1 .. Payloads : copies[n][k].live = 0
    BY <1>2, <2>1 DEF IInv, LiveMarked, Procs, StaysIdle
  <2>2. ASSUME NEW n \in Messages, Trusted(n)', Pending(n)',
               \/ attempt'[n].marked \/ attempt'[n].pc \in {"calling", "accepted"}
               \/ \E k \in 1 .. Payloads : copies[n][k].live > 0
        PROVE  row[n].recoveryState # "none"
    <3>1. Trusted(n) /\ n \in Procs
      BY <1>5, <2>2 DEF Procs
    <3>2. CASE Pending(n)
      BY <1>2, <2>2, <3>1, <3>2 DEF IInv, LiveMarked, StaysIdle, Working, Sending
    <3>3. CASE ~Pending(n)
      <4>1. n = p /\ attempt[n].pc = "idle" /\ attempt'[n].pc = "queued"
        BY <2>2, <3>3 DEF StaysIdle, Pending
      <4>. QED
        BY <1>2, <2>1, <2>2, <4>1 DEF IInv, AtStart, StaysIdle
    <3>. QED
      BY <3>2, <3>3
  <2>. QED
    BY <1>2, <2>1, <2>2 DEF LiveMarked
<1>16. JobsSendUnsent'
  BY <1>1, <1>2, <1>5 DEF IInv, JobsSendUnsent, Procs, Working, Trusted, Typed
<1>17. NoReplayOfLiveSend'
  BY <1>2, <1>5 DEF IInv, NoReplayOfLiveSend, Trusted
<1>. QED
  BY <1>6, <1>7, <1>8, <1>9, <1>10, <1>11, <1>12, <1>13, <1>14, <1>15, <1>16, <1>17 DEF IInv

\* The invariant holds after the platform has accepted a call: the caller
\* has the claim, so its payload was not visible by another's hand, or was paid for.
LEMMA AcceptKeeps ==
    ASSUME IInv, TypeOK', NEW p \in Procs, Accept(p)
    PROVE  IInv'
<1>1. Typed /\ Typed'
  BY TypedFields, TypedFieldsPrimed DEF IInv
<1>. DEFINE m == attempt[p].msg
            i == attempt[p].payload
<1>2. OneMore(p) /\ Moves(p, "accepted")
  BY AcceptFacts DEF IInv
<1>3. /\ m \in Messages /\ i \in 1 .. Payloads
      /\ attempt[p].pc = "calling" /\ attempt'[p].pc = "accepted"
      /\ attempt'[p].payload = i /\ attempt'[p].marked = attempt[p].marked
      /\ \A q \in Procs : q # p => attempt'[q] = attempt[q]
      /\ \A q \in Procs : attempt'[q].msg = attempt[q].msg
      /\ row' = row /\ suppressed' = suppressed /\ claim' = claim
      /\ faults' = faults /\ crashes' = crashes
  BY <1>1, <1>2 DEF Accept, Moves, Typed
<1>4. \A n \in Messages, k \in 1 .. Payloads : Handled(n, k) => Handled(n, k)'
  <2>1. ASSUME NEW n \in Messages, NEW k \in 1 .. Payloads
        PROVE  /\ copies[n][k].live \in Nat /\ copies[n][k].recovery \in Nat
               /\ copies'[n][k].live \in {copies[n][k].live, copies[n][k].live + 1}
               /\ copies'[n][k].recovery \in {copies[n][k].recovery, copies[n][k].recovery + 1}
    BY <1>1, <1>2 DEF OneMore, Typed
  <2>. QED
    BY <1>3, <2>1 DEF Handled, Visible
<1>5. Handled(m, i)'
  <2>1. /\ copies[m][i].live \in Nat /\ copies[m][i].recovery \in Nat
        /\ \/ copies'[m][i].live = copies[m][i].live + 1
              /\ copies'[m][i].recovery = copies[m][i].recovery
           \/ copies'[m][i].live = copies[m][i].live
              /\ copies'[m][i].recovery = copies[m][i].recovery + 1
    BY <1>1, <1>2, <1>3 DEF OneMore, Typed
  <2>2. copies'[m][i].live + copies'[m][i].recovery > 0
    BY <2>1
  <2>3. attempt'[p].msg = m /\ attempt'[p].payload = i
    BY <1>3
  <2>. QED
    BY <2>2, <2>3 DEF Handled, Visible
<1>6. \A q \in Procs, k \in 1 .. Payloads :
          Passed(q, k)' <=> Passed(q, k) \/ (q = p /\ k = i)
  <2>1. ASSUME NEW q \in Procs, q # p
        PROVE  \A k \in 1 .. Payloads : Passed(q, k)' = Passed(q, k)
    BY <1>3, <2>1 DEF Passed
  <2>2. ASSUME NEW k \in 1 .. Payloads
        PROVE  (Passed(p, k) <=> k < i) /\ (Passed(p, k)' <=> k < i \/ k = i)
    BY <1>3 DEF Passed
  <2>3. attempt'[p].payload = i
    BY <1>3
  <2>. QED
    BY <2>1, <2>2, <2>3
<1>7. \A n \in Messages : Trusted(n)' = Trusted(n) /\ Pending(n)' = Pending(n)
  BY <1>3 DEF Trusted, Pending
<1>8. \A q \in Procs : attempt[q].pc \in Working /\ attempt[q].msg = m => q = p
  BY <1>3 DEF IInv, Claimed, Working, Sending
<1>9. OwnMessage'
  BY <1>3 DEF IInv, OwnMessage, Procs
<1>10. Claimed'
  BY <1>3 DEF IInv, Claimed, Working, Sending
<1>11. RowsOfJobs'
  BY <1>3 DEF IInv, RowsOfJobs, Working, Sending, Pending, Procs
<1>12. AtStart'
  BY <1>3 DEF IInv, AtStart, Procs
<1>13. PassedIsHandled'
  BY <1>1, <1>3, <1>4, <1>5, <1>6 DEF IInv, PassedIsHandled, Typed
<1>14. AckedMeansHandled'
  BY <1>3, <1>4 DEF IInv, AckedMeansHandled, Procs
<1>15. \A n \in Messages : attempt'[n].pc \in {"idle", "queued"} \cup Sending =>
           /\ attempt[n].pc \in {"idle", "queued"} \cup Sending
           /\ n = m => n = p
  <2>1. ASSUME NEW n \in Messages, attempt'[n].pc \in {"idle", "queued"} \cup Sending
        PROVE  attempt[n].pc \in {"idle", "queued"} \cup Sending
    BY <1>3, <2>1 DEF Sending, Procs
  <2>2. ASSUME m \in Messages, attempt[m].pc \in {"idle", "queued"} \cup Sending
        PROVE  m = p
    <3>1. CASE p \in Messages
      BY <3>1 DEF IInv, OwnMessage
    <3>2. CASE p \in Jobs
      <4>1. Pending(m)
        BY <1>3, <3>2 DEF IInv, RowsOfJobs, Working, Sending
      <4>2. attempt[m].pc # "idle"
        BY <2>2, <4>1 DEF IInv, AtStart, Pending
      <4>3. attempt[m].pc # "queued"
        BY <2>2 DEF Accept, NoIO
      <4>4. attempt[m].msg = m /\ m \in Procs
        BY <2>2 DEF IInv, OwnMessage, Procs
      <4>. QED
        BY <1>8, <2>2, <4>2, <4>3, <4>4 DEF Working
    <3>. QED
      BY <3>1, <3>2 DEF Procs
  <2>. QED
    BY <2>1, <2>2
<1>16. ASSUME p \in Messages
       PROVE  p = m /\ \A k \in 1 .. Payloads : copies[m][k].recovery = 0
  BY <1>3, <1>16 DEF IInv, OwnMessage, LiveFirst, Sending
<1>17. ASSUME p \in Jobs
       PROVE  /\ ~IsLive(p) /\ Pending(m) /\ row[m].retryCount < MAX_RETRIES
              /\ copies[m][i].recovery <= row[m].retryCount + crashes + faults
              /\ Trusted(m) => \A k \in 1 .. Payloads : copies[m][k].live = 0
  <2>1. ~IsLive(p)
    BY <1>17, MessagesAssumption DEF IsLive
  <2>2. Pending(m) /\ row[m].retryCount < MAX_RETRIES
    BY <1>3, <1>17 DEF IInv, RowsOfJobs, Working, Sending
  <2>3. \A j \in Jobs : attempt[j].msg = m => ~Passed(j, i)
    <3>1. ~Passed(p, i)
      BY <1>1, <1>3 DEF Passed, Typed
    <3>2. \A j \in Jobs : Passed(j, i) /\ attempt[j].msg = m => j = p
      BY <1>8 DEF Passed, Working, Sending, Procs
    <3>. QED
      BY <3>1, <3>2
  <2>4. Trusted(m) => \A k \in 1 .. Payloads : copies[m][k].live = 0
    BY <1>3, <1>17 DEF IInv, JobsSendUnsent, Sending
  <2>. QED
    BY <1>3, <2>1, <2>2, <2>3, <2>4 DEF IInv, CopiesPaid
<1>18. \A n \in Messages, k \in 1 .. Payloads :
           \/ copies'[n][k].recovery = copies[n][k].recovery
           \/ /\ n = m /\ k = i /\ p \in Jobs
              /\ copies'[n][k].recovery = copies[n][k].recovery + 1
  BY <1>2, <1>3 DEF OneMore, IsLive, Procs
<1>19. \A n \in Messages, k \in 1 .. Payloads :
           \/ copies'[n][k].live = copies[n][k].live
           \/ n = m /\ p \in Messages
  BY <1>2, <1>3 DEF OneMore, IsLive, Procs
<1>20. CopiesPaid'
  <2>1. ASSUME NEW n \in Messages, NEW k \in 1 .. Payloads, Pending(n)
        PROVE  /\ copies'[n][k].recovery <= row[n].retryCount + crashes + faults + 1
               /\ (\A j \in Jobs : attempt[j].msg = n => ~Passed(j, k)')
                     => copies'[n][k].recovery <= row[n].retryCount + crashes + faults
    <3>1. CASE copies'[n][k].recovery = copies[n][k].recovery
      <4>1. (\A j \in Jobs : attempt[j].msg = n => ~Passed(j, k)')
                => \A j \in Jobs : attempt[j].msg = n => ~Passed(j, k)
        BY <1>6 DEF Procs
      <4>. QED
        BY <2>1, <3>1, <4>1 DEF IInv, CopiesPaid
    <3>2. CASE copies'[n][k].recovery # copies[n][k].recovery
      <4>1. n = m /\ k = i /\ p \in Jobs /\ copies'[n][k].recovery = copies[n][k].recovery + 1
        BY <1>18, <3>2
      <4>2. Passed(p, k)'
        BY <1>6, <4>1
      <4>3. /\ copies[n][k].recovery \in Nat /\ row[n].retryCount \in Nat
            /\ crashes \in Nat /\ faults \in Nat
        BY <1>1 DEF Typed
      <4>. QED
        BY <1>17, <4>1, <4>2, <4>3
    <3>. QED
      BY <3>1, <3>2
  <2>. QED
    BY <1>3, <1>7, <2>1 DEF CopiesPaid, Procs
<1>21. BoundedDuplicates'
  <2>1. ASSUME NEW n \in Messages, NEW k \in 1 .. Payloads
        PROVE  copies'[n][k].recovery <= MAX_RETRIES + crashes + faults
    <3>1. CASE copies'[n][k].recovery = copies[n][k].recovery
      BY <3>1 DEF IInv, BoundedDuplicates
    <3>2. CASE copies'[n][k].recovery # copies[n][k].recovery
      <4>1. n = m /\ k = i /\ p \in Jobs /\ copies'[n][k].recovery = copies[n][k].recovery + 1
        BY <1>18, <3>2
      <4>2. /\ copies[n][k].recovery \in Nat /\ row[n].retryCount \in Nat
            /\ crashes \in Nat /\ faults \in Nat /\ MAX_RETRIES \in Nat
        BY <1>1, NumbersAssumption DEF Typed
      <4>. QED
        BY <1>17, <4>1, <4>2
    <3>. QED
      BY <3>1, <3>2
  <2>. QED
    BY <1>3, <2>1 DEF BoundedDuplicates
<1>22. LiveFirst'
  <2>1. ASSUME NEW n \in Messages, NEW k \in 1 .. Payloads,
               attempt'[n].pc \in {"idle", "queued"} \cup Sending
        PROVE  copies'[n][k].recovery = 0
    <3>1. copies[n][k].recovery = 0 /\ (n = m => n = p)
      BY <1>15, <2>1 DEF IInv, LiveFirst
    <3>2. n \notin Jobs
      BY MessagesAssumption
    <3>. QED
      BY <1>18, <3>1, <3>2
  <2>. QED
    BY <2>1 DEF LiveFirst
<1>23. LiveMarked'
  <2>1. ASSUME NEW n \in Messages, attempt'[n].pc \in {"idle", "queued"},
               NEW k \in 1 .. Payloads
        PROVE  copies'[n][k].live = 0
    <3>1. n # p /\ attempt[n].pc \in {"idle", "queued"} /\ n \in Procs
      BY <1>3, <2>1 DEF Procs
    <3>2. ~(n = m /\ p \in Messages)
      BY <1>16, <3>1
    <3>. QED
      BY <1>19, <3>1, <3>2 DEF IInv, LiveMarked
  <2>2. ASSUME NEW n \in Messages, Trusted(n), Pending(n),
               \/ attempt'[n].marked \/ attempt'[n].pc \in {"calling", "accepted"}
               \/ \E k \in 1 .. Payloads : copies'[n][k].live > 0
        PROVE  row[n].recoveryState # "none"
    <3>1. CASE n = p
      BY <1>3, <2>2, <3>1 DEF IInv, LiveMarked
    <3>2. CASE n # p
      <4>1. ~(n = m /\ p \in Messages)
        BY <1>16, <3>2
      <4>. QED
        BY <1>3, <1>19, <2>2, <3>2, <4>1 DEF IInv, LiveMarked, Procs
    <3>. QED
      BY <3>1, <3>2
  <2>. QED
    BY <1>3, <1>7, <2>1, <2>2 DEF LiveMarked
<1>24. JobsSendUnsent'
  <2>1. ASSUME NEW j \in Jobs, attempt'[j].pc \in Sending, Trusted(attempt[j].msg),
               NEW k \in 1 .. Payloads
        PROVE  copies'[attempt[j].msg][k].live = 0
    <3>1. j \in Procs /\ j \notin Messages /\ attempt[j].pc \in Sending
          /\ attempt[j].msg \in Messages
      BY <1>1, <1>3, <2>1, MessagesAssumption DEF Procs, Sending, Typed
    <3>2. ~(attempt[j].msg = m /\ p \in Messages)
      BY <1>8, <3>1 DEF Working
    <3>. QED
      BY <1>19, <2>1, <3>1, <3>2 DEF IInv, JobsSendUnsent
  <2>. QED
    BY <1>3, <2>1 DEF JobsSendUnsent, Trusted, Procs
<1>25. NoReplayOfLiveSend'
  <2>1. ASSUME NEW n \in Messages, NEW k \in 1 .. Payloads, Trusted(n)
        PROVE  copies'[n][k].live = 0 \/ copies'[n][k].recovery = 0
    <3>1. CASE n = m /\ p \in Messages
      BY <1>16, <1>18, <3>1, MessagesAssumption
    <3>2. CASE n = m /\ p \in Jobs
      BY <1>17, <1>19, <2>1, <3>2, MessagesAssumption
    <3>3. CASE n # m
      BY <1>18, <1>19, <2>1, <3>3 DEF IInv, NoReplayOfLiveSend, Trusted
    <3>. QED
      BY <3>1, <3>2, <3>3 DEF Procs
  <2>. QED
    BY <1>3, <2>1 DEF NoReplayOfLiveSend, Trusted
<1>. QED
  BY <1>9, <1>10, <1>11, <1>12, <1>13, <1>14, <1>20, <1>21, <1>22, <1>23, <1>24, <1>25 DEF IInv

\* The invariant holds after a crash, which pays for the copies made before it.
LEMMA CrashKeeps ==
    ASSUME IInv, TypeOK', Crash
    PROVE  IInv'
<1>1. Typed /\ Typed'
  BY TypedFields, TypedFieldsPrimed DEF IInv
<1>2. /\ row' = row /\ copies' = copies /\ suppressed' = suppressed
      /\ faults' = faults /\ crashes' = crashes + 1
      /\ \A p \in Procs : AfterCrash(p)
  BY CrashFacts DEF Crash, IInv
<1>3. \A p \in Procs : attempt'[p].msg = attempt[p].msg /\ attempt'[p].pc \notin Working \cup {"queued"}
  BY <1>2 DEF AfterCrash, Over, Working, Sending
<1>4. \A m \in Messages : /\ attempt'[m].pc = "idle" => attempt'[m] = attempt[m]
                          /\ attempt[m].pc = "aborted" => attempt'[m].pc = "aborted"
                          /\ attempt'[m].marked = attempt[m].marked
  BY <1>2 DEF AfterCrash, Over, IsLive, Procs
<1>5. \A p \in Procs, k \in 1 .. Payloads : ~Passed(p, k)'
  BY <1>3 DEF Passed, Working, Sending
<1>6. OwnMessage'
  BY <1>3 DEF IInv, OwnMessage, Procs
<1>7. Claimed' /\ RowsOfJobs'
  BY <1>3 DEF Claimed, RowsOfJobs, Procs
<1>8. AtStart'
  BY <1>2, <1>3, <1>4 DEF IInv, AtStart, Procs, Working
<1>9. PassedIsHandled'
  BY <1>5 DEF PassedIsHandled
<1>10. AckedMeansHandled'
  BY <1>2, <1>4 DEF IInv, AckedMeansHandled, Handled, Visible
<1>11. CopiesPaid'
  BY <1>1, <1>2 DEF IInv, CopiesPaid, Pending, Typed
<1>12. BoundedDuplicates'
  BY <1>1, <1>2, NumbersAssumption DEF IInv, BoundedDuplicates, Typed
<1>13. LiveFirst'
  BY <1>2, <1>3, <1>4 DEF IInv, LiveFirst, Procs, Working
<1>14. LiveMarked'
  BY <1>2, <1>3, <1>4 DEF IInv, LiveMarked, Procs, Working, Sending, Trusted, Pending
<1>15. JobsSendUnsent'
  BY <1>3 DEF JobsSendUnsent, Working, Procs
<1>16. NoReplayOfLiveSend'
  BY <1>2 DEF IInv, NoReplayOfLiveSend
<1>. QED
  BY <1>6, <1>7, <1>8, <1>9, <1>10, <1>11, <1>12, <1>13, <1>14, <1>15, <1>16 DEF IInv

-----------------------------------------------------------------------------
(* Each action has one of the shapes.                                       *)

\* The storage fails no more than MaxFaults times.
LEMMA FaultTypes ==
    ASSUME TypeOK, StorageFault \/ UNCHANGED faults
    PROVE  faults' \in 0 .. MaxFaults /\ faults' \in {faults, faults + 1}
BY NumbersAssumption DEF TypeOK, StorageFault

\* What is written when p is done with its message, and what for.
LastWrite(p, outcome) ==
    LET m == attempt[p].msg
    IN  \/ failDelivery(m) /\ UNCHANGED faults
        \/ moveToFailed(m) /\ UNCHANGED faults
        \/ /\ ackDelivery(m) /\ UNCHANGED faults
           /\ \/ m \in BestEffort
              \/ p = m /\ outcome = "aborted"
              \/ \A k \in 1 .. Payloads : Handled(m, k)
        \/ failDelivery(m) /\ StorageFault
        \/ UNCHANGED row /\ StorageFault
        \/ UNCHANGED <<row, faults>> /\ p \in Messages

\* Whoever releases its message after one of the last writes leaves it.
LEMMA ReleaseLeaves ==
    ASSUME IInv, NEW p \in Procs, attempt[p].pc \in Working,
           NEW outcome \in {"draining", "done", "threw", "aborted"}, Release(p, outcome),
           LastWrite(p, outcome), UNCHANGED <<copies, suppressed, todo, toStart, crashes>>
    PROVE  TypeOK' /\ Leaves(p)
<1>. DEFINE m == attempt[p].msg
            pc == IF IsLive(p) THEN outcome ELSE "draining"
<1>1. TypeOK /\ Typed
  BY TypedFields DEF IInv
<1>2. m \in Messages /\ row \in [Messages -> Row] /\ row[m].retryCount \in Nat
  BY <1>1 DEF TypeOK, Typed
<1>3. outcome \in PCs
  BY DEF PCs
<1>4. /\ attempt' \in [Procs -> Attempt] /\ claim' \in [Messages -> Procs \cup {NoProc}]
      /\ Moves(p, pc) /\ Unclaimed(p)
  BY <1>1, <1>3, ReleaseFacts
<1>5. pc \in {"draining", "done", "threw", "aborted"} /\ (p = m => pc = outcome)
  BY <1>2 DEF IsLive
<1>6. faults' \in 0 .. MaxFaults /\ faults' \in {faults, faults + 1}
  BY <1>1, FaultTypes DEF LastWrite
<1>7. p \in Jobs => Pending(m) /\ p \notin Messages
  BY MessagesAssumption DEF IInv, RowsOfJobs
<1>. DEFINE may == \/ m \in BestEffort
                   \/ p = m /\ outcome = "aborted"
                   \/ \A k \in 1 .. Payloads : Handled(m, k)
<1>8. \/ failDelivery(m)
      \/ moveToFailed(m)
      \/ ackDelivery(m) /\ may
      \/ UNCHANGED row /\ StorageFault
      \/ UNCHANGED row /\ p \in Messages
  BY DEF LastWrite
<1>. HIDE DEF may
<1>9. /\ row' \in [Messages -> Row] /\ OnlyRow(m)
      /\ row'[m].retryCount \in {row[m].retryCount, row[m].retryCount + 1}
      /\ row'[m].recoveryState = row[m].recoveryState
      /\ \/ row'[m].status = row[m].status
         \/ row'[m].status = "failed" /\ Pending(m)
         \/ row'[m].status = "acked" /\ Pending(m) /\ may
      /\ p \in Jobs => \/ row'[m].status # "pending"
                       \/ row'[m].retryCount = row[m].retryCount + 1
                       \/ faults' = faults + 1
  <2>1. CASE failDelivery(m)
    BY <1>2, <1>7, <2>1, FailFacts
  <2>2. CASE moveToFailed(m)
    BY <1>2, <1>7, <2>2, MoveToFailedFacts
  <2>3. CASE ackDelivery(m) /\ may
    BY <1>2, <1>7, <2>3, AckFacts
  <2>4. CASE UNCHANGED row /\ StorageFault
    BY <1>2, <2>4 DEF OnlyRow, StorageFault
  <2>5. CASE UNCHANGED row /\ p \in Messages
    BY <1>2, <1>7, <2>5 DEF OnlyRow
  <2>. QED
    BY <1>8, <2>1, <2>2, <2>3, <2>4, <2>5
<1>. HIDE DEF pc
<1>10. Leaves(p)
  BY <1>4, <1>5, <1>6, <1>9 DEF Leaves, Moves, OthersStay, may
<1>11. TypeOK'
  BY <1>1, <1>4, <1>6, <1>9 DEF TypeOK
<1>. QED
  BY <1>10, <1>11

\* A call, with the row of a live send marked.
LEMMA BeginCallShape ==
    ASSUME IInv, NEW p \in Procs, BeginCall(p)
    PROVE  TypeOK' /\ GoesOn(p)
<1>1. TypeOK /\ Typed /\ attempt[p].pc = "ready" /\ attempt[p].msg \in Messages
  BY TypedFields DEF IInv, BeginCall, Typed
<1>2. attempt \in [Procs -> Attempt] /\ row \in [Messages -> Row] /\ "calling" \in PCs
  BY <1>1 DEF TypeOK, PCs, Sending
<1>3. CASE IsLive(p) /\ ~attempt[p].marked
  <2>. DEFINE a == [attempt[p] EXCEPT !.pc = "calling", !.marked = TRUE]
  <2>1. /\ p \in Messages /\ p \notin Jobs /\ attempt[p].msg = p
        /\ mark(p, "send_attempt_started") /\ Pending(p)
        /\ attempt' = [attempt EXCEPT ![p] = a]
    BY <1>3, MessagesAssumption DEF BeginCall, IsLive, IInv, OwnMessage
  <2>2. a \in Attempt /\ a.pc = "calling" /\ a.msg = p /\ a.payload = attempt[p].payload
    BY <1>2, <2>1, MarkedFields
  <2>. HIDE DEF a
  <2>3. attempt' \in [Procs -> Attempt] /\ attempt'[p] = a /\ OthersStay(p)
    BY <1>2, <2>1, <2>2 DEF OthersStay
  <2>4. /\ row' \in [Messages -> Row] /\ OnlyRow(p)
        /\ row'[p].status = row[p].status /\ row'[p].retryCount = row[p].retryCount
        /\ row'[p].recoveryState = "send_attempt_started"
    BY <1>2, <2>1, MarkFacts
  <2>5. \A k \in 1 .. Payloads : Passed(p, k)' <=> Passed(p, k)
    BY <1>1, <2>2, <2>3 DEF Passed
  <2>6. GoesOn(p)
    BY <1>1, <2>1, <2>2, <2>3, <2>4, <2>5 DEF GoesOn, OnlyRow, BeginCall, Working, Sending
  <2>. QED
    BY <1>1, <2>3, <2>4, <2>6 DEF TypeOK, BeginCall
<1>4. CASE ~(IsLive(p) /\ ~attempt[p].marked)
  <2>1. Goto(p, "calling") /\ row' = row
    BY <1>4 DEF BeginCall
  <2>2. attempt' \in [Procs -> Attempt] /\ Moves(p, "calling")
    BY <1>2, <2>1, GotoFacts
  <2>3. \A k \in 1 .. Payloads : Passed(p, k)' <=> Passed(p, k)
    BY <1>1, <2>2 DEF Passed, Moves
  <2>4. p \in Messages /\ Trusted(p)' /\ Pending(p) => row[p].recoveryState # "none"
    BY <1>4 DEF IInv, LiveMarked, IsLive, Trusted, BeginCall
  <2>5. GoesOn(p)
    BY <1>1, <2>1, <2>2, <2>3, <2>4 DEF GoesOn, BeginCall, Moves, OthersStay, Working, Sending
  <2>. QED
    BY <1>1, <2>1, <2>2, <2>5 DEF TypeOK, BeginCall
<1>. QED
  BY <1>3, <1>4

\* A call without the mark, or none.
LEMMA BeginCallMarkFailsShape ==
    ASSUME IInv, NEW p \in Procs, BeginCallMarkFails(p)
    PROVE  TypeOK' /\ (GoesOn(p) \/ Leaves(p))
<1>1. TypeOK /\ Typed /\ attempt[p].pc = "ready" /\ attempt[p].msg \in Messages
  BY TypedFields DEF IInv, BeginCallMarkFails, Typed
<1>2. /\ attempt \in [Procs -> Attempt] /\ "calling" \in PCs /\ attempt[p].pc \in Working
      /\ p \in Messages /\ p \notin Jobs /\ attempt[p].msg = p
  BY <1>1, MessagesAssumption
     DEF TypeOK, PCs, Sending, Working, BeginCallMarkFails, IsLive, IInv, OwnMessage
<1>3. CASE p \in Required /\ p \notin BestEffort
  <2>1. Release(p, "threw") /\ LastWrite(p, "threw")
    BY <1>2, <1>3 DEF BeginCallMarkFails, LastWrite, failDelivery, Pending
  <2>. QED
    BY <1>2, <2>1, ReleaseLeaves DEF BeginCallMarkFails
<1>4. CASE ~(p \in Required /\ p \notin BestEffort)
  <2>1. /\ p \notin Required /\ Goto(p, "calling") /\ row' = row /\ claim' = claim
        /\ ~Pending(p) \/ faults' = faults + 1
        /\ faults' \in 0 .. MaxFaults /\ faults' \in {faults, faults + 1}
    BY <1>1, <1>4, FaultTypes DEF BeginCallMarkFails, StorageFault
  <2>2. attempt' \in [Procs -> Attempt] /\ Moves(p, "calling")
    BY <1>2, <2>1, GotoFacts
  <2>3. \A k \in 1 .. Payloads : Passed(p, k)' <=> Passed(p, k)
    BY <1>1, <2>2 DEF Passed, Moves
  <2>4. ~(Trusted(p)' /\ Pending(p))
    BY <1>1, <2>1 DEF Trusted, Typed
  <2>5. GoesOn(p)
    BY <1>1, <1>2, <2>1, <2>2, <2>3, <2>4
       DEF GoesOn, BeginCallMarkFails, Moves, OthersStay, Working, Sending
  <2>. QED
    BY <1>1, <2>1, <2>2, <2>5 DEF TypeOK, BeginCallMarkFails
<1>. QED
  BY <1>3, <1>4

\* Reasons for which payloads were passed over are kept.
Suppresses ==
    /\ suppressed' \in [Messages -> [1 .. Payloads -> Reason]]
    /\ \A n \in Messages, k \in 1 .. Payloads :
           suppressed[n][k] # "none" => suppressed'[n][k] # "none"

\* The next payload after one that was accepted or passed over or, with
\* bestEffort, has failed.
LEMMA OnwardGoesOn ==
    ASSUME IInv, NEW p \in Procs, NEW partial \in BOOLEAN, NextPayload(p, partial),
           attempt[p].pc \in {"ready", "calling", "accepted"}, Suppresses,
           \/ attempt[p].pc = "accepted" \/ attempt[p].msg \in BestEffort
           \/ suppressed'[attempt[p].msg][attempt[p].payload] # "none",
           UNCHANGED <<row, copies, claim, todo, toStart, faults, crashes>>
    PROVE  TypeOK' /\ GoesOn(p)
<1>1. TypeOK /\ Typed /\ attempt[p].payload \in 1 .. Payloads
  BY TypedFields DEF IInv, Typed
<1>2. attempt' \in [Procs -> Attempt] /\ Onward(p)
  BY <1>1, NextPayloadFacts
<1>3. ASSUME NEW k \in 1 .. Payloads
      PROVE  /\ Passed(p, k) => Passed(p, k)'
             /\ Passed(p, k)' => \/ Passed(p, k) \/ attempt[p].msg \in BestEffort
                                 \/ suppressed'[attempt[p].msg][k] # "none"
  <2>1. Passed(p, k) =>
          k < attempt[p].payload \/ (attempt[p].pc = "accepted" /\ k = attempt[p].payload)
    BY DEF Passed
  <2>2. Passed(p, k)' <=>
          attempt'[p].pc = "returned" \/ (attempt'[p].pc = "ready" /\ k < attempt'[p].payload)
    BY <1>2 DEF Passed, Onward
  <2>3. k < attempt[p].payload \/ k = attempt[p].payload \/ k > attempt[p].payload
    BY <1>1
  <2>4. attempt[p].payload = Payloads => ~(k > attempt[p].payload)
    BY NumbersAssumption
  <2>5. /\ k < attempt[p].payload => Passed(p, k)
        /\ attempt[p].pc = "accepted" /\ k = attempt[p].payload => Passed(p, k)
    BY DEF Passed
  <2>6. k < attempt[p].payload + 1 <=> k < attempt[p].payload \/ k = attempt[p].payload
    BY <1>1
  <2>. QED
    BY <1>2, <2>1, <2>2, <2>3, <2>4, <2>5, <2>6 DEF Onward
<1>4. GoesOn(p)
  <2>1. p \in Messages /\ Pending(p) /\ Trusted(p)' /\ attempt'[p].pc \in {"calling", "accepted"}
          => row'[p].recoveryState # "none"
    BY <1>2 DEF Onward
  <2>. QED
    BY <1>2, <1>3, <2>1 DEF GoesOn, Onward, Suppresses, Working, Sending
<1>. QED
  BY <1>1, <1>2, <1>4 DEF TypeOK, Suppresses

\* A payload is sent.
LEMMA PayloadSentShape ==
    ASSUME IInv, NEW p \in Procs, PayloadSent(p)
    PROVE  TypeOK' /\ GoesOn(p)
<1>1. attempt[p].partial \in BOOLEAN
  BY AttemptTypes DEF IInv, TypeOK
<1>2. Suppresses
  BY DEF PayloadSent, Suppresses, IInv, TypeOK
<1>. QED
  BY <1>1, <1>2, OnwardGoesOn DEF PayloadSent

\* A payload is passed over, and the reason noted.
LEMMA PayloadSuppressedShape ==
    ASSUME IInv, NEW p \in Procs, PayloadSuppressed(p)
    PROVE  TypeOK' /\ GoesOn(p)
<1>. DEFINE m == attempt[p].msg
            k == attempt[p].payload
            reason == IF attempt[p].pc = "ready" THEN "withheld" ELSE "no_identity"
<1>1. /\ suppressed \in [Messages -> [1 .. Payloads -> Reason]]
      /\ attempt[p].partial \in BOOLEAN /\ m \in Messages /\ k \in 1 .. Payloads
  BY AttemptTypes DEF IInv, TypeOK
<1>2. reason \in Reason /\ reason # "none"
  BY DEF Reason
<1>3. suppressed' = [suppressed EXCEPT ![m] = [suppressed[m] EXCEPT ![k] = reason]]
  BY DEF PayloadSuppressed
<1>. HIDE DEF reason
<1>4. suppressed'[m][k] = reason /\ Suppresses
  BY <1>1, <1>2, <1>3 DEF Suppresses
<1>5. attempt[p].pc \in {"ready", "calling", "accepted"}
  BY DEF PayloadSuppressed
<1>. QED
  BY <1>1, <1>2, <1>4, <1>5, OnwardGoesOn DEF PayloadSuppressed

\* A payload of a best-effort send fails, and the send goes on.
LEMMA PayloadFailsShape ==
    ASSUME IInv, NEW p \in Procs, PayloadFails(p)
    PROVE  TypeOK' /\ GoesOn(p)
<1>1. Suppresses
  BY DEF PayloadFails, Suppresses, IInv, TypeOK
<1>. QED
  BY <1>1, OnwardGoesOn DEF PayloadFails, MayFail

\* A send fails and is over.
LEMMA SendFailsShape ==
    ASSUME IInv, NEW p \in Procs, NEW permanent \in BOOLEAN, SendFails(p, permanent)
    PROVE  TypeOK' /\ Leaves(p)
<1>. DEFINE m == attempt[p].msg
<1>1. attempt[p].pc \in Working
  BY DEF SendFails, MayFail, Working, Sending
<1>2. /\ Release(p, "threw")
      /\ Try(IF permanent THEN moveToFailed(m) ELSE failDelivery(m))
  BY DEF SendFails
<1>3. LastWrite(p, "threw")
  <2>1. CASE permanent
    BY <1>2, <2>1 DEF Try, LastWrite
  <2>2. CASE ~permanent
    BY <1>2, <2>2 DEF Try, LastWrite
  <2>. QED
    BY <2>1, <2>2
<1>. QED
  BY <1>1, <1>2, <1>3, ReleaseLeaves DEF SendFails

\* A live send is aborted, partial or acked.
LEMMA LiveEndShapes ==
    ASSUME IInv, NEW m \in Messages,
           Abort(m) \/ FailPartial(m) \/ AckLive(m)
    PROVE  TypeOK' /\ Leaves(m)
<1>1. m \in Procs /\ attempt[m].msg = m /\ attempt[m].pc \in Working
  BY DEF Procs, IInv, OwnMessage, Abort, FailPartial, AckLive, Working, Sending
<1>2. ASSUME AckLive(m), m \notin BestEffort
      PROVE  \A k \in 1 .. Payloads : Handled(m, k)
  BY <1>1, <1>2 DEF AckLive, IInv, PassedIsHandled, Passed
<1>3. CASE Abort(m)
  <2>1. Release(m, "aborted") /\ LastWrite(m, "aborted")
    BY <1>1, <1>3 DEF Abort, Try, LastWrite
  <2>. QED
    BY <1>1, <1>3, <2>1, ReleaseLeaves DEF Abort
<1>4. CASE FailPartial(m)
  <2>1. Release(m, "done") /\ LastWrite(m, "done")
    BY <1>1, <1>4 DEF FailPartial, Try, LastWrite
  <2>. QED
    BY <1>1, <1>4, <2>1, ReleaseLeaves DEF FailPartial
<1>5. CASE AckLive(m)
  <2>1. Release(m, "done") /\ LastWrite(m, "done")
    BY <1>1, <1>2, <1>5 DEF AckLive, LastWrite
  <2>. QED
    BY <1>1, <1>5, <2>1, ReleaseLeaves DEF AckLive
<1>. QED
  BY <1>3, <1>4, <1>5

\* The results of m's live send are back, and its row is marked again or not.
\* A live send with its results goes on to its ack.
LEMMA UnknownGoesOn ==
    ASSUME IInv, NEW m \in Messages, attempt[m].pc = "returned", Goto(m, "unknown"),
           mark(m, "unknown_after_send") \/ UNCHANGED row,
           StorageFault \/ UNCHANGED faults,
           UNCHANGED <<copies, suppressed, claim, todo, toStart, crashes>>
    PROVE  TypeOK' /\ GoesOn(m)
<1>1. /\ TypeOK /\ m \in Procs /\ m \notin Jobs /\ attempt[m].msg = m /\ "unknown" \in PCs
      /\ attempt \in [Procs -> Attempt] /\ row \in [Messages -> Row]
  BY MessagesAssumption DEF IInv, TypeOK, Procs, OwnMessage, PCs, Sending
<1>2. attempt' \in [Procs -> Attempt] /\ Moves(m, "unknown")
  BY <1>1, GotoFacts
<1>3. /\ row' \in [Messages -> Row]
      /\ \A n \in Messages :
             /\ row'[n].status = row[n].status /\ row'[n].retryCount = row[n].retryCount
             /\ row[n].recoveryState # "none" => row'[n].recoveryState # "none"
  <2>1. CASE mark(m, "unknown_after_send")
    BY <1>1, <2>1, MarkFacts DEF OnlyRow
  <2>2. CASE UNCHANGED row
    BY <1>1, <2>2
  <2>. QED
    BY <2>1, <2>2
<1>4. faults' \in 0 .. MaxFaults /\ faults' \in {faults, faults + 1}
  BY <1>1, FaultTypes
<1>5. \A k \in 1 .. Payloads : Passed(m, k)' <=> Passed(m, k)
  BY <1>2 DEF Passed, Moves
<1>6. GoesOn(m)
  BY <1>1, <1>2, <1>3, <1>4, <1>5 DEF GoesOn, Moves, OthersStay, Working, Sending
<1>. QED
  BY <1>1, <1>2, <1>3, <1>4, <1>6 DEF TypeOK

\* The mark of the unknown outcome, written or not.
LEMMA OutcomeShapes ==
    ASSUME IInv, NEW m \in Messages, MarkOutcomeUnknown(m) \/ LiveWriteFails(m)
    PROVE  TypeOK' /\ (GoesOn(m) \/ Leaves(m))
<1>1. m \in Procs /\ attempt[m].pc \in Working
  BY DEF Procs, MarkOutcomeUnknown, LiveWriteFails, Working, Sending
<1>2. CASE MarkOutcomeUnknown(m)
  BY <1>2, UnknownGoesOn DEF MarkOutcomeUnknown
<1>3. CASE LiveWriteFails(m) /\ attempt[m].pc = "returned" /\ m \notin Required
  BY <1>3, UnknownGoesOn DEF LiveWriteFails
<1>4. ASSUME LiveWriteFails(m), NEW outcome \in {"threw", "done"}, Release(m, outcome)
      PROVE  TypeOK' /\ Leaves(m)
  <2>1. LastWrite(m, outcome)
    BY <1>4 DEF LiveWriteFails, LastWrite
  <2>. QED
    BY <1>1, <1>4, <2>1, ReleaseLeaves DEF LiveWriteFails
<1>5. CASE LiveWriteFails(m) /\ ~(attempt[m].pc = "returned" /\ m \notin Required)
  BY <1>4, <1>5 DEF LiveWriteFails
<1>. QED
  BY <1>2, <1>3, <1>5

\* A recovered send is acked, or its ack fails.
LEMMA JobEndShapes ==
    ASSUME IInv, NEW j \in Jobs, AckRecovered(j) \/ RecoveredAckFails(j)
    PROVE  TypeOK' /\ Leaves(j)
<1>1. j \in Procs /\ attempt[j].pc \in Working
  BY DEF Procs, AckRecovered, RecoveredAckFails, Working, Sending
<1>2. CASE AckRecovered(j)
  <2>1. attempt[j].msg \in BestEffort \/ \A k \in 1 .. Payloads : Handled(attempt[j].msg, k)
    BY <1>1, <1>2 DEF AckRecovered, IInv, PassedIsHandled, Passed
  <2>2. Release(j, "draining") /\ LastWrite(j, "draining")
    BY <1>2, <2>1 DEF AckRecovered, LastWrite
  <2>. QED
    BY <1>1, <1>2, <2>2, ReleaseLeaves DEF AckRecovered
<1>3. CASE RecoveredAckFails(j)
  <2>1. Release(j, "draining") /\ LastWrite(j, "draining")
    BY <1>3 DEF RecoveredAckFails, LastWrite
  <2>. QED
    BY <1>1, <1>3, <2>1, ReleaseLeaves DEF RecoveredAckFails
<1>. QED
  BY <1>2, <1>3

\* Each answer of the adapter: only "not_sent" lets the job send.
LEMMA ReconcileShape ==
    ASSUME IInv, NEW j \in Jobs,
           NEW answer \in {"sent", "not_sent", "retryable", "unresolved"}, Reconcile(j, answer)
    PROVE  TypeOK' /\ (GoesOn(j) \/ Leaves(j))
<1>. DEFINE m == attempt[j].msg
<1>1. /\ TypeOK /\ Typed /\ j \in Procs /\ j \notin Messages /\ m \in Messages
      /\ attempt[j].pc = "reconciling" /\ attempt[j].pc \in Working
  BY TypedFields, MessagesAssumption DEF IInv, Procs, Typed, Reconcile, Working
<1>2. CASE answer = "not_sent"
  <2>1. \A k \in 1 .. Payloads : ~Visible(m, k)
    BY <1>2 DEF Reconcile, Answers
  <2>2. Goto(j, "ready") /\ row' = row /\ claim' = claim /\ faults' = faults
    BY <1>2 DEF Reconcile
  <2>3. attempt \in [Procs -> Attempt] /\ "ready" \in PCs
    BY <1>1 DEF TypeOK, PCs, Sending
  <2>4. attempt' \in [Procs -> Attempt] /\ Moves(j, "ready")
    BY <1>1, <2>2, <2>3, GotoFacts
  <2>5. \A k \in 1 .. Payloads : ~Passed(j, k) /\ ~Passed(j, k)'
    BY <1>1, <2>4 DEF Passed, Moves, IInv, AtStart
  <2>6. GoesOn(j)
    BY <1>1, <2>1, <2>2, <2>4, <2>5 DEF GoesOn, Moves, OthersStay, Sending, Reconcile
  <2>. QED
    BY <1>1, <2>2, <2>4, <2>6 DEF TypeOK, Reconcile
<1>3. CASE answer # "not_sent"
  <2>1. Release(j, "draining")
    BY <1>3 DEF Reconcile
  <2>2. CASE answer = "sent"
    <3>1. \A k \in 1 .. Payloads : Handled(m, k)
      BY <2>2 DEF Reconcile, Answers
    <3>2. ackDelivery(m) /\ UNCHANGED faults
      BY <2>2 DEF Reconcile
    <3>. QED
      BY <1>1, <2>1, <3>1, <3>2, ReleaseLeaves DEF LastWrite, Reconcile
  <2>3. CASE answer = "retryable"
    <3>1. Try(failDelivery(m))
      BY <2>3 DEF Reconcile
    <3>. QED
      BY <1>1, <2>1, <3>1, ReleaseLeaves DEF LastWrite, Reconcile, Try
  <2>4. CASE answer = "unresolved"
    <3>1. Try(moveToFailed(m))
      BY <2>4 DEF Reconcile
    <3>. QED
      BY <1>1, <2>1, <3>1, ReleaseLeaves DEF LastWrite, Reconcile, Try
  <2>. QED
    BY <1>3, <2>2, <2>3, <2>4
<1>. QED
  BY <1>2, <1>3

\* The live send claims its message, or yields to a job.
LEMMA ClaimShape ==
    ASSUME IInv, NEW m \in Messages, Claim(m)
    PROVE  TypeOK' /\ (Begins(m, m) \/ StaysIdle(m))
<1>1. /\ TypeOK /\ m \in Procs /\ m \notin Jobs /\ attempt[m].msg = m
      /\ attempt[m].pc = "queued" /\ attempt[m].payload = 1 /\ attempt[m].marked = FALSE
  BY MessagesAssumption DEF IInv, Procs, OwnMessage, AtStart, Claim
<1>2. /\ attempt \in [Procs -> Attempt] /\ claim \in [Messages -> Procs \cup {NoProc}]
      /\ "ready" \in PCs /\ "yielded" \in PCs
  BY <1>1 DEF TypeOK, PCs, Sending
<1>3. CASE claim[m] = NoProc
  <2>1. Goto(m, "ready") /\ claim' = [claim EXCEPT ![m] = m]
    BY <1>3 DEF Claim
  <2>2. attempt' \in [Procs -> Attempt] /\ Moves(m, "ready")
    BY <1>1, <1>2, <2>1, GotoFacts
  <2>3. /\ claim' \in [Messages -> Procs \cup {NoProc}]
        /\ claim'[m] = m /\ \A n \in Messages : n # m => claim'[n] = claim[n]
    BY <1>1, <1>2, <2>1
  <2>4. Begins(m, m)
    BY <1>1, <1>3, <2>2, <2>3 DEF Begins, Moves, OthersStay, Claim, Working, Sending
  <2>. QED
    BY <1>1, <2>2, <2>3, <2>4 DEF TypeOK, Claim
<1>4. CASE claim[m] # NoProc
  <2>1. Goto(m, "yielded") /\ claim' = claim
    BY <1>4 DEF Claim
  <2>2. attempt' \in [Procs -> Attempt] /\ Moves(m, "yielded")
    BY <1>1, <1>2, <2>1, GotoFacts
  <2>3. StaysIdle(m)
    BY <1>1, <2>1, <2>2 DEF StaysIdle, Moves, OthersStay, Claim, Working, Sending
  <2>. QED
    BY <1>1, <2>1, <2>2, <2>3 DEF TypeOK, Claim
<1>. QED
  BY <1>3, <1>4

\* The row is written.
LEMMA EnqueueShape ==
    ASSUME IInv, NEW m \in Messages, EnqueueDelivery(m)
    PROVE  TypeOK' /\ StaysIdle(m)
<1>. DEFINE r == [row[m] EXCEPT !.status = "pending"]
<1>1. /\ TypeOK /\ m \in Procs /\ attempt[m].pc = "idle" /\ "queued" \in PCs
      /\ attempt \in [Procs -> Attempt] /\ row \in [Messages -> Row]
      /\ Goto(m, "queued") /\ row' = [row EXCEPT ![m] = r]
  BY DEF IInv, Procs, EnqueueDelivery, PCs, TypeOK
<1>2. attempt' \in [Procs -> Attempt] /\ Moves(m, "queued")
  BY <1>1, GotoFacts
<1>3. /\ r \in Row /\ r.status = "pending" /\ r.retryCount = row[m].retryCount
      /\ r.recoveryState = row[m].recoveryState
  BY <1>1, StatusField
<1>. HIDE DEF r
<1>4. row' \in [Messages -> Row] /\ row'[m] = r /\ OnlyRow(m)
  BY <1>1, <1>3 DEF OnlyRow
<1>5. m \notin Jobs
  BY MessagesAssumption
<1>6. StaysIdle(m)
  BY <1>1, <1>2, <1>3, <1>4, <1>5
     DEF StaysIdle, Moves, OthersStay, OnlyRow, EnqueueDelivery, Working, Sending
<1>. QED
  BY <1>1, <1>2, <1>4, <1>6 DEF TypeOK, EnqueueDelivery

\* A job starts, ends, or skips a row.
LEMMA JobIdleShapes ==
    ASSUME IInv, NEW j \in Jobs,
           StartJob(j) \/ EndJob(j) \/ \E m \in Messages : Skip(j, m)
    PROVE  TypeOK' /\ StaysIdle(j)
<1>1. /\ TypeOK /\ j \in Procs /\ j \notin Messages
      /\ attempt \in [Procs -> Attempt] /\ "draining" \in PCs /\ "idle" \in PCs
  BY MessagesAssumption DEF IInv, Procs, PCs, TypeOK
<1>2. /\ attempt[j].pc \notin Working
      /\ todo' \in [Jobs -> SUBSET Messages] /\ toStart' \subseteq StartupJobs
      /\ UNCHANGED <<row, copies, suppressed, claim, faults, crashes>>
  BY <1>1 DEF StartJob, Snapshot, EndJob, Skip, TypeOK, Working, Sending
<1>3. Goto(j, "draining") \/ Goto(j, "idle") \/ attempt' = attempt
  BY DEF StartJob, EndJob, Skip
<1>4. /\ attempt' \in [Procs -> Attempt] /\ OthersStay(j)
      /\ attempt'[j].msg = attempt[j].msg /\ attempt'[j].pc \notin Working
  <2>1. CASE Goto(j, "draining")
    BY <1>1, <2>1, GotoFacts DEF Moves, OthersStay, Working, Sending
  <2>2. CASE Goto(j, "idle")
    BY <1>1, <2>2, GotoFacts DEF Moves, OthersStay, Working, Sending
  <2>3. CASE attempt' = attempt
    BY <1>1, <1>2, <2>3 DEF OthersStay
  <2>. QED
    BY <1>3, <2>1, <2>2, <2>3
<1>5. StaysIdle(j)
  BY <1>1, <1>2, <1>4 DEF StaysIdle
<1>. QED
  BY <1>1, <1>2, <1>4, <1>5 DEF TypeOK

\* A job gives up a row whose retries are used up.
LEMMA GiveUpShape ==
    ASSUME IInv, NEW j \in Jobs, NEW m \in Messages, GiveUp(j, m)
    PROVE  TypeOK' /\ StaysIdle(j)
<1>1. /\ TypeOK /\ j \in Procs /\ j \notin Messages /\ "idle" \in PCs
      /\ attempt \in [Procs -> Attempt] /\ row \in [Messages -> Row]
      /\ attempt[j].pc \notin Working /\ claim[m] = NoProc /\ Pending(m)
  BY MessagesAssumption DEF IInv, Procs, PCs, TypeOK, GiveUp, Working, Sending
<1>2. /\ row' \in [Messages -> Row]
      /\ \A n \in Messages :
             /\ row'[n].retryCount = row[n].retryCount
             /\ row'[n].recoveryState = row[n].recoveryState
             /\ \/ row'[n].status = row[n].status
                \/ n = m /\ row'[n].status = "failed"
  <2>1. CASE moveToFailed(m)
    BY <1>1, <2>1, MoveToFailedFacts DEF OnlyRow
  <2>2. CASE UNCHANGED row
    BY <1>1, <2>2
  <2>. QED
    BY <2>1, <2>2 DEF GiveUp, Try
<1>3. faults' \in 0 .. MaxFaults /\ faults' \in {faults, faults + 1}
  BY <1>1, FaultTypes DEF GiveUp, Try
<1>4. /\ attempt' \in [Procs -> Attempt] /\ OthersStay(j)
      /\ attempt'[j].msg = attempt[j].msg /\ attempt'[j].pc \notin Working
  <2>1. CASE Goto(j, "idle")
    BY <1>1, <2>1, GotoFacts DEF Moves, OthersStay, Working, Sending
  <2>2. CASE attempt' = attempt
    BY <1>1, <2>2 DEF OthersStay
  <2>. QED
    BY <2>1, <2>2 DEF GiveUp
<1>5. todo' \in [Jobs -> SUBSET Messages]
  BY <1>1 DEF GiveUp, TypeOK
<1>6. StaysIdle(j)
  BY <1>1, <1>2, <1>3, <1>4 DEF StaysIdle, GiveUp
<1>. QED
  BY <1>1, <1>2, <1>3, <1>4, <1>5, <1>6 DEF TypeOK, GiveUp

\* A job takes a row that is pending, unclaimed and has retries left.
LEMMA TakeShape ==
    ASSUME IInv, NEW j \in Jobs, NEW m \in Messages, Take(j, m)
    PROVE  TypeOK' /\ Begins(j, m)
<1>1. TypeOK /\ j \in Procs /\ j \notin Messages /\ Taken(j, m)
  BY MessagesAssumption DEF IInv, Procs, Take
<1>2. /\ attempt' \in [Procs -> Attempt] /\ claim' \in [Messages -> Procs \cup {NoProc}]
      /\ todo' \in [Jobs -> SUBSET Messages]
      /\ Starts(j, m, IF row[m].recoveryState = "none" THEN "ready" ELSE "reconciling")
      /\ claim'[m] = j /\ \A n \in Messages : n # m => claim'[n] = claim[n]
  BY <1>1, TakenFacts
<1>3. Begins(j, m)
  BY <1>1, <1>2 DEF Begins, Starts, Take, Working, Sending
<1>. QED
  BY <1>1, <1>2, <1>3 DEF TypeOK, Take

-----------------------------------------------------------------------------
(* The theorems.                                                            *)

\* The invariant holds at the start.
LEMMA InitIInv == Init => IInv
<1>. SUFFICES ASSUME Init
              PROVE  IInv
  OBVIOUS
<1>. DEFINE msg(p) == IF p \in Messages THEN p ELSE CHOOSE m \in Messages : TRUE
            none == [status |-> "none", retryCount |-> 0, recoveryState |-> "none"]
            zero == [live |-> 0, recovery |-> 0]
<1>1. \A p \in Procs : msg(p) \in Messages
  BY MessagesAssumption
<1>2. attempt = [p \in Procs |-> Fresh(msg(p))]
  BY DEF Init
<1>. HIDE DEF msg
<1>3. /\ attempt \in [Procs -> Attempt]
      /\ \A p \in Procs : /\ attempt[p].pc = "idle" /\ attempt[p].msg = msg(p)
                          /\ attempt[p].payload = 1 /\ attempt[p].marked = FALSE
  BY <1>1, <1>2, FreshIsIdle
<1>4. row = [m \in Messages |-> none] /\ copies = [m \in Messages |-> [k \in 1 .. Payloads |-> zero]]
  BY DEF Init
<1>5. /\ none \in Row /\ none.status = "none"
      /\ zero \in Count /\ zero.live = 0 /\ zero.recovery = 0
  BY DEF Row, Count
<1>. HIDE DEF none, zero
<1>6. /\ row \in [Messages -> Row] /\ \A m \in Messages : row[m].status = "none"
      /\ copies \in [Messages -> [1 .. Payloads -> Count]]
      /\ \A m \in Messages, k \in 1 .. Payloads :
             copies[m][k].live = 0 /\ copies[m][k].recovery = 0
  BY <1>4, <1>5
<1>7. TypeOK
  BY <1>3, <1>6, NumbersAssumption DEF TypeOK, Init, Count, Reason
<1>8. OwnMessage /\ Claimed /\ RowsOfJobs /\ AtStart
  BY <1>3, <1>6 DEF OwnMessage, Claimed, RowsOfJobs, AtStart, Procs, Working, Sending, msg
<1>9. PassedIsHandled /\ AckedMeansHandled
  BY <1>3, <1>6 DEF PassedIsHandled, Passed, AckedMeansHandled
<1>10. CopiesPaid /\ BoundedDuplicates
  BY <1>6, NumbersAssumption DEF CopiesPaid, Pending, BoundedDuplicates, Init
<1>11. LiveFirst /\ LiveMarked /\ JobsSendUnsent /\ NoReplayOfLiveSend
  BY <1>3, <1>6 DEF LiveFirst, LiveMarked, JobsSendUnsent, NoReplayOfLiveSend, Pending,
                    Procs, Sending
<1>. QED
  BY <1>7, <1>8, <1>9, <1>10, <1>11 DEF IInv

\* The invariant holds after a stutter.
LEMMA StutterKeeps ==
    ASSUME IInv, UNCHANGED vars
    PROVE  IInv'
BY DEF vars, IInv, TypeOK, OwnMessage, Claimed, RowsOfJobs, AtStart, PassedIsHandled, Passed,
       AckedMeansHandled, Handled, Visible, CopiesPaid, BoundedDuplicates, LiveFirst, LiveMarked, Trusted,
       JobsSendUnsent, NoReplayOfLiveSend, Pending

\* The invariant is inductive: each action has one of the shapes.
LEMMA NextIInv == IInv /\ [Next]_vars => IInv'
<1>. SUFFICES ASSUME IInv, [Next]_vars
              PROVE  IInv'
  OBVIOUS
<1>1. ASSUME NEW p \in Procs, SendSteps(p)
      PROVE  IInv'
  <2>1. CASE BeginCall(p)
    BY <2>1, BeginCallShape, GoesOnKeeps
  <2>2. CASE BeginCallMarkFails(p)
    BY <2>2, BeginCallMarkFailsShape, GoesOnKeeps, LeavesKeeps
  <2>3. CASE Accept(p)
    <3>1. TypeOK'
      BY <2>3, AcceptFacts DEF IInv, TypeOK, Count, Accept
    <3>. QED
      BY <2>3, <3>1, AcceptKeeps
  <2>4. CASE PayloadSent(p)
    BY <2>4, PayloadSentShape, GoesOnKeeps
  <2>5. CASE PayloadSuppressed(p)
    BY <2>5, PayloadSuppressedShape, GoesOnKeeps
  <2>6. CASE PayloadFails(p)
    BY <2>6, PayloadFailsShape, GoesOnKeeps
  <2>7. CASE \E permanent \in BOOLEAN : SendFails(p, permanent)
    BY <2>7, SendFailsShape, LeavesKeeps
  <2>. QED
    BY <1>1, <2>1, <2>2, <2>3, <2>4, <2>5, <2>6, <2>7 DEF SendSteps
<1>2. ASSUME NEW m \in Messages, EnqueueDelivery(m) \/ LiveSteps(m) \/ Abort(m)
      PROVE  IInv'
  <2>0. m \in Procs
    BY DEF Procs
  <2>1. CASE EnqueueDelivery(m)
    BY <2>0, <2>1, EnqueueShape, StaysIdleKeeps
  <2>2. CASE Claim(m)
    BY <2>0, <2>2, ClaimShape, BeginsKeeps, StaysIdleKeeps
  <2>3. CASE Abort(m) \/ FailPartial(m) \/ AckLive(m)
    BY <2>0, <2>3, LiveEndShapes, LeavesKeeps
  <2>4. CASE MarkOutcomeUnknown(m) \/ LiveWriteFails(m)
    BY <2>0, <2>4, OutcomeShapes, GoesOnKeeps, LeavesKeeps
  <2>. QED
    BY <1>2, <2>1, <2>2, <2>3, <2>4 DEF LiveSteps
<1>3. ASSUME NEW j \in Jobs, StartJob(j) \/ JobSteps(j) \/ \E m \in Messages : Take(j, m)
      PROVE  IInv'
  <2>0. j \in Procs
    BY DEF Procs
  <2>1. CASE StartJob(j) \/ EndJob(j) \/ \E m \in Messages : Skip(j, m)
    BY <2>0, <2>1, JobIdleShapes, StaysIdleKeeps
  <2>2. CASE \E m \in Messages : GiveUp(j, m)
    BY <2>0, <2>2, GiveUpShape, StaysIdleKeeps
  <2>3. CASE \E answer \in {"sent", "not_sent", "retryable", "unresolved"} : Reconcile(j, answer)
    BY <2>0, <2>3, ReconcileShape, GoesOnKeeps, LeavesKeeps
  <2>4. CASE AckRecovered(j) \/ RecoveredAckFails(j)
    BY <2>0, <2>4, JobEndShapes, LeavesKeeps
  <2>5. CASE \E m \in Messages : Take(j, m)
    BY <2>0, <2>5, TakeShape, BeginsKeeps
  <2>. QED
    BY <1>3, <2>1, <2>2, <2>3, <2>4, <2>5 DEF JobSteps
<1>4. CASE Crash
  <2>1. TypeOK'
    BY <1>4, CrashFacts, NumbersAssumption DEF IInv, TypeOK, Crash
  <2>. QED
    BY <1>4, <2>1, CrashKeeps
<1>5. CASE UNCHANGED vars
  BY <1>5, StutterKeeps
<1>. QED
  BY <1>1, <1>2, <1>3, <1>4, <1>5 DEF Next

\* The invariant holds always.
LEMMA Inductive == Spec => []IInv
BY InitIInv, NextIInv, PTL DEF Spec

\* The queue, the platform, the claims and the processes keep their types.
THEOREM TypeCorrect == Spec => []TypeOK
BY Inductive, PTL DEF IInv

\* Two processes that work on a message would both be its claim.
LEMMA ClaimedIsExclusive == IInv => ExclusiveSend
BY MessagesAssumption DEF IInv, Claimed, ExclusiveSend, Working, TypeOK

\* One message is in the hands of one process at a time: a live send, the
\* startup recovery and the drains never send it concurrently.
THEOREM SendsAreExclusive == Spec => []ExclusiveSend
BY Inductive, ClaimedIsExclusive, PTL

\* A row leaves the queue as delivered only when each of its payloads is visible
\* or was passed over by a send, unless the caller aborted the send or it is best
\* effort: crashes, errors, retries and reconciliations lose no payload.
THEOREM AckedIsHandled == Spec => []AckedMeansHandled
BY Inductive, PTL DEF IInv

\* What recovery sends again is bounded by the retries, the crashes and the
\* lost writes, however many jobs drain the queue and in whatever order.
THEOREM DuplicatesAreBounded == Spec => []BoundedDuplicates
BY Inductive, PTL DEF IInv

\* What the live send has made visible recovery never sends again.
THEOREM LiveSendsAreNotReplayed == Spec => []NoReplayOfLiveSend
BY Inductive, PTL DEF IInv
=============================================================================
