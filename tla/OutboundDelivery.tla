---------------------------- MODULE OutboundDelivery ----------------------------
(***************************************************************************)
(* Durable outbound delivery: a message is written to the delivery queue   *)
(* before it is sent and removed after (src/infra/outbound/deliver.ts),    *)
(* and what is left in the queue is drained by jobs                        *)
(* (delivery-queue-recovery.ts): at gateway startup, when an account       *)
(* reconnects, and periodically.  The queue is a SQLite table              *)
(* (delivery-queue-storage.ts, infra/delivery-queue-sqlite.ts) and         *)
(* survives a crash; claims and everything else in memory do not.          *)
(*                                                                         *)
(* Processes: the live send of each message, and the drain jobs.  Between  *)
(* two awaits of the code a process is atomic.                             *)
(*                                                                         *)
(* Abstractions:                                                           *)
(*  - The branch where the first queue write fails and a best-effort send   *)
(*    goes on without a row is left out: nothing of it is durable.         *)
(*  - Backoff is a free choice: a waiting row may or may not be eligible.  *)
(*  - The order in which a job takes its rows is left open.                *)
(*  - enqueueDelivery's return and the claim of the live send are only      *)
(*    microtasks apart: other work may run in between, but no I/O (NoIO).  *)
(*  - The platform counts the visible copies of each payload. A call may   *)
(*    be rejected, return with nothing made visible, or be accepted and    *)
(*    then reported as an error. What is visible counts as sent whether or *)
(*    not the call returns a message identity: the queue does the same.    *)
(*  - A payload that never reaches its call, because a hook cancels it or  *)
(*    because it has nothing to show, is passed over where its turn is.    *)
(***************************************************************************)
EXTENDS Integers, FiniteSets

CONSTANTS
    Messages,           \* deliveries; the live send of each happens once
    BestEffort,         \* messages sent with bestEffort
    Required,           \* messages sent with queuePolicy "required"
    StartupJobs,        \* run once after each start
    PeriodicJobs,       \* reconnect and periodic drains, by drain key
    Selects,            \* [PeriodicJobs -> SUBSET Messages]: selectEntry, by account
    Payloads,           \* the number of payloads of a message
    MAX_RETRIES,
    Reconciles,         \* the adapter implements reconcileUnknownSend
    AmbiguousErrors,    \* an accepted call may be reported as an error
    MaxFaults,          \* how often the storage may fail a write
    MaxCrashes

Jobs == StartupJobs \cup PeriodicJobs
Procs == Messages \cup Jobs
NoProc == "none"

ASSUME MessagesAssumption ==
    /\ Messages # {} /\ NoProc \notin Procs
    /\ BestEffort \subseteq Messages /\ Required \subseteq Messages
    /\ Messages \cap Jobs = {} /\ StartupJobs \cap PeriodicJobs = {}
ASSUME SelectsAssumption == Selects \in [PeriodicJobs -> SUBSET Messages]
ASSUME NumbersAssumption ==
    /\ Payloads \in Nat \ {0} /\ MAX_RETRIES \in Nat
    /\ MaxFaults \in Nat /\ MaxCrashes \in Nat
ASSUME SwitchesAssumption ==
    /\ Reconciles \in BOOLEAN /\ AmbiguousErrors \in BOOLEAN

VARIABLES
    row,        \* [Messages -> Row]: the queue, on disk
    copies,     \* [Messages -> [1 .. Payloads -> [live, recovery : Nat]]]: the platform
    suppressed, \* [Messages -> [1 .. Payloads -> Reason]]: a history variable
    claim,      \* [Messages -> Procs \cup {NoProc}]: entriesInProgress
    attempt,    \* [Procs -> Attempt]: what each process is doing
    todo,       \* [Jobs -> SUBSET Messages]: the rest of a job's snapshot
    toStart,    \* the startup jobs that have not run since the last start
    faults,     \* the storage faults so far
    crashes

vars == <<row, copies, suppressed, claim, attempt, todo, toStart, faults, crashes>>

Row == [status : {"none", "pending", "acked", "failed"},
        retryCount : Nat,
        recoveryState : {"none", "send_attempt_started", "unknown_after_send"}]

\* Why a send passed over a payload with nothing of it visible: it was withheld
\* from the platform, or the platform's answer names no message.
Reason == {"none", "withheld", "no_identity"}

\* Where a process is. In a send ("ready", "calling", "accepted", "returned",
\* "unknown") it works on payload number payload of message msg.
Sending == {"ready", "calling", "accepted", "returned", "unknown"}
Attempt == [pc : {"idle", "queued", "draining", "reconciling"} \cup Sending
                 \cup {"done", "yielded", "threw", "aborted", "crashed"},
            msg : Messages,
            payload : 1 .. Payloads,
            marked : BOOLEAN,       \* platformSendStarted
            partial : BOOLEAN]      \* hadPartialFailure

Fresh(m) == [pc |-> "idle", msg |-> m, payload |-> 1, marked |-> FALSE, partial |-> FALSE]

TypeOK ==
    /\ row \in [Messages -> Row]
    /\ copies \in [Messages -> [1 .. Payloads -> [live : Nat, recovery : Nat]]]
    /\ suppressed \in [Messages -> [1 .. Payloads -> Reason]]
    /\ claim \in [Messages -> Procs \cup {NoProc}]
    /\ attempt \in [Procs -> Attempt]
    /\ todo \in [Jobs -> SUBSET Messages]
    /\ toStart \subseteq StartupJobs
    /\ faults \in 0 .. MaxFaults /\ crashes \in 0 .. MaxCrashes

Init ==
    /\ row = [m \in Messages |-> [status |-> "none", retryCount |-> 0,
                                  recoveryState |-> "none"]]
    /\ copies = [m \in Messages |-> [k \in 1 .. Payloads |-> [live |-> 0, recovery |-> 0]]]
    /\ suppressed = [m \in Messages |-> [k \in 1 .. Payloads |-> "none"]]
    /\ claim = [m \in Messages |-> NoProc]
    /\ attempt = [p \in Procs |->
                    Fresh(IF p \in Messages THEN p ELSE CHOOSE m \in Messages : TRUE)]
    /\ todo = [j \in Jobs |-> {}]
    /\ toStart = StartupJobs
    /\ faults = 0 /\ crashes = 0

IsLive(p) == p \in Messages
Goto(p, pc) == attempt' = [attempt EXCEPT ![p].pc = pc]
Pending(m) == row[m].status = "pending"

\* Wrong on purpose: a job keeps the claim when it is done with the message.
W_ReleaseKeepsClaim(p, outcome) ==
    /\ claim' = IF IsLive(p) THEN [claim EXCEPT ![attempt[p].msg] = NoProc] ELSE claim
    /\ attempt' = [attempt EXCEPT ![p].pc = IF IsLive(p) THEN outcome ELSE "draining"]

\* The end of p's work on its message: a live send is over, a job goes on.
Release(p, outcome) ==
    /\ claim' = [claim EXCEPT ![attempt[p].msg] = NoProc]
    /\ attempt' = [attempt EXCEPT ![p].pc = IF IsLive(p) THEN outcome ELSE "draining"]

-----------------------------------------------------------------------------
(* The queue's own operations. Each is one statement, or a read and a write *)
(* with no await in between; on a row that is gone it changes nothing.      *)
(* Where Try is used the caller goes on whether or not the write succeeds.  *)

StorageFault == faults < MaxFaults /\ faults' = faults + 1

Try(write) == (write /\ UNCHANGED faults) \/ (StorageFault /\ UNCHANGED row)

\* Wrong on purpose (W_...): failures are not counted.
W_FailDeliveryUncounted(m) == row' = row

failDelivery(m) ==
    row' = [row EXCEPT ![m].retryCount = IF Pending(m) THEN @ + 1 ELSE @]

ackDelivery(m) ==
    row' = [row EXCEPT ![m].status = IF Pending(m) THEN "acked" ELSE @]

moveToFailed(m) ==
    row' = [row EXCEPT ![m].status = IF Pending(m) THEN "failed" ELSE @]

mark(m, state) ==
    row' = [row EXCEPT ![m].recoveryState = IF Pending(m) THEN state ELSE @]

-----------------------------------------------------------------------------
(* deliverOutboundPayloadsInternal: the live send.                          *)

EnqueueDelivery(m) ==
    /\ attempt[m].pc = "idle"
    /\ row' = [row EXCEPT ![m].status = "pending"]
    /\ Goto(m, "queued")
    /\ UNCHANGED <<copies, suppressed, claim, todo, toStart, faults, crashes>>

\* withActiveDeliveryClaim. If a job got there first the send is its business.
Claim(m) ==
    /\ attempt[m].pc = "queued"
    /\ IF claim[m] = NoProc
       THEN claim' = [claim EXCEPT ![m] = m] /\ Goto(m, "ready")
       ELSE Goto(m, "yielded") /\ UNCHANGED claim
    /\ UNCHANGED <<row, copies, suppressed, todo, toStart, faults, crashes>>

-----------------------------------------------------------------------------
(* deliverOutboundPayloadsCore, for live sends and recovered ones: payload   *)
(* after payload, a platform call each. Only a live send marks its row, once,*)
(* before its first call: a recovered one has skipQueue.                    *)

\* Wrong on purpose: the row is marked when the results are back, not before.
W_BeginCallUnmarked(p) ==
    /\ attempt[p].pc = "ready"
    /\ Goto(p, "calling")
    /\ UNCHANGED <<row, copies, suppressed, claim, todo, toStart, faults, crashes>>

BeginCall(p) ==
    /\ attempt[p].pc = "ready"
    /\ IF IsLive(p) /\ ~attempt[p].marked
       THEN /\ Pending(p)
            /\ mark(p, "send_attempt_started")
            /\ attempt' = [attempt EXCEPT ![p].pc = "calling", ![p].marked = TRUE]
       ELSE Goto(p, "calling") /\ UNCHANGED row
    /\ UNCHANGED <<copies, suppressed, claim, todo, toStart, faults, crashes>>

\* The mark cannot be written, or a job got there first and the row is gone:
\* fatal if the queue is required, else ignored.
BeginCallMarkFails(p) ==
    /\ attempt[p].pc = "ready" /\ IsLive(p) /\ ~attempt[p].marked
    /\ IF Pending(p) THEN StorageFault ELSE UNCHANGED faults
    /\ IF p \in Required /\ p \notin BestEffort
       THEN (failDelivery(p) \/ UNCHANGED row) /\ Release(p, "threw")
       ELSE /\ p \notin Required
            /\ Goto(p, "calling") /\ UNCHANGED <<row, claim>>
    /\ UNCHANGED <<copies, suppressed, todo, toStart, crashes>>

\* Platform calls are I/O, which waits for a live send between its enqueue and
\* its claim.
NoIO == \E m \in Messages : attempt[m].pc = "queued"

Accept(p) ==
    /\ attempt[p].pc = "calling" /\ ~NoIO
    /\ LET origin == IF IsLive(p) THEN "live" ELSE "recovery"
       IN  copies' = [copies EXCEPT ![attempt[p].msg][attempt[p].payload][origin] = @ + 1]
    /\ Goto(p, "accepted")
    /\ UNCHANGED <<row, suppressed, claim, todo, toStart, faults, crashes>>

\* Wrong on purpose: the rest of the payloads is forgotten.
W_NextPayloadStops(p, partial) ==
    attempt' = [attempt EXCEPT ![p].pc = "returned", ![p].partial = partial]

\* Wrong on purpose: one payload too many.
W_NextPayloadOverruns(p, partial) ==
    LET a == attempt[p]
    IN  attempt' = [attempt EXCEPT ![p] =
            IF a.payload <= Payloads
            THEN [a EXCEPT !.pc = "ready", !.payload = a.payload + 1, !.partial = partial]
            ELSE [a EXCEPT !.pc = "returned", !.partial = partial]]

\* On to the next payload, or back with the results.
NextPayload(p, partial) ==
    LET a == attempt[p]
    IN  attempt' = [attempt EXCEPT ![p] =
            IF a.payload < Payloads
            THEN [a EXCEPT !.pc = "ready", !.payload = a.payload + 1, !.partial = partial]
            ELSE [a EXCEPT !.pc = "returned", !.partial = partial]]

PayloadSent(p) ==
    /\ attempt[p].pc = "accepted" /\ ~NoIO
    /\ NextPayload(p, attempt[p].partial)
    /\ UNCHANGED <<row, copies, suppressed, claim, todo, toStart, faults, crashes>>

\* A payload is passed over: a hook cancels it or it renders to nothing, before
\* any call and any mark; or its call returns without a delivery identity.
PayloadSuppressed(p) ==
    /\ attempt[p].pc = "ready" \/ (attempt[p].pc = "calling" /\ ~NoIO)
    /\ LET reason == IF attempt[p].pc = "ready" THEN "withheld" ELSE "no_identity"
       IN  suppressed' = [suppressed EXCEPT ![attempt[p].msg][attempt[p].payload] = reason]
    /\ NextPayload(p, attempt[p].partial)
    /\ UNCHANGED <<row, copies, claim, todo, toStart, faults, crashes>>

\* Where an error of p's payload may come up: in its preparation, from its
\* call, or from an answer after the platform has accepted it.
MayFail(p) ==
    \/ attempt[p].pc = "ready"
    \/ attempt[p].pc = "calling" /\ ~NoIO
    \/ attempt[p].pc = "accepted" /\ ~NoIO /\ AmbiguousErrors

\* With bestEffort the error is noted and the next payload is tried.
PayloadFails(p) ==
    /\ MayFail(p) /\ attempt[p].msg \in BestEffort
    /\ NextPayload(p, TRUE)
    /\ UNCHANGED <<row, copies, suppressed, claim, todo, toStart, faults, crashes>>

\* Else it ends the send; so does, with bestEffort too, one that comes up before
\* the first payload has its turn. A job sorts permanent errors out by their text.
SendFails(p, permanent) ==
    /\ MayFail(p)
    /\ \/ attempt[p].msg \notin BestEffort
       \/ attempt[p].pc = "ready" /\ attempt[p].payload = 1
    /\ permanent => ~IsLive(p)
    /\ Try(IF permanent THEN moveToFailed(attempt[p].msg) ELSE failDelivery(attempt[p].msg))
    /\ Release(p, "threw")
    /\ UNCHANGED <<copies, suppressed, todo, toStart, crashes>>

\* The caller aborts a live send: its row is removed. (With bestEffort the
\* abort is the error of a payload.)
Abort(m) ==
    /\ attempt[m].pc \in {"ready", "calling", "accepted"}
    /\ m \notin BestEffort
    /\ Try(ackDelivery(m))
    /\ Release(m, "aborted")
    /\ UNCHANGED <<copies, suppressed, todo, toStart, crashes>>

-----------------------------------------------------------------------------
(* deliverOutboundPayloadsWithQueueCleanup: a live send has its results.    *)

FailPartial(m) ==
    /\ attempt[m].pc = "returned" /\ attempt[m].partial
    /\ Try(failDelivery(m))
    /\ Release(m, "done")
    /\ UNCHANGED <<copies, suppressed, todo, toStart, crashes>>

MarkOutcomeUnknown(m) ==
    /\ attempt[m].pc = "returned" /\ ~attempt[m].partial
    /\ IF attempt[m].marked THEN mark(m, "unknown_after_send") ELSE UNCHANGED row
    /\ Goto(m, "unknown")
    /\ UNCHANGED <<copies, suppressed, claim, todo, toStart, faults, crashes>>

AckLive(m) ==
    /\ attempt[m].pc = "unknown"
    /\ ackDelivery(m)
    /\ Release(m, "done")
    /\ UNCHANGED <<copies, suppressed, todo, toStart, faults, crashes>>

\* The write fails. Results are back, so the row stays as it is; only a failed
\* mark under the best-effort policy does not keep the send from its ack.
LiveWriteFails(m) ==
    /\ StorageFault
    /\ \/ /\ attempt[m].pc = "returned" /\ ~attempt[m].partial /\ attempt[m].marked
          /\ IF m \in Required THEN Release(m, "threw") ELSE Goto(m, "unknown") /\ UNCHANGED claim
       \/ attempt[m].pc = "unknown" /\ Release(m, "done")
    /\ UNCHANGED <<row, copies, suppressed, todo, toStart, crashes>>

-----------------------------------------------------------------------------
(* recoverPendingDeliveries and drainPendingDeliveries.                     *)

\* The pending rows: all of them at startup, those of its account for a drain.
Snapshot(j) == {m \in Messages : Pending(m) /\ (j \in PeriodicJobs => m \in Selects[j])}

StartJob(j) ==
    /\ attempt[j].pc = "idle"
    /\ j \in StartupJobs => j \in toStart
    /\ todo' = [todo EXCEPT ![j] = Snapshot(j)]
    /\ toStart' = toStart \ {j}
    /\ Goto(j, "draining")
    /\ UNCHANGED <<row, copies, suppressed, claim, faults, crashes>>

\* The snapshot is done; startup recovery may also run out of its time budget.
EndJob(j) ==
    /\ attempt[j].pc = "draining"
    /\ todo[j] = {} \/ j \in StartupJobs
    /\ todo' = [todo EXCEPT ![j] = {}]
    /\ Goto(j, "idle")
    /\ UNCHANGED <<row, copies, suppressed, claim, toStart, faults, crashes>>

\* Nothing to do for a row that is claimed, gone, or not ready for a retry; a
\* claim taken to look at it is released again.
Skip(j, m) ==
    /\ attempt[j].pc = "draining" /\ m \in todo[j]
    /\ claim[m] # NoProc \/ ~Pending(m) \/ row[m].retryCount < MAX_RETRIES
    /\ todo' = [todo EXCEPT ![j] = @ \ {m}]
    /\ UNCHANGED <<row, copies, suppressed, claim, attempt, toStart, faults, crashes>>

\* The retries are used up. If this write fails a drain ends with the error.
GiveUp(j, m) ==
    /\ attempt[j].pc = "draining" /\ m \in todo[j]
    /\ claim[m] = NoProc /\ Pending(m) /\ row[m].retryCount >= MAX_RETRIES
    /\ Try(moveToFailed(m))
    /\ IF Pending(m)' /\ j \in PeriodicJobs
       THEN todo' = [todo EXCEPT ![j] = {}] /\ Goto(j, "idle")
       ELSE todo' = [todo EXCEPT ![j] = @ \ {m}] /\ UNCHANGED attempt
    /\ UNCHANGED <<copies, suppressed, claim, toStart, crashes>>

Taken(j, m) ==
    /\ todo' = [todo EXCEPT ![j] = @ \ {m}]
    /\ claim' = [claim EXCEPT ![m] = j]
    /\ attempt' = [attempt EXCEPT ![j] = [Fresh(m) EXCEPT !.pc =
          IF row[m].recoveryState = "none" THEN "ready" ELSE "reconciling"]]

\* Wrong on purpose: claimed rows are taken too.
W_TakeClaimed(j, m) ==
    /\ attempt[j].pc = "draining" /\ m \in todo[j]
    /\ Pending(m) /\ row[m].retryCount < MAX_RETRIES
    /\ Taken(j, m)
    /\ UNCHANGED <<row, copies, suppressed, toStart, faults, crashes>>

\* Claim the row, re-read it, and start on it (drainQueuedEntry).
Take(j, m) ==
    /\ attempt[j].pc = "draining" /\ m \in todo[j]
    /\ claim[m] = NoProc /\ Pending(m) /\ row[m].retryCount < MAX_RETRIES
    /\ Taken(j, m)
    /\ UNCHANGED <<row, copies, suppressed, toStart, faults, crashes>>

Visible(m, k) == copies[m][k].live + copies[m][k].recovery > 0

\* Payload k has been made visible, or was passed over by a send.
Handled(m, k) == Visible(m, k) \/ suppressed[m][k] # "none"

\* What an adapter may answer of message m: it never takes one payload that is
\* visible for none, nor a message for sent while a payload is outstanding.
Answers(m) ==
    {"unresolved", "retryable"}
    \cup {a \in {"sent"} : \A k \in 1 .. Payloads : Handled(m, k)}
    \cup {a \in {"not_sent"} : \A k \in 1 .. Payloads : ~Visible(m, k)}

Reconcile(j, answer) ==
    /\ attempt[j].pc = "reconciling"
    /\ answer \in IF Reconciles THEN Answers(attempt[j].msg) ELSE {"unresolved"}
    /\ IF answer = "not_sent"
       THEN Goto(j, "ready") /\ UNCHANGED <<row, claim, faults>>
       ELSE /\ CASE answer = "sent"       -> ackDelivery(attempt[j].msg) /\ UNCHANGED faults
                 [] answer = "retryable"  -> Try(failDelivery(attempt[j].msg))
                 [] answer = "unresolved" -> Try(moveToFailed(attempt[j].msg))
            /\ Release(j, "draining")
    /\ UNCHANGED <<copies, suppressed, todo, toStart, crashes>>

\* The recovered send is back with its results, complete or (bestEffort) not.
AckRecovered(j) ==
    /\ attempt[j].pc = "returned"
    /\ ackDelivery(attempt[j].msg)
    /\ Release(j, "draining")
    /\ UNCHANGED <<copies, suppressed, todo, toStart, faults, crashes>>

\* The ack fails, of a reconciled or of a recovered send: a failed delivery.
RecoveredAckFails(j) ==
    /\ StorageFault
    /\ \/ attempt[j].pc = "returned"
       \/ attempt[j].pc = "reconciling" /\ Reconciles /\ "sent" \in Answers(attempt[j].msg)
    /\ failDelivery(attempt[j].msg) \/ UNCHANGED row
    /\ Release(j, "draining")
    /\ UNCHANGED <<copies, suppressed, todo, toStart, crashes>>

-----------------------------------------------------------------------------
(* The gateway process dies and starts again; a live send that had begun is *)
(* lost, one that had not may still come.                                   *)

Over == {"done", "yielded", "threw", "aborted", "crashed"}

Crash ==
    /\ crashes < MaxCrashes
    /\ crashes' = crashes + 1
    /\ claim' = [m \in Messages |-> NoProc]
    /\ attempt' = [p \in Procs |->
          CASE IsLive(p) /\ attempt[p].pc \in {"idle"} \cup Over -> attempt[p]
            [] IsLive(p) /\ attempt[p].pc \notin {"idle"} \cup Over
                  -> [attempt[p] EXCEPT !.pc = "crashed"]
            [] ~IsLive(p) -> Fresh(attempt[p].msg)]
    /\ todo' = [j \in Jobs |-> {}]
    /\ toStart' = StartupJobs
    /\ UNCHANGED <<row, copies, suppressed, faults>>

-----------------------------------------------------------------------------
SendSteps(p) ==
    \/ BeginCall(p) \/ BeginCallMarkFails(p)
    \/ Accept(p) \/ PayloadSent(p) \/ PayloadSuppressed(p) \/ PayloadFails(p)
    \/ \E permanent \in BOOLEAN : SendFails(p, permanent)

LiveSteps(m) ==
    \/ Claim(m)
    \/ FailPartial(m) \/ MarkOutcomeUnknown(m) \/ AckLive(m) \/ LiveWriteFails(m)

JobSteps(j) ==
    \/ EndJob(j)
    \/ \E m \in Messages : Skip(j, m) \/ GiveUp(j, m)
    \/ \E answer \in {"sent", "not_sent", "retryable", "unresolved"} : Reconcile(j, answer)
    \/ AckRecovered(j) \/ RecoveredAckFails(j)

Next ==
    \/ \E p \in Procs : SendSteps(p)
    \/ \E m \in Messages : EnqueueDelivery(m) \/ LiveSteps(m) \/ Abort(m)
    \/ \E j \in Jobs : StartJob(j) \/ JobSteps(j) \/ (\E m \in Messages : Take(j, m))
    \/ Crash

Spec == Init /\ [][Next]_vars

\* Platform calls return or fail, the event loop runs on, the drain of a connected
\* account recurs; and a row is not for ever found to be waiting out its backoff.
FairSpec ==
    /\ Spec
    /\ \A p \in Procs : WF_vars(SendSteps(p))
    /\ \A m \in Messages : WF_vars(LiveSteps(m))
    /\ \A j \in Jobs : WF_vars(JobSteps(j))
    /\ \A j \in PeriodicJobs : WF_vars(StartJob(j))
    /\ \A j \in PeriodicJobs, m \in Messages : SF_vars(Take(j, m))

-----------------------------------------------------------------------------
(* Properties.                                                              *)

\* One message is in the hands of one process at a time: a live send, the
\* startup recovery and the drains of an account never send it concurrently,
\* whatever stale snapshots they hold.
ExclusiveSend ==
    \A p, q \in Procs :
        /\ attempt[p].pc \in Sending \cup {"reconciling"}
        /\ attempt[q].pc \in Sending \cup {"reconciling"}
        /\ attempt[p].msg = attempt[q].msg
        => p = q

\* A payload that the live send made visible is never sent again: after a
\* crash, an error or a partial failure the mark on the row keeps recovery from
\* replaying it unless the adapter says that nothing was sent. (With the
\* best-effort policy the mark itself may be missing.)
NoReplayOfLiveSend ==
    \A m \in Messages, k \in 1 .. Payloads :
        m \in Required \/ faults = 0 =>
            copies[m][k].live = 0 \/ copies[m][k].recovery = 0

\* Recovery may duplicate its own sends, but not without end: the retry budget,
\* the crashes and the lost writes bound the visible copies of a payload.
BoundedDuplicates ==
    \A m \in Messages, k \in 1 .. Payloads :
        copies[m][k].recovery <= MAX_RETRIES + crashes + faults

\* A row leaves the queue as delivered, by whichever send or answer, only when
\* each payload is visible or was passed over by a send, or the caller aborted: no
\* crash, error or retry in between loses one that still had to go.  Passed over
\* are payloads withheld on purpose and, an exception the code makes (deliver.ts:
\* 1730, 1784, 1842, 1919), those whose call returned without an identity: they
\* count as suppressed and not as failed, and the row is acked without them.
AckedMeansHandled ==
    \A m \in Messages \ BestEffort :
        row[m].status = "acked" /\ attempt[m].pc # "aborted"
            => \A k \in 1 .. Payloads : Handled(m, k)

\* A row that a recurring drain selects leaves the queue: no crash, error, claim
\* or retry loop keeps it pending for ever. (Only accounts of WhatsApp have such
\* a drain, while connected; other rows wait for a reconnect or the next start.)
QueueDrains ==
    \A m \in UNION {Selects[j] : j \in PeriodicJobs} : Pending(m) ~> ~Pending(m)

\* delivery-queue-recovery.ts:381: "A crash after platform send start cannot be
\* blindly replayed". Not so when the send was recovery's own: it is not marked.
NoDuplicateAfterCrash ==
    \A m \in Messages, k \in 1 .. Payloads : copies[m][k].live + copies[m][k].recovery <= 1

\* deliver.ts:1317: "We track whether any payload failed so we can call
\* failDelivery instead of ackDelivery." Not so in a recovered send.
PartialFailureNotAcked ==
    \A m \in BestEffort : row[m].status = "acked" => \A k \in 1 .. Payloads : Handled(m, k)
=============================================================================
