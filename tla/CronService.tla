---------------------------- MODULE CronService ----------------------------
(***************************************************************************)
(* The scheduler of cron jobs (src/cron/service/): a timer tick reserves   *)
(* the jobs that are due by a running marker, runs them in a batch and     *)
(* writes the results; operators add, update, remove and run jobs by hand; *)
(* start recovers the runs that a stop of the gateway interrupted and      *)
(* catches up with what was missed.                                        *)
(*                                                                         *)
(* The store is held in memory and saved to SQLite as a whole. `locked`    *)
(* serializes the sections that use it, so a section is one action here;   *)
(* jobs execute outside of it. Memory and disk differ when a save fails,   *)
(* or when a section changes memory and saves nothing.                     *)
(*                                                                         *)
(* Abstractions:                                                           *)
(*  - Times are relations to now: a next run is in the future or due, a    *)
(*    marker is fresh or older than STUCK_RUN_MS. A run ends before its    *)
(*    marker is that old (its timeout is shorter; a job without one is not *)
(*    modelled).                                                           *)
(*  - Recurring jobs are of one kind. The back-off after an error, the     *)
(*    stagger and a manual run's kept anchor only say how far in the       *)
(*    future the next run is. Results other than that, alerts, delivery    *)
(*    and run logs are left out.                                           *)
(*  - The preflight and the reservation of a manual run are one action: a  *)
(*    forced run checks the same marker in both.                           *)
(*  - The timer of a busy tick fires, is set again and changes nothing.    *)
(*  - Maintenance moves a slot on whose run is over, which the result has  *)
(*    done already. That start replays the last slot of a cron expression  *)
(*    by the history of its runs, though its next run is later, and puts   *)
(*    off jobs in their back-off, is left out.                             *)
(***************************************************************************)
EXTENDS Integers, FiniteSets, FiniteSetsExt

CONSTANTS
    Jobs,
    OneShots,           \* the jobs with a schedule of kind "at"
    DeletedAfterRun,    \* the one-shots with deleteAfterRun
    AgentTurns,         \* the jobs that start does not catch up with at once
    Unborn,             \* the jobs that are not in the store at first
    MaxConcurrentRuns,  \* of a tick
    MaxMissedJobsPerRestart,
    SavesThatFail,      \* the sections of which a save may fail (once)
    MaxUpdates, MaxManualRuns, MaxCrashes   \* bounds

Sections == {"tick", "start", "operator", "manual"}
Patches == {"name", "schedule", "disable", "enable"}

ASSUME JobsAssumption ==
    /\ IsFiniteSet(Jobs)
    /\ OneShots \subseteq Jobs /\ DeletedAfterRun \subseteq OneShots
    /\ AgentTurns \subseteq Jobs /\ Unborn \subseteq Jobs
ASSUME LimitsAssumption ==
    /\ MaxConcurrentRuns \in Nat \ {0} /\ MaxMissedJobsPerRestart \in Nat
    /\ SavesThatFail \subseteq Sections
    /\ MaxUpdates \in Nat /\ MaxManualRuns \in Nat /\ MaxCrashes \in Nat

VARIABLES
    mem,        \* [Jobs -> Job]: state.store
    disk,       \* [Jobs -> Job]: the saved store
    service,    \* the phase of start()
    timer,      \* BOOLEAN: state.timer is set
    ticking,    \* BOOLEAN: state.running
    batch,      \* [{"tick", "start"} -> [Jobs -> phase]]: the jobs each runs
    manual,     \* [Jobs -> Nat]: manual runs that execute
    skipped,    \* the interrupted jobs that this start does not catch up with
    deferred,   \* the missed jobs that this start puts off
    failed,     \* the section of which a save has failed, or "none"
    spent,      \* history: the jobs whose present slot the scheduler has run
    exposed,    \* history: the jobs that were disabled while they had a run or
                \* a place in a batch, and so may have lost their marker
    updates, manualRuns, crashes

store == <<mem, disk>>
starting == <<skipped, deferred>>
counters == <<updates, manualRuns, crashes>>
vars == <<store, service, timer, ticking, batch, manual, starting, failed,
          spent, exposed, counters>>

-----------------------------------------------------------------------------
(* One job, and the passes over the store that repair it.                   *)

\* at, of a one-shot: its time has not come, has come, or has come before a run
\* that was ok.
Job == [life : {"unborn", "live", "gone"}, enabled : BOOLEAN,
        next : {"none", "future", "due"}, marker : {"none", "fresh", "old"},
        at : {"future", "passed", "done"}]

Phases == {"out", "waiting", "running", "ran"}
OutOfBatch == [j \in Jobs |-> "out"]

Created == [life |-> "live", enabled |-> TRUE, next |-> "future",
            marker |-> "none", at |-> "future"]
NotCreated == [Created EXCEPT !.life = "unborn", !.next = "none"]
Removed == [NotCreated EXCEPT !.life = "gone"]

Listed(s) == {j \in Jobs : s[j].life = "live"}
Enabled(s) == {j \in Listed(s) : s[j].enabled}

\* computeJobNextRunAtMs of an enabled job.
NextRunOf(j, job) ==
    CASE j \notin OneShots \/ job.at = "future" -> "future"
      [] j \in OneShots /\ job.at = "passed" -> "due"
      [] j \in OneShots /\ job.at = "done" -> "none"

\* Mutant: markers older than STUCK_RUN_MS are kept.
W_WalkKeepsStuck(s, replaced) ==
    [j \in Jobs |->
        CASE j \notin Listed(s) -> s[j]
          [] j \in Listed(s) \ Enabled(s) -> [s[j] EXCEPT !.next = "none", !.marker = "none"]
          [] OTHER -> IF s[j].next \in replaced
                      THEN [s[j] EXCEPT !.next = NextRunOf(j, s[j])] ELSE s[j]]

\* normalizeJobTickState, then a new next run for those whose next run is in
\* `replaced`.
Walk(s, replaced) ==
    [j \in Jobs |->
        CASE j \notin Listed(s) -> s[j]
          [] j \in Listed(s) \ Enabled(s) -> [s[j] EXCEPT !.next = "none", !.marker = "none"]
          [] j \in Enabled(s) /\ s[j].marker = "old" -> [s[j] EXCEPT !.marker = "none"]
          [] OTHER -> IF s[j].next \in replaced
                      THEN [s[j] EXCEPT !.next = NextRunOf(j, s[j])] ELSE s[j]]

RecomputeNextRuns(s) == Walk(s, {"none", "due"})
\* Mutant: maintenance is the full pass (#17852).
W_MaintenanceRecomputesDue(s) == Walk(s, {"none", "due"})
RecomputeNextRunsForMaintenance(s) == Walk(s, {"none"})

Runnable(s) == {j \in Enabled(s) : s[j].marker = "none" /\ s[j].next = "due"}
Mark(s, js) == [j \in Jobs |-> IF j \in js THEN [s[j] EXCEPT !.marker = "fresh"] ELSE s[j]]

ApplyJobResult(j, job, status) ==
    LET over == [job EXCEPT !.marker = "none"]
        past == IF job.at = "passed" THEN "done" ELSE job.at
    IN CASE j \notin OneShots -> [over EXCEPT !.next = IF job.enabled THEN "future" ELSE "none"]
         [] j \in DeletedAfterRun /\ status = "ok" -> Removed
         [] j \in OneShots \ DeletedAfterRun /\ status = "ok" ->
                [over EXCEPT !.enabled = FALSE, !.next = "none", !.at = past]
         [] j \in OneShots /\ status = "error" -> [over EXCEPT !.enabled = FALSE, !.next = "none"]
         [] j \in OneShots /\ status = "retry" -> [over EXCEPT !.next = "future"]

\* applyOutcomeToStoredJob for every job of a batch.
ApplyResults(s, ran, results) ==
    [j \in Jobs |-> IF j \in Listed(s) \cap ran
                    THEN ApplyJobResult(j, s[j], results[j]) ELSE s[j]]

\* Mutant: the next run of an interrupted job is kept.
W_InterruptedKeepsItsSlot(j, job) == [job EXCEPT !.marker = "none"]

MarkInterruptedStartupRun(j, job) ==
    [job EXCEPT !.marker = "none", !.next = "none", !.enabled = job.enabled /\ j \notin OneShots]

Results(j) == IF j \in OneShots THEN {"ok", "error", "retry"} ELSE {"ok"}
BatchResults == {r \in [Jobs -> {"ok", "error", "retry"}] : \A j \in Jobs : r[j] \in Results(j)}

ArmTimer(s) == Enabled(s) # {}

-----------------------------------------------------------------------------

\* persist at the end of a section: afterwards disk is s, or the save has failed.
Saves(s) == disk' = s /\ UNCHANGED failed
SaveFails(section) ==
    /\ section \in SavesThatFail /\ failed = "none"
    /\ failed' = section /\ UNCHANGED disk

Loaded == service # "down"
Executing(j) == {o \in {"tick", "start"} : batch[o][j] = "running"}
RunsOf(j) == Cardinality(Executing(j)) + manual[j]
InHand(j) == RunsOf(j) > 0 \/ batch["tick"][j] # "out" \/ batch["start"][j] # "out"

TypeOK ==
    /\ mem \in [Jobs -> Job] /\ disk \in [Jobs -> Job]
    /\ service \in {"down", "recovered", "catching up", "caught up", "up", "failed"}
    /\ timer \in BOOLEAN /\ ticking \in BOOLEAN
    /\ batch \in [{"tick", "start"} -> [Jobs -> Phases]]
    /\ ticking = (batch["tick"] # OutOfBatch)
    /\ service # "catching up" => batch["start"] = OutOfBatch
    /\ manual \in [Jobs -> 0 .. MaxManualRuns]
    /\ skipped \subseteq Jobs /\ deferred \subseteq Jobs
    /\ failed \in SavesThatFail \cup {"none"}
    /\ spent \subseteq Jobs /\ exposed \subseteq Jobs
    /\ updates \in 0 .. MaxUpdates /\ manualRuns \in 0 .. MaxManualRuns
    /\ crashes \in 0 .. MaxCrashes

Init ==
    /\ disk = [j \in Jobs |-> IF j \in Unborn THEN NotCreated ELSE Created]
    /\ mem = [j \in Jobs |-> NotCreated]
    /\ service = "down" /\ timer = FALSE /\ ticking = FALSE
    /\ batch = [o \in {"tick", "start"} |-> OutOfBatch]
    /\ manual = [j \in Jobs |-> 0]
    /\ skipped = {} /\ deferred = {} /\ failed = "none"
    /\ spent = {} /\ exposed = {}
    /\ updates = 0 /\ manualRuns = 0 /\ crashes = 0

-----------------------------------------------------------------------------
(* Time, and the gateway's stop.                                            *)

\* The next run of j comes due.
ComesDue(j, job) ==
    LET passed == j \in OneShots /\ job.at = "future"
    IN IF job.next # "future" THEN job
       ELSE [job EXCEPT !.next = "due", !.at = IF passed THEN "passed" ELSE job.at]

SlotComes(j) ==
    /\ "future" \in {mem[j].next, disk[j].next}
    /\ mem' = [mem EXCEPT ![j] = ComesDue(j, mem[j])]
    /\ disk' = [disk EXCEPT ![j] = ComesDue(j, disk[j])]
    /\ spent' = spent \ {j}
    /\ UNCHANGED <<service, timer, ticking, batch, manual, starting, failed, counters>>

Aged(job) == IF job.marker = "fresh" THEN [job EXCEPT !.marker = "old"] ELSE job

\* STUCK_RUN_MS passes with a marker that no live run explains.
MarkerAges(j) ==
    /\ ~InHand(j) /\ "fresh" \in {mem[j].marker, disk[j].marker}
    /\ mem' = [mem EXCEPT ![j] = Aged(mem[j])]
    /\ disk' = [disk EXCEPT ![j] = Aged(disk[j])]
    /\ UNCHANGED <<service, timer, ticking, batch, manual, starting, failed, spent, counters>>

Crash ==
    /\ Loaded /\ crashes < MaxCrashes
    /\ crashes' = crashes + 1
    /\ mem' = [j \in Jobs |-> NotCreated]
    /\ service' = "down" /\ timer' = FALSE /\ ticking' = FALSE
    /\ batch' = [o \in {"tick", "start"} |-> OutOfBatch]
    /\ manual' = [j \in Jobs |-> 0]
    /\ skipped' = {} /\ deferred' = {}
    /\ UNCHANGED <<disk, failed, spent, updates, manualRuns>>

-----------------------------------------------------------------------------
(* onTimer.                                                                 *)

\* The first section found nothing that is due, or its save failed: the tick
\* is over.
TickFindsNothing ==
    LET kept == RecomputeNextRunsForMaintenance(disk)
    IN /\ Runnable(disk) = {}
       /\ mem' = kept /\ timer' = ArmTimer(kept)
       /\ Saves(kept) \/ (kept # disk /\ SaveFails("tick"))
       /\ UNCHANGED <<ticking, batch>>

TickReserves ==
    LET due == Runnable(disk)
        marked == Mark(disk, due)
    IN /\ due # {}
       /\ mem' = marked
       /\ \/ /\ Saves(marked)
             /\ ticking' = TRUE
             /\ batch' = [batch EXCEPT !["tick"] = [j \in Jobs |-> IF j \in due THEN "waiting"
                                                                          ELSE "out"]]
             /\ UNCHANGED timer
          \/ /\ SaveFails("tick")
             /\ timer' = ArmTimer(marked)
             /\ UNCHANGED <<ticking, batch>>

TimerFires ==
    /\ Loaded /\ timer /\ ~ticking
    /\ TickFindsNothing \/ TickReserves
    /\ UNCHANGED <<service, manual, starting, spent, counters>>

\* A worker of the batch takes its next job. It does not look at the store.
RunStarts(o, j) ==
    /\ batch[o][j] = "waiting"
    /\ Cardinality({k \in Jobs : batch[o][k] = "running"}) <
           (IF o = "tick" THEN MaxConcurrentRuns ELSE 1)
    /\ batch' = [batch EXCEPT ![o][j] = "running"]
    /\ spent' = spent \cup {j}
    /\ UNCHANGED <<store, service, timer, ticking, manual, starting, failed, counters>>

\* With which result is left open until the result is applied.
RunEnds(o, j) ==
    /\ batch[o][j] = "running"
    /\ batch' = [batch EXCEPT ![o][j] = "ran"]
    /\ UNCHANGED <<store, service, timer, ticking, manual, starting, failed, spent, counters>>

Ran(o) == {j \in Jobs : batch[o][j] = "ran"}
AllRan(o) == \A j \in Jobs : batch[o][j] \notin {"waiting", "running"}

\* Mutant: state.running is reset on success only.
W_TickAppliesLeavesRunning ==
    /\ ticking /\ AllRan("tick")
    /\ \E results \in BatchResults :
           LET s == RecomputeNextRunsForMaintenance(ApplyResults(disk, Ran("tick"), results))
           IN /\ mem' = s /\ timer' = ArmTimer(s)
              /\ Saves(s) \/ SaveFails("tick")
    /\ ticking' = (failed' # failed)
    /\ batch' = [batch EXCEPT !["tick"] = OutOfBatch]
    /\ UNCHANGED <<service, manual, starting, spent, counters>>

TickApplies ==
    /\ ticking /\ AllRan("tick")
    /\ \E results \in BatchResults :
           LET s == RecomputeNextRunsForMaintenance(ApplyResults(disk, Ran("tick"), results))
           IN /\ mem' = s /\ timer' = ArmTimer(s)
              /\ Saves(s) \/ SaveFails("tick")
    /\ ticking' = FALSE
    /\ batch' = [batch EXCEPT !["tick"] = OutOfBatch]
    /\ UNCHANGED <<service, manual, starting, spent, counters>>

-----------------------------------------------------------------------------
(* start(): recover, catch up with what was missed, set the timer.          *)

StartRecovers ==
    LET interrupted == {j \in Listed(disk) : disk[j].marker # "none"}
        s == [j \in Jobs |-> IF j \in interrupted THEN MarkInterruptedStartupRun(j, disk[j])
                             ELSE disk[j]]
    IN /\ service = "down"
       /\ mem' = s
       /\ \/ Saves(s) /\ service' = "recovered" /\ skipped' = interrupted
          \/ Listed(disk) # {} /\ SaveFails("start") /\ service' = "failed" /\ UNCHANGED skipped
       /\ UNCHANGED <<timer, ticking, batch, manual, deferred, spent, counters>>

\* Which one-shots have no earlier result (skipAtIfAlreadyRan), and which jobs
\* are the first in the order of their next runs, is left open.
StartPlans ==
    /\ service = "recovered"
    /\ \E missed \in SUBSET (Runnable(mem) \ skipped) :
       \E candidates \in SUBSET (missed \ AgentTurns) :
           LET s == Mark(mem, candidates)
           IN /\ (Runnable(mem) \ skipped) \ OneShots \subseteq missed
              /\ Cardinality(candidates) =
                     Min({Cardinality(missed \ AgentTurns), MaxMissedJobsPerRestart})
              /\ \/ /\ missed = {} /\ service' = "caught up"
                    /\ UNCHANGED <<store, failed, batch, deferred>>
                 \/ /\ missed # {} /\ mem' = s
                    /\ Saves(s) /\ service' = "catching up"
                    /\ batch' = [batch EXCEPT !["start"] =
                           [j \in Jobs |-> IF j \in candidates THEN "waiting" ELSE "out"]]
                    /\ deferred' = missed \ candidates
                 \/ /\ missed # {} /\ mem' = s
                    /\ SaveFails("start") /\ service' = "failed"
                    /\ UNCHANGED <<batch, deferred>>
    /\ UNCHANGED <<timer, ticking, manual, skipped, spent, counters>>

StartApplies ==
    /\ service = "catching up" /\ AllRan("start")
    /\ \E results \in BatchResults :
           LET ran == ApplyResults(mem, Ran("start"), results)
               s == RecomputeNextRunsForMaintenance(
                        [j \in Jobs |-> IF j \in deferred \cap Enabled(ran)
                                        THEN [ran[j] EXCEPT !.next = "future"] ELSE ran[j]])
           IN /\ mem' = s
              /\ \/ Saves(s) /\ service' = "caught up"
                 \/ SaveFails("start") /\ service' = "failed"
    /\ batch' = [batch EXCEPT !["start"] = OutOfBatch]
    /\ deferred' = {}
    /\ UNCHANGED <<timer, ticking, manual, skipped, spent, counters>>

StartArms ==
    LET s == RecomputeNextRunsForMaintenance(mem)
    IN /\ service = "caught up"
       /\ mem' = s
       /\ \/ /\ IF s = mem THEN UNCHANGED <<disk, failed>> ELSE Saves(s)
             /\ service' = "up" /\ timer' = ArmTimer(s)
          \/ s # mem /\ SaveFails("start") /\ service' = "failed" /\ UNCHANGED timer
       /\ skipped' = {}
       /\ UNCHANGED <<ticking, batch, manual, deferred, spent, counters>>

-----------------------------------------------------------------------------
(* The operations of the cron API.                                          *)

\* A section that ends with persist and armTimer.
SavesAndArms(s, section) ==
    /\ mem' = s
    /\ (Saves(s) /\ timer' = ArmTimer(s)) \/ (SaveFails(section) /\ UNCHANGED timer)

Add(j) ==
    /\ Loaded /\ mem[j].life = "unborn" /\ disk[j].life = "unborn"
    /\ SavesAndArms(RecomputeNextRuns([mem EXCEPT ![j] = Created]), "operator")
    /\ UNCHANGED <<service, ticking, batch, manual, starting, spent, counters>>

Patched(j, job, patch) ==
    LET on == [job EXCEPT !.enabled = TRUE]
        moved == [job EXCEPT !.at = "future"]
    IN CASE patch = "disable" -> [job EXCEPT !.enabled = FALSE, !.next = "none", !.marker = "none"]
         [] patch = "enable" -> [on EXCEPT !.next = NextRunOf(j, on)]
         [] patch = "schedule" /\ job.enabled -> [moved EXCEPT !.next = NextRunOf(j, moved)]
         [] patch = "schedule" /\ ~job.enabled -> [moved EXCEPT !.next = "none", !.marker = "none"]
         [] patch = "name" -> IF job.enabled /\ job.next = "none"
                              THEN [job EXCEPT !.next = NextRunOf(j, job)] ELSE job

Update(j, patch) ==
    /\ Loaded /\ j \in Listed(mem) /\ updates < MaxUpdates
    /\ updates' = updates + 1
    /\ SavesAndArms([mem EXCEPT ![j] = Patched(j, mem[j], patch)], "operator")
    /\ spent' = IF patch \in {"schedule", "enable"} THEN spent \ {j} ELSE spent
    /\ UNCHANGED <<service, ticking, batch, manual, starting, manualRuns, crashes>>

Remove(j) ==
    /\ Loaded /\ j \in Listed(mem)
    /\ SavesAndArms([mem EXCEPT ![j] = Removed], "operator")
    /\ UNCHANGED <<service, ticking, batch, manual, starting, spent, counters>>

\* ensureLoadedForRead of status and list; a manual run that is refused makes
\* the same pass and saves nothing.
Read ==
    LET s == RecomputeNextRunsForMaintenance(mem)
    IN /\ Loaded /\ s # mem
       /\ mem' = s
       /\ Saves(s) \/ SaveFails("operator") \/ UNCHANGED <<disk, failed>>
       /\ UNCHANGED <<service, timer, ticking, batch, manual, starting, spent, counters>>

\* Mutant: the marker is not saved before the run.
W_RunByHandUnsaved(j) ==
    LET kept == RecomputeNextRunsForMaintenance(mem)
        s == Mark(kept, {j})
    IN /\ Loaded /\ manualRuns < MaxManualRuns
       /\ j \in Listed(kept) /\ kept[j].marker = "none"
       /\ mem' = s
       /\ \/ UNCHANGED <<disk, failed>> /\ manual' = [manual EXCEPT ![j] = @ + 1]
          \/ SaveFails("manual") /\ UNCHANGED manual
       /\ manualRuns' = manualRuns + 1
       /\ UNCHANGED <<service, timer, ticking, batch, starting, spent, updates, crashes>>

RunByHand(j) ==
    LET kept == RecomputeNextRunsForMaintenance(mem)
        s == Mark(kept, {j})
    IN /\ Loaded /\ manualRuns < MaxManualRuns
       /\ j \in Listed(kept) /\ kept[j].marker = "none"
       /\ mem' = s
       /\ \/ Saves(s) /\ manual' = [manual EXCEPT ![j] = @ + 1]
          \/ SaveFails("manual") /\ UNCHANGED manual
       /\ manualRuns' = manualRuns + 1
       /\ UNCHANGED <<service, timer, ticking, batch, starting, spent, updates, crashes>>

\* Mutant: the reloaded store keeps the job as it was.
W_ManualRunEndsUnmerged(j, status) ==
    LET done == ApplyJobResult(j, mem[j], status)
        merged == disk[j]
    IN /\ manual[j] > 0
       /\ manual' = [manual EXCEPT ![j] = @ - 1]
       /\ IF j \in Listed(mem)
          THEN SavesAndArms(RecomputeNextRunsForMaintenance([disk EXCEPT ![j] = merged]), "manual")
          ELSE UNCHANGED <<store, failed, timer>>
       /\ UNCHANGED <<service, ticking, batch, starting, spent, counters>>

\* finishPreparedManualRun: the result is applied in memory, the store is read
\* again and the job of the run is carried over (mergeManualRunSnapshotAfterReload).
ManualRunEnds(j, status) ==
    LET done == ApplyJobResult(j, mem[j], status)
        merged == IF j \in Listed(disk) THEN done ELSE disk[j]
    IN /\ manual[j] > 0
       /\ manual' = [manual EXCEPT ![j] = @ - 1]
       /\ IF j \in Listed(mem)
          THEN SavesAndArms(RecomputeNextRunsForMaintenance([disk EXCEPT ![j] = merged]), "manual")
          ELSE UNCHANGED <<store, failed, timer>>
       /\ UNCHANGED <<service, ticking, batch, starting, spent, counters>>

-----------------------------------------------------------------------------

Steps ==
    \/ \E j \in Jobs : SlotComes(j) \/ MarkerAges(j)
    \/ Crash \/ TimerFires \/ TickApplies
    \/ \E o \in {"tick", "start"}, j \in Jobs :
           RunStarts(o, j) \/ RunEnds(o, j)
    \/ StartRecovers \/ StartPlans \/ StartApplies \/ StartArms
    \/ \E j \in Jobs : Add(j) \/ Remove(j) \/ RunByHand(j)
    \/ \E j \in Jobs, patch \in Patches : Update(j, patch)
    \/ \E j \in Jobs : \E status \in Results(j) : ManualRunEnds(j, status)
    \/ Read

ExposedKept ==
    exposed' = exposed \cup {j \in Jobs : InHand(j)' /\ ~mem'[j].enabled}

Next == Steps /\ ExposedKept

\* The service goes on; runs end, because they have timeouts; and time passes.
ServiceActs ==
    \/ TimerFires \/ TickApplies
    \/ StartRecovers \/ StartPlans \/ StartApplies \/ StartArms
    \/ \E o \in {"tick", "start"}, j \in Jobs : RunStarts(o, j)

SomeRunEnds == \E o \in {"tick", "start"}, j \in Jobs : RunEnds(o, j)

SomeManualRunEnds == \E j \in Jobs : \E status \in Results(j) : ManualRunEnds(j, status)

Fairness ==
    /\ WF_vars(ServiceActs /\ ExposedKept)
    /\ WF_vars(SomeRunEnds /\ ExposedKept)
    /\ WF_vars(SomeManualRunEnds /\ ExposedKept)
    /\ WF_vars((\E j \in Jobs : MarkerAges(j)) /\ ExposedKept)

Spec == Init /\ [][Next]_vars
FairSpec == Spec /\ Fairness

-----------------------------------------------------------------------------
(* Properties.                                                              *)

Slot(s, j) == j \in Runnable(s)

\* A job has one run at a time: of a tick, of the catch-up, or by hand. It is
\* the marker, saved before the run, that keeps the others away. (A job that is
\* disabled while it runs loses its marker, at the update or at the next pass
\* over the store, and may then be run again: exposed.)
NoOverlap == \A j \in Jobs \ exposed : RunsOf(j) <= 1

\* A saved marker has a run, or a place in a batch, that will remove it;
\* otherwise its job is not run for two hours. Only a save that fails, or the
\* stop of the gateway, leaves one behind.
MarkerHasOwner ==
    \A j \in Listed(disk) :
        failed = "none" /\ Loaded /\ disk[j].marker # "none" => InHand(j)

\* The scheduler runs a slot of a job once, however runs, crashes, restarts and
\* operations fall; as long as no save fails. A slot is new when it comes, and
\* when an operator enables the job or changes its schedule.
SlotRunsOnce ==
    [][\A o \in {"tick", "start"}, j \in Jobs :
           batch[o][j] = "waiting" /\ batch'[o][j] = "running"
               => j \notin spent \/ failed # "none" \/ j \in exposed]_vars

\* A saved slot that has come is not passed over (#13992, #17852), not by a
\* crash either: it leaves the store with the end of a run of the job, with an
\* update or the removal of it, or when start puts it off. (Adding a job is
\* excepted: it recomputes the slots of all the others. So is a save that fails:
\* what its section changed stays in memory, and the next save may write it.)
SlotsAreNotSkipped ==
    [][\A j \in Jobs :
           Slot(disk, j) /\ disk'[j].life = "live" /\ disk'[j].next # "due"
               => \/ manual'[j] < manual[j]
                  \/ \E o \in {"tick", "start"} : batch[o][j] = "ran" /\ batch'[o][j] = "out"
                  \/ \E patch \in Patches : Update(j, patch)
                  \/ j \in deferred /\ StartApplies
                  \/ (\E k \in Jobs : Add(k)) \/ failed # "none"]_vars

\* A job that is due is run, or stops being due by an operation, a run by hand
\* or a crash; whatever saves fail, except that of an operation or of start,
\* after which the timer may be missing.
DueJobsRun ==
    \A j \in Jobs :
        (service = "up" /\ j \in Enabled(mem) /\ mem[j].next = "due"
             /\ failed \notin {"operator", "start"})
        ~> (Executing(j) # {} \/ ~(j \in Enabled(mem) /\ mem[j].next = "due")
             \/ service # "up" \/ failed \in {"operator", "start"})
=============================================================================
