------------------------- MODULE CronService_proofs -------------------------
(***************************************************************************)
(* Proofs about CronService, for every set of jobs, any limits of a batch   *)
(* and of the catch-up, and any number of updates, manual runs and crashes. *)
(*                                                                         *)
(* A first invariant says who holds a job and what its marker shows; every *)
(* action goes on with a job, begins with it or ends with it (Goes, Begins, *)
(* Ends), and any of these keeps the invariant. A second one says of the    *)
(* slots that were run that no store would have them run again. A third one *)
(* says that memory, until a save fails, has every next run that is saved.  *)
(***************************************************************************)
EXTENDS CronService, FiniteSetTheorems, TLAPS

-----------------------------------------------------------------------------
(* The inductive invariant.                                                 *)

\* Something will still happen to j's result: a run of it, or its place in a batch.
Held(j) == batch["tick"][j] # "out" \/ batch["start"][j] # "out" \/ manual[j] > 0

\* By one of them only.
Alone(j) ==
    /\ manual[j] <= 1
    /\ batch["tick"][j] # "out" => batch["start"][j] = "out" /\ manual[j] = 0
    /\ batch["start"][j] # "out" => manual[j] = 0

\* A stored job that nobody else will start: it is gone, or enabled and marked.
Taken(job) ==
    \/ job.life = "gone"
    \/ job.life = "live" /\ job.enabled /\ job.marker = "fresh"

Unmarked(job) == job.life = "live" => job.marker = "none"

\* What is stopped has nothing in hand.
DownIsQuiet == ~Loaded => \A j \in Jobs : ~Held(j)

ManualRunsCounted == \A j \in Jobs : manual[j] <= manualRuns

\* The marker keeps the others away, in memory and on disk.
HeldIsTaken ==
    \A j \in Jobs \ exposed : Alone(j) /\ (Held(j) => Taken(mem[j]) /\ Taken(disk[j]))

\* Until a save fails, a marker belongs to a run, and memory and disk list the
\* same jobs.
MarkersOwned ==
    failed = "none" /\ Loaded =>
        \A j \in Jobs :
            /\ ~Held(j) => Unmarked(mem[j]) /\ Unmarked(disk[j])
            /\ mem[j].life = disk[j].life

IInv == TypeOK /\ DownIsQuiet /\ ManualRunsCounted /\ HeldIsTaken /\ MarkersOwned
-----------------------------------------------------------------------------
(* What the passes over the store do to one job.                            *)

NextRuns == {"none", "future", "due"}

\* What stays when a job is put off, patched or repaired.
LEMMA JobFields ==
    ASSUME NEW a \in Job
    PROVE  /\ a.life \in {"unborn", "live", "gone"} /\ a.enabled \in BOOLEAN
           /\ a.next \in NextRuns /\ a.marker \in {"none", "fresh", "old"}
           /\ a.at \in {"future", "passed", "done"}
BY DEF Job, NextRuns

\* A new next run.
LEMMA NextField ==
    ASSUME NEW a \in Job, NEW next \in NextRuns
    PROVE  LET b == [a EXCEPT !.next = next]
           IN  b \in Job /\ b.life = a.life /\ b.enabled = a.enabled /\ b.marker = a.marker
BY DEF Job, NextRuns

\* A new marker.
LEMMA MarkerField ==
    ASSUME NEW a \in Job, NEW marker \in {"none", "fresh", "old"}
    PROVE  LET b == [a EXCEPT !.marker = marker]
           IN  b \in Job /\ b.life = a.life /\ b.enabled = a.enabled /\ b.marker = marker
BY DEF Job

\* No marker.
LEMMA UnmarkedField ==
    ASSUME NEW a \in Job
    PROVE  LET b == [a EXCEPT !.marker = "none"]
           IN  b \in Job /\ b.life = a.life /\ b.enabled = a.enabled /\ b.marker = "none"
BY DEF Job

\* A job with neither a next run nor a marker.
LEMMA ClearedFields ==
    ASSUME NEW a \in Job
    PROVE  LET b == [a EXCEPT !.next = "none", !.marker = "none"]
           IN  b \in Job /\ b.life = a.life /\ b.enabled = a.enabled /\ b.marker = "none"
BY DEF Job

\* A job enters and leaves the store without a marker.
LEMMA CreatedFields ==
    /\ Created \in Job /\ Created.life = "live" /\ Created.marker = "none" /\ Created.enabled
    /\ NotCreated \in Job /\ NotCreated.life = "unborn"
    /\ Removed \in Job /\ Removed.life = "gone"
BY DEF Created, NotCreated, Removed, Job

\* A job always has a next run to be given.
LEMMA NextRunOfType ==
    ASSUME NEW j \in Jobs, NEW a \in Job
    PROVE  NextRunOf(j, a) \in NextRuns
<1>1. CASE j \notin OneShots \/ a.at = "future"
  BY <1>1 DEF NextRunOf, NextRuns
<1>2. CASE j \in OneShots /\ a.at = "passed"
  BY <1>2 DEF NextRunOf, NextRuns
<1>3. CASE j \in OneShots /\ a.at = "done"
  BY <1>3 DEF NextRunOf, NextRuns
<1>. QED
  BY <1>1, <1>2, <1>3, JobFields

Store == [Jobs -> Job]

\* b is a, repaired: still there, still marked if it is taken, and not marked if it
\* was not.
Repaired(a, b) ==
    /\ b.life = a.life /\ b.enabled = a.enabled
    /\ a.enabled /\ a.marker = "fresh" => b.marker = "fresh"
    /\ a.marker = "none" => b.marker = "none"

\* A pass over the store repairs each job.
LEMMA WalkRepairs ==
    ASSUME NEW s \in Store, NEW replaced
    PROVE  Walk(s, replaced) \in Store /\ \A j \in Jobs : Repaired(s[j], Walk(s, replaced)[j])
<1>. DEFINE b(j) == CASE j \notin Listed(s) -> s[j]
                     [] j \in Listed(s) \ Enabled(s) ->
                            [s[j] EXCEPT !.next = "none", !.marker = "none"]
                     [] j \in Enabled(s) /\ s[j].marker = "old" -> [s[j] EXCEPT !.marker = "none"]
                     [] OTHER -> IF s[j].next \in replaced
                                 THEN [s[j] EXCEPT !.next = NextRunOf(j, s[j])] ELSE s[j]
<1>1. Walk(s, replaced) = [j \in Jobs |-> b(j)]
  BY DEF Walk
<1>2. ASSUME NEW j \in Jobs
      PROVE  b(j) \in Job /\ Repaired(s[j], b(j))
  <2>1. s[j] \in Job /\ Enabled(s) \subseteq Listed(s)
    BY DEF Store, Enabled
  <2>2. CASE j \notin Listed(s)
    <3>1. b(j) = s[j]
      BY <2>1, <2>2
    <3>. HIDE DEF b
    <3>. QED
      BY <2>1, <3>1 DEF Repaired
  <2>3. CASE j \in Listed(s) \ Enabled(s)
    <3>1. b(j) = [s[j] EXCEPT !.next = "none", !.marker = "none"]
      BY <2>3
    <3>2. ~s[j].enabled
      BY <2>3 DEF Enabled
    <3>. HIDE DEF b
    <3>. QED
      BY <2>1, <3>1, <3>2, ClearedFields DEF Repaired
  <2>4. CASE j \in Enabled(s) /\ s[j].marker = "old"
    <3>1. b(j) = [s[j] EXCEPT !.marker = "none"]
      BY <2>1, <2>4
    <3>. HIDE DEF b
    <3>2. b(j) \in Job /\ b(j).life = s[j].life /\ b(j).enabled = s[j].enabled
          /\ b(j).marker = "none"
      BY <2>1, <3>1, UnmarkedField
    <3>. QED
      BY <2>4, <3>2 DEF Repaired
  <2>5. CASE j \in Enabled(s) /\ s[j].marker # "old"
    <3>1. b(j) = IF s[j].next \in replaced
                 THEN [s[j] EXCEPT !.next = NextRunOf(j, s[j])] ELSE s[j]
      BY <2>1, <2>5
    <3>. HIDE DEF b
    <3>. QED
      BY <2>1, <3>1, NextField, NextRunOfType DEF Repaired
  <2>. QED
    BY <2>2, <2>3, <2>4, <2>5
<1>. HIDE DEF b
<1>. QED
  BY <1>1, <1>2 DEF Store

\* Mark marks, and touches no other job.
LEMMA MarkFacts ==
    ASSUME NEW s \in Store, NEW js \in SUBSET Jobs
    PROVE  /\ Mark(s, js) \in Store
           /\ \A j \in Jobs \ js : Mark(s, js)[j] = s[j]
           /\ \A j \in js : /\ Mark(s, js)[j].life = s[j].life
                            /\ Mark(s, js)[j].enabled = s[j].enabled
                            /\ Mark(s, js)[j].marker = "fresh"
<1>1. \A j \in Jobs : s[j] \in Job
  BY DEF Store
<1>. DEFINE marked(j) == [s[j] EXCEPT !.marker = "fresh"]
<1>2. Mark(s, js) = [j \in Jobs |-> IF j \in js THEN marked(j) ELSE s[j]]
  BY DEF Mark
<1>3. \A j \in Jobs : /\ marked(j) \in Job /\ marked(j).life = s[j].life
                      /\ marked(j).enabled = s[j].enabled /\ marked(j).marker = "fresh"
  BY <1>1, MarkerField
<1>. HIDE DEF marked
<1>. QED
  BY <1>1, <1>2, <1>3 DEF Store

\* A result takes the marker away.
LEMMA ResultFacts ==
    ASSUME NEW j \in Jobs, NEW a \in Job, NEW status \in Results(j)
    PROVE  ApplyJobResult(j, a, status) \in Job /\ Unmarked(ApplyJobResult(j, a, status))
<1>. DEFINE over == [a EXCEPT !.marker = "none"]
            past == IF a.at = "passed" THEN "done" ELSE a.at
<1>1. over \in Job /\ over.marker = "none" /\ past \in {"future", "passed", "done"}
  BY UnmarkedField, JobFields
<1>2. CASE j \notin OneShots
  <2>1. ApplyJobResult(j, a, status) =
            [over EXCEPT !.next = IF a.enabled THEN "future" ELSE "none"]
    BY <1>2, JobsAssumption DEF ApplyJobResult
  <2>. HIDE DEF over
  <2>2. [over EXCEPT !.next = IF a.enabled THEN "future" ELSE "none"] \in Job
    BY <1>1 DEF Job
  <2>3. [over EXCEPT !.next = IF a.enabled THEN "future" ELSE "none"].marker = "none"
    BY <1>1 DEF Job
  <2>. QED
    BY <2>1, <2>2, <2>3 DEF Unmarked
<1>3. CASE j \in DeletedAfterRun /\ status = "ok"
  <2>1. ApplyJobResult(j, a, status) = Removed
    BY <1>3, JobsAssumption DEF ApplyJobResult
  <2>. QED
    BY <2>1, CreatedFields DEF Unmarked
<1>4. CASE j \in OneShots \ DeletedAfterRun /\ status = "ok"
  <2>1. ApplyJobResult(j, a, status) =
            [over EXCEPT !.enabled = FALSE, !.next = "none", !.at = past]
    BY <1>4 DEF ApplyJobResult
  <2>. HIDE DEF over, past
  <2>2. [over EXCEPT !.enabled = FALSE, !.next = "none", !.at = past] \in Job
    BY <1>1 DEF Job
  <2>3. [over EXCEPT !.enabled = FALSE, !.next = "none", !.at = past].marker = "none"
    BY <1>1 DEF Job
  <2>. QED
    BY <2>1, <2>2, <2>3 DEF Unmarked
<1>5. CASE j \in OneShots /\ status = "error"
  <2>1. ApplyJobResult(j, a, status) = [over EXCEPT !.enabled = FALSE, !.next = "none"]
    BY <1>5 DEF ApplyJobResult
  <2>. HIDE DEF over
  <2>2. [over EXCEPT !.enabled = FALSE, !.next = "none"] \in Job
    BY <1>1 DEF Job
  <2>3. [over EXCEPT !.enabled = FALSE, !.next = "none"].marker = "none"
    BY <1>1 DEF Job
  <2>. QED
    BY <2>1, <2>2, <2>3 DEF Unmarked
<1>6. CASE j \in OneShots /\ status = "retry"
  <2>1. ApplyJobResult(j, a, status) = [over EXCEPT !.next = "future"]
    BY <1>6 DEF ApplyJobResult
  <2>. HIDE DEF over
  <2>2. [over EXCEPT !.next = "future"] \in Job
    BY <1>1 DEF Job
  <2>3. [over EXCEPT !.next = "future"].marker = "none"
    BY <1>1 DEF Job
  <2>. QED
    BY <2>1, <2>2, <2>3 DEF Unmarked
<1>. QED
  BY <1>2, <1>3, <1>4, <1>5, <1>6 DEF Results

\* A patched job keeps its marker, unless it is disabled.
Kept(a, b) == b.life = a.life /\ (b.marker = a.marker \/ (~b.enabled /\ b.marker = "none"))

\* That is what the operator's patches do.
LEMMA PatchFacts ==
    ASSUME NEW j \in Jobs, NEW a \in Job, NEW patch \in Patches
    PROVE  Patched(j, a, patch) \in Job /\ Kept(a, Patched(j, a, patch))
<1>. DEFINE on == [a EXCEPT !.enabled = TRUE]
            moved == [a EXCEPT !.at = "future"]
<1>1. /\ on \in Job /\ on.life = a.life /\ on.marker = a.marker
      /\ moved \in Job /\ moved.life = a.life /\ moved.marker = a.marker
      /\ moved.enabled = a.enabled
  BY DEF Job
<1>2. NextRunOf(j, on) \in NextRuns /\ NextRunOf(j, moved) \in NextRuns
      /\ NextRunOf(j, a) \in NextRuns
  BY <1>1, NextRunOfType
<1>3. CASE patch = "disable"
  <2>1. Patched(j, a, patch) = [a EXCEPT !.enabled = FALSE, !.next = "none", !.marker = "none"]
    BY <1>3 DEF Patched
  <2>. DEFINE b == [a EXCEPT !.enabled = FALSE, !.next = "none", !.marker = "none"]
  <2>2. b \in Job /\ b.life = a.life /\ ~b.enabled /\ b.marker = "none"
    BY DEF Job
  <2>. QED
    BY <2>1, <2>2 DEF Kept
<1>4. CASE patch = "enable"
  <2>1. Patched(j, a, patch) = [on EXCEPT !.next = NextRunOf(j, on)]
    BY <1>4 DEF Patched
  <2>. HIDE DEF on
  <2>. DEFINE b == [on EXCEPT !.next = NextRunOf(j, on)]
  <2>2. b \in Job /\ b.life = on.life /\ b.marker = on.marker
    BY <1>1, <1>2, NextField
  <2>. QED
    BY <1>1, <2>1, <2>2 DEF Kept
<1>5. CASE patch = "schedule" /\ a.enabled
  <2>1. Patched(j, a, patch) = [moved EXCEPT !.next = NextRunOf(j, moved)]
    BY <1>5 DEF Patched
  <2>. HIDE DEF moved
  <2>. DEFINE b == [moved EXCEPT !.next = NextRunOf(j, moved)]
  <2>2. b \in Job /\ b.life = moved.life /\ b.marker = moved.marker
    BY <1>1, <1>2, NextField
  <2>. QED
    BY <1>1, <2>1, <2>2 DEF Kept
<1>6. CASE patch = "schedule" /\ ~a.enabled
  <2>1. Patched(j, a, patch) = [moved EXCEPT !.next = "none", !.marker = "none"]
    BY <1>6 DEF Patched
  <2>. HIDE DEF moved
  <2>. DEFINE b == [moved EXCEPT !.next = "none", !.marker = "none"]
  <2>2. b \in Job /\ b.life = moved.life /\ b.enabled = moved.enabled /\ b.marker = "none"
    BY <1>1, ClearedFields
  <2>. QED
    BY <1>1, <1>6, <2>1, <2>2 DEF Kept
<1>7. CASE patch = "name"
  <2>1. Patched(j, a, patch) =
            IF a.enabled /\ a.next = "none" THEN [a EXCEPT !.next = NextRunOf(j, a)] ELSE a
    BY <1>7 DEF Patched
  <2>. DEFINE b == [a EXCEPT !.next = NextRunOf(j, a)]
  <2>2. b \in Job /\ b.life = a.life /\ b.marker = a.marker
    BY <1>2, NextField
  <2>. QED
    BY <2>1, <2>2 DEF Kept
<1>. QED
  BY <1>3, <1>4, <1>5, <1>6, <1>7 DEF Patches

\* ComesDue and Aged keep the life of a job and whether it is enabled.
LEMMA TimePasses ==
    ASSUME NEW j \in Jobs, NEW a \in Job
    PROVE  /\ ComesDue(j, a) \in Job /\ Aged(a) \in Job
           /\ ComesDue(j, a).life = a.life /\ ComesDue(j, a).enabled = a.enabled
           /\ ComesDue(j, a).marker = a.marker
           /\ Aged(a).life = a.life
           /\ a.marker = "none" => Aged(a).marker = "none"
<1>. DEFINE passed == j \in OneShots /\ a.at = "future"
            b == [a EXCEPT !.next = "due", !.at = IF passed THEN "passed" ELSE a.at]
            c == [a EXCEPT !.marker = "old"]
<1>1. ComesDue(j, a) = IF a.next # "future" THEN a ELSE b
  BY DEF ComesDue
<1>2. Aged(a) = IF a.marker = "fresh" THEN c ELSE a
  BY DEF Aged
<1>3. (IF passed THEN "passed" ELSE a.at) \in {"future", "passed", "done"}
  BY JobFields
<1>4. b \in Job /\ b.life = a.life /\ b.enabled = a.enabled /\ b.marker = a.marker
  <2>. HIDE DEF passed
  <2>. QED
    BY <1>3 DEF Job
<1>5. c \in Job /\ c.life = a.life
  BY MarkerField
<1>. HIDE DEF b, c
<1>. QED
  BY <1>1, <1>2, <1>4, <1>5

\* An interrupted run leaves its job without a marker.
LEMMA InterruptedFacts ==
    ASSUME NEW j \in Jobs, NEW a \in Job
    PROVE  /\ MarkInterruptedStartupRun(j, a) \in Job
           /\ MarkInterruptedStartupRun(j, a).life = a.life
           /\ MarkInterruptedStartupRun(j, a).marker = "none"
<1>1. (a.enabled /\ j \notin OneShots) \in BOOLEAN
  OBVIOUS
<1>. QED
  BY <1>1 DEF MarkInterruptedStartupRun, Job

-----------------------------------------------------------------------------
(* What an action may do to one job.                                        *)

\* The job may be edited from a to b while it is in hand, and while it is not.
Safe(a, b) == (Taken(a) /\ b.enabled => Taken(b)) /\ (Unmarked(a) => Unmarked(b))

\* Repairs and patches are safe, and so are the two ends of a job's life.
LEMMA SafeSteps ==
    /\ \A a \in Job : Safe(a, a) /\ Safe(a, Removed)
    /\ \A a, b \in Job : Repaired(a, b) => Safe(a, b)
    /\ \A a, b \in Job : Kept(a, b) => Safe(a, b)
    /\ \A a \in Job : a.life = "unborn" => Safe(a, Created)
    /\ \A a, b, c \in Job : Safe(a, b) /\ Repaired(b, c) => Safe(a, c)
BY CreatedFields, JobFields DEF Safe, Taken, Unmarked, Repaired, Kept

\* Nobody takes the job up, and nobody puts it down.
Steady(j) ==
    /\ batch'["tick"][j] = "out" <=> batch["tick"][j] = "out"
    /\ batch'["start"][j] = "out" <=> batch["start"][j] = "out"
    /\ manual'[j] = manual[j]

\* A step goes on with the job, or has nothing to do with it,
Goes(j) ==
    /\ Steady(j)
    /\ Held(j) /\ Taken(mem[j]) /\ Taken(disk[j]) /\ mem'[j].enabled
           => Taken(mem'[j]) /\ Taken(disk'[j])
    /\ failed' = "none" /\ Unmarked(mem[j]) /\ Unmarked(disk[j])
           => Unmarked(mem'[j]) /\ Unmarked(disk'[j])

\* begins a run of it or takes it into a batch, having found that nobody
\* has taken it and marked it,
Begins(j) ==
    /\ Loaded
    /\ ~(Taken(mem[j]) /\ Taken(disk[j]))
    /\ \/ /\ batch["tick"][j] = "out" /\ batch'["tick"][j] # "out"
          /\ batch'["start"][j] = batch["start"][j] /\ manual'[j] = manual[j]
       \/ /\ batch["start"][j] = "out" /\ batch'["start"][j] # "out"
          /\ batch'["tick"][j] = batch["tick"][j] /\ manual'[j] = manual[j]
       \/ batch' = batch /\ manual'[j] = manual[j] + 1
    /\ mem'[j].enabled => Taken(mem'[j]) /\ Taken(disk'[j])

\* or has its result applied.
Ends(j) ==
    /\ \/ /\ batch["tick"][j] # "out" /\ batch'["tick"][j] = "out"
          /\ batch'["start"][j] = batch["start"][j] /\ manual'[j] = manual[j]
       \/ /\ batch["start"][j] # "out" /\ batch'["start"][j] = "out"
          /\ batch'["tick"][j] = batch["tick"][j] /\ manual'[j] = manual[j]
       \/ batch' = batch /\ manual[j] > 0 /\ manual'[j] = manual[j] - 1
    /\ failed' = "none" => Unmarked(mem'[j]) /\ Unmarked(disk'[j])

\* A step of the service while it is up, or of the clock.
Served ==
    /\ \A j \in Jobs : Goes(j) \/ Begins(j) \/ Ends(j)
    /\ Loaded' <=> Loaded
    /\ failed' = "none" => failed = "none"
    /\ failed' = "none" /\ Loaded => \A j \in Jobs : mem'[j].life = disk'[j].life

\* The types of what Next changes, without the history.
Typed ==
    /\ mem' \in Store /\ disk' \in Store
    /\ service' \in {"down", "recovered", "catching up", "caught up", "up", "failed"}
    /\ timer' \in BOOLEAN /\ ticking' \in BOOLEAN
    /\ batch' \in [{"tick", "start"} -> [Jobs -> Phases]]
    /\ ticking' = (batch'["tick"] # OutOfBatch)
    /\ service' # "catching up" => batch'["start"] = OutOfBatch
    /\ manual' \in [Jobs -> 0 .. MaxManualRuns]
    /\ skipped' \subseteq Jobs /\ deferred' \subseteq Jobs
    /\ failed' \in SavesThatFail \cup {"none"}
    /\ spent' \subseteq Jobs
    /\ updates' \in 0 .. MaxUpdates /\ manualRuns' \in 0 .. MaxManualRuns
    /\ crashes' \in 0 .. MaxCrashes
    /\ \A j \in Jobs : manual'[j] <= manualRuns'

\* What is held is in hand, and what is in hand is held.
LEMMA HeldIsInHand ==
    ASSUME TypeOK, NEW j \in Jobs
    PROVE  /\ Held(j) <=> InHand(j)
           /\ Executing(j) \subseteq {"tick", "start"}
           /\ Cardinality(Executing(j)) \in Nat
           /\ Executing(j) = {} => Cardinality(Executing(j)) = 0
<1>1. Executing(j) \subseteq {"tick", "start"}
  BY DEF Executing
<1>7. IsFiniteSet({"tick", "start"})
  <2>1. IsFiniteSet({}) /\ IsFiniteSet({} \cup {"tick"})
    BY FS_EmptySet, FS_AddElement
  <2>2. IsFiniteSet(({} \cup {"tick"}) \cup {"start"})
    BY <2>1, FS_AddElement
  <2>3. ({} \cup {"tick"}) \cup {"start"} = {"tick", "start"}
    OBVIOUS
  <2>. QED
    BY <2>2, <2>3
<1>2. IsFiniteSet(Executing(j)) /\ Cardinality(Executing(j)) \in Nat
  BY <1>1, <1>7, FS_Subset, FS_CardinalityType
<1>3. Executing(j) = {} <=> Cardinality(Executing(j)) = 0
  BY <1>2, FS_EmptySet
<1>4. manual[j] \in Nat
  <2>1. manual \in [Jobs -> 0 .. MaxManualRuns] /\ MaxManualRuns \in Nat
    BY LimitsAssumption DEF TypeOK
  <2>. QED
    BY <2>1
<1>5. Executing(j) # {} => batch["tick"][j] # "out" \/ batch["start"][j] # "out"
  BY DEF Executing
<1>6. RunsOf(j) > 0 <=> Executing(j) # {} \/ manual[j] > 0
  BY <1>2, <1>3, <1>4 DEF RunsOf
<1>. QED
  BY <1>1, <1>2, <1>3, <1>5, <1>6 DEF Held, InHand

HandAgrees == \A j \in Jobs : Held(j) <=> InHand(j)

\* The same for all jobs, to be cited of the next state.
LEMMA HandsAgree == TypeOK => HandAgrees
BY HeldIsInHand DEF HandAgrees

\* A step with a new store: in memory it follows from the old one, and it is saved
\* or not.
LEMMA NewStore ==
    ASSUME NEW j \in Jobs, Steady(j),
           Safe(mem[j], mem'[j]) \/ Safe(disk[j], mem'[j]),
           disk'[j] = disk[j] \/ disk'[j] = mem'[j]
    PROVE  Goes(j)
BY DEF Goes, Safe

\* A step of the service keeps the invariant.
LEMMA ServedKeepsInvariant ==
    ASSUME IInv, Typed, Served, ExposedKept
    PROVE  IInv'
<1>1. TypeOK /\ DownIsQuiet /\ ManualRunsCounted /\ HeldIsTaken /\ MarkersOwned
  BY DEF IInv
<1>2. TypeOK'
  <2>1. exposed' \subseteq Jobs
    BY <1>1 DEF ExposedKept, TypeOK
  <2>. QED
    BY <2>1 DEF Typed, TypeOK, Store
<1>3. \A j \in Jobs : manual[j] \in Nat /\ manual'[j] \in Nat
  <2>1. /\ manual \in [Jobs -> 0 .. MaxManualRuns] /\ MaxManualRuns \in Nat
        /\ manual' \in [Jobs -> 0 .. MaxManualRuns]
    BY <1>1, LimitsAssumption DEF TypeOK, Typed
  <2>. QED
    BY <2>1
<1>4. DownIsQuiet'
  <2>. SUFFICES ASSUME ~Loaded', NEW j \in Jobs
                PROVE  ~Held(j)'
    BY DEF DownIsQuiet
  <2>1. ~Loaded /\ ~Held(j) /\ (Goes(j) \/ Begins(j) \/ Ends(j))
    BY <1>1 DEF Served, DownIsQuiet
  <2>2. ~Begins(j)
    BY <2>1 DEF Begins
  <2>3. ~Ends(j)
    BY <2>1, <1>3 DEF Ends, Held
  <2>. QED
    BY <2>1, <2>2, <2>3 DEF Goes, Steady, Held
<1>5. ManualRunsCounted'
  BY DEF Typed, ManualRunsCounted
<1>6. HeldIsTaken'
  <2>. SUFFICES ASSUME NEW j \in Jobs \ exposed'
                PROVE  Alone(j)' /\ (Held(j)' => Taken(mem'[j]) /\ Taken(disk'[j]))
    BY DEF HeldIsTaken, Taken
  <2>1. j \in Jobs \ exposed /\ Alone(j) /\ (Held(j) => Taken(mem[j]) /\ Taken(disk[j]))
    BY <1>1 DEF ExposedKept, HeldIsTaken
  <2>2. Held(j)' => mem'[j].enabled
    <3>0. HandAgrees'
      BY <1>2, HandsAgree, PTL
    <3>1. Held(j)' <=> InHand(j)'
      BY <3>0 DEF HandAgrees
    <3>. QED
      BY <3>1 DEF ExposedKept
  <2>3. CASE Goes(j)
    BY <2>1, <2>2, <2>3 DEF Goes, Steady, Alone, Held
  <2>4. CASE Begins(j)
    <3>1. ~Held(j)
      BY <2>1, <2>4 DEF Begins, Taken
    <3>. QED
      BY <2>2, <2>4, <3>1, <1>3 DEF Begins, Alone, Held
  <2>5. CASE Ends(j)
    <3>1. ~Held(j)' /\ Alone(j)'
      BY <2>1, <2>5, <1>3 DEF Ends, Alone, Held
    <3>. QED
      BY <3>1
  <2>. QED
    BY <2>3, <2>4, <2>5 DEF Served
<1>7. MarkersOwned'
  <2>. SUFFICES ASSUME failed' = "none", Loaded', NEW j \in Jobs
                PROVE  /\ ~Held(j)' => Unmarked(mem'[j]) /\ Unmarked(disk'[j])
                       /\ mem'[j].life = disk'[j].life
    BY DEF MarkersOwned, Unmarked
  <2>1. failed = "none" /\ Loaded /\ mem'[j].life = disk'[j].life
    BY DEF Served
  <2>2. ~Held(j) => Unmarked(mem[j]) /\ Unmarked(disk[j])
    BY <1>1, <2>1 DEF MarkersOwned
  <2>3. CASE Goes(j)
    BY <2>1, <2>2, <2>3 DEF Goes, Steady, Held
  <2>4. CASE Begins(j)
    <3>1. Held(j)'
      BY <2>4, <1>3 DEF Begins, Held
    <3>. QED
      BY <2>1, <3>1
  <2>5. CASE Ends(j)
    BY <2>1, <2>5 DEF Ends
  <2>. QED
    BY <2>3, <2>4, <2>5 DEF Served
<1>. QED
  BY <1>2, <1>4, <1>5, <1>6, <1>7 DEF IInv

-----------------------------------------------------------------------------
(* The actions, one by one.                                                 *)

\* What the types say of the state, in the form that the proofs use.
LEMMA StateTypes ==
    ASSUME IInv
    PROVE  /\ mem \in Store /\ disk \in Store
           /\ \A j \in Jobs : mem[j] \in Job /\ disk[j] \in Job
           /\ batch \in [{"tick", "start"} -> [Jobs -> Phases]]
           /\ manual \in [Jobs -> 0 .. MaxManualRuns] /\ MaxManualRuns \in Nat
           /\ \A j \in Jobs : manual[j] \in Nat /\ manual[j] <= manualRuns
           /\ manualRuns \in 0 .. MaxManualRuns
           /\ failed \in SavesThatFail \cup {"none"} /\ "none" \notin SavesThatFail
           /\ ticking => Loaded
<1>1. TypeOK /\ DownIsQuiet /\ ManualRunsCounted
  BY DEF IInv
<1>2. mem \in Store /\ disk \in Store /\ manual \in [Jobs -> 0 .. MaxManualRuns]
      /\ MaxManualRuns \in Nat /\ manualRuns \in 0 .. MaxManualRuns
      /\ failed \in SavesThatFail \cup {"none"}
      /\ batch \in [{"tick", "start"} -> [Jobs -> Phases]]
  BY <1>1, LimitsAssumption DEF TypeOK, Store
<1>3. \A j \in Jobs : mem[j] \in Job /\ disk[j] \in Job /\ manual[j] \in Nat
  BY <1>2 DEF Store
<1>4. "none" \notin SavesThatFail
  BY LimitsAssumption DEF Sections
<1>5. ticking => Loaded
  <2>. SUFFICES ASSUME ticking, ~Loaded
                PROVE  FALSE
    OBVIOUS
  <2>1. batch["tick"] # OutOfBatch /\ batch["tick"] \in [Jobs -> Phases]
    BY <1>1, <1>2 DEF TypeOK
  <2>2. PICK j \in Jobs : batch["tick"][j] # "out"
    BY <2>1 DEF OutOfBatch
  <2>. QED
    BY <1>1, <2>2 DEF DownIsQuiet, Held
<1>. QED
  BY <1>1, <1>2, <1>3, <1>4, <1>5 DEF ManualRunsCounted

\* A save is done, or it fails for the first time.
LEMMA SaveFacts ==
    ASSUME IInv, NEW s \in Store, NEW section, Saves(s) \/ SaveFails(section)
    PROVE  /\ disk' \in Store /\ (disk' = disk \/ disk' = s)
           /\ failed' \in SavesThatFail \cup {"none"}
           /\ failed' = "none" => failed = "none" /\ disk' = s
BY StateTypes DEF Saves, SaveFails

\* Only the stores and the time are different: nothing begins or ends.
LEMMA TimeIsServed ==
    ASSUME IInv, NEW j \in Jobs, SlotComes(j) \/ MarkerAges(j)
    PROVE  Typed /\ Served
<1>1. TypeOK /\ MarkersOwned /\ ManualRunsCounted
  BY DEF IInv
<1>2. CASE SlotComes(j)
  <2>1. /\ mem' = [mem EXCEPT ![j] = ComesDue(j, mem[j])]
        /\ disk' = [disk EXCEPT ![j] = ComesDue(j, disk[j])]
        /\ spent' = spent \ {j}
        /\ UNCHANGED <<service, timer, ticking, batch, manual, starting, failed, counters>>
    BY <1>2 DEF SlotComes
  <2>2. /\ mem' \in Store /\ disk' \in Store
        /\ \A k \in Jobs : /\ mem'[k].life = mem[k].life /\ mem'[k].enabled = mem[k].enabled
                           /\ mem'[k].marker = mem[k].marker
                           /\ disk'[k].life = disk[k].life /\ disk'[k].enabled = disk[k].enabled
                           /\ disk'[k].marker = disk[k].marker
    BY <2>1, StateTypes, TimePasses DEF Store
  <2>3. Typed
    BY <1>1, <2>1, <2>2 DEF Typed, TypeOK, starting, counters, ManualRunsCounted
  <2>4. \A k \in Jobs : Goes(k)
    BY <2>1, <2>2 DEF Goes, Steady, Taken, Unmarked
  <2>5. Served
    BY <1>1, <2>1, <2>2, <2>4 DEF Served, Loaded, MarkersOwned
  <2>. QED
    BY <2>3, <2>5
<1>3. CASE MarkerAges(j)
  <2>1. /\ mem' = [mem EXCEPT ![j] = Aged(mem[j])]
        /\ disk' = [disk EXCEPT ![j] = Aged(disk[j])]
        /\ ~InHand(j)
        /\ UNCHANGED <<service, timer, ticking, batch, manual, starting, failed, spent, counters>>
    BY <1>3 DEF MarkerAges
  <2>2. /\ mem' \in Store /\ disk' \in Store
        /\ \A k \in Jobs : mem'[k].life = mem[k].life /\ disk'[k].life = disk[k].life
        /\ \A k \in Jobs \ {j} : mem'[k] = mem[k] /\ disk'[k] = disk[k]
        /\ (mem[j].marker = "none" => mem'[j].marker = "none")
        /\ (disk[j].marker = "none" => disk'[j].marker = "none")
    BY <2>1, StateTypes, TimePasses DEF Store
  <2>3. Typed
    BY <1>1, <2>1, <2>2 DEF Typed, TypeOK, starting, counters, ManualRunsCounted
  <2>4. ~Held(j)
    BY <1>1, <2>1, HeldIsInHand
  <2>5. ASSUME NEW k \in Jobs
        PROVE  Goes(k)
    <3>1. CASE k = j
      <4>1. Steady(j)
        BY <2>1 DEF Steady
      <4>2. (Unmarked(mem[j]) => Unmarked(mem'[j])) /\ (Unmarked(disk[j]) => Unmarked(disk'[j]))
        BY <2>2 DEF Unmarked
      <4>. QED
        BY <2>4, <3>1, <4>1, <4>2 DEF Goes
    <3>2. CASE k # j
      BY <2>1, <2>2, <3>2 DEF Goes, Steady
    <3>. QED
      BY <3>1, <3>2
  <2>6. Served
    BY <1>1, <2>1, <2>2, <2>5 DEF Served, Loaded, MarkersOwned
  <2>. QED
    BY <2>3, <2>6
<1>. QED
  BY <1>2, <1>3

\* The runs of a batch start and end.
LEMMA BatchIsServed ==
    ASSUME IInv, NEW o \in {"tick", "start"}, NEW j \in Jobs, RunStarts(o, j) \/ RunEnds(o, j)
    PROVE  Typed /\ Served
<1>1. TypeOK /\ MarkersOwned /\ ManualRunsCounted
  BY DEF IInv
<1>2. PICK phase \in {"running", "ran"} :
          /\ batch[o][j] # "out"
          /\ batch' = [batch EXCEPT ![o][j] = phase]
          /\ spent' \subseteq spent \cup {j}
          /\ UNCHANGED <<store, service, timer, ticking, manual, starting, failed, counters>>
  BY DEF RunStarts, RunEnds
<1>3. /\ batch' \in [{"tick", "start"} -> [Jobs -> Phases]]
      /\ batch'[o][j] = phase /\ batch'[o] \in [Jobs -> Phases]
      /\ \A k \in Jobs \ {j} : batch'[o][k] = batch[o][k]
      /\ \A p \in {"tick", "start"} \ {o} : batch'[p] = batch[p]
  BY <1>2, StateTypes DEF Phases
<1>4. batch[o] # OutOfBatch /\ batch'[o] # OutOfBatch
  BY <1>2, <1>3 DEF OutOfBatch
<1>5. Typed
  <2>1. ticking' = (batch'["tick"] # OutOfBatch)
    BY <1>1, <1>2, <1>3, <1>4 DEF TypeOK
  <2>2. service' # "catching up" => batch'["start"] = OutOfBatch
    BY <1>1, <1>2, <1>3, <1>4 DEF TypeOK
  <2>3. spent' \subseteq Jobs
    BY <1>1, <1>2 DEF TypeOK
  <2>. QED
    BY <1>1, <1>2, <1>3, <2>1, <2>2, <2>3, StateTypes
       DEF Typed, TypeOK, store, starting, counters, ManualRunsCounted
<1>6. \A k \in Jobs : Goes(k)
  BY <1>2, <1>3 DEF Goes, Steady, store
<1>. QED
  BY <1>1, <1>2, <1>5, <1>6 DEF Served, Loaded, MarkersOwned, store

\* A step that edits the store, saved or not, and leaves the runs alone.
LEMMA EditIsServed ==
    ASSUME IInv, NEW s \in Store, NEW section, mem' = s, Saves(s) \/ SaveFails(section),
           Loaded' <=> Loaded, \A j \in Jobs : Steady(j),
           \A j \in Jobs : Safe(mem[j], s[j]) \/ Safe(disk[j], s[j])
    PROVE  Served
<1>1. /\ disk' = disk \/ disk' = mem'
      /\ failed' = "none" => failed = "none" /\ disk' = mem'
  BY SaveFacts
<1>2. \A j \in Jobs : Goes(j)
  BY <1>1, NewStore
<1>. QED
  BY <1>1, <1>2 DEF Served

\* The types after a section that ends with persist and armTimer.
LEMMA SectionTypes ==
    ASSUME IInv, NEW s \in Store, NEW section, SavesAndArms(s, section)
    PROVE  /\ mem' = s /\ mem' \in Store /\ disk' \in Store /\ timer' \in BOOLEAN
           /\ failed' \in SavesThatFail \cup {"none"}
           /\ Saves(s) \/ SaveFails(section)
<1>1. timer \in BOOLEAN
  BY DEF IInv, TypeOK
<1>. QED
  BY <1>1, SaveFacts DEF SavesAndArms, ArmTimer

\* A pass after a safe edit is safe.
LEMMA WalkIsSafe ==
    ASSUME NEW s \in Store, NEW edited \in Store, NEW replaced,
           \A j \in Jobs : Safe(s[j], edited[j])
    PROVE  /\ Walk(edited, replaced) \in Store
           /\ \A j \in Jobs : Safe(s[j], Walk(edited, replaced)[j])
BY WalkRepairs, SafeSteps DEF Store

\* Operations edit memory, save it and leave the runs alone.
LEMMA OperatorIsServed ==
    ASSUME IInv, NEW j \in Jobs,
           Add(j) \/ Remove(j) \/ (\E patch \in Patches : Update(j, patch))
    PROVE  Typed /\ Served
<1>1. TypeOK /\ ManualRunsCounted
  BY DEF IInv
<1>2. PICK s \in Store :
          /\ \A k \in Jobs : Safe(mem[k], s[k])
          /\ SavesAndArms(s, "operator")
          /\ updates' \in 0 .. MaxUpdates /\ spent' \subseteq Jobs
          /\ UNCHANGED <<service, ticking, batch, manual, starting, manualRuns, crashes>>
  <2>1. CASE Add(j)
    <3>. DEFINE edited == [mem EXCEPT ![j] = Created]
    <3>1. edited \in Store /\ \A k \in Jobs : Safe(mem[k], edited[k])
      BY <2>1, StateTypes, CreatedFields, SafeSteps DEF Add, Store
    <3>2. /\ Walk(edited, {"none", "due"}) \in Store
          /\ \A k \in Jobs : Safe(mem[k], Walk(edited, {"none", "due"})[k])
      <4>. HIDE DEF edited
      <4>. QED
        BY <3>1, StateTypes, WalkIsSafe
    <3>3. SavesAndArms(Walk(edited, {"none", "due"}), "operator")
          /\ UNCHANGED <<service, ticking, batch, manual, starting, spent, counters>>
      BY <2>1 DEF Add, RecomputeNextRuns
    <3>4. updates' \in 0 .. MaxUpdates /\ spent' \subseteq Jobs
      BY <1>1, <3>3 DEF TypeOK, counters
    <3>. HIDE DEF edited
    <3>. QED
      BY <3>2, <3>3, <3>4 DEF counters
  <2>2. CASE Remove(j)
    <3>. DEFINE s == [mem EXCEPT ![j] = Removed]
    <3>1. s \in Store /\ \A k \in Jobs : Safe(mem[k], s[k])
      BY StateTypes, CreatedFields, SafeSteps DEF Store
    <3>2. SavesAndArms(s, "operator")
          /\ UNCHANGED <<service, ticking, batch, manual, starting, spent, counters>>
      BY <2>2 DEF Remove
    <3>3. updates' \in 0 .. MaxUpdates /\ spent' \subseteq Jobs
      BY <1>1, <3>2 DEF TypeOK, counters
    <3>. HIDE DEF s
    <3>. QED
      BY <3>1, <3>2, <3>3 DEF counters
  <2>3. CASE \E patch \in Patches : Update(j, patch)
    <3>1. PICK patch \in Patches : Update(j, patch)
      BY <2>3
    <3>. DEFINE b == Patched(j, mem[j], patch)
                s == [mem EXCEPT ![j] = b]
    <3>5. b \in Job /\ mem[j] \in Job /\ Safe(mem[j], b)
      BY StateTypes, PatchFacts, SafeSteps
    <3>2. s \in Store /\ \A k \in Jobs : Safe(mem[k], s[k])
      <4>. HIDE DEF b
      <4>. QED
        BY <3>5, StateTypes, SafeSteps DEF Store
    <3>3. /\ SavesAndArms(s, "operator")
          /\ updates < MaxUpdates /\ updates' = updates + 1
          /\ spent' \subseteq spent
          /\ UNCHANGED <<service, ticking, batch, manual, starting, manualRuns, crashes>>
      BY <3>1 DEF Update
    <3>4. updates' \in 0 .. MaxUpdates /\ spent' \subseteq Jobs
      <4>1. updates \in 0 .. MaxUpdates /\ MaxUpdates \in Nat /\ spent \subseteq Jobs
        BY <1>1, LimitsAssumption DEF TypeOK
      <4>2. updates + 1 \in 0 .. MaxUpdates
        BY <3>3, <4>1
      <4>. QED
        BY <3>3, <4>1, <4>2
    <3>. HIDE DEF s
    <3>. QED
      BY <3>2, <3>3, <3>4
  <2>. QED
    BY <2>1, <2>2, <2>3
<1>3. Typed
  BY <1>1, <1>2, SectionTypes DEF Typed, TypeOK, starting, ManualRunsCounted
<1>4. \A k \in Jobs : Steady(k)
  BY <1>2 DEF Steady
<1>5. Loaded' <=> Loaded
  BY <1>2 DEF Loaded
<1>6. mem' = s /\ (Saves(s) \/ SaveFails("operator"))
  BY <1>2, SectionTypes
<1>7. Served
  BY <1>2, <1>4, <1>5, <1>6, EditIsServed
<1>. QED
  BY <1>3, <1>7

\* A read repairs memory, and may save it.
LEMMA ReadIsServed ==
    ASSUME IInv, Read
    PROVE  Typed /\ Served
<1>1. TypeOK /\ ManualRunsCounted /\ MarkersOwned
  BY DEF IInv
<1>. DEFINE s == Walk(mem, {"none"})
<1>2. s \in Store /\ \A j \in Jobs : Repaired(mem[j], s[j]) /\ Safe(mem[j], s[j])
  BY StateTypes, WalkRepairs, SafeSteps DEF Store
<1>3. /\ mem' = s
      /\ Saves(s) \/ SaveFails("operator") \/ UNCHANGED <<disk, failed>>
      /\ UNCHANGED <<service, timer, ticking, batch, manual, starting, spent, counters>>
  BY DEF Read, RecomputeNextRunsForMaintenance
<1>. HIDE DEF s
<1>4. disk' \in Store /\ failed' \in SavesThatFail \cup {"none"}
  BY <1>2, <1>3, SaveFacts, StateTypes
<1>5. Typed
  BY <1>1, <1>2, <1>3, <1>4 DEF Typed, TypeOK, starting, counters, ManualRunsCounted
<1>6. \A j \in Jobs : Steady(j)
  BY <1>3 DEF Steady
<1>7. CASE Saves(s) \/ SaveFails("operator")
  <2>1. Served
    BY <1>2, <1>3, <1>6, <1>7, EditIsServed DEF Loaded
  <2>. QED
    BY <1>5, <2>1
<1>8. CASE UNCHANGED <<disk, failed>>
  <2>1. \A j \in Jobs : Goes(j)
    BY <1>2, <1>3, <1>6, <1>8, NewStore
  <2>2. Served
    BY <1>1, <1>2, <1>3, <1>8, <2>1 DEF Served, Repaired, MarkersOwned, Loaded
  <2>. QED
    BY <1>5, <2>2
<1>. QED
  BY <1>3, <1>7, <1>8

\* A manual run marks its job, and runs if the marker is saved.
LEMMA RunByHandIsServed ==
    ASSUME IInv, NEW j \in Jobs, RunByHand(j)
    PROVE  Typed /\ Served
<1>1. TypeOK /\ ManualRunsCounted /\ MarkersOwned /\ DownIsQuiet
  BY DEF IInv
<1>. DEFINE kept == Walk(mem, {"none"})
            s == Mark(kept, {j})
<1>2. kept \in Store /\ \A k \in Jobs : Repaired(mem[k], kept[k]) /\ Safe(mem[k], kept[k])
  BY StateTypes, WalkRepairs, SafeSteps DEF Store
<1>3. /\ Loaded /\ manualRuns < MaxManualRuns
      /\ j \in Listed(kept) /\ kept[j].marker = "none"
      /\ mem' = s
      /\ \/ Saves(s) /\ manual' = [manual EXCEPT ![j] = manual[j] + 1]
         \/ SaveFails("manual") /\ UNCHANGED manual
      /\ manualRuns' = manualRuns + 1
      /\ UNCHANGED <<service, timer, ticking, batch, starting, spent, updates, crashes>>
  BY DEF RunByHand, RecomputeNextRunsForMaintenance
<1>. HIDE DEF kept
<1>4. /\ s \in Store
      /\ \A k \in Jobs \ {j} : s[k] = kept[k]
      /\ s[j].life = kept[j].life /\ s[j].enabled = kept[j].enabled /\ s[j].marker = "fresh"
  BY <1>2, MarkFacts
<1>. HIDE DEF s
<1>5. s[j].life = "live" /\ ~Taken(mem[j])
  <2>1. kept[j].life = "live" /\ Repaired(mem[j], kept[j])
    BY <1>2, <1>3 DEF Listed
  <2>. QED
    BY <1>3, <1>4, <2>1 DEF Repaired, Taken
<1>6. /\ disk' \in Store /\ failed' \in SavesThatFail \cup {"none"}
      /\ disk' = disk \/ disk' = mem'
      /\ failed' = "none" => failed = "none" /\ disk' = mem'
  BY <1>3, <1>4, SaveFacts
<1>7. /\ manualRuns' \in 0 .. MaxManualRuns
      /\ manual' \in [Jobs -> 0 .. MaxManualRuns]
      /\ \A k \in Jobs : manual'[k] <= manualRuns'
  <2>1. /\ manualRuns \in 0 .. MaxManualRuns /\ MaxManualRuns \in Nat
        /\ manual \in [Jobs -> 0 .. MaxManualRuns]
        /\ \A k \in Jobs : manual[k] \in Nat /\ manual[k] <= manualRuns
    BY StateTypes
  <2>2. manualRuns' \in 0 .. MaxManualRuns /\ manual[j] + 1 \in 0 .. MaxManualRuns
    BY <1>3, <2>1
  <2>3. \A k \in Jobs : manual[k] <= manualRuns + 1 /\ manual[j] + 1 <= manualRuns + 1
    BY <2>1
  <2>. QED
    BY <1>3, <2>1, <2>2, <2>3
<1>8. Typed
  BY <1>1, <1>3, <1>4, <1>6, <1>7 DEF Typed, TypeOK, starting
<1>9. \A k \in Jobs \ {j} : Goes(k)
  <2>. SUFFICES ASSUME NEW k \in Jobs \ {j}
                PROVE  Goes(k)
    OBVIOUS
  <2>1. Steady(k)
    BY <1>3, StateTypes DEF Steady
  <2>2. Safe(mem[k], mem'[k])
    BY <1>2, <1>3, <1>4
  <2>. QED
    BY <1>6, <2>1, <2>2, NewStore
<1>10. Goes(j) \/ Begins(j)
  <2>1. CASE SaveFails("manual") /\ UNCHANGED manual
    <3>1. Steady(j)
      BY <1>3, <2>1 DEF Steady
    <3>2. failed' # "none"
      BY <2>1, StateTypes DEF SaveFails
    <3>. QED
      BY <1>5, <3>1, <3>2 DEF Goes
  <2>2. CASE Saves(s) /\ manual' = [manual EXCEPT ![j] = manual[j] + 1]
    <3>1. manual'[j] = manual[j] + 1 /\ batch' = batch
      BY <1>3, <2>2, StateTypes
    <3>2. mem'[j] = s[j] /\ disk'[j] = s[j]
      BY <1>3, <2>2 DEF Saves
    <3>. QED
      BY <1>3, <1>4, <1>5, <3>1, <3>2 DEF Begins, Taken
  <2>. QED
    BY <1>3, <2>1, <2>2
<1>11. Served
  BY <1>3, <1>6, <1>9, <1>10 DEF Served, Loaded
<1>. QED
  BY <1>8, <1>11

\* A manual run ends with the marker of its job.
LEMMA ManualRunEndsIsServed ==
    ASSUME IInv, NEW j \in Jobs, NEW status \in Results(j), ManualRunEnds(j, status)
    PROVE  Typed /\ Served
<1>1. TypeOK /\ ManualRunsCounted /\ MarkersOwned /\ DownIsQuiet
  BY DEF IInv
<1>. DEFINE done == ApplyJobResult(j, mem[j], status)
            merged == IF j \in Listed(disk) THEN done ELSE disk[j]
            edited == [disk EXCEPT ![j] = merged]
            s == Walk(edited, {"none"})
<1>2. /\ manual[j] > 0
      /\ manual' = [manual EXCEPT ![j] = manual[j] - 1]
      /\ IF j \in Listed(mem) THEN SavesAndArms(s, "manual")
         ELSE UNCHANGED <<store, failed, timer>>
      /\ UNCHANGED <<service, ticking, batch, starting, spent, counters>>
  BY DEF ManualRunEnds, RecomputeNextRunsForMaintenance
<1>3. merged \in Job /\ Unmarked(merged)
  <2>1. done \in Job /\ Unmarked(done) /\ disk[j] \in Job
    BY ResultFacts, StateTypes
  <2>2. j \notin Listed(disk) => Unmarked(disk[j])
    BY DEF Listed, Unmarked
  <2>. HIDE DEF done
  <2>. QED
    BY <2>1, <2>2
<1>. HIDE DEF merged
<1>4. edited \in Store /\ edited[j] = merged /\ \A k \in Jobs \ {j} : edited[k] = disk[k]
  BY <1>3, StateTypes DEF Store
<1>. HIDE DEF edited
<1>5. /\ s \in Store /\ Unmarked(s[j])
      /\ \A k \in Jobs \ {j} : Safe(disk[k], s[k])
  <2>1. s \in Store /\ \A k \in Jobs : Repaired(edited[k], s[k])
    BY <1>4, WalkRepairs
  <2>2. \A k \in Jobs : edited[k] \in Job /\ s[k] \in Job
    BY <1>4, <2>1 DEF Store
  <2>3. \A k \in Jobs : Safe(edited[k], s[k])
    BY <2>1, <2>2, SafeSteps
  <2>. QED
    BY <1>3, <1>4, <2>1, <2>3 DEF Safe
<1>. HIDE DEF s
<1>6. /\ \A k \in Jobs \ {j} : manual'[k] = manual[k]
      /\ manual'[j] = manual[j] - 1
      /\ manual' \in [Jobs -> 0 .. MaxManualRuns]
      /\ \A k \in Jobs : manual'[k] <= manualRuns'
  <2>1. /\ manual \in [Jobs -> 0 .. MaxManualRuns] /\ MaxManualRuns \in Nat
        /\ manualRuns \in 0 .. MaxManualRuns
        /\ \A k \in Jobs : manual[k] \in Nat /\ manual[k] <= manualRuns
    BY StateTypes
  <2>2. manual[j] - 1 \in 0 .. MaxManualRuns /\ manual[j] - 1 <= manualRuns
    BY <1>2, <2>1
  <2>3. manualRuns' = manualRuns
    BY <1>2 DEF counters
  <2>. QED
    BY <1>2, <2>1, <2>2, <2>3
<1>7. Loaded
  BY <1>1, <1>2 DEF DownIsQuiet, Held
<1>8. CASE j \in Listed(mem)
  <2>1. /\ mem' = s /\ mem' \in Store /\ timer' \in BOOLEAN
        /\ Saves(s) \/ SaveFails("manual")
    BY <1>2, <1>5, <1>8, SectionTypes
  <2>2. /\ disk' \in Store /\ failed' \in SavesThatFail \cup {"none"}
        /\ disk' = disk \/ disk' = mem'
        /\ failed' = "none" => failed = "none" /\ disk' = mem'
    BY <1>5, <2>1, SaveFacts
  <2>3. Typed
    BY <1>1, <1>2, <1>6, <2>1, <2>2 DEF Typed, TypeOK, starting, counters
  <2>4. \A k \in Jobs \ {j} : Goes(k)
    <3>. SUFFICES ASSUME NEW k \in Jobs \ {j}
                  PROVE  Goes(k)
      OBVIOUS
    <3>1. Steady(k)
      BY <1>2, <1>6 DEF Steady
    <3>. QED
      BY <1>5, <2>1, <2>2, <3>1, NewStore
  <2>5. Ends(j)
    BY <1>2, <1>5, <1>6, <2>1, <2>2 DEF Ends
  <2>6. Served
    BY <1>2, <2>2, <2>4, <2>5 DEF Served, Loaded
  <2>. QED
    BY <2>3, <2>6
<1>9. CASE j \notin Listed(mem)
  <2>1. UNCHANGED <<mem, disk, failed, timer>>
    BY <1>2, <1>9 DEF store
  <2>2. Typed
    BY <1>1, <1>2, <1>6, <2>1, StateTypes DEF Typed, TypeOK, starting, counters
  <2>3. \A k \in Jobs \ {j} : Goes(k)
    BY <1>2, <1>6, <2>1 DEF Goes, Steady
  <2>4. Ends(j)
    <3>1. failed' = "none" => Unmarked(mem'[j]) /\ Unmarked(disk'[j])
      BY <1>1, <1>7, <1>9, <2>1 DEF MarkersOwned, Unmarked, Listed
    <3>. QED
      BY <1>2, <1>6, <3>1 DEF Ends
  <2>5. Served
    BY <1>1, <1>2, <1>7, <2>1, <2>3, <2>4 DEF Served, Loaded, MarkersOwned
  <2>. QED
    BY <2>2, <2>5
<1>. QED
  BY <1>8, <1>9

\* The timer fires: what is due is marked, and taken into a batch if that is saved.
LEMMA TimerFiresIsServed ==
    ASSUME IInv, TimerFires
    PROVE  Typed /\ Served
<1>1. TypeOK /\ ManualRunsCounted
  BY DEF IInv
<1>2. /\ Loaded /\ ~ticking /\ UNCHANGED <<service, manual, starting, spent, counters>>
      /\ TickFindsNothing \/ TickReserves
  BY DEF TimerFires
<1>3. batch["tick"] = OutOfBatch /\ \A j \in Jobs : batch["tick"][j] = "out"
  BY <1>1, <1>2 DEF TypeOK, OutOfBatch
<1>4. CASE TickFindsNothing
  <2>. DEFINE kept == Walk(disk, {"none"})
  <2>1. kept \in Store /\ \A j \in Jobs : Safe(disk[j], kept[j])
    BY StateTypes, WalkRepairs, SafeSteps DEF Store
  <2>2. /\ mem' = kept /\ timer' \in BOOLEAN /\ (Saves(kept) \/ SaveFails("tick"))
        /\ UNCHANGED <<ticking, batch>>
    BY <1>4 DEF TickFindsNothing, RecomputeNextRunsForMaintenance, ArmTimer
  <2>. HIDE DEF kept
  <2>3. disk' \in Store /\ failed' \in SavesThatFail \cup {"none"}
    BY <2>1, <2>2, SaveFacts
  <2>4. Typed
    BY <1>1, <1>2, <2>1, <2>2, <2>3 DEF Typed, TypeOK, starting, counters, ManualRunsCounted
  <2>5. Served
    BY <1>2, <2>1, <2>2, EditIsServed DEF Steady, Loaded
  <2>. QED
    BY <2>4, <2>5
<1>5. CASE TickReserves
  <2>. DEFINE due == Runnable(disk)
              s == Mark(disk, due)
              taken == [j \in Jobs |-> IF j \in due THEN "waiting" ELSE "out"]
  <2>1. /\ due # {} /\ mem' = s
        /\ \/ Saves(s) /\ ticking' = TRUE /\ batch' = [batch EXCEPT !["tick"] = taken]
              /\ UNCHANGED timer
           \/ SaveFails("tick") /\ timer' \in BOOLEAN /\ UNCHANGED <<ticking, batch>>
    BY <1>5 DEF TickReserves, ArmTimer
  <2>2. /\ due \subseteq Jobs
        /\ \A j \in due : disk[j].life = "live" /\ disk[j].enabled /\ disk[j].marker = "none"
    BY DEF Runnable, Enabled, Listed
  <2>. HIDE DEF due
  <2>3. /\ s \in Store
        /\ \A j \in Jobs \ due : s[j] = disk[j]
        /\ \A j \in due : s[j].life = "live" /\ s[j].marker = "fresh"
    BY <2>2, StateTypes, MarkFacts
  <2>. HIDE DEF s
  <2>4. /\ disk' \in Store /\ failed' \in SavesThatFail \cup {"none"}
        /\ disk' = disk \/ disk' = mem'
        /\ failed' = "none" => failed = "none" /\ disk' = mem'
    BY <2>1, <2>3, SaveFacts
  <2>5. CASE Saves(s) /\ ticking' = TRUE /\ batch' = [batch EXCEPT !["tick"] = taken]
             /\ UNCHANGED timer
    <3>1. taken \in [Jobs -> Phases] /\ taken # OutOfBatch
          /\ \A j \in Jobs : taken[j] # "out" <=> j \in due
      BY <2>1, <2>2 DEF Phases, OutOfBatch
    <3>2. batch' \in [{"tick", "start"} -> [Jobs -> Phases]] /\ batch'["tick"] = taken
          /\ batch'["start"] = batch["start"]
      BY <2>5, <3>1, StateTypes
    <3>. HIDE DEF taken
    <3>3. Typed
      BY <1>1, <1>2, <2>1, <2>3, <2>4, <2>5, <3>1, <3>2
         DEF Typed, TypeOK, starting, counters, ManualRunsCounted
    <3>4. ASSUME NEW j \in Jobs
          PROVE  Goes(j) \/ Begins(j)
      <4>1. mem'[j] = s[j] /\ disk'[j] = s[j] /\ manual' = manual
        BY <1>2, <2>1, <2>5 DEF Saves
      <4>2. CASE j \in due
        <5>1. ~Taken(disk[j])
          BY <2>2, <4>2 DEF Taken
        <5>2. batch["tick"][j] = "out" /\ batch'["tick"][j] # "out"
              /\ batch'["start"][j] = batch["start"][j]
          BY <1>3, <3>1, <3>2, <4>2
        <5>3. mem'[j].enabled => Taken(mem'[j]) /\ Taken(disk'[j])
          BY <2>3, <4>1, <4>2 DEF Taken
        <5>. QED
          BY <1>2, <4>1, <5>1, <5>2, <5>3 DEF Begins
      <4>3. CASE j \notin due
        <5>1. Steady(j)
          BY <1>3, <3>1, <3>2, <4>1, <4>3 DEF Steady
        <5>2. mem'[j] = disk[j] /\ disk'[j] = disk[j]
          BY <2>3, <4>1, <4>3
        <5>. QED
          BY <5>1, <5>2 DEF Goes
      <4>. QED
        BY <4>2, <4>3
    <3>5. Served
      BY <1>2, <2>4, <3>4 DEF Served, Loaded
    <3>. QED
      BY <3>3, <3>5
  <2>6. CASE SaveFails("tick") /\ timer' \in BOOLEAN /\ UNCHANGED <<ticking, batch>>
    <3>1. Typed
      BY <1>1, <1>2, <2>1, <2>3, <2>4, <2>6
         DEF Typed, TypeOK, starting, counters, ManualRunsCounted
    <3>2. failed' # "none" /\ disk' = disk
      BY <2>6, StateTypes DEF SaveFails
    <3>3. ASSUME NEW j \in Jobs
          PROVE  Goes(j)
      <4>1. Steady(j)
        BY <1>2, <2>6 DEF Steady
      <4>2. Taken(disk[j]) => mem'[j] = disk[j]
        BY <2>1, <2>2, <2>3 DEF Taken
      <4>. QED
        BY <3>2, <4>1, <4>2 DEF Goes
    <3>4. Served
      BY <1>2, <3>2, <3>3 DEF Served, Loaded
    <3>. QED
      BY <3>1, <3>4
  <2>. QED
    BY <2>1, <2>5, <2>6
<1>. QED
  BY <1>2, <1>4, <1>5

\* The results of a batch, in a store that lists its jobs or no longer does.
LEMMA ResultsFacts ==
    ASSUME NEW s \in Store, NEW ran \in SUBSET Jobs, NEW results \in BatchResults
    PROVE  LET t == ApplyResults(s, ran, results)
           IN  /\ t \in Store
               /\ \A j \in ran : Unmarked(t[j])
               /\ \A j \in Jobs \ ran : t[j] = s[j]
<1>. DEFINE b(j) == ApplyJobResult(j, s[j], results[j])
            t == [j \in Jobs |-> IF j \in Listed(s) \cap ran THEN b(j) ELSE s[j]]
<1>1. ApplyResults(s, ran, results) = t
  BY DEF ApplyResults
<1>2. ASSUME NEW j \in Jobs
      PROVE  b(j) \in Job /\ Unmarked(b(j)) /\ s[j] \in Job
  BY ResultFacts DEF BatchResults, Store
<1>3. \A j \in Jobs : j \notin Listed(s) => Unmarked(s[j])
  BY DEF Listed, Unmarked
<1>. HIDE DEF b
<1>4. t \in Store /\ (\A j \in ran : Unmarked(t[j])) /\ \A j \in Jobs \ ran : t[j] = s[j]
  BY <1>2, <1>3 DEF Store
<1>. QED
  BY <1>1, <1>4

\* A batch is over: its jobs have their results, and the others are as in s.
LEMMA BatchEndIsServed ==
    ASSUME IInv, NEW o \in {"tick", "start"}, AllRan(o), Loaded, Loaded',
           NEW s \in Store, NEW section, mem' = s, Saves(s) \/ SaveFails(section),
           batch' = [batch EXCEPT ![o] = OutOfBatch], manual' = manual,
           \A j \in Ran(o) : Unmarked(s[j]),
           \A j \in Jobs \ Ran(o) : Safe(mem[j], s[j]) \/ Safe(disk[j], s[j])
    PROVE  Served
<1>1. /\ disk' = disk \/ disk' = mem'
      /\ failed' = "none" => failed = "none" /\ disk' = mem'
  BY SaveFacts
<1>2. /\ \A j \in Jobs : batch[o][j] # "out" <=> j \in Ran(o)
      /\ \A j \in Jobs : batch'[o][j] = "out"
      /\ \A p \in {"tick", "start"} \ {o} : batch'[p] = batch[p]
  BY StateTypes DEF AllRan, Ran, Phases, OutOfBatch
<1>3. ASSUME NEW j \in Jobs
      PROVE  Goes(j) \/ Ends(j)
  <2>1. CASE j \in Ran(o)
    BY <1>1, <1>2, <2>1 DEF Ends
  <2>2. CASE j \notin Ran(o)
    <3>1. Steady(j)
      BY <1>2, <2>2 DEF Steady
    <3>. QED
      BY <1>1, <2>2, <3>1, NewStore
  <2>. QED
    BY <2>1, <2>2
<1>. QED
  BY <1>1, <1>3 DEF Served

\* A tick ends: its jobs have their results, the others are read from the disk.
LEMMA TickAppliesIsServed ==
    ASSUME IInv, TickApplies
    PROVE  Typed /\ Served
<1>1. TypeOK /\ ManualRunsCounted
  BY DEF IInv
<1>2. PICK results \in BatchResults :
          LET s == Walk(ApplyResults(disk, Ran("tick"), results), {"none"})
          IN  mem' = s /\ timer' = ArmTimer(s) /\ (Saves(s) \/ SaveFails("tick"))
  BY DEF TickApplies, RecomputeNextRunsForMaintenance
<1>3. /\ ticking /\ AllRan("tick") /\ ticking' = FALSE
      /\ batch' = [batch EXCEPT !["tick"] = OutOfBatch]
      /\ UNCHANGED <<service, manual, starting, spent, counters>>
  BY DEF TickApplies
<1>. DEFINE t == ApplyResults(disk, Ran("tick"), results)
            s == Walk(t, {"none"})
<1>4. /\ Ran("tick") \subseteq Jobs /\ t \in Store
      /\ \A j \in Ran("tick") : Unmarked(t[j])
      /\ \A j \in Jobs \ Ran("tick") : t[j] = disk[j]
  <2>1. Ran("tick") \subseteq Jobs
    BY DEF Ran
  <2>. QED
    BY <2>1, StateTypes, ResultsFacts
<1>5. mem' = s /\ timer' \in BOOLEAN /\ (Saves(s) \/ SaveFails("tick"))
  BY <1>2 DEF ArmTimer
<1>. HIDE DEF t
<1>6. s \in Store /\ \A j \in Jobs : Safe(t[j], s[j])
  BY <1>4, WalkRepairs, SafeSteps DEF Store
<1>. HIDE DEF s
<1>7. disk' \in Store /\ failed' \in SavesThatFail \cup {"none"}
  BY <1>5, <1>6, SaveFacts
<1>8. batch' \in [{"tick", "start"} -> [Jobs -> Phases]] /\ batch'["tick"] = OutOfBatch
      /\ batch'["start"] = batch["start"]
  BY <1>3, StateTypes DEF OutOfBatch, Phases
<1>9. Typed
  BY <1>1, <1>3, <1>5, <1>6, <1>7, <1>8 DEF Typed, TypeOK, starting, counters, ManualRunsCounted
<1>10. Loaded /\ Loaded'
  BY <1>3, StateTypes DEF Loaded
<1>11. /\ \A j \in Ran("tick") : Unmarked(s[j])
       /\ \A j \in Jobs \ Ran("tick") : Safe(disk[j], s[j])
  BY <1>4, <1>6 DEF Safe
<1>12. Served
  BY <1>3, <1>5, <1>6, <1>10, <1>11, BatchEndIsServed
<1>. QED
  BY <1>9, <1>12

\* start() takes the jobs that it catches up with, and marks them.
LEMMA StartPlansIsServed ==
    ASSUME IInv, StartPlans
    PROVE  Typed /\ Served
<1>1. TypeOK /\ ManualRunsCounted /\ MarkersOwned
  BY DEF IInv
<1>2. /\ service = "recovered"
      /\ UNCHANGED <<timer, ticking, manual, skipped, spent, counters>>
  BY DEF StartPlans
<1>. DEFINE plan(missed, candidates) ==
              LET s == Mark(mem, candidates)
              IN \/ /\ missed = {} /\ service' = "caught up"
                    /\ UNCHANGED <<store, failed, batch, deferred>>
                 \/ /\ missed # {} /\ mem' = s
                    /\ Saves(s) /\ service' = "catching up"
                    /\ batch' = [batch EXCEPT !["start"] =
                           [j \in Jobs |-> IF j \in candidates THEN "waiting" ELSE "out"]]
                    /\ deferred' = missed \ candidates
                 \/ /\ missed # {} /\ mem' = s
                    /\ SaveFails("start") /\ service' = "failed"
                    /\ UNCHANGED <<batch, deferred>>
<1>11. PICK missed \in SUBSET (Runnable(mem) \ skipped) :
           \E candidates \in SUBSET (missed \ AgentTurns) : plan(missed, candidates)
  BY DEF StartPlans
<1>3. PICK candidates \in SUBSET (missed \ AgentTurns) : plan(missed, candidates)
  BY <1>11
<1>. DEFINE s == Mark(mem, candidates)
            taken == [j \in Jobs |-> IF j \in candidates THEN "waiting" ELSE "out"]
<1>4. \/ /\ service' = "caught up"
         /\ UNCHANGED <<store, failed, batch, deferred>>
      \/ /\ mem' = s /\ Saves(s) /\ service' = "catching up"
         /\ batch' = [batch EXCEPT !["start"] = taken]
         /\ deferred' = missed \ candidates
      \/ /\ mem' = s /\ SaveFails("start") /\ service' = "failed"
         /\ UNCHANGED <<batch, deferred>>
  BY <1>3
<1>5. /\ missed \subseteq Jobs /\ candidates \subseteq Jobs
      /\ \A j \in candidates : mem[j].life = "live" /\ mem[j].enabled /\ mem[j].marker = "none"
  BY DEF Runnable, Enabled, Listed
<1>6. /\ s \in Store
      /\ \A j \in Jobs \ candidates : s[j] = mem[j]
      /\ \A j \in candidates : s[j].life = "live" /\ s[j].marker = "fresh"
  BY <1>5, StateTypes, MarkFacts
<1>. HIDE DEF s
<1>7. Loaded /\ batch["start"] = OutOfBatch /\ \A j \in Jobs : batch["start"][j] = "out"
  BY <1>1, <1>2 DEF TypeOK, Loaded, OutOfBatch
<1>8. CASE service' = "caught up" /\ UNCHANGED <<store, failed, batch, deferred>>
  <2>1. Typed
    BY <1>1, <1>2, <1>7, <1>8, StateTypes
       DEF Typed, TypeOK, counters, store, ManualRunsCounted
  <2>2. \A j \in Jobs : Goes(j)
    BY <1>2, <1>8 DEF Goes, Steady, store
  <2>3. Served
    BY <1>1, <1>7, <1>8, <2>2 DEF Served, Loaded, MarkersOwned, store
  <2>. QED
    BY <2>1, <2>3
<1>9. CASE /\ mem' = s /\ Saves(s) /\ service' = "catching up"
           /\ batch' = [batch EXCEPT !["start"] = taken]
           /\ deferred' = missed \ candidates
  <2>1. taken \in [Jobs -> Phases] /\ \A j \in Jobs : taken[j] # "out" <=> j \in candidates
    BY <1>5 DEF Phases
  <2>2. batch' \in [{"tick", "start"} -> [Jobs -> Phases]] /\ batch'["start"] = taken
        /\ batch'["tick"] = batch["tick"]
    BY <1>9, <2>1, StateTypes
  <2>. HIDE DEF taken
  <2>3. disk' = s /\ failed' = failed
    BY <1>9 DEF Saves
  <2>4. Typed
    <3>1. deferred' \subseteq Jobs
      BY <1>5, <1>9
    <3>. QED
      BY <1>1, <1>2, <1>6, <1>9, <2>2, <2>3, <3>1
         DEF Typed, TypeOK, counters, ManualRunsCounted
  <2>5. ASSUME NEW j \in Jobs
        PROVE  Goes(j) \/ Begins(j)
    <3>1. CASE j \in candidates
      <4>1. ~Taken(mem[j])
        BY <1>5, <3>1 DEF Taken
      <4>2. batch["start"][j] = "out" /\ batch'["start"][j] # "out"
            /\ batch'["tick"][j] = batch["tick"][j] /\ manual'[j] = manual[j]
        BY <1>2, <1>7, <2>1, <2>2, <3>1
      <4>3. mem'[j].enabled => Taken(mem'[j]) /\ Taken(disk'[j])
        BY <1>6, <1>9, <2>3, <3>1 DEF Taken
      <4>. QED
        BY <1>7, <4>1, <4>2, <4>3 DEF Begins
    <3>2. CASE j \notin candidates
      <4>1. Steady(j)
        BY <1>2, <1>7, <2>1, <2>2, <3>2 DEF Steady
      <4>2. mem'[j] = mem[j] /\ disk'[j] = mem[j]
        BY <1>6, <1>9, <2>3, <3>2
      <4>. QED
        BY <4>1, <4>2 DEF Goes
    <3>. QED
      BY <3>1, <3>2
  <2>6. Served
    BY <1>7, <1>9, <2>3, <2>5 DEF Served, Loaded
  <2>. QED
    BY <2>4, <2>6
<1>10. CASE /\ mem' = s /\ SaveFails("start") /\ service' = "failed"
            /\ UNCHANGED <<batch, deferred>>
  <2>1. failed' # "none" /\ disk' = disk /\ failed' \in SavesThatFail
    BY <1>10, StateTypes DEF SaveFails
  <2>2. Typed
    BY <1>1, <1>2, <1>6, <1>7, <1>10, <2>1, StateTypes
       DEF Typed, TypeOK, counters, ManualRunsCounted
  <2>3. ASSUME NEW j \in Jobs
        PROVE  Goes(j)
    <3>1. Steady(j)
      BY <1>2, <1>10 DEF Steady
    <3>2. Taken(mem[j]) => mem'[j] = mem[j]
      BY <1>5, <1>6, <1>10 DEF Taken
    <3>. QED
      BY <2>1, <3>1, <3>2 DEF Goes
  <2>4. Served
    BY <1>7, <1>10, <2>1, <2>3 DEF Served, Loaded
  <2>. QED
    BY <2>2, <2>4
<1>. QED
  BY <1>4, <1>8, <1>9, <1>10

\* The catch-up is over; what start() put off has its next run.
LEMMA StartAppliesIsServed ==
    ASSUME IInv, StartApplies
    PROVE  Typed /\ Served
<1>1. TypeOK /\ ManualRunsCounted
  BY DEF IInv
<1>2. /\ service = "catching up" /\ AllRan("start")
      /\ batch' = [batch EXCEPT !["start"] = OutOfBatch]
      /\ deferred' = {}
      /\ UNCHANGED <<timer, ticking, manual, skipped, spent, counters>>
  BY DEF StartApplies
<1>. DEFINE ran(results) == ApplyResults(mem, Ran("start"), results)
            putOff(results) == [j \in Jobs |-> IF j \in deferred \cap Enabled(ran(results))
                                               THEN [ran(results)[j] EXCEPT !.next = "future"]
                                               ELSE ran(results)[j]]
            outcome(results) == Walk(putOff(results), {"none"})
<1>3. PICK results \in BatchResults :
          /\ mem' = outcome(results)
          /\ \/ Saves(outcome(results)) /\ service' = "caught up"
             \/ SaveFails("start") /\ service' = "failed"
  BY DEF StartApplies, RecomputeNextRunsForMaintenance
<1>. DEFINE r == ran(results)
            p == putOff(results)
            s == outcome(results)
<1>4. /\ r \in Store
      /\ \A j \in Ran("start") : Unmarked(r[j])
      /\ \A j \in Jobs \ Ran("start") : r[j] = mem[j]
  <2>1. Ran("start") \subseteq Jobs
    BY DEF Ran
  <2>2. r = ApplyResults(mem, Ran("start"), results)
    OBVIOUS
  <2>3. mem \in Store
    BY StateTypes
  <2>. HIDE DEF ran, r
  <2>. QED
    BY <2>1, <2>2, <2>3, ResultsFacts
<1>5. p = [j \in Jobs |-> IF j \in deferred \cap Enabled(r) THEN [r[j] EXCEPT !.next = "future"]
                          ELSE r[j]]
  OBVIOUS
<1>6. s = Walk(p, {"none"})
  OBVIOUS
<1>7. /\ mem' = s
      /\ \/ Saves(s) /\ service' = "caught up"
         \/ SaveFails("start") /\ service' = "failed"
  BY <1>3
<1>. HIDE DEF ran, putOff, outcome, r, p, s
<1>8. p \in Store /\ \A j \in Jobs : Repaired(r[j], p[j])
  <2>. SUFFICES ASSUME NEW j \in Jobs
                PROVE  p[j] \in Job /\ Repaired(r[j], p[j])
    BY <1>5 DEF Store
  <2>1. r[j] \in Job
    BY <1>4 DEF Store
  <2>2. [r[j] EXCEPT !.next = "future"] \in Job /\ Repaired(r[j], [r[j] EXCEPT !.next = "future"])
    BY <2>1, NextField DEF NextRuns, Repaired
  <2>. QED
    BY <1>5, <2>1, <2>2 DEF Repaired
<1>9. s \in Store /\ \A j \in Jobs : Safe(r[j], s[j])
  <2>1. s \in Store /\ \A j \in Jobs : Repaired(p[j], s[j])
    BY <1>6, <1>8, WalkRepairs
  <2>2. \A j \in Jobs : r[j] \in Job /\ p[j] \in Job /\ s[j] \in Job
    BY <1>4, <1>8, <2>1 DEF Store
  <2>. QED
    BY <1>8, <2>1, <2>2, SafeSteps
<1>10. disk' \in Store /\ failed' \in SavesThatFail \cup {"none"}
  BY <1>7, <1>9, SaveFacts
<1>11. batch' \in [{"tick", "start"} -> [Jobs -> Phases]] /\ batch'["start"] = OutOfBatch
       /\ batch'["tick"] = batch["tick"]
  BY <1>2, StateTypes DEF OutOfBatch, Phases
<1>12. Typed
  BY <1>1, <1>2, <1>7, <1>9, <1>10, <1>11 DEF Typed, TypeOK, counters, ManualRunsCounted
<1>13. /\ \A j \in Ran("start") : Unmarked(s[j])
       /\ \A j \in Jobs \ Ran("start") : Safe(mem[j], s[j])
  <2>1. Ran("start") \subseteq Jobs
    BY DEF Ran
  <2>. QED
    BY <1>4, <1>9, <2>1 DEF Safe
<1>14. Loaded /\ Loaded' /\ (Saves(s) \/ SaveFails("start"))
  BY <1>2, <1>7 DEF Loaded
<1>15. Served
  BY <1>2, <1>7, <1>9, <1>13, <1>14, BatchEndIsServed
<1>. QED
  BY <1>12, <1>15

\* start() ends with a repair.
LEMMA StartArmsIsServed ==
    ASSUME IInv, StartArms
    PROVE  Typed /\ Served
<1>1. TypeOK /\ ManualRunsCounted /\ MarkersOwned
  BY DEF IInv
<1>. DEFINE s == Walk(mem, {"none"})
<1>2. s \in Store /\ \A j \in Jobs : Safe(mem[j], s[j])
  BY StateTypes, WalkRepairs, SafeSteps DEF Store
<1>3. /\ service = "caught up" /\ service' \in {"up", "failed"} /\ mem' = s /\ skipped' = {}
      /\ timer' \in BOOLEAN
      /\ (s = mem /\ UNCHANGED <<disk, failed>>) \/ Saves(s) \/ SaveFails("start")
      /\ UNCHANGED <<ticking, batch, manual, deferred, spent, counters>>
  BY <1>1 DEF StartArms, RecomputeNextRunsForMaintenance, ArmTimer, TypeOK
<1>. HIDE DEF s
<1>4. disk' \in Store /\ failed' \in SavesThatFail \cup {"none"}
  BY <1>2, <1>3, SaveFacts, StateTypes
<1>5. Typed
  BY <1>1, <1>2, <1>3, <1>4 DEF Typed, TypeOK, counters, ManualRunsCounted
<1>6. Loaded /\ Loaded' /\ \A j \in Jobs : Steady(j)
  BY <1>3 DEF Loaded, Steady
<1>7. CASE Saves(s) \/ SaveFails("start")
  <2>1. Served
    BY <1>2, <1>3, <1>6, <1>7, EditIsServed
  <2>. QED
    BY <1>5, <2>1
<1>8. CASE s = mem /\ UNCHANGED <<disk, failed>>
  <2>1. \A j \in Jobs : Goes(j)
    BY <1>3, <1>6, <1>8 DEF Goes
  <2>2. Served
    BY <1>1, <1>3, <1>6, <1>8, <2>1 DEF Served, MarkersOwned
  <2>. QED
    BY <1>5, <2>2
<1>. QED
  BY <1>3, <1>7, <1>8

\* What is lost with the process is what was in hand.
LEMMA CrashKeepsInvariant ==
    ASSUME IInv, Crash, ExposedKept
    PROVE  IInv'
<1>1. TypeOK /\ ManualRunsCounted
  BY DEF IInv
<1>2. /\ crashes < MaxCrashes /\ crashes' = crashes + 1
      /\ mem' = [j \in Jobs |-> NotCreated]
      /\ service' = "down" /\ timer' = FALSE /\ ticking' = FALSE
      /\ batch' = [o \in {"tick", "start"} |-> OutOfBatch]
      /\ manual' = [j \in Jobs |-> 0]
      /\ skipped' = {} /\ deferred' = {}
      /\ UNCHANGED <<disk, failed, spent, updates, manualRuns>>
  BY DEF Crash
<1>3. OutOfBatch \in [Jobs -> Phases] /\ MaxManualRuns \in Nat /\ manualRuns \in Nat
  BY StateTypes DEF OutOfBatch, Phases
<1>4. crashes' \in 0 .. MaxCrashes
  <2>1. crashes \in 0 .. MaxCrashes /\ MaxCrashes \in Nat
    BY <1>1, LimitsAssumption DEF TypeOK
  <2>. QED
    BY <1>2, <2>1
<1>5. TypeOK'
  <2>1. mem' \in [Jobs -> Job] /\ exposed' \subseteq Jobs
    BY <1>1, <1>2, CreatedFields DEF ExposedKept, TypeOK
  <2>2. manual' \in [Jobs -> 0 .. MaxManualRuns]
    BY <1>2, <1>3
  <2>3. batch' \in [{"tick", "start"} -> [Jobs -> Phases]] /\ batch'["tick"] = OutOfBatch
        /\ batch'["start"] = OutOfBatch
    BY <1>2, <1>3
  <2>. QED
    BY <1>1, <1>2, <1>4, <2>1, <2>2, <2>3 DEF TypeOK
<1>6. \A j \in Jobs : ~Held(j)' /\ Alone(j)' /\ manual'[j] = 0
  BY <1>2 DEF Held, Alone, OutOfBatch
<1>. QED
  BY <1>2, <1>3, <1>5, <1>6
     DEF IInv, DownIsQuiet, ManualRunsCounted, HeldIsTaken, MarkersOwned, Loaded

\* start() begins with a store in which nothing is marked.
LEMMA StartRecoversKeepsInvariant ==
    ASSUME IInv, StartRecovers, ExposedKept
    PROVE  IInv'
<1>1. TypeOK /\ ManualRunsCounted /\ DownIsQuiet /\ HeldIsTaken
  BY DEF IInv
<1>. DEFINE interrupted == {j \in Listed(disk) : disk[j].marker # "none"}
            s == [j \in Jobs |-> IF j \in interrupted THEN MarkInterruptedStartupRun(j, disk[j])
                                 ELSE disk[j]]
<1>2. /\ service = "down" /\ mem' = s
      /\ \/ Saves(s) /\ service' = "recovered" /\ skipped' = interrupted
         \/ SaveFails("start") /\ service' = "failed" /\ UNCHANGED skipped
      /\ UNCHANGED <<timer, ticking, batch, manual, deferred, spent, counters>>
  BY DEF StartRecovers
<1>3. interrupted \subseteq Jobs
  BY DEF Listed
<1>4. s \in Store /\ \A j \in Jobs : s[j].life = disk[j].life /\ Unmarked(s[j])
  <2>. SUFFICES ASSUME NEW j \in Jobs
                PROVE  s[j] \in Job /\ s[j].life = disk[j].life /\ Unmarked(s[j])
    BY DEF Store
  <2>1. disk[j] \in Job
    BY StateTypes
  <2>2. CASE j \in interrupted
    BY <2>1, <2>2, InterruptedFacts DEF Unmarked
  <2>3. CASE j \notin interrupted
    BY <2>1, <2>3 DEF Unmarked, Listed
  <2>. QED
    BY <2>2, <2>3
<1>. HIDE DEF interrupted, s
<1>5. disk' \in Store /\ failed' \in SavesThatFail \cup {"none"}
      /\ (failed' = "none" => disk' = s)
  BY <1>2, <1>4, SaveFacts
<1>6. TypeOK'
  <2>1. exposed' \subseteq Jobs
    BY <1>1 DEF ExposedKept, TypeOK
  <2>. QED
    BY <1>1, <1>2, <1>3, <1>4, <1>5, <2>1 DEF TypeOK, Store, counters
<1>7. \A j \in Jobs : ~Held(j)' /\ Alone(j)'
  <2>. SUFFICES ASSUME NEW j \in Jobs
                PROVE  ~Held(j)' /\ Alone(j)'
    OBVIOUS
  <2>1. ~Held(j) /\ manual[j] \in Nat
    BY <1>1, <1>2, StateTypes DEF DownIsQuiet, Loaded
  <2>. QED
    BY <1>2, <2>1 DEF Held, Alone
<1>8. \A j \in Jobs : failed' = "none" => Unmarked(mem'[j]) /\ Unmarked(disk'[j])
                                          /\ mem'[j].life = disk'[j].life
  BY <1>2, <1>4, <1>5
<1>9. ManualRunsCounted'
  BY <1>1, <1>2 DEF ManualRunsCounted, counters
<1>. QED
  BY <1>6, <1>7, <1>8, <1>9 DEF IInv, DownIsQuiet, HeldIsTaken, MarkersOwned, Unmarked

-----------------------------------------------------------------------------
(* The theorems.                                                            *)

\* The invariant holds at first,
LEMMA InitEstablishes == Init => IInv
<1>. SUFFICES ASSUME Init
              PROVE  IInv
  OBVIOUS
<1>1. OutOfBatch \in [Jobs -> Phases] /\ MaxManualRuns \in Nat /\ MaxUpdates \in Nat
      /\ MaxCrashes \in Nat
  BY LimitsAssumption DEF OutOfBatch, Phases
<1>2. disk \in [Jobs -> Job] /\ mem \in [Jobs -> Job]
  BY CreatedFields DEF Init
<1>3. manual \in [Jobs -> 0 .. MaxManualRuns]
  BY <1>1 DEF Init
<1>4. TypeOK
  <2>1. /\ batch \in [{"tick", "start"} -> [Jobs -> Phases]]
        /\ batch["tick"] = OutOfBatch /\ batch["start"] = OutOfBatch
    BY <1>1 DEF Init
  <2>2. /\ updates \in 0 .. MaxUpdates /\ manualRuns \in 0 .. MaxManualRuns
        /\ crashes \in 0 .. MaxCrashes
    BY <1>1 DEF Init
  <2>3. /\ service = "down" /\ timer \in BOOLEAN /\ ticking = FALSE /\ failed = "none"
        /\ skipped \subseteq Jobs /\ deferred \subseteq Jobs
        /\ spent \subseteq Jobs /\ exposed \subseteq Jobs
    BY DEF Init
  <2>. QED
    BY <1>2, <1>3, <2>1, <2>2, <2>3 DEF TypeOK
<1>5. \A j \in Jobs : ~Held(j) /\ Alone(j) /\ manual[j] = 0
  BY DEF Init, Held, Alone, OutOfBatch
<1>6. ~Loaded /\ manualRuns = 0
  BY DEF Init, Loaded
<1>. QED
  BY <1>4, <1>5, <1>6
     DEF IInv, DownIsQuiet, ManualRunsCounted, HeldIsTaken, MarkersOwned

\* and every step keeps it.
LEMMA NextPreserves == IInv /\ [Next]_vars => IInv'
<1>. SUFFICES ASSUME IInv, [Next]_vars
              PROVE  IInv'
  OBVIOUS
<1>1. CASE UNCHANGED vars
  BY <1>1 DEF vars, store, starting, counters, IInv, TypeOK, DownIsQuiet, ManualRunsCounted,
              HeldIsTaken, MarkersOwned, Held, Alone, Loaded
<1>2. CASE Steps /\ ExposedKept
  <2>1. CASE Crash
    BY <1>2, <2>1, CrashKeepsInvariant
  <2>2. CASE StartRecovers
    BY <1>2, <2>2, StartRecoversKeepsInvariant
  <2>3. CASE ~Crash /\ ~StartRecovers
    <3>1. ASSUME NEW j \in Jobs, SlotComes(j) \/ MarkerAges(j)
          PROVE  Typed /\ Served
      BY <3>1, TimeIsServed
    <3>2. ASSUME NEW o \in {"tick", "start"}, NEW j \in Jobs, RunStarts(o, j) \/ RunEnds(o, j)
          PROVE  Typed /\ Served
      BY <3>2, BatchIsServed
    <3>3. TimerFires \/ TickApplies => Typed /\ Served
      BY TimerFiresIsServed, TickAppliesIsServed
    <3>4. StartPlans \/ StartApplies \/ StartArms => Typed /\ Served
      BY StartPlansIsServed, StartAppliesIsServed, StartArmsIsServed
    <3>5. ASSUME NEW j \in Jobs, Add(j) \/ Remove(j) \/ RunByHand(j)
          PROVE  Typed /\ Served
      BY <3>5, OperatorIsServed, RunByHandIsServed
    <3>6. ASSUME NEW j \in Jobs, NEW patch \in Patches, Update(j, patch)
          PROVE  Typed /\ Served
      BY <3>6, OperatorIsServed
    <3>7. ASSUME NEW j \in Jobs, NEW status \in Results(j), ManualRunEnds(j, status)
          PROVE  Typed /\ Served
      BY <3>7, ManualRunEndsIsServed
    <3>8. Read => Typed /\ Served
      BY ReadIsServed
    <3>9. Typed /\ Served
      BY <1>2, <2>3, <3>1, <3>2, <3>3, <3>4, <3>5, <3>6, <3>7, <3>8 DEF Steps
    <3>. QED
      BY <1>2, <3>9, ServedKeepsInvariant
  <2>. QED
    BY <2>1, <2>2, <2>3
<1>. QED
  BY <1>1, <1>2 DEF Next

\* The invariant is inductive.
THEOREM Invariance == Spec => []IInv
<1>. QED
  BY InitEstablishes, NextPreserves, PTL DEF Spec

\* Every variable keeps its type: the store, the batches of onTimer and of start,
\* and the runs by hand (src/cron/service/timer.ts, ops.ts).
THEOREM TypeCorrect == Spec => []TypeOK
<1>1. IInv => TypeOK
  BY DEF IInv
<1>. QED
  BY <1>1, Invariance, PTL

\* A job has one run at a time, of a tick, of the catch-up or by hand, for as long
\* as it is not disabled while it has a run (runningAtMs, saved before the run).
THEOREM RunsDoNotOverlap == Spec => []NoOverlap
<1>1. IInv => NoOverlap
  <2>. SUFFICES ASSUME IInv, NEW j \in Jobs \ exposed
                PROVE  RunsOf(j) <= 1
    BY DEF NoOverlap
  <2>1. TypeOK /\ Alone(j) /\ manual[j] \in Nat
    BY StateTypes DEF IInv, HeldIsTaken
  <2>2. CASE Executing(j) = {}
    <3>1. Cardinality(Executing(j)) = 0
      BY <2>1, <2>2, HeldIsInHand
    <3>. QED
      BY <2>1, <3>1 DEF RunsOf, Alone
  <2>3. CASE Executing(j) # {}
    <3>1. PICK o \in {"tick", "start"} : batch[o][j] = "running"
      BY <2>3 DEF Executing
    <3>2. Executing(j) = {o} /\ manual[j] = 0
      BY <2>1, <3>1 DEF Executing, Alone
    <3>3. Cardinality({o}) = 1
      BY FS_Singleton
    <3>. QED
      BY <3>2, <3>3 DEF RunsOf
  <2>. QED
    BY <2>2, <2>3
<1>. QED
  BY <1>1, Invariance, PTL

\* A saved marker has a run or a place in a batch that will remove it, until a save
\* fails: start() and applyJobResult leave none behind.
THEOREM MarkersHaveOwners == Spec => []MarkerHasOwner
<1>1. IInv => MarkerHasOwner
  <2>. SUFFICES ASSUME IInv, NEW j \in Listed(disk), failed = "none", Loaded,
                       disk[j].marker # "none"
                PROVE  InHand(j)
    BY DEF MarkerHasOwner
  <2>1. j \in Jobs /\ ~Unmarked(disk[j])
    BY DEF Listed, Unmarked
  <2>2. Held(j)
    BY <2>1 DEF IInv, MarkersOwned
  <2>. QED
    BY <2>1, <2>2, HeldIsInHand DEF IInv
<1>. QED
  BY <1>1, Invariance, PTL

-----------------------------------------------------------------------------
(* That a slot runs once: a second invariant, on top of the first.          *)

\* A slot that the scheduler would run has not been run: it is marked, or not due.
Handled(a) == a.life = "live" /\ a.enabled /\ a.next = "due" => a.marker # "none"

\* The pass over the store gives no one-shot its past time again.
HasSlot(j, a) ==
    j \in OneShots /\ a.life = "live" /\ a.enabled /\ a.at = "passed" => a.next # "none"

Old(a) == a.life = "live" /\ a.marker = "old"

SlotsKept == \A j \in Jobs : HasSlot(j, mem[j]) /\ HasSlot(j, disk[j])

SpentHandled ==
    failed = "none" =>
        \A j \in Jobs \ exposed :
            /\ \A o \in {"tick", "start"} : batch[o][j] = "waiting" => j \notin spent
            /\ j \in spent => Handled(mem[j]) /\ Handled(disk[j])

Slots == SlotsKept /\ SpentHandled

\* Only a one-shot whose time has come can be due at once.
LEMMA NextRunOfDue ==
    ASSUME NEW j \in Jobs, NEW a \in Job
    PROVE  /\ NextRunOf(j, a) = "due" => j \in OneShots /\ a.at = "passed"
           /\ j \in OneShots /\ a.at = "passed" => NextRunOf(j, a) = "due"
<1>1. CASE j \notin OneShots \/ a.at = "future"
  BY <1>1 DEF NextRunOf
<1>2. CASE j \in OneShots /\ a.at = "passed"
  BY <1>2 DEF NextRunOf
<1>3. CASE j \in OneShots /\ a.at = "done"
  BY <1>3 DEF NextRunOf
<1>. QED
  BY <1>1, <1>2, <1>3, JobFields

\* A new next run that NextRunOf computes.
LEMMA RescheduledSlot ==
    ASSUME NEW j \in Jobs, NEW a \in Job
    PROVE  LET b == [a EXCEPT !.next = NextRunOf(j, a)]
           IN  /\ HasSlot(j, b)
               /\ HasSlot(j, a) /\ Handled(a) /\ a.next # "future" => Handled(b)
<1>. DEFINE n == NextRunOf(j, a)
            b == [a EXCEPT !.next = n]
<1>1. n \in NextRuns /\ (n = "due" <=> j \in OneShots /\ a.at = "passed")
  BY NextRunOfType, NextRunOfDue
<1>. HIDE DEF n
<1>2. b.life = a.life /\ b.enabled = a.enabled /\ b.marker = a.marker /\ b.at = a.at /\ b.next = n
  BY <1>1 DEF Job
<1>. HIDE DEF b
<1>3. HasSlot(j, b)
  BY <1>1, <1>2 DEF HasSlot
<1>4. HasSlot(j, a) /\ Handled(a) /\ a.next # "future" => Handled(b)
  BY <1>1, <1>2, JobFields DEF HasSlot, Handled, NextRuns
<1>. QED
  BY <1>3, <1>4 DEF b, n

\* A pass over the store makes no slot due that has been handled.
LEMMA WalkSlots ==
    ASSUME NEW s \in Store, NEW replaced, "future" \notin replaced, NEW j \in Jobs,
           HasSlot(j, s[j])
    PROVE  /\ HasSlot(j, Walk(s, replaced)[j])
           /\ Handled(s[j]) /\ ~Old(s[j]) => Handled(Walk(s, replaced)[j])
<1>. DEFINE b == CASE j \notin Listed(s) -> s[j]
                   [] j \in Listed(s) \ Enabled(s) ->
                          [s[j] EXCEPT !.next = "none", !.marker = "none"]
                   [] j \in Enabled(s) /\ s[j].marker = "old" -> [s[j] EXCEPT !.marker = "none"]
                   [] OTHER -> IF s[j].next \in replaced
                               THEN [s[j] EXCEPT !.next = NextRunOf(j, s[j])] ELSE s[j]
<1>1. Walk(s, replaced)[j] = b
  BY DEF Walk
<1>2. s[j] \in Job /\ Enabled(s) \subseteq Listed(s)
  BY DEF Store, Enabled
<1>3. HasSlot(j, b) /\ (Handled(s[j]) /\ ~Old(s[j]) => Handled(b))
  <2>1. CASE j \notin Listed(s)
    <3>1. b = s[j]
      BY <1>2, <2>1
    <3>. HIDE DEF b
    <3>. QED
      BY <3>1
  <2>2. CASE j \in Listed(s) \ Enabled(s)
    <3>1. b = [s[j] EXCEPT !.next = "none", !.marker = "none"]
      BY <2>2
    <3>2. ~s[j].enabled
      BY <2>2 DEF Enabled
    <3>. HIDE DEF b
    <3>3. ~b.enabled
      BY <1>2, <3>1, <3>2, ClearedFields
    <3>. QED
      BY <3>3 DEF HasSlot, Handled
  <2>3. CASE j \in Enabled(s) /\ s[j].marker = "old"
    <3>1. b = [s[j] EXCEPT !.marker = "none"]
      BY <1>2, <2>3
    <3>2. Old(s[j])
      BY <1>2, <2>3 DEF Old, Listed
    <3>. HIDE DEF b
    <3>3. b.life = s[j].life /\ b.enabled = s[j].enabled /\ b.next = s[j].next /\ b.at = s[j].at
      BY <1>2, <3>1 DEF Job
    <3>. QED
      BY <3>2, <3>3 DEF HasSlot
  <2>4. CASE j \in Enabled(s) /\ s[j].marker # "old"
    <3>1. b = IF s[j].next \in replaced
              THEN [s[j] EXCEPT !.next = NextRunOf(j, s[j])] ELSE s[j]
      BY <1>2, <2>4
    <3>. HIDE DEF b
    <3>. QED
      BY <1>2, <3>1, RescheduledSlot
  <2>. QED
    BY <2>1, <2>2, <2>3, <2>4
<1>. QED
  BY <1>1, <1>3

\* A result leaves no slot that is due.
LEMMA ResultSlots ==
    ASSUME NEW j \in Jobs, NEW a \in Job, NEW status \in Results(j)
    PROVE  /\ HasSlot(j, ApplyJobResult(j, a, status))
           /\ Handled(ApplyJobResult(j, a, status))
<1>. DEFINE over == [a EXCEPT !.marker = "none"]
            past == IF a.at = "passed" THEN "done" ELSE a.at
<1>1. over \in Job
  BY UnmarkedField
<1>2. CASE j \notin OneShots
  <2>1. ApplyJobResult(j, a, status) =
            [over EXCEPT !.next = IF a.enabled THEN "future" ELSE "none"]
    BY <1>2, JobsAssumption DEF ApplyJobResult
  <2>. HIDE DEF over
  <2>2. [over EXCEPT !.next = IF a.enabled THEN "future" ELSE "none"].next # "due"
    BY <1>1 DEF Job
  <2>. QED
    BY <1>2, <2>1, <2>2 DEF HasSlot, Handled
<1>3. CASE j \in DeletedAfterRun /\ status = "ok"
  <2>1. ApplyJobResult(j, a, status) = Removed
    BY <1>3, JobsAssumption DEF ApplyJobResult
  <2>. QED
    BY <2>1, CreatedFields DEF HasSlot, Handled
<1>4. CASE j \in OneShots \ DeletedAfterRun /\ status = "ok"
  <2>1. ApplyJobResult(j, a, status) =
            [over EXCEPT !.enabled = FALSE, !.next = "none", !.at = past]
    BY <1>4 DEF ApplyJobResult
  <2>. HIDE DEF over, past
  <2>2. ~[over EXCEPT !.enabled = FALSE, !.next = "none", !.at = past].enabled
    BY <1>1 DEF Job
  <2>. QED
    BY <2>1, <2>2 DEF HasSlot, Handled
<1>5. CASE j \in OneShots /\ status = "error"
  <2>1. ApplyJobResult(j, a, status) = [over EXCEPT !.enabled = FALSE, !.next = "none"]
    BY <1>5 DEF ApplyJobResult
  <2>. HIDE DEF over
  <2>2. ~[over EXCEPT !.enabled = FALSE, !.next = "none"].enabled
    BY <1>1 DEF Job
  <2>. QED
    BY <2>1, <2>2 DEF HasSlot, Handled
<1>6. CASE j \in OneShots /\ status = "retry"
  <2>1. ApplyJobResult(j, a, status) = [over EXCEPT !.next = "future"]
    BY <1>6 DEF ApplyJobResult
  <2>. HIDE DEF over
  <2>2. [over EXCEPT !.next = "future"].next = "future"
    BY <1>1 DEF Job
  <2>. QED
    BY <2>1, <2>2 DEF HasSlot, Handled
<1>. QED
  BY <1>2, <1>3, <1>4, <1>5, <1>6 DEF Results

\* A patch makes a slot due only if it is of the schedule or enables the job.
LEMMA PatchSlots ==
    ASSUME NEW j \in Jobs, NEW a \in Job, NEW patch \in Patches, HasSlot(j, a)
    PROVE  /\ HasSlot(j, Patched(j, a, patch))
           /\ Handled(a) /\ patch \notin {"schedule", "enable"} => Handled(Patched(j, a, patch))
<1>. DEFINE on == [a EXCEPT !.enabled = TRUE]
            moved == [a EXCEPT !.at = "future"]
<1>1. on \in Job /\ moved \in Job /\ moved.enabled = a.enabled
  BY DEF Job
<1>2. CASE patch = "disable"
  <2>1. Patched(j, a, patch) = [a EXCEPT !.enabled = FALSE, !.next = "none", !.marker = "none"]
    BY <1>2 DEF Patched
  <2>2. ~[a EXCEPT !.enabled = FALSE, !.next = "none", !.marker = "none"].enabled
    BY DEF Job
  <2>. QED
    BY <2>1, <2>2 DEF HasSlot, Handled
<1>3. CASE patch = "enable"
  <2>1. Patched(j, a, patch) = [on EXCEPT !.next = NextRunOf(j, on)]
    BY <1>3 DEF Patched
  <2>. HIDE DEF on
  <2>. QED
    BY <1>1, <1>3, <2>1, RescheduledSlot
<1>4. CASE patch = "schedule" /\ a.enabled
  <2>1. Patched(j, a, patch) = [moved EXCEPT !.next = NextRunOf(j, moved)]
    BY <1>4 DEF Patched
  <2>. HIDE DEF moved
  <2>. QED
    BY <1>1, <1>4, <2>1, RescheduledSlot
<1>5. CASE patch = "schedule" /\ ~a.enabled
  <2>1. Patched(j, a, patch) = [moved EXCEPT !.next = "none", !.marker = "none"]
    BY <1>5 DEF Patched
  <2>. HIDE DEF moved
  <2>2. ~[moved EXCEPT !.next = "none", !.marker = "none"].enabled
    BY <1>1, <1>5, ClearedFields
  <2>. QED
    BY <2>1, <2>2 DEF HasSlot, Handled
<1>6. CASE patch = "name"
  <2>1. Patched(j, a, patch) =
            IF a.enabled /\ a.next = "none" THEN [a EXCEPT !.next = NextRunOf(j, a)] ELSE a
    BY <1>6 DEF Patched
  <2>. QED
    BY <2>1, RescheduledSlot
<1>. QED
  BY <1>2, <1>3, <1>4, <1>5, <1>6 DEF Patches

\* The other passes, on one job.
LEMMA SlotEdits ==
    ASSUME NEW j \in Jobs, NEW a \in Job, HasSlot(j, a)
    PROVE  /\ HasSlot(j, ComesDue(j, a)) /\ HasSlot(j, Aged(a))
           /\ Handled(a) => Handled(Aged(a))
           /\ HasSlot(j, MarkInterruptedStartupRun(j, a))
           /\ Handled(MarkInterruptedStartupRun(j, a))
           /\ HasSlot(j, [a EXCEPT !.next = "future"]) /\ Handled([a EXCEPT !.next = "future"])
<1>1. HasSlot(j, ComesDue(j, a))
  <2>. DEFINE at == IF j \in OneShots /\ a.at = "future" THEN "passed" ELSE a.at
              b == [a EXCEPT !.next = "due", !.at = at]
  <2>1. ComesDue(j, a) = IF a.next # "future" THEN a ELSE b
    BY DEF ComesDue
  <2>. HIDE DEF at
  <2>2. b.next = "due"
    BY DEF Job
  <2>. HIDE DEF b
  <2>. QED
    BY <2>1, <2>2 DEF HasSlot
<1>2. HasSlot(j, Aged(a)) /\ (Handled(a) => Handled(Aged(a)))
  <2>. DEFINE b == [a EXCEPT !.marker = "old"]
  <2>1. Aged(a) = IF a.marker = "fresh" THEN b ELSE a
    BY DEF Aged
  <2>2. b.life = a.life /\ b.enabled = a.enabled /\ b.next = a.next /\ b.at = a.at
        /\ b.marker = "old"
    BY DEF Job
  <2>. HIDE DEF b
  <2>. QED
    BY <2>1, <2>2 DEF HasSlot, Handled
<1>3. HasSlot(j, MarkInterruptedStartupRun(j, a)) /\ Handled(MarkInterruptedStartupRun(j, a))
  <2>. DEFINE b == MarkInterruptedStartupRun(j, a)
  <2>1. b.next = "none" /\ (b.enabled => j \notin OneShots)
    BY DEF MarkInterruptedStartupRun, Job
  <2>. HIDE DEF b
  <2>2. HasSlot(j, b) /\ Handled(b)
    BY <2>1 DEF HasSlot, Handled
  <2>. QED
    BY <2>2 DEF b
<1>4. HasSlot(j, [a EXCEPT !.next = "future"]) /\ Handled([a EXCEPT !.next = "future"])
  <2>1. [a EXCEPT !.next = "future"].next = "future"
    BY DEF Job
  <2>. QED
    BY <2>1 DEF HasSlot, Handled
<1>. QED
  BY <1>1, <1>2, <1>3, <1>4

\* A marked job is handled.
LEMMA MarkSlots ==
    ASSUME NEW s \in Store, NEW js \in SUBSET Jobs, NEW j \in Jobs, HasSlot(j, s[j])
    PROVE  /\ HasSlot(j, Mark(s, js)[j])
           /\ Handled(s[j]) => Handled(Mark(s, js)[j])
<1>. DEFINE b == [s[j] EXCEPT !.marker = "fresh"]
<1>1. Mark(s, js)[j] = IF j \in js THEN b ELSE s[j]
  BY DEF Mark
<1>2. s[j] \in Job
  BY DEF Store
<1>3. b.life = s[j].life /\ b.enabled = s[j].enabled /\ b.next = s[j].next /\ b.at = s[j].at
      /\ b.marker = "fresh"
  BY <1>2 DEF Job
<1>. HIDE DEF b
<1>. QED
  BY <1>1, <1>3 DEF HasSlot, Handled

\* A job that is new or gone has no slot.
LEMMA EndedSlots ==
    /\ \A j \in Jobs : HasSlot(j, Created) /\ HasSlot(j, NotCreated) /\ HasSlot(j, Removed)
    /\ Handled(Created) /\ Handled(NotCreated) /\ Handled(Removed)
    /\ ~Old(Created) /\ ~Old(NotCreated) /\ ~Old(Removed)
BY DEF HasSlot, Handled, Old, Created, NotCreated, Removed

\* The slots of both stores after a step, with the history as it was before.
SlotStep ==
    /\ \A j \in Jobs : HasSlot(j, mem'[j]) /\ HasSlot(j, disk'[j])
    /\ failed' = "none" =>
        \A j \in Jobs \ exposed :
            /\ \A o \in {"tick", "start"} : batch'[o][j] = "waiting" => j \notin spent'
            /\ j \in spent' => Handled(mem'[j]) /\ Handled(disk'[j])

\* The history only grows.
LEMMA SlotStepKeeps ==
    ASSUME SlotStep, ExposedKept
    PROVE  Slots'
BY DEF SlotStep, ExposedKept, Slots, SlotsKept, SpentHandled, HasSlot, Handled

\* While it is up and no save has failed, no job has an old marker.
LEMMA NothingIsOld ==
    ASSUME IInv, Loaded, failed = "none", NEW j \in Jobs \ exposed
    PROVE  ~Old(mem[j]) /\ ~Old(disk[j])
<1>1. CASE Held(j)
  BY <1>1 DEF IInv, HeldIsTaken, Taken, Old
<1>2. CASE ~Held(j)
  BY <1>2 DEF IInv, MarkersOwned, Unmarked, Old
<1>. QED
  BY <1>1, <1>2

\* A step that makes the store s and nothing waits in a batch that is spent.
LEMMA EditKeepsSlots ==
    ASSUME IInv, Slots, NEW s \in Store, NEW section, mem' = s,
           Saves(s) \/ SaveFails(section) \/ UNCHANGED <<disk, failed>>,
           spent' \subseteq spent,
           failed = "none" /\ failed' = "none" =>
               \A j \in Jobs \ exposed, o \in {"tick", "start"} :
                   batch'[o][j] = "waiting" => batch[o][j] = "waiting" \/ j \notin spent,
           \A j \in Jobs : HasSlot(j, s[j]),
           failed = "none" /\ failed' = "none" =>
               \A j \in Jobs \ exposed : j \in spent' => Handled(s[j])
    PROVE  SlotStep
<1>1. disk' = disk \/ disk' = s
  BY SaveFacts
<1>2. failed' = "none" => failed = "none"
  BY SaveFacts
<1>3. \A j \in Jobs : HasSlot(j, mem'[j]) /\ HasSlot(j, disk'[j])
  BY <1>1 DEF Slots, SlotsKept
<1>4. ASSUME failed' = "none", NEW j \in Jobs \ exposed
      PROVE  /\ \A o \in {"tick", "start"} : batch'[o][j] = "waiting" => j \notin spent'
             /\ j \in spent' => Handled(mem'[j]) /\ Handled(disk'[j])
  BY <1>1, <1>2, <1>4 DEF Slots, SpentHandled
<1>. QED
  BY <1>3, <1>4 DEF SlotStep

\* What the second invariant says of the stores.
LEMMA SlotTypes ==
    ASSUME IInv, Slots
    PROVE  /\ mem \in Store /\ disk \in Store
           /\ \A j \in Jobs : mem[j] \in Job /\ disk[j] \in Job
           /\ \A j \in Jobs : HasSlot(j, mem[j]) /\ HasSlot(j, disk[j])
           /\ failed = "none" =>
                  \A j \in Jobs \ exposed : j \in spent => Handled(mem[j]) /\ Handled(disk[j])
BY StateTypes DEF Slots, SlotsKept, SpentHandled

\* A slot that comes is new; an old marker is still one.
LEMMA TimeKeepsSlots ==
    ASSUME IInv, Slots, NEW j \in Jobs, SlotComes(j) \/ MarkerAges(j)
    PROVE  SlotStep
<1>1. CASE SlotComes(j)
  <2>1. /\ mem' = [mem EXCEPT ![j] = ComesDue(j, mem[j])]
        /\ disk' = [disk EXCEPT ![j] = ComesDue(j, disk[j])]
        /\ spent' = spent \ {j} /\ batch' = batch /\ failed' = failed
    BY <1>1 DEF SlotComes
  <2>2. /\ mem'[j] = ComesDue(j, mem[j]) /\ disk'[j] = ComesDue(j, disk[j])
        /\ \A k \in Jobs \ {j} : mem'[k] = mem[k] /\ disk'[k] = disk[k]
    BY <2>1, StateTypes DEF Store
  <2>3. HasSlot(j, mem'[j]) /\ HasSlot(j, disk'[j])
    BY <2>2, SlotTypes, SlotEdits
  <2>. QED
    BY <2>1, <2>2, <2>3 DEF SlotStep, Slots, SlotsKept, SpentHandled
<1>2. CASE MarkerAges(j)
  <2>1. /\ mem' = [mem EXCEPT ![j] = Aged(mem[j])]
        /\ disk' = [disk EXCEPT ![j] = Aged(disk[j])]
        /\ spent' = spent /\ batch' = batch /\ failed' = failed
    BY <1>2 DEF MarkerAges
  <2>2. /\ mem'[j] = Aged(mem[j]) /\ disk'[j] = Aged(disk[j])
        /\ \A k \in Jobs \ {j} : mem'[k] = mem[k] /\ disk'[k] = disk[k]
    BY <2>1, StateTypes DEF Store
  <2>3. /\ HasSlot(j, mem'[j]) /\ HasSlot(j, disk'[j])
        /\ Handled(mem[j]) => Handled(mem'[j])
        /\ Handled(disk[j]) => Handled(disk'[j])
    BY <2>2, SlotTypes, SlotEdits
  <2>. QED
    BY <2>1, <2>2, <2>3 DEF SlotStep, Slots, SlotsKept, SpentHandled
<1>. QED
  BY <1>1, <1>2

\* What runs is marked, and what waits in a batch waits in no other.
LEMMA BatchKeepsSlots ==
    ASSUME IInv, Slots, NEW o \in {"tick", "start"}, NEW j \in Jobs,
           RunStarts(o, j) \/ RunEnds(o, j)
    PROVE  SlotStep
<1>1. PICK phase \in {"running", "ran"} :
          /\ batch[o][j] # "out"
          /\ batch' = [batch EXCEPT ![o][j] = phase]
          /\ spent' \subseteq spent \cup {j}
          /\ mem' = mem /\ disk' = disk /\ failed' = failed
  BY DEF RunStarts, RunEnds, store
<1>2. /\ batch'[o][j] = phase
      /\ \A k \in Jobs \ {j} : batch'[o][k] = batch[o][k]
      /\ \A p \in {"tick", "start"} \ {o} : batch'[p] = batch[p]
  BY <1>1, StateTypes DEF Phases
<1>3. \A k \in Jobs : HasSlot(k, mem'[k]) /\ HasSlot(k, disk'[k])
  BY <1>1, SlotTypes
<1>4. ASSUME failed' = "none", NEW k \in Jobs \ exposed
      PROVE  /\ \A p \in {"tick", "start"} : batch'[p][k] = "waiting" => k \notin spent'
             /\ k \in spent' => Handled(mem'[k]) /\ Handled(disk'[k])
  <2>1. CASE k = j
    <3>1. Held(j) /\ Alone(j) /\ Taken(mem[j]) /\ Taken(disk[j])
      BY <1>1, <2>1 DEF IInv, HeldIsTaken, Held
    <3>2. Handled(mem[j]) /\ Handled(disk[j])
      BY <3>1 DEF Taken, Handled
    <3>3. \A p \in {"tick", "start"} : batch'[p][j] # "waiting"
      BY <1>1, <1>2, <3>1 DEF Alone
    <3>. QED
      BY <1>1, <2>1, <3>2, <3>3
  <2>2. CASE k # j
    <3>1. k \in spent' => k \in spent
      BY <1>1, <2>2
    <3>2. \A p \in {"tick", "start"} : batch'[p][k] = batch[p][k]
      BY <1>2, <2>2
    <3>. QED
      BY <1>1, <1>4, <3>1, <3>2 DEF Slots, SpentHandled
  <2>. QED
    BY <2>1, <2>2
<1>. QED
  BY <1>3, <1>4 DEF SlotStep

\* The disk keeps what it had.
LEMMA CrashKeepsSlots ==
    ASSUME IInv, Slots, Crash
    PROVE  SlotStep
<1>1. /\ mem' = [j \in Jobs |-> NotCreated]
      /\ batch' = [o \in {"tick", "start"} |-> OutOfBatch]
      /\ disk' = disk /\ failed' = failed /\ spent' = spent
  BY DEF Crash
<1>2. \A j \in Jobs : mem'[j] = NotCreated
  BY <1>1
<1>3. \A j \in Jobs, o \in {"tick", "start"} : batch'[o][j] # "waiting"
  BY <1>1 DEF OutOfBatch
<1>. QED
  BY <1>1, <1>2, <1>3, EndedSlots DEF SlotStep, Slots, SlotsKept, SpentHandled

\* A pass over one of the stores, once edited.
LEMMA PassKeepsSlots ==
    ASSUME NEW s \in Store, NEW replaced, "future" \notin replaced,
           \A j \in Jobs : HasSlot(j, s[j])
    PROVE  /\ Walk(s, replaced) \in Store
           /\ \A j \in Jobs : HasSlot(j, Walk(s, replaced)[j])
           /\ \A j \in Jobs : Handled(s[j]) /\ ~Old(s[j]) => Handled(Walk(s, replaced)[j])
BY WalkRepairs, WalkSlots

\* An operation that makes a slot due makes a new one.
LEMMA OperatorKeepsSlots ==
    ASSUME IInv, Slots, NEW j \in Jobs,
           Add(j) \/ Remove(j) \/ (\E patch \in Patches : Update(j, patch))
    PROVE  SlotStep
<1>1. CASE Add(j)
  <2>. DEFINE edited == [mem EXCEPT ![j] = Created]
              s == Walk(edited, {"none", "due"})
  <2>1. edited \in Store /\ edited[j] = Created /\ \A k \in Jobs \ {j} : edited[k] = mem[k]
    BY StateTypes, CreatedFields DEF Store
  <2>2. Loaded /\ SavesAndArms(s, "operator") /\ UNCHANGED <<batch, spent>>
    BY <1>1 DEF Add, RecomputeNextRuns
  <2>. HIDE DEF edited
  <2>3. \A k \in Jobs : HasSlot(k, edited[k])
    BY <2>1, SlotTypes, EndedSlots
  <2>4. /\ s \in Store /\ \A k \in Jobs : HasSlot(k, s[k])
        /\ \A k \in Jobs : Handled(edited[k]) /\ ~Old(edited[k]) => Handled(s[k])
    BY <2>1, <2>3, PassKeepsSlots
  <2>. HIDE DEF s
  <2>5. mem' = s /\ (Saves(s) \/ SaveFails("operator"))
    BY <2>2 DEF SavesAndArms
  <2>6. ASSUME failed = "none", NEW k \in Jobs \ exposed, k \in spent'
        PROVE  Handled(s[k])
    <3>1. Handled(edited[k]) /\ ~Old(edited[k])
      BY <2>1, <2>2, <2>6, SlotTypes, EndedSlots, NothingIsOld
    <3>. QED
      BY <2>4, <3>1
  <2>. QED
    BY <2>2, <2>4, <2>5, <2>6, EditKeepsSlots
<1>2. CASE Remove(j)
  <2>. DEFINE s == [mem EXCEPT ![j] = Removed]
  <2>1. s \in Store /\ s[j] = Removed /\ \A k \in Jobs \ {j} : s[k] = mem[k]
    BY StateTypes, CreatedFields DEF Store
  <2>2. SavesAndArms(s, "operator") /\ UNCHANGED <<batch, spent>>
    BY <1>2 DEF Remove
  <2>. HIDE DEF s
  <2>3. mem' = s /\ (Saves(s) \/ SaveFails("operator"))
    BY <2>2 DEF SavesAndArms
  <2>4. \A k \in Jobs : HasSlot(k, s[k])
    BY <2>1, SlotTypes, EndedSlots
  <2>5. ASSUME failed = "none", NEW k \in Jobs \ exposed, k \in spent'
        PROVE  Handled(s[k])
    BY <2>1, <2>2, <2>5, SlotTypes, EndedSlots
  <2>. QED
    BY <2>1, <2>2, <2>3, <2>4, <2>5, EditKeepsSlots
<1>3. CASE \E patch \in Patches : Update(j, patch)
  <2>1. PICK patch \in Patches : Update(j, patch)
    BY <1>3
  <2>. DEFINE b == Patched(j, mem[j], patch)
              s == [mem EXCEPT ![j] = b]
  <2>2. b \in Job /\ HasSlot(j, b)
        /\ (Handled(mem[j]) /\ patch \notin {"schedule", "enable"} => Handled(b))
    BY SlotTypes, PatchFacts, PatchSlots
  <2>3. /\ SavesAndArms(s, "operator") /\ batch' = batch /\ spent' \subseteq spent
        /\ patch \in {"schedule", "enable"} => j \notin spent'
    BY <2>1 DEF Update
  <2>. HIDE DEF b
  <2>4. s \in Store /\ s[j] = b /\ \A k \in Jobs \ {j} : s[k] = mem[k]
    BY <2>2, StateTypes DEF Store
  <2>. HIDE DEF s
  <2>5. mem' = s /\ (Saves(s) \/ SaveFails("operator"))
    BY <2>3 DEF SavesAndArms
  <2>6. \A k \in Jobs : HasSlot(k, s[k])
    BY <2>2, <2>4, SlotTypes
  <2>7. ASSUME failed = "none", NEW k \in Jobs \ exposed, k \in spent'
        PROVE  Handled(s[k])
    <3>1. k \in spent /\ Handled(mem[k])
      BY <2>3, <2>7, SlotTypes
    <3>. QED
      BY <2>2, <2>3, <2>4, <2>7, <3>1
  <2>. QED
    BY <2>3, <2>4, <2>5, <2>6, <2>7, EditKeepsSlots
<1>. QED
  BY <1>1, <1>2, <1>3

\* The maintenance of memory or of the disk.
LEMMA MaintenanceKeepsSlots ==
    ASSUME IInv, Slots, Loaded, NEW s \in {mem, disk}, NEW section, mem' = Walk(s, {"none"}),
           Saves(Walk(s, {"none"})) \/ SaveFails(section) \/ UNCHANGED <<disk, failed>>,
           UNCHANGED <<batch, spent>>
    PROVE  SlotStep
<1>. DEFINE w == Walk(s, {"none"})
<1>1. s \in Store /\ \A j \in Jobs : HasSlot(j, s[j])
  BY SlotTypes
<1>2. /\ w \in Store /\ \A j \in Jobs : HasSlot(j, w[j])
      /\ \A j \in Jobs : Handled(s[j]) /\ ~Old(s[j]) => Handled(w[j])
  BY <1>1, PassKeepsSlots
<1>3. ASSUME failed = "none", NEW j \in Jobs \ exposed, j \in spent'
      PROVE  Handled(w[j])
  <2>1. Handled(s[j]) /\ ~Old(s[j])
    BY <1>3, SlotTypes, NothingIsOld
  <2>. QED
    BY <1>2, <2>1
<1>. HIDE DEF w
<1>4. mem' = w /\ (Saves(w) \/ SaveFails(section) \/ UNCHANGED <<disk, failed>>)
  BY DEF w
<1>. QED
  BY <1>2, <1>3, <1>4, EditKeepsSlots

\* A run by hand marks its job.
LEMMA RunByHandKeepsSlots ==
    ASSUME IInv, Slots, NEW j \in Jobs, RunByHand(j)
    PROVE  SlotStep
<1>. DEFINE kept == Walk(mem, {"none"})
            s == Mark(kept, {j})
<1>1. /\ Loaded /\ mem' = s /\ (Saves(s) \/ SaveFails("manual"))
      /\ UNCHANGED <<batch, spent>>
  BY DEF RunByHand, RecomputeNextRunsForMaintenance
<1>2. /\ kept \in Store /\ \A k \in Jobs : HasSlot(k, kept[k])
      /\ \A k \in Jobs : Handled(mem[k]) /\ ~Old(mem[k]) => Handled(kept[k])
  BY SlotTypes, PassKeepsSlots
<1>. HIDE DEF kept
<1>3. /\ s \in Store /\ \A k \in Jobs : HasSlot(k, s[k])
      /\ \A k \in Jobs : Handled(kept[k]) => Handled(s[k])
  BY <1>2, MarkFacts, MarkSlots
<1>. HIDE DEF s
<1>4. ASSUME failed = "none", NEW k \in Jobs \ exposed, k \in spent'
      PROVE  Handled(s[k])
  <2>1. Handled(mem[k]) /\ ~Old(mem[k])
    BY <1>1, <1>4, SlotTypes, NothingIsOld
  <2>. QED
    BY <1>2, <1>3, <2>1
<1>. QED
  BY <1>1, <1>3, <1>4, EditKeepsSlots

\* The result of a run by hand leaves no slot due.
LEMMA ManualRunEndsKeepsSlots ==
    ASSUME IInv, Slots, NEW j \in Jobs, NEW status \in Results(j), ManualRunEnds(j, status)
    PROVE  SlotStep
<1>. DEFINE done == ApplyJobResult(j, mem[j], status)
            merged == IF j \in Listed(disk) THEN done ELSE disk[j]
            edited == [disk EXCEPT ![j] = merged]
            s == Walk(edited, {"none"})
<1>1. /\ manual[j] > 0
      /\ IF j \in Listed(mem) THEN SavesAndArms(s, "manual") ELSE UNCHANGED <<store, failed, timer>>
      /\ UNCHANGED <<batch, spent>>
  BY DEF ManualRunEnds, RecomputeNextRunsForMaintenance
<1>2. merged \in Job /\ HasSlot(j, merged) /\ Handled(merged) /\ ~Old(merged)
  <2>1. done \in Job /\ Unmarked(done) /\ HasSlot(j, done) /\ Handled(done) /\ disk[j] \in Job
        /\ HasSlot(j, disk[j])
    BY ResultFacts, ResultSlots, SlotTypes
  <2>2. j \notin Listed(disk) => disk[j].life # "live"
    BY DEF Listed
  <2>. HIDE DEF done
  <2>. QED
    BY <2>1, <2>2 DEF Unmarked, Old, Handled
<1>. HIDE DEF merged
<1>3. edited \in Store /\ edited[j] = merged /\ \A k \in Jobs \ {j} : edited[k] = disk[k]
  BY <1>2, StateTypes DEF Store
<1>. HIDE DEF edited
<1>4. /\ s \in Store /\ \A k \in Jobs : HasSlot(k, s[k])
      /\ \A k \in Jobs : Handled(edited[k]) /\ ~Old(edited[k]) => Handled(s[k])
  <2>1. \A k \in Jobs : HasSlot(k, edited[k])
    BY <1>2, <1>3, SlotTypes
  <2>. QED
    BY <1>3, <2>1, PassKeepsSlots
<1>. HIDE DEF s
<1>5. Loaded
  BY <1>1 DEF IInv, DownIsQuiet, Held
<1>6. CASE j \in Listed(mem)
  <2>1. mem' = s /\ (Saves(s) \/ SaveFails("manual"))
    BY <1>1, <1>6 DEF SavesAndArms
  <2>2. ASSUME failed = "none", NEW k \in Jobs \ exposed, k \in spent'
        PROVE  Handled(s[k])
    <3>1. Handled(edited[k]) /\ ~Old(edited[k])
      BY <1>1, <1>2, <1>3, <1>5, <2>2, SlotTypes, NothingIsOld
    <3>. QED
      BY <1>4, <3>1
  <2>. QED
    BY <1>1, <1>4, <2>1, <2>2, EditKeepsSlots
<1>7. CASE j \notin Listed(mem)
  BY <1>1, <1>7 DEF store, SlotStep, Slots, SlotsKept, SpentHandled
<1>. QED
  BY <1>6, <1>7

\* What a batch takes is due and unmarked, so it is not spent.
LEMMA RunnableIsNotSpent ==
    ASSUME IInv, Slots, failed = "none", NEW s \in {mem, disk}, NEW j \in Runnable(s) \ exposed
    PROVE  j \notin spent
<1>1. /\ j \in Jobs /\ s[j].life = "live" /\ s[j].enabled /\ s[j].marker = "none"
      /\ s[j].next = "due"
  BY DEF Runnable, Enabled, Listed
<1>. QED
  BY <1>1, SlotTypes DEF Handled

\* A tick takes what is not spent.
LEMMA TimerFiresKeepsSlots ==
    ASSUME IInv, Slots, TimerFires
    PROVE  SlotStep
<1>1. Loaded /\ spent' = spent /\ (TickFindsNothing \/ TickReserves)
  BY DEF TimerFires
<1>2. CASE TickFindsNothing
  <2>. DEFINE w == Walk(disk, {"none"})
  <2>1. mem' = w /\ (Saves(w) \/ SaveFails("tick")) /\ batch' = batch
    BY <1>2 DEF TickFindsNothing, RecomputeNextRunsForMaintenance
  <2>. QED
    BY <1>1, <2>1, MaintenanceKeepsSlots
<1>3. CASE TickReserves
  <2>. DEFINE due == Runnable(disk)
              s == Mark(disk, due)
              taken == [j \in Jobs |-> IF j \in due THEN "waiting" ELSE "out"]
  <2>1. /\ mem' = s
        /\ \/ Saves(s) /\ batch' = [batch EXCEPT !["tick"] = taken]
           \/ SaveFails("tick") /\ batch' = batch
    BY <1>3 DEF TickReserves
  <2>2. due \subseteq Jobs
    BY DEF Runnable, Enabled, Listed
  <2>3. \A j \in due : failed = "none" /\ j \notin exposed => j \notin spent
    BY RunnableIsNotSpent
  <2>. HIDE DEF due
  <2>4. s \in Store /\ \A j \in Jobs : HasSlot(j, s[j]) /\ (Handled(disk[j]) => Handled(s[j]))
    BY <2>2, SlotTypes, MarkFacts, MarkSlots
  <2>. HIDE DEF s
  <2>5. ASSUME failed = "none", NEW j \in Jobs \ exposed, NEW o \in {"tick", "start"},
               batch'[o][j] = "waiting"
        PROVE  batch[o][j] = "waiting" \/ j \notin spent
    <3>1. CASE batch' = batch
      BY <2>5, <3>1
    <3>2. CASE batch' = [batch EXCEPT !["tick"] = taken]
      <4>1. CASE o = "tick"
        <5>1. batch'[o] = taken
          BY <3>2, <4>1, StateTypes
        <5>. QED
          BY <2>3, <2>5, <5>1
      <4>2. CASE o # "tick"
        BY <2>5, <3>2, <4>2, StateTypes
      <4>. QED
        BY <4>1, <4>2
    <3>. QED
      BY <2>1, <3>1, <3>2
  <2>6. ASSUME failed = "none", NEW j \in Jobs \ exposed, j \in spent'
        PROVE  Handled(s[j])
    BY <1>1, <2>4, <2>6, SlotTypes
  <2>7. Saves(s) \/ SaveFails("tick")
    BY <2>1
  <2>. QED
    BY <1>1, <2>1, <2>4, <2>5, <2>6, <2>7, EditKeepsSlots
<1>. QED
  BY <1>1, <1>2, <1>3

\* A batch that is over leaves no slot due: s is a pass over what it left.
LEMMA BatchEndKeepsSlots ==
    ASSUME IInv, Slots, Loaded, NEW o \in {"tick", "start"},
           NEW u \in {mem, disk}, NEW results \in BatchResults,
           NEW t \in Store, t = ApplyResults(u, Ran(o), results),
           NEW p \in Store,
           \A j \in Jobs : p[j] = t[j] \/ p[j] = [t[j] EXCEPT !.next = "future"],
           NEW section, mem' = Walk(p, {"none"}),
           Saves(Walk(p, {"none"})) \/ SaveFails(section),
           batch' = [batch EXCEPT ![o] = OutOfBatch], spent' = spent
    PROVE  SlotStep
<1>. DEFINE s == Walk(p, {"none"})
<1>1. \A j \in Jobs : HasSlot(j, t[j])
  <2>. SUFFICES ASSUME NEW j \in Jobs
                PROVE  HasSlot(j, t[j])
    OBVIOUS
  <2>1. t[j] = u[j] \/ t[j] = ApplyJobResult(j, u[j], results[j])
    BY DEF ApplyResults
  <2>2. u[j] \in Job /\ HasSlot(j, u[j]) /\ results[j] \in Results(j)
    BY SlotTypes DEF BatchResults
  <2>. QED
    BY <2>1, <2>2, ResultSlots
<1>2. \A j \in Jobs : HasSlot(j, p[j]) /\ (Handled(t[j]) => Handled(p[j]))
                      /\ p[j].life = t[j].life /\ p[j].marker = t[j].marker
  <2>. SUFFICES ASSUME NEW j \in Jobs
                PROVE  /\ HasSlot(j, p[j]) /\ (Handled(t[j]) => Handled(p[j]))
                       /\ p[j].life = t[j].life /\ p[j].marker = t[j].marker
    OBVIOUS
  <2>1. t[j] \in Job /\ HasSlot(j, t[j])
    BY <1>1 DEF Store
  <2>2. CASE p[j] = t[j]
    BY <2>1, <2>2
  <2>3. CASE p[j] = [t[j] EXCEPT !.next = "future"]
    <3>1. p[j].life = t[j].life /\ p[j].marker = t[j].marker
      BY <2>1, <2>3 DEF Job
    <3>. QED
      BY <2>1, <2>3, <3>1, SlotEdits
  <2>. QED
    BY <2>2, <2>3
<1>3. /\ s \in Store /\ \A j \in Jobs : HasSlot(j, s[j])
      /\ \A j \in Jobs : Handled(p[j]) /\ ~Old(p[j]) => Handled(s[j])
  BY <1>2, PassKeepsSlots
<1>4. ASSUME failed = "none", NEW j \in Jobs \ exposed, j \in spent'
      PROVE  Handled(s[j])
  <2>1. Handled(u[j]) /\ ~Old(u[j]) /\ u[j] \in Job /\ results[j] \in Results(j)
    BY <1>4, SlotTypes, NothingIsOld DEF BatchResults
  <2>2. t[j] = u[j] \/ t[j] = ApplyJobResult(j, u[j], results[j])
    BY DEF ApplyResults
  <2>3. Handled(t[j]) /\ ~Old(t[j])
    BY <2>1, <2>2, ResultFacts, ResultSlots DEF Unmarked, Old
  <2>4. Handled(p[j]) /\ ~Old(p[j])
    BY <1>2, <2>3 DEF Old
  <2>. QED
    BY <1>3, <2>4
<1>5. \A j \in Jobs, q \in {"tick", "start"} :
          batch'[q][j] = "waiting" => batch[q][j] = "waiting"
  BY StateTypes DEF OutOfBatch
<1>. HIDE DEF s
<1>6. mem' = s /\ (Saves(s) \/ SaveFails(section))
  BY DEF s
<1>. QED
  BY <1>3, <1>4, <1>5, <1>6, EditKeepsSlots

\* A tick leaves no slot due that it has run,
LEMMA TickAppliesKeepsSlots ==
    ASSUME IInv, Slots, TickApplies
    PROVE  SlotStep
<1>1. PICK results \in BatchResults :
          LET s == Walk(ApplyResults(disk, Ran("tick"), results), {"none"})
          IN  mem' = s /\ (Saves(s) \/ SaveFails("tick"))
  BY DEF TickApplies, RecomputeNextRunsForMaintenance
<1>2. /\ ticking /\ batch' = [batch EXCEPT !["tick"] = OutOfBatch] /\ spent' = spent
  BY DEF TickApplies
<1>. DEFINE t == ApplyResults(disk, Ran("tick"), results)
<1>3. t \in Store
  <2>1. Ran("tick") \subseteq Jobs
    BY DEF Ran
  <2>. QED
    BY <2>1, StateTypes, ResultsFacts
<1>4. Loaded
  BY <1>2, StateTypes
<1>5. mem' = Walk(t, {"none"}) /\ (Saves(Walk(t, {"none"})) \/ SaveFails("tick"))
  BY <1>1
<1>6. t = ApplyResults(disk, Ran("tick"), results)
  OBVIOUS
<1>. HIDE DEF t
<1>. QED
  BY <1>2, <1>3, <1>4, <1>5, <1>6, BatchEndKeepsSlots

\* and a restart none that was interrupted.
LEMMA StartRecoversKeepsSlots ==
    ASSUME IInv, Slots, StartRecovers
    PROVE  SlotStep
<1>. DEFINE interrupted == {j \in Listed(disk) : disk[j].marker # "none"}
            s == [j \in Jobs |-> IF j \in interrupted THEN MarkInterruptedStartupRun(j, disk[j])
                                 ELSE disk[j]]
<1>1. mem' = s /\ (Saves(s) \/ SaveFails("start")) /\ UNCHANGED <<batch, spent>>
  BY DEF StartRecovers
<1>2. ASSUME NEW j \in Jobs
      PROVE  /\ s[j] \in Job /\ HasSlot(j, s[j])
             /\ Handled(disk[j]) => Handled(s[j])
  <2>1. disk[j] \in Job /\ HasSlot(j, disk[j])
    BY SlotTypes
  <2>. QED
    BY <2>1, InterruptedFacts, SlotEdits
<1>3. s \in Store
  BY <1>2 DEF Store
<1>. HIDE DEF s
<1>4. ASSUME failed = "none", NEW j \in Jobs \ exposed, j \in spent'
      PROVE  Handled(s[j])
  BY <1>1, <1>2, <1>4, SlotTypes
<1>. QED
  BY <1>1, <1>2, <1>3, <1>4, EditKeepsSlots

\* The catch-up takes what is not spent,
LEMMA StartPlansKeepsSlots ==
    ASSUME IInv, Slots, StartPlans
    PROVE  SlotStep
<1>1. PICK candidates \in SUBSET Runnable(mem) :
          LET taken == [j \in Jobs |-> IF j \in candidates THEN "waiting" ELSE "out"]
              s == Mark(mem, candidates)
          IN \/ UNCHANGED <<mem, disk, failed, batch>>
             \/ /\ mem' = s /\ Saves(s)
                /\ batch' = [batch EXCEPT !["start"] = taken]
             \/ mem' = s /\ SaveFails("start") /\ batch' = batch
  BY DEF StartPlans, store
<1>2. spent' = spent
  BY DEF StartPlans
<1>. DEFINE taken == [j \in Jobs |-> IF j \in candidates THEN "waiting" ELSE "out"]
            s == Mark(mem, candidates)
<1>3. \/ UNCHANGED <<mem, disk, failed, batch>>
      \/ mem' = s /\ Saves(s) /\ batch' = [batch EXCEPT !["start"] = taken]
      \/ mem' = s /\ SaveFails("start") /\ batch' = batch
  BY <1>1
<1>4. candidates \subseteq Jobs
  BY DEF Runnable, Enabled, Listed
<1>5. \A j \in candidates : failed = "none" /\ j \notin exposed => j \notin spent
  BY RunnableIsNotSpent
<1>6. s \in Store /\ \A j \in Jobs : HasSlot(j, s[j]) /\ (Handled(mem[j]) => Handled(s[j]))
  BY <1>4, SlotTypes, MarkFacts, MarkSlots
<1>. HIDE DEF s
<1>7. CASE UNCHANGED <<mem, disk, failed, batch>>
  BY <1>2, <1>7 DEF SlotStep, Slots, SlotsKept, SpentHandled
<1>8. CASE /\ mem' = s /\ (Saves(s) \/ SaveFails("start"))
           /\ batch' = batch \/ batch' = [batch EXCEPT !["start"] = taken]
  <2>1. ASSUME failed = "none", NEW j \in Jobs \ exposed, NEW o \in {"tick", "start"},
               batch'[o][j] = "waiting"
        PROVE  batch[o][j] = "waiting" \/ j \notin spent
    <3>1. CASE batch' = batch
      BY <2>1, <3>1
    <3>2. CASE batch' = [batch EXCEPT !["start"] = taken]
      <4>1. CASE o = "start"
        <5>1. batch'[o] = taken
          BY <3>2, <4>1, StateTypes
        <5>. QED
          BY <1>5, <2>1, <5>1
      <4>2. CASE o # "start"
        BY <2>1, <3>2, <4>2, StateTypes
      <4>. QED
        BY <4>1, <4>2
    <3>. QED
      BY <1>8, <3>1, <3>2
  <2>2. ASSUME failed = "none", NEW j \in Jobs \ exposed, j \in spent'
        PROVE  Handled(s[j])
    BY <1>2, <1>6, <2>2, SlotTypes
  <2>. QED
    BY <1>2, <1>6, <1>8, <2>1, <2>2, EditKeepsSlots
<1>. QED
  BY <1>3, <1>7, <1>8

\* leaves no slot due that it has run,
LEMMA StartAppliesKeepsSlots ==
    ASSUME IInv, Slots, StartApplies
    PROVE  SlotStep
<1>. DEFINE ran(results) == ApplyResults(mem, Ran("start"), results)
            putOff(results) == [j \in Jobs |-> IF j \in deferred \cap Enabled(ran(results))
                                               THEN [ran(results)[j] EXCEPT !.next = "future"]
                                               ELSE ran(results)[j]]
            outcome(results) == Walk(putOff(results), {"none"})
<1>1. PICK results \in BatchResults :
          /\ mem' = outcome(results)
          /\ Saves(outcome(results)) \/ SaveFails("start")
  BY DEF StartApplies, RecomputeNextRunsForMaintenance
<1>2. /\ service = "catching up" /\ batch' = [batch EXCEPT !["start"] = OutOfBatch]
      /\ spent' = spent
  BY DEF StartApplies
<1>. DEFINE t == ran(results)
            p == putOff(results)
<1>3. /\ t = ApplyResults(mem, Ran("start"), results)
      /\ p = [j \in Jobs |-> IF j \in deferred \cap Enabled(t)
                             THEN [t[j] EXCEPT !.next = "future"] ELSE t[j]]
      /\ outcome(results) = Walk(p, {"none"})
  OBVIOUS
<1>. HIDE DEF ran, putOff, outcome, t, p
<1>4. t \in Store
  <2>1. Ran("start") \subseteq Jobs /\ mem \in Store
    BY StateTypes DEF Ran
  <2>. QED
    BY <1>3, <2>1, ResultsFacts
<1>5. p \in Store /\ \A j \in Jobs : p[j] = t[j] \/ p[j] = [t[j] EXCEPT !.next = "future"]
  <2>. SUFFICES ASSUME NEW j \in Jobs
                PROVE  p[j] \in Job /\ (p[j] = t[j] \/ p[j] = [t[j] EXCEPT !.next = "future"])
    BY <1>3 DEF Store
  <2>1. t[j] \in Job
    BY <1>4 DEF Store
  <2>2. [t[j] EXCEPT !.next = "future"] \in Job
    BY <2>1, NextField DEF NextRuns
  <2>. QED
    BY <1>3, <2>1, <2>2
<1>6. Loaded
  BY <1>2 DEF Loaded
<1>7. mem' = Walk(p, {"none"}) /\ (Saves(Walk(p, {"none"})) \/ SaveFails("start"))
  BY <1>1, <1>3
<1>. QED
  BY <1>2, <1>3, <1>4, <1>5, <1>6, <1>7, BatchEndKeepsSlots

\* and repairs the store.
LEMMA StartArmsKeepsSlots ==
    ASSUME IInv, Slots, StartArms
    PROVE  SlotStep
<1>. DEFINE w == Walk(mem, {"none"})
<1>1. /\ service = "caught up" /\ mem' = w /\ UNCHANGED <<batch, spent>>
      /\ Saves(w) \/ SaveFails("start") \/ UNCHANGED <<disk, failed>>
  BY DEF StartArms, RecomputeNextRunsForMaintenance
<1>2. Loaded
  BY <1>1 DEF Loaded
<1>. QED
  BY <1>1, <1>2, MaintenanceKeepsSlots

\* So does a read.
LEMMA ReadKeepsSlots ==
    ASSUME IInv, Slots, Read
    PROVE  SlotStep
<1>. DEFINE w == Walk(mem, {"none"})
<1>1. /\ Loaded /\ mem' = w /\ UNCHANGED <<batch, spent>>
      /\ Saves(w) \/ SaveFails("operator") \/ UNCHANGED <<disk, failed>>
  BY DEF Read, RecomputeNextRunsForMaintenance
<1>. QED
  BY <1>1, MaintenanceKeepsSlots

\* The second invariant holds at first,
LEMMA InitEstablishesSlots == Init => Slots
<1>. SUFFICES ASSUME Init
              PROVE  Slots
  OBVIOUS
<1>1. ASSUME NEW j \in Jobs
      PROVE  /\ mem[j] = NotCreated /\ (disk[j] = NotCreated \/ disk[j] = Created)
             /\ spent = {} /\ \A o \in {"tick", "start"} : batch[o][j] = "out"
  BY DEF Init, OutOfBatch
<1>. QED
  BY <1>1, EndedSlots DEF Slots, SlotsKept, SpentHandled

\* and every step keeps it.
LEMMA NextPreservesSlots == IInv /\ Slots /\ [Next]_vars => Slots'
<1>. SUFFICES ASSUME IInv, Slots, [Next]_vars
              PROVE  Slots'
  OBVIOUS
<1>1. CASE UNCHANGED vars
  BY <1>1 DEF vars, store, Slots, SlotsKept, SpentHandled
<1>2. CASE Steps /\ ExposedKept
  <2>1. ASSUME NEW j \in Jobs, SlotComes(j) \/ MarkerAges(j)
        PROVE  SlotStep
    BY <2>1, TimeKeepsSlots
  <2>2. ASSUME NEW o \in {"tick", "start"}, NEW j \in Jobs, RunStarts(o, j) \/ RunEnds(o, j)
        PROVE  SlotStep
    BY <2>2, BatchKeepsSlots
  <2>3. Crash \/ TimerFires \/ TickApplies \/ Read => SlotStep
    BY CrashKeepsSlots, TimerFiresKeepsSlots, TickAppliesKeepsSlots, ReadKeepsSlots
  <2>4. StartRecovers \/ StartPlans \/ StartApplies \/ StartArms => SlotStep
    BY StartRecoversKeepsSlots, StartPlansKeepsSlots, StartAppliesKeepsSlots, StartArmsKeepsSlots
  <2>5. ASSUME NEW j \in Jobs, Add(j) \/ Remove(j) \/ RunByHand(j)
        PROVE  SlotStep
    BY <2>5, OperatorKeepsSlots, RunByHandKeepsSlots
  <2>6. ASSUME NEW j \in Jobs, NEW patch \in Patches, Update(j, patch)
        PROVE  SlotStep
    BY <2>6, OperatorKeepsSlots
  <2>7. ASSUME NEW j \in Jobs, NEW status \in Results(j), ManualRunEnds(j, status)
        PROVE  SlotStep
    BY <2>7, ManualRunEndsKeepsSlots
  <2>8. SlotStep
    BY <1>2, <2>1, <2>2, <2>3, <2>4, <2>5, <2>6, <2>7 DEF Steps
  <2>. QED
    BY <1>2, <2>8, SlotStepKeeps
<1>. QED
  BY <1>1, <1>2 DEF Next

\* A slot of a job is run once by the scheduler, until a save fails: a tick and the
\* catch-up take only what is due and unmarked (isRunnableJob), and a job that has
\* had its slot is neither, whatever ends its run, also when that is a restart.
THEOREM SlotsRunOnce == Spec => SlotRunsOnce
<1>1. Init => IInv /\ Slots
  BY InitEstablishes, InitEstablishesSlots
<1>2. (IInv /\ Slots) /\ [Next]_vars => (IInv /\ Slots)'
  BY NextPreserves, NextPreservesSlots
<1>3. (IInv /\ Slots) /\ [Next]_vars =>
          [\A o \in {"tick", "start"}, j \in Jobs :
               batch[o][j] = "waiting" /\ batch'[o][j] = "running"
                   => j \notin spent \/ failed # "none" \/ j \in exposed]_vars
  BY DEF Slots, SpentHandled
<1>. QED
  BY <1>1, <1>2, <1>3, PTL DEF Spec, SlotRunsOnce

-----------------------------------------------------------------------------
(* A slot that has come is not passed over.                                 *)

\* b is a, with its next run: one that a lacks may have been computed.
NextKept(a, b) ==
    /\ b.life = a.life
    /\ a.life = "live" => b.enabled = a.enabled
    /\ a.life = "live" /\ a.enabled /\ a.next # "none" => b.next = a.next

\* What memory holds may be saved at any time: until a save fails it has every
\* next run that is on disk.
MemoryFollows == failed = "none" /\ Loaded => \A j \in Jobs : NextKept(disk[j], mem[j])

Due(a) == a.life = "live" /\ a.enabled /\ a.next = "due"

LEMMA NextKeptFacts ==
    /\ \A a : NextKept(a, a)
    /\ \A a, b, c : NextKept(a, b) /\ NextKept(b, c) => NextKept(a, c)
    /\ \A a, b : NextKept(a, b) /\ Due(a) => Due(b)
BY DEF NextKept, Due

\* Maintenance keeps next runs, and so does a marker.
LEMMA MaintenanceKeepsNext ==
    ASSUME NEW s \in Store, NEW j \in Jobs
    PROVE  NextKept(s[j], Walk(s, {"none"})[j])
<1>. DEFINE a == s[j]
            b == Walk(s, {"none"})[j]
            cleared == [a EXCEPT !.next = "none", !.marker = "none"]
            unmarked == [a EXCEPT !.marker = "none"]
            planned == [a EXCEPT !.next = NextRunOf(j, a)]
<1>1. a \in Job /\ Enabled(s) \subseteq Listed(s) /\ (j \in Listed(s) <=> a.life = "live")
      /\ (j \in Enabled(s) <=> a.life = "live" /\ a.enabled)
  BY DEF Store, Enabled, Listed
<1>2. /\ j \notin Listed(s) => b = a
      /\ j \in Listed(s) \ Enabled(s) => b = cleared
      /\ j \in Enabled(s) /\ a.marker = "old" => b = unmarked
      /\ j \in Enabled(s) /\ a.marker # "old" /\ a.next = "none" => b = planned
      /\ j \in Enabled(s) /\ a.marker # "old" /\ a.next # "none" => b = a
  BY <1>1 DEF Walk
<1>3. /\ cleared.life = a.life /\ cleared.enabled = a.enabled
      /\ unmarked.life = a.life /\ unmarked.enabled = a.enabled /\ unmarked.next = a.next
      /\ planned.life = a.life /\ planned.enabled = a.enabled
  BY <1>1 DEF Job
<1>. SUFFICES NextKept(a, b)
  OBVIOUS
<1>. HIDE DEF a, b, cleared, unmarked, planned
<1>4. CASE b = a
  BY <1>4 DEF NextKept
<1>5. CASE j \in Listed(s) \ Enabled(s)
  BY <1>1, <1>2, <1>3, <1>5 DEF NextKept
<1>6. CASE j \in Enabled(s) /\ a.marker = "old"
  BY <1>2, <1>3, <1>6 DEF NextKept
<1>7. CASE j \in Enabled(s) /\ a.marker # "old" /\ a.next = "none"
  BY <1>2, <1>3, <1>7 DEF NextKept
<1>. QED
  BY <1>1, <1>2, <1>4, <1>5, <1>6, <1>7

LEMMA MarkKeepsNext ==
    ASSUME NEW s \in Store, NEW js \in SUBSET Jobs, NEW j \in Jobs
    PROVE  NextKept(s[j], Mark(s, js)[j])
<1>. DEFINE marked == [s[j] EXCEPT !.marker = "fresh"]
<1>1. Mark(s, js)[j] = IF j \in js THEN marked ELSE s[j]
  BY DEF Mark
<1>2. s[j] \in Job
  BY DEF Store
<1>3. marked.life = s[j].life /\ marked.enabled = s[j].enabled /\ marked.next = s[j].next
  BY <1>2 DEF Job
<1>. HIDE DEF marked
<1>. QED
  BY <1>1, <1>3 DEF NextKept

\* The step may take a slot of j from the store.
Released(j) ==
    \/ manual'[j] < manual[j]
    \/ \E o \in {"tick", "start"} : batch[o][j] = "ran" /\ batch'[o][j] = "out"
    \/ \E patch \in Patches : Update(j, patch)
    \/ j \in deferred /\ StartApplies
    \/ \E k \in Jobs : Add(k)

\* Memory is saved, or goes on from what it was; and the slots on disk go on.
FollowStep ==
    \/ failed' # "none" \/ ~Loaded' \/ disk' = mem'
    \/ /\ Loaded /\ failed = "none"
       /\ \A j \in Jobs : NextKept(disk[j], mem[j]) => NextKept(disk'[j], mem'[j])
SlotGoesOn(j) ==
    Slot(disk, j) /\ failed = "none" /\ disk'[j].life = "live" => disk'[j].next = "due" \/ Released(j)
PassedOn == FollowStep /\ \A j \in Jobs : SlotGoesOn(j)

LEMMA FollowStepKeeps ==
    ASSUME MemoryFollows, FollowStep
    PROVE  MemoryFollows'
BY NextKeptFacts DEF MemoryFollows, FollowStep, Loaded

\* A slot on disk is due; and it is in memory, while no save has failed.
LEMMA SlotIsDue ==
    ASSUME NEW j \in Jobs, Slot(disk, j)
    PROVE  Due(disk[j]) /\ disk[j].marker = "none"
           /\ (MemoryFollows /\ Loaded /\ failed = "none" => Due(mem[j]))
<1>1. Due(disk[j]) /\ disk[j].marker = "none"
  BY DEF Slot, Runnable, Enabled, Listed, Due
<1>. QED
  BY <1>1, NextKeptFacts DEF MemoryFollows

\* The store becomes s, if the save is done.
LEMMA StoreIsPassedOn ==
    ASSUME IInv, NEW s \in Store, NEW section, mem' = s, Saves(s) \/ SaveFails(section),
           \A j \in Jobs : Slot(disk, j) /\ failed = "none"
                               => Due(s[j]) \/ s[j].life # "live" \/ Released(j)
    PROVE  PassedOn
<1>1. FollowStep
  BY SaveFacts DEF FollowStep
<1>2. ASSUME NEW j \in Jobs
      PROVE  SlotGoesOn(j)
  BY SlotIsDue, SaveFacts DEF SlotGoesOn, Due
<1>. QED
  BY <1>1, <1>2 DEF PassedOn

\* Nothing is saved.
LEMMA NothingSaved ==
    ASSUME UNCHANGED <<disk, failed>>, Loaded' => Loaded,
           \A j \in Jobs : NextKept(mem[j], mem'[j])
    PROVE  PassedOn
<1>1. FollowStep
  BY NextKeptFacts DEF FollowStep
<1>2. ASSUME NEW j \in Jobs
      PROVE  SlotGoesOn(j)
  BY SlotIsDue DEF SlotGoesOn, Due
<1>. QED
  BY <1>1, <1>2 DEF PassedOn

\* Time brings a slot to memory and to disk.
LEMMA TimePassesOn ==
    ASSUME IInv, NEW j \in Jobs, SlotComes(j) \/ MarkerAges(j)
    PROVE  PassedOn
<1>1. \A a \in Job : /\ ComesDue(j, a).life = a.life /\ ComesDue(j, a).enabled = a.enabled
                     /\ ComesDue(j, a).next = IF a.next = "future" THEN "due" ELSE a.next
                     /\ Aged(a).life = a.life /\ Aged(a).enabled = a.enabled
                     /\ Aged(a).next = a.next
  BY DEF Job, ComesDue, Aged
<1>2. mem \in Store /\ disk \in Store /\ \A k \in Jobs : mem[k] \in Job /\ disk[k] \in Job
  BY StateTypes
<1>3. UNCHANGED <<service, failed>> /\ \A k \in Jobs \ {j} : mem'[k] = mem[k] /\ disk'[k] = disk[k]
  BY <1>2 DEF SlotComes, MarkerAges, Store
<1>4. \/ mem'[j] = ComesDue(j, mem[j]) /\ disk'[j] = ComesDue(j, disk[j])
      \/ mem'[j] = Aged(mem[j]) /\ disk'[j] = Aged(disk[j])
  BY <1>2 DEF SlotComes, MarkerAges, Store
<1>5. ASSUME NEW k \in Jobs, NextKept(disk[k], mem[k])
      PROVE  NextKept(disk'[k], mem'[k])
  BY <1>1, <1>2, <1>3, <1>4, <1>5 DEF NextKept
<1>6. ASSUME NEW k \in Jobs, Due(disk[k])
      PROVE  Due(disk'[k])
  BY <1>1, <1>2, <1>3, <1>4, <1>6 DEF Due
<1>7. FollowStep
  BY <1>3, <1>5 DEF FollowStep, Loaded
<1>8. \A k \in Jobs : SlotGoesOn(k)
  BY <1>6, SlotIsDue DEF SlotGoesOn, Due
<1>. QED
  BY <1>7, <1>8 DEF PassedOn

\* A crash leaves what is on disk.
LEMMA CrashPassesOn ==
    ASSUME Crash
    PROVE  PassedOn
<1>1. ~Loaded' /\ disk' = disk
  BY DEF Crash, Loaded
<1>2. \A j \in Jobs : SlotGoesOn(j)
  BY <1>1, SlotIsDue DEF SlotGoesOn, Due
<1>. QED
  BY <1>1, <1>2 DEF PassedOn, FollowStep

\* The first section of a tick saves the store that it read, repaired or marked.
LEMMA TimerFiresPassesOn ==
    ASSUME IInv, TimerFires
    PROVE  PassedOn
<1>1. PICK s \in {Walk(disk, {"none"}), Mark(disk, Runnable(disk))} :
          mem' = s /\ (Saves(s) \/ SaveFails("tick"))
  BY DEF TimerFires, TickFindsNothing, TickReserves, RecomputeNextRunsForMaintenance
<1>2. disk \in Store /\ Runnable(disk) \subseteq Jobs
  BY StateTypes DEF Runnable, Enabled, Listed
<1>3. s \in Store /\ \A j \in Jobs : NextKept(disk[j], s[j])
  BY <1>1, <1>2, WalkRepairs, MarkFacts, MaintenanceKeepsNext, MarkKeepsNext
<1>4. \A j \in Jobs : Slot(disk, j) => Due(s[j])
  BY <1>3, SlotIsDue, NextKeptFacts
<1>. QED
  BY <1>1, <1>3, <1>4, StoreIsPassedOn

\* A tick ends with the results of the jobs that ran, in the store it reads again.
LEMMA TickAppliesPassesOn ==
    ASSUME IInv, TickApplies
    PROVE  PassedOn
<1>1. PICK results \in BatchResults :
          LET s == Walk(ApplyResults(disk, Ran("tick"), results), {"none"})
          IN  mem' = s /\ (Saves(s) \/ SaveFails("tick"))
  BY DEF TickApplies, RecomputeNextRunsForMaintenance
<1>. DEFINE t == ApplyResults(disk, Ran("tick"), results)
            s == Walk(t, {"none"})
<1>2. /\ Ran("tick") \subseteq Jobs /\ t \in Store
      /\ \A j \in Ran("tick") : Unmarked(t[j])
      /\ \A j \in Jobs \ Ran("tick") : t[j] = disk[j]
  <2>1. Ran("tick") \subseteq Jobs
    BY DEF Ran
  <2>. QED
    BY <2>1, StateTypes, ResultsFacts
<1>3. mem' = s /\ (Saves(s) \/ SaveFails("tick"))
  BY <1>1
<1>. HIDE DEF t
<1>4. s \in Store /\ \A j \in Jobs : NextKept(t[j], s[j])
  BY <1>2, WalkRepairs, MaintenanceKeepsNext
<1>. HIDE DEF s
<1>5. ASSUME NEW j \in Ran("tick")
      PROVE  j \in Jobs /\ Released(j)
  <2>1. j \in Jobs /\ batch["tick"][j] = "ran"
    BY DEF Ran
  <2>2. batch'["tick"][j] = "out"
    BY <2>1, StateTypes DEF TickApplies, OutOfBatch
  <2>. QED
    BY <2>1, <2>2 DEF Released
<1>6. ASSUME NEW j \in Jobs, Slot(disk, j)
      PROVE  Due(s[j]) \/ Released(j)
  BY <1>2, <1>4, <1>5, <1>6, SlotIsDue, NextKeptFacts
<1>. QED
  BY <1>3, <1>4, <1>6, StoreIsPassedOn

\* start() takes the next run of a job only if its run was interrupted.
LEMMA StartRecoversPassesOn ==
    ASSUME IInv, StartRecovers
    PROVE  PassedOn
<1>. DEFINE interrupted == {j \in Listed(disk) : disk[j].marker # "none"}
            s == [j \in Jobs |-> IF j \in interrupted THEN MarkInterruptedStartupRun(j, disk[j])
                                 ELSE disk[j]]
<1>1. mem' = s /\ (Saves(s) \/ SaveFails("start"))
  BY DEF StartRecovers
<1>2. s \in Store
  BY StateTypes, InterruptedFacts DEF Store
<1>3. ASSUME NEW j \in Jobs, Slot(disk, j)
      PROVE  Due(s[j])
  BY <1>3, SlotIsDue
<1>. HIDE DEF s
<1>. QED
  BY <1>1, <1>2, <1>3, StoreIsPassedOn

\* start() marks the jobs that it catches up with in memory, and saves it.
LEMMA StartPlansPassesOn ==
    ASSUME IInv, MemoryFollows, StartPlans
    PROVE  PassedOn
<1>1. Loaded /\ Loaded'
  BY DEF StartPlans, Loaded
<1>2. PICK candidates \in SUBSET Runnable(mem) :
          \/ UNCHANGED <<store, failed>>
          \/ mem' = Mark(mem, candidates) /\ (Saves(Mark(mem, candidates)) \/ SaveFails("start"))
  BY DEF StartPlans
<1>. DEFINE s == Mark(mem, candidates)
<1>3. mem \in Store /\ candidates \subseteq Jobs
  BY StateTypes DEF Runnable, Enabled, Listed
<1>4. s \in Store /\ \A j \in Jobs : NextKept(mem[j], s[j])
  BY <1>3, MarkFacts, MarkKeepsNext
<1>5. CASE UNCHANGED <<store, failed>>
  BY <1>1, <1>5, NothingSaved, NextKeptFacts DEF store
<1>6. CASE mem' = s /\ (Saves(s) \/ SaveFails("start"))
  <2>1. \A j \in Jobs : Slot(disk, j) /\ failed = "none" => Due(s[j])
    BY <1>1, <1>4, SlotIsDue, NextKeptFacts
  <2>. HIDE DEF s
  <2>. QED
    BY <1>4, <1>6, <2>1, StoreIsPassedOn
<1>. QED
  BY <1>2, <1>5, <1>6

\* start() ends with results in memory; it puts off only the jobs it deferred.
LEMMA StartAppliesPassesOn ==
    ASSUME IInv, MemoryFollows, StartApplies
    PROVE  PassedOn
<1>. DEFINE t(results) == ApplyResults(mem, Ran("start"), results)
            put(results) == [j \in Jobs |-> IF j \in deferred \cap Enabled(t(results))
                                            THEN [t(results)[j] EXCEPT !.next = "future"]
                                            ELSE t(results)[j]]
<1>1. PICK results \in BatchResults :
          /\ mem' = Walk(put(results), {"none"})
          /\ Saves(Walk(put(results), {"none"})) \/ SaveFails("start")
  BY DEF StartApplies, RecomputeNextRunsForMaintenance
<1>. DEFINE u == t(results)
            v == put(results)
            s == Walk(v, {"none"})
<1>2. /\ Ran("start") \subseteq Jobs /\ u \in Store
      /\ \A j \in Ran("start") : Unmarked(u[j])
      /\ \A j \in Jobs \ Ran("start") : u[j] = mem[j]
  <2>1. Ran("start") \subseteq Jobs
    BY DEF Ran
  <2>. QED
    BY <2>1, StateTypes, ResultsFacts
<1>3. v \in Store /\ \A j \in Jobs \ deferred : v[j] = u[j]
  <2>1. v = [j \in Jobs |-> IF j \in deferred \cap Enabled(u)
                            THEN [u[j] EXCEPT !.next = "future"] ELSE u[j]]
    OBVIOUS
  <2>. HIDE DEF u, v
  <2>2. "future" \in NextRuns
    BY DEF NextRuns
  <2>3. \A j \in Jobs : u[j] \in Job /\ [u[j] EXCEPT !.next = "future"] \in Job
    BY <1>2, <2>2, NextField DEF Store
  <2>. QED
    BY <2>1, <2>3 DEF Store
<1>4. mem' = s /\ (Saves(s) \/ SaveFails("start"))
  BY <1>1
<1>. HIDE DEF u, v
<1>5. s \in Store /\ \A j \in Jobs : NextKept(v[j], s[j])
  BY <1>3, WalkRepairs, MaintenanceKeepsNext
<1>. HIDE DEF s
<1>6. ASSUME NEW j \in Ran("start")
      PROVE  Released(j)
  <2>1. j \in Jobs /\ batch["start"][j] = "ran"
    BY DEF Ran
  <2>2. batch'["start"][j] = "out"
    BY <2>1, StateTypes DEF StartApplies, OutOfBatch
  <2>. QED
    BY <2>1, <2>2 DEF Released
<1>7. \A j \in deferred : Released(j)
  BY DEF Released
<1>8. Loaded
  BY DEF StartApplies, Loaded
<1>9. ASSUME NEW j \in Jobs, Slot(disk, j), failed = "none"
      PROVE  Due(s[j]) \/ Released(j)
  <2>1. Due(mem[j])
    BY <1>8, <1>9, SlotIsDue
  <2>. QED
    BY <1>2, <1>3, <1>5, <1>6, <1>7, <2>1, NextKeptFacts
<1>. QED
  BY <1>4, <1>5, <1>9, StoreIsPassedOn

\* Maintenance of memory, with a save or without.
LEMMA MaintenancePassesOn ==
    ASSUME IInv, MemoryFollows, Loaded, mem' = Walk(mem, {"none"}), NEW section,
           Saves(Walk(mem, {"none"})) \/ SaveFails(section) \/ UNCHANGED <<disk, failed>>
    PROVE  PassedOn
<1>. DEFINE s == Walk(mem, {"none"})
<1>1. s \in Store /\ \A j \in Jobs : NextKept(mem[j], s[j])
  BY StateTypes, WalkRepairs, MaintenanceKeepsNext
<1>2. \A j \in Jobs : Slot(disk, j) /\ failed = "none" => Due(s[j])
  BY <1>1, SlotIsDue, NextKeptFacts
<1>. HIDE DEF s
<1>3. mem' = s /\ (Saves(s) \/ SaveFails(section) \/ UNCHANGED <<disk, failed>>)
  BY DEF s
<1>. QED
  BY <1>1, <1>2, <1>3, StoreIsPassedOn, NothingSaved

\* start() sets the timer after such a pass; reads make one, too.
LEMMA StartArmsPassesOn ==
    ASSUME IInv, MemoryFollows, StartArms
    PROVE  PassedOn
<1>1. /\ Loaded /\ mem' = Walk(mem, {"none"})
      /\ Saves(Walk(mem, {"none"})) \/ SaveFails("start") \/ UNCHANGED <<disk, failed>>
  BY DEF StartArms, Loaded, RecomputeNextRunsForMaintenance
<1>. QED
  BY <1>1, MaintenancePassesOn

LEMMA ReadPassesOn ==
    ASSUME IInv, MemoryFollows, Read
    PROVE  PassedOn
<1>1. /\ Loaded /\ mem' = Walk(mem, {"none"})
      /\ Saves(Walk(mem, {"none"})) \/ SaveFails("operator") \/ UNCHANGED <<disk, failed>>
  BY DEF Read, RecomputeNextRunsForMaintenance
<1>. QED
  BY <1>1, MaintenancePassesOn

\* An operation saves memory with the job that it changed.
LEMMA OperatorPassesOn ==
    ASSUME IInv, MemoryFollows, NEW j \in Jobs,
           Add(j) \/ Remove(j) \/ (\E patch \in Patches : Update(j, patch))
    PROVE  PassedOn
<1>1. Loaded /\ mem \in Store
  BY StateTypes DEF Add, Remove, Update
<1>2. CASE Add(j)
  <2>. DEFINE edited == [mem EXCEPT ![j] = Created]
              s == Walk(edited, {"none", "due"})
  <2>1. edited \in Store
    BY <1>1, CreatedFields DEF Store
  <2>2. mem' = s /\ (Saves(s) \/ SaveFails("operator"))
    BY <1>2 DEF Add, SavesAndArms, RecomputeNextRuns
  <2>. HIDE DEF edited
  <2>3. s \in Store
    BY <2>1, WalkRepairs
  <2>4. \A k \in Jobs : Released(k)
    BY <1>2 DEF Released
  <2>. HIDE DEF s
  <2>. QED
    BY <2>2, <2>3, <2>4, StoreIsPassedOn
<1>3. CASE Remove(j)
  <2>. DEFINE s == [mem EXCEPT ![j] = Removed]
  <2>1. s \in Store /\ s[j].life # "live" /\ \A k \in Jobs \ {j} : s[k] = mem[k]
    BY <1>1, CreatedFields DEF Store
  <2>2. mem' = s /\ (Saves(s) \/ SaveFails("operator"))
    BY <1>3 DEF Remove, SavesAndArms
  <2>. HIDE DEF s
  <2>3. \A k \in Jobs : Slot(disk, k) /\ failed = "none" => Due(s[k]) \/ s[k].life # "live"
    BY <1>1, <2>1, SlotIsDue
  <2>. QED
    BY <2>1, <2>2, <2>3, StoreIsPassedOn
<1>4. CASE \E patch \in Patches : Update(j, patch)
  <2>1. PICK patch \in Patches : Update(j, patch)
    BY <1>4
  <2>. DEFINE b == Patched(j, mem[j], patch)
              s == [mem EXCEPT ![j] = b]
  <2>2. b \in Job
    BY StateTypes, PatchFacts
  <2>3. mem' = s /\ (Saves(s) \/ SaveFails("operator"))
    BY <2>1 DEF Update, SavesAndArms
  <2>. HIDE DEF b
  <2>4. s \in Store /\ \A k \in Jobs \ {j} : s[k] = mem[k]
    BY <1>1, <2>2 DEF Store
  <2>. HIDE DEF s
  <2>5. Released(j)
    BY <1>4 DEF Released
  <2>6. \A k \in Jobs : Slot(disk, k) /\ failed = "none" => Due(s[k]) \/ Released(k)
    BY <1>1, <2>4, <2>5, SlotIsDue
  <2>. QED
    BY <2>3, <2>4, <2>6, StoreIsPassedOn
<1>. QED
  BY <1>2, <1>3, <1>4

\* A manual run begins with a marker in the repaired memory.
LEMMA RunByHandPassesOn ==
    ASSUME IInv, MemoryFollows, NEW j \in Jobs, RunByHand(j)
    PROVE  PassedOn
<1>. DEFINE kept == Walk(mem, {"none"})
            s == Mark(kept, {j})
<1>1. Loaded /\ mem' = s /\ (Saves(s) \/ SaveFails("manual"))
  BY DEF RunByHand, RecomputeNextRunsForMaintenance
<1>2. kept \in Store /\ \A k \in Jobs : NextKept(mem[k], kept[k])
  BY StateTypes, WalkRepairs, MaintenanceKeepsNext
<1>. HIDE DEF kept
<1>3. s \in Store /\ \A k \in Jobs : NextKept(kept[k], s[k])
  BY <1>2, MarkFacts, MarkKeepsNext
<1>. HIDE DEF s
<1>4. ASSUME NEW k \in Jobs, Slot(disk, k), failed = "none"
      PROVE  Due(s[k])
  <2>1. Due(mem[k])
    BY <1>1, <1>4, SlotIsDue
  <2>. QED
    BY <1>2, <1>3, <2>1, NextKeptFacts
<1>. QED
  BY <1>1, <1>3, <1>4, StoreIsPassedOn

\* It ends in the store it reads again, which changes no other job's next run.
LEMMA ManualRunEndsPassesOn ==
    ASSUME IInv, NEW j \in Jobs, NEW status \in Results(j), ManualRunEnds(j, status)
    PROVE  PassedOn
<1>. DEFINE done == ApplyJobResult(j, mem[j], status)
            merged == IF j \in Listed(disk) THEN done ELSE disk[j]
            edited == [disk EXCEPT ![j] = merged]
            s == Walk(edited, {"none"})
<1>1. /\ \/ mem' = s /\ (Saves(s) \/ SaveFails("manual"))
         \/ UNCHANGED <<store, failed>>
      /\ manual[j] > 0 /\ manual' = [manual EXCEPT ![j] = manual[j] - 1] /\ UNCHANGED service
  BY DEF ManualRunEnds, SavesAndArms, RecomputeNextRunsForMaintenance
<1>2. Released(j)
  <2>1. manual'[j] = manual[j] - 1 /\ manual[j] \in Nat
    BY <1>1, StateTypes
  <2>. QED
    BY <2>1 DEF Released
<1>3. merged \in Job
  BY ResultFacts, StateTypes
<1>. HIDE DEF merged
<1>4. edited \in Store /\ \A k \in Jobs \ {j} : edited[k] = disk[k]
  BY <1>3, StateTypes DEF Store
<1>. HIDE DEF edited
<1>5. s \in Store /\ \A k \in Jobs : NextKept(edited[k], s[k])
  BY <1>4, WalkRepairs, MaintenanceKeepsNext
<1>. HIDE DEF s
<1>6. \A k \in Jobs : Slot(disk, k) => Due(s[k]) \/ Released(k)
  BY <1>2, <1>4, <1>5, SlotIsDue, NextKeptFacts
<1>7. CASE mem' = s /\ (Saves(s) \/ SaveFails("manual"))
  BY <1>5, <1>6, <1>7, StoreIsPassedOn
<1>8. CASE UNCHANGED <<store, failed>>
  BY <1>1, <1>8, NothingSaved, NextKeptFacts DEF store, Loaded
<1>. QED
  BY <1>1, <1>7, <1>8

\* Every step passes the slots on.
LEMMA EveryStepPassesOn ==
    ASSUME IInv, MemoryFollows, Steps
    PROVE  PassedOn
<1>1. ASSUME NEW o \in {"tick", "start"}, NEW j \in Jobs, RunStarts(o, j) \/ RunEnds(o, j)
      PROVE  PassedOn
  <2>1. UNCHANGED <<store, failed, service>>
    BY <1>1 DEF RunStarts, RunEnds
  <2>. QED
    BY <2>1, NothingSaved, NextKeptFacts DEF store, Loaded
<1>2. ASSUME NEW j \in Jobs, NEW patch \in Patches, Update(j, patch)
      PROVE  PassedOn
  BY <1>2, OperatorPassesOn
<1>. QED
  BY <1>1, <1>2, TimePassesOn, CrashPassesOn, TimerFiresPassesOn, TickAppliesPassesOn,
     StartRecoversPassesOn, StartPlansPassesOn, StartAppliesPassesOn, StartArmsPassesOn,
     OperatorPassesOn, RunByHandPassesOn, ManualRunEndsPassesOn, ReadPassesOn DEF Steps

\* A slot that has come leaves the saved store only with a run of its job, an
\* operation, or when start puts it off; no pass of maintenance, no other job's run
\* and no crash takes it (#13992, #17852), as long as no save fails.
THEOREM DueSlotsAreKept == Spec => SlotsAreNotSkipped
<1>1. Init => IInv /\ MemoryFollows
  BY InitEstablishes DEF Init, MemoryFollows, Loaded
<1>2. (IInv /\ MemoryFollows) /\ [Next]_vars => (IInv /\ MemoryFollows)'
  <2>1. ASSUME IInv, MemoryFollows, Next
        PROVE  MemoryFollows'
    BY <2>1, EveryStepPassesOn, FollowStepKeeps DEF Next, PassedOn
  <2>2. ASSUME MemoryFollows, UNCHANGED vars
        PROVE  MemoryFollows'
    BY <2>2 DEF MemoryFollows, Loaded, vars, store
  <2>. QED
    BY <2>1, <2>2, NextPreserves
<1>3. (IInv /\ MemoryFollows) /\ [Next]_vars =>
          [\A j \in Jobs :
               Slot(disk, j) /\ disk'[j].life = "live" /\ disk'[j].next # "due"
                   => \/ manual'[j] < manual[j]
                      \/ \E o \in {"tick", "start"} : batch[o][j] = "ran" /\ batch'[o][j] = "out"
                      \/ \E patch \in Patches : Update(j, patch)
                      \/ j \in deferred /\ StartApplies
                      \/ (\E k \in Jobs : Add(k)) \/ failed # "none"]_vars
  <2>1. ASSUME IInv, MemoryFollows, Next
        PROVE  \A j \in Jobs : SlotGoesOn(j)
    BY <2>1, EveryStepPassesOn DEF Next, PassedOn
  <2>. QED
    BY <2>1 DEF SlotGoesOn, Released
<1>. QED
  BY <1>1, <1>2, <1>3, PTL DEF Spec, SlotsAreNotSkipped
=============================================================================
