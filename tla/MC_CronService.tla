--------------------------- MODULE MC_CronService ---------------------------
(* A small instance of CronService for TLC: a recurring job, and a one-shot *)
(* that an operator adds.                                                   *)
EXTENDS CronService

CONSTANTS daily, reminder, MaxEvents

\* Updates, manual runs, crashes and failed saves, all together.
MCFewEvents ==
    updates' + manualRuns' + crashes' + (IF failed' = "none" THEN 0 ELSE 1) <= MaxEvents

MCSpec == Init /\ [][Next /\ MCFewEvents]_vars
MCFairSpec == MCSpec /\ Fairness
=============================================================================
