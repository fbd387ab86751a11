------------------------- MODULE MC_OutboundDelivery --------------------------
(* Small instances of OutboundDelivery for TLC.                             *)
EXTENDS OutboundDelivery

CONSTANTS m1, m2, startup, drain, reconnect

\* Every drain selects every message: rows of one account each would never be
\* wanted by two jobs, and a row that no drain selects is only left alone.
MCSelects == [j \in PeriodicJobs |-> Messages]
=============================================================================
