--------------------------- MODULE MC_HeartbeatWake ---------------------------
(* Small instances of HeartbeatWake for TLC.                                *)
EXTENDS HeartbeatWake

CONSTANTS t1, t2
=============================================================================
