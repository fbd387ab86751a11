--------------------------- MODULE MC_EmbeddedRun ----------------------------
(* Small instances of EmbeddedRun for TLC.                                  *)
EXTENDS EmbeddedRun, TLC

CONSTANTS main, s1, s2, r1, r2, r3, w1

MCLaneOf == [r \in Runs |-> main]
MCPriorityOf == [r \in Runs |-> 0]

MCOneSession == [r \in Runs |-> s1]
MCTwoSessions == [r \in Runs |-> IF r = r3 THEN s2 ELSE s1]

\* Runs of one session without a timeout are interchangeable.
MCUntimedSymmetry == Permutations({r2, r3})
=============================================================================
