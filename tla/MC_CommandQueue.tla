-------------------------- MODULE MC_CommandQueue ---------------------------
(* Small instances of CommandQueue for TLC.                                 *)
EXTENDS CommandQueue

CONSTANTS main, probe, e1, e2, e3, w1

MCPriorities == {-1, 0, 1}

\* Entries are interchangeable until they are submitted.
MCSymmetry == Permutations(Entries)

\* The same for a run with liveness, which allows no symmetry: the entries are
\* submitted in the order of their names.
Submitted(x) == entry[x].promise # "unsubmitted"

MCInOrder ==
    /\ Submitted(e2)' => Submitted(e1)
    /\ Submitted(e3)' => Submitted(e2)

MCFairSpec ==
    Init /\ [][Next /\ MCInOrder]_vars /\ \A x \in Entries : WF_vars(TimedRunEnds(x))
=============================================================================
