-------------------------- MODULE MC_FollowupQueue --------------------------
(* A small instance of FollowupQueue for TLC.                               *)
EXTENDS FollowupQueue

CONSTANTS m1, m2, m3, m4, q1, q2

MCRouteOf == [m \in Messages |-> CASE m = m2 -> "none" [] m = m4 -> "other" [] OTHER -> "here"]
MCSenderOf == [m \in Messages |-> IF m = m3 THEN "guest" ELSE "owner"]

\* Messages arrive in the order of their names.
MCInOrder ==
    /\ inbound'[m2] # "new" => inbound[m1] # "new"
    /\ inbound'[m3] # "new" => inbound[m2] # "new"
    /\ inbound'[m4] # "new" => inbound[m3] # "new"

MCSpec == Init /\ [][Next /\ MCInOrder]_vars /\ Fairness
=============================================================================
