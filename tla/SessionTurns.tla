----------------------------- MODULE SessionTurns -----------------------------
(***************************************************************************)
(* What the lanes promise about the turns of a session, and nothing about  *)
(* lanes: each turn executes at most once, and at most one turn of a       *)
(* session executes at a time, not counting abandoned ones.  A turn is     *)
(* abandoned when its lane timeout fired or its session lane was reset     *)
(* under it; it may go on executing, since nothing can stop a JavaScript   *)
(* promise.                                                                *)
(***************************************************************************)
CONSTANTS
    Runs,
    SessionOf       \* [Runs -> session]

VARIABLE turn       \* [Runs -> {"new", "accepted", "executing", "abandoned", "over"}]

Moves == {<<"new", "accepted">>, <<"new", "over">>,
          <<"accepted", "executing">>, <<"accepted", "abandoned">>, <<"accepted", "over">>,
          <<"executing", "abandoned">>, <<"executing", "over">>,
          <<"abandoned", "over">>}

Exclusive(t) == \A q, r \in Runs :
    /\ t[q] = "executing" /\ t[r] = "executing"
    /\ SessionOf[q] = SessionOf[r]
    => q = r

Init == turn = [r \in Runs |-> "new"]

\* A reset moves several turns at once, so a step is stated for all of them.
Next ==
    /\ DOMAIN turn' = Runs
    /\ \A r \in Runs : turn'[r] = turn[r] \/ <<turn[r], turn'[r]>> \in Moves
    /\ Exclusive(turn')

Spec == Init /\ [][Next]_turn
=============================================================================
