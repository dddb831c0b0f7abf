------------------------------ MODULE MCTurnLoop ------------------------------
(* Bounds for TLC. *)
EXTENDS TurnLoop

\* Bound: of the calls of two successive waves, one at most is answered by a hook, the
\* gate, a stop or the user; all others by the tool.
Odd(answers) == Cardinality({i \in DOMAIN answers :
                                answers[i] \notin {"none", "ok", "error"}})
MCOneOddAnswer ==
    Odd(output) + (IF window = <<>> THEN 0
                   ELSE Odd([i \in DOMAIN Last(window) |-> Last(window)[i][2]])) <= 1
    \/ ctx # "live"
=============================================================================
