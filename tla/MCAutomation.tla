---------------------------- MODULE MCAutomation ----------------------------
(* Bounds for TLC. *)
EXTENDS Automation

Some(happened) == IF happened THEN 1 ELSE 0

\* Bound: one of these happens: a deletion of a session, the stop of a call, an error of a
\* turn, a lost event, a turn without events, a shutdown, a restart.
Oddities ==
    Cardinality({r \in Runs : deletion[r] # "no"})
    + Cardinality({q \in ended : deletion[home[q]] = "no"})
    + Cardinality(runErr \cup {r \in Runs : turn[r] = "failing"})
    + Cardinality(lost) + Cardinality(silent) + Some(closing) + crashes

\* Bound: only one of the runs asks questions.
OneAsks == \A q \in Questions : home[q] \in {None, CHOOSE r \in Runs : TRUE}

MCNext == Next /\ (Oddities <= 1 /\ OneAsks)'
MCSpec == Init /\ [][MCNext]_vars /\ Fairness
=============================================================================
