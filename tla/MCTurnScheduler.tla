--------------------------- MODULE MCTurnScheduler ---------------------------
(* Instances of TurnScheduler for TLC. *)
EXTENDS TurnScheduler, FiniteSets

MCSymmetry == Permutations(Msgs) \cup Permutations(Clients)

\* Once the last message is in, one client acts at a time: three messages for their
\* order, two clients for calls that overlap, and not all of it at once.
MCOverlap ==
    Cardinality(accepted) < Cardinality(Msgs)
        \/ Cardinality({c \in Clients : op[c] # Idle}) <= 1
=============================================================================
