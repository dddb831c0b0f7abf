----------------------------- MODULE MCSubAgents -----------------------------
(* Instances of SubAgents for TLC. *)
EXTENDS SubAgents, TLC

MCSymmetry == Permutations(Jobs) \cup Permutations(Roots)

\* Two limits that bind in turn: the tree's, then the kernel's.
MCLimits == {[global |-> 1, perRoot |-> 2], [global |-> 2, perRoot |-> 1]}

\* One misfortune at a time: a crash, a failed write, the deletion of a session, or a
\* budget that is exceeded.
MCOneMisfortune ==
    crashes + (IF writeFailed THEN 1 ELSE 0)
        + Cardinality({r \in Roots : r \notin parent \/ deleting[r] # None})
        + Cardinality({r \in Roots : tokens[r] >= MaxTokens}) <= 1
=============================================================================
