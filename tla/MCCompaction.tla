----------------------------- MODULE MCCompaction -----------------------------
(* Bounds for TLC. *)
EXTENDS Compaction

\* Bounds: one compaction that failed for good, two messages rewound.
MCFewFailures == Cardinality(failures) <= 1 /\ nextSeq - Len(content) <= 3
=============================================================================
