CONSTANTS
    Msgs = {m1, m2}
    Clients = {c1}
    None = None
    Compaction = Compaction
SPECIFICATION ChildSpec
\* A deleted session stops for good.
CHECK_DEADLOCK FALSE
INVARIANT
    SubmittedTurnStarts
