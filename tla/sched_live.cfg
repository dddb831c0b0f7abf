\* Liveness: no symmetry.
CONSTANTS
    Msgs = {m1, m2}
    Clients = {c1}
    None = None
    Compaction = Compaction
SPECIFICATION FairSpec
\* A deleted session stops for good.
CHECK_DEADLOCK FALSE
PROPERTIES
    StopSettles
    QueueDrains
    DeletionSettles
