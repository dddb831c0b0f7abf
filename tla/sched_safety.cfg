\* Three messages: one running, two that can be reordered.  Two clients: stop,
\* dispatch, delete and compact overlap (as long as a message is left).
CONSTANTS
    Msgs = {m1, m2, m3}
    Clients = {c1, c2}
    None = None
    Compaction = Compaction
SPECIFICATION Spec
SYMMETRY MCSymmetry
CONSTRAINT MCOverlap
\* A deleted session stops for good.
CHECK_DEADLOCK FALSE
INVARIANTS
    TypeOK
    MessageConservation
    OneRunPerSession
    NoTurnRefused
    DeletionWaitsForTurn
    DeletionCancelsTurn
PROPERTIES
    WakeupKept
    ImplementsQueue
    RewindExclusive
