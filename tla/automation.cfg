CONSTANTS
    Tasks = {t1}
    Sessions = {r1, r2}
    Questions = {q1}
    Approvals = {}
    Keys = {}
    Direct = {}
    None = None
    Buffer = 1
    MaxCrashes = 1
SPECIFICATION MCSpec
\* A deleted task is never run again.
CHECK_DEADLOCK FALSE
INVARIANTS
    RunningIsReal

    
