SPECIFICATION Spec
CONSTANTS
    Files = {f1, f2}
    Absent = Absent
    Jobs = {j1, j2}
    Roots = {r1}
    Tools = {look}
    Commands = {x1}
    Questions = {q1}
    Approvals = {a1, a2}
    Sessions = {s1}
    Keys = {k1, k2}
    Direct = {"denied"}
    None = None
INVARIANTS
    FirstDecisionStands
    
    GrantsEndWithSession
    RunningIsReachable
PROPERTIES
    KernelStarts
    
    StopEndsTurn
    
    CallsLeave
    EndIsTold
\* Jobs, turns and calls end.
CHECK_DEADLOCK FALSE
