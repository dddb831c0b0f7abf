SPECIFICATION Spec
CONSTANTS
    Tools = {look, edit}
    ParallelTools = {look}
    MaxParallel = 1
    MaxSteps = 2
    GateThreshold = 2
    RepeatWindow = 2
    RepeatMax = 1
    HookAnswers = {"allow", "deny", "halt"}
    StopReasons = {"user_stop"}
    MaxCalls = 2
    MaxTurns = 1
    MaxCrashes = 1
INVARIANTS
    TurnCompletesOnce
    ResultsInModelOrder
    
    
CHECK_DEADLOCK FALSE
CONSTRAINT MCOneOddAnswer
