CONSTANTS
    Jobs = {j1, j2}
    Roots = {r1, r2}
    None = None
    Limits <- MCLimits
    MaxChildren = 2
    MaxTokens = 1
    TokenBound = 1
    MaxCrashes = 1
SPECIFICATION Spec
SYMMETRY MCSymmetry
CONSTRAINT MCOneMisfortune
\* Every job ends.
CHECK_DEADLOCK FALSE
INVARIANTS
    SleepersHaveNoSlot
    EndStands
    BudgetStopsJobs
