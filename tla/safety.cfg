SPECIFICATION MCSpec
CONSTANTS
    Absent = Absent
    None = None
    x1 = x1
    x2 = x2
    y1 = y1
    y2 = y2
    y3 = y3
    Files = {x1, x2}
    Lines = {1, 2}
    Texts = {y1, y2, y3}
    NoConn = NoConn
    CrashTexts = {y1, y2}
    MaxSeq = 2
    MaxEdits = 1
    MaxJournals = 2
    Calls = {x1, x2}
    Tools = {y1, y2}
    MaxChanges = 1
SYMMETRY Symmetry
INVARIANTS
    FilesFollowHistory
    RefusesOnlyForOthers
    UserLinesKept
    NoConnectionLeaks
    ToolsAreCurrent
\* Calls end.
CHECK_DEADLOCK FALSE
