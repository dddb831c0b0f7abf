CONSTANTS
    Calls = {c1, c2}
    Tools = {t1}
    MaxChanges = 1
    NoConn = NoConn
SPECIFICATION McpSpec
\* Calls end.
CHECK_DEADLOCK FALSE
INVARIANT
    ConnectedLives
