SPECIFICATION Spec
CONSTANTS
    Routes = {chat, native}
    NativeRoutes = {native}
    MaxSegments = 2
    MaxCalls = 1
    MaxSeq = 6
INVARIANTS
    NothingLost
    GroupsWhole
    RequestSeesUser
    SegmentsCover
CHECK_DEADLOCK FALSE
CONSTRAINT MCFewFailures
