SPECIFICATION MCSpec
CONSTANTS
    Requests = {r1, r2}
    Channels = {half, c1}
    HalfOpen = {half}
    Limit = 1
    MaxAttempts = 2
    Upstream = {ch}
    Key = {k}
    Group = {1, 2}
    DefaultGroup = 1
    m1 = m1
    m2 = m2
    Model = {m1, m2}
    Editor = {h1, h2}
    Request = {r1}
    Operation <- MCOperation
    Nothing = Nothing
    Question <- MCQuestion
    Block <- MCBlock
    MaxMessages = 3
    MaxBlocks = 2
INVARIANTS
    TypeOK
    OneReportPerCall
    ProbesWithinLimit
    ScopeStays
    DefaultIsListed
    StreamMatches
    ResultsFollowCalls
PROPERTIES
    NoSwitchAfterFirstByte
    SlotsComeBack
    EditsEnd
CHECK_DEADLOCK FALSE
