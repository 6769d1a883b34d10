SPECIFICATION MCSpec
CONSTANTS
    Channels = {c1}
    NumRuns = 2
    Workers = {w1, w2}
    NumStages = 1
    MaxConcurrent = 2
    MaxAttempts = 2
    MaxFaults = 3
INVARIANTS
    TypeOK
    OneActivePerChannel
PROPERTIES
    FinalIsFinal
    CancelSticks
    EveryRunEnds
CHECK_DEADLOCK FALSE
