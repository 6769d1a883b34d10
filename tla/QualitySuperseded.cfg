SPECIFICATION Spec
CONSTANTS
    Channels = {c1}
    NumRuns = 1
    Workers = {w1}
    NumStages = 2
    MaxConcurrent = 2
    MaxAttempts = 2
    MaxFaults = 2
PROPERTY ResultsOfLatestAttempt
CHECK_DEADLOCK FALSE
