SPECIFICATION Spec
CONSTANTS
    Samples = {s1, s2}
    QueueSize = 2
    BatchSize = 2
    MaxFaults = 0
PROPERTY GracefulExitLosesNothing
CHECK_DEADLOCK FALSE
