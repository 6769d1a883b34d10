SPECIFICATION MCSpec
CONSTANTS
    Samples = {s1, s2, s3, s4}
    QueueSize = 2
    BatchSize = 2
    MaxFaults = 2
    Balance = {"b"}
    Quality = {"q"}
    Reconciler = {"c1", "c2"}
    QualityWorker = {"w1", "w2"}
    Subscriber = {1, 3}
    Dead = {}
    MaxChanges = 3
    AlertFaults = 2
    Poller = {"p1", "p2"}
    Station = {1, 2, 3}
    LastUpdate = 4
    Nothing = Nothing
    PollFaults = 1
    Sees <- MCSees
    Mapped <- MCMapped
    Asks <- MCAsks
INVARIANTS
    TypeOK
    CountedOnce
    NoFalseRecovery
    AllTold
    NothingLost
    PaidOnce
PROPERTIES
    KeepsPromise
    QueuedSettles
    AlertsSettle
CHECK_DEADLOCK FALSE
