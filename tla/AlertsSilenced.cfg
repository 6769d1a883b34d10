SPECIFICATION MCSpec
CONSTANTS
    Balance = {"b"}
    Quality = {"q"}
    Reconciler = {"c1"}
    QualityWorker = {"w1"}
    Subscriber = {1, 3}
    Sees <- MCSees
    Dead = {3}
    MaxChanges = 2
    MaxFaults = 0
PROPERTY HealthyHearAll
