SPECIFICATION FairSpec
CONSTANTS
    Probes = {p1, p2}
    Channels = {c1}
    All = all
    NoKey = nokey
    Estimate = 2
    Baseline = 1
    Charges <- MCCharges
    ChannelBudget = 3
    GlobalBudget = 4
    PoolSize = 2
    Days <- MCDays
    MaxUpsets = 2
INVARIANTS
    TypeOK
    LedgerCovers
    NeverOverspends
    MeasuresItsOwn
PROPERTY EveryProbeEnds
CHECK_DEADLOCK FALSE
