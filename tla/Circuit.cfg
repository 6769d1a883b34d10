SPECIFICATION FairSpec
CONSTANTS
    Models = {m1}
    Groups = {g1}
    Global = global
    GlobalConfig <- MCTwoSamples
    GroupConfig <- MCStrictGroup
    CoolingBackoff <- MCShortBackoff
    RecoverySuccessThreshold = 2
    Window = 1
    Deletable = {g1}
    MaxInflight = 1
    MaxHistory = 2
    CountCap = 2
INVARIANT TypeOK
PROPERTIES
    OpensOnOwnFailures
    SuccessSkipsNoState
    ClosesOnlyAfterRecovery
    SelfHeals
