SPECIFICATION Spec
CONSTANTS
    Models = {m1}
    Groups = {}
    Global = global
    GlobalConfig <- MCTwoSamples
    GroupConfig <- MCNoOverride
    CoolingBackoff <- MCBackoff
    RecoverySuccessThreshold = 2
    Window = 2
    Deletable = {}
    MaxInflight = 2
    MaxHistory = 4
    CountCap = 3
PROPERTY CoolingNotCutShort
