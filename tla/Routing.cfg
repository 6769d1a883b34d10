SPECIFICATION MCSpec
CONSTANTS
    NoData = 9
    BaselinePrice = 2
    UnknownOutput = 3
    Channel = {1, 2}
    Group = 1
    Checker = {c1}
    Gateway = {g1, g2}
    Request = {1, 2}
    Ask <- MCAsk
    Policy <- MCPolicy
    Setting <- MCSetting
    Official <- MCOfficial
    Due <- MCDue
    Offer <- MCOffer
    Measured <- MCMeasured
    Ttft = {0, 3}
    TtftWindow = 2
    History <- MCHistory
    CaseProfile <- MCCaseProfile
    CaseChannel <- MCCaseChannel
    CaseOfficial <- MCCaseOfficial
    Strategy <- MCStrategy
    Table <- MCTable
    Injected <- MCInjected
    Fallback <- MCFallback
    Query <- MCQuery
    MaxRounds = 3
    MaxChanges = 2
    MaxFaults = 2
INVARIANTS
    NoHalfRound
    ChangeIsSeen
    ReplayIsExact
    NothingIsFree
    CapHolds
PROPERTIES
    StalenessEnds
CHECK_DEADLOCK FALSE
