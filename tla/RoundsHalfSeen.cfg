SPECIFICATION RoundsSpec
CONSTANTS
    NoData = 9
    BaselinePrice = 2
    UnknownOutput = 3
    Channel = {1, 2}
    Group = 1
    Checker = {c1, c2}
    Gateway = {g1}
    Request = {2}
    Ask <- MCAsk
    Policy <- MCPolicy
    Setting <- MCSetting
    Official <- MCOfficial
    Due <- MCDue
    Offer <- MCOffer
    Measured <- MCMeasured
    Ttft = {0, 3}
    TtftWindow = 2
    History <- MCHistory
    CaseProfile = {}
    CaseChannel <- MCCaseChannel
    CaseOfficial <- MCCaseOfficial
    Strategy <- MCStrategy
    Table <- MCTable
    Injected <- MCInjected
    Fallback <- MCFallback
    Query <- MCQuery
    MaxRounds = 2
    MaxChanges = 0
    MaxFaults = 0
INVARIANTS
    NoHalfRound
CHECK_DEADLOCK FALSE
