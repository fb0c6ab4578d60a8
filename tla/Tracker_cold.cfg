SPECIFICATION FairSpec
CONSTANTS
    N = 2
    Clients = {c1, c2}
    MaxTemp = 3
    DecayTo <- DownOneLevel
    AccessBoost = 2
    Seeds <- SeedOfSecond
    ColdThreshold = 2
    NotifyThreshold = 1
    ColdNotifyTTL = 2
    ColdNotifyLimit = 1
INVARIANTS TypeOK
PROPERTIES NoRepeatWithinTTL ColdNodesArePushed
