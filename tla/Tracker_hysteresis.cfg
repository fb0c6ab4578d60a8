SPECIFICATION Spec
CONSTANTS
    N = 2
    Clients = {c1}
    MaxTemp = 3
    DecayTo <- DownOneLevel
    AccessBoost = 2
    Seeds <- SeedOfSecond
    ColdThreshold = 2
    NotifyThreshold = 1
    ColdNotifyTTL = 2
    ColdNotifyLimit = 2
PROPERTIES PushedOnceUntilWarm
