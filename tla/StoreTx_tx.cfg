SPECIFICATION FairSpec
CONSTANTS
    p1 = p1
    p2 = p2
    rescan = rescan
    tool = tool
    other = other
    Workers <- ThreeWorkers
    Procs <- TwoProcs
    ProcOf <- ProcOfThree
    None = None
    MaxAttempts = 2
    MaxCalls <- CallsOfThree
CHECK_DEADLOCK FALSE
INVARIANTS TypeOK SnapshotsChain CommittedExactlyOnce BusyOnlyAcrossProcesses

PROPERTIES TxReturns
