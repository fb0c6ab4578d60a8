SPECIFICATION FairSpec
CONSTANTS
    Bridges = {b1, b2}
    Daemons = {d1, d2, d3}
    NoDaemon = NoDaemon
    Migrations = 2
    Source = "files"
    MaxEdits = 1
    MaxStops = 1

PROPERTIES OneServerRemains BridgesEnd WaitingBridgesAreServed
INVARIANTS TypeOK SomeDaemonSurvives
CHECK_DEADLOCK FALSE
