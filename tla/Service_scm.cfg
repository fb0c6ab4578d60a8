SPECIFICATION FairSpec
CONSTANTS
    Instances = {i1, i2}
    NoInstance = NoInstance
    Admins = {a1, a2}
INVARIANTS
    TypeOK
    CoresDoNotOverlap
    UnrequestedStopsFail
PROPERTIES
    StopIsHonoured
    CommandsReturn
    UninstallRemoves
