SPECIFICATION FairSpec
CONSTANTS
    Files <- OneFile
    Positions <- HeadingOnly
    ParentPos <- ParentOfHeading
    NoPos = NoPos
    Contents = {"x"}
    Docs <- FlatDocs
    Bad = Bad
    Absent = Absent
    NoNode = NoNode
    NoRow = NoRow
    NoContent = NoContent
    SourceArg = "root"
    Procs = {p1}
    Tools = {}
    Anchors = {}
    StaleAnchors = FALSE
    ReadErrors = FALSE
    DirTargets = {}
    FileTargets = {}
    Settle = 1
    Edits <- SoundEdits
    Archive = {}
    MaxTime = 4
    MaxCalls = 0
    MaxCrashes = 1
CHECK_DEADLOCK FALSE
PROPERTIES ServersComeUp
