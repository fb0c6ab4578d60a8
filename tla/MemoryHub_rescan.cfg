SPECIFICATION FairSpec
CONSTANTS
    Files <- TwoFiles
    Positions <- HeadingOnly
    ParentPos <- ParentOfHeading
    NoPos = NoPos
    Contents = {"x", "y"}
    Docs <- RescanDocs
    Bad = Bad
    Absent = Absent
    NoNode = NoNode
    NoRow = NoRow
    NoContent = NoContent
    SourceArg = "root"
    Procs = {p1}
    Tools = {}
    Anchors = {}
    StaleAnchors = FALSE
    ReadErrors = TRUE
    DirTargets = {}
    FileTargets = {}
    Settle = 1
    Edits <- RescanEdits
    Archive <- OldCopy
    MaxTime = 4
    MaxCalls = 1
    MaxCrashes = 1
CHECK_DEADLOCK FALSE
INVARIANTS SkippedFilesAreStored
PROPERTIES RescanConverges
