SPECIFICATION Spec
CONSTANTS
    Files <- OneFile
    Positions <- HeadingAndChild
    ParentPos <- ParentOfChild
    NoPos = NoPos
    Contents = {"x", "y"}
    Docs <- TreeDocs
    Bad = Bad
    Absent = Absent
    NoNode = NoNode
    NoRow = NoRow
    NoContent = NoContent
    SourceArg = "root"
    Procs = {p1}
    Tools = {"MemorySummarize", "MemoryCompile"}
    Anchors <- ChildOfA
    StaleAnchors = FALSE
    ReadErrors = FALSE
    DirTargets <- RootDirs
    FileTargets = {}
    Settle = 1
    Edits <- AllEdits
    Archive = {}
    MaxTime = 4
    MaxCalls = 2
    MaxCrashes = 0
CHECK_DEADLOCK FALSE
PROPERTIES HistoryIsExact
