SPECIFICATION Spec
CONSTANTS
    Files <- OneFile
    Positions <- HeadingAndChild
    ParentPos <- ParentOfChild
    NoPos = NoPos
    Contents = {"x", "y"}
    Docs <- TreeDocs
    Bad = Bad
    Absent = Absent
    NoNode = NoNode
    NoRow = NoRow
    NoContent = NoContent
    SourceArg = "root"
    Procs = {p1}
    Tools = {"MemoryWrite", "MemorySummarize", "MemoryCompile"}
    Anchors <- AnchorsOfA
    StaleAnchors = FALSE
    ReadErrors = FALSE
    DirTargets = {}
    FileTargets <- OneFile
    Settle = 1
    Edits <- AllEdits
    Archive = {}
    MaxTime = 4
    MaxCalls = 2
    MaxCrashes = 1
CHECK_DEADLOCK FALSE
INVARIANTS TypeOK NoForeignKeyFailure
PROPERTIES HistoryIsExact
