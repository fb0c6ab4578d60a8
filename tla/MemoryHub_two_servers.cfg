SPECIFICATION Spec
CONSTANTS
    Files <- SubFile
    Positions <- HeadingAndChild
    ParentPos <- ParentOfChild
    NoPos = NoPos
    Contents = {"x", "y"}
    Docs <- GrowingDocs
    Bad = Bad
    Absent = Absent
    NoNode = NoNode
    NoRow = NoRow
    NoContent = NoContent
    SourceArg = "root"
    Procs = {p1, p2}
    Tools = {"MemoryWrite", "MemoryCompile"}
    Anchors <- ChildOfSubA
    StaleAnchors = TRUE
    ReadErrors = TRUE
    DirTargets <- AllDirs
    FileTargets = {}
    Settle = 1
    Edits <- AllEdits
    Archive = {}
    MaxTime = 3
    MaxCalls = 2
    MaxCrashes = 1
SYMMETRY ServerSymmetry
CHECK_DEADLOCK FALSE
INVARIANTS ParentsLive LogCoversNodes
