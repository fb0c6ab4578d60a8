SPECIFICATION AlgorithmsSpec
CONSTANTS
    Files = {f1, f2}
    MaxLevel = 3
    MaxNodes = 1
    MaxKeys = 1
    MaxValues = 1
    MaxInlineFields = 2
    Names = {"d", "f", "v", "x"}
    Directories <- TreeDirectories
    Documents <- TreeDocuments
    SkippedNames = {"v"}
    Unsupported = {"x"}
    Globs <- TreeGlobs
    MaxSegments = 3
    MaxRules = 2
    Keys <- SeedKeys
    Temps = {cool, warm}
    SeedPaths <- SeedFiles
    MaxSeedKeys = 1
    MaxSymbols = 1
    Nodes = {"root", "left", "right", "leaf"}
    NoNode = NoNode
    NoRow = NoRow
    ParentOf <- Family
    TokenCounts = {0, 2}
    Budgets = {1}
    Depths = {1}
    DefaultMaxDepth = 2
    MaxDepthCap = 2
    SearchLimit = 2
    MaxCommits = 0
SYMMETRY InputSymmetry
CHECK_DEADLOCK FALSE
INVARIANT ReincludedFilesAreWalked
