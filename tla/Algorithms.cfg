SPECIFICATION AlgorithmsSpec
CONSTANTS
    Files = {f1, f2}
    MaxLevel = 3
    MaxNodes = 5
    MaxKeys = 2
    MaxValues = 6
    MaxInlineFields = 2
    Names = {"d", "f", "v", "x"}
    Directories <- TreeDirectories
    Documents <- TreeDocuments
    SkippedNames = {"v"}
    Unsupported = {"x"}
    Globs <- TreeGlobs
    MaxSegments = 3
    MaxRules = 2
    Keys <- SeedKeys
    Temps = {cool, warm}
    SeedPaths <- SeedFiles
    MaxSeedKeys = 4
    MaxSymbols = 5
    Nodes = {"root", "left", "right", "leaf"}
    NoNode = NoNode
    NoRow = NoRow
    ParentOf <- Family
    TokenCounts = {0, 2}
    Budgets = {1, 4}
    Depths = {0, 3}
    DefaultMaxDepth = 2
    MaxDepthCap = 2
    SearchLimit = 2
    MaxCommits = 1
SYMMETRY InputSymmetry
CHECK_DEADLOCK FALSE
INVARIANTS
    TypeOK ParentIsNearestHeading IdentitiesAreUnique IdentityIsPerFile
    EveryLeafInOneNode WalkFollowsTheRules
    LoadFollowsTheKeys RewriteKeepsTheQuery TermsAreShielded
    EngineTypeOK WithinBudget NothingThatFitsIsDropped AnsweredOnce
