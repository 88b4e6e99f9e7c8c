SPECIFICATION WalksSpec
CONSTANTS
    unmapped = unmapped
    Unmapped = unmapped
    KernelStart = 8192
    Heads = {8192}
    Words <- SpineWords
    Links <- Empty
    Trees <- SpineTrees
    XaNodes <- Empty
    NoMember = NoMember
    Bases = {unmapped}
    Wanted = {4}
    Cpus = {0}
    MaxNodes = 1048576
    MinTable = 16
    RbMaxDepth = 96
    XaMaxNodes = 65536
    ChunkShift = 6
    ShiftLimit = 64
    MaxCpus = 1
    BudgetEvery = 16
PROPERTIES
    WalkEnds
