SPECIFICATION KernelSpec
CONSTANTS
    unmapped = unmapped
    Unmapped = unmapped
    PageCells = 32
    ChunkPages = 2
    AreaStart = 8192
    AreaEnd = 8448
    Digits <- MCDigits
    FirstDigit = 1
    AfterDigits = 2
    NTokens = 8
    Printable = {5, 6, 7}
    TextName <- MCTextName
    LinuxBanner <- MCLinuxBanner
    InitTask <- MCInitTask
    NrCpuIds <- MCNrCpuIds
    PerCpuOffset <- MCPerCpuOffset
    StartBtf <- MCStartBtf
    StopBtf <- MCStopBtf
    PerCpuVars <- MCPerCpuVars
    Swapper <- MCSwapper
    LinkMembers <- MCLinkMembers
    GivenOffset = 16
    Every = 2
    LongEntry = 4
    MaxSyms = 10
    MaxName = 8
    U32 = 16384
    U64 = 268435456
    CellBytes = 8
    MaxDepth = 2
    ByteBits = 2
    MaxBlob = 1000
    MaxSize = 100000
    MaxField = 1000
    MaxStruct = 40
    ScanHits = 2
    CheckHits = 3
    Guests <- MCGuests
    KernelStart = 8192
    Heads = {8, 8192}
    Words <- AnyWords
    Links <- AnyLinks
    Trees <- AnyTrees
    XaNodes <- AnyXaNodes
    NoMember = NoMember
    Bases = {unmapped, 1}
    Wanted = {0, 2, 5}
    Cpus = {0, 1}
    MaxNodes = 4
    MinTable = 4
    RbMaxDepth = 3
    XaMaxNodes = 3
    ChunkShift = 1
    ShiftLimit = 3
    MaxCpus = 1
    BudgetEvery = 3
PROPERTIES
    WalkEnds
INVARIANTS
    TypeOK
    Complete
    FoundIsReal
    FieldsTrue
    SymbolsTrue
