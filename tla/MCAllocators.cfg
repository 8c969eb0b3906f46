CONSTANTS
    Buffers <- MCBuffers
    Sizes = {0, 3, 9, 17}
    WordBytes = 8
    WordBits = 4
    Pages <- MCPages
    PageSize = 8
    PtrBytes = 1
    SlabInitialCap = 1
    SlabWordBits = 2
    PageEntryBytes = 4
    ChunkDefault = 8
    ChunkHeader = 2
    CanaryBytes = 1
    Allocators <- MCAllocatorsMade
    Requests <- MCRequests
    Efforts <- MCEfforts
    U32 = 4
    MaxHeld <- MCHeld
    MaxOverruns = 1
CHECK_DEADLOCK FALSE
SPECIFICATION MCSpec
INVARIANTS BudgetTypeOK PoolInsideBuffer BitsAreBlocks StatsExact AllocatorBooksExact ZeroedMeansZero
PROPERTIES ImplementsContract AllocatorsImplementContract
