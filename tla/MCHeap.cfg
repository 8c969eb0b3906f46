SPECIFICATION Spec
CONSTANTS
    Pages <- MCPages
    Hash <- MCHash
    SlotSize <- MCSlotSize
    Sizes = {1, 2, 3, 5}
    PageSize = 4
    WordBits = 3
    InitialCap = 2
    DescsPerPage = 4
    XLPerPage = 2
    PtrsPerPage = 1
    Threshold = 4
    MaxLive = 3
INVARIANTS PagesFindable WarmListsExact FreesItsBlock EveryPageOwnedOnce CountersExact ResizeFits
PROPERTY ImplementsContract
