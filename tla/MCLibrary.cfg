SPECIFICATION LibrarySpec
CONSTANTS
    SortCutoff = 3
    Values = {1, 2, 3}
    Boxes <- MCBoxes
    MostItems <- MCMostItems
    Given <- MCGiven
    ByteBits = 2
    Operands <- MCOperands
    MaxBits = 5
    LimbBytes = 2
    Addends <- MCAddends
    MaxIntBits = 5
    Zones <- MCZones
    HostsHits = {0, 2}
    Retries = 1
    QueryIds = {1, 2}
    Ports = {1}
    MaxWord = 255
    Bases <- MCBases
    Radixes = {2, 3, 8, 10, 16, 36}
    NumberInputs <- MCNumbers
    ModularInputs <- MCModular
    FloatInputs <- MCFloats
    U64Max = 16777215
    Bytes <- MCBytes
    HeadersMax = 3
INVARIANTS ContainerSound ResolverExact QueriesExact ArithmeticExact
PROPERTIES TextExact ParsersExact ImplementsSequence BitsExact IntsExact
VIEW LibraryView
CHECK_DEADLOCK FALSE
