SPECIFICATION BitsSpec
CONSTANTS
    SortCutoff = 3
    Values = {1}
    ByteBits = 2
    Operands = {}
    MaxBits = 3
INVARIANT HashesLiveBits
CHECK_DEADLOCK FALSE
