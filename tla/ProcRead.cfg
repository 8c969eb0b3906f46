\* The smallest instance: one unit of output.
SPECIFICATION Spec
CONSTANTS
    PipeSize = 1
    MaxOutput = 1
    MaxInput = 1
    Timeout = 1
INVARIANT BytesAppended
CHECK_DEADLOCK FALSE
