\* A child that writes twice, one process it leaves behind, pipes of one unit.
SPECIFICATION Spec
CONSTANTS
    PipeSize = 1
    MaxOutput = 2
    MaxInput = 2
    Timeout = 2
INVARIANTS FdsExact ExitStatusExact
PROPERTIES DrainedAtEof CallsReturn
\* A child and its parent may wait for each other for ever, and programs end.
CHECK_DEADLOCK FALSE
