SPECIFICATION AttentiveSpec
CONSTANTS
    MaxItems = 2
    MaxChunks = 2
    StorageBuffer = 1
    ClientBuffer = 1
    ToolTurns = 0
    DbFaults = 0
CHECK_DEADLOCK FALSE
PROPERTY StreamEnds
