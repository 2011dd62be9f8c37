SPECIFICATION FairSpec
CONSTANTS
    MaxItems = 6
    MaxChunks = 2
    StorageBuffer = 2
    ClientBuffer = 1
    ToolTurns = 1
    DbFaults = 1
CHECK_DEADLOCK FALSE
INVARIANTS
    TranscriptIsWhole
    RetrievalOrderIsStreamOrder
    ToolOutputIsDurable
PROPERTIES
    RecordSpec
    Settles
