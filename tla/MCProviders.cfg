SPECIFICATION PartSpec
CONSTANTS
    i1 = i1
    Requests = {r1, r2, r3}
    Tasks = {i1, i2}
    MaxDelay = 5
    Kinds = {"chat", "tts", "embeddings", "transcription"}
    Callers <- AnyCaller
    Asked = {"kimi-k3", "auto:powerful", "llama3-3-70b", "unknown"}
    Flippable = {"kimi_k3"}
    Changeable = {"can", "paid", "apiCan"}
    Splits <- Weights
    Bucket = 0
    Ttl = 2
    FlagsTimeout = 1
    MaxTime = 5
    DefaultProxy = "continuum"
    Frames <- SomeFrames
    MaxFrames = 3
    Buffer = 2
    MaxTries = 2
SYMMETRY Perms
CHECK_DEADLOCK FALSE
INVARIANTS
    TransportInv
    GatesHold
    RelayIsExact
    DivisionsAreExact
PROPERTIES
    FlagsStayCurrent
