SPECIFICATION PartSpec
CONSTANTS
    Nonces = {"n1", "n2", "n3"}
    Exchanges = {"x1", "x2"}
    Capacity = 2
    TTL = 1
    MaxSecrets = 4
    MaxTime = 2
    MaxRetries = 2
    MaxFaults = 2
    MaxExpiries = 1
CHECK_DEADLOCK FALSE
INVARIANTS
    PendingInv
    DataSurvivesRestart
PROPERTIES
    LiveSecretDisplacedOnlyByNewer
    SecretsAreRetired
    TransportRecovers
    AnswersEnd
    ProgramComesUp
