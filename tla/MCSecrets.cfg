SPECIFICATION Spec
CONSTANTS
    SessionIds = {k1, k2, k3}
    Slots = {s1, s2, s3}
    Requests = {r1, r2}
    Capacity = 2
    TTL = 1
    LeaseLimit = 8
    BatchSize = 1
    MaxTime = 3
    NoSlot = NoSlot
SYMMETRY Perms
INVARIANTS
    TypeOK
    LeasedStaysResident
    AdmittedNeverLost
    ScanMissesNothing
PROPERTIES
    PurgeTakesOnlyExpired
