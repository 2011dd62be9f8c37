SPECIFICATION PartSpec
CONSTANTS
    r1 = r1  k1 = k1  u1 = u1  u2 = u2  p1 = p1  p2 = p2  c1 = c1
    Requests = {r1, r2}
    Codes = {c1, c2}
    Keys = {k1, k2}
    MaxVerifier = 4
    Addressees = {c1, c2}
    MaxSent = 4
    Holders = {u1, u2}
    Tenants = {p1, p2}
    TenantOf <- OwnProject
    Labels = {c1, c2}
    MaxMinted = 4
    MaxGenerated = 4
    MaxReplaced = 2
SYMMETRY Perms
CHECK_DEADLOCK FALSE
INVARIANTS
    WrapsMatchCredentials
    AccountRowsAgree
    OnlyLiveCredentialsOpen
PROPERTIES
    ResetOnlyIssuedSeed
