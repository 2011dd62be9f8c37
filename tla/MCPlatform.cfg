SPECIFICATION PartSpec
CONSTANTS
    r1 = r1  o1 = o1  c1 = c1  m1 = m1  m2 = m2  g1 = g1  g2 = g2
    key = key  NoUser = NoUser  None = None
    Emails = {u1, u2}
    Passwords = {c1, c2}
    ClientSecrets = {o1, o2}
    MaxRows = 3  MaxOps = 6
    Developers = {m1, m2}
    Hosts = {g1, g2}
    RoleIn <- BothRoles
    GoodNames = {"a", "b"}
    BadNames = {"?"}
    Keys = {key}
    MaxProjects = 2  MaxSecrets = 2  MaxSettings = 2
    Requests = {r1, r2}
    Users = {u1, u2}
    Orgs = {o1, o2}
    Codes = {c1, c2}
    AskedRoles = {"owner", "admin"}
SYMMETRY Perms
CHECK_DEADLOCK FALSE
INVARIANTS
    RowsAreConsistent
    CodeWritesOnce
PROPERTIES
    AuthorityIsEarned
    CheckedChangeKeepsAnOwner
    StaleWritesAreHarmless
