SPECIFICATION PartSpec
CONSTANTS
    r1 = r1  u1 = u1  v1 = v1  v2 = v2  home = home
    Users = {u1, u2}
    Requests = {r1, r2}
    MaxPerUser = 1
    BatchSize = 2
    MaxProjects = 2
    MaxConversations = 2
    Authors = {v1, v2}
    Homes = {home}
    KeeperOf <- OneKeeper
    Texts = {"a", "b"}
    MaxNotes = 3
SYMMETRY Perms
CHECK_DEADLOCK FALSE
INVARIANTS
    TablesAgree
    PagesAreExact
    PromptIsSound
PROPERTIES
    ChangesAreAsked
