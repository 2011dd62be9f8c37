SPECIFICATION PartSpec
CONSTANTS
    apple = apple  s1 = s1  s2 = s2  e1 = e1  e2 = e2
    Providers = {apple, github}
    Projects = {p1, p2}
    Subjects = {s1, s2}
    Emails = {e1, e2}
    EmailsOf <- AnyEmail
    Callbacks = {c1, c2}
    Native = apple
    Ttl = 1
    Capacity = 1
    MaxTime = 2
    MaxStates = 2
    MaxUsers = 2
    Kids = {k1}
    Fresh = 1
    Leeway = 0
    Latency = 1
    LastTime = 4
SYMMETRY Perms
CHECK_DEADLOCK FALSE
INVARIANTS
    SignInsAreSeparate
PROPERTIES
    CallbacksKeepToTheirOwn
    AppleKeysAreCurrent
