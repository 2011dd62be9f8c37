SPECIFICATION Spec
CONSTANTS
    Requests = {r1, r2}
    Users = {u1, u2}
    Orgs = {o1}
    Codes = {c1}
    AskedRoles = {"owner", "admin"}
CHECK_DEADLOCK FALSE
INVARIANT OwnerRemains
