SPECIFICATION RegistrySpec
CONSTANTS
    o1 = o1
    o2 = o2
    u1 = u1
    u2 = u2
    Orgs = {o1}
    Users = {u1}
    RoleOf <- MCRoleOf
    Services = {s1}
    Names = {n1}
    Keys = {k1}
    Handlers = {h1}
    HasAudit = TRUE
    MaxUpdates = 0
    None = None
INVARIANTS CriticalActionsAudited
