SPECIFICATION RegistrySpec
CONSTANTS
    o1 = o1
    o2 = o2
    u1 = u1
    u2 = u2
    Orgs = {o1, o2}
    Users = {u1, u2}
    RoleOf <- MCRoleOf
    Services = {s1}
    Names = {n1}
    Keys = {k1, k2, k3}
    Handlers = {h1, h2}
    HasAudit = TRUE
    MaxUpdates = 1
    None = None
SYMMETRY Symmetry
INVARIANTS RegistryTypeOK KeyTenancy SingleSuccessor AuditMatchesRows
PROPERTIES DeadStaysDead ActsWithinOrg
