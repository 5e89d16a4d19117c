SPECIFICATION Spec
CONSTANTS
    k1 = k1
    k2 = k2
    raw1 = raw1
    raw2 = raw2
    forged1 = forged1
    Orgs = {o1}
    Users = {u1}
    RoleOf <- MCRoleOf
    Services = {s1}
    Names = {n1}
    Keys = {k1}
    Handlers = {h1}
    HasAudit = FALSE
    MaxUpdates = 0
    None = None
    Requests = {r1}
    RawKeys = {raw1}
    PrefixOf <- MCPrefixOf
    SecretOf <- MCSecretOf
    PrefixTTL = 1
    ValidationTTL = 1
    RevokedTTL = 4
    MaxFlight = 1
    MaxAge = 5
INVARIANTS RevokedImmediately
