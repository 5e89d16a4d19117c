SPECIFICATION Spec
CONSTANTS
    Orgs = {o1}
    Users = {u1, u2, u3}
    Invites = {i1}
    Codes = {k1}
    Handlers = {h1, h2}
    None = None
CHECK_DEADLOCK FALSE
INVARIANT OneTimeToken
