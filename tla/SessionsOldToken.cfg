SPECIFICATION Spec
CONSTANTS
    Users = {u1}
    Tokens = {t1, t2}
    Handlers = {h1, h2}
    TTL = 2
    None = None
CHECK_DEADLOCK FALSE
INVARIANT OldTokenDeleted
