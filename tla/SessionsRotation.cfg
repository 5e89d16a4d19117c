SPECIFICATION Spec
CONSTANTS
    Users = {u1, u2}
    Tokens = {t1, t2}
    Handlers = {h1, h2}
    TTL = 2
    None = None
SYMMETRY Symmetry
CHECK_DEADLOCK FALSE
INVARIANTS TypeOK RevokedIsRefused NoLockout OneAccount
PROPERTY NoResurrection
