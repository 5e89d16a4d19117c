SPECIFICATION Spec
CONSTANTS
    Orgs = {o1, o2}
    Users = {u1, u2, u3}
    Invites = {i1}
    Codes = {k1}
    Handlers = {h1, h2}
    None = None
SYMMETRY Symmetry
CHECK_DEADLOCK FALSE
INVARIANTS TypeOK OwnerIsCreator GrantedByAdmin UsedUpIsRefused AcceptedAdmitted
PROPERTY RolesAreStable
