---------------------------- MODULE MCKeyRegistry ----------------------------
(* Two organizations, each with one developer; the first one's developer is *)
(* only a viewer of the second.                                            *)
EXTENDS KeyRegistry, TLC

CONSTANTS o1, o2, u1, u2

Grants == {<<u1, o1, "developer">>, <<u1, o2, "viewer">>, <<u2, o2, "admin">>}

MCRoleOf == [u \in Users |-> [o \in Orgs |->
    IF \E r \in Roles : <<u, o, r>> \in Grants
    THEN CHOOSE r \in Roles : <<u, o, r>> \in Grants
    ELSE "none"]]

Symmetry == Permutations(Keys) \cup Permutations(Handlers)
                               \cup Permutations(Services)
=============================================================================
