------------------------------- MODULE MCOrgs -------------------------------
(* Small instances of Orgs for TLC.                                        *)
EXTENDS Orgs, TLC

Symmetry == Permutations(Orgs) \cup Permutations(Users) \cup Permutations(Invites)
            \cup Permutations(Handlers)

=============================================================================
