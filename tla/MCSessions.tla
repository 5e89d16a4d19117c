----------------------------- MODULE MCSessions -----------------------------
(* Small instances of Sessions for TLC.                                    *)
EXTENDS Sessions, TLC

\* Handlers, tokens and users are interchangeable.
Symmetry == Permutations(Handlers) \cup Permutations(Tokens) \cup Permutations(Users)

=============================================================================
