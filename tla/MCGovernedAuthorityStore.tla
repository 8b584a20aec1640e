----------------------- MODULE MCGovernedAuthorityStore -----------------------
(* Small instances of GovernedAuthorityStore for TLC.                        *)
EXTENDS GovernedAuthorityStore, TLC

Symmetry ==
    Permutations(Holders) \cup Permutations(Mandates)
        \cup Permutations(Executions) \cup Permutations(Arrangements)
=============================================================================
