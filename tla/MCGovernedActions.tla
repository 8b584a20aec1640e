--------------------------- MODULE MCGovernedActions ---------------------------
(* GovernedActions for TLC: small sets, and the symmetry of the parties.     *)
EXTENDS GovernedActions, TLC

ActionsSymmetry == Permutations(Holders) \cup Permutations(Mandates)
=============================================================================
