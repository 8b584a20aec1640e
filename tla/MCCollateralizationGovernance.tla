---------------------- MODULE MCCollateralizationGovernance ----------------------
(* CollateralizationGovernance for TLC: small sets, and their symmetry.      *)
EXTENDS CollateralizationGovernance, TLC

CollateralSymmetry == Permutations(Mandates) \cup Permutations(Arrangements)
=============================================================================
