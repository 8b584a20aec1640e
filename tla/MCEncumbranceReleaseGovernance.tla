--------------------- MODULE MCEncumbranceReleaseGovernance ---------------------
(* EncumbranceReleaseGovernance for TLC: small sets, no symmetry (liveness). *)
EXTENDS EncumbranceReleaseGovernance, TLC
=============================================================================
