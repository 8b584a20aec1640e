-------------------------- MODULE MCTransferGovernance --------------------------
(* TransferGovernance for TLC: small sets, and the symmetry of the parties. *)
EXTENDS TransferGovernance, TLC

TransferSymmetry == Permutations(Holders) \cup Permutations(Mandates) \cup Permutations(Executions)
=============================================================================
