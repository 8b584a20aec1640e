-------------------------- MODULE MCEnterpriseLifecycle --------------------------
(* EnterpriseLifecycle for TLC.  Every dependency graph is an initial state. *)
EXTENDS EnterpriseLifecycle, TLC
=============================================================================
