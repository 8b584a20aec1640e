----------------------------- MODULE MCKernelAuthority -----------------------------
(* KernelAuthority for TLC.                                                  *)
EXTENDS KernelAuthority, TLC
=============================================================================
