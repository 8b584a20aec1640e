----------------------------- MODULE MCProtectedAccess -----------------------------
(* ProtectedAccess for TLC.                                                  *)
EXTENDS ProtectedAccess, TLC
=============================================================================
