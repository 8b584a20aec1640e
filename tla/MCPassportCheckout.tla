----------------------------- MODULE MCPassportCheckout -----------------------------
(* PassportCheckout for TLC.                                                 *)
EXTENDS PassportCheckout, TLC
=============================================================================
