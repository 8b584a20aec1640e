------------------------------ MODULE StorageProvider ------------------------------
(***************************************************************************)
(* The provider that holds the ciphertexts (Pinata), as AccessGovernance   *)
(* and ContentProtection use it.  It is external: a file is there or not,  *)
(* and any answer may be lost after the provider has done what it was      *)
(* asked.                                                                  *)
(***************************************************************************)
CONSTANT Files      \* one ciphertext of each protected resource

VARIABLE files      \* the files the provider holds

Upload(f) == files' = files \cup {f}
Delete(f) == files' = files \ {f}

Perhaps(done) == done \/ UNCHANGED files
=============================================================================
