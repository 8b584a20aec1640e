------------------------------ MODULE ProtectedAccess ------------------------------
(***************************************************************************)
(* ContentProtection and AccessGovernance at work on one provider: what    *)
(* the first uploads the second grants access to, and deletes when it is   *)
(* removed.  Neither reads the other's store; they meet in the files.      *)
(***************************************************************************)
EXTENDS ContentProtection, AccessGovernance

protectedAccessVars == <<files, protectionVars, accessVars>>

ProtectedAccessInit == files = {} /\ ProtectionInit /\ AccessInit

ProtectedAccessNext ==
    \/ ProtectionNext /\ UNCHANGED accessVars
    \/ AccessNext /\ UNCHANGED protectionVars

ProtectedAccessSpec == ProtectedAccessInit /\ [][ProtectedAccessNext]_protectedAccessVars

\* A revocation runs on: the answer of the provider, or its failure, arrives.
FairProtectedAccessSpec ==
    /\ ProtectedAccessSpec
    /\ \A g \in Grants : WF_protectedAccessVars(EnforcementStep(g) /\ UNCHANGED protectionVars)

-----------------------------------------------------------------------------
Removed(f) == \E g \in Grants :
    /\ grants[g].file = f /\ grants[g].provider = "pinata" /\ grants[g].handle
    /\ grants[g].status = "revoked" /\ revocations[g].reason = "resource-removed"

\* The ciphertext of an active resource is where its record says, unless a grant on
\* it was revoked because the resource was removed: revoking one grant for any other
\* reason never takes the content from the others.
ActiveIsStored ==
    \A r \in Files : resources[r].state = "active" => r \in files \/ Removed(r)
=============================================================================
