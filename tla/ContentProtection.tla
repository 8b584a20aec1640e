----------------------------- MODULE ContentProtection -----------------------------
(***************************************************************************)
(* src/enterprise/content-protection: protectResource records a resource   *)
(* as pending, checks its sovereign binding, wraps the key, uploads the    *)
(* ciphertext and marks the resource active; a failure is recorded as      *)
(* failed before the upload and as orphaned after it, when it can be.      *)
(*                                                                         *)
(* Every await is a step of its own, at which the call may be cut.  The    *)
(* evidence sink is the host's callback: it may throw wherever it is told  *)
(* of something.  What is encrypted, and with which key, is left out.      *)
(***************************************************************************)
EXTENDS StorageProvider

VARIABLES
    resources,      \* the state of each protected resource, and whether it knows its file
    protecting      \* the call that protects it: where it is, what went wrong, what it told

protectionVars == <<resources, protecting>>

ResourceStates == {"absent", "pending", "active", "failed", "orphaned"}

Stages == {"none", "checking", "wrapping", "storing", "marking", "orphaning", "failing", "over"}

Mishaps == {"none", "cut", "answer lost", "sink threw"}

ProtectionTypeOK ==
    /\ files \subseteq Files
    /\ resources \in [Files -> [state : ResourceStates, located : BOOLEAN]]
    /\ protecting \in [Files -> [stage : Stages, mishap : Mishaps, told : {"nothing", "protected", "refused"}]]

ProtectionInit ==
    /\ resources = [r \in Files |-> [state |-> "absent", located |-> FALSE]]
    /\ protecting = [r \in Files |-> [stage |-> "none", mishap |-> "none", told |-> "nothing"]]

At(r, stage) == protecting[r].stage = stage

Go(r, stage) == protecting' = [protecting EXCEPT ![r].stage = stage]

Tell(r, what) == protecting' = [protecting EXCEPT ![r].stage = "over", ![r].told = what]

Suffer(r, mishap, stage) == protecting' = [protecting EXCEPT ![r].stage = stage, ![r].mishap = mishap]

-----------------------------------------------------------------------------
(* protectResource.  An identifier already taken is refused.               *)

Protect(r, bound) ==
    /\ resources[r].state = "absent"
    /\ resources' = [resources EXCEPT ![r].state = "pending"]
    /\ Go(r, IF bound THEN "checking" ELSE "wrapping")
    /\ UNCHANGED files

\* The sovereign asset is resolved, verified, and has the digest of the content.
BindingVerified(r) ==
    /\ At(r, "checking")
    /\ Go(r, "wrapping")
    /\ UNCHANGED <<resources, files>>

BindingOrKeyRefused(r) ==
    /\ At(r, "checking") \/ At(r, "wrapping")
    /\ Go(r, "failing")
    /\ UNCHANGED <<resources, files>>

KeyWrapped(r) ==
    /\ At(r, "wrapping")
    /\ Go(r, "storing")
    /\ UNCHANGED <<resources, files>>

\* The sink that hears of the upload throws past the mark that follows it.
CiphertextStored(r) ==
    /\ At(r, "storing")
    /\ Upload(r)
    /\ Go(r, "marking") \/ Suffer(r, "sink threw", "failing")
    /\ UNCHANGED resources

StorageFails(r) ==
    /\ At(r, "storing")
    /\ \/ Go(r, "failing") /\ UNCHANGED files
       \/ Suffer(r, "answer lost", "failing") /\ Upload(r)
    /\ UNCHANGED resources

Pending(r) == resources[r].state = "pending"

\* markActive is followed, in the same try, by the sink that hears of it.
MarkActive(r) ==
    /\ At(r, "marking")
    /\ Pending(r)
    /\ resources' = [resources EXCEPT ![r] = [state |-> "active", located |-> TRUE]]
    /\ Tell(r, "protected") \/ Suffer(r, "sink threw", "orphaning")
    /\ UNCHANGED files

\* An upload that could not be finalized is recorded as a failure.
MarkActiveFailsFaulty(r) ==
    /\ At(r, "marking")
    /\ Go(r, "failing")
    /\ UNCHANGED <<resources, files>>

MarkActiveFails(r) ==
    /\ At(r, "marking")
    /\ Go(r, "orphaning")
    /\ UNCHANGED <<resources, files>>

\* markOrphaned and markFailed touch a pending resource only.
Relabelled(r, as, located) ==
    IF Pending(r) THEN [resources EXCEPT ![r] = [state |-> as, located |-> located]] ELSE resources

\* Best effort: whether or not the mark is made, the caller is told of a failure.
MarkOrphaned(r) ==
    /\ At(r, "orphaning")
    /\ resources' = Relabelled(r, "orphaned", TRUE) \/ UNCHANGED resources
    /\ Tell(r, "refused")
    /\ UNCHANGED files

MarkFailed(r) ==
    /\ At(r, "failing")
    /\ resources' = Relabelled(r, "failed", FALSE) \/ UNCHANGED resources
    /\ Tell(r, "refused")
    /\ UNCHANGED files

\* The process ends; what it had asked the provider to store may yet be stored.
ProtectionCut(r) ==
    /\ ~At(r, "none") /\ ~At(r, "over")
    /\ Suffer(r, "cut", "over")
    /\ IF At(r, "storing") THEN Perhaps(Upload(r)) ELSE UNCHANGED files
    /\ UNCHANGED resources

ProtectionStep(r) ==
    \/ BindingVerified(r) \/ BindingOrKeyRefused(r) \/ KeyWrapped(r)
    \/ CiphertextStored(r) \/ StorageFails(r)
    \/ MarkActive(r) \/ MarkActiveFails(r) \/ MarkOrphaned(r) \/ MarkFailed(r)

ProtectionNext ==
    \E r \in Files :
        \/ \E bound \in BOOLEAN : Protect(r, bound)
        \/ ProtectionStep(r)
        \/ ProtectionCut(r)

-----------------------------------------------------------------------------
(* Properties.                                                             *)

\* A file the provider holds is known to a record that is active or orphaned, or
\* that says it may be there by still being pending; a resource recorded as failed
\* has left a file behind only when the provider's answer was lost, or the sink
\* threw, after the upload.
CiphertextAccountedFor ==
    \A f \in files :
        \/ resources[f].state \in {"active", "orphaned"} /\ resources[f].located
        \/ resources[f].state = "pending"
        \/ resources[f].state = "failed" /\ protecting[f].mishap \in {"answer lost", "sink threw"}

\* What the caller is told is what is recorded: protected only if it is active, and
\* refused only if it is not, unless the sink threw after it had become so.
AnswerMatchesRecord ==
    \A r \in Files :
        /\ protecting[r].told = "protected" => resources[r].state = "active"
        /\ protecting[r].told = "refused" /\ resources[r].state = "active" => protecting[r].mishap = "sink threw"

\* A resource that has settled stays as it is, whatever its call does afterwards.
SettledForGood ==
    [][\A r \in Files : resources[r].state \in {"active", "failed", "orphaned"} => resources'[r] = resources[r]]_protectionVars
=============================================================================
