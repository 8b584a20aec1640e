--------------------------- MODULE ProtectedAccessProofs ---------------------------
(***************************************************************************)
(* What protecting a resource and granting access to it guarantee for any  *)
(* number of resources, grants and links, wherever a call is cut.          *)
(***************************************************************************)
EXTENDS ProtectedAccess, TLAPS

TypesOK == ProtectionTypeOK /\ AccessTypeOK

-----------------------------------------------------------------------------
(* Protecting a resource.                                                  *)

ProtectionOf(r) ==
    \/ \E bound \in BOOLEAN : Protect(r, bound)
    \/ ProtectionStep(r)
    \/ ProtectionCut(r)

ResourceType(r) ==
    /\ resources[r] \in [state : ResourceStates, located : BOOLEAN]
    /\ protecting[r] \in [stage : Stages, mishap : Mishaps, told : {"nothing", "protected", "refused"}]

\* How far the call that protects r has come is told by the record of r and by where
\* its ciphertext is, and by what went wrong on the way.
ResourceInv(r) ==
    /\ At(r, "none") <=> resources[r].state = "absent"
    /\ protecting[r].stage \in {"checking", "wrapping", "storing", "marking", "failing"} => Pending(r)
    /\ At(r, "orphaning") => Pending(r) \/ (resources[r].state = "active" /\ protecting[r].mishap = "sink threw")
    /\ r \in files => protecting[r].stage \in {"marking", "orphaning", "failing", "over"}
    /\ (At(r, "failing") \/ resources[r].state = "failed") /\ r \in files =>
           protecting[r].mishap \in {"answer lost", "sink threw"}
    /\ resources[r].state \in {"active", "orphaned"} => resources[r].located = TRUE
    /\ protecting[r].told # "nothing" => At(r, "over")
    /\ protecting[r].told = "protected" => resources[r].state = "active"
    /\ protecting[r].told = "refused" /\ resources[r].state = "active" => protecting[r].mishap = "sink threw"

\* A call that protects r touches nothing of another resource.
LEMMA ProtectionFrame ==
    ASSUME TypesOK, NEW r \in Files, ProtectionOf(r)
    PROVE  /\ files' \subseteq files \cup {r}
           /\ \A q \in Files \ {r} : /\ resources'[q] = resources[q]
                                     /\ protecting'[q] = protecting[q]
                                     /\ q \in files' <=> q \in files
           /\ resources' = [resources EXCEPT ![r] = resources'[r]]
           /\ protecting' = [protecting EXCEPT ![r] = protecting'[r]]
  <1> USE DEF TypesOK, ProtectionTypeOK, Go, Tell, Suffer, Upload, Perhaps
  <1>1. CASE \E bound \in BOOLEAN : Protect(r, bound)
    BY <1>1 DEF Protect
  <1>2. CASE BindingVerified(r) \/ BindingOrKeyRefused(r) \/ KeyWrapped(r)
    BY <1>2 DEF BindingVerified, BindingOrKeyRefused, KeyWrapped
  <1>3. CASE CiphertextStored(r) \/ StorageFails(r)
    BY <1>3 DEF CiphertextStored, StorageFails
  <1>4. CASE MarkActive(r) \/ MarkActiveFails(r)
    BY <1>4 DEF MarkActive, MarkActiveFails
  <1>5. CASE MarkOrphaned(r) \/ MarkFailed(r)
    BY <1>5 DEF MarkOrphaned, MarkFailed, Relabelled
  <1>6. CASE ProtectionCut(r)
    BY <1>6 DEF ProtectionCut
  <1>7. QED
    BY <1>1, <1>2, <1>3, <1>4, <1>5, <1>6 DEF ProtectionOf, ProtectionStep

\* What a record says once it is settled.
LEMMA SettledRecord ==
    ASSUME NEW state \in ResourceStates, NEW located \in BOOLEAN,
           NEW v, v = [state |-> state, located |-> located]
    PROVE  v \in [state : ResourceStates, located : BOOLEAN] /\ v.state = state /\ v.located = located
  OBVIOUS

\* How far the call comes, field by field.
Comes(r, stage, mishap, told) ==
    /\ protecting'[r] \in [stage : Stages, mishap : Mishaps, told : {"nothing", "protected", "refused"}]
    /\ protecting'[r].stage = stage /\ protecting'[r].mishap = mishap /\ protecting'[r].told = told

LEMMA CallComes ==
    ASSUME TypesOK, NEW r \in Files, NEW stage \in Stages, NEW mishap \in Mishaps,
           NEW told \in {"nothing", "protected", "refused"}
    PROVE  /\ Go(r, stage) => Comes(r, stage, protecting[r].mishap, protecting[r].told)
           /\ Suffer(r, mishap, stage) => Comes(r, stage, mishap, protecting[r].told)
           /\ Tell(r, told) => Comes(r, "over", protecting[r].mishap, told)
  <1>1. protecting \in [Files -> [stage : Stages, mishap : Mishaps, told : {"nothing", "protected", "refused"}]]
    BY DEF TypesOK, ProtectionTypeOK
  <1>2. protecting[r] \in [stage : Stages, mishap : Mishaps, told : {"nothing", "protected", "refused"}]
    BY <1>1
  <1>3. Go(r, stage) => protecting'[r] = [protecting[r] EXCEPT !.stage = stage]
    BY <1>1 DEF Go
  <1>4. Suffer(r, mishap, stage) => protecting'[r] = [protecting[r] EXCEPT !.stage = stage, !.mishap = mishap]
    BY <1>1 DEF Suffer
  <1>5. Tell(r, told) => protecting'[r] = [protecting[r] EXCEPT !.stage = "over", !.told = told]
    BY <1>1 DEF Tell
  <1>6. "over" \in Stages
    BY DEF Stages
  <1>7. QED
    BY <1>2, <1>3, <1>4, <1>5, <1>6 DEF Comes

LEMMA StagesAndMishaps ==
    /\ \A stage \in {"none", "checking", "wrapping", "storing", "marking", "orphaning", "failing", "over"} : stage \in Stages
    /\ \A mishap \in {"none", "cut", "answer lost", "sink threw"} : mishap \in Mishaps
  BY DEF Stages, Mishaps

LEMMA ProtectionOfResource ==
    ASSUME TypesOK, NEW r \in Files, ResourceInv(r), ProtectionOf(r)
    PROVE  ResourceType(r)' /\ ResourceInv(r)'
  <1>1. /\ ResourceType(r)
        /\ resources \in [Files -> [state : ResourceStates, located : BOOLEAN]]
    BY DEF TypesOK, ProtectionTypeOK, ResourceType
  <1> USE DEF ResourceInv, ResourceType, ResourceStates, At, Pending, Comes
  <1>2. CASE \E bound \in BOOLEAN : Protect(r, bound)
    <2>1. Comes(r, "checking", protecting[r].mishap, protecting[r].told)
            \/ Comes(r, "wrapping", protecting[r].mishap, protecting[r].told)
      BY <1>2, CallComes, StagesAndMishaps DEF Protect
    <2>2. resources'[r] = [resources[r] EXCEPT !.state = "pending"] /\ files' = files
      BY <1>1, <1>2 DEF Protect
    <2>3. resources[r].state = "absent"
      BY <1>2 DEF Protect
    <2>4. QED
      BY <1>1, <2>1, <2>2, <2>3
  <1>3. CASE BindingVerified(r) \/ BindingOrKeyRefused(r) \/ KeyWrapped(r)
    <2>1. \/ Comes(r, "wrapping", protecting[r].mishap, protecting[r].told)
          \/ Comes(r, "storing", protecting[r].mishap, protecting[r].told)
          \/ Comes(r, "failing", protecting[r].mishap, protecting[r].told)
      BY <1>3, CallComes, StagesAndMishaps DEF BindingVerified, BindingOrKeyRefused, KeyWrapped
    <2>2. resources' = resources /\ files' = files /\ protecting[r].stage \in {"checking", "wrapping"}
      BY <1>3 DEF BindingVerified, BindingOrKeyRefused, KeyWrapped
    <2>3. QED
      BY <1>1, <2>1, <2>2
  <1>4. CASE CiphertextStored(r)
    <2>1. \/ Comes(r, "marking", protecting[r].mishap, protecting[r].told)
          \/ Comes(r, "failing", "sink threw", protecting[r].told)
      BY <1>4, CallComes, StagesAndMishaps DEF CiphertextStored
    <2>2. resources' = resources /\ protecting[r].stage = "storing"
      BY <1>4 DEF CiphertextStored
    <2>3. QED
      BY <1>1, <2>1, <2>2
  <1>5. CASE StorageFails(r)
    <2>1. \/ Comes(r, "failing", protecting[r].mishap, protecting[r].told) /\ files' = files
          \/ Comes(r, "failing", "answer lost", protecting[r].told)
      BY <1>5, CallComes, StagesAndMishaps DEF StorageFails
    <2>2. resources' = resources /\ protecting[r].stage = "storing"
      BY <1>5 DEF StorageFails
    <2>3. QED
      BY <1>1, <2>1, <2>2
  <1>6. CASE MarkActive(r)
    <2>1. \/ Comes(r, "over", protecting[r].mishap, "protected")
          \/ Comes(r, "orphaning", "sink threw", protecting[r].told)
      BY <1>6, CallComes, StagesAndMishaps DEF MarkActive
    <2>2. resources'[r] = [state |-> "active", located |-> TRUE]
      BY <1>1, <1>6 DEF MarkActive
    <2>3. /\ resources'[r] \in [state : ResourceStates, located : BOOLEAN]
          /\ resources'[r].state = "active" /\ resources'[r].located = TRUE
      BY <2>2, SettledRecord
    <2>4. files' = files /\ protecting[r].stage = "marking"
      BY <1>6 DEF MarkActive
    <2>5. ResourceType(r)'
      BY <2>1, <2>3
    <2>6. QED
      BY <1>1, <2>1, <2>3, <2>4, <2>5
  <1>7. CASE MarkActiveFails(r)
    <2>1. Comes(r, "orphaning", protecting[r].mishap, protecting[r].told)
      BY <1>7, CallComes, StagesAndMishaps DEF MarkActiveFails
    <2>2. resources' = resources /\ files' = files /\ protecting[r].stage = "marking"
      BY <1>7 DEF MarkActiveFails
    <2>3. QED
      BY <1>1, <2>1, <2>2
  <1>8. CASE MarkOrphaned(r)
    <2>1. Comes(r, "over", protecting[r].mishap, "refused")
      BY <1>8, CallComes, StagesAndMishaps DEF MarkOrphaned
    <2>2. \/ resources[r].state = "pending" /\ resources'[r] = [state |-> "orphaned", located |-> TRUE]
          \/ resources'[r] = resources[r]
      BY <1>1, <1>8 DEF MarkOrphaned, Relabelled
    <2>3. files' = files /\ protecting[r].stage = "orphaning"
      BY <1>8 DEF MarkOrphaned
    <2>5. CASE resources'[r] = resources[r]
      BY <1>1, <2>1, <2>3, <2>5
    <2>6. CASE resources[r].state = "pending" /\ resources'[r] = [state |-> "orphaned", located |-> TRUE]
      <3>1. /\ resources'[r] \in [state : ResourceStates, located : BOOLEAN]
            /\ resources'[r].state = "orphaned" /\ resources'[r].located = TRUE
        BY <2>6, SettledRecord
      <3>2. QED
        BY <1>1, <2>1, <2>3, <2>6, <3>1
    <2>7. QED
      BY <2>2, <2>5, <2>6
  <1>9. CASE MarkFailed(r)
    <2>1. Comes(r, "over", protecting[r].mishap, "refused")
      BY <1>9, CallComes, StagesAndMishaps DEF MarkFailed
    <2>2. \/ resources[r].state = "pending" /\ resources'[r] = [state |-> "failed", located |-> FALSE]
          \/ resources'[r] = resources[r]
      BY <1>1, <1>9 DEF MarkFailed, Relabelled
    <2>3. files' = files /\ protecting[r].stage = "failing"
      BY <1>9 DEF MarkFailed
    <2>5. CASE resources'[r] = resources[r]
      BY <1>1, <2>1, <2>3, <2>5
    <2>6. CASE resources[r].state = "pending" /\ resources'[r] = [state |-> "failed", located |-> FALSE]
      <3>1. /\ resources'[r] \in [state : ResourceStates, located : BOOLEAN]
            /\ resources'[r].state = "failed" /\ resources'[r].located = FALSE
        BY <2>6, SettledRecord
      <3>2. QED
        BY <1>1, <2>1, <2>3, <2>6, <3>1
    <2>7. QED
      BY <2>2, <2>5, <2>6
  <1>10. CASE ProtectionCut(r)
    <2>1. Comes(r, "over", "cut", protecting[r].told)
      BY <1>10, CallComes, StagesAndMishaps DEF ProtectionCut
    <2>2. resources' = resources /\ protecting[r].stage \notin {"none", "over"}
      BY <1>10 DEF ProtectionCut
    <2>3. protecting[r].stage # "storing" => files' = files
      BY <1>10 DEF ProtectionCut
    <2>4. resources[r].state # "failed"
      BY <1>1, <2>2 DEF Stages
    <2>5. QED
      BY <1>1, <2>1, <2>2, <2>3, <2>4
  <1>11. QED
    BY <1>2, <1>3, <1>4, <1>5, <1>6, <1>7, <1>8, <1>9, <1>10 DEF ProtectionOf, ProtectionStep

LEMMA ProtectionStepInv ==
    ASSUME TypesOK, \A r \in Files : ResourceInv(r), ProtectionNext
    PROVE  ProtectionTypeOK' /\ \A r \in Files : ResourceInv(r)'
  <1>1. PICK r \in Files : ProtectionOf(r)
    BY DEF ProtectionNext, ProtectionOf
  <1>2. ResourceType(r)' /\ ResourceInv(r)'
    BY <1>1, ProtectionOfResource
  <1>3. ProtectionTypeOK'
    BY <1>1, <1>2, ProtectionFrame DEF TypesOK, ProtectionTypeOK, ResourceType
  <1>4. ASSUME NEW q \in Files, q # r
        PROVE  ResourceInv(q)'
    <2>1. resources'[q] = resources[q] /\ protecting'[q] = protecting[q]
      BY <1>1, <1>4, ProtectionFrame
    <2>2. q \in files' <=> q \in files
      BY <1>1, <1>4, ProtectionFrame
    <2>3. ResourceInv(q)
      BY <1>4
    <2>4. QED
      BY <2>1, <2>2, <2>3 DEF ResourceInv, At, Pending
  <1>5. QED
    BY <1>2, <1>3, <1>4

-----------------------------------------------------------------------------
(* Access to it: types.                                                    *)

Moments == {0} \cup Times \cup Expiries

Revocation == [reason : Reasons, at : {0} \cup Times, enforcement : Enforcement]

EnforcingCall == [stage : {"none", "deleting", "determined", "over", "cut"}, floor : Moments, result : Enforcement]

Link == [stage : {"idle", "asked", "linked", "recorded", "lost", "refused"}, grant : Grants,
         duration : Durations, expires : {0} \cup Expiries, timely : BOOLEAN]

LEMMA TimesAreNat == Moments \subseteq Nat /\ \A t \in Expiries : t > 0
  BY AccessAssumption DEF Moments, Times, Expiries

LEMMA AccessTypes ==
    AccessTypeOK <=>
        /\ files \subseteq Files /\ clock \in Times
        /\ grants \in [Grants -> Grant] /\ revocations \in [Grants -> Revocation]
        /\ enforcing \in [Grants -> EnforcingCall] /\ links \in [Requests -> Link]
  BY DEF AccessTypeOK, Revocation, EnforcingCall, Link, Moments

LEMMA FloorIsMoment ==
    ASSUME AccessTypeOK, NEW g \in Grants, NEW at \in Times
    PROVE  Floor(g, at) \in Times \cup Expiries
  <1>1. grants[g] \in Grant
    BY DEF AccessTypeOK
  <1>2. QED
    BY <1>1 DEF Grant, Floor

LEMMA DeterminationIsEnforcement ==
    ASSUME AccessTypeOK, NEW g \in Grants, NEW at \in Times
    PROVE  Determination(g, at) \in Enforcement
  <1>1. grants[g].provider \in Providers
    BY DEF AccessTypeOK, Grant
  <1>2. QED
    BY <1>1, FloorIsMoment DEF Determination, Enforcement, Modes, Providers, Moments

LEMMA UndeterminedIsEnforcement == Undetermined \in Enforcement
  BY DEF Undetermined, Enforcement, Modes

\* The actions, taken apart once.
Issuing == \E g \in Grants, p \in Providers, h \in BOOLEAN, f \in Files : IssueGrant(g, p, h, f)
Revoking == \E g \in Grants, reason \in Reasons, at \in Times : Revoke(g, reason, at)
Enforcing == \E g \in Grants : EnforcementStep(g) \/ RevocationCut(g)
Requesting == \E r \in Requests, g \in Grants, d \in Durations : RequestLink(r, g, d)
Linking == \E r \in Requests : LinkSigned(r) \/ LinkRefused(r) \/ LinkLost(r)
Recording == \E r \in Requests : RecordLink(r)

LEMMA AccessIsOneOf ==
    AccessNext <=> AccessTick \/ Issuing \/ Revoking \/ Enforcing \/ Requesting \/ Linking \/ Recording
  BY DEF AccessNext, Issuing, Revoking, Enforcing, Requesting, Linking, Recording

LEMMA LaterIsExpiry ==
    ASSUME NEW a \in {0} \cup Expiries, NEW b \in {0} \cup Expiries
    PROVE  /\ LaterExpiry(a, b) \in {0} \cup Expiries
           /\ LaterExpiry(a, b) >= a /\ LaterExpiry(a, b) >= b
  BY TimesAreNat DEF LaterExpiry, Moments

LEMMA AccessTypeStep == AccessTypeOK /\ AccessNext => AccessTypeOK'
  <1> SUFFICES ASSUME AccessTypeOK, AccessNext PROVE AccessTypeOK'
    OBVIOUS
  <1>0. /\ files \subseteq Files /\ clock \in Times
        /\ grants \in [Grants -> Grant] /\ revocations \in [Grants -> Revocation]
        /\ enforcing \in [Grants -> EnforcingCall] /\ links \in [Requests -> Link]
    BY AccessTypes
  <1> SUFFICES /\ files' \subseteq Files /\ clock' \in Times
               /\ grants' \in [Grants -> Grant] /\ revocations' \in [Grants -> Revocation]
               /\ enforcing' \in [Grants -> EnforcingCall] /\ links' \in [Requests -> Link]
    BY DEF AccessTypeOK, Revocation, EnforcingCall, Link, Moments
  <1>1. CASE AccessTick
    BY <1>0, <1>1, AccessAssumption DEF AccessTick, Times
  <1>2. CASE Issuing
    BY <1>0, <1>2 DEF Issuing, IssueGrant, Grant
  <1>3. CASE Revoking
    <2>1. PICK g \in Grants, reason \in Reasons, at \in Times : Revoke(g, reason, at)
      BY <1>3 DEF Revoking
    <2>2. grants' \in [Grants -> Grant]
      BY <1>0, <2>1 DEF Revoke, Grant
    <2>3. revocations' \in [Grants -> Revocation]
      BY <1>0, <2>1, UndeterminedIsEnforcement DEF Revoke, Revocation
    <2>4. enforcing' \in [Grants -> EnforcingCall]
      BY <1>0, <2>1, UndeterminedIsEnforcement, FloorIsMoment, DeterminationIsEnforcement
         DEF Revoke, EnforcingCall, Moments
    <2>5. QED
      BY <1>0, <2>1, <2>2, <2>3, <2>4 DEF Revoke
  <1>4. CASE Enforcing
    <2>1. PICK g \in Grants : EnforcementStep(g) \/ RevocationCut(g)
      BY <1>4 DEF Enforcing
    <2>2. files' \subseteq Files
      BY <1>0, <2>1 DEF EnforcementStep, FileDeleted, DeletionFails, Finalize, RevocationCut, Delete, Perhaps
    <2>3. enforcing' \in [Grants -> EnforcingCall]
      <3>1. ASSUME NEW mode \in Modes, NEW effective \in Moments, Determined(g, mode, effective)
            PROVE  enforcing' \in [Grants -> EnforcingCall]
        <4>1. [mode |-> mode, effective |-> effective] \in Enforcement
          BY <3>1 DEF Enforcement, Moments
        <4>2. QED
          BY <1>0, <3>1, <4>1 DEF Determined, EnforcingCall
      <3>2. CASE FileDeleted(g)
        BY <1>0, <3>1, <3>2 DEF FileDeleted, Modes, Moments
      <3>3. CASE DeletionFails(g)
        BY <1>0, <3>1, <3>3 DEF DeletionFails, Modes, EnforcingCall
      <3>4. CASE Finalize(g) \/ RevocationCut(g)
        BY <1>0, <3>4 DEF Finalize, RevocationCut, EnforcingCall
      <3>5. QED
        BY <2>1, <3>2, <3>3, <3>4 DEF EnforcementStep
    <2>4. revocations' \in [Grants -> Revocation]
      <3>1. CASE Finalize(g)
        <4>1. enforcing[g].result \in Enforcement
          BY <1>0 DEF EnforcingCall
        <4>2. [revocations[g] EXCEPT !.enforcement = enforcing[g].result] \in Revocation
          BY <1>0, <4>1 DEF Revocation
        <4>3. revocations' = [revocations EXCEPT ![g] =
                                [revocations[g] EXCEPT !.enforcement = enforcing[g].result]]
          BY <1>0, <3>1 DEF Finalize
        <4>4. QED
          BY <1>0, <4>2, <4>3
      <3>2. CASE UNCHANGED revocations
        BY <1>0, <3>2
      <3>3. QED
        BY <2>1, <3>1, <3>2 DEF EnforcementStep, FileDeleted, DeletionFails, RevocationCut
    <2>5. UNCHANGED <<clock, grants, links>>
      BY <2>1 DEF EnforcementStep, FileDeleted, DeletionFails, Finalize, RevocationCut
    <2>6. QED
      BY <1>0, <2>2, <2>3, <2>4, <2>5
  <1>5. CASE Requesting
    BY <1>0, <1>5 DEF Requesting, RequestLink, Link
  <1>6. CASE Linking
    <2>1. PICK r \in Requests : LinkSigned(r) \/ LinkRefused(r) \/ LinkLost(r)
      BY <1>6 DEF Linking
    <2>2. clock + links[r].duration \in Expiries
      BY <1>0 DEF Link, Expiries
    <2>3. links' \in [Requests -> Link]
      <3>1. ASSUME NEW stage \in {"linked", "lost"}, Signed(r, stage)
            PROVE  links' \in [Requests -> Link]
        BY <1>0, <2>2, <3>1 DEF Signed, Link
      <3>2. ASSUME NEW stage \in {"refused", "lost"}, links' = [links EXCEPT ![r].stage = stage]
            PROVE  links' \in [Requests -> Link]
        BY <1>0, <3>2 DEF Link
      <3>3. QED
        BY <2>1, <3>1, <3>2 DEF LinkSigned, LinkRefused, LinkLost
    <2>4. QED
      BY <1>0, <2>1, <2>3 DEF LinkSigned, LinkRefused, LinkLost
  <1>7. CASE Recording
    <2>1. PICK r \in Requests : RecordLink(r)
      BY <1>7 DEF Recording
    <2>2. links[r].grant \in Grants /\ links[r].expires \in {0} \cup Expiries
      BY <1>0 DEF Link
    <2>3. LaterExpiry(grants[links[r].grant].outstanding, links[r].expires) \in {0} \cup Expiries
      BY <1>0, <2>2, LaterIsExpiry DEF Grant
    <2>4. grants' \in [Grants -> Grant]
      BY <1>0, <2>1, <2>2, <2>3 DEF RecordLink, WithOutstanding, Grant
    <2>5. links' \in [Requests -> Link]
      <3>1. PICK b \in BOOLEAN : links' = [links EXCEPT ![r].stage = "recorded", ![r].timely = b]
        <4>1. (grants[links[r].grant].status = "active") \in BOOLEAN
          OBVIOUS
        <4>2. QED
          BY <2>1, <4>1 DEF RecordLink
      <3>2. QED
        BY <1>0, <3>1 DEF Link
    <2>6. QED
      BY <1>0, <2>1, <2>4, <2>5 DEF RecordLink
  <1>8. QED
    BY <1>1, <1>2, <1>3, <1>4, <1>5, <1>6, <1>7, AccessIsOneOf

-----------------------------------------------------------------------------
(* Access to it: the invariant.                                            *)

\* The call that protects f has come past the upload.
Uploaded(f) == protecting[f].stage \in {"marking", "orphaning", "failing", "over"}

\* A revocation that has been determined is effective when every link it knew of has
\* expired, or its file is gone, unless there is nothing its provider could know of.
GrantInv(g) ==
    /\ enforcing[g].stage = "none" <=> grants[g].status # "revoked"
    /\ grants[g].status # "none" => Uploaded(grants[g].file)
    /\ enforcing[g].stage = "deleting" =>
           /\ grants[g].provider = "pinata" /\ grants[g].handle = TRUE
           /\ revocations[g].reason = "resource-removed"
    /\ enforcing[g].stage = "over" => revocations[g].enforcement = enforcing[g].result
    /\ enforcing[g].stage # "over" => revocations[g].enforcement = Undetermined
    /\ (enforcing[g].stage \in {"determined", "over"} /\ enforcing[g].result.effective # 0) =>
           \/ enforcing[g].floor <= enforcing[g].result.effective
           \/ grants[g].file \notin files
           \/ grants[g].provider # "pinata"

\* A link that was on record in time expires by what the grant, and later its
\* revocation, keeps as the last expiry.
LinkInv(r) ==
    /\ links[r].stage # "idle" =>
           grants[links[r].grant].status # "none" /\ grants[links[r].grant].provider = "pinata"
    /\ links[r].stage \in {"linked", "recorded"} => links[r].expires > 0
    /\ links[r].stage # "recorded" => links[r].timely = FALSE
    /\ links[r].timely = TRUE =>
           IF grants[links[r].grant].status = "revoked"
             THEN links[r].expires <= enforcing[links[r].grant].floor
             ELSE links[r].expires <= grants[links[r].grant].outstanding

\* The ciphertext of a resource that is or may become active is there, or was removed.
StoredInv(f) == At(f, "marking") \/ resources[f].state = "active" => f \in files \/ Removed(f)

SameGrant(g) ==
    /\ grants'[g].status = grants[g].status /\ grants'[g].provider = grants[g].provider
    /\ grants'[g].handle = grants[g].handle /\ grants'[g].file = grants[g].file

LEMMA GrantKept ==
    ASSUME NEW g \in Grants, GrantInv(g), SameGrant(g),
           enforcing'[g] = enforcing[g], revocations'[g] = revocations[g],
           grants[g].file \in files' => grants[g].file \in files,
           Uploaded(grants[g].file) => Uploaded(grants[g].file)'
    PROVE  GrantInv(g)'
  BY DEF GrantInv, SameGrant, Uploaded, Undetermined

LEMMA LinkKept ==
    ASSUME AccessTypeOK, AccessTypeOK', NEW r \in Requests, LinkInv(r), links'[r] = links[r],
           SameGrant(links[r].grant),
           grants'[links[r].grant].outstanding >= grants[links[r].grant].outstanding,
           enforcing'[links[r].grant].floor = enforcing[links[r].grant].floor
    PROVE  LinkInv(r)'
  <1>1. links[r] \in Link /\ links[r].grant \in Grants
    BY AccessTypes DEF Link
  <1>2. grants[links[r].grant] \in Grant /\ grants'[links[r].grant] \in Grant
    BY <1>1 DEF AccessTypeOK
  <1>3. /\ links[r].expires \in Nat /\ grants[links[r].grant].outstanding \in Nat
        /\ grants'[links[r].grant].outstanding \in Nat
    BY <1>1, <1>2, TimesAreNat DEF Link, Grant, Moments
  <1>4. QED
    BY <1>3 DEF LinkInv, SameGrant

LEMMA RemovedStays ==
    ASSUME NEW f \in Files, Removed(f),
           \A g \in Grants : grants[g].status = "revoked" =>
               SameGrant(g) /\ revocations'[g].reason = revocations[g].reason
    PROVE  Removed(f)'
  BY DEF Removed, SameGrant

AccessInv ==
    /\ \A r \in Files : ResourceInv(r)
    /\ \A f \in Files : StoredInv(f)
    /\ \A g \in Grants : GrantInv(g)
    /\ \A r \in Requests : LinkInv(r)

\* Protecting a resource disturbs no grant and no link.
LEMMA ProtectionKeepsAccess ==
    ASSUME TypesOK, AccessInv, ProtectionNext, UNCHANGED accessVars
    PROVE  AccessInv'
  <1>1. PICK r \in Files : ProtectionOf(r)
    BY DEF ProtectionNext, ProtectionOf
  <1>2. \A f \in Files : ResourceInv(f)'
    BY ProtectionStepInv DEF AccessInv
  <1>3. /\ Uploaded(r) => Uploaded(r)'
        /\ Uploaded(r) /\ r \in files' => r \in files
        /\ r \in files => r \in files'
    <2>1. protecting[r] \in [stage : Stages, mishap : Mishaps, told : {"nothing", "protected", "refused"}]
      BY DEF TypesOK, ProtectionTypeOK
    <2>2. ResourceInv(r)
      BY DEF AccessInv
    <2>3. CASE \E bound \in BOOLEAN : Protect(r, bound)
      BY <2>2, <2>3 DEF Protect, Uploaded, ResourceInv, At
    <2>4. CASE ProtectionStep(r)
      <3>1. CASE BindingVerified(r) \/ BindingOrKeyRefused(r) \/ KeyWrapped(r) \/ CiphertextStored(r) \/ StorageFails(r)
        BY <3>1 DEF BindingVerified, BindingOrKeyRefused, KeyWrapped, CiphertextStored, StorageFails,
                    At, Uploaded, Upload
      <3>2. CASE MarkActive(r) \/ MarkActiveFails(r) \/ MarkOrphaned(r) \/ MarkFailed(r)
        <4>1. \/ Comes(r, "over", protecting[r].mishap, "protected")
              \/ Comes(r, "orphaning", "sink threw", protecting[r].told)
              \/ Comes(r, "orphaning", protecting[r].mishap, protecting[r].told)
              \/ Comes(r, "over", protecting[r].mishap, "refused")
          BY <2>1, <3>2, CallComes, StagesAndMishaps DEF MarkActive, MarkActiveFails, MarkOrphaned, MarkFailed
        <4>2. files' = files
          BY <3>2 DEF MarkActive, MarkActiveFails, MarkOrphaned, MarkFailed
        <4>3. QED
          BY <4>1, <4>2 DEF Comes, Uploaded
      <3>3. QED
        BY <2>4, <3>1, <3>2 DEF ProtectionStep
    <2>5. CASE ProtectionCut(r)
      <3>1. Comes(r, "over", "cut", protecting[r].told)
        BY <2>1, <2>5, CallComes, StagesAndMishaps DEF ProtectionCut
      <3>2. Uploaded(r) => files' = files
        BY <2>5 DEF ProtectionCut, Uploaded, At
      <3>3. r \in files => r \in files'
        BY <2>5 DEF ProtectionCut, Perhaps, Upload
      <3>4. QED
        BY <3>1, <3>2, <3>3 DEF Comes, Uploaded
    <2>6. QED
      BY <1>1, <2>3, <2>4, <2>5 DEF ProtectionOf
  <1>4. /\ \A f \in Files : Uploaded(f) => Uploaded(f)'
        /\ \A f \in Files : Uploaded(f) /\ f \in files' => f \in files
        /\ \A f \in Files : f \in files => f \in files'
    BY <1>1, <1>3, ProtectionFrame DEF Uploaded
  <1>5. UNCHANGED <<grants, revocations, enforcing, links>>
    BY DEF accessVars
  <1>6. ASSUME NEW g \in Grants
        PROVE  GrantInv(g)'
    <2>1. grants[g].file \in Files
      BY DEF TypesOK, AccessTypeOK, Grant
    <2>2. GrantInv(g)
      BY DEF AccessInv
    <2>3. CASE grants[g].status = "none"
      BY <1>5, <2>2, <2>3 DEF GrantInv, Undetermined
    <2>4. CASE grants[g].status # "none"
      BY <1>4, <1>5, <2>1, <2>2, <2>4 DEF GrantInv, Undetermined
    <2>5. QED
      BY <2>3, <2>4
  <1>7. ASSUME NEW q \in Requests
        PROVE  LinkInv(q)'
    BY <1>5 DEF AccessInv, LinkInv
  <1>8. ASSUME NEW f \in Files
        PROVE  StoredInv(f)'
    <2>1. StoredInv(f) /\ ResourceInv(f)
      BY DEF AccessInv
    <2>2. Removed(f) => Removed(f)'
      BY <1>5 DEF Removed
    <2>3. CASE f # r
      BY <1>1, <1>4, <2>1, <2>2, <2>3, ProtectionFrame DEF StoredInv, At
    <2>4. CASE f = r
      <3> SUFFICES ASSUME protecting'[r].stage = "marking" \/ resources'[r].state = "active"
                   PROVE  r \in files' \/ Removed(r) \/ At(r, "marking") \/ resources[r].state = "active"
        BY <1>4, <2>1, <2>2, <2>4 DEF StoredInv, At
      <3>1. CASE \E bound \in BOOLEAN : Protect(r, bound)
        <4>1. \/ Comes(r, "checking", protecting[r].mishap, protecting[r].told)
              \/ Comes(r, "wrapping", protecting[r].mishap, protecting[r].told)
          BY <3>1, CallComes, StagesAndMishaps DEF Protect
        <4>2. resources'[r].state = "pending"
          BY <3>1 DEF Protect, TypesOK, ProtectionTypeOK
        <4>3. QED
          BY <4>1, <4>2 DEF Comes
      <3>2. CASE BindingVerified(r) \/ BindingOrKeyRefused(r) \/ KeyWrapped(r) \/ StorageFails(r)
        <4>1. \/ Comes(r, "wrapping", protecting[r].mishap, protecting[r].told)
              \/ Comes(r, "storing", protecting[r].mishap, protecting[r].told)
              \/ Comes(r, "failing", protecting[r].mishap, protecting[r].told)
              \/ Comes(r, "failing", "answer lost", protecting[r].told)
          BY <3>2, CallComes, StagesAndMishaps DEF BindingVerified, BindingOrKeyRefused, KeyWrapped, StorageFails
        <4>2. resources' = resources
          BY <3>2 DEF BindingVerified, BindingOrKeyRefused, KeyWrapped, StorageFails
        <4>3. QED
          BY <4>1, <4>2 DEF Comes
      <3>3. CASE CiphertextStored(r)
        BY <3>3 DEF CiphertextStored, Upload
      <3>4. CASE MarkActive(r) \/ MarkActiveFails(r)
        BY <3>4 DEF MarkActive, MarkActiveFails
      <3>5. CASE MarkOrphaned(r) \/ MarkFailed(r)
        <4>1. Comes(r, "over", protecting[r].mishap, "refused")
          BY <3>5, CallComes, StagesAndMishaps DEF MarkOrphaned, MarkFailed
        <4>2. \/ resources'[r] = [state |-> "orphaned", located |-> TRUE]
              \/ resources'[r] = [state |-> "failed", located |-> FALSE]
              \/ resources'[r] = resources[r]
          BY <3>5 DEF MarkOrphaned, MarkFailed, Relabelled, TypesOK, ProtectionTypeOK
        <4>3. QED
          BY <4>1, <4>2 DEF Comes
      <3>6. CASE ProtectionCut(r)
        <4>1. Comes(r, "over", "cut", protecting[r].told) /\ resources' = resources
          BY <3>6, CallComes, StagesAndMishaps DEF ProtectionCut
        <4>2. QED
          BY <4>1 DEF Comes
      <3>7. QED
        BY <1>1, <3>1, <3>2, <3>3, <3>4, <3>5, <3>6 DEF ProtectionOf, ProtectionStep
    <2>5. QED
      BY <2>3, <2>4
  <1>9. QED
    BY <1>2, <1>6, <1>7, <1>8 DEF AccessInv

\* No step of access governance undoes a grant, a revocation or a determination, or
\* takes a file that was not removed.
LEMMA AccessFrame ==
    ASSUME TypesOK, AccessInv, AccessNext
    PROVE  /\ files' \subseteq files
           /\ \A g \in Grants : grants[g].status # "none" =>
                 /\ grants'[g].provider = grants[g].provider /\ grants'[g].handle = grants[g].handle
                 /\ grants'[g].file = grants[g].file /\ grants'[g].status # "none"
           /\ \A g \in Grants : grants[g].status = "revoked" =>
                 SameGrant(g) /\ revocations'[g].reason = revocations[g].reason
           /\ \A f \in files : f \in files' \/ Removed(f)
  <1>1. /\ grants \in [Grants -> Grant] /\ revocations \in [Grants -> Revocation]
        /\ enforcing \in [Grants -> EnforcingCall] /\ links \in [Requests -> Link]
    BY AccessTypes DEF TypesOK
  <1>2. CASE AccessTick
    BY <1>2 DEF AccessTick, SameGrant
  <1>3. CASE Issuing
    BY <1>1, <1>3 DEF Issuing, IssueGrant, SameGrant, Grant
  <1>4. CASE Revoking
    BY <1>1, <1>4 DEF Revoking, Revoke, Revocable, SameGrant, Grant
  <1>5. CASE Enforcing
    <2>1. PICK g \in Grants : EnforcementStep(g) \/ RevocationCut(g)
      BY <1>5 DEF Enforcing
    <2>2. grants' = grants /\ \A h \in Grants : revocations'[h].reason = revocations[h].reason
      BY <1>1, <2>1 DEF EnforcementStep, FileDeleted, DeletionFails, Finalize, RevocationCut, Revocation
    <2>3. files' = files \/ (files' = files \ {grants[g].file} /\ enforcing[g].stage = "deleting")
      BY <2>1 DEF EnforcementStep, FileDeleted, DeletionFails, Finalize, RevocationCut, Delete, Perhaps
    <2>4. enforcing[g].stage = "deleting" => Removed(grants[g].file)
      <3>1. GrantInv(g) /\ grants[g] \in Grant
        BY <1>1 DEF AccessInv
      <3>2. QED
        BY <3>1 DEF GrantInv, Removed, Grant
    <2>5. QED
      BY <2>2, <2>3, <2>4 DEF SameGrant
  <1>6. CASE Requesting \/ Linking
    BY <1>6 DEF Requesting, Linking, RequestLink, LinkSigned, LinkRefused, LinkLost, Signed, SameGrant
  <1>7. CASE Recording
    BY <1>1, <1>7 DEF Recording, RecordLink, WithOutstanding, SameGrant, Grant
  <1>8. QED
    BY <1>2, <1>3, <1>4, <1>5, <1>6, <1>7, AccessIsOneOf

\* Granting access to resources disturbs none, except that it removes files.
LEMMA AccessKeepsResources ==
    ASSUME TypesOK, AccessInv, AccessNext, UNCHANGED protectionVars, NEW f \in Files
    PROVE  /\ ResourceInv(f)' /\ StoredInv(f)'
           /\ Uploaded(f) => Uploaded(f)'
  <1>1. resources' = resources /\ protecting' = protecting
    BY DEF protectionVars
  <1>2. ResourceInv(f) /\ StoredInv(f)
    BY DEF AccessInv
  <1>3. ResourceInv(f)'
    BY <1>1, <1>2, AccessFrame DEF ResourceInv, At, Pending
  <1>4. Removed(f) => Removed(f)'
    BY AccessFrame, RemovedStays
  <1>5. f \in files => f \in files' \/ Removed(f)
    BY AccessFrame
  <1>6. QED
    BY <1>1, <1>2, <1>3, <1>4, <1>5 DEF StoredInv, At, Uploaded

\* What is not touched by a step stays as the invariant says.
LEMMA GrantsKept ==
    ASSUME TypesOK, AccessInv, AccessNext, UNCHANGED protectionVars,
           NEW g \in Grants, SameGrant(g), enforcing'[g] = enforcing[g], revocations'[g] = revocations[g]
    PROVE  GrantInv(g)'
  <1>1. grants[g].file \in Files
    BY DEF TypesOK, AccessTypeOK, Grant
  <1>2. GrantInv(g)
    BY DEF AccessInv
  <1>3. Uploaded(grants[g].file) => Uploaded(grants[g].file)'
    BY <1>1, AccessKeepsResources DEF Uploaded, SameGrant
  <1>4. grants[g].file \in files' => grants[g].file \in files
    BY AccessFrame
  <1>5. QED
    BY <1>2, <1>3, <1>4, GrantKept

LEMMA IssuingKeeps ==
    ASSUME TypesOK, AccessTypeOK', AccessInv, AccessNext, UNCHANGED protectionVars, Issuing
    PROVE  (\A g \in Grants : GrantInv(g)') /\ (\A r \in Requests : LinkInv(r)')
  <1>1. PICK g \in Grants, p \in Providers, h \in BOOLEAN, f \in Files : IssueGrant(g, p, h, f)
    BY DEF Issuing
  <1>2. /\ grants \in [Grants -> Grant] /\ links \in [Requests -> Link]
        /\ UNCHANGED <<revocations, enforcing, links, files>>
    BY <1>1, AccessTypes DEF TypesOK, IssueGrant
  <1>3. /\ grants[g].status = "none" /\ f \in files
        /\ grants'[g].status = "active" /\ grants'[g].file = f
        /\ \A d \in Grants \ {g} : grants'[d] = grants[d]
    BY <1>1, <1>2 DEF IssueGrant
  <1>4. ASSUME NEW d \in Grants
        PROVE  GrantInv(d)'
    <2>1. CASE d # g
      BY <1>2, <1>3, <2>1, GrantsKept DEF SameGrant
    <2>2. CASE d = g
      <3>1. Uploaded(f)'
        BY <1>3, AccessKeepsResources DEF AccessInv, ResourceInv, Uploaded
      <3>2. GrantInv(g)
        BY DEF AccessInv
      <3>3. QED
        BY <1>2, <1>3, <2>2, <3>1, <3>2 DEF GrantInv, Uploaded, Undetermined
    <2>3. QED
      BY <2>1, <2>2
  <1>5. ASSUME NEW r \in Requests
        PROVE  LinkInv(r)'
    <2>1. LinkInv(r) /\ links[r].grant \in Grants
      BY <1>2 DEF AccessInv, Link
    <2>2. CASE links[r].grant # g
      BY <1>2, <1>3, <2>1, <2>2 DEF LinkInv
    <2>3. CASE links[r].grant = g
      BY <1>2, <1>3, <2>1, <2>3 DEF LinkInv
    <2>4. QED
      BY <2>2, <2>3
  <1>6. QED
    BY <1>4, <1>5

LEMMA RevokingKeeps ==
    ASSUME TypesOK, AccessTypeOK', AccessInv, AccessNext, UNCHANGED protectionVars, Revoking
    PROVE  (\A g \in Grants : GrantInv(g)') /\ (\A r \in Requests : LinkInv(r)')
  <1>1. PICK g \in Grants, reason \in Reasons, at \in Times : Revoke(g, reason, at)
    BY DEF Revoking
  <1>2. /\ grants \in [Grants -> Grant] /\ links \in [Requests -> Link]
        /\ revocations \in [Grants -> Revocation] /\ enforcing \in [Grants -> EnforcingCall]
        /\ UNCHANGED <<links, files>>
    BY <1>1, AccessTypes DEF TypesOK, Revoke
  <1>3. /\ grants[g].status = "active"
        /\ grants'[g] = [grants[g] EXCEPT !.status = "revoked"]
        /\ \A d \in Grants \ {g} : /\ grants'[d] = grants[d]
                                   /\ revocations'[d] = revocations[d] /\ enforcing'[d] = enforcing[d]
        /\ revocations'[g].reason = reason /\ revocations'[g].enforcement = Undetermined
        /\ enforcing'[g] = IF Deletes(g, reason)
             THEN [stage |-> "deleting", floor |-> Floor(g, at), result |-> Undetermined]
             ELSE [stage |-> "determined", floor |-> Floor(g, at), result |-> Determination(g, at)]
    BY <1>1, <1>2 DEF Revoke, Revocable
  <1>4. grants[g] \in Grant /\ grants[g].outstanding \in Nat /\ grants[g].file \in Files
    BY <1>2, TimesAreNat DEF Grant, Moments
  <1>5. /\ grants'[g].status = "revoked" /\ grants'[g].provider = grants[g].provider
        /\ grants'[g].handle = grants[g].handle /\ grants'[g].file = grants[g].file
    BY <1>3, <1>4 DEF Grant
  <1>6. enforcing'[g].floor = Floor(g, at) /\ Floor(g, at) \in Nat
    BY <1>3, FloorIsMoment, TimesAreNat DEF TypesOK, Moments
  <1>7. ASSUME NEW d \in Grants
        PROVE  GrantInv(d)'
    <2>1. CASE d # g
      BY <1>3, <2>1, GrantsKept DEF SameGrant
    <2>2. CASE d = g
      <3>1. GrantInv(g)
        BY DEF AccessInv
      <3>2. Uploaded(grants[g].file)'
        BY <1>3, <1>4, <3>1, AccessKeepsResources DEF GrantInv
      <3>3. CASE Deletes(g, reason)
        <4>1. enforcing'[g].stage = "deleting"
          BY <1>3, <3>3
        <4>2. grants[g].provider = "pinata" /\ reason = "resource-removed" /\ grants[g].handle = TRUE
          BY <1>4, <3>3 DEF Deletes, Grant
        <4>3. QED
          BY <1>3, <1>5, <2>2, <3>2, <4>1, <4>2 DEF GrantInv, Uploaded, Undetermined
      <3>4. CASE ~Deletes(g, reason)
        <4>1. enforcing'[g].stage = "determined" /\ enforcing'[g].result = Determination(g, at)
          BY <1>3, <3>4
        <4>2. grants[g].provider = "pinata" => Determination(g, at).effective = Floor(g, at)
          BY DEF Determination
        <4>3. enforcing'[g].floor <= enforcing'[g].result.effective \/ grants'[g].provider # "pinata"
          BY <1>5, <1>6, <4>1, <4>2
        <4>4. QED
          BY <1>3, <1>5, <2>2, <3>2, <4>1, <4>3 DEF GrantInv
      <3>5. QED
        BY <3>3, <3>4
    <2>3. QED
      BY <2>1, <2>2
  <1>8. ASSUME NEW r \in Requests
        PROVE  LinkInv(r)'
    <2>1. LinkInv(r) /\ links[r].grant \in Grants /\ links[r].expires \in Nat
      BY <1>2, TimesAreNat DEF AccessInv, Link, Moments
    <2>2. CASE links[r].grant # g
      BY <1>2, <1>3, <2>1, <2>2 DEF LinkInv
    <2>3. CASE links[r].grant = g
      <3>1. links[r].timely = TRUE => links[r].stage = "recorded" /\ links[r].expires <= Floor(g, at)
        BY <1>3, <1>4, <2>1, <2>3 DEF LinkInv, Floor
      <3>2. QED
        BY <1>2, <1>3, <1>5, <1>6, <2>1, <2>3, <3>1 DEF LinkInv
    <2>4. QED
      BY <2>2, <2>3
  <1>9. QED
    BY <1>7, <1>8

LEMMA EnforcingKeeps ==
    ASSUME TypesOK, AccessTypeOK', AccessInv, AccessNext, UNCHANGED protectionVars, Enforcing
    PROVE  (\A g \in Grants : GrantInv(g)') /\ (\A r \in Requests : LinkInv(r)')
  <1>1. PICK g \in Grants : EnforcementStep(g) \/ RevocationCut(g)
    BY DEF Enforcing
  <1>2. /\ grants \in [Grants -> Grant] /\ links \in [Requests -> Link]
        /\ revocations \in [Grants -> Revocation] /\ enforcing \in [Grants -> EnforcingCall]
    BY AccessTypes DEF TypesOK
  <1>3. UNCHANGED <<grants, links>>
    BY <1>1 DEF EnforcementStep, FileDeleted, DeletionFails, Finalize, RevocationCut
  <1>4. /\ \A d \in Grants \ {g} : revocations'[d] = revocations[d] /\ enforcing'[d] = enforcing[d]
        /\ enforcing'[g].floor = enforcing[g].floor
        /\ enforcing[g].stage \in {"deleting", "determined"}
    BY <1>1, <1>2 DEF EnforcementStep, FileDeleted, DeletionFails, Finalize, RevocationCut, Determined, EnforcingCall
  <1>5. GrantInv(g)'
    <2>1. GrantInv(g) /\ grants[g].file \in Files /\ enforcing[g].floor \in Nat
      BY <1>2, TimesAreNat DEF AccessInv, Grant, EnforcingCall
    <2>2. grants[g].status = "revoked" /\ Uploaded(grants[g].file)'
      BY <1>3, <1>4, <2>1, AccessKeepsResources DEF GrantInv, Uploaded
    <2>3. CASE FileDeleted(g)
      <3>1. /\ grants[g].file \notin files' /\ UNCHANGED revocations
            /\ enforcing'[g].stage = "determined"
        BY <1>2, <2>3 DEF FileDeleted, Delete, Determined
      <3>2. QED
        BY <1>3, <1>4, <2>1, <2>2, <3>1 DEF GrantInv, Uploaded, Undetermined
    <2>4. CASE DeletionFails(g)
      <3>1. /\ UNCHANGED revocations
            /\ enforcing'[g].stage = "determined" /\ enforcing'[g].result.effective = enforcing[g].floor
        BY <1>2, <2>4 DEF DeletionFails, Determined, EnforcingCall
      <3>2. QED
        BY <1>3, <1>4, <2>1, <2>2, <3>1 DEF GrantInv, Uploaded, Undetermined
    <2>5. CASE Finalize(g)
      <3>1. /\ UNCHANGED files
            /\ revocations'[g].enforcement = enforcing[g].result
            /\ enforcing'[g].stage = "over" /\ enforcing'[g].result = enforcing[g].result
            /\ enforcing[g].stage = "determined"
        BY <1>2, <2>5 DEF Finalize, EnforcingCall, Revocation
      <3>2. QED
        BY <1>3, <1>4, <2>1, <2>2, <3>1 DEF GrantInv, Uploaded, Undetermined
    <2>6. CASE RevocationCut(g)
      <3>1. enforcing'[g].stage = "cut" /\ UNCHANGED revocations
        BY <1>2, <2>6 DEF RevocationCut, EnforcingCall
      <3>2. QED
        BY <1>3, <1>4, <2>1, <2>2, <3>1 DEF GrantInv, Uploaded, Undetermined
    <2>7. QED
      BY <1>1, <2>3, <2>4, <2>5, <2>6 DEF EnforcementStep
  <1>6. ASSUME NEW d \in Grants, d # g
        PROVE  GrantInv(d)'
    BY <1>3, <1>4, <1>6, GrantsKept DEF SameGrant
  <1>7. ASSUME NEW r \in Requests
        PROVE  LinkInv(r)'
    <2>1. LinkInv(r) /\ links[r].grant \in Grants
      BY <1>2 DEF AccessInv, Link
    <2>2. enforcing'[links[r].grant].floor = enforcing[links[r].grant].floor
      BY <1>4, <2>1
    <2>3. QED
      BY <1>3, <2>1, <2>2 DEF LinkInv
  <1>8. QED
    BY <1>5, <1>6, <1>7

LEMMA LinkingKeeps ==
    ASSUME TypesOK, AccessTypeOK', AccessInv, AccessNext, UNCHANGED protectionVars,
           AccessTick \/ Requesting \/ Linking
    PROVE  (\A g \in Grants : GrantInv(g)') /\ (\A r \in Requests : LinkInv(r)')
  <1>1. /\ links \in [Requests -> Link]
        /\ UNCHANGED <<grants, revocations, enforcing>>
    BY AccessTypes
       DEF TypesOK, AccessTick, Requesting, RequestLink, Linking, LinkSigned, LinkRefused, LinkLost
  <1>2. \A g \in Grants : GrantInv(g)'
    BY <1>1, GrantsKept DEF SameGrant
  <1>3. ASSUME NEW q \in Requests
        PROVE  LinkInv(q)'
    <2>1. LinkInv(q) /\ links[q] \in Link
      BY <1>1 DEF AccessInv
    <2>2. CASE links'[q] = links[q]
      BY <1>1, <2>1, <2>2 DEF LinkInv
    <2>3. CASE links'[q] # links[q]
      <3>1. CASE AccessTick
        BY <2>3, <3>1 DEF AccessTick
      <3>2. CASE Requesting
        <4>1. PICK g \in Grants, d \in Durations : RequestLink(q, g, d)
          BY <1>1, <2>3, <3>2 DEF Requesting, RequestLink
        <4>2. /\ links'[q].grant = g /\ links'[q].stage = "asked" /\ links'[q].timely = FALSE
              /\ grants[g].status = "active" /\ grants[g].provider = "pinata"
          BY <1>1, <4>1 DEF RequestLink
        <4>3. QED
          BY <1>1, <4>2 DEF LinkInv
      <3>3. CASE Linking
        <4>1. LinkSigned(q) \/ LinkRefused(q) \/ LinkLost(q)
          BY <1>1, <2>3, <3>3 DEF Linking, LinkSigned, LinkRefused, LinkLost, Signed
        <4>2. clock + links[q].duration \in Expiries
          BY <2>1 DEF Link, Expiries, TypesOK, AccessTypeOK
        <4>3. links[q].stage \in {"asked", "linked"}
          BY <4>1 DEF LinkSigned, LinkRefused, LinkLost
        <4>4. /\ links'[q].grant = links[q].grant /\ links'[q].timely = links[q].timely
              /\ \/ links'[q].stage = "linked" /\ links'[q].expires = clock + links[q].duration
                 \/ links'[q].stage \in {"refused", "lost"}
          BY <1>1, <4>1 DEF LinkSigned, LinkRefused, LinkLost, Signed, Link
        <4>5. QED
          BY <1>1, <2>1, <4>2, <4>3, <4>4, TimesAreNat DEF LinkInv
      <3>4. QED
        BY <3>1, <3>2, <3>3
    <2>4. QED
      BY <2>2, <2>3
  <1>4. QED
    BY <1>2, <1>3

LEMMA RecordingKeeps ==
    ASSUME TypesOK, AccessTypeOK', AccessInv, AccessNext, UNCHANGED protectionVars, Recording
    PROVE  (\A g \in Grants : GrantInv(g)') /\ (\A r \in Requests : LinkInv(r)')
  <1>1. PICK r \in Requests : RecordLink(r)
    BY DEF Recording
  <1>2. /\ grants \in [Grants -> Grant] /\ links \in [Requests -> Link]
        /\ UNCHANGED <<revocations, enforcing, files>>
    BY <1>1, AccessTypes DEF TypesOK, RecordLink
  <1>3. links[r] \in Link /\ links[r].grant \in Grants /\ links[r].expires \in {0} \cup Expiries
    BY <1>2 DEF Link
  <1> DEFINE g == links[r].grant
  <1>4. grants[g] \in Grant /\ grants[g].outstanding \in {0} \cup Expiries
    BY <1>2, <1>3 DEF Grant
  <1>5. /\ SameGrant(g) /\ grants'[g].outstanding = LaterExpiry(grants[g].outstanding, links[r].expires)
        /\ \A d \in Grants \ {g} : grants'[d] = grants[d]
    BY <1>1, <1>2, <1>3, <1>4 DEF RecordLink, WithOutstanding, SameGrant, Grant
  <1>6. /\ grants'[g].outstanding >= grants[g].outstanding
        /\ grants'[g].outstanding >= links[r].expires
    BY <1>3, <1>4, <1>5, LaterIsExpiry
  <1>7. ASSUME NEW d \in Grants
        PROVE  GrantInv(d)'
    BY <1>2, <1>5, GrantsKept DEF SameGrant
  <1>8. ASSUME NEW q \in Requests
        PROVE  LinkInv(q)'
    <2>1. LinkInv(q) /\ links[q].grant \in Grants
      BY <1>2 DEF AccessInv, Link
    <2>2. CASE q # r
      <3>1. links'[q] = links[q]
        BY <1>1, <1>2, <2>2 DEF RecordLink
      <3>2. CASE links[q].grant # g
        BY <1>2, <1>5, <2>1, <3>1, <3>2 DEF LinkInv
      <3>3. CASE links[q].grant = g
        BY <1>2, <1>5, <1>6, <2>1, <3>1, <3>3, LinkKept DEF TypesOK
      <3>4. QED
        BY <3>2, <3>3
    <2>3. CASE q = r
      <3>1. /\ links'[r].stage = "recorded" /\ links'[r].grant = g /\ links'[r].expires = links[r].expires
            /\ links'[r].timely = TRUE => grants[g].status = "active"
            /\ links[r].stage = "linked"
        BY <1>1, <1>2, <1>3 DEF RecordLink, Link
      <3>2. QED
        BY <1>2, <1>5, <1>6, <2>1, <2>3, <3>1 DEF LinkInv, SameGrant
    <2>4. QED
      BY <2>2, <2>3
  <1>9. QED
    BY <1>7, <1>8

-----------------------------------------------------------------------------
(* The invariant of both.                                                  *)

LEMMA TypesInit == ProtectedAccessInit => TypesOK
  <1> SUFFICES ASSUME ProtectedAccessInit PROVE TypesOK
    OBVIOUS
  <1>1. ProtectionTypeOK
    BY DEF ProtectedAccessInit, ProtectionInit, ProtectionTypeOK, ResourceStates, Stages, Mishaps
  <1>2. NoGrant \in Grant
    BY AccessAssumption DEF NoGrant, Grant, Providers
  <1>3. NoLink \in Link
    BY AccessAssumption DEF NoLink, Link
  <1>4. [reason |-> "any other", at |-> 0, enforcement |-> Undetermined] \in Revocation
    BY UndeterminedIsEnforcement DEF Revocation, Reasons
  <1>5. [stage |-> "none", floor |-> 0, result |-> Undetermined] \in EnforcingCall
    BY UndeterminedIsEnforcement DEF EnforcingCall, Moments
  <1>6. files \subseteq Files /\ clock \in Times
    <2>1. files = {} /\ clock = 1
      BY DEF ProtectedAccessInit, AccessInit
    <2>2. QED
      BY <2>1, AccessAssumption DEF Times
  <1>7. AccessTypeOK
    BY <1>2, <1>3, <1>4, <1>5, <1>6, AccessTypes DEF ProtectedAccessInit, AccessInit
  <1>8. QED
    BY <1>1, <1>7 DEF TypesOK

LEMMA AccessInvInit == ProtectedAccessInit => AccessInv
  <1> SUFFICES ASSUME ProtectedAccessInit PROVE AccessInv
    OBVIOUS
  <1> USE DEF ProtectedAccessInit, ProtectionInit, AccessInit
  <1>1. \A r \in Files : ResourceInv(r) /\ StoredInv(r)
    BY DEF ResourceInv, StoredInv, At, Pending
  <1>2. \A g \in Grants : GrantInv(g)
    BY DEF GrantInv, NoGrant
  <1>3. \A r \in Requests : LinkInv(r)
    BY DEF LinkInv, NoLink
  <1>4. QED
    BY <1>1, <1>2, <1>3 DEF AccessInv

LEMMA BothStep ==
    ASSUME TypesOK, AccessInv, [ProtectedAccessNext]_protectedAccessVars
    PROVE  TypesOK' /\ AccessInv'
  <1>1. CASE ProtectionNext /\ UNCHANGED accessVars
    <2>1. files' \subseteq Files
      <3>1. PICK r \in Files : ProtectionOf(r)
        BY <1>1 DEF ProtectionNext, ProtectionOf
      <3>2. QED
        BY <3>1, ProtectionFrame DEF TypesOK, ProtectionTypeOK
    <2>2. AccessTypeOK'
      BY <1>1, <2>1 DEF accessVars, TypesOK, AccessTypeOK
    <2>3. ProtectionTypeOK'
      BY <1>1, ProtectionStepInv DEF AccessInv
    <2>4. QED
      BY <1>1, <2>2, <2>3, ProtectionKeepsAccess DEF TypesOK
  <1>2. CASE AccessNext /\ UNCHANGED protectionVars
    <2>1. AccessTypeOK'
      BY <1>2, AccessTypeStep DEF TypesOK
    <2>2. ProtectionTypeOK'
      BY <1>2, <2>1 DEF protectionVars, TypesOK, ProtectionTypeOK, AccessTypeOK
    <2>3. (\A g \in Grants : GrantInv(g)') /\ (\A r \in Requests : LinkInv(r)')
      BY <1>2, <2>1, IssuingKeeps, RevokingKeeps, EnforcingKeeps, LinkingKeeps, RecordingKeeps, AccessIsOneOf
    <2>4. \A f \in Files : ResourceInv(f)' /\ StoredInv(f)'
      BY <1>2, AccessKeepsResources
    <2>5. QED
      BY <2>1, <2>2, <2>3, <2>4 DEF TypesOK, AccessInv
  <1>3. CASE UNCHANGED protectedAccessVars
    <2>1. UNCHANGED <<files, resources, protecting, clock, grants, revocations, enforcing, links>>
      BY <1>3 DEF protectedAccessVars, protectionVars, accessVars
    <2>2. TypesOK'
      BY <2>1 DEF TypesOK, ProtectionTypeOK, AccessTypeOK
    <2>3. ASSUME NEW r \in Files
          PROVE  ResourceInv(r)' /\ StoredInv(r)'
      <3>1. ResourceInv(r) /\ StoredInv(r)
        BY DEF AccessInv
      <3>2. ResourceInv(r)'
        BY <2>1, <3>1 DEF ResourceInv, At, Pending
      <3>3. StoredInv(r)'
        BY <2>1, <3>1 DEF StoredInv, At, Removed
      <3>4. QED
        BY <3>2, <3>3
    <2>4. \A g \in Grants : GrantInv(g)'
      BY <2>1 DEF AccessInv, GrantInv, Uploaded, Undetermined
    <2>5. \A r \in Requests : LinkInv(r)'
      BY <2>1 DEF AccessInv, LinkInv
    <2>6. QED
      BY <2>2, <2>3, <2>4, <2>5 DEF AccessInv
  <1>4. QED
    BY <1>1, <1>2, <1>3 DEF ProtectedAccessNext

LEMMA BothAlways == ProtectedAccessSpec => [](TypesOK /\ AccessInv)
  <1>1. TypesOK /\ AccessInv /\ [ProtectedAccessNext]_protectedAccessVars => (TypesOK /\ AccessInv)'
    BY BothStep
  <1>2. QED
    BY <1>1, TypesInit, AccessInvInit, PTL DEF ProtectedAccessSpec

-----------------------------------------------------------------------------
\* The resources, the grants and the calls are well typed in every reachable state.
THEOREM AccessTypeCorrect == ProtectedAccessSpec => [](ProtectionTypeOK /\ AccessTypeOK)
  BY BothAlways, PTL DEF TypesOK

\* No ciphertext is left with a provider by a record that denies it, unless the
\* answer to its upload was lost.
THEOREM CiphertextAlwaysAccountedFor == ProtectedAccessSpec => []CiphertextAccountedFor
  <1>1. TypesOK /\ AccessInv => CiphertextAccountedFor
    <2> SUFFICES ASSUME TypesOK, AccessInv, NEW f \in files
                 PROVE  \/ resources[f].state \in {"active", "orphaned"} /\ resources[f].located
                        \/ resources[f].state = "pending"
                        \/ resources[f].state = "failed" /\ protecting[f].mishap \in {"answer lost", "sink threw"}
      BY DEF CiphertextAccountedFor
    <2>1. f \in Files
      BY DEF TypesOK, ProtectionTypeOK
    <2>2. ResourceInv(f) /\ resources[f].state \in ResourceStates
      BY <2>1 DEF AccessInv, TypesOK, ProtectionTypeOK
    <2>3. QED
      BY <2>2 DEF ResourceInv, ResourceStates, At
  <1>2. QED
    BY <1>1, BothAlways, PTL

\* What a caller was told about a resource agrees with what is recorded.
THEOREM AnswersMatchRecords == ProtectedAccessSpec => []AnswerMatchesRecord
  <1>1. AccessInv => AnswerMatchesRecord
    BY DEF AccessInv, ResourceInv, AnswerMatchesRecord
  <1>2. QED
    BY <1>1, BothAlways, PTL

\* No link a revocation knew of outlives the time it records as effective.
THEOREM RevocationNeverEarly == ProtectedAccessSpec => []EffectiveNeverEarly
  <1>1. TypesOK /\ AccessInv => EffectiveNeverEarly
    <2> SUFFICES ASSUME TypesOK, AccessInv, NEW g \in Grants,
                        revocations[g].enforcement # Undetermined,
                        revocations[g].enforcement.effective # 0,
                        clock >= revocations[g].enforcement.effective,
                        NEW r \in Requests, links[r].grant = g, links[r].timely, Works(r)
                 PROVE  FALSE
      BY DEF EffectiveNeverEarly
    <2>1. links[r].timely = TRUE
      BY AccessTypes DEF TypesOK, Link
    <2>2. GrantInv(g) /\ LinkInv(r)
      BY DEF AccessInv
    <2>3. /\ enforcing[g].stage = "over" /\ revocations[g].enforcement = enforcing[g].result
          /\ grants[g].status = "revoked"
      BY <2>2 DEF GrantInv
    <2>4. links[r].expires <= enforcing[g].floor /\ grants[g].provider = "pinata"
      BY <2>1, <2>2, <2>3 DEF LinkInv
    <2>5. grants[g].file \in files /\ clock < links[r].expires
      BY DEF Works
    <2>6. enforcing[g].floor <= enforcing[g].result.effective
      BY <2>2, <2>3, <2>4, <2>5 DEF GrantInv
    <2>7. /\ clock \in Nat /\ links[r].expires \in Nat /\ enforcing[g].floor \in Nat
          /\ enforcing[g].result.effective \in Nat
      BY TimesAreNat DEF TypesOK, AccessTypeOK, Enforcement, Moments
    <2>8. QED
      BY <2>3, <2>4, <2>5, <2>6, <2>7
  <1>2. QED
    BY <1>1, BothAlways, PTL

\* The content of an active resource is never taken, unless it was removed.
THEOREM ActiveAlwaysStored == ProtectedAccessSpec => []ActiveIsStored
  <1>1. AccessInv => ActiveIsStored
    BY DEF AccessInv, StoredInv, ActiveIsStored
  <1>2. QED
    BY <1>1, BothAlways, PTL

\* A revocation is never undone, and what it determined is never rewritten.
THEOREM RevokedStaysRevoked == ProtectedAccessSpec => RevokedForGood
  <1>1. ASSUME TypesOK, AccessInv, [ProtectedAccessNext]_protectedAccessVars
        PROVE  [\A g \in Grants : grants[g].status = "revoked" =>
                   /\ grants'[g].status = "revoked"
                   /\ revocations'[g].reason = revocations[g].reason
                   /\ revocations'[g].at = revocations[g].at
                   /\ revocations[g].enforcement # Undetermined =>
                         revocations'[g].enforcement = revocations[g].enforcement]_accessVars
    <2>1. CASE AccessNext /\ UNCHANGED protectionVars
      <3> SUFFICES ASSUME NEW g \in Grants, grants[g].status = "revoked"
                   PROVE  /\ grants'[g].status = "revoked"
                          /\ revocations'[g].reason = revocations[g].reason
                          /\ revocations'[g].at = revocations[g].at
                          /\ revocations[g].enforcement # Undetermined =>
                                revocations'[g].enforcement = revocations[g].enforcement
        OBVIOUS
      <3>1. grants'[g].status = "revoked" /\ revocations'[g].reason = revocations[g].reason
        BY <1>1, <2>1, AccessFrame DEF SameGrant
      <3>2. GrantInv(g) /\ revocations \in [Grants -> Revocation]
        BY <1>1, AccessTypes DEF AccessInv, TypesOK
      <3>3. CASE AccessTick \/ Issuing \/ Requesting \/ Linking \/ Recording
        BY <3>1, <3>3 DEF AccessTick, Issuing, IssueGrant, Requesting, RequestLink, Linking, LinkSigned,
                          LinkRefused, LinkLost, Recording, RecordLink
      <3>4. CASE Revoking
        BY <3>1, <3>2, <3>4 DEF Revoking, Revoke, Revocable
      <3>5. CASE Enforcing
        <4>1. PICK h \in Grants : EnforcementStep(h) \/ RevocationCut(h)
          BY <3>5 DEF Enforcing
        <4>2. CASE Finalize(h)
          BY <3>1, <3>2, <4>2 DEF Finalize, GrantInv, Revocation
        <4>3. CASE FileDeleted(h) \/ DeletionFails(h) \/ RevocationCut(h)
          BY <3>1, <4>3 DEF FileDeleted, DeletionFails, RevocationCut
        <4>4. QED
          BY <4>1, <4>2, <4>3 DEF EnforcementStep
      <3>6. QED
        BY <2>1, <3>3, <3>4, <3>5, AccessIsOneOf
    <2>2. CASE ~(AccessNext /\ UNCHANGED protectionVars)
      BY <1>1, <2>2 DEF ProtectedAccessNext, protectedAccessVars
    <2>3. QED
      BY <2>1, <2>2
  <1>2. QED
    BY <1>1, BothAlways, PTL DEF ProtectedAccessSpec, RevokedForGood

\* A resource that has settled is never relabelled.
THEOREM SettledStaysSettled == ProtectedAccessSpec => SettledForGood
  <1>1. ASSUME TypesOK, [ProtectedAccessNext]_protectedAccessVars
        PROVE  [\A r \in Files : resources[r].state \in {"active", "failed", "orphaned"} =>
                    resources'[r] = resources[r]]_protectionVars
    <2>1. CASE ProtectionNext
      <3>1. PICK r \in Files : ProtectionOf(r)
        BY <2>1 DEF ProtectionNext, ProtectionOf
      <3>2. resources[r].state \in {"active", "failed", "orphaned"} => resources'[r] = resources[r]
        BY <3>1 DEF ProtectionOf, ProtectionStep, Protect, BindingVerified, BindingOrKeyRefused, KeyWrapped,
                    CiphertextStored, StorageFails, MarkActive, MarkActiveFails, MarkOrphaned, MarkFailed,
                    Relabelled, ProtectionCut, Pending
      <3>3. QED
        BY <1>1, <3>1, <3>2, ProtectionFrame
    <2>2. CASE UNCHANGED protectionVars
      BY <2>2
    <2>3. QED
      BY <1>1, <2>1, <2>2 DEF ProtectedAccessNext, protectedAccessVars
  <1>2. QED
    BY <1>1, BothAlways, PTL DEF ProtectedAccessSpec, SettledForGood
=============================================================================
