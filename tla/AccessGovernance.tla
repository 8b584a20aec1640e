----------------------------- MODULE AccessGovernance ------------------------------
(***************************************************************************)
(* src/enterprise/access-governance: access grants, the provider links     *)
(* requested under them, and their revocation.  A link cannot be called    *)
(* back: it works until it expires, or its file is deleted.  A revocation  *)
(* is therefore durable first, then determines from when it is effective,  *)
(* deleting the file only when the resource itself is removed, and records *)
(* that.                                                                   *)
(*                                                                         *)
(* Every await is a step of its own, at which the call may be cut.  Times  *)
(* are 1..MaxTime; 0 stands for a time that is not recorded.               *)
(***************************************************************************)
EXTENDS StorageProvider, Integers

CONSTANTS
    Grants,         \* access grants
    Requests,       \* calls of requestProviderCredential
    Durations,      \* how long a link may be asked for
    MaxTime         \* bound on the clock

ASSUME AccessAssumption ==
    /\ MaxTime \in Nat \ {0} /\ Durations \subseteq Nat \ {0}
    /\ Files # {} /\ Grants # {} /\ Durations # {}

VARIABLES
    clock,
    grants,         \* the store: the grants
    revocations,    \* the store: the revocation of each, with its enforcement
    enforcing,      \* the call that revokes a grant, between its two writes
    links           \* the call that requests a link, and external: its link

accessVars == <<clock, grants, revocations, enforcing, links>>

Times == 1..MaxTime

\* A link may expire after the last instant of the clock.
Expiries == {t + d : t \in Times, d \in Durations}

Providers == {"pinata", "other", "none"}
Reasons == {"resource-removed", "any other"}
Modes == {"unknown", "unsupported", "ttl_bounded", "resource_wide"}

\* handle: the provider's own identifier of the file is recorded in the grant.
Grant == [status : {"none", "active", "revoked"}, provider : Providers, handle : BOOLEAN,
          file : Files, outstanding : {0} \cup Expiries]

Enforcement == [mode : Modes, effective : {0} \cup Times \cup Expiries]

AccessTypeOK ==
    /\ files \subseteq Files
    /\ clock \in Times
    /\ grants \in [Grants -> Grant]
    /\ revocations \in [Grants -> [reason : Reasons, at : {0} \cup Times, enforcement : Enforcement]]
    /\ enforcing \in [Grants -> [stage : {"none", "deleting", "determined", "over", "cut"},
                                 floor : {0} \cup Times \cup Expiries, result : Enforcement]]
    /\ links \in [Requests -> [stage : {"idle", "asked", "linked", "recorded", "lost", "refused"},
                               grant : Grants, duration : Durations,
                               expires : {0} \cup Expiries, timely : BOOLEAN]]

\* The placeholder beginRevocation records.
Undetermined == [mode |-> "unknown", effective |-> 0]

\* What is not there has the first of everything.
NoGrant == [status |-> "none", provider |-> "none", handle |-> FALSE,
            file |-> CHOOSE f \in Files : TRUE, outstanding |-> 0]

NoLink == [stage |-> "idle", grant |-> CHOOSE g \in Grants : TRUE, duration |-> CHOOSE d \in Durations : TRUE,
           expires |-> 0, timely |-> FALSE]

AccessInit ==
    /\ clock = 1
    /\ grants = [g \in Grants |-> NoGrant]
    /\ revocations = [g \in Grants |-> [reason |-> "any other", at |-> 0, enforcement |-> Undetermined]]
    /\ enforcing = [g \in Grants |-> [stage |-> "none", floor |-> 0, result |-> Undetermined]]
    /\ links = [r \in Requests |-> NoLink]

IssueGrant(g, provider, handle, f) ==
    /\ grants[g].status = "none"
    /\ f \in files
    /\ grants' = [grants EXCEPT ![g] = [status |-> "active", provider |-> provider,
                                        handle |-> handle, file |-> f, outstanding |-> 0]]
    /\ UNCHANGED <<files, clock, revocations, enforcing, links>>

-----------------------------------------------------------------------------
(* requestProviderCredential.                                              *)

RequestLink(r, g, duration) ==
    /\ links[r].stage = "idle"
    /\ grants[g].status = "active"
    /\ grants[g].provider = "pinata"
    /\ links' = [links EXCEPT ![r] = [stage |-> "asked", grant |-> g, duration |-> duration,
                                      expires |-> 0, timely |-> FALSE]]
    /\ UNCHANGED <<files, clock, grants, revocations, enforcing>>

\* External: the provider signs a link; the expiry is counted from its answer.
Signed(r, stage) ==
    links' = [links EXCEPT ![r].stage = stage, ![r].expires = clock + links[r].duration]

LinkSigned(r) ==
    /\ links[r].stage = "asked"
    /\ Signed(r, "linked")
    /\ UNCHANGED <<files, clock, grants, revocations, enforcing>>

LinkRefused(r) ==
    /\ links[r].stage = "asked"
    /\ links' = [links EXCEPT ![r].stage = "refused"]
    /\ UNCHANGED <<files, clock, grants, revocations, enforcing>>

\* Keeps the expiry of the link issued last.
LaterExpiryFaulty(a, b) == b

\* laterExpiry.
LaterExpiry(a, b) == IF b > a THEN b ELSE a

WithOutstanding(g, expires) == [grants EXCEPT ![g].outstanding = LaterExpiry(@, expires)]

\* The grant's status is not looked at again: timely tells, for the properties,
\* whether the link was on record before the grant was revoked.
RecordLink(r) ==
    /\ links[r].stage = "linked"
    /\ grants' = WithOutstanding(links[r].grant, links[r].expires)
    /\ links' = [links EXCEPT ![r].stage = "recorded", ![r].timely = grants[links[r].grant].status = "active"]
    /\ UNCHANGED <<files, clock, revocations, enforcing>>

\* The call dies, or the answer or the write is lost: the link is never recorded.
LinkLost(r) ==
    /\ \/ links[r].stage = "asked" /\ Signed(r, "lost")
       \/ links[r].stage = "linked" /\ links' = [links EXCEPT ![r].stage = "lost"]
    /\ UNCHANGED <<files, clock, grants, revocations, enforcing>>

-----------------------------------------------------------------------------
(* revokeGrant.                                                            *)

\* The latest expiry recorded by now, or the time of the revocation.
Floor(g, at) == IF grants[g].outstanding = 0 THEN at ELSE grants[g].outstanding

\* Deletes the file whatever the reason for the revocation is.
DeletesFaulty(g, reason) == grants[g].provider = "pinata" /\ grants[g].handle

\* Only a removed resource is deleted, and only when its handle is known.
Deletes(g, reason) ==
    grants[g].provider = "pinata" /\ reason = "resource-removed" /\ grants[g].handle

\* The determination that asks nothing of the provider.
Determination(g, at) ==
    CASE grants[g].provider = "pinata" -> [mode |-> "ttl_bounded", effective |-> Floor(g, at)]
      [] grants[g].provider = "none"   -> [mode |-> "unknown", effective |-> at]
      [] OTHER                         -> [mode |-> "unsupported", effective |-> 0]

\* A grant that is already revoked is answered with its revocation.
Revocable(g) == grants[g].status = "active"

\* beginRevocation, one transaction; the enforcement goes by the grant as it was.
Revoke(g, reason, at) ==
    /\ Revocable(g)
    /\ grants' = [grants EXCEPT ![g].status = "revoked"]
    /\ revocations' = [revocations EXCEPT ![g] = [reason |-> reason, at |-> at, enforcement |-> Undetermined]]
    /\ enforcing' = [enforcing EXCEPT ![g] =
          IF Deletes(g, reason)
            THEN [stage |-> "deleting", floor |-> Floor(g, at), result |-> Undetermined]
            ELSE [stage |-> "determined", floor |-> Floor(g, at), result |-> Determination(g, at)]]
    /\ UNCHANGED <<files, clock, links>>

Determined(g, mode, effective) ==
    enforcing' = [enforcing EXCEPT ![g].stage = "determined",
                                   ![g].result = [mode |-> mode, effective |-> effective]]

FileDeleted(g) ==
    /\ enforcing[g].stage = "deleting"
    /\ Delete(grants[g].file)
    /\ Determined(g, "resource_wide", clock)
    /\ UNCHANGED <<clock, grants, revocations, links>>

\* Falls back on the links' expiry, though the file may be gone.
DeletionFails(g) ==
    /\ enforcing[g].stage = "deleting"
    /\ Perhaps(Delete(grants[g].file))
    /\ Determined(g, "ttl_bounded", enforcing[g].floor)
    /\ UNCHANGED <<clock, grants, revocations, links>>

\* Records a determination only when it names a time.
FinalizeFaulty(g) ==
    /\ enforcing[g].stage = "determined"
    /\ enforcing[g].result.effective # 0
    /\ revocations' = [revocations EXCEPT ![g].enforcement = enforcing[g].result]
    /\ enforcing' = [enforcing EXCEPT ![g].stage = "over"]
    /\ UNCHANGED <<files, clock, grants, links>>

\* finalizeRevocationEnforcement.
Finalize(g) ==
    /\ enforcing[g].stage = "determined"
    /\ revocations' = [revocations EXCEPT ![g].enforcement = enforcing[g].result]
    /\ enforcing' = [enforcing EXCEPT ![g].stage = "over"]
    /\ UNCHANGED <<files, clock, grants, links>>

\* The call dies, or the second write fails: the placeholder stays, for good.
RevocationCut(g) ==
    /\ \/ enforcing[g].stage = "deleting" /\ Perhaps(Delete(grants[g].file))
       \/ enforcing[g].stage = "determined" /\ UNCHANGED files
    /\ enforcing' = [enforcing EXCEPT ![g].stage = "cut"]
    /\ UNCHANGED <<clock, grants, revocations, links>>

AccessTick ==
    /\ clock < MaxTime
    /\ clock' = clock + 1
    /\ UNCHANGED <<files, grants, revocations, enforcing, links>>

-----------------------------------------------------------------------------
EnforcementStep(g) == FileDeleted(g) \/ DeletionFails(g) \/ Finalize(g)

AccessNext ==
    \/ AccessTick
    \/ \E g \in Grants :
          \/ \E p \in Providers, h \in BOOLEAN, f \in Files : IssueGrant(g, p, h, f)
          \/ \E reason \in Reasons, at \in Times : Revoke(g, reason, at)
          \/ EnforcementStep(g)
          \/ RevocationCut(g)
    \/ \E r \in Requests :
          \/ \E g \in Grants, d \in Durations : RequestLink(r, g, d)
          \/ LinkSigned(r) \/ LinkRefused(r) \/ RecordLink(r) \/ LinkLost(r)

-----------------------------------------------------------------------------
(* Properties.                                                             *)

Works(r) ==
    /\ links[r].stage \in {"linked", "recorded", "lost"}
    /\ clock < links[r].expires
    /\ grants[links[r].grant].file \in files

\* From the time a revocation records as effective, no link under the grant works
\* that was on record when the grant was revoked.  The links that do outlive that
\* time were asked for before the revocation and recorded after it, or never.
EffectiveNeverEarly ==
    \A g \in Grants :
        LET e == revocations[g].enforcement
        IN  (e # Undetermined /\ e.effective # 0 /\ clock >= e.effective) =>
                \A r \in Requests : links[r].grant = g /\ links[r].timely => ~Works(r)

\* A revoked grant stays revoked, and what its revocation says stays said: why, from
\* when, and, once determined, with what effect; whatever calls were in flight.
RevokedForGood ==
    [][\A g \in Grants : grants[g].status = "revoked" =>
          /\ grants'[g].status = "revoked"
          /\ revocations'[g].reason = revocations[g].reason
          /\ revocations'[g].at = revocations[g].at
          /\ revocations[g].enforcement # Undetermined =>
                revocations'[g].enforcement = revocations[g].enforcement]_accessVars

\* A revocation gets its determination, unless its call is cut.
RevocationDetermined ==
    \A g \in Grants : (grants[g].status = "revoked") ~> (enforcing[g].stage \in {"over", "cut"})
=============================================================================
