----------------------- MODULE CollateralizationGovernance -----------------------
(***************************************************************************)
(* The COLLATERALIZE service of src/enterprise/collateralization-          *)
(* governance: what is done under a mandate.  A reported arrangement is    *)
(* committed to the mandate store as evidence first; then, right by right, *)
(* a constraint is recorded in the Governed Authority Store and takes over *)
(* the mandate's reservation once it covers it.  A report is never taken   *)
(* twice, and there is no recovery call: what the first one left undone    *)
(* stays undone.  Reported releases of an arrangement are observations the *)
(* service keeps beside the mandate and are not represented; the release   *)
(* of a constraint is the store's.                                         *)
(***************************************************************************)
EXTENDS MandateIssuance

VARIABLES
    pledges,    \* the execution evidence of the mandate store, or None
    encumbering \* the rights a report in flight has still to constrain

pledgeVars == <<pledges, encumbering>>
collateralVars == <<vars, issuanceVars, pledgeVars>>

\* When the arrangement was made, by its report, and when it was recorded.
Pledge == [mandate : Mandates, rights : RightLists, scope : Requestable, at : Instants, recorded : Nat]

ASSUME PledgeAssumption == None \notin Pledge

CollateralTypeOK ==
    /\ IssuanceTypeOK
    /\ pledges \in [Arrangements -> Pledge \cup {None}]
    /\ encumbering \in [Arrangements -> Seq(Rights)]

CollateralInit ==
    /\ IssuanceInit
    /\ pledges = [e \in Arrangements |-> None]
    /\ encumbering = [e \in Arrangements |-> << >>]

-----------------------------------------------------------------------------
(* recordExecution.                                                        *)

CommittedUnder(m) ==
    SumFunction([i \in DOMAIN mandates[m].log |-> pledges[mandates[m].log[i]].scope.qty])

\* Compares each instalment with the mandate, and not what is committed already.
PledgeAuthorizedFaulty(m, rights, s, at) ==
    LET t == requests[m].terms
    IN  /\ mandates[m].status = "active"
        /\ requests[m].from <= at /\ at < requests[m].until
        /\ RightsOf(rights) \subseteq RightsOf(t.rights)
        /\ Within(s, t.scope)
        /\ ~t.additional => mandates[m].log = << >>

\* enterpriseCollateralizationMandateAuthorizes, on the instant the report claims.
PledgeAuthorized(m, rights, s, at) ==
    LET t == requests[m].terms
    IN  /\ mandates[m].status = "active"
        /\ requests[m].from <= at /\ at < requests[m].until
        /\ RightsOf(rights) \subseteq RightsOf(t.rights)
        /\ Within(s, t.scope)
        /\ ~t.additional => mandates[m].log = << >>
        /\ CommittedUnder(m) + s.qty <= t.scope.qty

ReportPledge(e, m, rights, s, at) ==
    /\ mandates[m] # None
    /\ requests[m].terms.action = "COLLATERALIZE"
    /\ pledges[e] = None
    /\ PledgeAuthorized(m, rights, s, at)
    /\ pledges' = [pledges EXCEPT ![e] =
           [mandate |-> m, rights |-> rights, scope |-> s, at |-> at, recorded |-> now]]
    /\ mandates' = [mandates EXCEPT ![m].log = Append(@, e)]
    /\ encumbering' = [encumbering EXCEPT ![e] = rights]
    /\ UNCHANGED vars /\ UNCHANGED <<requests, revoking>>

\* Whose authority is constrained is read from the mandate's commitment,
\* whatever became of it.
Commitment(e) == reservations[<<pledges[e].mandate, Head(encumbering[e])>>]

\* Constrains what the mandate may commit, not what this arrangement did.
ConstrainNextFaulty(e) ==
    LET v == pledges[e]
    IN  RecordEncumbrance(e, v.mandate, Head(encumbering[e]), Commitment(e).holder,
                          requests[v.mandate].terms.scope, v.at)

ConstrainNext(e) ==
    LET v == pledges[e]
    IN  RecordEncumbrance(e, v.mandate, Head(encumbering[e]), Commitment(e).holder, v.scope, v.at)

Constrain(e) ==
    /\ encumbering[e] # << >>
    /\ Commitment(e) # None
    /\ ConstrainNext(e)
    /\ encumbering' = [encumbering EXCEPT ![e] = Tail(@)]
    /\ UNCHANGED issuanceVars /\ UNCHANGED pledges

\* The right was never committed, or the report repeats it.
ConstrainPassed(e) ==
    /\ encumbering[e] # << >>
    /\ Commitment(e) = None \/ encumbrances[<<e, Head(encumbering[e])>>] # None
    /\ encumbering' = [encumbering EXCEPT ![e] = Tail(@)]
    /\ UNCHANGED vars /\ UNCHANGED issuanceVars /\ UNCHANGED pledges

\* The store refuses the constraint, or the call dies first.
ConstrainLost(e) ==
    /\ encumbering[e] # << >>
    /\ encumbering' = [encumbering EXCEPT ![e] = << >>]
    /\ UNCHANGED vars /\ UNCHANGED issuanceVars /\ UNCHANGED pledges

-----------------------------------------------------------------------------
Pledging ==
    \E e \in Arrangements, m \in Mandates, rights \in RightLists, s \in Requestable, at \in Instants :
        ReportPledge(e, m, rights, s, at)

Arrange == Pledging \/ \E e \in Arrangements : Constrain(e) \/ ConstrainPassed(e) \/ ConstrainLost(e)

CollateralNext ==
    \/ (Environment \/ Submission(CollateralTerms)) /\ UNCHANGED pledgeVars
    \/ \E m \in Mandates : MandateStep(m) /\ UNCHANGED pledgeVars
    \/ Discharge /\ UNCHANGED issuanceVars /\ UNCHANGED pledgeVars
    \/ Arrange

CollateralSpec == CollateralInit /\ [][CollateralNext]_collateralVars

-----------------------------------------------------------------------------
(* Safety.                                                                 *)

\* A constraint exists only for an arrangement that was reported, over a right
\* it names, for what it committed and from when, against the holder whose
\* authority the mandate was issued on.
ConstrainedOnEvidence(c) ==
    LET x == encumbrances[c]
        v == pledges[c[1]]
    IN  /\ v # None
        /\ v.mandate = x.mandate /\ v.scope = x.scope /\ v.at = x.from
        /\ c[2] \in RightsOf(v.rights)
        /\ requests[v.mandate].terms.from = x.holder

ConstraintsFollowEvidence == \A c \in Claims : encumbrances[c] # None => ConstrainedOnEvidence(c)

\* The constraints of one mandate over one right, released ones too, never
\* total more than it was permitted to commit: a release is no fresh headroom.
ConstrainedWithinMandate ==
    \A m \in Mandates, r \in Rights : mandates[m] # None =>
        EncumberedQty({c \in Claims : c[2] = r /\ encumbrances[c] # None /\ encumbrances[c].mandate = m})
          <= requests[m].terms.scope.qty

\* An arrangement that exists outside, reported while its mandate's commitment
\* still stands, can be recorded: whatever other mandates have reserved and
\* encumbered since, the instalments still to come have kept their room.  (A
\* right the report repeats is recorded already, and is answered from that.)
PledgeHasRoom ==
    \A e \in Arrangements : encumbering[e] # << >> =>
        LET m == pledges[e].mandate
            r == Head(encumbering[e])
            h == requests[m].terms.from
        IN  (/\ encumbrances[<<e, r>>] = None
             /\ <<m, r>> \in Standing(h, r, now)
             /\ ~Overcommitted(h, r, {}, now)) =>
                HasCapacity(h, r, Surrendered(m, h, r), now, pledges[e].scope)

\* An arrangement reported in time whose constraint was not recorded still keeps
\* its capacity unavailable, through the reservation that was to become it.
UnrecordedStaysHeld ==
    \A e \in Arrangements : (pledges[e] # None /\ encumbering[e] = << >>) =>
        LET m == pledges[e].mandate
        IN  pledges[e].recorded < requests[m].until =>
                \A r \in RightsOf(pledges[e].rights) \cap RightsOf(requests[m].acquired) :
                    \/ encumbrances[<<e, r>>] # None
                    \/ <<m, r>> \in Standing(requests[m].terms.from, r, now)

=============================================================================
