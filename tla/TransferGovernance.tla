--------------------------- MODULE TransferGovernance ---------------------------
(***************************************************************************)
(* The TRANSFER service of src/enterprise/transfer-governance: what is     *)
(* done under a mandate.  A report commits execution evidence to the       *)
(* mandate store first and moves authority in the Governed Authority Store *)
(* afterwards; recovery applies the evidence whose movement was lost.      *)
(* Lifecycle reports and the references appended to the Governance Store   *)
(* are not represented.                                                    *)
(***************************************************************************)
EXTENDS MandateIssuance

CONSTANT EffectiveInstants  \* bound: the instants reports claim to take effect at

ASSUME EffectiveAssumption == EffectiveInstants \subseteq Instants

VARIABLES
    evidence,   \* the execution evidence of the mandate store, or None
    applying    \* reports whose evidence is committed and whose movement is next

movementVars == <<evidence, applying>>
transferVars == <<vars, issuanceVars, movementVars>>

Evidence == [mandate : Mandates, rights : RightLists, scope : Requestable, at : Instants]

ASSUME EvidenceAssumption == None \notin Evidence

TransferTypeOK ==
    /\ IssuanceTypeOK
    /\ evidence \in [Executions -> Evidence \cup {None}]
    /\ applying \subseteq Executions

TransferInit ==
    /\ IssuanceInit
    /\ evidence = [e \in Executions |-> None]
    /\ applying = {}

-----------------------------------------------------------------------------
(* recordExecution and reconcileAuthorityTransitions.                      *)

MovedUnder(m) ==
    SumFunction([i \in DOMAIN mandates[m].log |-> evidence[mandates[m].log[i]].scope.qty])

\* Compares each movement with the mandate, and not what has moved already.
AuthorizesFaulty(m, rights, s, executedAt) ==
    LET t == requests[m].terms
    IN  /\ mandates[m].status = "active"
        /\ requests[m].from <= executedAt /\ executedAt < requests[m].until
        /\ RightsOf(rights) \subseteq RightsOf(t.rights)
        /\ Within(s, t.scope)
        /\ ~t.partial => mandates[m].log = << >> /\ s = t.scope

\* enterpriseTransferMandateAuthorizes, on the instant the report claims.
Authorizes(m, rights, s, executedAt) ==
    LET t == requests[m].terms
    IN  /\ mandates[m].status = "active"
        /\ requests[m].from <= executedAt /\ executedAt < requests[m].until
        /\ RightsOf(rights) \subseteq RightsOf(t.rights)
        /\ Within(s, t.scope)
        /\ ~t.partial => mandates[m].log = << >> /\ s = t.scope
        /\ MovedUnder(m) + s.qty <= t.scope.qty

\* The evidence names when it took effect, at, which nothing compares with
\* the instant the movement is reported or the mandate's window.
Report(e, m, rights, s, at) ==
    /\ mandates[m] # None
    /\ requests[m].terms.action = "TRANSFER"
    /\ evidence[e] = None
    /\ \E executedAt \in Instants : Authorizes(m, rights, s, executedAt)
    /\ evidence' = [evidence EXCEPT ![e] = [mandate |-> m, rights |-> rights, scope |-> s, at |-> at]]
    /\ mandates' = [mandates EXCEPT ![m].log = Append(@, e)]
    /\ applying' = applying \cup {e}
    /\ UNCHANGED vars /\ UNCHANGED <<requests, revoking>>

\* Moves what was permitted to move, not what moved.
ApplyEvidenceFaulty(e) ==
    LET v == evidence[e]
        t == requests[v.mandate].terms
    IN  ApplyTransition(e, v.mandate, t.rights, t.from, t.to, t.scope, v.at)

ApplyEvidence(e) ==
    LET v == evidence[e]
        t == requests[v.mandate].terms
    IN  ApplyTransition(e, v.mandate, v.rights, t.from, t.to, v.scope, v.at)

Apply(e) ==
    /\ e \in applying
    /\ ApplyEvidence(e)
    /\ applying' = applying \ {e}
    /\ UNCHANGED issuanceVars /\ UNCHANGED evidence

\* The store refuses the movement, has it already, or the call dies first.
ApplyLost(e) ==
    /\ e \in applying
    /\ applying' = applying \ {e}
    /\ UNCHANGED vars /\ UNCHANGED issuanceVars /\ UNCHANGED evidence

\* The executions of a mandate are repaired in order; the first that cannot be
\* applied ends the call.
Reconcile(m) ==
    /\ mandates[m] # None
    /\ requests[m].terms.action = "TRANSFER"
    /\ \E i \in DOMAIN mandates[m].log :
          /\ \A j \in 1..(i - 1) : Applied(mandates[m].log[j])
          /\ ApplyEvidence(mandates[m].log[i])
    /\ UNCHANGED issuanceVars /\ UNCHANGED movementVars

-----------------------------------------------------------------------------
Reporting ==
    \E e \in Executions, m \in Mandates, rights \in RightLists, s \in Requestable,
       at \in EffectiveInstants :
        Report(e, m, rights, s, at)

Exercise ==
    \/ Reporting
    \/ \E e \in Executions : Apply(e) \/ ApplyLost(e)
    \/ \E m \in Mandates : Reconcile(m)

TransferNext ==
    \/ (Environment \/ Submission(TransferTerms)) /\ UNCHANGED movementVars
    \/ \E m \in Mandates : MandateStep(m) /\ UNCHANGED movementVars
    \/ Exercise

TransferSpec == TransferInit /\ [][TransferNext]_transferVars

\* Calls in flight take their next step, a caller whose revocation did not
\* finish repeats it, and not every repetition dies before its first release.
\* Nothing is assumed of new requests, reports or the clock.
TransferFairness ==
    \A m \in Mandates :
        /\ WF_transferVars(RequestStep(m) /\ UNCHANGED movementVars)
        /\ WF_transferVars(RevokeAgain(m) /\ UNCHANGED movementVars)
        /\ SF_transferVars(ReleaseHeld(m) /\ UNCHANGED movementVars)

FairTransferSpec == TransferSpec /\ TransferFairness

-----------------------------------------------------------------------------
(* Safety.                                                                 *)

\* Authority never moves without evidence behind it, and what moves is what
\* the evidence says, between the parties and for rights the request named.
MovedOnEvidence(i) ==
    LET t == transitions[i]
        v == evidence[t.execution]
    IN  /\ v # None
        /\ v.mandate = t.mandate /\ v.scope = t.scope /\ t.right \in RightsOf(v.rights)
        /\ requests[v.mandate].terms.from = t.from
        /\ requests[v.mandate].terms.to = t.to

AuthorityFollowsEvidence ==
    \A i \in DOMAIN transitions : transitions[i].execution # None => MovedOnEvidence(i)

\* However a mandate is exercised (in parts, late, by recovery, twice at once)
\* it never moves more of a right than its terms.
MovedWithinMandate ==
    \A m \in Mandates, r \in Rights : mandates[m] # None =>
        LoggedQty({i \in DOMAIN transitions : transitions[i].mandate = m /\ transitions[i].right = r})
          <= requests[m].terms.scope.qty

-----------------------------------------------------------------------------
(* What the properties of GovernedActions say of a movement.               *)

\* The reservation a movement of m relies on, standing when it is applied.
Promised(m, r) == <<m, r>> \in Standing(requests[m].terms.from, r, now)

JustApplied(e) == ~Applied(e) /\ Applied(e)'
=============================================================================
