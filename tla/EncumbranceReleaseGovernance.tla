---------------------- MODULE EncumbranceReleaseGovernance ----------------------
(***************************************************************************)
(* The RELEASE_ENCUMBRANCE service of src/enterprise/encumbrance-release-  *)
(* governance.  A mandate authorizes the discharge of one constraint; an   *)
(* external executor discharges the arrangement behind it; what the        *)
(* executor confirms becomes evidence in the mandate store and spends the  *)
(* mandate; only then is the constraint terminalized in the Governed       *)
(* Authority Store.  The three stores share no transaction: between any    *)
(* two of these steps other calls run, the mandate may be revoked, an      *)
(* administrator may release the constraint, and the call may die.         *)
(*                                                                         *)
(* The executor is external.  It is taken to keep the promise of its port: *)
(* at most one discharge for each idempotency key, which the service       *)
(* derives from the mandate.  Its answer may be lost.                      *)
(***************************************************************************)
EXTENDS GovernedAuthorityStore

VARIABLES
    authorizing,    \* the request a release mandate was minted for, or None
    releases,       \* the mandate store: the mandates
    evidence,       \* the mandate store: what each execution reported, or None
    attempts,       \* the executions whose call is in flight, and how far they got
    discharged      \* external: the mandates whose key the executor has acted on

releaseVars == <<authorizing, releases, evidence, attempts, discharged>>
governedReleaseVars == <<vars, releaseVars>>

Outcomes == {"confirmed_success", "confirmed_failure", "indeterminate"}

Authorization == [claim : Claims, from : Nat, until : Nat, open : BOOLEAN]

ReleaseMandate == [claim : Claims, from : Nat, until : Nat,
                   status : {"active", "executed", "revoked"}]

Evidence == [mandate : ReleaseMandates, outcome : Outcomes]

Attempt == [mandate : ReleaseMandates, phase : {"asking", "recording", "terminalizing"},
            outcome : Outcomes]

ReleaseTypeOK ==
    /\ TypeOK
    /\ authorizing \in [ReleaseMandates -> Authorization \cup {None}]
    /\ releases \in [ReleaseMandates -> ReleaseMandate \cup {None}]
    /\ evidence \in [ReleaseExecutions -> Evidence \cup {None}]
    /\ attempts \in [ReleaseExecutions -> Attempt \cup {None}]
    /\ discharged \subseteq ReleaseMandates

ASSUME ReleaseNoneAssumption ==
    None \notin Authorization \cup ReleaseMandate \cup Evidence \cup Attempt

ReleaseInit ==
    /\ Init
    /\ authorizing = [m \in ReleaseMandates |-> None]
    /\ releases = [m \in ReleaseMandates |-> None]
    /\ evidence = [x \in ReleaseExecutions |-> None]
    /\ attempts = [x \in ReleaseExecutions |-> None]
    /\ discharged = {}

Stands(c) == encumbrances[c] # None /\ encumbrances[c].status = "active"

-----------------------------------------------------------------------------
(* requestEncumbranceRelease: the target is read, the Kernel allows, the   *)
(* evaluation is stored, and some awaits later the mandate is issued.      *)

Ask(m, c, until) ==
    /\ authorizing[m] = None
    /\ Stands(c)
    /\ authorizing' = [authorizing EXCEPT ![m] =
           [claim |-> c, from |-> now, until |-> until, open |-> TRUE]]
    /\ UNCHANGED vars /\ UNCHANGED <<releases, evidence, attempts, discharged>>

Authorizing(m) == authorizing[m] # None /\ authorizing[m].open

\* Variants named ...Faulty are mistakes an implementation could make; no action
\* uses one.  This one lets every request have its own mandate.
AlreadyAuthorizedFaulty(c) == FALSE

\* A live mandate over the constraint; an expired one stays live until revoked.
AlreadyAuthorized(c) ==
    \E m \in ReleaseMandates :
        releases[m] # None /\ releases[m].status = "active" /\ releases[m].claim = c

IssueRelease(m) ==
    /\ Authorizing(m)
    /\ ~AlreadyAuthorized(authorizing[m].claim)
    /\ authorizing' = [authorizing EXCEPT ![m].open = FALSE]
    /\ releases' = [releases EXCEPT ![m] =
           [claim |-> authorizing[m].claim, from |-> authorizing[m].from,
            until |-> authorizing[m].until, status |-> "active"]]
    /\ UNCHANGED vars /\ UNCHANGED <<evidence, attempts, discharged>>

\* The store refuses, or the call dies: a repeat of the request is answered
\* from the stored evaluation and finds no mandate.
AskLost(m) ==
    /\ Authorizing(m)
    /\ authorizing' = [authorizing EXCEPT ![m].open = FALSE]
    /\ UNCHANGED vars /\ UNCHANGED <<releases, evidence, attempts, discharged>>

(* revokeMandate: only a live mandate; the constraint is not touched.      *)

RevokeRelease(m) ==
    /\ releases[m] # None
    /\ releases[m].status = "active"
    /\ releases' = [releases EXCEPT ![m].status = "revoked"]
    /\ UNCHANGED vars /\ UNCHANGED <<authorizing, evidence, attempts, discharged>>

-----------------------------------------------------------------------------
(* executeEncumbranceRelease.                                              *)

Executable(m, at) ==
    /\ releases[m] # None
    /\ releases[m].status = "active"
    /\ releases[m].from <= at /\ at < releases[m].until

\* The instant is the caller's.  An execution id may be used for a retry.
Execute(x, m, at) ==
    /\ attempts[x] = None
    /\ Executable(m, at)
    /\ Stands(releases[m].claim)
    /\ attempts' = [attempts EXCEPT ![x] =
           [mandate |-> m, phase |-> "asking", outcome |-> "indeterminate"]]
    /\ UNCHANGED vars /\ UNCHANGED <<authorizing, releases, evidence, discharged>>

InAttempt(x, phase) == attempts[x] # None /\ attempts[x].phase = phase

\* What the executor may have done by the time its call ends, and what the
\* service makes of the answer.  A call that threw, or timed out, may have
\* reached the provider; a confirmation about another constraint is recorded
\* as a failure.
Answers(m) ==
    [outcome : {"confirmed_success"}, acted : {TRUE}]
      \cup [outcome : {"indeterminate"}, acted : BOOLEAN]
      \cup [outcome : {"confirmed_failure"}, acted : {m \in discharged}]

ExecutorAnswers(x) ==
    /\ InAttempt(x, "asking")
    /\ \E answer \in Answers(attempts[x].mandate) :
          /\ attempts' = [attempts EXCEPT ![x].phase = "recording", ![x].outcome = answer.outcome]
          /\ discharged' = discharged \cup (IF answer.acted THEN {attempts[x].mandate} ELSE {})
    /\ UNCHANGED vars /\ UNCHANGED <<authorizing, releases, evidence>>

Confirmed(m) ==
    {x \in ReleaseExecutions :
        evidence[x] # None /\ evidence[x].mandate = m /\ evidence[x].outcome = "confirmed_success"}

\* Looks at the attempt, and not at what became of the mandate meanwhile.
RecordableFaulty(x) == evidence[x] = None

\* recordExecution: each attempt once, and a confirmation only for a live mandate.
Recordable(x) ==
    LET a == attempts[x]
    IN  /\ evidence[x] = None
        /\ a.outcome = "confirmed_success" =>
               releases[a.mandate].status = "active" /\ Confirmed(a.mandate) = {}

Record(x) ==
    LET a == attempts[x]
        confirmed == a.outcome = "confirmed_success"
    IN  /\ InAttempt(x, "recording")
        /\ Recordable(x)
        /\ evidence' = [evidence EXCEPT ![x] = [mandate |-> a.mandate, outcome |-> a.outcome]]
        /\ releases' = IF confirmed THEN [releases EXCEPT ![a.mandate].status = "executed"] ELSE releases
        /\ attempts' = [attempts EXCEPT ![x] = IF confirmed THEN [a EXCEPT !.phase = "terminalizing"] ELSE None]
        /\ UNCHANGED vars /\ UNCHANGED <<authorizing, discharged>>

GovernedBasis(m, x) == [kind |-> "governed-execution", mandate |-> m, execution |-> x]

Terminalized(m, x) ==
    ReleaseEncumbrance(releases[m].claim[1], releases[m].claim[2], GovernedBasis(m, x))

\* Applies the answer before it is on record.
TerminalizeFaulty(x) ==
    /\ InAttempt(x, "recording") \/ InAttempt(x, "terminalizing")
    /\ Terminalized(attempts[x].mandate, x)
    /\ attempts' = [attempts EXCEPT ![x] = None]
    /\ UNCHANGED <<authorizing, releases, evidence, discharged>>

Terminalize(x) ==
    /\ InAttempt(x, "terminalizing")
    /\ Terminalized(attempts[x].mandate, x)
    /\ attempts' = [attempts EXCEPT ![x] = None]
    /\ UNCHANGED <<authorizing, releases, evidence, discharged>>

\* A store refuses the next step, or the call dies before it: nothing more of
\* this attempt is written, whatever the executor did.
AttemptLost(x) ==
    /\ attempts[x] # None
    /\ attempts' = [attempts EXCEPT ![x] = None]
    /\ UNCHANGED vars /\ UNCHANGED <<authorizing, releases, evidence, discharged>>

(* recoverEncumbranceRelease, and executing a spent mandate again.         *)

\* Finishes only what the mandate would still authorize.
RecoverFaulty(m) ==
    /\ releases[m] # None
    /\ \E x \in Confirmed(m) : now < releases[m].until /\ Terminalized(m, x)
    /\ UNCHANGED releaseVars

Recover(m) ==
    /\ releases[m] # None
    /\ \E x \in Confirmed(m) : Terminalized(m, x)
    /\ UNCHANGED releaseVars

-----------------------------------------------------------------------------
\* Constraints come from elsewhere, and an administrator may release one.
Waiver ==
    \E e \in Arrangements, r \in Rights : ReleaseEncumbrance(e, r, [kind |-> "administrative"])

ReleaseEnvironment == (Bootstrap \/ Encumber \/ Waiver \/ Tick) /\ UNCHANGED releaseVars

Asking ==
    \E m \in ReleaseMandates, c \in Claims, until \in (now + 1)..(MaxTime + 1) : Ask(m, c, until)

Executing == \E x \in ReleaseExecutions, m \in ReleaseMandates, at \in Instants : Execute(x, m, at)

MandateAction(m) == IssueRelease(m) \/ AskLost(m) \/ RevokeRelease(m) \/ Recover(m)

AttemptStep(x) == ExecutorAnswers(x) \/ Record(x) \/ Terminalize(x) \/ AttemptLost(x)

ReleaseNext ==
    \/ ReleaseEnvironment
    \/ Asking
    \/ Executing
    \/ \E m \in ReleaseMandates : MandateAction(m)
    \/ \E x \in ReleaseExecutions : AttemptStep(x)

ReleaseSpec == ReleaseInit /\ [][ReleaseNext]_governedReleaseVars

\* Somebody calls recoverEncumbranceRelease for each mandate, again and again.
FairReleaseSpec == ReleaseSpec /\ \A m \in ReleaseMandates : WF_governedReleaseVars(Recover(m))

-----------------------------------------------------------------------------
(* Safety.                                                                 *)

\* A constraint is discharged by a governed execution only on evidence: the
\* execution was confirmed under the mandate that names this constraint, that
\* mandate is spent, and the executor really ended the arrangement.  Capacity is
\* never freed for an arrangement that may still stand.
DischargedOnEvidence ==
    \A c \in Claims, m \in ReleaseMandates, x \in ReleaseExecutions :
        (encumbrances[c] # None /\ encumbrances[c].basis = GovernedBasis(m, x)) =>
            /\ x \in Confirmed(m)
            /\ releases[m] # None /\ releases[m].claim = c /\ releases[m].status = "executed"
            /\ m \in discharged

\* A mandate is spent exactly when one execution is confirmed under it, and then
\* the executor has ended the arrangement: evidence and mandate never disagree,
\* through any number of concurrent and repeated executions.
SpentExactlyOnce ==
    \A m \in ReleaseMandates :
        /\ Cardinality(Confirmed(m)) <= 1
        /\ Confirmed(m) # {} <=> (releases[m] # None /\ releases[m].status = "executed")
        /\ Confirmed(m) # {} => m \in discharged

EndedUnder(c) == {m \in discharged : releases[m].claim = c}

\* A second mandate never discharges an arrangement a live one has discharged:
\* that takes a mandate whose confirmation never reached the store, or reached it
\* and was not yet applied to the constraint when the other was issued.
LiveDischargesAlone ==
    \A c \in Claims : Cardinality({m \in EndedUnder(c) : releases[m].status = "active"}) <= 1

-----------------------------------------------------------------------------
(* Refinement and liveness.                                                *)

Block(c) ==
    IF encumbrances[c] = None THEN "none"
    ELSE IF encumbrances[c].status = "active" THEN "blocking"
    ELSE IF encumbrances[c].basis.kind = "administrative" THEN "waived" ELSE "lifted"

Discharging == INSTANCE ConstraintDischarge WITH
    Constraints <- Claims,
    block <- [c \in Claims |-> Block(c)],
    ended <- {c \in Claims : EndedUnder(c) # {}}

\* The service implements the promise: no block is lifted before its arrangement
\* has ended outside, and none comes back.
ImplementsDischarge == Discharging!DischargeSpec

\* A confirmed release is finished, even if the call that confirmed it died
\* between the mandate store and the Governed Authority Store.
ConfirmedIsFinished ==
    \A m \in ReleaseMandates : (Confirmed(m) # {}) ~> (releases[m] # None /\ ~Stands(releases[m].claim))
=============================================================================
