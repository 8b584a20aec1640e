------------------------- MODULE EncumbranceReleaseProofs -------------------------
(***************************************************************************)
(* What the governed release of a constraint guarantees for any number of  *)
(* mandates, executions and constraints, however their calls interleave    *)
(* and wherever they stop.                                                 *)
(***************************************************************************)
EXTENDS EncumbranceReleaseGovernance, GovernedAuthorityStoreProofs, FiniteSetTheorems

-----------------------------------------------------------------------------
(* The service is a client of the store: each of its steps is one of the   *)
(* store's, or leaves the store alone.                                     *)

LEMMA BasisIsRelease ==
    ASSUME NEW m \in ReleaseMandates, NEW x \in ReleaseExecutions
    PROVE  GovernedBasis(m, x) \in ReleaseBases
  BY DEF GovernedBasis, ReleaseBases

LEMMA TerminalizedIsDischarge ==
    ASSUME ReleaseTypeOK, NEW m \in ReleaseMandates, NEW x \in ReleaseExecutions,
           releases[m] # None, Terminalized(m, x)
    PROVE  Discharge
  <1>1. releases[m].claim \in Claims
    BY DEF ReleaseTypeOK, ReleaseMandate
  <1>2. PICK e \in Arrangements, r \in Rights : releases[m].claim = <<e, r>>
    BY <1>1 DEF Claims
  <1>3. ReleaseEncumbrance(e, r, GovernedBasis(m, x))
    BY <1>2 DEF Terminalized
  <1>4. QED
    BY <1>3, BasisIsRelease DEF Discharge

LEMMA WaiverIsDischarge == Waiver => Discharge
  <1>1. [kind |-> "administrative"] \in ReleaseBases
    BY DEF ReleaseBases
  <1>2. QED
    BY <1>1 DEF Waiver, Discharge

\* An attempt is about a mandate that was issued.
AttemptsKnown ==
    \A x \in ReleaseExecutions : attempts[x] # None =>
        /\ releases[attempts[x].mandate] # None
        /\ (attempts[x].phase = "recording" /\ attempts[x].outcome = "confirmed_success") =>
               attempts[x].mandate \in discharged
        /\ attempts[x].phase = "terminalizing" => x \in Confirmed(attempts[x].mandate)

LEMMA StoreStep ==
    ASSUME ReleaseTypeOK, AttemptsKnown, ReleaseNext
    PROVE  [Next]_vars
  <1>1. CASE ReleaseEnvironment
    BY <1>1, WaiverIsDischarge DEF ReleaseEnvironment, Next
  <1>2. CASE Asking
    BY <1>2 DEF Asking, Ask
  <1>3. CASE Executing
    BY <1>3 DEF Executing, Execute
  <1>4. ASSUME NEW m \in ReleaseMandates, MandateAction(m)
        PROVE  [Next]_vars
    <2>1. CASE Recover(m)
      <3>1. PICK x \in Confirmed(m) : Terminalized(m, x)
        BY <2>1 DEF Recover
      <3>2. x \in ReleaseExecutions /\ releases[m] # None
        BY <2>1 DEF Recover, Confirmed
      <3>3. QED
        BY <3>1, <3>2, TerminalizedIsDischarge DEF Next
    <2>2. CASE IssueRelease(m) \/ AskLost(m) \/ RevokeRelease(m)
      BY <2>2 DEF IssueRelease, AskLost, RevokeRelease
    <2>3. QED
      BY <1>4, <2>1, <2>2 DEF MandateAction
  <1>5. ASSUME NEW x \in ReleaseExecutions, AttemptStep(x)
        PROVE  [Next]_vars
    <2>1. CASE Terminalize(x)
      <3>1. attempts[x] \in Attempt /\ releases[attempts[x].mandate] # None
        BY <2>1 DEF Terminalize, InAttempt, ReleaseTypeOK, AttemptsKnown
      <3>2. QED
        BY <2>1, <3>1, TerminalizedIsDischarge DEF Terminalize, Attempt, Next
    <2>2. CASE ExecutorAnswers(x) \/ Record(x) \/ AttemptLost(x)
      BY <2>2 DEF ExecutorAnswers, Record, AttemptLost
    <2>3. QED
      BY <1>5, <2>1, <2>2 DEF AttemptStep
  <1>6. QED
    BY <1>1, <1>2, <1>3, <1>4, <1>5 DEF ReleaseNext

-----------------------------------------------------------------------------
(* Type correctness.                                                       *)

LEMMA ReleaseTypeInit == ReleaseInit => ReleaseTypeOK
  BY TypeInit DEF ReleaseInit, ReleaseTypeOK

LEMMA ReleaseTypeStep ==
    ASSUME ReleaseTypeOK, AttemptsKnown, ReleaseNext
    PROVE  ReleaseTypeOK'
  <1>1. TypeOK'
    BY StoreStep, TypeStep DEF ReleaseTypeOK
  <1> DEFINE Typed ==
        /\ authorizing \in [ReleaseMandates -> Authorization \cup {None}]
        /\ releases \in [ReleaseMandates -> ReleaseMandate \cup {None}]
        /\ evidence \in [ReleaseExecutions -> Evidence \cup {None}]
        /\ attempts \in [ReleaseExecutions -> Attempt \cup {None}]
        /\ discharged \subseteq ReleaseMandates
  <1> SUFFICES Typed'
    BY <1>1 DEF ReleaseTypeOK
  <1>2. Typed
    BY DEF ReleaseTypeOK
  <1>3. now \in Nat /\ MaxTime \in Nat
    BY BoundsAssumption DEF ReleaseTypeOK, TypeOK
  <1>4. CASE ReleaseEnvironment
    BY <1>2, <1>4 DEF ReleaseEnvironment, releaseVars
  <1>5. CASE Asking
    <2>1. PICK m \in ReleaseMandates, c \in Claims, until \in (now + 1)..(MaxTime + 1) : Ask(m, c, until)
      BY <1>5 DEF Asking
    <2>2. [claim |-> c, from |-> now, until |-> until, open |-> TRUE] \in Authorization
      BY <1>3 DEF Authorization
    <2>3. QED
      BY <1>2, <2>1, <2>2 DEF Ask
  <1>6. CASE Executing
    BY <1>2, <1>6 DEF Executing, Execute, Attempt, Outcomes
  <1>7. ASSUME NEW m \in ReleaseMandates, MandateAction(m)
        PROVE  Typed'
    <2>1. CASE IssueRelease(m)
      <3>1. authorizing[m] \in Authorization
        BY <1>2, <2>1 DEF IssueRelease, Authorizing
      <3>2. [authorizing[m] EXCEPT !.open = FALSE] \in Authorization
        BY <3>1 DEF Authorization
      <3>3. [claim |-> authorizing[m].claim, from |-> authorizing[m].from,
             until |-> authorizing[m].until, status |-> "active"] \in ReleaseMandate
        BY <3>1 DEF Authorization, ReleaseMandate
      <3>4. QED
        BY <1>2, <2>1, <3>2, <3>3 DEF IssueRelease
    <2>2. CASE AskLost(m)
      <3>1. authorizing[m] \in Authorization
        BY <1>2, <2>2 DEF AskLost, Authorizing
      <3>2. [authorizing[m] EXCEPT !.open = FALSE] \in Authorization
        BY <3>1 DEF Authorization
      <3>3. QED
        BY <1>2, <2>2, <3>2 DEF AskLost
    <2>3. CASE RevokeRelease(m)
      <3>1. [releases[m] EXCEPT !.status = "revoked"] \in ReleaseMandate
        BY <1>2, <2>3 DEF RevokeRelease, ReleaseMandate
      <3>2. QED
        BY <1>2, <2>3, <3>1 DEF RevokeRelease
    <2>4. CASE Recover(m)
      BY <1>2, <2>4 DEF Recover, releaseVars
    <2>5. QED
      BY <1>7, <2>1, <2>2, <2>3, <2>4 DEF MandateAction
  <1>8. ASSUME NEW x \in ReleaseExecutions, AttemptStep(x)
        PROVE  Typed'
    <2>1. CASE ExecutorAnswers(x)
      <3>1. attempts[x] \in Attempt
        BY <1>2, <2>1 DEF ExecutorAnswers, InAttempt
      <3>2. PICK answer \in Answers(attempts[x].mandate) :
              /\ attempts' = [attempts EXCEPT ![x].phase = "recording", ![x].outcome = answer.outcome]
              /\ discharged' = discharged \cup (IF answer.acted THEN {attempts[x].mandate} ELSE {})
        BY <2>1 DEF ExecutorAnswers
      <3>3. answer.outcome \in Outcomes
        BY DEF Answers, Outcomes
      <3>4. [attempts[x] EXCEPT !.phase = "recording", !.outcome = answer.outcome] \in Attempt
        BY <3>1, <3>3 DEF Attempt
      <3>5. attempts[x].mandate \in ReleaseMandates
        BY <3>1 DEF Attempt
      <3>6. QED
        BY <1>2, <2>1, <3>2, <3>4, <3>5 DEF ExecutorAnswers
    <2>2. CASE Record(x)
      <3>1. attempts[x] \in Attempt
        BY <1>2, <2>2 DEF Record, InAttempt
      <3>2. [mandate |-> attempts[x].mandate, outcome |-> attempts[x].outcome] \in Evidence
        BY <3>1 DEF Attempt, Evidence
      <3>3. [attempts[x] EXCEPT !.phase = "terminalizing"] \in Attempt
        BY <3>1 DEF Attempt
      <3>4. releases[attempts[x].mandate] \in ReleaseMandate
        BY <1>2, <2>2, <3>1 DEF Record, InAttempt, AttemptsKnown, Attempt
      <3>5. [releases[attempts[x].mandate] EXCEPT !.status = "executed"] \in ReleaseMandate
        BY <3>4 DEF ReleaseMandate
      <3>6. QED
        BY <1>2, <2>2, <3>2, <3>3, <3>5 DEF Record
    <2>3. CASE Terminalize(x)
      BY <1>2, <2>3 DEF Terminalize
    <2>4. CASE AttemptLost(x)
      BY <1>2, <2>4 DEF AttemptLost
    <2>5. QED
      BY <1>8, <2>1, <2>2, <2>3, <2>4 DEF AttemptStep
  <1>9. QED
    BY <1>4, <1>5, <1>6, <1>7, <1>8 DEF ReleaseNext

-----------------------------------------------------------------------------
(* The inductive invariant.                                                *)

\* A mandate id is used for one request, and only while it is open.
MintedOnce ==
    \A m \in ReleaseMandates :
        /\ releases[m] # None => authorizing[m] # None /\ ~authorizing[m].open
        /\ m \in discharged => releases[m] # None

\* What a request or a mandate names exists.
TargetsKnown ==
    \A m \in ReleaseMandates :
        /\ authorizing[m] # None => encumbrances[authorizing[m].claim] # None
        /\ releases[m] # None => encumbrances[releases[m].claim] # None

\* A confirmation spends its mandate, and nothing else does.
ConfirmationSpends ==
    \A m \in ReleaseMandates :
        /\ \A x, y \in Confirmed(m) : x = y
        /\ Confirmed(m) # {} => m \in discharged
        /\ Confirmed(m) # {} <=> (releases[m] # None /\ releases[m].status = "executed")

\* One live mandate for each constraint.
OneLive ==
    \A m, n \in ReleaseMandates :
        (/\ releases[m] # None /\ releases[m].status = "active"
         /\ releases[n] # None /\ releases[n].status = "active"
         /\ releases[m].claim = releases[n].claim) => m = n

ReleaseInv ==
    /\ ReleaseTypeOK
    /\ AttemptsKnown
    /\ MintedOnce
    /\ TargetsKnown
    /\ ConfirmationSpends
    /\ OneLive
    /\ DischargedOnEvidence

LEMMA ReleaseInvInit == ReleaseInit => ReleaseInv
  BY ReleaseTypeInit
     DEF ReleaseInit, Init, ReleaseInv, AttemptsKnown, MintedOnce, TargetsKnown,
         ConfirmationSpends, OneLive, DischargedOnEvidence, Confirmed

\* A constraint, once it is on record, stays on record.
LEMMA ConstraintsRemain ==
    ASSUME ReleaseTypeOK, AttemptsKnown, ReleaseNext, NEW c \in Claims, encumbrances[c] # None
    PROVE  encumbrances'[c] # None
  <1>1. CASE Next
    <2>1. TerminalIsFinal
      BY <1>1, FinalStep DEF ReleaseTypeOK
    <2>2. QED
      BY <2>1 DEF TerminalIsFinal, EncumbranceFinal
  <1>2. CASE UNCHANGED vars
    BY <1>2 DEF vars
  <1>3. QED
    BY <1>1, <1>2, StoreStep

\* Mandates are issued, spent and withdrawn; who and what they are for stays.
LEMMA MandatesRemain ==
    ASSUME ReleaseTypeOK, MintedOnce, AttemptsKnown, ReleaseNext,
           NEW m \in ReleaseMandates
    PROVE  /\ authorizing[m] # None =>
                 /\ authorizing'[m] # None
                 /\ authorizing'[m].claim = authorizing[m].claim
                 /\ ~authorizing[m].open => ~authorizing'[m].open
           /\ releases[m] # None =>
                 releases'[m] # None /\ releases'[m].claim = releases[m].claim
  <1> USE DEF ReleaseTypeOK
  <1>1. CASE UNCHANGED <<authorizing, releases>>
    BY <1>1
  <1>2. CASE Asking
    <2>1. PICK n \in ReleaseMandates, c \in Claims, until \in (now + 1)..(MaxTime + 1) : Ask(n, c, until)
      BY <1>2 DEF Asking
    <2>2. QED
      BY <2>1 DEF Ask
  <1>3. ASSUME NEW n \in ReleaseMandates, IssueRelease(n) \/ AskLost(n) \/ RevokeRelease(n)
        PROVE  /\ authorizing[m] # None =>
                     /\ authorizing'[m] # None
                     /\ authorizing'[m].claim = authorizing[m].claim
                     /\ ~authorizing[m].open => ~authorizing'[m].open
               /\ releases[m] # None =>
                     releases'[m] # None /\ releases'[m].claim = releases[m].claim
    <2>1. CASE IssueRelease(n)
      <3>1. releases[n] = None /\ authorizing[n] \in Authorization
        BY <2>1 DEF IssueRelease, Authorizing, MintedOnce
      <3>2. [authorizing[n] EXCEPT !.open = FALSE] \in Authorization
        BY <3>1 DEF Authorization
      <3>3. QED
        BY <2>1, <3>1, <3>2, ReleaseNoneAssumption DEF IssueRelease, Authorization
    <2>2. CASE AskLost(n)
      <3>1. authorizing[n] \in Authorization
        BY <2>2 DEF AskLost, Authorizing
      <3>2. [authorizing[n] EXCEPT !.open = FALSE] \in Authorization
        BY <3>1 DEF Authorization
      <3>3. QED
        BY <2>2, <3>1, <3>2, ReleaseNoneAssumption DEF AskLost, Authorization
    <2>3. CASE RevokeRelease(n)
      <3>1. releases[n] \in ReleaseMandate
        BY <2>3 DEF RevokeRelease
      <3>2. [releases[n] EXCEPT !.status = "revoked"] \in ReleaseMandate
        BY <3>1 DEF ReleaseMandate
      <3>3. QED
        BY <2>3, <3>1, <3>2, ReleaseNoneAssumption DEF RevokeRelease, ReleaseMandate
    <2>4. QED
      BY <1>3, <2>1, <2>2, <2>3
  <1>4. ASSUME NEW x \in ReleaseExecutions, Record(x)
        PROVE  releases[m] # None =>
                     releases'[m] # None /\ releases'[m].claim = releases[m].claim
    <2>1. attempts[x] \in Attempt
      BY <1>4 DEF Record, InAttempt
    <2>2. releases[attempts[x].mandate] \in ReleaseMandate
      BY <1>4, <2>1 DEF Record, InAttempt, AttemptsKnown, Attempt
    <2>3. [releases[attempts[x].mandate] EXCEPT !.status = "executed"] \in ReleaseMandate
      BY <2>2 DEF ReleaseMandate
    <2>4. QED
      BY <1>4, <2>1, <2>2, <2>3, ReleaseNoneAssumption DEF Record, ReleaseMandate, Attempt
  <1>5. QED
    BY <1>1, <1>2, <1>3, <1>4
       DEF ReleaseNext, ReleaseEnvironment, releaseVars, Executing, Execute, MandateAction,
           Recover, AttemptStep, ExecutorAnswers, Record, Terminalize, AttemptLost

\* A mandate appears only when its open request is answered with it.
LEMMA MandateAppears ==
    ASSUME ReleaseTypeOK, AttemptsKnown, ReleaseNext, NEW m \in ReleaseMandates,
           releases[m] = None, releases'[m] # None
    PROVE  IssueRelease(m)
  <1> USE DEF ReleaseTypeOK
  <1>1. ASSUME NEW n \in ReleaseMandates, MandateAction(n)
        PROVE  IssueRelease(m)
    <2>1. CASE IssueRelease(n)
      BY <2>1 DEF IssueRelease
    <2>2. CASE RevokeRelease(n)
      BY <2>2 DEF RevokeRelease
    <2>3. CASE AskLost(n) \/ Recover(n)
      BY <2>3 DEF AskLost, Recover, releaseVars
    <2>4. QED
      BY <1>1, <2>1, <2>2, <2>3 DEF MandateAction
  <1>2. ASSUME NEW x \in ReleaseExecutions, AttemptStep(x)
        PROVE  FALSE
    <2>1. CASE Record(x)
      BY <2>1 DEF Record, InAttempt, AttemptsKnown
    <2>2. CASE ExecutorAnswers(x) \/ Terminalize(x) \/ AttemptLost(x)
      BY <2>2 DEF ExecutorAnswers, Terminalize, AttemptLost
    <2>3. QED
      BY <1>2, <2>1, <2>2 DEF AttemptStep
  <1>3. QED
    BY <1>1, <1>2
       DEF ReleaseNext, ReleaseEnvironment, releaseVars, Asking, Ask, Executing, Execute

\* The executor acts only for an attempt that was made.
LEMMA ExecutorActs ==
    ASSUME ReleaseNext, NEW m \in discharged', m \notin discharged
    PROVE  \E x \in ReleaseExecutions :
               attempts[x] # None /\ attempts[x].mandate = m /\ ExecutorAnswers(x)
  <1>1. ASSUME NEW x \in ReleaseExecutions, ExecutorAnswers(x)
        PROVE  attempts[x] # None /\ attempts[x].mandate = m
    BY <1>1 DEF ExecutorAnswers, InAttempt
  <1>2. QED
    BY <1>1
       DEF ReleaseNext, ReleaseEnvironment, releaseVars, Asking, Ask, Executing, Execute,
           MandateAction, IssueRelease, AskLost, RevokeRelease, Recover, AttemptStep, Record,
           Terminalize, AttemptLost

LEMMA MintedOnceStep ==
    ASSUME ReleaseTypeOK, AttemptsKnown, MintedOnce, ReleaseNext
    PROVE  MintedOnce'
  <1> SUFFICES ASSUME NEW m \in ReleaseMandates
               PROVE  /\ releases'[m] # None => authorizing'[m] # None /\ ~authorizing'[m].open
                      /\ m \in discharged' => releases'[m] # None
    BY DEF MintedOnce
  <1>1. CASE releases[m] # None
    BY <1>1, MandatesRemain DEF MintedOnce
  <1>2. CASE releases[m] = None
    <2>1. m \notin discharged
      BY <1>2 DEF MintedOnce
    <2>2. m \notin discharged'
      <3>1. SUFFICES ASSUME m \in discharged' PROVE FALSE
        OBVIOUS
      <3>2. PICK x \in ReleaseExecutions : attempts[x] # None /\ attempts[x].mandate = m
        BY <2>1, <3>1, ExecutorActs
      <3>3. QED
        BY <1>2, <3>2 DEF AttemptsKnown
    <2>3. ASSUME releases'[m] # None
          PROVE  authorizing'[m] # None /\ ~authorizing'[m].open
      <3>1. IssueRelease(m)
        BY <1>2, <2>3, MandateAppears
      <3>2. authorizing[m] \in Authorization
        BY <3>1 DEF IssueRelease, Authorizing, ReleaseTypeOK
      <3>3. [authorizing[m] EXCEPT !.open = FALSE] \in Authorization
        BY <3>2 DEF Authorization
      <3>4. authorizing'[m] = [authorizing[m] EXCEPT !.open = FALSE]
        BY <3>1 DEF IssueRelease, ReleaseTypeOK
      <3>5. QED
        BY <3>2, <3>3, <3>4, ReleaseNoneAssumption DEF Authorization
    <2>4. QED
      BY <2>2, <2>3
  <1>3. QED
    BY <1>1, <1>2

\* A request appears only for a constraint that stands.
LEMMA RequestAppears ==
    ASSUME ReleaseTypeOK, ReleaseNext, NEW m \in ReleaseMandates,
           authorizing[m] = None, authorizing'[m] # None
    PROVE  \E c \in Claims : Stands(c) /\ authorizing'[m].claim = c
  <1> USE DEF ReleaseTypeOK
  <1>1. CASE Asking
    <2>1. PICK n \in ReleaseMandates, c \in Claims, until \in (now + 1)..(MaxTime + 1) : Ask(n, c, until)
      BY <1>1 DEF Asking
    <2>2. n = m
      BY <2>1 DEF Ask
    <2>3. QED
      BY <2>1, <2>2 DEF Ask
  <1>2. ASSUME NEW n \in ReleaseMandates, IssueRelease(n) \/ AskLost(n)
        PROVE  FALSE
    BY <1>2 DEF IssueRelease, AskLost, Authorizing
  <1>3. QED
    BY <1>1, <1>2
       DEF ReleaseNext, ReleaseEnvironment, releaseVars, Executing, Execute, MandateAction,
           RevokeRelease, Recover, AttemptStep, ExecutorAnswers, Record, Terminalize, AttemptLost

LEMMA TargetsKnownStep ==
    ASSUME ReleaseTypeOK, AttemptsKnown, MintedOnce, TargetsKnown, ReleaseNext
    PROVE  TargetsKnown'
  <1> SUFFICES ASSUME NEW m \in ReleaseMandates
               PROVE  /\ authorizing'[m] # None => encumbrances'[authorizing'[m].claim] # None
                      /\ releases'[m] # None => encumbrances'[releases'[m].claim] # None
    BY DEF TargetsKnown
  <1>1. authorizing'[m] # None => encumbrances'[authorizing'[m].claim] # None
    <2>1. CASE authorizing[m] # None
      <3>1. authorizing[m].claim \in Claims /\ encumbrances[authorizing[m].claim] # None
        BY <2>1 DEF ReleaseTypeOK, Authorization, TargetsKnown
      <3>2. QED
        BY <2>1, <3>1, MandatesRemain, ConstraintsRemain
    <2>2. CASE authorizing[m] = None
      BY <2>2, RequestAppears, ConstraintsRemain DEF Stands
    <2>3. QED
      BY <2>1, <2>2
  <1>2. releases'[m] # None => encumbrances'[releases'[m].claim] # None
    <2>1. CASE releases[m] # None
      <3>1. releases[m].claim \in Claims /\ encumbrances[releases[m].claim] # None
        BY <2>1 DEF ReleaseTypeOK, ReleaseMandate, TargetsKnown
      <3>2. QED
        BY <2>1, <3>1, MandatesRemain, ConstraintsRemain
    <2>2. ASSUME releases[m] = None, releases'[m] # None
          PROVE  encumbrances'[releases'[m].claim] # None
      <3>1. IssueRelease(m)
        BY <2>2, MandateAppears
      <3>2. authorizing[m] # None /\ releases'[m].claim = authorizing[m].claim
        BY <3>1 DEF IssueRelease, Authorizing, ReleaseTypeOK
      <3>3. authorizing[m].claim \in Claims /\ encumbrances[authorizing[m].claim] # None
        BY <3>2 DEF ReleaseTypeOK, Authorization, TargetsKnown
      <3>4. QED
        BY <3>2, <3>3, ConstraintsRemain
    <2>3. QED
      BY <2>1, <2>2
  <1>3. QED
    BY <1>1, <1>2

-----------------------------------------------------------------------------
(* Evidence.                                                               *)

\* A record of evidence is written once.
LEMMA EvidenceRemains ==
    ASSUME ReleaseTypeOK, ReleaseNext, NEW x \in ReleaseExecutions, evidence[x] # None
    PROVE  evidence'[x] = evidence[x]
  <1> USE DEF ReleaseTypeOK
  <1>1. ASSUME NEW y \in ReleaseExecutions, Record(y)
        PROVE  evidence'[x] = evidence[x]
    BY <1>1 DEF Record, Recordable
  <1>2. QED
    BY <1>1
       DEF ReleaseNext, ReleaseEnvironment, releaseVars, Asking, Ask, Executing, Execute,
           MandateAction, IssueRelease, AskLost, RevokeRelease, Recover, AttemptStep,
           ExecutorAnswers, Terminalize, AttemptLost

\* A step confirms nothing and spends nothing, or it records one confirmation.
LEMMA ConfirmationStep ==
    ASSUME ReleaseTypeOK, AttemptsKnown, MintedOnce, ReleaseNext,
           ~\E x \in ReleaseExecutions : Record(x) /\ attempts[x].outcome = "confirmed_success"
    PROVE  \A m \in ReleaseMandates :
               /\ Confirmed(m)' = Confirmed(m)
               /\ (releases'[m] # None /\ releases'[m].status = "executed") <=>
                  (releases[m] # None /\ releases[m].status = "executed")
  <1> USE DEF ReleaseTypeOK
  <1> DEFINE Same(m) == /\ Confirmed(m)' = Confirmed(m)
                        /\ (releases'[m] # None /\ releases'[m].status = "executed") <=>
                           (releases[m] # None /\ releases[m].status = "executed")
  <1> SUFFICES ASSUME NEW m \in ReleaseMandates PROVE Same(m)
    OBVIOUS
  <1>1. CASE UNCHANGED <<releases, evidence>>
    BY <1>1 DEF Confirmed
  <1>2. ASSUME NEW n \in ReleaseMandates, IssueRelease(n)
        PROVE  Same(m)
    <2>1. releases[n] = None /\ UNCHANGED evidence
      BY <1>2 DEF IssueRelease, Authorizing, MintedOnce
    <2>2. Confirmed(m)' = Confirmed(m)
      BY <2>1 DEF Confirmed
    <2>3. CASE n = m
      BY <1>2, <2>1, <2>2, <2>3 DEF IssueRelease
    <2>4. CASE n # m
      BY <1>2, <2>2, <2>4 DEF IssueRelease
    <2>5. QED
      BY <2>3, <2>4
  <1>3. ASSUME NEW n \in ReleaseMandates, RevokeRelease(n)
        PROVE  Same(m)
    <2>1. Confirmed(m)' = Confirmed(m)
      BY <1>3 DEF RevokeRelease, Confirmed
    <2>2. releases[n] \in ReleaseMandate /\ releases[n].status = "active"
      BY <1>3 DEF RevokeRelease
    <2>3. releases' = [releases EXCEPT ![n] = [releases[n] EXCEPT !.status = "revoked"]]
      BY <1>3 DEF RevokeRelease
    <2>4. [releases[n] EXCEPT !.status = "revoked"].status = "revoked"
      BY <2>2 DEF ReleaseMandate
    <2>5. CASE n = m
      BY <2>1, <2>2, <2>3, <2>4, <2>5
    <2>6. CASE n # m
      BY <2>1, <2>3, <2>6
    <2>7. QED
      BY <2>5, <2>6
  <1>4. ASSUME NEW x \in ReleaseExecutions, Record(x)
        PROVE  Same(m)
    <2>1. attempts[x].outcome # "confirmed_success"
      BY <1>4
    <2>2. UNCHANGED releases /\ evidence[x] = None
      BY <1>4, <2>1 DEF Record, Recordable
    <2>3. evidence'[x].outcome # "confirmed_success"
      BY <1>4, <2>1 DEF Record
    <2>4. \A y \in ReleaseExecutions \ {x} : evidence'[y] = evidence[y]
      BY <1>4 DEF Record
    <2>5. QED
      BY <2>2, <2>3, <2>4 DEF Confirmed
  <1>5. QED
    BY <1>1, <1>2, <1>3, <1>4
       DEF ReleaseNext, ReleaseEnvironment, releaseVars, Asking, Ask, Executing, Execute,
           MandateAction, AskLost, Recover, AttemptStep, ExecutorAnswers, Terminalize, AttemptLost

\* What recording a confirmation writes.
LEMMA ConfirmationRecorded ==
    ASSUME ReleaseTypeOK, AttemptsKnown, NEW x \in ReleaseExecutions, Record(x),
           attempts[x].outcome = "confirmed_success"
    PROVE  LET k == attempts[x].mandate
           IN  /\ k \in discharged /\ k \in ReleaseMandates
               /\ releases[k] # None /\ releases[k].status = "active"
               /\ Confirmed(k) = {}
               /\ releases'[k] # None /\ releases'[k].status = "executed"
               /\ \A m \in ReleaseMandates : m # k => releases'[m] = releases[m]
               /\ \A m \in ReleaseMandates :
                     Confirmed(m)' = IF m = k THEN {x} ELSE Confirmed(m)
               /\ UNCHANGED <<encumbrances, discharged, authorizing>>
  <1> USE DEF ReleaseTypeOK
  <1> DEFINE k == attempts[x].mandate
  <1>1. attempts[x] \in Attempt /\ attempts[x] # None /\ attempts[x].phase = "recording"
    BY DEF Record, InAttempt
  <1>2. k \in discharged /\ k \in ReleaseMandates /\ releases[k] # None
    BY <1>1 DEF Attempt, AttemptsKnown
  <1>3. evidence[x] = None /\ releases[k].status = "active" /\ Confirmed(k) = {}
    BY DEF Record, Recordable
  <1>4. releases' = [releases EXCEPT ![k] = [releases[k] EXCEPT !.status = "executed"]]
    BY DEF Record
  <1>5. releases[k] \in ReleaseMandate
    BY <1>2
  <1>6. [releases[k] EXCEPT !.status = "executed"] \in ReleaseMandate
        /\ [releases[k] EXCEPT !.status = "executed"].status = "executed"
    BY <1>5 DEF ReleaseMandate
  <1>7. releases'[k] # None /\ releases'[k].status = "executed"
    BY <1>2, <1>4, <1>6, ReleaseNoneAssumption
  <1>8. \A m \in ReleaseMandates : m # k => releases'[m] = releases[m]
    BY <1>4
  <1>9. evidence' = [evidence EXCEPT ![x] = [mandate |-> k, outcome |-> "confirmed_success"]]
    BY DEF Record
  <1>10. [mandate |-> k, outcome |-> "confirmed_success"] # None
    BY <1>2, ReleaseNoneAssumption DEF Evidence, Outcomes
  <1>11. \A m \in ReleaseMandates : Confirmed(m)' = IF m = k THEN {x} ELSE Confirmed(m)
    <2>1. \A y \in ReleaseExecutions \ {x} : evidence'[y] = evidence[y]
      BY <1>9
    <2>2. evidence'[x] = [mandate |-> k, outcome |-> "confirmed_success"]
      BY <1>9
    <2>3. evidence'[x] # None /\ evidence'[x].mandate = k /\ evidence'[x].outcome = "confirmed_success"
      BY <1>10, <2>2
    <2>4. ASSUME NEW m \in ReleaseMandates
          PROVE  Confirmed(m)' = IF m = k THEN {x} ELSE Confirmed(m)
      <3>1. x \in Confirmed(m)' <=> m = k
        BY <2>3 DEF Confirmed
      <3>2. x \notin Confirmed(m)
        BY <1>3 DEF Confirmed
      <3>3. \A y \in ReleaseExecutions \ {x} : y \in Confirmed(m)' <=> y \in Confirmed(m)
        BY <2>1 DEF Confirmed
      <3>4. Confirmed(m)' \subseteq ReleaseExecutions /\ Confirmed(m) \subseteq ReleaseExecutions
        BY DEF Confirmed
      <3>5. QED
        BY <1>3, <3>1, <3>2, <3>3, <3>4
    <2>5. QED
      BY <2>4
  <1>12. UNCHANGED <<encumbrances, discharged, authorizing>>
    BY DEF Record, vars
  <1>13. QED
    BY <1>2, <1>3, <1>7, <1>8, <1>11, <1>12

LEMMA DischargedGrows ==
    ASSUME ReleaseNext
    PROVE  discharged \subseteq discharged'
  BY DEF ReleaseNext, ReleaseEnvironment, releaseVars, Asking, Ask, Executing, Execute,
         MandateAction, IssueRelease, AskLost, RevokeRelease, Recover, AttemptStep,
         ExecutorAnswers, Record, Terminalize, AttemptLost

LEMMA ConfirmationSpendsStep ==
    ASSUME ReleaseTypeOK, AttemptsKnown, MintedOnce, ConfirmationSpends, ReleaseNext
    PROVE  ConfirmationSpends'
  <1>1. CASE \E x \in ReleaseExecutions : Record(x) /\ attempts[x].outcome = "confirmed_success"
    <2>1. PICK x \in ReleaseExecutions : Record(x) /\ attempts[x].outcome = "confirmed_success"
      BY <1>1
    <2>2. QED
      BY <2>1, ConfirmationRecorded DEF ConfirmationSpends
  <1>2. CASE ~\E x \in ReleaseExecutions : Record(x) /\ attempts[x].outcome = "confirmed_success"
    BY <1>2, ConfirmationStep, DischargedGrows DEF ConfirmationSpends
  <1>3. QED
    BY <1>1, <1>2

LEMMA AttemptsKnownStep ==
    ASSUME ReleaseTypeOK, AttemptsKnown, MintedOnce, ReleaseNext
    PROVE  AttemptsKnown'
  <1> DEFINE Known(x) == attempts[x] # None =>
        /\ releases[attempts[x].mandate] # None
        /\ (attempts[x].phase = "recording" /\ attempts[x].outcome = "confirmed_success") =>
               attempts[x].mandate \in discharged
        /\ attempts[x].phase = "terminalizing" => x \in Confirmed(attempts[x].mandate)
  <1> SUFFICES ASSUME NEW x \in ReleaseExecutions, attempts'[x] # None PROVE Known(x)'
    BY DEF AttemptsKnown
  <1>1. Known(x)
    BY DEF AttemptsKnown
  <1>2. CASE attempts'[x] = attempts[x]
    <2>1. attempts[x] \in Attempt /\ attempts[x].mandate \in ReleaseMandates
      BY <1>2 DEF ReleaseTypeOK, Attempt
    <2>2. releases'[attempts[x].mandate] # None
      BY <1>1, <1>2, <2>1, MandatesRemain
    <2>3. x \in Confirmed(attempts[x].mandate) => x \in Confirmed(attempts[x].mandate)'
      BY <1>2, EvidenceRemains DEF Confirmed
    <2>4. QED
      BY <1>1, <1>2, <2>2, <2>3, DischargedGrows
  <1>3. CASE Executing /\ attempts'[x] # attempts[x]
    <2>1. PICK y \in ReleaseExecutions, m \in ReleaseMandates, at \in Instants : Execute(y, m, at)
      BY <1>3 DEF Executing
    <2>2. y = x /\ releases[m] # None
      BY <1>3, <2>1 DEF Execute, Executable, ReleaseTypeOK
    <2>3. QED
      BY <2>1, <2>2 DEF Execute, ReleaseTypeOK
  <1>4. CASE ExecutorAnswers(x)
    <2>1. attempts[x] \in Attempt /\ attempts[x] # None
      BY <1>4 DEF ExecutorAnswers, InAttempt, ReleaseTypeOK
    <2>2. PICK answer \in Answers(attempts[x].mandate) :
            /\ attempts' = [attempts EXCEPT ![x].phase = "recording", ![x].outcome = answer.outcome]
            /\ discharged' = discharged \cup (IF answer.acted THEN {attempts[x].mandate} ELSE {})
      BY <1>4 DEF ExecutorAnswers
    <2>3. answer.outcome = "confirmed_success" => answer.acted
      BY DEF Answers
    <2>4. attempts'[x] = [attempts[x] EXCEPT !.phase = "recording", !.outcome = answer.outcome]
      BY <2>2 DEF ReleaseTypeOK
    <2>5. /\ attempts'[x].mandate = attempts[x].mandate
          /\ attempts'[x].phase = "recording"
          /\ attempts'[x].outcome = answer.outcome
      BY <2>1, <2>4 DEF Attempt
    <2>6. UNCHANGED releases
      BY <1>4 DEF ExecutorAnswers
    <2>7. QED
      BY <1>1, <2>1, <2>2, <2>3, <2>5, <2>6
  <1>5. CASE Record(x)
    <2>1. attempts[x] \in Attempt /\ attempts[x] # None
      BY <1>5 DEF Record, InAttempt, ReleaseTypeOK
    <2>2. attempts[x].outcome = "confirmed_success"
      BY <1>5 DEF Record, ReleaseTypeOK
    <2>3. attempts'[x] = [attempts[x] EXCEPT !.phase = "terminalizing"]
      BY <1>5, <2>2 DEF Record, ReleaseTypeOK
    <2>4. attempts'[x].mandate = attempts[x].mandate /\ attempts'[x].phase = "terminalizing"
      BY <2>1, <2>3 DEF Attempt
    <2>5. QED
      BY <1>5, <2>1, <2>2, <2>4, ConfirmationRecorded
  <1>6. attempts'[x] = attempts[x] \/ Executing \/ ExecutorAnswers(x) \/ Record(x)
    BY DEF ReleaseNext, ReleaseEnvironment, releaseVars, Asking, Ask, MandateAction,
           IssueRelease, AskLost, RevokeRelease, Recover, AttemptStep, ExecutorAnswers, Record,
           Terminalize, AttemptLost, ReleaseTypeOK
  <1>7. QED
    BY <1>2, <1>3, <1>4, <1>5, <1>6

\* A mandate becomes live only when it is issued.
LEMMA BecomesLive ==
    ASSUME ReleaseTypeOK, AttemptsKnown, MintedOnce, ReleaseNext, NEW m \in ReleaseMandates,
           releases'[m] # None, releases'[m].status = "active"
    PROVE  \/ releases[m] # None /\ releases[m].status = "active"
           \/ IssueRelease(m)
  <1>1. CASE releases[m] = None
    BY <1>1, MandateAppears
  <1>2. ASSUME releases[m] # None, releases'[m] # releases[m]
        PROVE  FALSE
    <2> USE DEF ReleaseTypeOK
    <2>1. ASSUME NEW n \in ReleaseMandates, IssueRelease(n)
          PROVE  FALSE
      BY <1>2, <2>1 DEF IssueRelease, Authorizing, MintedOnce
    <2>2. ASSUME NEW n \in ReleaseMandates, RevokeRelease(n)
          PROVE  FALSE
      <3>1. n = m /\ releases'[m] = [releases[m] EXCEPT !.status = "revoked"]
        BY <1>2, <2>2 DEF RevokeRelease
      <3>2. releases[m] \in ReleaseMandate
        BY <1>2
      <3>3. QED
        BY <3>1, <3>2 DEF ReleaseMandate
    <2>3. ASSUME NEW x \in ReleaseExecutions, Record(x)
          PROVE  FALSE
      <3>1. attempts[x].outcome = "confirmed_success"
        BY <1>2, <2>3 DEF Record
      <3>2. QED
        BY <1>2, <2>3, <3>1, ConfirmationRecorded
    <2>4. QED
      BY <1>2, <2>1, <2>2, <2>3
         DEF ReleaseNext, ReleaseEnvironment, releaseVars, Asking, Ask, Executing, Execute,
             MandateAction, AskLost, Recover, AttemptStep, ExecutorAnswers, Terminalize, AttemptLost
  <1>3. QED
    BY <1>1, <1>2

LEMMA OneLiveStep ==
    ASSUME ReleaseTypeOK, AttemptsKnown, MintedOnce, OneLive, ReleaseNext
    PROVE  OneLive'
  <1> DEFINE Lives(m) == releases[m] # None /\ releases[m].status = "active"
  <1> SUFFICES ASSUME NEW m \in ReleaseMandates, NEW n \in ReleaseMandates,
                      Lives(m)', Lives(n)', releases'[m].claim = releases'[n].claim
               PROVE  m = n
    BY DEF OneLive
  <1>1. ASSUME NEW k \in ReleaseMandates, NEW l \in ReleaseMandates, IssueRelease(k), l # k,
               Lives(l)', releases'[k].claim = releases'[l].claim
        PROVE  FALSE
    <2>1. /\ ~AlreadyAuthorized(authorizing[k].claim)
          /\ releases'[k].claim = authorizing[k].claim
          /\ releases'[l] = releases[l]
      BY <1>1 DEF IssueRelease, ReleaseTypeOK
    <2>2. QED
      BY <1>1, <2>1 DEF AlreadyAuthorized
  <1>2. CASE IssueRelease(m)
    BY <1>1, <1>2
  <1>3. CASE IssueRelease(n)
    BY <1>1, <1>3
  <1>4. CASE ~IssueRelease(m) /\ ~IssueRelease(n)
    <2>1. Lives(m) /\ Lives(n)
      BY <1>4, BecomesLive
    <2>2. releases[m].claim = releases[n].claim
      BY <2>1, MandatesRemain
    <2>3. QED
      BY <2>1, <2>2 DEF OneLive
  <1>5. QED
    BY <1>2, <1>3, <1>4

-----------------------------------------------------------------------------
(* Constraints.                                                            *)

\* What one step does to the constraints: nothing, record one, let one be
\* waived, or lift one on the confirmation of a spent mandate.
ConstraintRecorded(c) ==
    /\ encumbrances[c] = None
    /\ encumbrances'[c] # None
    /\ encumbrances'[c].status = "active" /\ encumbrances'[c].basis = None

ConstraintReleased(c, basis) ==
    /\ Stands(c)
    /\ encumbrances'[c] # None
    /\ encumbrances'[c].status = "released" /\ encumbrances'[c].basis = basis

LEMMA ReleaseWrites ==
    ASSUME TypeOK, NEW e \in Arrangements, NEW r \in Rights, NEW basis \in ReleaseBases,
           ReleaseEncumbrance(e, r, basis)
    PROVE  /\ ConstraintReleased(<<e, r>>, basis)
           /\ \A d \in Claims \ {<<e, r>>} : encumbrances'[d] = encumbrances[d]
  <1>1. <<e, r>> \in Claims /\ encumbrances[<<e, r>>] \in Encumbrance
    BY DEF TypeOK, Claims, ReleaseEncumbrance
  <1>2. encumbrances'[<<e, r>>] =
            [encumbrances[<<e, r>>] EXCEPT !.status = "released", !.basis = basis]
    BY <1>1 DEF TypeOK, ReleaseEncumbrance
  <1>3. encumbrances'[<<e, r>>] \in Encumbrance
    BY <1>1, <1>2 DEF Encumbrance
  <1>4. Stands(<<e, r>>)
    BY DEF ReleaseEncumbrance, Stands
  <1>5. \A d \in Claims \ {<<e, r>>} : encumbrances'[d] = encumbrances[d]
    BY DEF TypeOK, ReleaseEncumbrance
  <1>6. encumbrances'[<<e, r>>].status = "released" /\ encumbrances'[<<e, r>>].basis = basis
    BY <1>1, <1>2 DEF Encumbrance
  <1>7. encumbrances'[<<e, r>>] # None
    BY <1>3, NoneAssumption
  <1>8. QED
    BY <1>4, <1>5, <1>6, <1>7 DEF ConstraintReleased

LEMMA TerminalizedWrites ==
    ASSUME ReleaseTypeOK, NEW m \in ReleaseMandates, NEW x \in ReleaseExecutions,
           releases[m] # None, Terminalized(m, x)
    PROVE  /\ releases[m].claim \in Claims
           /\ ConstraintReleased(releases[m].claim, GovernedBasis(m, x))
           /\ \A d \in Claims \ {releases[m].claim} : encumbrances'[d] = encumbrances[d]
  <1>1. releases[m].claim \in Claims
    BY DEF ReleaseTypeOK, ReleaseMandate
  <1>2. PICK e \in Arrangements, r \in Rights : releases[m].claim = <<e, r>>
    BY <1>1 DEF Claims
  <1>3. ReleaseEncumbrance(e, r, GovernedBasis(m, x))
    BY <1>2 DEF Terminalized
  <1>4. QED
    BY <1>1, <1>2, <1>3, BasisIsRelease, ReleaseWrites DEF ReleaseTypeOK

LEMMA ConstraintStep ==
    ASSUME ReleaseTypeOK, AttemptsKnown, ReleaseNext
    PROVE  \/ UNCHANGED encumbrances
           \/ \E c \in Claims :
                 /\ \A d \in Claims \ {c} : encumbrances'[d] = encumbrances[d]
                 /\ UNCHANGED <<releases, evidence, discharged>>
                 /\ \/ ConstraintRecorded(c)
                    \/ ConstraintReleased(c, [kind |-> "administrative"])
                    \/ \E m \in ReleaseMandates : \E x \in Confirmed(m) :
                          /\ releases[m] # None /\ releases[m].claim = c
                          /\ ConstraintReleased(c, GovernedBasis(m, x))
  <1> DEFINE Goal ==
           \E c \in Claims :
                 /\ \A d \in Claims \ {c} : encumbrances'[d] = encumbrances[d]
                 /\ UNCHANGED <<releases, evidence, discharged>>
                 /\ \/ ConstraintRecorded(c)
                    \/ ConstraintReleased(c, [kind |-> "administrative"])
                    \/ \E m \in ReleaseMandates : \E x \in Confirmed(m) :
                          /\ releases[m] # None /\ releases[m].claim = c
                          /\ ConstraintReleased(c, GovernedBasis(m, x))
  <1>1. ASSUME Encumber, UNCHANGED releaseVars PROVE Goal
    <2>1. PICK e \in Arrangements, m \in Mandates, r \in Rights, h \in Holders,
               s \in Requestable, from \in Instants : RecordEncumbrance(e, m, r, h, s, from)
      BY <1>1 DEF Encumber
    <2>2. <<e, r>> \in Claims
      BY DEF Claims
    <2>3. [holder |-> h, scope |-> s, mandate |-> m, from |-> from, status |-> "active",
           basis |-> None] \in Encumbrance
      BY RequestableIsScope, InstantsAreNat DEF Encumbrance
    <2>4. encumbrances'[<<e, r>>] =
            [holder |-> h, scope |-> s, mandate |-> m, from |-> from, status |-> "active", basis |-> None]
      BY <2>1, <2>2 DEF RecordEncumbrance, ReleaseTypeOK, TypeOK
    <2>5. ConstraintRecorded(<<e, r>>)
      BY <2>1, <2>3, <2>4, NoneAssumption DEF RecordEncumbrance, ConstraintRecorded
    <2>6. \A d \in Claims \ {<<e, r>>} : encumbrances'[d] = encumbrances[d]
      BY <2>1, <2>2 DEF RecordEncumbrance, ReleaseTypeOK, TypeOK
    <2>7. QED
      BY <1>1, <2>2, <2>5, <2>6 DEF releaseVars
  <1>2. ASSUME Waiver, UNCHANGED releaseVars PROVE Goal
    <2>1. PICK e \in Arrangements, r \in Rights : ReleaseEncumbrance(e, r, [kind |-> "administrative"])
      BY <1>2 DEF Waiver
    <2>2. [kind |-> "administrative"] \in ReleaseBases /\ <<e, r>> \in Claims
      BY DEF ReleaseBases, Claims
    <2>3. QED
      BY <1>2, <2>1, <2>2, ReleaseWrites DEF releaseVars, ReleaseTypeOK
  <1>3. ASSUME NEW m \in ReleaseMandates, Recover(m) PROVE Goal
    <2>1. PICK x \in Confirmed(m) : Terminalized(m, x)
      BY <1>3 DEF Recover
    <2>2. x \in ReleaseExecutions /\ releases[m] # None
      BY <1>3 DEF Recover, Confirmed
    <2>3. QED
      BY <1>3, <2>1, <2>2, TerminalizedWrites DEF Recover, releaseVars
  <1>4. ASSUME NEW x \in ReleaseExecutions, Terminalize(x) PROVE Goal
    <2>1. /\ attempts[x].mandate \in ReleaseMandates
          /\ releases[attempts[x].mandate] # None
          /\ x \in Confirmed(attempts[x].mandate)
      BY <1>4 DEF Terminalize, InAttempt, AttemptsKnown, ReleaseTypeOK, Attempt
    <2>2. QED
      BY <1>4, <2>1, TerminalizedWrites DEF Terminalize
  <1>5. CASE Bootstrap \/ Tick
    BY <1>5, Zenon DEF Bootstrap, BootstrapPosition, BootstrapRefusedLate, Tick, storeVars
  <1>6. CASE UNCHANGED vars
    BY <1>6 DEF vars
  <1>7. QED
    BY <1>1, <1>2, <1>3, <1>4, <1>5, <1>6
       DEF ReleaseNext, ReleaseEnvironment, Asking, Ask, Executing, Execute, MandateAction,
           IssueRelease, AskLost, RevokeRelease, AttemptStep, ExecutorAnswers, Record, AttemptLost

LEMMA BasisNames ==
    ASSUME NEW m \in ReleaseMandates, NEW n \in ReleaseMandates,
           NEW x \in ReleaseExecutions, NEW y \in ReleaseExecutions,
           GovernedBasis(m, x) = GovernedBasis(n, y)
    PROVE  m = n /\ x = y
  BY DEF GovernedBasis

LEMMA BasisKinds ==
    ASSUME NEW m \in ReleaseMandates, NEW x \in ReleaseExecutions
    PROVE  /\ GovernedBasis(m, x) # [kind |-> "administrative"]
           /\ GovernedBasis(m, x).kind = "governed-execution"
           /\ GovernedBasis(m, x) # None
  <1>1. GovernedBasis(m, x).kind = "governed-execution"
    BY DEF GovernedBasis
  <1>2. [kind |-> "administrative"].kind = "administrative"
    OBVIOUS
  <1>3. GovernedBasis(m, x) # None
    BY BasisIsRelease, NoneAssumption
  <1>4. QED
    BY <1>1, <1>2, <1>3

LEMMA DischargedOnEvidenceStep ==
    ASSUME ReleaseInv, ReleaseNext
    PROVE  DischargedOnEvidence'
  <1> USE DEF ReleaseInv
  <1> SUFFICES ASSUME NEW c \in Claims, NEW m \in ReleaseMandates, NEW x \in ReleaseExecutions,
                      encumbrances'[c] # None, encumbrances'[c].basis = GovernedBasis(m, x)
               PROVE  /\ x \in Confirmed(m)'
                      /\ releases'[m] # None /\ releases'[m].claim = c
                      /\ releases'[m].status = "executed"
                      /\ m \in discharged'
    BY DEF DischargedOnEvidence, GovernedBasis
  <1>1. x \in Confirmed(m) /\ releases[m] # None /\ releases[m].claim = c
    <2>1. CASE encumbrances'[c] = encumbrances[c]
      BY <2>1 DEF DischargedOnEvidence
    <2>2. CASE encumbrances'[c] # encumbrances[c]
      <3>1. \/ ConstraintRecorded(c)
            \/ ConstraintReleased(c, [kind |-> "administrative"])
            \/ \E n \in ReleaseMandates : \E y \in Confirmed(n) :
                  /\ releases[n] # None /\ releases[n].claim = c
                  /\ ConstraintReleased(c, GovernedBasis(n, y))
        BY <2>2, ConstraintStep
      <3>2. ~ConstraintRecorded(c) /\ ~ConstraintReleased(c, [kind |-> "administrative"])
        BY BasisKinds DEF ConstraintRecorded, ConstraintReleased
      <3>3. PICK n \in ReleaseMandates : \E y \in Confirmed(n) :
                  /\ releases[n] # None /\ releases[n].claim = c
                  /\ ConstraintReleased(c, GovernedBasis(n, y))
        BY <3>1, <3>2
      <3>4. PICK y \in Confirmed(n) :
                  /\ releases[n] # None /\ releases[n].claim = c
                  /\ ConstraintReleased(c, GovernedBasis(n, y))
        BY <3>3
      <3>5. y \in ReleaseExecutions /\ GovernedBasis(n, y) = GovernedBasis(m, x)
        BY <3>4 DEF ConstraintReleased, Confirmed
      <3>6. QED
        BY <3>4, <3>5, BasisNames
    <2>3. QED
      BY <2>1, <2>2
  <1>2. x \in Confirmed(m)'
    BY <1>1, EvidenceRemains DEF Confirmed
  <1>3. releases'[m] # None /\ releases'[m].claim = c
    BY <1>1, MandatesRemain
  <1>4. ConfirmationSpends'
    BY ConfirmationSpendsStep
  <1>5. QED
    BY <1>2, <1>3, <1>4 DEF ConfirmationSpends

-----------------------------------------------------------------------------
(* The invariant, and what follows from it.                                *)

LEMMA ReleaseInvStep == ReleaseInv /\ [ReleaseNext]_governedReleaseVars => ReleaseInv'
  <1> SUFFICES ASSUME ReleaseInv, [ReleaseNext]_governedReleaseVars PROVE ReleaseInv'
    OBVIOUS
  <1>1. CASE ReleaseNext
    BY <1>1, ReleaseTypeStep, AttemptsKnownStep, MintedOnceStep, TargetsKnownStep,
       ConfirmationSpendsStep, OneLiveStep, DischargedOnEvidenceStep DEF ReleaseInv
  <1>2. CASE UNCHANGED governedReleaseVars
    <2>1. ReleaseTypeOK'
      BY <1>2, TypeStep DEF ReleaseInv, ReleaseTypeOK, governedReleaseVars, releaseVars
    <2>2. QED
      BY <1>2, <2>1
         DEF ReleaseInv, governedReleaseVars, releaseVars, vars, AttemptsKnown, MintedOnce,
             TargetsKnown, ConfirmationSpends, OneLive, DischargedOnEvidence, Confirmed
  <1>3. QED
    BY <1>1, <1>2

\* The state of the release service keeps its shape.
THEOREM ReleaseTypeCorrect == ReleaseSpec => []ReleaseTypeOK
  <1>1. ReleaseInv => ReleaseTypeOK
    BY DEF ReleaseInv
  <1>2. QED
    BY <1>1, ReleaseInvInit, ReleaseInvStep, PTL DEF ReleaseSpec

\* No constraint is discharged without a confirmation on record, a spent mandate
\* that names it, and an executor that has ended the arrangement.
THEOREM NothingFreedUnproven == ReleaseSpec => []DischargedOnEvidence
  <1>1. ReleaseInv => DischargedOnEvidence
    BY DEF ReleaseInv
  <1>2. QED
    BY <1>1, ReleaseInvInit, ReleaseInvStep, PTL DEF ReleaseSpec

\* A set whose members are all the same has at most one.
LEMMA AtMostOne ==
    ASSUME NEW S, \A x, y \in S : x = y
    PROVE  Cardinality(S) <= 1
  <1>1. CASE S = {}
    BY <1>1, FS_EmptySet
  <1>2. CASE S # {}
    <2>1. PICK x \in S : S = {x}
      BY <1>2
    <2>2. Cardinality({x}) = 1
      BY FS_Singleton
    <2>3. QED
      BY <2>1, <2>2
  <1>3. QED
    BY <1>1, <1>2

\* A mandate authorizes one discharge, whoever retries or races.
THEOREM MandateSpentOnce == ReleaseSpec => []SpentExactlyOnce
  <1>1. ReleaseInv => SpentExactlyOnce
    <2> SUFFICES ASSUME ReleaseInv, NEW m \in ReleaseMandates
                 PROVE  /\ Cardinality(Confirmed(m)) <= 1
                        /\ Confirmed(m) # {} <=> (releases[m] # None /\ releases[m].status = "executed")
                        /\ Confirmed(m) # {} => m \in discharged
      BY DEF SpentExactlyOnce
    <2>1. \A x, y \in Confirmed(m) : x = y
      BY DEF ReleaseInv, ConfirmationSpends
    <2>2. Cardinality(Confirmed(m)) <= 1
      BY <2>1, AtMostOne
    <2>3. QED
      BY <2>2 DEF ReleaseInv, ConfirmationSpends
  <1>2. QED
    BY <1>1, ReleaseInvInit, ReleaseInvStep, PTL DEF ReleaseSpec

\* Of the mandates that have ended one arrangement at most one is still live.
THEOREM LiveMandateAlone == ReleaseSpec => []LiveDischargesAlone
  <1>1. ReleaseInv => LiveDischargesAlone
    <2> SUFFICES ASSUME ReleaseInv, NEW c \in Claims
                 PROVE  Cardinality({m \in EndedUnder(c) : releases[m].status = "active"}) <= 1
      BY DEF LiveDischargesAlone
    <2> DEFINE L == {m \in EndedUnder(c) : releases[m].status = "active"}
    <2>1. \A m, n \in L : m = n
      BY DEF ReleaseInv, ReleaseTypeOK, OneLive, MintedOnce, EndedUnder
    <2>2. QED
      BY <2>1, AtMostOne
  <1>2. QED
    BY <1>1, ReleaseInvInit, ReleaseInvStep, PTL DEF ReleaseSpec

\* The service is a client of the store, which therefore keeps all it promises.
THEOREM ReleaseUsesStore == ReleaseSpec => Spec
  <1>1. ReleaseInit => Init
    BY DEF ReleaseInit
  <1>2. ReleaseInv /\ [ReleaseNext]_governedReleaseVars => [Next]_vars
    BY StoreStep DEF ReleaseInv, governedReleaseVars
  <1>3. QED
    BY <1>1, <1>2, ReleaseInvInit, ReleaseInvStep, PTL DEF ReleaseSpec, Spec

-----------------------------------------------------------------------------
(* The refinement.                                                         *)

\* The arrangements ended outside change only when an executor acts, and then
\* by the one its mandate names.
LEMMA EndedStep ==
    ASSUME ReleaseInv, ReleaseNext
    PROVE  \/ \A c \in Claims : (EndedUnder(c) # {})' <=> (EndedUnder(c) # {})
           \/ \E k \in Claims :
                 /\ encumbrances[k] # None
                 /\ UNCHANGED encumbrances
                 /\ \A c \in Claims : (EndedUnder(c) # {})' <=> (c = k \/ EndedUnder(c) # {})
  <1> USE DEF ReleaseInv
  <1>1. \A m \in discharged : releases[m] # None /\ releases'[m].claim = releases[m].claim
    BY MandatesRemain DEF MintedOnce, ReleaseTypeOK
  <1>2. CASE UNCHANGED discharged
    BY <1>1, <1>2 DEF EndedUnder
  <1>3. ASSUME NEW x \in ReleaseExecutions, ExecutorAnswers(x), discharged' # discharged
        PROVE  \E k \in Claims :
                 /\ encumbrances[k] # None
                 /\ UNCHANGED encumbrances
                 /\ \A c \in Claims : (EndedUnder(c) # {})' <=> (c = k \/ EndedUnder(c) # {})
    <2> DEFINE m == attempts[x].mandate
    <2>1. m \in ReleaseMandates /\ releases[m] # None
      BY <1>3 DEF ExecutorAnswers, InAttempt, AttemptsKnown, ReleaseTypeOK, Attempt
    <2>2. discharged' = discharged \cup {m}
      BY <1>3 DEF ExecutorAnswers
    <2>3. UNCHANGED <<releases, encumbrances>>
      BY <1>3 DEF ExecutorAnswers, vars
    <2>4. releases[m].claim \in Claims /\ encumbrances[releases[m].claim] # None
      BY <2>1 DEF ReleaseTypeOK, ReleaseMandate, TargetsKnown
    <2>5. \A c \in Claims : (EndedUnder(c) # {})' <=> (c = releases[m].claim \/ EndedUnder(c) # {})
      BY <2>2, <2>3 DEF EndedUnder
    <2>6. QED
      BY <2>3, <2>4, <2>5
  <1>4. QED
    BY <1>2, <1>3
       DEF ReleaseNext, ReleaseEnvironment, releaseVars, Asking, Ask, Executing, Execute,
           MandateAction, IssueRelease, AskLost, RevokeRelease, Recover, AttemptStep, Record,
           Terminalize, AttemptLost

\* The governed release of constraints keeps the promise of ConstraintDischarge.
THEOREM ReleaseImplementsDischarge == ReleaseSpec => ImplementsDischarge
  <1> DEFINE B == [c \in Claims |-> Block(c)]
             E == {c \in Claims : EndedUnder(c) # {}}
  <1>1. ReleaseInit => Discharging!DischargeInit
    BY DEF ReleaseInit, Init, Block, EndedUnder, Discharging!DischargeInit
  <1>2. ReleaseInv /\ [ReleaseNext]_governedReleaseVars =>
            [Discharging!DischargeNext]_(Discharging!dischargeVars)
    <2> SUFFICES ASSUME ReleaseInv, [ReleaseNext]_governedReleaseVars
                 PROVE  Discharging!DischargeNext \/ (B' = B /\ E' = E)
      BY DEF Discharging!dischargeVars
    <2>1. CASE UNCHANGED governedReleaseVars
      BY <2>1 DEF governedReleaseVars, releaseVars, vars, Block, EndedUnder
    <2>2. CASE ReleaseNext /\ UNCHANGED encumbrances
      <3>1. B' = B
        BY <2>2 DEF Block
      <3>2. CASE E' = E
        BY <3>1, <3>2
      <3>3. CASE E' # E
        <4>1. PICK k \in Claims :
                 /\ encumbrances[k] # None
                 /\ \A c \in Claims : (EndedUnder(c) # {})' <=> (c = k \/ EndedUnder(c) # {})
          BY <2>2, <3>3, EndedStep
        <4>2. E' = E \cup {k}
          BY <4>1
        <4>3. B[k] # "none"
          BY <4>1 DEF Block
        <4>4. QED
          BY <3>1, <4>2, <4>3 DEF Discharging!DischargeNext, Discharging!EndOutside
      <3>4. QED
        BY <3>2, <3>3
    <2>3. CASE ReleaseNext /\ ~UNCHANGED encumbrances
      <3>1. PICK c \in Claims :
                 /\ \A d \in Claims \ {c} : encumbrances'[d] = encumbrances[d]
                 /\ UNCHANGED <<releases, evidence, discharged>>
                 /\ \/ ConstraintRecorded(c)
                    \/ ConstraintReleased(c, [kind |-> "administrative"])
                    \/ \E m \in ReleaseMandates : \E x \in Confirmed(m) :
                          /\ releases[m] # None /\ releases[m].claim = c
                          /\ ConstraintReleased(c, GovernedBasis(m, x))
        BY <2>3, ConstraintStep DEF ReleaseInv
      <3>2. E' = E
        BY <3>1 DEF EndedUnder
      <3>3. B' = [B EXCEPT ![c] = Block(c)']
        BY <3>1 DEF Block
      <3>4. CASE ConstraintRecorded(c)
        <4>1. B[c] = "none" /\ Block(c)' = "blocking"
          BY <3>4 DEF ConstraintRecorded, Block
        <4>2. QED
          BY <3>2, <3>3, <4>1 DEF Discharging!DischargeNext, Discharging!Establish
      <3>5. CASE ConstraintReleased(c, [kind |-> "administrative"])
        <4>1. B[c] = "blocking" /\ Block(c)' = "waived"
          BY <3>5 DEF ConstraintReleased, Stands, Block
        <4>2. QED
          BY <3>2, <3>3, <4>1 DEF Discharging!DischargeNext, Discharging!Waive
      <3>6. ASSUME NEW m \in ReleaseMandates, NEW x \in Confirmed(m),
                   releases[m] # None, releases[m].claim = c,
                   ConstraintReleased(c, GovernedBasis(m, x))
            PROVE  Discharging!DischargeNext
        <4>1. x \in ReleaseExecutions
          BY DEF Confirmed
        <4>2. B[c] = "blocking" /\ Block(c)' = "lifted"
          BY <3>6, <4>1, BasisKinds DEF ConstraintReleased, Stands, Block
        <4>3. c \in E
          BY <3>6 DEF ReleaseInv, ConfirmationSpends, EndedUnder
        <4>4. QED
          BY <3>2, <3>3, <4>2, <4>3 DEF Discharging!DischargeNext, Discharging!Lift
      <3>7. QED
        BY <3>1, <3>4, <3>5, <3>6
    <2>4. QED
      BY <2>1, <2>2, <2>3
  <1>3. QED
    BY <1>1, <1>2, ReleaseInvInit, ReleaseInvStep, PTL
       DEF ReleaseSpec, ImplementsDischarge, Discharging!DischargeSpec
=============================================================================
