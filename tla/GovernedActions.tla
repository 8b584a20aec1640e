---------------------------- MODULE GovernedActions ----------------------------
(***************************************************************************)
(* TRANSFER and COLLATERALIZE at work on the same positions.  Each service *)
(* has its own mandate store and its own evidence; they meet in the        *)
(* Governed Authority Store, where a movement and a constraint draw on one *)
(* pool per holder and right.                                              *)
(***************************************************************************)
EXTENDS TransferGovernance, CollateralizationGovernance

actionVars == <<vars, issuanceVars, movementVars, pledgeVars>>

ActionsInit == TransferInit /\ CollateralInit

ActionsNext ==
    \/ (Environment \/ Submission(Terms)) /\ UNCHANGED movementVars /\ UNCHANGED pledgeVars
    \/ \E m \in Mandates : MandateStep(m) /\ UNCHANGED movementVars /\ UNCHANGED pledgeVars
    \/ Discharge /\ UNCHANGED issuanceVars /\ UNCHANGED movementVars /\ UNCHANGED pledgeVars
    \/ Exercise /\ UNCHANGED pledgeVars
    \/ Arrange /\ UNCHANGED movementVars

ActionsSpec == ActionsInit /\ [][ActionsNext]_actionVars

-----------------------------------------------------------------------------
(* What a step may never do.                                               *)

Over(c, h, r) == c[2] = r /\ encumbrances[c] # None /\ encumbrances[c].holder = h

\* What protects a constraint recorded ahead of its time until it binds.
HeldFor(c) == <<encumbrances[c].mandate, c[2]>> \in Standing(encumbrances[c].holder, c[2], now)

\* Between the two services a promise is broken in two ways only: by a movement
\* that was promised nothing any more when it was applied, and by a constraint
\* recorded ahead of its time that begins to bind after its reservation ended.
CapacityBrokenOnlyLateOrAhead ==
    [][\A h \in Holders, r \in Rights :
          (~Overcommitted(h, r, {}, now) /\ Overcommitted(h, r, {}, now)') =>
              \/ \E e \in Executions : JustApplied(e) /\ ~Promised(evidence[e].mandate, r)
              \/ \E c \in Claims : Over(c, h, r) /\ ComesIntoForce(c) /\ ~HeldFor(c)]_actionVars

\* A constraint is left without the authority it constrains only by a movement
\* said to be effective before the constraint was, or by the constraint binding
\* later than it was recorded: the guard of a movement is right about every
\* constraint in force at the instant the movement names.
StrandedOnlyBackdated ==
    [][\A h \in Holders, r \in Rights :
          (~Overencumbered(h, r, now) /\ Overencumbered(h, r, now)') =>
              \E c \in Claims : /\ Over(c, h, r)
                                /\ \/ ComesIntoForce(c)
                                   \/ \E e \in Executions :
                                         JustApplied(e) /\ evidence[e].at < encumbrances[c].from]_actionVars
=============================================================================
