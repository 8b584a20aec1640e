---------------------------- MODULE GovernedActionsProofs ----------------------------
(***************************************************************************)
(* What TRANSFER and COLLATERALIZE guarantee, for any number of mandates,  *)
(* reports and rights, wherever their calls stop and whatever runs between *)
(* their steps.  First what the two share, from a request to a mandate;    *)
(* then what each does under a mandate; then the two on the same           *)
(* positions.                                                              *)
(***************************************************************************)
EXTENDS GovernedActions, GovernedAuthorityStoreProofs

-----------------------------------------------------------------------------
(* FROM A REQUEST TO A MANDATE                                             *)

LEMMA TermsTyped ==
    ASSUME NEW t \in Terms
    PROVE  /\ t.from \in Holders
           /\ t.rights \in RightLists
           /\ t.scope \in Requestable
           /\ t.action = "TRANSFER" => t.to \in Holders
  BY DEF Terms, TransferTerms, CollateralTerms, DistinctRights

LEMMA RightListLength ==
    ASSUME NEW rights \in RightLists
    PROVE  Len(rights) \in 1..MaxRights
  BY BoundsAssumption DEF RightLists

-----------------------------------------------------------------------------
(* The list of what a call has acquired.                                   *)

Distinct(s) == \A i, j \in DOMAIN s : s[i] = s[j] => i = j

LEMMA TailRights ==
    ASSUME NEW s \in Seq(Rights), s # << >>, Distinct(s)
    PROVE  /\ Head(s) \in Rights
           /\ Tail(s) \in Seq(Rights)
           /\ Distinct(Tail(s))
           /\ RightsOf(Tail(s)) = RightsOf(s) \ {Head(s)}
  <1>1. Len(s) \in Nat \ {0} /\ DOMAIN s = 1..Len(s) /\ Head(s) = s[1]
    OBVIOUS
  <1>2. Tail(s) \in Seq(Rights) /\ DOMAIN Tail(s) = 1..(Len(s) - 1)
    BY <1>1
  <1>3. \A i \in DOMAIN Tail(s) : i + 1 \in DOMAIN s /\ Tail(s)[i] = s[i + 1]
    BY <1>1, <1>2
  <1>4. Distinct(Tail(s))
    BY <1>2, <1>3 DEF Distinct
  <1>5. RightsOf(Tail(s)) \subseteq RightsOf(s) \ {Head(s)}
    BY <1>1, <1>2, <1>3 DEF RightsOf, Distinct
  <1>6. ASSUME NEW i \in DOMAIN s, s[i] # Head(s)
        PROVE  s[i] \in RightsOf(Tail(s))
    <2>1. i - 1 \in DOMAIN Tail(s) /\ Tail(s)[i - 1] = s[i]
      BY <1>1, <1>2, <1>3, <1>6
    <2>2. QED
      BY <2>1 DEF RightsOf
  <1>7. QED
    BY <1>1, <1>2, <1>4, <1>5, <1>6 DEF RightsOf

LEMMA AppendRights ==
    ASSUME NEW s \in Seq(Rights), NEW r \in Rights
    PROVE  /\ Append(s, r) \in Seq(Rights)
           /\ RightsOf(Append(s, r)) = RightsOf(s) \cup {r}
           /\ (Distinct(s) /\ r \notin RightsOf(s)) => Distinct(Append(s, r))
  <1>1. Len(s) \in Nat /\ DOMAIN s = 1..Len(s)
    OBVIOUS
  <1>2. /\ Append(s, r) \in Seq(Rights)
        /\ DOMAIN Append(s, r) = 1..(Len(s) + 1)
        /\ Append(s, r)[Len(s) + 1] = r
        /\ \A i \in DOMAIN s : i \in 1..(Len(s) + 1) /\ Append(s, r)[i] = s[i]
    BY <1>1
  <1>3. \A i \in 1..(Len(s) + 1) : i = Len(s) + 1 \/ i \in DOMAIN s
    BY <1>1
  <1>4. RightsOf(Append(s, r)) = RightsOf(s) \cup {r}
    <2>1. Len(s) + 1 \in 1..(Len(s) + 1)
      BY <1>1
    <2>2. QED
      BY <1>2, <1>3, <2>1 DEF RightsOf
  <1>5. (Distinct(s) /\ r \notin RightsOf(s)) => Distinct(Append(s, r))
    BY <1>1, <1>2, <1>3 DEF Distinct, RightsOf
  <1>6. QED
    BY <1>2, <1>4, <1>5


-----------------------------------------------------------------------------
(* The inductive invariant, mandate by mandate.                            *)

Issued(m) == mandates[m] # None

\* The window of a request is open, and its list has a right left to reserve.
RequestSound(m) ==
    requests[m] # None =>
        /\ requests[m].from <= now /\ requests[m].until \in 1..(MaxTime + 1)
        /\ requests[m].phase = "reserving" => requests[m].next \in DOMAIN requests[m].terms.rights

\* A mandate is issued at the end of its request, and revoked before its
\* capacity is given back.
CallsInOrder(m) ==
    /\ Issued(m) => requests[m] # None /\ requests[m].phase = "settled"
    /\ m \in revoking => Issued(m) /\ mandates[m].status = "revoked"

\* What is reserved for a mandate is reserved of the holder it names.
HolderNamed(m) ==
    \A r \in Rights : reservations[<<m, r>>] # None =>
        requests[m] # None /\ reservations[<<m, r>>].holder = requests[m].terms.from

Backed(m) == \A r \in RightsOf(requests[m].acquired) : reservations[<<m, r>>] = ReservationOf(m)

\* Until a mandate exists its call remembers all it holds, once, and holds all
\* it remembers as it was asked for.
CallHolds(m) ==
    (requests[m] # None /\ ~Issued(m)) =>
        /\ Distinct(requests[m].acquired)
        /\ Backed(m)
        /\ HeldActive(m) \subseteq RightsOf(requests[m].acquired)

UnusedBacked(m) == (Live(m) /\ mandates[m].log = << >>) => Backed(m)

MandateSound(m) ==
    /\ RequestSound(m)
    /\ CallsInOrder(m)
    /\ HolderNamed(m)
    /\ CallHolds(m)
    /\ UnusedBacked(m)

IssuanceInv == IssuanceTypeOK /\ \A m \in Mandates : MandateSound(m)

IssuanceStep == Environment \/ Submission(Terms) \/ \E m \in Mandates : MandateStep(m)

LEMMA IssuanceInvInit == IssuanceInit => IssuanceInv
  <1> SUFFICES ASSUME IssuanceInit PROVE IssuanceInv
    OBVIOUS
  <1>1. IssuanceTypeOK
    BY TypeInit DEF IssuanceInit, IssuanceTypeOK
  <1>2. ASSUME NEW m \in Mandates PROVE MandateSound(m)
    BY DEF IssuanceInit, Init, MandateSound, RequestSound, CallsInOrder, HolderNamed, CallHolds,
           UnusedBacked, Live, Issued, Promises
  <1>3. QED
    BY <1>1, <1>2 DEF IssuanceInv

\* The invariant says what the runs check.
LEMMA InvBacked == IssuanceInv => MandateBacked
  BY DEF IssuanceInv, MandateSound, UnusedBacked, Backed, MandateBacked

LEMMA InvKnowsAll == IssuanceInv => CompensationKnowsAll
  <1> SUFFICES ASSUME IssuanceInv, NEW m \in Mandates, requests[m] # None, mandates[m] = None
               PROVE  HeldActive(m) = RightsOf(requests[m].acquired)
    BY DEF CompensationKnowsAll
  <1>1. Backed(m) /\ HeldActive(m) \subseteq RightsOf(requests[m].acquired)
    BY DEF IssuanceInv, MandateSound, CallHolds, Issued
  <1>2. requests[m].acquired \in Seq(Rights)
    BY DEF IssuanceInv, IssuanceTypeOK, Request
  <1>3. RightsOf(requests[m].acquired) \subseteq Rights
    BY <1>2 DEF RightsOf
  <1>4. \A r \in RightsOf(requests[m].acquired) :
            reservations[<<m, r>>] \in Reservation /\ reservations[<<m, r>>].status = "active"
    <2>1. SUFFICES ASSUME NEW r \in RightsOf(requests[m].acquired)
                   PROVE  reservations[<<m, r>>] \in Reservation /\ reservations[<<m, r>>].status = "active"
      OBVIOUS
    <2>2. ReservationOf(m) \in Reservation
      BY RequestableIsScope, TermsTyped
         DEF IssuanceInv, IssuanceTypeOK, Request, ReservationOf, Reservation, ReservationStatus
    <2>3. QED
      BY <1>1, <2>2 DEF Backed, ReservationOf
  <1>5. QED
    BY <1>1, <1>3, <1>4, NoneAssumption DEF HeldActive

-----------------------------------------------------------------------------
(* The services are clients of the store: each step is one of the store's, *)
(* or leaves the store alone.                                              *)

LEMMA NextRightTyped ==
    ASSUME IssuanceTypeOK, NEW m \in Mandates, RequestSound(m), InPhase(m, "reserving")
    PROVE  /\ requests[m] \in Request
           /\ requests[m].terms \in Terms
           /\ requests[m].next \in DOMAIN requests[m].terms.rights
           /\ NextRight(m) \in Rights
  <1>1. requests[m] \in Request
    BY DEF IssuanceTypeOK, InPhase
  <1>2. requests[m].terms \in Terms /\ requests[m].next \in DOMAIN requests[m].terms.rights
    BY <1>1 DEF Request, RequestSound, InPhase
  <1>3. requests[m].terms.rights \in RightLists
    BY <1>2, TermsTyped
  <1>4. QED
    BY <1>1, <1>2, <1>3, RightListIsSeq DEF NextRight

LEMMA ReserveIsAcquire ==
    ASSUME IssuanceTypeOK, NEW m \in Mandates, RequestSound(m), Reserve(m)
    PROVE  Acquire
  <1>1. /\ requests[m].terms \in Terms
        /\ NextRight(m) \in Rights
        /\ requests[m] # None
        /\ requests[m].from \in Nat
    BY NextRightTyped DEF Reserve, InPhase, Request
  <1>2. requests[m].from \in 0..now /\ requests[m].until \in 1..(MaxTime + 1)
    BY <1>1 DEF RequestSound, IssuanceTypeOK, TypeOK
  <1>3. AcquireReservation(m, NextRight(m), requests[m].terms.from, requests[m].terms.scope,
                           requests[m].from, requests[m].until)
    BY DEF Reserve
  <1>4. QED
    BY <1>1, <1>2, <1>3, TermsTyped DEF Acquire

LEMMA UndoIsRelease ==
    ASSUME IssuanceTypeOK, NEW m \in Mandates, Undo(m)
    PROVE  Head(requests[m].acquired) \in Rights /\ Release
  <1>1. requests[m].acquired \in Seq(Rights) /\ requests[m].acquired # << >>
    BY DEF Undo, InPhase, IssuanceTypeOK, Request
  <1>2. Head(requests[m].acquired) \in Rights
    BY <1>1
  <1>3. QED
    BY <1>2 DEF Undo, Release

LEMMA ReleaseHeldIsRelease == ASSUME NEW m \in Mandates, ReleaseHeld(m) PROVE Release
  BY DEF ReleaseHeld, HeldActive, Release

LEMMA IssuanceUsesStore == ASSUME IssuanceInv, IssuanceStep PROVE [Next]_vars
  <1>1. CASE Environment
    BY <1>1 DEF Environment, Next
  <1>2. CASE Submission(Terms)
    BY <1>2 DEF Submission, Submit
  <1>3. ASSUME NEW m \in Mandates, MandateStep(m)
        PROVE  [Next]_vars
    <2>1. IssuanceTypeOK /\ RequestSound(m)
      BY DEF IssuanceInv, MandateSound
    <2>2. CASE Reserve(m)
      BY <2>1, <2>2, ReserveIsAcquire DEF Next
    <2>3. CASE Undo(m)
      BY <2>1, <2>3, UndoIsRelease DEF Next
    <2>4. CASE ReleaseHeld(m)
      BY <2>4, ReleaseHeldIsRelease DEF Next
    <2>5. CASE ~(Reserve(m) \/ Undo(m) \/ ReleaseHeld(m))
      BY <1>3, <2>5 DEF MandateStep, RequestStep, ReserveNotEnrolled, Issue, Fail, UndoDone,
                        Abandon, Revoke, RevokeEnds
    <2>6. QED
      BY <2>2, <2>3, <2>4, <2>5
  <1>4. QED
    BY <1>1, <1>2, <1>3 DEF IssuanceStep

-----------------------------------------------------------------------------
(* Type correctness.                                                       *)

LEMMA AdvancedTyped ==
    ASSUME IssuanceTypeOK, NEW m \in Mandates, RequestSound(m), InPhase(m, "reserving")
    PROVE  /\ Advanced(requests[m]) \in Request
           /\ Advanced(requests[m]).terms = requests[m].terms
           /\ Advanced(requests[m]).from = requests[m].from
           /\ Advanced(requests[m]).until = requests[m].until
           /\ Advanced(requests[m]).acquired = requests[m].acquired
           /\ Advanced(requests[m]).phase = "reserving" =>
                 Advanced(requests[m]).next \in DOMAIN requests[m].terms.rights
           /\ Advanced(requests[m]).phase \in {"reserving", "issuing"}
  <1> DEFINE q == requests[m]
  <1> DEFINE phase == IF q.next = Len(q.terms.rights) THEN "issuing" ELSE q.phase
  <1>1. q \in Request /\ q.terms \in Terms /\ q.next \in DOMAIN q.terms.rights
    BY NextRightTyped
  <1>2. /\ q.terms.rights \in RightLists
        /\ Len(q.terms.rights) \in 1..MaxRights
        /\ DOMAIN q.terms.rights = 1..Len(q.terms.rights)
    BY <1>1, TermsTyped, RightListLength, RightListIsSeq
  <1>3. q.next + 1 \in 1..(MaxRights + 1) /\ MaxRights \in Nat
    BY <1>1, <1>2, BoundsAssumption
  <1>4. phase \in Phases /\ phase \in {"reserving", "issuing"}
    BY DEF Phases, InPhase
  <1>5. Advanced(q) = [q EXCEPT !.next = q.next + 1, !.phase = phase]
    BY DEF Advanced
  <1>6. Advanced(q).next = q.next + 1 /\ Advanced(q).phase = phase
    BY <1>1, <1>5 DEF Request
  <1>7. phase = "reserving" => q.next + 1 \in DOMAIN q.terms.rights
    BY <1>1, <1>2
  <1>8. Advanced(q) \in Request
    BY <1>1, <1>3, <1>4, <1>5 DEF Request
  <1>9. QED
    BY <1>1, <1>4, <1>5, <1>6, <1>7, <1>8 DEF Request

-----------------------------------------------------------------------------
(* One step of a call.                                                     *)

Untouched(n) ==
    /\ requests'[n] = requests[n]
    /\ mandates'[n] = mandates[n]
    /\ n \in revoking' <=> n \in revoking
    /\ \A r \in Rights : reservations'[<<n, r>>] = reservations[<<n, r>>]

LEMMA AcquiredTyped ==
    ASSUME IssuanceTypeOK, NEW m \in Mandates, requests[m] # None
    PROVE  requests[m] \in Request /\ RightsOf(requests[m].acquired) \subseteq Rights
  <1>1. requests[m] \in Request
    BY DEF IssuanceTypeOK
  <1>2. requests[m].acquired \in Seq(Rights)
    BY <1>1 DEF Request
  <1>3. QED
    BY <1>1, <1>2 DEF RightsOf

LEMMA UntouchedSound ==
    ASSUME IssuanceTypeOK, now' \in Nat, now <= now',
           NEW n \in Mandates, MandateSound(n), Untouched(n)
    PROVE  MandateSound(n)'
  <1> USE DEF Untouched
  <1>1. RequestSound(n)'
    <2>1. requests[n] # None => requests[n].from \in Nat
      BY DEF IssuanceTypeOK, Request
    <2>2. QED
      BY <2>1 DEF MandateSound, RequestSound, IssuanceTypeOK, TypeOK
  <1>2. CallsInOrder(n)' /\ HolderNamed(n)'
    BY DEF MandateSound, CallsInOrder, HolderNamed, Issued
  <1>3. requests[n] # None => (Backed(n)' <=> Backed(n)) /\ HeldActive(n)' = HeldActive(n)
    BY AcquiredTyped DEF Backed, ReservationOf, HeldActive
  <1>4. CallHolds(n)'
    BY <1>3 DEF MandateSound, CallHolds, Issued
  <1>5. UnusedBacked(n)'
    BY <1>3 DEF MandateSound, UnusedBacked, Live, CallsInOrder, Issued
  <1>6. QED
    BY <1>1, <1>2, <1>4, <1>5 DEF MandateSound

\* A step that advances a call of m without touching what it holds.
Advances(m) ==
    /\ requests[m] # None
    /\ requests'[m] # None
    /\ requests'[m].terms = requests[m].terms
    /\ requests'[m].from = requests[m].from
    /\ requests'[m].until = requests[m].until
    /\ requests'[m].acquired = requests[m].acquired
    /\ requests'[m].phase = "reserving" => requests'[m].next \in DOMAIN requests[m].terms.rights
    /\ UNCHANGED <<reservations, mandates, revoking, now>>
    /\ ~Issued(m)

LEMMA AdvancesSound ==
    ASSUME IssuanceTypeOK, NEW m \in Mandates, MandateSound(m), Advances(m)
    PROVE  MandateSound(m)'
  <1> USE DEF Advances
  <1>1. RequestSound(m)' /\ CallsInOrder(m)' /\ HolderNamed(m)'
    BY DEF MandateSound, RequestSound, CallsInOrder, HolderNamed, Issued
  <1>2. (Backed(m)' <=> Backed(m)) /\ HeldActive(m)' = HeldActive(m)
    BY DEF Backed, ReservationOf, HeldActive
  <1>3. CallHolds(m)' /\ UnusedBacked(m)'
    BY <1>2 DEF MandateSound, CallHolds, UnusedBacked, Live, Issued
  <1>4. QED
    BY <1>1, <1>3 DEF MandateSound

IssuanceRecords ==
    /\ requests \in [Mandates -> Request \cup {None}]
    /\ mandates \in [Mandates -> Mandate \cup {None}]
    /\ revoking \subseteq Mandates

Kept(m) == IssuanceRecords' /\ MandateSound(m)' /\ \A n \in Mandates \ {m} : Untouched(n)

LEMMA SubmitSound ==
    ASSUME IssuanceInv, NEW m \in Mandates, NEW t \in Terms, NEW until \in (now + 1)..(MaxTime + 1),
           Submit(m, t, until)
    PROVE  Kept(m)
  <1> DEFINE q == [terms |-> t, from |-> now, until |-> until, phase |-> "reserving",
                   next |-> 1, acquired |-> << >>]
  <1>1. now \in Nat /\ MaxTime \in Nat /\ MaxRights \in Nat /\ until \in Nat /\ until \in 1..(MaxTime + 1)
    BY BoundsAssumption DEF IssuanceInv, IssuanceTypeOK, TypeOK
  <1>2. t.rights \in RightLists /\ Len(t.rights) \in 1..MaxRights
    BY TermsTyped, RightListLength
  <1>3. 1 \in 1..(MaxRights + 1) /\ 1 \in DOMAIN t.rights
    BY <1>1, <1>2, RightListIsSeq
  <1>4. q \in Request
    BY <1>1, <1>3 DEF Request, Phases
  <1>5. /\ requests \in [Mandates -> Request \cup {None}]
        /\ requests[m] = None
        /\ requests' = [requests EXCEPT ![m] = q]
        /\ UNCHANGED <<vars, mandates, revoking>>
    BY DEF Submit, IssuanceInv, IssuanceTypeOK
  <1>6. IssuanceRecords'
    BY <1>4, <1>5 DEF IssuanceRecords, IssuanceInv, IssuanceTypeOK
  <1>7. requests'[m] = q
    BY <1>5
  <1>8. /\ ~Issued(m) /\ m \notin revoking
        /\ \A r \in Rights : reservations[<<m, r>>] = None
    BY <1>5 DEF IssuanceInv, MandateSound, CallsInOrder, HolderNamed, Issued
  <1>9. RequestSound(m)'
    BY <1>1, <1>3, <1>5, <1>7 DEF RequestSound, vars
  <1>10. CallsInOrder(m)' /\ HolderNamed(m)' /\ UnusedBacked(m)'
    BY <1>5, <1>8 DEF CallsInOrder, HolderNamed, UnusedBacked, Live, Issued, vars
  <1>11. CallHolds(m)'
    <2>1. requests'[m].acquired = << >> /\ RightsOf(requests'[m].acquired) = {}
      BY <1>7 DEF RightsOf
    <2>2. HeldActive(m)' = {}
      BY <1>5, <1>8 DEF HeldActive, vars
    <2>3. QED
      BY <2>1, <2>2 DEF CallHolds, Backed, Distinct
  <1>12. QED
    BY <1>5, <1>6, <1>9, <1>10, <1>11 DEF Kept, MandateSound, Untouched, vars

LEMMA ReserveSound ==
    ASSUME IssuanceInv, NEW m \in Mandates, Reserve(m)
    PROVE  Kept(m)
  <1> DEFINE r == NextRight(m)
  <1> DEFINE q == requests[m]
  <1> DEFINE a == Advanced(q)
  <1> DEFINE b == [a EXCEPT !.acquired = Append(a.acquired, r)]
  <1>1. IssuanceTypeOK /\ MandateSound(m) /\ RequestSound(m) /\ InPhase(m, "reserving")
    BY DEF IssuanceInv, MandateSound, Reserve
  <1>2. q \in Request /\ q # None /\ r \in Rights /\ q.acquired \in Seq(Rights)
    BY <1>1, NextRightTyped DEF Request, InPhase
  <1>3. /\ a \in Request /\ a.terms = q.terms /\ a.from = q.from /\ a.until = q.until
        /\ a.acquired = q.acquired
        /\ a.phase = "reserving" => a.next \in DOMAIN q.terms.rights
    BY <1>1, AdvancedTyped
  <1>4. /\ b \in Request /\ b.terms = q.terms /\ b.from = q.from /\ b.until = q.until
        /\ b.acquired = Append(q.acquired, r)
        /\ b.phase = "reserving" => b.next \in DOMAIN q.terms.rights
    <2>1. Append(q.acquired, r) \in Seq(Rights)
      BY <1>2
    <2>2. QED
      BY <1>3, <2>1 DEF Request
  <1>5. /\ requests' = [requests EXCEPT ![m] = b]
        /\ UNCHANGED <<mandates, revoking, now>>
        /\ reservations[<<m, r>>] = None
        /\ reservations' = [reservations EXCEPT ![<<m, r>>] = ReservationOf(m)]
    BY DEF Reserve, AcquireReservation, ReservationOf
  <1>6. /\ requests \in [Mandates -> Request \cup {None}]
        /\ reservations \in [Promises -> Reservation \cup {None}]
    BY <1>1 DEF IssuanceTypeOK, TypeOK
  <1>7. IssuanceRecords' /\ requests'[m] = b
    BY <1>1, <1>4, <1>5, <1>6 DEF IssuanceRecords, IssuanceTypeOK
  <1>8. /\ reservations'[<<m, r>>] = ReservationOf(m)
        /\ \A n \in Mandates, x \in Rights : <<n, x>> # <<m, r>> =>
              reservations'[<<n, x>>] = reservations[<<n, x>>]
    BY <1>2, <1>5, <1>6 DEF Promises
  <1>9. \A n \in Mandates \ {m} : Untouched(n)
    BY <1>5, <1>6, <1>8 DEF Untouched
  <1>10. b # None /\ ReservationOf(m)' = ReservationOf(m) /\ ReservationOf(m).holder = q.terms.from
    BY <1>4, <1>7, IssuanceAssumption DEF ReservationOf
  <1>11. RequestSound(m)' /\ HolderNamed(m)'
    <2>1. RequestSound(m)'
      BY <1>1, <1>2, <1>4, <1>5, <1>7 DEF RequestSound
    <2>2. \A x \in Rights : x # r => reservations'[<<m, x>>] = reservations[<<m, x>>]
      BY <1>8
    <2>3. \A x \in Rights : reservations[<<m, x>>] # None => reservations[<<m, x>>].holder = q.terms.from
      BY <1>1 DEF MandateSound, HolderNamed
    <2>4. HolderNamed(m)'
      BY <1>4, <1>7, <1>8, <1>10, <2>2, <2>3 DEF HolderNamed
    <2>5. QED
      BY <2>1, <2>4
  <1>12. ~Issued(m) /\ m \notin revoking
    BY <1>1 DEF MandateSound, CallsInOrder, InPhase, Issued
  <1>13. CallsInOrder(m)' /\ UnusedBacked(m)'
    BY <1>5, <1>12 DEF CallsInOrder, UnusedBacked, Live, Issued
  <1>14. Distinct(q.acquired) /\ Backed(m) /\ HeldActive(m) \subseteq RightsOf(q.acquired)
    BY <1>1, <1>2, <1>12 DEF MandateSound, CallHolds
  <1>15. RightsOf(q.acquired) \subseteq Rights
    BY <1>1, <1>2, AcquiredTyped
  <1>16. r \notin RightsOf(q.acquired)
    <2>1. ReservationOf(m) # None
      <3>1. ReservationOf(m) \in Reservation
        BY <1>2, RequestableIsScope, TermsTyped
           DEF ReservationOf, Request, Reservation, ReservationStatus
      <3>2. QED
        BY <3>1, NoneAssumption
    <2>2. QED
      BY <1>5, <1>14, <2>1 DEF Backed
  <1>17. RightsOf(requests'[m].acquired) = RightsOf(q.acquired) \cup {r} /\ Distinct(requests'[m].acquired)
    BY <1>2, <1>4, <1>7, <1>14, <1>16, AppendRights
  <1>18. Backed(m)'
    <2>1. \A x \in RightsOf(q.acquired) : x # r => reservations'[<<m, x>>] = ReservationOf(m)
      BY <1>8, <1>14, <1>15 DEF Backed
    <2>2. QED
      BY <1>8, <1>10, <1>17, <2>1 DEF Backed
  <1>19. HeldActive(m)' \subseteq RightsOf(requests'[m].acquired)
    BY <1>2, <1>8, <1>14, <1>17 DEF HeldActive
  <1>20. CallHolds(m)'
    BY <1>18, <1>19, <1>17 DEF CallHolds
  <1>21. QED
    BY <1>7, <1>9, <1>11, <1>13, <1>20 DEF Kept, MandateSound

LEMMA CallStepSound ==
    ASSUME IssuanceInv, NEW m \in Mandates,
           ReserveNotEnrolled(m) \/ Fail(m) \/ UndoDone(m) \/ Abandon(m)
    PROVE  Kept(m)
  <1>1. /\ IssuanceTypeOK /\ MandateSound(m) /\ RequestSound(m)
        /\ requests \in [Mandates -> Request \cup {None}]
    BY DEF IssuanceInv, MandateSound, IssuanceTypeOK
  <1>2. requests[m] # None /\ requests[m] \in Request /\ requests[m].phase # "settled"
    BY <1>1 DEF ReserveNotEnrolled, Fail, UndoDone, Abandon, InPhase
  <1>3. ~Issued(m)
    BY <1>1, <1>2 DEF MandateSound, CallsInOrder, Issued
  <1>4. UNCHANGED <<vars, mandates, revoking>>
    BY DEF ReserveNotEnrolled, Fail, UndoDone, Abandon
  <1>5. \E q \in Request :
          /\ requests' = [requests EXCEPT ![m] = q]
          /\ q.terms = requests[m].terms /\ q.from = requests[m].from
          /\ q.until = requests[m].until /\ q.acquired = requests[m].acquired
          /\ q.phase = "reserving" => q.next \in DOMAIN requests[m].terms.rights
    <2>1. CASE ReserveNotEnrolled(m)
      BY <1>1, <2>1, AdvancedTyped DEF ReserveNotEnrolled
    <2>2. CASE Fail(m) \/ UndoDone(m) \/ Abandon(m)
      <3>1. PICK phase \in {"undoing", "settled"} : requests' = [requests EXCEPT ![m].phase = phase]
        BY <2>2 DEF Fail, UndoDone, Abandon
      <3>2. [requests[m] EXCEPT !.phase = phase] \in Request
        BY <1>2 DEF Request, Phases
      <3>3. QED
        BY <1>1, <1>2, <3>1, <3>2 DEF Request
    <2>3. QED
      BY <2>1, <2>2
  <1>6. PICK q \in Request :
          /\ requests' = [requests EXCEPT ![m] = q]
          /\ q.terms = requests[m].terms /\ q.from = requests[m].from
          /\ q.until = requests[m].until /\ q.acquired = requests[m].acquired
          /\ q.phase = "reserving" => q.next \in DOMAIN requests[m].terms.rights
    BY <1>5
  <1>7. requests'[m] = q /\ q # None
    BY <1>1, <1>6, IssuanceAssumption
  <1>8. IssuanceRecords'
    BY <1>1, <1>4, <1>6 DEF IssuanceRecords, IssuanceTypeOK
  <1>9. Advances(m)
    BY <1>2, <1>3, <1>4, <1>6, <1>7 DEF Advances, vars
  <1>10. \A n \in Mandates \ {m} : Untouched(n)
    BY <1>1, <1>4, <1>6 DEF Untouched, vars
  <1>11. QED
    BY <1>1, <1>8, <1>9, <1>10, AdvancesSound DEF Kept

LEMMA IssueSound ==
    ASSUME IssuanceInv, NEW m \in Mandates, Issue(m)
    PROVE  Kept(m)
  <1> DEFINE q == [requests[m] EXCEPT !.phase = "settled"]
  <1> DEFINE d == [status |-> "active", log |-> << >>]
  <1>1. /\ IssuanceTypeOK /\ MandateSound(m)
        /\ requests \in [Mandates -> Request \cup {None}]
        /\ mandates \in [Mandates -> Mandate \cup {None}]
    BY DEF IssuanceInv, MandateSound, IssuanceTypeOK
  <1>2. requests[m] # None /\ requests[m] \in Request /\ requests[m].phase # "settled"
    BY <1>1 DEF Issue, InPhase
  <1>3. ~Issued(m) /\ m \notin revoking
    BY <1>1, <1>2 DEF MandateSound, CallsInOrder, Issued
  <1>4. /\ requests' = [requests EXCEPT ![m] = q]
        /\ mandates' = [mandates EXCEPT ![m] = d]
        /\ UNCHANGED <<vars, revoking>>
    BY DEF Issue
  <1>5. /\ q \in Request /\ d \in Mandate /\ q.phase = "settled"
        /\ q.terms = requests[m].terms /\ q.from = requests[m].from
        /\ q.until = requests[m].until /\ q.acquired = requests[m].acquired
    BY <1>2 DEF Request, Phases, Mandate
  <1>6. requests'[m] = q /\ mandates'[m] = d /\ q # None /\ d # None
    BY <1>1, <1>4, <1>5, IssuanceAssumption
  <1>7. IssuanceRecords'
    BY <1>1, <1>4, <1>5 DEF IssuanceRecords, IssuanceTypeOK
  <1>8. \A n \in Mandates \ {m} : Untouched(n)
    BY <1>1, <1>4 DEF Untouched, vars
  <1>9. RequestSound(m)'
    BY <1>1, <1>2, <1>4, <1>5, <1>6 DEF MandateSound, RequestSound, vars
  <1>10. CallsInOrder(m)'
    BY <1>3, <1>4, <1>5, <1>6 DEF CallsInOrder, Issued
  <1>11. HolderNamed(m)'
    BY <1>1, <1>4, <1>5, <1>6 DEF MandateSound, HolderNamed, vars
  <1>12. Backed(m)'
    BY <1>1, <1>2, <1>3, <1>4, <1>5, <1>6 DEF MandateSound, CallHolds, Backed, ReservationOf, vars
  <1>13. CallHolds(m)' /\ UnusedBacked(m)'
    BY <1>6, <1>12 DEF CallHolds, UnusedBacked, Issued
  <1>14. QED
    BY <1>7, <1>8, <1>9, <1>10, <1>11, <1>13 DEF Kept, MandateSound

\* Releasing an active reservation changes its status and nothing else.
LEMMA ReleaseWrites ==
    ASSUME TypeOK, NEW m \in Mandates, NEW r \in Rights, ReleaseReservation(m, r)
    PROVE  /\ reservations'[<<m, r>>] # None
           /\ reservations'[<<m, r>>].status = "released"
           /\ reservations'[<<m, r>>].holder = reservations[<<m, r>>].holder
           /\ \A n \in Mandates, x \in Rights : <<n, x>> # <<m, r>> =>
                 reservations'[<<n, x>>] = reservations[<<n, x>>]
  <1>1. reservations[<<m, r>>] \in Reservation /\ reservations \in [Promises -> Reservation \cup {None}]
    BY DEF TypeOK, ReleaseReservation, Promises
  <1>2. [reservations[<<m, r>>] EXCEPT !.status = "released"] \in Reservation
    BY <1>1 DEF Reservation, ReservationStatus
  <1>3. reservations' = [reservations EXCEPT ![<<m, r>>] = [reservations[<<m, r>>] EXCEPT !.status = "released"]]
    BY DEF ReleaseReservation
  <1>4. reservations'[<<m, r>>] = [reservations[<<m, r>>] EXCEPT !.status = "released"]
    BY <1>1, <1>3 DEF Promises
  <1>5. QED
    BY <1>1, <1>2, <1>3, <1>4, NoneAssumption DEF Promises, Reservation

LEMMA UndoSound ==
    ASSUME IssuanceInv, NEW m \in Mandates, Undo(m)
    PROVE  Kept(m)
  <1> DEFINE r == Head(requests[m].acquired)
  <1> DEFINE q == [requests[m] EXCEPT !.acquired = Tail(requests[m].acquired)]
  <1>1. /\ IssuanceTypeOK /\ MandateSound(m) /\ TypeOK
        /\ requests \in [Mandates -> Request \cup {None}]
    BY DEF IssuanceInv, MandateSound, IssuanceTypeOK
  <1>2. /\ requests[m] # None /\ requests[m] \in Request /\ requests[m].phase = "undoing"
        /\ requests[m].acquired \in Seq(Rights) /\ requests[m].acquired # << >>
    BY <1>1 DEF Undo, InPhase, Request
  <1>3. ~Issued(m) /\ m \notin revoking
    BY <1>1, <1>2 DEF MandateSound, CallsInOrder, Issued
  <1>4. Distinct(requests[m].acquired) /\ Backed(m) /\ HeldActive(m) \subseteq RightsOf(requests[m].acquired)
    BY <1>1, <1>2, <1>3 DEF MandateSound, CallHolds
  <1>5. /\ r \in Rights /\ Tail(requests[m].acquired) \in Seq(Rights)
        /\ Distinct(Tail(requests[m].acquired))
        /\ RightsOf(Tail(requests[m].acquired)) = RightsOf(requests[m].acquired) \ {r}
    BY <1>2, <1>4, TailRights
  <1>6. /\ requests' = [requests EXCEPT ![m] = q]
        /\ ReleaseReservation(m, r)
        /\ UNCHANGED <<mandates, revoking, now>>
    BY DEF Undo, ReleaseReservation
  <1>7. /\ q \in Request /\ q.phase = "undoing" /\ q.acquired = Tail(requests[m].acquired)
        /\ q.terms = requests[m].terms /\ q.from = requests[m].from /\ q.until = requests[m].until
    BY <1>2, <1>5 DEF Request
  <1>8. requests'[m] = q /\ q # None
    BY <1>1, <1>6, <1>7, IssuanceAssumption
  <1>9. /\ reservations'[<<m, r>>] # None
        /\ reservations'[<<m, r>>].status = "released"
        /\ reservations'[<<m, r>>].holder = reservations[<<m, r>>].holder
        /\ \A n \in Mandates, x \in Rights : <<n, x>> # <<m, r>> =>
              reservations'[<<n, x>>] = reservations[<<n, x>>]
    BY <1>1, <1>5, <1>6, ReleaseWrites
  <1>10. \A x \in Rights : x # r => reservations'[<<m, x>>] = reservations[<<m, x>>]
    BY <1>9
  <1>11. IssuanceRecords'
    BY <1>1, <1>6, <1>7 DEF IssuanceRecords, IssuanceTypeOK
  <1>12. \A n \in Mandates \ {m} : Untouched(n)
    BY <1>1, <1>6, <1>9 DEF Untouched
  <1>13. RequestSound(m)' /\ CallsInOrder(m)' /\ UnusedBacked(m)'
    BY <1>1, <1>2, <1>3, <1>6, <1>7, <1>8
       DEF MandateSound, RequestSound, CallsInOrder, UnusedBacked, Live, Issued
  <1>14. HolderNamed(m)'
    <2>1. reservations[<<m, r>>] # None
      BY <1>6 DEF ReleaseReservation
    <2>2. QED
      BY <1>1, <1>5, <1>7, <1>8, <1>9, <1>10, <2>1 DEF MandateSound, HolderNamed
  <1>15. RightsOf(requests[m].acquired) \subseteq Rights
    BY <1>1, <1>2, AcquiredTyped
  <1>16. Backed(m)'
    BY <1>4, <1>5, <1>7, <1>8, <1>10, <1>15 DEF Backed, ReservationOf
  <1>17. HeldActive(m)' \subseteq RightsOf(requests'[m].acquired)
    BY <1>4, <1>5, <1>7, <1>8, <1>9, <1>10 DEF HeldActive
  <1>18. CallHolds(m)'
    BY <1>5, <1>7, <1>8, <1>16, <1>17 DEF CallHolds
  <1>19. QED
    BY <1>11, <1>12, <1>13, <1>14, <1>18 DEF Kept, MandateSound

LEMMA RevocationSound ==
    ASSUME IssuanceInv, NEW m \in Mandates, Revoke(m) \/ ReleaseHeld(m) \/ RevokeEnds(m)
    PROVE  Kept(m)
  <1>1. /\ IssuanceTypeOK /\ MandateSound(m) /\ TypeOK
        /\ mandates \in [Mandates -> Mandate \cup {None}]
    BY DEF IssuanceInv, MandateSound, IssuanceTypeOK
  <1>2. Issued(m) /\ mandates[m] \in Mandate /\ requests[m] # None
    BY <1>1 DEF Revoke, ReleaseHeld, RevokeEnds, MandateSound, CallsInOrder, Issued
  <1>3. CASE Revoke(m)
    <2>1. [mandates[m] EXCEPT !.status = "revoked"] \in Mandate
      BY <1>2 DEF Mandate
    <2>2. /\ mandates' = [mandates EXCEPT ![m] = [mandates[m] EXCEPT !.status = "revoked"]]
          /\ revoking' = revoking \cup {m}
          /\ UNCHANGED <<vars, requests>>
      BY <1>3 DEF Revoke
    <2>3. mandates'[m] # None /\ mandates'[m].status = "revoked"
      BY <1>1, <1>2, <2>1, <2>2, IssuanceAssumption DEF Mandate
    <2>4. IssuanceRecords'
      BY <1>1, <2>1, <2>2 DEF IssuanceRecords, IssuanceTypeOK
    <2>5. \A n \in Mandates \ {m} : Untouched(n)
      BY <1>1, <2>2 DEF Untouched, vars
    <2>6. RequestSound(m)' /\ CallsInOrder(m)' /\ HolderNamed(m)' /\ CallHolds(m)' /\ UnusedBacked(m)'
      BY <1>1, <1>2, <2>2, <2>3
         DEF MandateSound, RequestSound, CallsInOrder, HolderNamed, CallHolds, UnusedBacked,
             Live, Issued, vars
    <2>7. QED
      BY <2>4, <2>5, <2>6 DEF Kept, MandateSound
  <1>4. CASE ReleaseHeld(m)
    <2>1. PICK r \in Rights : ReleaseReservation(m, r)
      BY <1>4 DEF ReleaseHeld, HeldActive
    <2>2. /\ reservations[<<m, r>>] # None
          /\ reservations'[<<m, r>>].holder = reservations[<<m, r>>].holder
          /\ \A n \in Mandates, x \in Rights : <<n, x>> # <<m, r>> =>
                reservations'[<<n, x>>] = reservations[<<n, x>>]
      BY <1>1, <2>1, ReleaseWrites DEF ReleaseReservation
    <2>3. UNCHANGED <<requests, mandates, revoking, now>>
      BY <1>4, <2>1 DEF ReleaseHeld, ReleaseReservation, issuanceVars
    <2>4. IssuanceRecords'
      BY <1>1, <2>3 DEF IssuanceRecords, IssuanceTypeOK
    <2>5. \A n \in Mandates \ {m} : Untouched(n)
      BY <2>2, <2>3 DEF Untouched
    <2>6. mandates[m].status = "revoked"
      BY <1>1, <1>4 DEF ReleaseHeld, MandateSound, CallsInOrder
    <2>7. RequestSound(m)' /\ CallsInOrder(m)' /\ CallHolds(m)' /\ UnusedBacked(m)'
      BY <1>1, <1>2, <2>3, <2>6
         DEF MandateSound, RequestSound, CallsInOrder, CallHolds, UnusedBacked, Live, Issued
    <2>8. HolderNamed(m)'
      <3>1. \A x \in Rights : x # r => reservations'[<<m, x>>] = reservations[<<m, x>>]
        BY <2>2
      <3>2. QED
        BY <1>1, <2>2, <2>3, <3>1 DEF MandateSound, HolderNamed
    <2>9. QED
      BY <2>4, <2>5, <2>7, <2>8 DEF Kept, MandateSound
  <1>5. CASE RevokeEnds(m)
    <2>1. IssuanceRecords' /\ \A n \in Mandates \ {m} : Untouched(n)
      BY <1>1, <1>5 DEF IssuanceRecords, IssuanceTypeOK, RevokeEnds, Untouched, vars
    <2>2. RequestSound(m)' /\ CallsInOrder(m)' /\ HolderNamed(m)' /\ CallHolds(m)' /\ UnusedBacked(m)'
      BY <1>1, <1>2, <1>5
         DEF RevokeEnds, MandateSound, RequestSound, CallsInOrder, HolderNamed, CallHolds,
             UnusedBacked, Backed, ReservationOf, Live, Issued, vars
    <2>3. QED
      BY <2>1, <2>2 DEF Kept, MandateSound
  <1>6. QED
    BY <1>3, <1>4, <1>5

-----------------------------------------------------------------------------
(* The invariant is inductive over the steps the services share, and kept  *)
(* by whatever is done under a mandate, as long as that is logged.         *)

LEMMA EnvironmentSound ==
    ASSUME IssuanceInv, Environment
    PROVE  IssuanceRecords' /\ \A n \in Mandates : MandateSound(n)'
  <1>1. UNCHANGED <<reservations, requests, mandates, revoking>>
    BY DEF Environment, Bootstrap, BootstrapPosition, BootstrapRefusedLate, Tick, storeVars,
           issuanceVars
  <1>2. now' \in Nat /\ now <= now'
    <2>1. now \in Nat
      BY DEF IssuanceInv, IssuanceTypeOK, TypeOK
    <2>2. CASE Bootstrap
      <3>1. now' = now
        BY <2>2 DEF Bootstrap, BootstrapPosition, BootstrapRefusedLate
      <3>2. QED
        BY <2>1, <3>1
    <2>3. CASE Tick
      BY <2>1, <2>3 DEF Tick
    <2>4. QED
      BY <2>2, <2>3 DEF Environment
  <1>3. \A n \in Mandates : Untouched(n)
    BY <1>1 DEF Untouched
  <1>4. QED
    BY <1>1, <1>2, <1>3, UntouchedSound DEF IssuanceInv, IssuanceRecords, IssuanceTypeOK

LEMMA MandateStepSound == ASSUME IssuanceInv, NEW m \in Mandates, MandateStep(m) PROVE Kept(m)
  BY ReserveSound, CallStepSound, IssueSound, UndoSound, RevocationSound
     DEF MandateStep, RequestStep

LEMMA KeptIsEnough ==
    ASSUME IssuanceInv, NEW m \in Mandates, Kept(m), UNCHANGED now
    PROVE  IssuanceRecords' /\ \A n \in Mandates : MandateSound(n)'
  <1>1. IssuanceTypeOK /\ now \in Nat /\ now' \in Nat /\ now <= now'
    BY DEF IssuanceInv, IssuanceTypeOK, TypeOK
  <1>2. \A n \in Mandates \ {m} : MandateSound(n)'
    BY <1>1, UntouchedSound DEF IssuanceInv, Kept
  <1>3. QED
    BY <1>2 DEF Kept

LEMMA IssuanceInvStep == ASSUME IssuanceInv, IssuanceStep PROVE IssuanceInv'
  <1>1. TypeOK'
    BY IssuanceUsesStore, TypeStep DEF IssuanceInv, IssuanceTypeOK
  <1>2. IssuanceRecords' /\ \A n \in Mandates : MandateSound(n)'
    <2>1. CASE Environment
      BY <2>1, EnvironmentSound
    <2>2. CASE Submission(Terms)
      <3>1. PICK m \in Mandates, t \in Terms, until \in (now + 1)..(MaxTime + 1) : Submit(m, t, until)
        BY <2>2 DEF Submission
      <3>2. UNCHANGED now
        BY <3>1 DEF Submit, vars
      <3>3. Kept(m)
        BY <3>1, SubmitSound
      <3>4. QED
        BY <3>2, <3>3, KeptIsEnough
    <2>3. ASSUME NEW m \in Mandates, MandateStep(m)
          PROVE  IssuanceRecords' /\ \A n \in Mandates : MandateSound(n)'
      <3>1. UNCHANGED now
        BY <2>3 DEF MandateStep, RequestStep, Reserve, AcquireReservation, ReserveNotEnrolled, Issue,
                    Fail, Undo, UndoDone, Abandon, Revoke, ReleaseHeld, ReleaseReservation,
                    RevokeEnds, vars
      <3>2. QED
        BY <2>3, <3>1, MandateStepSound, KeptIsEnough
    <2>4. QED
      BY <2>1, <2>2, <2>3 DEF IssuanceStep
  <1>3. QED
    BY <1>1, <1>2 DEF IssuanceInv, IssuanceTypeOK, IssuanceRecords

\* What a service does under a mandate: it touches reservations only of a
\* mandate whose log is not empty, and never whose they are.
Exercises ==
    /\ UNCHANGED <<requests, revoking, now>>
    /\ \A m \in Mandates : ~Issued(m) =>
          /\ mandates'[m] = None
          /\ \A r \in Rights : reservations'[<<m, r>>] = reservations[<<m, r>>]
    /\ \A m \in Mandates : Issued(m) =>
          /\ mandates'[m] # None
          /\ mandates'[m].status = mandates[m].status
          /\ mandates'[m].log = << >> =>
                /\ mandates[m].log = << >>
                /\ \A r \in Rights : reservations'[<<m, r>>] = reservations[<<m, r>>]
          /\ \A r \in Rights : reservations'[<<m, r>>] # None =>
                /\ reservations[<<m, r>>] # None
                /\ reservations'[<<m, r>>].holder = reservations[<<m, r>>].holder

LEMMA ExerciseSound == ASSUME IssuanceInv, IssuanceTypeOK', Exercises PROVE IssuanceInv'
  <1> SUFFICES ASSUME NEW m \in Mandates PROVE MandateSound(m)'
    BY DEF IssuanceInv
  <1>1. MandateSound(m) /\ IssuanceTypeOK
    BY DEF IssuanceInv
  <1>2. UNCHANGED <<requests, revoking, now>>
    BY DEF Exercises
  <1>3. RequestSound(m)'
    BY <1>1, <1>2 DEF MandateSound, RequestSound
  <1>4. CallsInOrder(m)' /\ HolderNamed(m)'
    BY <1>1, <1>2 DEF MandateSound, CallsInOrder, HolderNamed, Exercises, Issued
  <1>5. CASE ~Issued(m)
    <2>1. mandates'[m] = None /\ \A r \in Rights : reservations'[<<m, r>>] = reservations[<<m, r>>]
      BY <1>5 DEF Exercises
    <2>2. requests[m] # None => (Backed(m)' <=> Backed(m)) /\ HeldActive(m)' = HeldActive(m)
      BY <1>1, <1>2, <2>1, AcquiredTyped DEF Backed, ReservationOf, HeldActive
    <2>3. CallHolds(m)' /\ UnusedBacked(m)'
      BY <1>1, <1>2, <1>5, <2>1, <2>2 DEF MandateSound, CallHolds, UnusedBacked, Live, Issued
    <2>4. QED
      BY <1>3, <1>4, <2>3 DEF MandateSound
  <1>6. CASE Issued(m)
    <2>1. mandates'[m] # None /\ requests[m] # None
      BY <1>1, <1>6 DEF Exercises, MandateSound, CallsInOrder
    <2>2. UnusedBacked(m)'
      <3>1. SUFFICES ASSUME Live(m)', mandates'[m].log = << >> PROVE Backed(m)'
        BY DEF UnusedBacked
      <3>2. Live(m) /\ mandates[m].log = << >> /\ \A r \in Rights : reservations'[<<m, r>>] = reservations[<<m, r>>]
        <4>1. mandates'[m].status = "active"
          BY <3>1 DEF Live
        <4>2. QED
          BY <1>6, <3>1, <4>1 DEF Exercises, Live, Issued
      <3>3. QED
        BY <1>1, <1>2, <2>1, <3>2, AcquiredTyped DEF MandateSound, UnusedBacked, Backed, ReservationOf
    <2>3. CallHolds(m)'
      BY <2>1 DEF CallHolds, Issued
    <2>4. QED
      BY <1>3, <1>4, <2>2, <2>3 DEF MandateSound
  <1>7. QED
    BY <1>5, <1>6

-----------------------------------------------------------------------------
(* What the shared steps leave alone.                                      *)

LEMMA IssuedKept ==
    ASSUME IssuanceInv, IssuanceStep, NEW m \in Mandates, Issued(m)
    PROVE  /\ requests'[m] = requests[m]
           /\ mandates'[m] # None
           /\ mandates'[m].log = mandates[m].log
  <1>1. /\ requests \in [Mandates -> Request \cup {None}]
        /\ mandates \in [Mandates -> Mandate \cup {None}]
        /\ mandates[m] \in Mandate
        /\ requests[m] # None /\ requests[m].phase = "settled"
    BY DEF IssuanceInv, IssuanceTypeOK, MandateSound, CallsInOrder, Issued
  <1>2. mandates[m] # None
    BY DEF Issued
  <1>3. CASE Environment \/ Submission(Terms)
    BY <1>1, <1>2, <1>3 DEF Environment, Submission, Submit, issuanceVars
  <1>4. ASSUME NEW n \in Mandates, RequestStep(n) \/ Abandon(n) \/ ReleaseHeld(n) \/ RevokeEnds(n)
        PROVE  requests'[m] = requests[m] /\ mandates'[m] = mandates[m]
    <2>1. CASE ReleaseHeld(n) \/ RevokeEnds(n)
      BY <2>1 DEF ReleaseHeld, RevokeEnds, issuanceVars
    <2>2. CASE RequestStep(n) \/ Abandon(n)
      <3>1. n # m
        BY <1>1, <2>2 DEF RequestStep, Reserve, ReserveNotEnrolled, Issue, Fail, Undo, UndoDone,
                          Abandon, InPhase
      <3>2. QED
        BY <1>1, <2>2, <3>1 DEF RequestStep, Reserve, ReserveNotEnrolled, Issue, Fail, Undo,
                                UndoDone, Abandon
    <2>3. QED
      BY <1>4, <2>1, <2>2
  <1>5. ASSUME NEW n \in Mandates, Revoke(n)
        PROVE  /\ requests'[m] = requests[m]
               /\ mandates'[m] # None
               /\ mandates'[m].log = mandates[m].log
    <2>1. mandates[n] \in Mandate
      BY <1>1, <1>5 DEF Revoke
    <2>2. [mandates[n] EXCEPT !.status = "revoked"] \in Mandate
      BY <2>1 DEF Mandate
    <2>3. QED
      BY <1>1, <1>2, <1>5, <2>1, <2>2, IssuanceAssumption DEF Revoke, Mandate
  <1>6. QED
    BY <1>1, <1>2, <1>3, <1>4, <1>5 DEF IssuanceStep, MandateStep

LEMMA IssuanceLog ==
    ASSUME IssuanceStep
    PROVE  \/ UNCHANGED transitions
           \/ \E x \in Issuances : transitions' = Append(transitions, x)
  <1>1. CASE Environment
    <2>1. CASE Tick
      BY <2>1 DEF Tick, storeVars
    <2>2. CASE Bootstrap
      <3>1. PICK h \in Holders, r \in Rights, s \in Requestable :
              BootstrapPosition(h, r, s) \/ BootstrapRefusedLate(h, r, s)
        BY <2>2 DEF Bootstrap
      <3>2. Issuance(h, r, s) \in Issuances
        BY RequestableIsScope DEF Issuance, Issuances
      <3>3. QED
        BY <3>1, <3>2 DEF BootstrapPosition, BootstrapRefusedLate
    <2>3. QED
      BY <1>1, <2>1, <2>2 DEF Environment
  <1>2. CASE Submission(Terms)
    BY <1>2 DEF Submission, Submit, vars
  <1>3. ASSUME NEW m \in Mandates, MandateStep(m)
        PROVE  UNCHANGED transitions
    BY <1>3 DEF MandateStep, RequestStep, Reserve, AcquireReservation, ReserveNotEnrolled, Issue,
                Fail, Undo, UndoDone, Abandon, Revoke, ReleaseHeld, ReleaseReservation, RevokeEnds, vars
  <1>4. QED
    BY <1>1, <1>2, <1>3 DEF IssuanceStep

LEMMA IssuanceEncumbrances == ASSUME IssuanceStep PROVE UNCHANGED encumbrances
  <1>1. CASE Environment
    BY <1>1, Zenon DEF Environment, Bootstrap, BootstrapPosition, BootstrapRefusedLate, Tick, storeVars
  <1>2. CASE Submission(Terms)
    BY <1>2 DEF Submission, Submit, vars
  <1>3. ASSUME NEW m \in Mandates, MandateStep(m)
        PROVE  UNCHANGED encumbrances
    BY <1>3 DEF MandateStep, RequestStep, Reserve, AcquireReservation, ReserveNotEnrolled, Issue,
                Fail, Undo, UndoDone, Abandon, Revoke, ReleaseHeld, ReleaseReservation, RevokeEnds, vars
  <1>4. QED
    BY <1>1, <1>2, <1>3 DEF IssuanceStep

\* A mandate that appears in a step appears unused.
LEMMA NewMandateUnused ==
    ASSUME IssuanceInv, IssuanceStep, NEW m \in Mandates, ~Issued(m), Issued(m)'
    PROVE  mandates'[m].log = << >>
  <1>1. mandates \in [Mandates -> Mandate \cup {None}]
    BY DEF IssuanceInv, IssuanceTypeOK
  <1>2. CASE Environment \/ Submission(Terms)
    BY <1>2 DEF Environment, Submission, Submit, issuanceVars, Issued
  <1>3. ASSUME NEW n \in Mandates, MandateStep(n)
        PROVE  mandates'[m].log = << >>
    <2>1. CASE Issue(n)
      <3>1. n = m
        BY <1>1, <2>1 DEF Issue, Issued
      <3>2. QED
        BY <1>1, <2>1, <3>1 DEF Issue
    <2>2. CASE Revoke(n)
      BY <1>1, <2>2 DEF Revoke, Issued
    <2>3. CASE ~Issue(n) /\ ~Revoke(n)
      BY <1>3, <2>3 DEF MandateStep, RequestStep, Reserve, ReserveNotEnrolled, Fail, Undo, UndoDone,
                        Abandon, ReleaseHeld, RevokeEnds, issuanceVars, Issued
    <2>4. QED
      BY <2>1, <2>2, <2>3
  <1>4. QED
    BY <1>2, <1>3 DEF IssuanceStep

-----------------------------------------------------------------------------
(* TRANSFER.  Its mandates stay backed, a failed request gives back all it *)
(* took, and authority moves on evidence only, with any part of a report   *)
(* lost, repeated by recovery or overtaken by a revocation.                *)

-----------------------------------------------------------------------------
(* The inductive invariant.                                                *)

\* Evidence names a mandate that was issued to transfer, and stands in its log.
EvidenceKnown ==
    \A e \in Executions : evidence[e] # None =>
        /\ Issued(evidence[e].mandate)
        /\ requests[evidence[e].mandate].terms.action = "TRANSFER"
        /\ mandates[evidence[e].mandate].log # << >>

\* A log lists what there is evidence of.
LogKnown ==
    \A m \in Mandates : (Issued(m) /\ requests[m].terms.action = "TRANSFER") =>
        \A i \in DOMAIN mandates[m].log :
            mandates[m].log[i] \in Executions /\ evidence[mandates[m].log[i]] # None

TransferInv ==
    /\ IssuanceInv
    /\ TransferTypeOK
    /\ EvidenceKnown
    /\ LogKnown
    /\ \A e \in applying : evidence[e] # None
    /\ AuthorityFollowsEvidence

LEMMA TransferInvInit == TransferInit => TransferInv
  <1> SUFFICES ASSUME TransferInit PROVE TransferInv
    OBVIOUS
  <1>1. IssuanceInv
    BY IssuanceInvInit DEF TransferInit
  <1>2. TransferTypeOK
    BY <1>1 DEF TransferInit, TransferTypeOK, IssuanceInv
  <1>3. EvidenceKnown /\ LogKnown /\ \A e \in applying : evidence[e] # None
    BY DEF TransferInit, IssuanceInit, EvidenceKnown, LogKnown, Issued
  <1>4. AuthorityFollowsEvidence
    BY DEF TransferInit, IssuanceInit, Init, AuthorityFollowsEvidence
  <1>5. QED
    BY <1>1, <1>2, <1>3, <1>4 DEF TransferInv

-----------------------------------------------------------------------------
(* A movement made on evidence.                                            *)

LEMMA EvidenceTyped ==
    ASSUME TransferInv, NEW e \in Executions, evidence[e] # None
    PROVE  /\ evidence[e] \in Evidence
           /\ requests[evidence[e].mandate] \in Request
           /\ requests[evidence[e].mandate].terms.from \in Holders
           /\ requests[evidence[e].mandate].terms.to \in Holders
  <1>1. evidence[e] \in Evidence
    BY DEF TransferInv, TransferTypeOK
  <1>2. evidence[e].mandate \in Mandates
    BY <1>1 DEF Evidence
  <1>3. requests[evidence[e].mandate] # None
    BY <1>2 DEF TransferInv, EvidenceKnown, IssuanceInv, MandateSound, CallsInOrder
  <1>4. requests[evidence[e].mandate] \in Request
    BY <1>2, <1>3 DEF TransferInv, IssuanceInv, IssuanceTypeOK
  <1>5. requests[evidence[e].mandate].terms \in Terms
    BY <1>4 DEF Request
  <1>6. QED
    BY <1>1, <1>4, <1>5, TermsTyped DEF TransferInv, EvidenceKnown

LEMMA ApplyIsMove ==
    ASSUME TransferInv, NEW e \in Executions, evidence[e] # None, ApplyEvidence(e)
    PROVE  Move
  <1>1. /\ evidence[e].mandate \in Mandates /\ evidence[e].rights \in RightLists
        /\ evidence[e].scope \in Requestable /\ evidence[e].at \in Instants
    BY EvidenceTyped DEF Evidence
  <1>2. QED
    BY <1>1, EvidenceTyped DEF ApplyEvidence, Move

LEMMA ApplyFollows ==
    ASSUME TransferInv, NEW e \in Executions, evidence[e] # None, ApplyEvidence(e),
           UNCHANGED <<requests, evidence>>
    PROVE  AuthorityFollowsEvidence'
  <1> DEFINE v == evidence[e]
  <1> DEFINE t == requests[v.mandate].terms
  <1> DEFINE n == Len(transitions)
  <1>1. /\ TypeOK /\ v.rights \in RightLists /\ v.mandate \in Mandates
        /\ ApplyTransition(e, v.mandate, v.rights, t.from, t.to, v.scope, v.at)
    BY EvidenceTyped DEF Evidence, ApplyEvidence, TransferInv, IssuanceInv, IssuanceTypeOK
  <1>2. /\ n \in Nat
        /\ DOMAIN transitions = 1..n
        /\ DOMAIN transitions' = 1..(n + Len(v.rights))
        /\ \A i \in 1..n : transitions'[i] = transitions[i]
        /\ \A i \in 1..Len(v.rights) :
              transitions'[n + i] = Movement(e, v.mandate, v.rights[i], t.from, t.to, v.scope)
    <2> HIDE DEF v, t
    <2>1. QED
      BY <1>1, MoveWrites
  <1>3. Len(v.rights) \in Nat /\ DOMAIN v.rights = 1..Len(v.rights)
    BY <1>1, RightListIsSeq
  <1>4. ASSUME NEW i \in DOMAIN transitions', transitions'[i].execution # None
        PROVE  MovedOnEvidence(i)'
    <2>1. CASE i \in 1..n
      <3>1. MovedOnEvidence(i)
        BY <1>2, <1>4, <2>1 DEF TransferInv, AuthorityFollowsEvidence
      <3>2. QED
        BY <1>2, <2>1, <3>1 DEF MovedOnEvidence
    <2>2. CASE i \notin 1..n
      <3>1. PICK j \in 1..Len(v.rights) : i = n + j
        <4>1. i - n \in 1..Len(v.rights) /\ i = n + (i - n)
          BY <1>2, <1>3, <2>2
        <4>2. QED
          BY <4>1
      <3>2. transitions'[i] = Movement(e, v.mandate, v.rights[j], t.from, t.to, v.scope)
        BY <1>2, <3>1
      <3>3. v.rights[j] \in RightsOf(v.rights)
        BY <1>3 DEF RightsOf
      <3>4. QED
        BY <3>2, <3>3 DEF MovedOnEvidence, Movement
    <2>3. QED
      BY <2>1, <2>2
  <1>5. QED
    BY <1>4 DEF AuthorityFollowsEvidence

\* Consuming changes the status of its mandate's commitments only.
LEMMA ApplyIsExercise ==
    ASSUME TransferInv, NEW e \in Executions, evidence[e] # None, ApplyEvidence(e),
           UNCHANGED issuanceVars
    PROVE  Exercises
  <1> DEFINE m == evidence[e].mandate
  <1>1. /\ m \in Mandates /\ Issued(m) /\ mandates[m].log # << >>
        /\ reservations' = Consumed(m)
        /\ UNCHANGED <<requests, mandates, revoking, now>>
    BY EvidenceTyped DEF Evidence, TransferInv, EvidenceKnown, ApplyEvidence, ApplyTransition, issuanceVars
  <1>2. reservations \in [Promises -> Reservation \cup {None}]
    BY DEF TransferInv, IssuanceInv, IssuanceTypeOK, TypeOK
  <1>3. ASSUME NEW n \in Mandates, NEW r \in Rights
        PROVE  /\ n # m => reservations'[<<n, r>>] = reservations[<<n, r>>]
               /\ reservations'[<<n, r>>] # None =>
                     /\ reservations[<<n, r>>] # None
                     /\ reservations'[<<n, r>>].holder = reservations[<<n, r>>].holder
    <2>1. reservations'[<<n, r>>] =
            IF n = m /\ reservations[<<n, r>>] # None /\ reservations[<<n, r>>].status = "active"
              THEN [reservations[<<n, r>>] EXCEPT !.status = "consumed"]
              ELSE reservations[<<n, r>>]
      BY <1>1 DEF Consumed, Promises
    <2>2. reservations[<<n, r>>] \in Reservation \cup {None}
      BY <1>2 DEF Promises
    <2>3. QED
      BY <2>1, <2>2 DEF Reservation
  <1>4. QED
    BY <1>1, <1>3 DEF Exercises, Issued

-----------------------------------------------------------------------------
(* The steps.                                                              *)

LEMMA SharedSound ==
    ASSUME TransferInv, IssuanceStep, UNCHANGED movementVars
    PROVE  TransferInv'
  <1>1. IssuanceInv /\ UNCHANGED <<evidence, applying>>
    BY DEF TransferInv, movementVars
  <1>2. IssuanceInv'
    BY <1>1, IssuanceInvStep
  <1>3. TransferTypeOK'
    BY <1>1, <1>2 DEF TransferInv, TransferTypeOK, IssuanceInv
  <1>4. \A m \in Mandates : Issued(m) =>
            requests'[m] = requests[m] /\ Issued(m)' /\ mandates'[m].log = mandates[m].log
    BY <1>1, IssuedKept DEF Issued
  <1>5. EvidenceKnown'
    BY <1>1, <1>4, EvidenceTyped DEF TransferInv, EvidenceKnown, Evidence
  <1>6. LogKnown'
    <2>1. SUFFICES ASSUME NEW m \in Mandates, Issued(m)', requests'[m].terms.action = "TRANSFER",
                          NEW i \in DOMAIN mandates'[m].log
                   PROVE  mandates'[m].log[i] \in Executions /\ evidence'[mandates'[m].log[i]] # None
      BY DEF LogKnown
    <2>2. CASE Issued(m)
      BY <1>1, <1>4, <2>1, <2>2 DEF TransferInv, LogKnown
    <2>3. CASE ~Issued(m)
      <3>1. mandates'[m].log = << >>
        BY <1>1, <2>1, <2>3, NewMandateUnused
      <3>2. QED
        BY <2>1, <3>1
    <2>4. QED
      BY <2>2, <2>3
  <1>7. AuthorityFollowsEvidence'
    <2>1. /\ TypeOK /\ transitions \in Seq(Movements \cup Issuances)
          /\ Len(transitions) \in Nat /\ DOMAIN transitions = 1..Len(transitions)
      BY <1>1 DEF IssuanceInv, IssuanceTypeOK, TypeOK
    <2>2. SUFFICES ASSUME NEW i \in DOMAIN transitions', transitions'[i].execution # None
                   PROVE  MovedOnEvidence(i)'
      BY DEF AuthorityFollowsEvidence
    <2>3. i \in DOMAIN transitions /\ transitions'[i] = transitions[i]
      <3>1. CASE UNCHANGED transitions
        BY <2>2, <3>1
      <3>2. CASE \E x \in Issuances : transitions' = Append(transitions, x)
        <4>1. PICK x \in Issuances : transitions' = Append(transitions, x)
          BY <3>2
        <4>2. /\ DOMAIN transitions' = 1..(Len(transitions) + 1)
              /\ transitions'[Len(transitions) + 1] = x
              /\ \A j \in 1..Len(transitions) : transitions'[j] = transitions[j]
          BY <2>1, <4>1
        <4>3. x.execution = None
          BY DEF Issuances
        <4>4. QED
          BY <2>1, <2>2, <4>2, <4>3
      <3>3. QED
        BY <3>1, <3>2, IssuanceLog
    <2>4. MovedOnEvidence(i)
      BY <2>2, <2>3 DEF TransferInv, AuthorityFollowsEvidence
    <2>5. evidence[transitions[i].execution] # None
      BY <2>4 DEF MovedOnEvidence
    <2>6. transitions[i].execution \in Executions
      BY <2>1, <2>2, <2>3 DEF Movements, Issuances
    <2>7. requests'[evidence[transitions[i].execution].mandate] = requests[evidence[transitions[i].execution].mandate]
      BY <1>4, <2>5, <2>6, EvidenceTyped DEF TransferInv, EvidenceKnown, Evidence
    <2>8. QED
      BY <1>1, <2>3, <2>4, <2>7 DEF MovedOnEvidence
  <1>8. QED
    BY <1>1, <1>2, <1>3, <1>5, <1>6, <1>7 DEF TransferInv

LEMMA ReportSound ==
    ASSUME TransferInv, NEW e \in Executions, NEW m \in Mandates, NEW rights \in RightLists,
           NEW s \in Requestable, NEW at \in EffectiveInstants, Report(e, m, rights, s, at)
    PROVE  TransferInv'
  <1> DEFINE v == [mandate |-> m, rights |-> rights, scope |-> s, at |-> at]
  <1> DEFINE d == [mandates[m] EXCEPT !.log = Append(mandates[m].log, e)]
  <1>1. /\ Issued(m) /\ mandates[m] \in Mandate
        /\ requests[m].terms.action = "TRANSFER"
        /\ evidence[e] = None
        /\ mandates \in [Mandates -> Mandate \cup {None}]
        /\ evidence \in [Executions -> Evidence \cup {None}]
    BY DEF Report, Issued, TransferInv, TransferTypeOK, IssuanceTypeOK
  <1>2. /\ evidence' = [evidence EXCEPT ![e] = v]
        /\ mandates' = [mandates EXCEPT ![m] = d]
        /\ applying' = applying \cup {e}
        /\ UNCHANGED <<vars, requests, revoking>>
    BY DEF Report
  <1>3. v \in Evidence /\ v # None
    BY EffectiveAssumption, EvidenceAssumption DEF Evidence
  <1>4. /\ mandates[m].log \in Seq(Executions \cup Arrangements)
        /\ Len(mandates[m].log) \in Nat
        /\ DOMAIN mandates[m].log = 1..Len(mandates[m].log)
    BY <1>1 DEF Mandate
  <1>5. /\ Append(mandates[m].log, e) \in Seq(Executions \cup Arrangements)
        /\ Append(mandates[m].log, e) # << >>
        /\ DOMAIN Append(mandates[m].log, e) = 1..(Len(mandates[m].log) + 1)
        /\ Append(mandates[m].log, e)[Len(mandates[m].log) + 1] = e
        /\ \A i \in 1..Len(mandates[m].log) : Append(mandates[m].log, e)[i] = mandates[m].log[i]
    BY <1>4
  <1>6. d \in Mandate /\ d.log = Append(mandates[m].log, e) /\ d.status = mandates[m].status
    BY <1>1, <1>5 DEF Mandate
  <1>7. /\ evidence'[e] = v /\ \A x \in Executions : x # e => evidence'[x] = evidence[x]
        /\ mandates'[m] = d /\ \A n \in Mandates : n # m => mandates'[n] = mandates[n]
        /\ d # None
    BY <1>1, <1>2, <1>6, IssuanceAssumption
  <1>8. IssuanceTypeOK'
    <2>1. mandates' \in [Mandates -> Mandate \cup {None}]
      BY <1>1, <1>2, <1>6
    <2>2. QED
      BY <1>2, <2>1 DEF TransferInv, TransferTypeOK, IssuanceTypeOK, TypeOK, vars
  <1>9. TransferTypeOK'
    BY <1>1, <1>2, <1>3, <1>8 DEF TransferInv, TransferTypeOK
  <1>10. IssuanceInv'
    <2>1. Exercises
      BY <1>1, <1>2, <1>5, <1>6, <1>7 DEF Exercises, Issued, TransferInv, IssuanceInv, IssuanceTypeOK,
         TypeOK, vars
    <2>2. QED
      BY <1>8, <2>1, ExerciseSound DEF TransferInv
  <1>11. EvidenceKnown'
    <2>1. SUFFICES ASSUME NEW x \in Executions, evidence'[x] # None
                   PROVE  /\ mandates'[evidence'[x].mandate] # None
                          /\ requests'[evidence'[x].mandate].terms.action = "TRANSFER"
                          /\ mandates'[evidence'[x].mandate].log # << >>
      BY DEF EvidenceKnown, Issued
    <2>2. CASE x = e
      BY <1>1, <1>2, <1>5, <1>6, <1>7, <2>2 DEF Issued
    <2>3. CASE x # e
      <3>1. evidence[x] # None /\ evidence'[x] = evidence[x] /\ evidence[x].mandate \in Mandates
        BY <1>7, <2>1, <2>3, EvidenceTyped DEF Evidence
      <3>2. QED
        BY <1>2, <1>5, <1>6, <1>7, <3>1 DEF TransferInv, EvidenceKnown, Issued
    <2>4. QED
      BY <2>2, <2>3
  <1>12. LogKnown'
    <2>1. SUFFICES ASSUME NEW n \in Mandates, Issued(n)', requests'[n].terms.action = "TRANSFER",
                          NEW i \in DOMAIN mandates'[n].log
                   PROVE  mandates'[n].log[i] \in Executions /\ evidence'[mandates'[n].log[i]] # None
      BY DEF LogKnown
    <2>2. ASSUME NEW j \in DOMAIN mandates[n].log, Issued(n)
          PROVE  mandates[n].log[j] \in Executions /\ evidence'[mandates[n].log[j]] # None
      BY <1>2, <1>3, <1>7, <2>1, <2>2 DEF TransferInv, LogKnown
    <2>3. CASE n = m
      <3>1. mandates'[n].log = Append(mandates[m].log, e) /\ i \in 1..(Len(mandates[m].log) + 1)
        BY <1>5, <1>6, <1>7, <2>1, <2>3
      <3>2. CASE i = Len(mandates[m].log) + 1
        BY <1>3, <1>5, <1>7, <3>1, <3>2
      <3>3. CASE i # Len(mandates[m].log) + 1
        <4>1. i \in 1..Len(mandates[m].log) /\ i \in DOMAIN mandates[n].log
          BY <1>4, <2>3, <3>1, <3>3
        <4>2. mandates'[n].log[i] = mandates[n].log[i]
          BY <1>5, <2>3, <3>1, <4>1
        <4>3. QED
          BY <1>1, <2>2, <2>3, <4>1, <4>2
      <3>4. QED
        BY <3>2, <3>3
    <2>4. CASE n # m
      BY <1>7, <2>1, <2>2, <2>4 DEF Issued
    <2>5. QED
      BY <2>3, <2>4
  <1>13. \A x \in applying' : evidence'[x] # None
    BY <1>2, <1>3, <1>7 DEF TransferInv, TransferTypeOK
  <1>14. AuthorityFollowsEvidence'
    <2>1. ASSUME NEW i \in DOMAIN transitions, MovedOnEvidence(i)
          PROVE  MovedOnEvidence(i)'
      <3>1. transitions[i] \in Movements \cup Issuances
        BY DEF TransferInv, IssuanceInv, IssuanceTypeOK, TypeOK
      <3>2. QED
        BY <1>1, <1>2, <2>1 DEF MovedOnEvidence, vars
    <2>2. QED
      BY <1>2, <2>1 DEF TransferInv, AuthorityFollowsEvidence, vars
  <1>15. QED
    BY <1>9, <1>10, <1>11, <1>12, <1>13, <1>14 DEF TransferInv

LEMMA ApplySound ==
    ASSUME TransferInv, NEW e \in Executions, evidence[e] # None, ApplyEvidence(e),
           UNCHANGED issuanceVars, UNCHANGED evidence, applying' \subseteq applying
    PROVE  TransferInv'
  <1>1. UNCHANGED <<requests, mandates, revoking>>
    BY DEF issuanceVars
  <1>2. TypeOK'
    BY ApplyIsMove, TypeStep DEF TransferInv, IssuanceInv, IssuanceTypeOK, Next
  <1>3. IssuanceTypeOK' /\ TransferTypeOK'
    BY <1>1, <1>2 DEF TransferInv, TransferTypeOK, IssuanceTypeOK
  <1>4. IssuanceInv'
    BY <1>3, ApplyIsExercise, ExerciseSound DEF TransferInv
  <1>5. AuthorityFollowsEvidence'
    BY <1>1, ApplyFollows
  <1>6. EvidenceKnown' /\ LogKnown' /\ \A x \in applying' : evidence'[x] # None
    BY <1>1 DEF TransferInv, EvidenceKnown, LogKnown, Issued
  <1>7. QED
    BY <1>3, <1>4, <1>5, <1>6 DEF TransferInv

\* A repair applies an execution the log lists.
LEMMA ReconcileApplies ==
    ASSUME TransferInv, NEW m \in Mandates, Reconcile(m)
    PROVE  \E e \in Executions : evidence[e] # None /\ ApplyEvidence(e)
  BY DEF Reconcile, TransferInv, LogKnown, Issued

LEMMA LostSound ==
    ASSUME TransferInv, NEW e \in Executions, ApplyLost(e)
    PROVE  TransferInv'
  <1>1. UNCHANGED <<positions, transitions, reservations, encumbrances, now, requests, mandates, revoking, evidence>>
    BY DEF ApplyLost, vars, issuanceVars
  <1>2. applying' \subseteq applying
    BY DEF ApplyLost
  <1>3. IssuanceTypeOK' /\ TransferTypeOK'
    BY <1>1, <1>2 DEF TransferInv, TransferTypeOK, IssuanceTypeOK, TypeOK
  <1>4. IssuanceInv'
    <2>1. Exercises
      BY <1>1 DEF Exercises, Issued
    <2>2. QED
      BY <1>3, <2>1, ExerciseSound DEF TransferInv
  <1>5. EvidenceKnown' /\ LogKnown' /\ \A x \in applying' : evidence'[x] # None
    BY <1>1, <1>2 DEF TransferInv, EvidenceKnown, LogKnown, Issued
  <1>6. AuthorityFollowsEvidence'
    BY <1>1 DEF TransferInv, AuthorityFollowsEvidence, MovedOnEvidence
  <1>7. QED
    BY <1>3, <1>4, <1>5, <1>6 DEF TransferInv

\* The steps of the service, whoever shares its store of requests and mandates.
TransferService == (IssuanceStep /\ UNCHANGED movementVars) \/ Exercise

LEMMA TransferServes == TransferNext => TransferService
  BY DEF TransferNext, TransferService, IssuanceStep, Submission, Terms

LEMMA TransferInvStep == TransferInv /\ [TransferService]_transferVars => TransferInv'
  <1> SUFFICES ASSUME TransferInv, [TransferService]_transferVars PROVE TransferInv'
    OBVIOUS
  <1>1. CASE IssuanceStep /\ UNCHANGED movementVars
    BY <1>1, SharedSound
  <1>2. CASE Reporting
    BY <1>2, ReportSound DEF Reporting
  <1>3. ASSUME NEW e \in Executions, Apply(e)
        PROVE  TransferInv'
    <2>1. evidence[e] # None /\ ApplyEvidence(e) /\ UNCHANGED issuanceVars /\ UNCHANGED evidence
      BY <1>3 DEF Apply, TransferInv
    <2>2. applying' \subseteq applying
      BY <1>3 DEF Apply
    <2>3. QED
      BY <2>1, <2>2, ApplySound
  <1>4. ASSUME NEW e \in Executions, ApplyLost(e)
        PROVE  TransferInv'
    BY <1>4, LostSound
  <1>5. ASSUME NEW m \in Mandates, Reconcile(m)
        PROVE  TransferInv'
    <2>1. PICK e \in Executions : evidence[e] # None /\ ApplyEvidence(e)
      BY <1>5, ReconcileApplies
    <2>2. UNCHANGED issuanceVars /\ UNCHANGED evidence /\ applying' \subseteq applying
      BY <1>5 DEF Reconcile, movementVars
    <2>3. QED
      BY <2>1, <2>2, ApplySound
  <1>6. CASE UNCHANGED transferVars
    <2>1. UNCHANGED <<positions, transitions, reservations, encumbrances, now, requests, mandates,
                      revoking, evidence, applying>>
      BY <1>6 DEF transferVars, vars, issuanceVars, movementVars
    <2>2. IssuanceTypeOK' /\ TransferTypeOK'
      BY <2>1 DEF TransferInv, TransferTypeOK, IssuanceTypeOK, TypeOK
    <2>3. Exercises
      BY <2>1 DEF Exercises, Issued
    <2>4. QED
      BY <2>1, <2>2, <2>3, ExerciseSound
         DEF TransferInv, EvidenceKnown, LogKnown, Issued, AuthorityFollowsEvidence, MovedOnEvidence
  <1>7. QED
    BY <1>1, <1>2, <1>3, <1>4, <1>5, <1>6 DEF TransferService, Exercise

-----------------------------------------------------------------------------
(* The theorems.                                                           *)

LEMMA TransferInvariant == TransferSpec => []TransferInv
  BY TransferInvInit, TransferInvStep, TransferServes, PTL DEF TransferSpec

\* Every state of the service and its stores is well typed.
THEOREM TransferTypeCorrect == TransferSpec => []TransferTypeOK
  <1>1. TransferInv => TransferTypeOK
    BY DEF TransferInv
  <1>2. QED
    BY <1>1, TransferInvariant, PTL

\* However its request went and whatever ran beside it, a mandate that can be
\* exercised and has not been holds every commitment it acquired, in full.
THEOREM TransferMandatesBacked == TransferSpec => []MandateBacked
  <1>1. TransferInv => MandateBacked
    BY InvBacked DEF TransferInv
  <1>2. QED
    BY <1>1, TransferInvariant, PTL

\* Giving back what a failed request remembers gives back all it holds.
THEOREM TransferCompensationWhole == TransferSpec => []CompensationKnowsAll
  <1>1. TransferInv => CompensationKnowsAll
    BY InvKnowsAll DEF TransferInv
  <1>2. QED
    BY <1>1, TransferInvariant, PTL

\* What moves is what was reported, at once, late or by recovery.
THEOREM MovementsFollowEvidence == TransferSpec => []AuthorityFollowsEvidence
  <1>1. TransferInv => AuthorityFollowsEvidence
    BY DEF TransferInv
  <1>2. QED
    BY <1>1, TransferInvariant, PTL

LEMMA TransferStoreStep == TransferInv /\ [TransferService]_transferVars => [Next]_vars
  <1> SUFFICES ASSUME TransferInv, [TransferService]_transferVars PROVE [Next]_vars
    OBVIOUS
  <1>1. CASE IssuanceStep /\ UNCHANGED movementVars
    BY <1>1, IssuanceUsesStore DEF TransferInv
  <1>2. CASE Reporting
    BY <1>2 DEF Reporting, Report
  <1>3. ASSUME NEW e \in Executions, Apply(e) \/ ApplyLost(e)
        PROVE  [Next]_vars
    <2>1. CASE Apply(e)
      BY <2>1, ApplyIsMove DEF Apply, TransferInv, Next
    <2>2. CASE ApplyLost(e)
      BY <2>2 DEF ApplyLost
    <2>3. QED
      BY <1>3, <2>1, <2>2
  <1>4. ASSUME NEW m \in Mandates, Reconcile(m)
        PROVE  [Next]_vars
    BY <1>4, ReconcileApplies, ApplyIsMove DEF Next
  <1>5. CASE UNCHANGED transferVars
    BY <1>5 DEF transferVars
  <1>6. QED
    BY <1>1, <1>2, <1>3, <1>4, <1>5 DEF TransferService, Exercise

\* The service is a client of the store, and the store's theorems are about it.
THEOREM TransferUsesStore == TransferSpec => Spec
  <1>1. TransferInit => Init
    BY DEF TransferInit, IssuanceInit
  <1>2. QED
    BY <1>1, TransferInvariant, TransferStoreStep, TransferServes, PTL DEF TransferSpec, Spec

-----------------------------------------------------------------------------
(* COLLATERALIZE.  Its mandates stay backed, and a constraint exists only  *)
(* for what was reported, over the holder the mandate names, with the      *)
(* constraints of a report recorded one by one and any of them refused or  *)
(* lost.                                                                   *)

-----------------------------------------------------------------------------
(* The inductive invariant.                                                *)

\* Evidence names a mandate that was issued and stands in its log.
PledgesKnown ==
    \A e \in Arrangements : pledges[e] # None =>
        Issued(pledges[e].mandate) /\ mandates[pledges[e].mandate].log # << >>

\* What a report in flight has still to constrain it reported.
EncumberingKnown ==
    \A e \in Arrangements : encumbering[e] # << >> =>
        pledges[e] # None /\ RightsOf(encumbering[e]) \subseteq RightsOf(pledges[e].rights)

CollateralInv ==
    /\ IssuanceInv
    /\ CollateralTypeOK
    /\ PledgesKnown
    /\ EncumberingKnown
    /\ ConstraintsFollowEvidence

LEMMA CollateralInvInit == CollateralInit => CollateralInv
  <1> SUFFICES ASSUME CollateralInit PROVE CollateralInv
    OBVIOUS
  <1>1. IssuanceInv
    BY IssuanceInvInit DEF CollateralInit
  <1>2. CollateralTypeOK
    BY <1>1 DEF CollateralInit, CollateralTypeOK, IssuanceInv
  <1>3. PledgesKnown /\ EncumberingKnown
    BY DEF CollateralInit, PledgesKnown, EncumberingKnown
  <1>4. ConstraintsFollowEvidence
    BY DEF CollateralInit, IssuanceInit, Init, ConstraintsFollowEvidence
  <1>5. QED
    BY <1>1, <1>2, <1>3, <1>4 DEF CollateralInv

LEMMA PledgeTyped ==
    ASSUME CollateralInv, NEW e \in Arrangements, pledges[e] # None
    PROVE  /\ pledges[e] \in Pledge
           /\ pledges[e].mandate \in Mandates
           /\ pledges[e].scope \in Requestable
           /\ pledges[e].at \in Instants
           /\ requests[pledges[e].mandate] # None
           /\ requests[pledges[e].mandate].terms.from \in Holders
  <1>1. pledges[e] \in Pledge
    BY DEF CollateralInv, CollateralTypeOK
  <1>2. pledges[e].mandate \in Mandates
    BY <1>1 DEF Pledge
  <1>3. requests[pledges[e].mandate] # None
    BY <1>2 DEF CollateralInv, PledgesKnown, IssuanceInv, MandateSound, CallsInOrder
  <1>4. requests[pledges[e].mandate] \in Request
    BY <1>2, <1>3 DEF CollateralInv, IssuanceInv, IssuanceTypeOK
  <1>5. requests[pledges[e].mandate].terms \in Terms
    BY <1>4 DEF Request
  <1>6. QED
    BY <1>1, <1>2, <1>3, <1>5, TermsTyped DEF Pledge

LEMMA NextConstraint ==
    ASSUME CollateralInv, NEW e \in Arrangements, encumbering[e] # << >>
    PROVE  /\ Head(encumbering[e]) \in Rights
           /\ Head(encumbering[e]) \in RightsOf(pledges[e].rights)
           /\ pledges[e] # None
           /\ Tail(encumbering[e]) \in Seq(Rights)
           /\ RightsOf(Tail(encumbering[e])) \subseteq RightsOf(pledges[e].rights)
  <1>1. encumbering[e] \in Seq(Rights)
    BY DEF CollateralInv, CollateralTypeOK
  <1>2. /\ Head(encumbering[e]) \in Rights /\ Tail(encumbering[e]) \in Seq(Rights)
        /\ Head(encumbering[e]) \in RightsOf(encumbering[e])
    BY <1>1 DEF RightsOf
  <1>3. RightsOf(Tail(encumbering[e])) \subseteq RightsOf(encumbering[e])
    <2>1. \A i \in DOMAIN Tail(encumbering[e]) :
            i + 1 \in DOMAIN encumbering[e] /\ Tail(encumbering[e])[i] = encumbering[e][i + 1]
      BY <1>1
    <2>2. QED
      BY <2>1 DEF RightsOf
  <1>4. QED
    BY <1>2, <1>3 DEF CollateralInv, EncumberingKnown

\* Whose commitment a constraint replaces is the holder the mandate names.
LEMMA CommitmentNamed ==
    ASSUME CollateralInv, NEW e \in Arrangements, encumbering[e] # << >>, Commitment(e) # None
    PROVE  Commitment(e).holder = requests[pledges[e].mandate].terms.from
  BY NextConstraint, PledgeTyped DEF CollateralInv, IssuanceInv, MandateSound, HolderNamed, Commitment

LEMMA ConstrainIsEncumber ==
    ASSUME CollateralInv, NEW e \in Arrangements, Constrain(e)
    PROVE  Encumber
  <1>1. encumbering[e] # << >> /\ Commitment(e) # None /\ ConstrainNext(e)
    BY DEF Constrain
  <1>2. Head(encumbering[e]) \in Rights /\ pledges[e] # None
    BY <1>1, NextConstraint
  <1>3. Commitment(e).holder \in Holders
    BY <1>1, <1>2, CommitmentNamed, PledgeTyped
  <1>4. QED
    BY <1>1, <1>2, <1>3, PledgeTyped DEF ConstrainNext, Encumber

-----------------------------------------------------------------------------
(* The steps.                                                              *)

LEMMA CollateralSharedSound ==
    ASSUME CollateralInv, IssuanceStep, UNCHANGED pledgeVars
    PROVE  CollateralInv'
  <1>1. IssuanceInv /\ UNCHANGED <<pledges, encumbering, encumbrances>>
    BY IssuanceEncumbrances DEF CollateralInv, pledgeVars
  <1>2. IssuanceInv'
    BY <1>1, IssuanceInvStep
  <1>3. CollateralTypeOK'
    BY <1>1, <1>2 DEF CollateralInv, CollateralTypeOK, IssuanceInv
  <1>4. \A e \in Arrangements : pledges[e] # None =>
          LET m == pledges[e].mandate
          IN  /\ requests'[m] = requests[m] /\ mandates'[m] # None
              /\ mandates'[m].log = mandates[m].log
    BY <1>1, IssuedKept, PledgeTyped DEF CollateralInv, PledgesKnown
  <1>5. PledgesKnown' /\ EncumberingKnown'
    BY <1>1, <1>4 DEF CollateralInv, PledgesKnown, EncumberingKnown, Issued
  <1>6. ConstraintsFollowEvidence'
    <2>1. SUFFICES ASSUME NEW c \in Claims, encumbrances[c] # None
                   PROVE  ConstrainedOnEvidence(c)'
      BY <1>1 DEF ConstraintsFollowEvidence
    <2>2. ConstrainedOnEvidence(c) /\ c[1] \in Arrangements
      BY <2>1 DEF CollateralInv, ConstraintsFollowEvidence, Claims
    <2>3. QED
      BY <1>1, <1>4, <2>2 DEF ConstrainedOnEvidence
  <1>7. QED
    BY <1>2, <1>3, <1>5, <1>6 DEF CollateralInv

LEMMA ReportPledgeSound ==
    ASSUME CollateralInv, NEW e \in Arrangements, NEW m \in Mandates, NEW rights \in RightLists,
           NEW s \in Requestable, NEW at \in Instants, ReportPledge(e, m, rights, s, at)
    PROVE  CollateralInv'
  <1> DEFINE v == [mandate |-> m, rights |-> rights, scope |-> s, at |-> at, recorded |-> now]
  <1> DEFINE d == [mandates[m] EXCEPT !.log = Append(mandates[m].log, e)]
  <1>1. /\ Issued(m) /\ mandates[m] \in Mandate
        /\ pledges[e] = None
        /\ mandates \in [Mandates -> Mandate \cup {None}]
        /\ pledges \in [Arrangements -> Pledge \cup {None}]
        /\ encumbering \in [Arrangements -> Seq(Rights)]
        /\ now \in Nat
    BY DEF ReportPledge, Issued, CollateralInv, CollateralTypeOK, IssuanceTypeOK, TypeOK
  <1>2. /\ pledges' = [pledges EXCEPT ![e] = v]
        /\ mandates' = [mandates EXCEPT ![m] = d]
        /\ encumbering' = [encumbering EXCEPT ![e] = rights]
        /\ UNCHANGED <<positions, transitions, reservations, encumbrances, now, requests, revoking>>
    BY DEF ReportPledge, vars
  <1>3. v \in Pledge /\ v # None
    BY <1>1, PledgeAssumption DEF Pledge
  <1>4. /\ mandates[m].log \in Seq(Executions \cup Arrangements)
        /\ Append(mandates[m].log, e) \in Seq(Executions \cup Arrangements)
        /\ Append(mandates[m].log, e) # << >>
    <2>1. mandates[m].log \in Seq(Executions \cup Arrangements)
      BY <1>1 DEF Mandate
    <2>2. /\ Append(mandates[m].log, e) \in Seq(Executions \cup Arrangements)
          /\ Len(Append(mandates[m].log, e)) = Len(mandates[m].log) + 1
          /\ Len(mandates[m].log) \in Nat
      BY <2>1
    <2>3. Append(mandates[m].log, e) # << >>
      BY <2>2
    <2>4. QED
      BY <2>1, <2>2, <2>3
  <1>5. d \in Mandate /\ d.log # << >> /\ d.status = mandates[m].status
    BY <1>1, <1>4 DEF Mandate
  <1>6. /\ pledges'[e] = v /\ \A x \in Arrangements : x # e => pledges'[x] = pledges[x]
        /\ encumbering'[e] = rights /\ \A x \in Arrangements : x # e => encumbering'[x] = encumbering[x]
        /\ mandates'[m] = d /\ \A n \in Mandates : n # m => mandates'[n] = mandates[n]
        /\ d # None
    BY <1>1, <1>2, <1>5, IssuanceAssumption
  <1>7. IssuanceTypeOK'
    <2>1. mandates' \in [Mandates -> Mandate \cup {None}]
      BY <1>1, <1>2, <1>5
    <2>2. QED
      BY <1>2, <2>1 DEF CollateralInv, CollateralTypeOK, IssuanceTypeOK, TypeOK
  <1>8. CollateralTypeOK'
    BY <1>1, <1>2, <1>3, <1>7, RightListIsSeq DEF CollateralTypeOK
  <1>9. IssuanceInv'
    <2>1. Exercises
      BY <1>1, <1>2, <1>5, <1>6 DEF Exercises, Issued
    <2>2. QED
      BY <1>7, <2>1, ExerciseSound DEF CollateralInv
  <1>10. PledgesKnown'
    <2>1. SUFFICES ASSUME NEW x \in Arrangements, pledges'[x] # None
                   PROVE  /\ mandates'[pledges'[x].mandate] # None
                          /\ mandates'[pledges'[x].mandate].log # << >>
      BY DEF PledgesKnown, Issued
    <2>2. pledges'[e].mandate = m /\ mandates'[m] # None /\ mandates'[m].log # << >>
      BY <1>5, <1>6
    <2>3. CASE x = e
      BY <2>2, <2>3
    <2>4. CASE x # e
      <3>1. pledges[x] # None /\ pledges'[x] = pledges[x] /\ pledges[x].mandate \in Mandates
        BY <1>6, <2>1, <2>4, PledgeTyped
      <3>2. mandates[pledges[x].mandate] # None /\ mandates[pledges[x].mandate].log # << >>
        BY <3>1 DEF CollateralInv, PledgesKnown, Issued
      <3>3. QED
        BY <1>6, <2>2, <3>1, <3>2
    <2>5. QED
      BY <2>3, <2>4
  <1>11. EncumberingKnown'
    BY <1>3, <1>6 DEF CollateralInv, EncumberingKnown
  <1>12. ConstraintsFollowEvidence'
    <2>1. SUFFICES ASSUME NEW c \in Claims, encumbrances[c] # None
                   PROVE  ConstrainedOnEvidence(c)'
      BY <1>2 DEF ConstraintsFollowEvidence
    <2>2. ConstrainedOnEvidence(c) /\ c[1] \in Arrangements
      BY <2>1 DEF CollateralInv, ConstraintsFollowEvidence, Claims
    <2>3. pledges'[c[1]] = pledges[c[1]]
      BY <1>1, <1>6, <2>2 DEF ConstrainedOnEvidence
    <2>4. QED
      BY <1>2, <2>2, <2>3 DEF ConstrainedOnEvidence
  <1>13. QED
    BY <1>8, <1>9, <1>10, <1>11, <1>12 DEF CollateralInv

\* A constraint takes over a commitment of its mandate and no other's.
LEMMA ConstrainIsExercise ==
    ASSUME CollateralInv, NEW e \in Arrangements, Constrain(e)
    PROVE  Exercises
  <1> DEFINE m == pledges[e].mandate
  <1> DEFINE r == Head(encumbering[e])
  <1>1. m \in Mandates /\ r \in Rights /\ Issued(m) /\ mandates[m].log # << >>
    BY NextConstraint, PledgeTyped DEF Constrain, CollateralInv, PledgesKnown
  <1>2. /\ \/ UNCHANGED reservations
           \/ reservations' = [reservations EXCEPT ![<<m, r>>].status = "encumbered"]
        /\ UNCHANGED <<now, requests, mandates, revoking>>
    BY DEF Constrain, ConstrainNext, RecordEncumbrance, issuanceVars
  <1>3. reservations \in [Promises -> Reservation \cup {None}] /\ reservations[<<m, r>>] # None
    BY DEF CollateralInv, IssuanceInv, IssuanceTypeOK, TypeOK, Constrain, Commitment
  <1>4. ASSUME NEW n \in Mandates, NEW x \in Rights
        PROVE  /\ n # m => reservations'[<<n, x>>] = reservations[<<n, x>>]
               /\ reservations'[<<n, x>>] # None =>
                     /\ reservations[<<n, x>>] # None
                     /\ reservations'[<<n, x>>].holder = reservations[<<n, x>>].holder
    <2>1. CASE UNCHANGED reservations
      BY <2>1
    <2>2. CASE reservations' = [reservations EXCEPT ![<<m, r>>].status = "encumbered"]
      <3>1. reservations[<<m, r>>] \in Reservation
        BY <1>1, <1>3 DEF Promises
      <3>2. reservations'[<<m, r>>] = [reservations[<<m, r>>] EXCEPT !.status = "encumbered"]
        BY <1>1, <1>3, <2>2 DEF Promises
      <3>3. <<n, x>> # <<m, r>> => reservations'[<<n, x>>] = reservations[<<n, x>>]
        BY <1>3, <2>2 DEF Promises
      <3>4. QED
        BY <1>3, <3>1, <3>2, <3>3 DEF Reservation
    <2>3. QED
      BY <1>2, <2>1, <2>2
  <1>5. QED
    BY <1>1, <1>2, <1>4 DEF Exercises, Issued

LEMMA ConstrainSound ==
    ASSUME CollateralInv, NEW e \in Arrangements, Constrain(e)
    PROVE  CollateralInv'
  <1> DEFINE v == pledges[e]
  <1> DEFINE r == Head(encumbering[e])
  <1>1. /\ encumbering[e] # << >> /\ Commitment(e) # None
        /\ encumbering' = [encumbering EXCEPT ![e] = Tail(encumbering[e])]
        /\ encumbrances' = [encumbrances EXCEPT ![<<e, r>>] =
               [holder |-> Commitment(e).holder, scope |-> v.scope, mandate |-> v.mandate,
                from |-> v.at, status |-> "active", basis |-> None]]
        /\ UNCHANGED <<requests, mandates, revoking, pledges>>
    BY DEF Constrain, ConstrainNext, RecordEncumbrance, issuanceVars
  <1>2. /\ encumbering \in [Arrangements -> Seq(Rights)]
        /\ encumbrances \in [Claims -> Encumbrance \cup {None}]
    BY DEF CollateralInv, CollateralTypeOK, IssuanceTypeOK, TypeOK
  <1>3. /\ r \in Rights /\ r \in RightsOf(v.rights) /\ v # None
        /\ Tail(encumbering[e]) \in Seq(Rights)
        /\ RightsOf(Tail(encumbering[e])) \subseteq RightsOf(v.rights)
    BY <1>1, NextConstraint
  <1>4. TypeOK'
    BY ConstrainIsEncumber, TypeStep DEF CollateralInv, IssuanceInv, IssuanceTypeOK, Next
  <1>5. IssuanceTypeOK' /\ CollateralTypeOK'
    BY <1>1, <1>2, <1>3, <1>4 DEF CollateralInv, CollateralTypeOK, IssuanceTypeOK
  <1>6. IssuanceInv'
    BY <1>5, ConstrainIsExercise, ExerciseSound DEF CollateralInv
  <1>7. PledgesKnown'
    BY <1>1 DEF CollateralInv, PledgesKnown, Issued
  <1>8. EncumberingKnown'
    BY <1>1, <1>2, <1>3 DEF CollateralInv, EncumberingKnown
  <1>9. ConstraintsFollowEvidence'
    <2>1. SUFFICES ASSUME NEW c \in Claims, encumbrances'[c] # None
                   PROVE  ConstrainedOnEvidence(c)'
      BY DEF ConstraintsFollowEvidence
    <2>2. CASE c = <<e, r>>
      BY <1>1, <1>2, <1>3, <2>1, <2>2, CommitmentNamed DEF ConstrainedOnEvidence
    <2>3. CASE c # <<e, r>>
      <3>1. encumbrances'[c] = encumbrances[c]
        BY <1>1, <1>2, <2>3
      <3>2. QED
        BY <1>1, <2>1, <3>1 DEF CollateralInv, ConstraintsFollowEvidence, ConstrainedOnEvidence
    <2>4. QED
      BY <2>2, <2>3
  <1>10. QED
    BY <1>5, <1>6, <1>7, <1>8, <1>9 DEF CollateralInv

\* Steps that write nothing but the rights still to constrain.
LEMMA PassedSound ==
    ASSUME CollateralInv, NEW e \in Arrangements, ConstrainPassed(e) \/ ConstrainLost(e)
    PROVE  CollateralInv'
  <1>1. /\ encumbering[e] # << >>
        /\ UNCHANGED <<positions, transitions, reservations, encumbrances, now, requests, mandates,
                       revoking, pledges>>
        /\ \E rest \in {Tail(encumbering[e]), << >>} : encumbering' = [encumbering EXCEPT ![e] = rest]
    BY DEF ConstrainPassed, ConstrainLost, vars, issuanceVars
  <1>2. encumbering \in [Arrangements -> Seq(Rights)]
    BY DEF CollateralInv, CollateralTypeOK
  <1>3. PICK rest \in {Tail(encumbering[e]), << >>} : encumbering' = [encumbering EXCEPT ![e] = rest]
    BY <1>1
  <1>4. rest \in Seq(Rights) /\ pledges[e] # None /\ RightsOf(rest) \subseteq RightsOf(pledges[e].rights)
    <2>1. << >> \in Seq(Rights) /\ RightsOf(<< >>) = {}
      BY DEF RightsOf
    <2>2. CASE rest = << >>
      BY <1>1, <2>1, <2>2, NextConstraint
    <2>3. CASE rest = Tail(encumbering[e])
      BY <1>1, <2>3, NextConstraint
    <2>4. QED
      BY <1>3, <2>2, <2>3
  <1>5. IssuanceTypeOK' /\ CollateralTypeOK'
    BY <1>1, <1>2, <1>3, <1>4 DEF CollateralInv, CollateralTypeOK, IssuanceTypeOK, TypeOK
  <1>6. IssuanceInv'
    <2>1. Exercises
      BY <1>1 DEF Exercises, Issued
    <2>2. QED
      BY <1>5, <2>1, ExerciseSound DEF CollateralInv
  <1>7. PledgesKnown' /\ ConstraintsFollowEvidence'
    BY <1>1 DEF CollateralInv, PledgesKnown, Issued, ConstraintsFollowEvidence, ConstrainedOnEvidence
  <1>8. EncumberingKnown'
    BY <1>1, <1>2, <1>3, <1>4 DEF CollateralInv, EncumberingKnown
  <1>9. QED
    BY <1>5, <1>6, <1>7, <1>8 DEF CollateralInv

\* A release ends a constraint and leaves what it was for.
LEMMA DischargeSound ==
    ASSUME CollateralInv, Discharge, UNCHANGED issuanceVars, UNCHANGED pledgeVars
    PROVE  CollateralInv'
  <1>1. PICK e \in Arrangements, r \in Rights, basis \in ReleaseBases : ReleaseEncumbrance(e, r, basis)
    BY DEF Discharge
  <1>2. UNCHANGED <<requests, mandates, revoking, pledges, encumbering, reservations, now>>
    BY <1>1 DEF ReleaseEncumbrance, issuanceVars, pledgeVars
  <1>3. TypeOK'
    BY TypeStep DEF CollateralInv, IssuanceInv, IssuanceTypeOK, Next
  <1>4. IssuanceTypeOK' /\ CollateralTypeOK'
    BY <1>2, <1>3 DEF CollateralInv, CollateralTypeOK, IssuanceTypeOK
  <1>5. IssuanceInv'
    <2>1. Exercises
      BY <1>2 DEF Exercises, Issued
    <2>2. QED
      BY <1>4, <2>1, ExerciseSound DEF CollateralInv
  <1>6. PledgesKnown' /\ EncumberingKnown'
    BY <1>2 DEF CollateralInv, PledgesKnown, EncumberingKnown, Issued
  <1>7. \A c \in Claims : encumbrances'[c] # None =>
          /\ encumbrances[c] # None
          /\ encumbrances'[c].mandate = encumbrances[c].mandate
          /\ encumbrances'[c].scope = encumbrances[c].scope
          /\ encumbrances'[c].from = encumbrances[c].from
          /\ encumbrances'[c].holder = encumbrances[c].holder
    <2>1. encumbrances \in [Claims -> Encumbrance \cup {None}] /\ <<e, r>> \in Claims
      BY DEF CollateralInv, IssuanceInv, IssuanceTypeOK, TypeOK, Claims
    <2>2. encumbrances[<<e, r>>] \in Encumbrance /\ encumbrances[<<e, r>>] # None
      BY <1>1, <2>1 DEF ReleaseEncumbrance
    <2>3. encumbrances' = [encumbrances EXCEPT ![<<e, r>>] =
              [encumbrances[<<e, r>>] EXCEPT !.status = "released", !.basis = basis]]
      BY <1>1, <2>1, <2>2 DEF ReleaseEncumbrance, Encumbrance
    <2>4. QED
      BY <2>1, <2>2, <2>3 DEF Encumbrance
  <1>8. ConstraintsFollowEvidence'
    BY <1>2, <1>7 DEF CollateralInv, ConstraintsFollowEvidence, ConstrainedOnEvidence
  <1>9. QED
    BY <1>4, <1>5, <1>6, <1>8 DEF CollateralInv

\* The steps of the service, whoever shares its store of requests and mandates.
CollateralService ==
    \/ IssuanceStep /\ UNCHANGED pledgeVars
    \/ Discharge /\ UNCHANGED issuanceVars /\ UNCHANGED pledgeVars
    \/ Arrange

LEMMA CollateralServes == CollateralNext => CollateralService
  BY DEF CollateralNext, CollateralService, IssuanceStep, Submission, Terms

LEMMA CollateralInvStep == CollateralInv /\ [CollateralService]_collateralVars => CollateralInv'
  <1> SUFFICES ASSUME CollateralInv, [CollateralService]_collateralVars PROVE CollateralInv'
    OBVIOUS
  <1>1. CASE IssuanceStep /\ UNCHANGED pledgeVars
    BY <1>1, CollateralSharedSound
  <1>2. CASE Discharge /\ UNCHANGED issuanceVars /\ UNCHANGED pledgeVars
    BY <1>2, DischargeSound
  <1>3. CASE Pledging
    BY <1>3, ReportPledgeSound DEF Pledging
  <1>4. ASSUME NEW e \in Arrangements, Constrain(e) \/ ConstrainPassed(e) \/ ConstrainLost(e)
        PROVE  CollateralInv'
    BY <1>4, ConstrainSound, PassedSound
  <1>5. CASE UNCHANGED collateralVars
    <2>1. UNCHANGED <<positions, transitions, reservations, encumbrances, now, requests, mandates,
                      revoking, pledges, encumbering>>
      BY <1>5 DEF collateralVars, vars, issuanceVars, pledgeVars
    <2>2. IssuanceTypeOK' /\ CollateralTypeOK'
      BY <2>1 DEF CollateralInv, CollateralTypeOK, IssuanceTypeOK, TypeOK
    <2>3. Exercises
      BY <2>1 DEF Exercises, Issued
    <2>4. QED
      BY <2>1, <2>2, <2>3, ExerciseSound
         DEF CollateralInv, PledgesKnown, EncumberingKnown, Issued, ConstraintsFollowEvidence,
             ConstrainedOnEvidence
  <1>6. QED
    BY <1>1, <1>2, <1>3, <1>4, <1>5 DEF CollateralService, Arrange

-----------------------------------------------------------------------------
(* The theorems.                                                           *)

LEMMA CollateralInvariant == CollateralSpec => []CollateralInv
  BY CollateralInvInit, CollateralInvStep, CollateralServes, PTL DEF CollateralSpec

\* Every state of the service and its stores is well typed.
THEOREM CollateralTypeCorrect == CollateralSpec => []CollateralTypeOK
  <1>1. CollateralInv => CollateralTypeOK
    BY DEF CollateralInv
  <1>2. QED
    BY <1>1, CollateralInvariant, PTL

\* A constraint exists only for what was reported, over the rights, for the
\* scope and from the instant reported, against the holder of the mandate.
THEOREM ConstraintsHaveEvidence == CollateralSpec => []ConstraintsFollowEvidence
  <1>1. CollateralInv => ConstraintsFollowEvidence
    BY DEF CollateralInv
  <1>2. QED
    BY <1>1, CollateralInvariant, PTL

\* What the service shares with TRANSFER holds here too: an unused mandate is
\* backed, and a failed request can give back all it took.
THEOREM CollateralMandatesBacked == CollateralSpec => [](MandateBacked /\ CompensationKnowsAll)
  <1>1. CollateralInv => MandateBacked /\ CompensationKnowsAll
    BY InvBacked, InvKnowsAll DEF CollateralInv
  <1>2. QED
    BY <1>1, CollateralInvariant, PTL

LEMMA CollateralStoreStep == CollateralInv /\ [CollateralService]_collateralVars => [Next]_vars
  <1> SUFFICES ASSUME CollateralInv, [CollateralService]_collateralVars PROVE [Next]_vars
    OBVIOUS
  <1>1. CASE IssuanceStep /\ UNCHANGED pledgeVars
    BY <1>1, IssuanceUsesStore DEF CollateralInv
  <1>2. CASE Discharge /\ UNCHANGED issuanceVars /\ UNCHANGED pledgeVars
    BY <1>2 DEF Next
  <1>3. CASE Pledging
    BY <1>3 DEF Pledging, ReportPledge
  <1>4. ASSUME NEW e \in Arrangements, Constrain(e) \/ ConstrainPassed(e) \/ ConstrainLost(e)
        PROVE  [Next]_vars
    <2>1. CASE Constrain(e)
      BY <2>1, ConstrainIsEncumber DEF Next
    <2>2. CASE ConstrainPassed(e) \/ ConstrainLost(e)
      BY <2>2 DEF ConstrainPassed, ConstrainLost
    <2>3. QED
      BY <1>4, <2>1, <2>2
  <1>5. CASE UNCHANGED collateralVars
    BY <1>5 DEF collateralVars
  <1>6. QED
    BY <1>1, <1>2, <1>3, <1>4, <1>5 DEF CollateralService, Arrange

\* The service is a client of the store, and the store's theorems are about it.
THEOREM CollateralUsesStore == CollateralSpec => Spec
  <1>1. CollateralInit => Init
    BY DEF CollateralInit, IssuanceInit
  <1>2. QED
    BY <1>1, CollateralInvariant, CollateralStoreStep, CollateralServes, PTL DEF CollateralSpec, Spec

-----------------------------------------------------------------------------
(* The books of a mandate store: the log of a mandate lists, once each, the *)
(* evidence that names it, and totals no more than its terms.              *)

LogTotal(log, ev) == SumFunction([i \in DOMAIN log |-> ev[log[i]].scope.qty])

Book(log, ev, E, m, cap) ==
    /\ log \in Seq(E)
    /\ Distinct(log)
    /\ Range(log) = {e \in E : ev[e] # None /\ ev[e].mandate = m}
    /\ LogTotal(log, ev) <= cap

\* What each piece of evidence is for.
QtyOf(ev, E) == [e \in E |-> ev[e].scope.qty]

Quantified(ev, E) == \A e \in E : ev[e] # None => ev[e].scope.qty \in Nat

\* The total of a log is a sum over what it lists.
LEMMA TotalIsSum ==
    ASSUME NEW E, NEW ev, Quantified(ev, E), NEW log \in Seq(E), Distinct(log),
           \A e \in Range(log) : ev[e] # None
    PROVE  /\ Summable(QtyOf(ev, E), Range(log))
           /\ LogTotal(log, ev) = SumFunctionOnSet(QtyOf(ev, E), Range(log))
  <1> DEFINE q == [i \in DOMAIN log |-> ev[log[i]].scope.qty]
  <1>1. DOMAIN log = 1..Len(log) /\ Len(log) \in Nat /\ \A i \in DOMAIN log : log[i] \in E
    OBVIOUS
  <1>2. IsFiniteSet(DOMAIN log)
    BY <1>1, FS_Interval
  <1>3. \A i \in DOMAIN log : log[i] \in Range(log)
    BY DEF Range
  <1>4. Summable(q, DOMAIN log)
    BY <1>1, <1>2, <1>3 DEF Summable, Quantified
  <1>5. log \in [DOMAIN log -> Range(log)] /\ Renames(log, DOMAIN log, Range(log))
    BY <1>1 DEF Renames, Distinct, Range
  <1>6. \A i \in DOMAIN log : QtyOf(ev, E)[log[i]] = q[i]
    BY <1>1 DEF QtyOf
  <1>7. LogTotal(log, ev) = SumFunctionOnSet(q, DOMAIN log)
    BY DEF LogTotal, SumFunction
  <1> HIDE DEF q
  <1>8. QED
    BY <1>4, <1>5, <1>6, <1>7, SumRename

LEMMA BookTotal ==
    ASSUME NEW E, NEW ev, Quantified(ev, E), NEW log, NEW m, NEW cap, Book(log, ev, E, m, cap)
    PROVE  /\ Summable(QtyOf(ev, E), Range(log))
           /\ LogTotal(log, ev) = SumFunctionOnSet(QtyOf(ev, E), Range(log))
           /\ LogTotal(log, ev) \in Nat
  <1>1. log \in Seq(E) /\ Distinct(log) /\ \A e \in Range(log) : ev[e] # None
    BY DEF Book
  <1>2. QED
    BY <1>1, TotalIsSum, SumType

\* Evidence entered in a log within its room leaves the book in order.
LEMMA BookGrows ==
    ASSUME NEW E, NEW V, NEW ev \in [E -> V], Quantified(ev, E), NEW log, NEW m, NEW cap,
           Book(log, ev, E, m, cap), NEW e \in E, ev[e] = None,
           NEW v, v # None, v.mandate = m, v.scope.qty \in Nat,
           LogTotal(log, ev) + v.scope.qty <= cap
    PROVE  Book(Append(log, e), [ev EXCEPT ![e] = v], E, m, cap)
  <1> DEFINE next == [ev EXCEPT ![e] = v]
  <1> DEFINE more == Append(log, e)
  <1>1. log \in Seq(E) /\ Distinct(log) /\ Len(log) \in Nat /\ DOMAIN log = 1..Len(log)
        /\ Range(log) = {x \in E : ev[x] # None /\ ev[x].mandate = m}
    BY DEF Book
  <1>2. next[e] = v /\ \A x \in E : x # e => next[x] = ev[x]
    OBVIOUS
  <1>3. e \notin Range(log) /\ Range(log) \subseteq E
    BY <1>1
  <1>4. /\ more \in Seq(E) /\ DOMAIN more = 1..(Len(log) + 1) /\ more[Len(log) + 1] = e
        /\ \A i \in DOMAIN log : more[i] = log[i]
    BY <1>1
  <1>5. \A i \in DOMAIN more : i = Len(log) + 1 \/ i \in DOMAIN log
    BY <1>1, <1>4
  <1>6. Range(more) = Range(log) \cup {e}
    <2>1. Len(log) + 1 \in DOMAIN more /\ DOMAIN log \subseteq DOMAIN more
      BY <1>1, <1>4
    <2> HIDE DEF more
    <2>2. QED
      BY <1>4, <1>5, <2>1 DEF Range
  <1>7. Distinct(more)
    <2>1. \A i \in DOMAIN log : log[i] # e
      BY <1>3 DEF Range
    <2> HIDE DEF more
    <2>2. QED
      BY <1>1, <1>4, <1>5, <2>1 DEF Distinct
  <1> HIDE DEF more, next
  <1>8. Range(more) = {x \in E : next[x] # None /\ next[x].mandate = m}
    BY <1>1, <1>2, <1>3, <1>6
  <1>9. Quantified(next, E)
    BY <1>2 DEF Quantified
  <1>10. LogTotal(more, next) = LogTotal(log, ev) + v.scope.qty
    <2>1. /\ Summable(QtyOf(ev, E), Range(log))
          /\ LogTotal(log, ev) = SumFunctionOnSet(QtyOf(ev, E), Range(log))
      BY BookTotal
    <2>2. \A x \in Range(more) : next[x] # None
      BY <1>8
    <2>3. /\ Summable(QtyOf(next, E), Range(log) \cup {e})
          /\ LogTotal(more, next) = SumFunctionOnSet(QtyOf(next, E), Range(log) \cup {e})
      <3>1. /\ Summable(QtyOf(next, E), Range(more))
            /\ LogTotal(more, next) = SumFunctionOnSet(QtyOf(next, E), Range(more))
        <4>1. more \in Seq(E)
          BY <1>4
        <4>2. QED
          BY <1>7, <1>9, <2>2, <4>1, TotalIsSum
      <3>2. QED
        BY <1>6, <3>1, Zenon
    <2>4. AgreeOn(QtyOf(ev, E), QtyOf(next, E), Range(log))
      BY <1>2, <1>3 DEF AgreeOn, QtyOf
    <2>5. QtyOf(next, E)[e] = v.scope.qty
      BY <1>2 DEF QtyOf
    <2>6. QED
      BY <1>3, <2>1, <2>3, <2>4, <2>5, SumGains
  <1>11. QED
    BY <1>4, <1>7, <1>8, <1>10 DEF Book, more, next

\* Evidence about another mandate leaves it as it was.
LEMMA BookKept ==
    ASSUME NEW E, NEW V, NEW ev \in [E -> V], Quantified(ev, E), NEW log, NEW m, NEW cap,
           Book(log, ev, E, m, cap), NEW e \in E, ev[e] = None,
           NEW v, v # None, v.mandate # m, v.scope.qty \in Nat
    PROVE  Book(log, [ev EXCEPT ![e] = v], E, m, cap)
  <1> DEFINE next == [ev EXCEPT ![e] = v]
  <1>1. log \in Seq(E) /\ Distinct(log) /\ LogTotal(log, ev) <= cap
        /\ Range(log) = {x \in E : ev[x] # None /\ ev[x].mandate = m}
    BY DEF Book
  <1>2. next[e] = v /\ \A x \in E : x # e => next[x] = ev[x]
    OBVIOUS
  <1> HIDE DEF next
  <1>3. Range(log) = {x \in E : next[x] # None /\ next[x].mandate = m}
    BY <1>1, <1>2
  <1>4. \A i \in DOMAIN log : next[log[i]] = ev[log[i]]
    <2>1. \A i \in DOMAIN log : log[i] \in Range(log)
      BY DEF Range
    <2>2. QED
      BY <1>1, <1>2, <2>1
  <1>5. LogTotal(log, next) = LogTotal(log, ev)
    BY <1>4 DEF LogTotal
  <1>6. QED
    BY <1>1, <1>3, <1>5 DEF Book, next

\* The book of a mandate no evidence names yet.
LEMMA BookOpens ==
    ASSUME NEW E, NEW ev, NEW m, NEW cap \in Nat, \A e \in E : ev[e] # None => ev[e].mandate # m
    PROVE  Book(<< >>, ev, E, m, cap)
  <1>1. << >> \in Seq(E) /\ Distinct(<< >>) /\ DOMAIN << >> = {}
    BY DEF Distinct
  <1>2. Range(<< >>) = {} /\ {e \in E : ev[e] # None /\ ev[e].mandate = m} = {}
    BY <1>1 DEF Range
  <1>3. LogTotal(<< >>, ev) = 0
    <2>1. LogTotal(<< >>, ev) = SumFunctionOnSet([i \in DOMAIN << >> |-> ev[<< >>[i]].scope.qty], {})
      BY <1>1 DEF LogTotal, SumFunction
    <2>2. QED
      BY <2>1, SumEmpty
  <1>4. QED
    BY <1>1, <1>2, <1>3 DEF Book

\* The books of a service: its evidence names mandates it issued, and each of
\* its mandates has its book in order.
Books(md, rq, ev, E, action) ==
    /\ \A e \in E : ev[e] # None =>
          /\ ev[e].mandate \in Mandates
          /\ md[ev[e].mandate] # None
          /\ rq[ev[e].mandate].terms.action = action
    /\ \A m \in Mandates : (md[m] # None /\ rq[m].terms.action = action) =>
          Book(md[m].log, ev, E, m, rq[m].terms.scope.qty)

\* A report the mandate has room for.
LEMMA BooksReported ==
    ASSUME NEW E, NEW V, NEW ev \in [E -> V], Quantified(ev, E), NEW W, NEW md \in [Mandates -> W], NEW rq,
           NEW action, Books(md, rq, ev, E, action),
           NEW e \in E, ev[e] = None, NEW m \in Mandates, md[m] # None, rq[m].terms.action = action,
           NEW v, v # None, v.mandate = m, v.scope.qty \in Nat,
           LogTotal(md[m].log, ev) + v.scope.qty <= rq[m].terms.scope.qty,
           NEW d, d # None, d.log = Append(md[m].log, e)
    PROVE  Books([md EXCEPT ![m] = d], rq, [ev EXCEPT ![e] = v], E, action)
  <1> DEFINE next == [ev EXCEPT ![e] = v]
  <1> DEFINE more == [md EXCEPT ![m] = d]
  <1>1. next[e] = v /\ \A x \in E : x # e => next[x] = ev[x]
    OBVIOUS
  <1>2. more[m] = d /\ \A n \in Mandates : n # m => more[n] = md[n]
    OBVIOUS
  <1>3. ASSUME NEW n \in Mandates, more[n] # None, rq[n].terms.action = action
        PROVE  Book(more[n].log, next, E, n, rq[n].terms.scope.qty)
    <2>1. CASE n = m
      <3>1. Book(md[m].log, ev, E, m, rq[m].terms.scope.qty)
        BY DEF Books
      <3>2. Book(Append(md[m].log, e), next, E, m, rq[m].terms.scope.qty)
        BY <3>1, BookGrows
      <3> HIDE DEF next, more
      <3>3. QED
        BY <1>2, <2>1, <3>2
    <2>2. CASE n # m
      <3>1. Book(md[n].log, ev, E, n, rq[n].terms.scope.qty) /\ more[n] = md[n]
        BY <1>2, <1>3, <2>2 DEF Books
      <3>2. Book(md[n].log, next, E, n, rq[n].terms.scope.qty)
        BY <2>2, <3>1, BookKept
      <3> HIDE DEF next, more
      <3>3. QED
        BY <3>1, <3>2
    <2>3. QED
      BY <2>1, <2>2
  <1> HIDE DEF next, more
  <1>4. ASSUME NEW x \in E, next[x] # None
        PROVE  /\ next[x].mandate \in Mandates
               /\ more[next[x].mandate] # None
               /\ rq[next[x].mandate].terms.action = action
    BY <1>1, <1>2, <1>4 DEF Books
  <1>5. QED
    BY <1>3, <1>4 DEF Books, next, more

\* A step that reports nothing under the service's mandates.
LEMMA BooksKept ==
    ASSUME NEW E, NEW ev, NEW md, NEW rq, NEW action, Books(md, rq, ev, E, action),
           NEW md2, NEW rq2,
           \A m \in Mandates : md[m] # None =>
               /\ md2[m] # None
               /\ rq2[m].terms = rq[m].terms
               /\ rq[m].terms.action = action => md2[m].log = md[m].log,
           \A m \in Mandates : (md[m] = None /\ md2[m] # None) =>
               md2[m].log = << >> /\ rq2[m].terms.scope.qty \in Nat
    PROVE  Books(md2, rq2, ev, E, action)
  <1>1. ASSUME NEW m \in Mandates, md2[m] # None, rq2[m].terms.action = action
        PROVE  Book(md2[m].log, ev, E, m, rq2[m].terms.scope.qty)
    <2>1. CASE md[m] # None
      <3>1. rq2[m].terms = rq[m].terms /\ md2[m].log = md[m].log
        BY <1>1, <2>1
      <3>2. Book(md[m].log, ev, E, m, rq[m].terms.scope.qty)
        BY <1>1, <2>1, <3>1 DEF Books
      <3>3. QED
        BY <3>1, <3>2
    <2>2. CASE md[m] = None
      <3>1. md2[m].log = << >> /\ rq2[m].terms.scope.qty \in Nat
        BY <1>1, <2>2
      <3>2. \A e \in E : ev[e] # None => ev[e].mandate # m
        BY <2>2 DEF Books
      <3>3. QED
        BY <3>1, <3>2, BookOpens
    <2>3. QED
      BY <2>1, <2>2
  <1>2. \A e \in E : ev[e] # None =>
          /\ ev[e].mandate \in Mandates
          /\ md2[ev[e].mandate] # None
          /\ rq2[ev[e].mandate].terms.action = action
    BY DEF Books
  <1>3. QED
    BY <1>1, <1>2 DEF Books

\* x traces each member of S to a piece of evidence for mandate m, of its own
\* and for as much as f says.
Traced(x, f, S, ev, E, m) ==
    /\ x \in [S -> E]
    /\ \A s, t \in S : x[s] = x[t] => s = t
    /\ \A s \in S : ev[x[s]] # None /\ ev[x[s]].mandate = m /\ ev[x[s]].scope.qty = f[s]

\* What is done on the evidence of one mandate totals no more than its terms,
\* and leaves room for the evidence nothing is done on.
LEMMA TracedWithinBook ==
    ASSUME NEW E, NEW ev, Quantified(ev, E), NEW log, NEW m, NEW cap, Book(log, ev, E, m, cap),
           NEW S, NEW f, Summable(f, S), NEW x, Traced(x, f, S, ev, E, m)
    PROVE  /\ SumFunctionOnSet(f, S) <= LogTotal(log, ev)
           /\ \A e \in E : (ev[e] # None /\ ev[e].mandate = m /\ \A s \in S : x[s] # e) =>
                 SumFunctionOnSet(f, S) + ev[e].scope.qty <= LogTotal(log, ev)
  <1> DEFINE q == QtyOf(ev, E)
  <1> DEFINE T == {x[s] : s \in S}
  <1>1. /\ Summable(q, Range(log)) /\ LogTotal(log, ev) = SumFunctionOnSet(q, Range(log))
    BY BookTotal
  <1>2. Range(log) = {e \in E : ev[e] # None /\ ev[e].mandate = m}
    BY DEF Book
  <1>3. T \in SUBSET Range(log)
    BY <1>2 DEF Traced
  <1>4. x \in [S -> T] /\ Renames(x, S, T) /\ \A s \in S : q[x[s]] = f[s]
    BY DEF Traced, Renames, QtyOf
  <1> HIDE DEF q, T
  <1>5. Summable(q, T) /\ SumFunctionOnSet(q, T) = SumFunctionOnSet(f, S)
    BY <1>4, SumRename
  <1>6. ASSUME NEW U \in SUBSET Range(log)
        PROVE  Summable(q, U) /\ SumFunctionOnSet(q, U) <= SumFunctionOnSet(q, Range(log))
    <2>1. Summable(q, U)
      BY <1>1, SummablePart
    <2>2. AtMost(q, q, U)
      BY <2>1 DEF AtMost, Summable
    <2>3. QED
      BY <1>1, <2>1, <2>2, SumMonotone
  <1>7. ASSUME NEW e \in E, ev[e] # None, ev[e].mandate = m, \A s \in S : x[s] # e
        PROVE  SumFunctionOnSet(f, S) + ev[e].scope.qty <= LogTotal(log, ev)
    <2>1. e \notin T /\ T \cup {e} \in SUBSET Range(log)
      BY <1>2, <1>3, <1>7 DEF T
    <2>2. Summable(q, T \cup {e}) /\ SumFunctionOnSet(q, T \cup {e}) <= SumFunctionOnSet(q, Range(log))
      BY <1>6, <2>1
    <2>3. SumFunctionOnSet(q, T \cup {e}) = q[e] + SumFunctionOnSet(q, T)
      BY <2>1, <2>2, SumAdd
    <2>4. q[e] = ev[e].scope.qty /\ q[e] \in Nat
      BY <2>2 DEF q, QtyOf, Summable
    <2>5. SumFunctionOnSet(q, T) \in Nat
      BY <1>5, SumType
    <2>6. QED
      BY <1>1, <1>5, <2>2, <2>3, <2>4, <2>5
  <1>8. SumFunctionOnSet(f, S) <= LogTotal(log, ev)
    BY <1>1, <1>3, <1>5, <1>6
  <1>9. QED
    BY <1>7, <1>8

\* What the shared steps do to the books of either service: nothing.
LEMMA SharedKeepsBooks ==
    ASSUME IssuanceInv, IssuanceStep, NEW E, NEW ev, NEW action,
           Books(mandates, requests, ev, E, action)
    PROVE  Books(mandates', requests', ev, E, action)
  <1>1. ASSUME NEW m \in Mandates, mandates[m] # None
        PROVE  /\ mandates'[m] # None
               /\ requests'[m].terms = requests[m].terms
               /\ requests[m].terms.action = action => mandates'[m].log = mandates[m].log
    BY <1>1, IssuedKept DEF Issued
  <1>2. ASSUME NEW m \in Mandates, mandates[m] = None, mandates'[m] # None
        PROVE  mandates'[m].log = << >> /\ requests'[m].terms.scope.qty \in Nat
    <2>1. mandates'[m].log = << >>
      BY <1>2, NewMandateUnused DEF Issued
    <2>2. IssuanceInv'
      BY IssuanceInvStep
    <2>3. requests'[m] \in Request
      BY <1>2, <2>2 DEF IssuanceInv, MandateSound, CallsInOrder, Issued, IssuanceTypeOK
    <2>4. requests'[m].terms.scope \in Scope
      BY <2>3, TermsTyped, RequestableIsScope DEF Request
    <2>5. QED
      BY <2>1, <2>4 DEF Scope
  <1>3. QED
    BY <1>1, <1>2, BooksKept

-----------------------------------------------------------------------------
(* A mandate to transfer never moves more of a right than its terms.       *)

TransferBooks == Books(mandates, requests, evidence, Executions, "TRANSFER")

LEMMA EvidenceQuantified == TransferInv => Quantified(evidence, Executions)
  BY RequestableIsScope DEF TransferInv, TransferTypeOK, Evidence, Quantified, Scope

LEMMA ReportKeepsBooks ==
    ASSUME TransferInv, TransferBooks, NEW e \in Executions, NEW m \in Mandates,
           NEW rights \in RightLists, NEW s \in Requestable, NEW at \in EffectiveInstants,
           Report(e, m, rights, s, at)
    PROVE  TransferBooks'
  <1> DEFINE v == [mandate |-> m, rights |-> rights, scope |-> s, at |-> at]
  <1> DEFINE d == [mandates[m] EXCEPT !.log = Append(mandates[m].log, e)]
  <1>1. /\ mandates[m] # None /\ requests[m].terms.action = "TRANSFER" /\ evidence[e] = None
        /\ evidence' = [evidence EXCEPT ![e] = v]
        /\ mandates' = [mandates EXCEPT ![m] = d]
        /\ requests' = requests
        /\ MovedUnder(m) + s.qty <= requests[m].terms.scope.qty
    BY DEF Report, Authorizes
  <1>2. /\ mandates \in [Mandates -> Mandate \cup {None}]
        /\ evidence \in [Executions -> Evidence \cup {None}]
    BY DEF TransferInv, TransferTypeOK, IssuanceTypeOK
  <1>3. v \in Evidence /\ v # None
    BY EffectiveAssumption, EvidenceAssumption DEF Evidence
  <1>4. /\ v.mandate = m /\ v.scope.qty = s.qty /\ s.qty \in Nat
    BY RequestableIsScope DEF Scope
  <1>5. d # None /\ d.log = Append(mandates[m].log, e)
    <2>1. mandates[m] \in Mandate
      BY <1>1, <1>2
    <2>2. Append(mandates[m].log, e) \in Seq(Executions \cup Arrangements)
      BY <2>1 DEF Mandate
    <2>3. d \in Mandate
      BY <2>1, <2>2 DEF Mandate
    <2>4. QED
      BY <2>1, <2>3, IssuanceAssumption DEF Mandate
  <1>6. MovedUnder(m) = LogTotal(mandates[m].log, evidence)
    BY DEF MovedUnder, LogTotal
  <1>7. Quantified(evidence, Executions) /\ Books(mandates, requests, evidence, Executions, "TRANSFER")
    BY EvidenceQuantified DEF TransferBooks
  <1>8. LogTotal(mandates[m].log, evidence) + v.scope.qty <= requests[m].terms.scope.qty
    BY <1>1, <1>4, <1>6
  <1> HIDE DEF v, d
  <1>9. Books([mandates EXCEPT ![m] = d], requests, [evidence EXCEPT ![e] = v], Executions, "TRANSFER")
    BY <1>1, <1>2, <1>3, <1>4, <1>5, <1>7, <1>8, BooksReported
  <1>10. QED
    BY <1>1, <1>9 DEF TransferBooks

LEMMA TransferBooksInit == TransferInit => TransferBooks
  BY DEF TransferInit, IssuanceInit, TransferBooks, Books

LEMMA TransferBooksStep == TransferInv /\ TransferBooks /\ [TransferService]_transferVars => TransferBooks'
  <1> SUFFICES ASSUME TransferInv, TransferBooks, [TransferService]_transferVars PROVE TransferBooks'
    OBVIOUS
  <1>1. CASE IssuanceStep /\ UNCHANGED movementVars
    <2>1. IssuanceStep /\ evidence' = evidence
      BY <1>1 DEF movementVars
    <2>2. QED
      BY <2>1, SharedKeepsBooks DEF TransferInv, TransferBooks
  <1>2. CASE Reporting
    BY <1>2, ReportKeepsBooks DEF Reporting
  <1>3. CASE \/ \E e \in Executions : Apply(e) \/ ApplyLost(e)
             \/ \E m \in Mandates : Reconcile(m)
             \/ UNCHANGED transferVars
    <2>1. UNCHANGED <<mandates, requests, evidence>>
      BY <1>3 DEF Apply, ApplyLost, Reconcile, transferVars, issuanceVars, movementVars
    <2>2. QED
      BY <2>1 DEF TransferBooks
  <1>4. QED
    BY <1>1, <1>2, <1>3 DEF TransferService, Exercise

\* What the log says was moved under a mandate was reported under it, each
\* report once, and the reports have kept to the terms.
LEMMA BooksBoundMovements ==
    TransferInv /\ TransferBooks /\ ExecutionMovesOnce => MovedWithinMandate
  <1> SUFFICES ASSUME TransferInv, TransferBooks, ExecutionMovesOnce,
                      NEW m \in Mandates, NEW r \in Rights, mandates[m] # None
               PROVE  LoggedQty({i \in DOMAIN transitions : transitions[i].mandate = m /\ transitions[i].right = r})
                        <= requests[m].terms.scope.qty
    BY DEF MovedWithinMandate
  <1> DEFINE S == {i \in DOMAIN transitions : transitions[i].mandate = m /\ transitions[i].right = r}
  <1> DEFINE x == [i \in S |-> transitions[i].execution]
  <1>1. TypeOK /\ IssuanceInv
    BY DEF TransferInv, IssuanceInv, IssuanceTypeOK
  <1>2. LoggedQty(S) = SumFunctionOnSet(LogQty, S) /\ Summable(LogQty, S)
    BY <1>1, LoggedIsSum, LogSummable, SummablePart
  <1>3. ASSUME NEW i \in S
        PROVE  /\ transitions[i].execution \in Executions
               /\ transitions[i].execution # None
               /\ MovedOnEvidence(i)
    <2>1. transitions[i] \in Movements \cup Issuances
      BY <1>1 DEF TypeOK
    <2>2. transitions[i].execution \in Executions
      BY <2>1, NoneAssumption DEF Movements, Issuances
    <2>3. QED
      BY <2>2, NoneAssumption DEF TransferInv, AuthorityFollowsEvidence
  <1>4. Traced(x, LogQty, S, evidence, Executions, m)
    <2>1. x \in [S -> Executions]
      BY <1>3
    <2>2. \A i, j \in S : x[i] = x[j] => i = j
      BY <1>3 DEF ExecutionMovesOnce
    <2>3. \A i \in S : evidence[x[i]] # None /\ evidence[x[i]].mandate = m /\ evidence[x[i]].scope.qty = LogQty[i]
      BY <1>3 DEF MovedOnEvidence, LogQty
    <2>4. QED
      BY <2>1, <2>2, <2>3 DEF Traced
  <1>5. requests[m].terms.scope.qty \in Nat
    <2>1. requests[m] \in Request
      BY <1>1 DEF IssuanceInv, MandateSound, CallsInOrder, Issued, IssuanceTypeOK
    <2>2. requests[m].terms.scope \in Scope
      BY <2>1, TermsTyped, RequestableIsScope DEF Request
    <2>3. QED
      BY <2>2 DEF Scope
  <1>6. CASE requests[m].terms.action = "TRANSFER"
    <2>1. Book(mandates[m].log, evidence, Executions, m, requests[m].terms.scope.qty)
      BY <1>6 DEF TransferBooks, Books
    <2>2. Quantified(evidence, Executions)
      BY EvidenceQuantified
    <2> HIDE DEF S, x
    <2>3. SumFunctionOnSet(LogQty, S) <= LogTotal(mandates[m].log, evidence)
      BY <1>2, <1>4, <2>1, <2>2, TracedWithinBook
    <2>4. LogTotal(mandates[m].log, evidence) \in Nat
      BY <2>1, <2>2, BookTotal
    <2>5. LogTotal(mandates[m].log, evidence) <= requests[m].terms.scope.qty
      BY <2>1 DEF Book
    <2>6. SumFunctionOnSet(LogQty, S) \in Nat
      BY <1>2, SumType
    <2>7. LoggedQty(S) <= requests[m].terms.scope.qty
      BY <1>2, <1>5, <2>3, <2>4, <2>5, <2>6
    <2>8. QED
      BY <2>7 DEF S
  <1>7. CASE requests[m].terms.action # "TRANSFER"
    <2>1. S = {}
      <3>1. SUFFICES ASSUME NEW i \in S PROVE FALSE
        OBVIOUS
      <3>2. /\ evidence[x[i]] # None /\ evidence[x[i]].mandate = m /\ x[i] \in Executions
        BY <1>4 DEF Traced
      <3>3. QED
        BY <1>7, <3>2 DEF TransferBooks, Books
    <2> HIDE DEF S, x
    <2>2. LoggedQty(S) = 0
      BY <1>2, <2>1, SumEmpty
    <2>3. LoggedQty(S) <= requests[m].terms.scope.qty
      BY <1>5, <2>2
    <2>4. QED
      BY <2>3 DEF S
  <1>8. QED
    BY <1>6, <1>7

\* However a mandate is exercised (in parts, late, by recovery, twice at once),
\* what the log says was moved under it keeps to its terms.  Over the durable
\* store: the in-memory store can move a right a list repeats twice.
THEOREM TransferWithinMandate == ASSUME Durable PROVE TransferSpec => []MovedWithinMandate
  <1>1. TransferSpec => []TransferBooks
    BY TransferBooksInit, TransferBooksStep, TransferInvariant, TransferServes, PTL DEF TransferSpec
  <1>2. TransferSpec => []ExecutionMovesOnce
    BY TransferUsesStore, DurableMovesOnce, PTL
  <1>3. QED
    BY <1>1, <1>2, TransferInvariant, BooksBoundMovements, PTL

-----------------------------------------------------------------------------
(* Nor does a mandate to collateralize constrain more, and the instalments *)
(* still to come keep their room.                                          *)

CollateralBooks == Books(mandates, requests, pledges, Arrangements, "COLLATERALIZE")

\* An arrangement is reported in the unit of its mandate.
PledgesCommensurable ==
    \A e \in Arrangements : pledges[e] # None =>
        pledges[e].scope.unit = requests[pledges[e].mandate].terms.scope.unit

\* What is reserved for a mandate is what its request asked for.
AsRequested ==
    \A m \in Mandates, r \in Rights : reservations[<<m, r>>] # None =>
        requests[m] # None /\ reservations[<<m, r>>].scope = requests[m].terms.scope

LEMMA PledgesQuantified == CollateralInv => Quantified(pledges, Arrangements)
  BY RequestableIsScope DEF CollateralInv, CollateralTypeOK, Pledge, Quantified, Scope

LEMMA ReportPledgeKeepsBooks ==
    ASSUME CollateralInv, CollateralBooks, NEW e \in Arrangements, NEW m \in Mandates,
           NEW rights \in RightLists, NEW s \in Requestable, NEW at \in Instants,
           ReportPledge(e, m, rights, s, at)
    PROVE  CollateralBooks'
  <1> DEFINE v == [mandate |-> m, rights |-> rights, scope |-> s, at |-> at, recorded |-> now]
  <1> DEFINE d == [mandates[m] EXCEPT !.log = Append(mandates[m].log, e)]
  <1>1. /\ mandates[m] # None /\ requests[m].terms.action = "COLLATERALIZE" /\ pledges[e] = None
        /\ pledges' = [pledges EXCEPT ![e] = v]
        /\ mandates' = [mandates EXCEPT ![m] = d]
        /\ requests' = requests
        /\ CommittedUnder(m) + s.qty <= requests[m].terms.scope.qty
    BY DEF ReportPledge, PledgeAuthorized
  <1>2. /\ mandates \in [Mandates -> Mandate \cup {None}]
        /\ pledges \in [Arrangements -> Pledge \cup {None}]
        /\ now \in Nat
    BY DEF CollateralInv, CollateralTypeOK, IssuanceTypeOK, TypeOK
  <1>3. v \in Pledge /\ v # None
    BY <1>2, PledgeAssumption DEF Pledge
  <1>4. /\ v.mandate = m /\ v.scope.qty = s.qty /\ s.qty \in Nat
    BY RequestableIsScope DEF Scope
  <1>5. d # None /\ d.log = Append(mandates[m].log, e)
    <2>1. mandates[m] \in Mandate
      BY <1>1, <1>2
    <2>2. Append(mandates[m].log, e) \in Seq(Executions \cup Arrangements)
      BY <2>1 DEF Mandate
    <2>3. d \in Mandate
      BY <2>1, <2>2 DEF Mandate
    <2>4. QED
      BY <2>1, <2>3, IssuanceAssumption DEF Mandate
  <1>6. CommittedUnder(m) = LogTotal(mandates[m].log, pledges)
    BY DEF CommittedUnder, LogTotal
  <1>7. Quantified(pledges, Arrangements) /\ Books(mandates, requests, pledges, Arrangements, "COLLATERALIZE")
    BY PledgesQuantified DEF CollateralBooks
  <1>8. LogTotal(mandates[m].log, pledges) + v.scope.qty <= requests[m].terms.scope.qty
    BY <1>1, <1>4, <1>6
  <1> HIDE DEF v, d
  <1>9. Books([mandates EXCEPT ![m] = d], requests, [pledges EXCEPT ![e] = v], Arrangements, "COLLATERALIZE")
    BY <1>1, <1>2, <1>3, <1>4, <1>5, <1>7, <1>8, BooksReported
  <1>10. QED
    BY <1>1, <1>9 DEF CollateralBooks

LEMMA CollateralBooksInit == CollateralInit => CollateralBooks /\ PledgesCommensurable /\ AsRequested
  BY DEF CollateralInit, IssuanceInit, Init, CollateralBooks, Books, PledgesCommensurable, AsRequested, Promises

\* The steps of the service but a report leave its evidence and its logs alone.
LEMMA CollateralSteps ==
    ASSUME [CollateralService]_collateralVars
    PROVE  \/ IssuanceStep /\ pledges' = pledges
           \/ \E e \in Arrangements, m \in Mandates, rights \in RightLists, s \in Requestable, at \in Instants :
                ReportPledge(e, m, rights, s, at)
           \/ UNCHANGED <<mandates, requests, pledges>>
  <1>1. CASE IssuanceStep /\ UNCHANGED pledgeVars
    BY <1>1 DEF pledgeVars
  <1>2. CASE Pledging
    BY <1>2 DEF Pledging
  <1>3. CASE \/ Discharge /\ UNCHANGED issuanceVars /\ UNCHANGED pledgeVars
             \/ \E e \in Arrangements : Constrain(e) \/ ConstrainPassed(e) \/ ConstrainLost(e)
             \/ UNCHANGED collateralVars
    BY <1>3 DEF Constrain, ConstrainPassed, ConstrainLost, collateralVars, issuanceVars, pledgeVars
  <1>4. QED
    BY <1>1, <1>2, <1>3 DEF CollateralService, Arrange

LEMMA CollateralBooksStep ==
    CollateralInv /\ CollateralBooks /\ [CollateralService]_collateralVars => CollateralBooks'
  <1> SUFFICES ASSUME CollateralInv, CollateralBooks, [CollateralService]_collateralVars PROVE CollateralBooks'
    OBVIOUS
  <1>1. CASE IssuanceStep /\ pledges' = pledges
    BY <1>1, SharedKeepsBooks DEF CollateralInv, CollateralBooks
  <1>2. CASE UNCHANGED <<mandates, requests, pledges>>
    BY <1>2 DEF CollateralBooks
  <1>3. QED
    BY <1>1, <1>2, CollateralSteps, ReportPledgeKeepsBooks

LEMMA PledgesCommensurableStep ==
    CollateralInv /\ PledgesCommensurable /\ [CollateralService]_collateralVars => PledgesCommensurable'
  <1> SUFFICES ASSUME CollateralInv, PledgesCommensurable, [CollateralService]_collateralVars,
                      NEW e \in Arrangements, pledges'[e] # None
               PROVE  pledges'[e].scope.unit = requests'[pledges'[e].mandate].terms.scope.unit
    BY DEF PledgesCommensurable
  <1>1. CASE IssuanceStep /\ pledges' = pledges
    <2>1. pledges[e].mandate \in Mandates /\ Issued(pledges[e].mandate)
      BY <1>1, PledgeTyped DEF CollateralInv, PledgesKnown
    <2>2. requests'[pledges[e].mandate] = requests[pledges[e].mandate]
      BY <1>1, <2>1, IssuedKept DEF CollateralInv
    <2>3. QED
      BY <1>1, <2>2 DEF PledgesCommensurable
  <1>2. CASE UNCHANGED <<mandates, requests, pledges>>
    BY <1>2 DEF PledgesCommensurable
  <1>3. ASSUME NEW x \in Arrangements, NEW m \in Mandates, NEW rights \in RightLists,
               NEW s \in Requestable, NEW at \in Instants, ReportPledge(x, m, rights, s, at)
        PROVE  pledges'[e].scope.unit = requests'[pledges'[e].mandate].terms.scope.unit
    <2>1. /\ pledges' = [pledges EXCEPT ![x] =
                [mandate |-> m, rights |-> rights, scope |-> s, at |-> at, recorded |-> now]]
          /\ requests' = requests /\ s.unit = requests[m].terms.scope.unit
      BY <1>3 DEF ReportPledge, PledgeAuthorized, Within
    <2>2. pledges \in [Arrangements -> Pledge \cup {None}]
      BY DEF CollateralInv, CollateralTypeOK
    <2>3. CASE e = x
      BY <2>1, <2>2, <2>3
    <2>4. CASE e # x
      <3>1. pledges'[e] = pledges[e]
        BY <2>1, <2>2, <2>4
      <3>2. QED
        BY <2>1, <3>1 DEF PledgesCommensurable
    <2>5. QED
      BY <2>3, <2>4
  <1>4. QED
    BY <1>1, <1>2, <1>3, CollateralSteps

\* A request keeps the terms it was made with.
LEMMA TermsKept ==
    ASSUME IssuanceInv, IssuanceStep, NEW m \in Mandates, requests[m] # None
    PROVE  requests'[m] # None /\ requests'[m].terms = requests[m].terms
  <1>0. requests \in [Mandates -> Request \cup {None}] /\ requests[m] \in Request
    BY DEF IssuanceInv, IssuanceTypeOK
  <1>1. CASE Environment
    BY <1>1 DEF Environment, issuanceVars
  <1>2. CASE Submission(Terms)
    <2>1. PICK n \in Mandates, t \in Terms, until \in (now + 1)..(MaxTime + 1) : Submit(n, t, until)
      BY <1>2 DEF Submission
    <2>2. n # m
      BY <2>1 DEF Submit
    <2>3. requests'[m] = requests[m]
      BY <1>0, <2>1, <2>2 DEF Submit
    <2>4. QED
      BY <2>3
  <1>3. ASSUME NEW n \in Mandates, MandateStep(n), requests' # requests
        PROVE  requests'[m] # None /\ requests'[m].terms = requests[m].terms
    <2>1. CASE n # m
      <3>1. requests'[m] = requests[m]
        BY <1>0, <1>3, <2>1
           DEF MandateStep, RequestStep, Reserve, ReserveNotEnrolled, Issue, Fail, Undo, UndoDone,
               Abandon, Revoke, ReleaseHeld, RevokeEnds, issuanceVars
      <3>2. QED
        BY <3>1
    <2>2. CASE n = m
      <3>1. CASE Reserve(m) \/ ReserveNotEnrolled(m)
        <4>1. Advanced(requests[m]) \in Request /\ Advanced(requests[m]).terms = requests[m].terms
          BY <3>1, AdvancedTyped DEF IssuanceInv, MandateSound, Reserve, ReserveNotEnrolled
        <4>2. Append(Advanced(requests[m]).acquired, NextRight(m)) \in Seq(Rights) \/ ~Reserve(m)
          BY <4>1, NextRightTyped DEF IssuanceInv, MandateSound, Reserve, Request
        <4>3. [Advanced(requests[m]) EXCEPT !.acquired = Append(@, NextRight(m))] \in Request \/ ~Reserve(m)
          BY <4>1, <4>2 DEF Request
        <4>4. \/ requests'[m] = Advanced(requests[m])
              \/ Reserve(m) /\ requests'[m] = [Advanced(requests[m]) EXCEPT !.acquired = Append(@, NextRight(m))]
          BY <1>0, <3>1 DEF Reserve, ReserveNotEnrolled
        <4>5. requests'[m] \in Request /\ requests'[m].terms = requests[m].terms
          BY <4>1, <4>3, <4>4 DEF Request
        <4>6. QED
          BY <4>5, IssuanceAssumption
      <3>2. CASE Issue(m) \/ Fail(m) \/ UndoDone(m) \/ Abandon(m)
        <4>1. PICK x \in {"undoing", "settled"} : requests'[m] = [requests[m] EXCEPT !.phase = x]
          BY <1>0, <3>2 DEF Issue, Fail, UndoDone, Abandon
        <4>2. requests'[m] \in Request /\ requests'[m].terms = requests[m].terms
          BY <1>0, <4>1 DEF Request, Phases
        <4>3. QED
          BY <4>2, IssuanceAssumption
      <3>3. CASE Undo(m)
        <4>1. requests'[m] = [requests[m] EXCEPT !.acquired = Tail(requests[m].acquired)]
          BY <1>0, <3>3 DEF Undo
        <4>2. requests[m].acquired \in Seq(Rights) /\ requests[m].acquired # << >>
          BY <1>0, <3>3 DEF Undo, Request
        <4>3. Tail(requests[m].acquired) \in Seq(Rights)
          BY <4>2
        <4>4. requests'[m] \in Request /\ requests'[m].terms = requests[m].terms
          BY <1>0, <4>1, <4>3 DEF Request
        <4>5. QED
          BY <4>4, IssuanceAssumption
      <3>4. QED
        BY <1>3, <2>2, <3>1, <3>2, <3>3
           DEF MandateStep, RequestStep, Revoke, ReleaseHeld, RevokeEnds, issuanceVars
    <2>3. QED
      BY <2>1, <2>2
  <1>4. QED
    BY <1>1, <1>2, <1>3 DEF IssuanceStep

\* Of the steps of a service, only a request reserves, and what it asks for.
LEMMA OnlyRequestsReserve ==
    ASSUME IssuanceInv, IssuanceStep, NEW m \in Mandates, NEW r \in Rights,
           reservations[<<m, r>>] = None, reservations'[<<m, r>>] # None
    PROVE  requests[m] # None /\ reservations'[<<m, r>>].scope = requests[m].terms.scope
  <1>0. reservations \in [Promises -> Reservation \cup {None}] /\ <<m, r>> \in Promises
    BY DEF IssuanceInv, IssuanceTypeOK, TypeOK, Promises
  <1>1. CASE Environment \/ Submission(Terms)
    BY <1>1 DEF Environment, Bootstrap, BootstrapPosition, BootstrapRefusedLate, Tick, storeVars,
                Submission, Submit, vars
  <1>2. ASSUME NEW n \in Mandates, MandateStep(n)
        PROVE  requests[m] # None /\ reservations'[<<m, r>>].scope = requests[m].terms.scope
    <2>1. CASE Reserve(n)
      <3>1. /\ reservations' = [reservations EXCEPT ![<<n, NextRight(n)>>] =
                   [holder |-> requests[n].terms.from, scope |-> requests[n].terms.scope,
                    from |-> requests[n].from, until |-> requests[n].until, status |-> "active"]]
            /\ requests[n] # None
        BY <2>1 DEF Reserve, AcquireReservation, InPhase
      <3>2. n = m /\ NextRight(n) = r
        BY <1>0, <3>1
      <3>3. QED
        BY <1>0, <3>1, <3>2
    <2>2. CASE Undo(n) \/ ReleaseHeld(n)
      <3>1. PICK x : ReleaseReservation(n, x)
        BY <2>2 DEF Undo, ReleaseHeld
      <3>2. <<n, x>> # <<m, r>>
        BY <3>1 DEF ReleaseReservation
      <3>3. reservations'[<<m, r>>] = reservations[<<m, r>>]
        BY <1>0, <3>1, <3>2 DEF ReleaseReservation
      <3>4. QED
        BY <3>3
    <2>3. QED
      BY <1>2, <2>1, <2>2
         DEF MandateStep, RequestStep, ReserveNotEnrolled, Issue, Fail, UndoDone, Abandon, Revoke,
             RevokeEnds, vars
  <1>3. QED
    BY <1>1, <1>2 DEF IssuanceStep

LEMMA AsRequestedStep ==
    CollateralInv /\ AsRequested /\ [CollateralService]_collateralVars => AsRequested'
  <1> SUFFICES ASSUME CollateralInv, AsRequested, [CollateralService]_collateralVars,
                      NEW m \in Mandates, NEW r \in Rights, reservations'[<<m, r>>] # None
               PROVE  requests'[m] # None /\ reservations'[<<m, r>>].scope = requests'[m].terms.scope
    BY DEF AsRequested
  <1>0. TypeOK /\ IssuanceInv /\ <<m, r>> \in Promises
    BY DEF CollateralInv, IssuanceInv, IssuanceTypeOK, Promises
  <1>1. requests[m] # None => requests'[m] # None /\ requests'[m].terms = requests[m].terms
    BY <1>0, TermsKept, CollateralSteps DEF ReportPledge
  <1>2. CASE reservations[<<m, r>>] # None
    <2>1. requests[m] # None /\ reservations[<<m, r>>].scope = requests[m].terms.scope
      BY <1>2 DEF AsRequested
    <2>2. ReservationFinal(<<m, r>>)
      <3>1. [Next]_vars
        BY CollateralStoreStep
      <3>2. CASE Next
        BY <1>0, <3>2, FinalStep DEF TerminalIsFinal
      <3>3. CASE UNCHANGED vars
        BY <1>0, <3>3, ReservationUntouched DEF vars
      <3>4. QED
        BY <3>1, <3>2, <3>3
    <2>3. reservations[<<m, r>>] \in Reservation
      BY <1>0, <1>2 DEF TypeOK
    <2>4. reservations'[<<m, r>>].scope = reservations[<<m, r>>].scope
      BY <1>2, <2>2, <2>3 DEF ReservationFinal, Reservation
    <2>5. QED
      BY <1>1, <2>1, <2>4
  <1>3. CASE reservations[<<m, r>>] = None
    <2>1. IssuanceStep
      <3>1. CASE IssuanceStep /\ UNCHANGED pledgeVars
        BY <3>1
      <3>2. CASE \E e \in Arrangements : Constrain(e)
        <4>1. PICK e \in Arrangements : Constrain(e)
          BY <3>2
        <4>2. reservations'[<<m, r>>] = None
          BY <1>0, <1>3, <4>1
             DEF Constrain, ConstrainNext, RecordEncumbrance, HandedOver, Surrendered, TypeOK
        <4>3. QED
          BY <4>2
      <3>3. CASE \/ Discharge /\ UNCHANGED issuanceVars /\ UNCHANGED pledgeVars
                 \/ Pledging
                 \/ \E e \in Arrangements : ConstrainPassed(e) \/ ConstrainLost(e)
                 \/ UNCHANGED collateralVars
        <4>1. UNCHANGED reservations
          BY <3>3 DEF Discharge, ReleaseEncumbrance, Pledging, ReportPledge, ConstrainPassed,
                      ConstrainLost, collateralVars, vars
        <4>2. QED
          BY <1>3, <4>1
      <3>4. QED
        BY <3>1, <3>2, <3>3 DEF CollateralService, Arrange
    <2>2. requests[m] # None /\ reservations'[<<m, r>>].scope = requests[m].terms.scope
      BY <1>0, <1>3, <2>1, OnlyRequestsReserve
    <2>3. QED
      BY <1>1, <2>2
  <1>4. QED
    BY <1>2, <1>3

\* The terms of a mandate are for a quantity.
LEMMA TermsQuantified ==
    ASSUME IssuanceInv, NEW m \in Mandates, requests[m] # None
    PROVE  requests[m].terms.from \in Holders /\ requests[m].terms.scope \in Scope
  <1>1. requests[m] \in Request
    BY DEF IssuanceInv, IssuanceTypeOK
  <1>2. QED
    BY <1>1, TermsTyped, RequestableIsScope DEF Request

\* The constraints a mandate recorded over one right are each for an arrangement
\* of its own, reported under it.
LEMMA ConstraintsTraced ==
    ASSUME CollateralInv, NEW m \in Mandates, NEW r \in Rights,
           NEW S \in SUBSET {c \in Claims : c[2] = r /\ encumbrances[c] # None /\ encumbrances[c].mandate = m}
    PROVE  Traced([c \in S |-> c[1]], EncQty, S, pledges, Arrangements, m)
  <1> DEFINE x == [c \in S |-> c[1]]
  <1>1. ASSUME NEW c \in S
        PROVE  /\ c[1] \in Arrangements /\ c = <<c[1], r>>
               /\ pledges[c[1]] # None /\ pledges[c[1]].mandate = m
               /\ pledges[c[1]].scope.qty = EncQty[c]
    BY DEF Claims, CollateralInv, ConstraintsFollowEvidence, ConstrainedOnEvidence, EncQty
  <1>2. x \in [S -> Arrangements]
    BY <1>1
  <1>3. \A c, d \in S : x[c] = x[d] => c = d
    BY <1>1
  <1>4. \A c \in S : pledges[x[c]] # None /\ pledges[x[c]].mandate = m /\ pledges[x[c]].scope.qty = EncQty[c]
    BY <1>1
  <1>5. QED
    BY <1>2, <1>3, <1>4 DEF Traced

\* What is recorded was reported, each report once, and the reports have kept
\* to the terms.
LEMMA BooksBoundConstraints ==
    CollateralInv /\ CollateralBooks /\ FinitelyMany => ConstrainedWithinMandate
  <1> SUFFICES ASSUME CollateralInv, CollateralBooks, FinitelyMany,
                      NEW m \in Mandates, NEW r \in Rights, mandates[m] # None
               PROVE  EncumberedQty({c \in Claims : c[2] = r /\ encumbrances[c] # None /\ encumbrances[c].mandate = m})
                        <= requests[m].terms.scope.qty
    BY DEF ConstrainedWithinMandate
  <1> DEFINE S == {c \in Claims : c[2] = r /\ encumbrances[c] # None /\ encumbrances[c].mandate = m}
  <1>1. TypeOK /\ IssuanceInv
    BY DEF CollateralInv, IssuanceInv, IssuanceTypeOK
  <1>2. EncumberedQty(S) = SumFunctionOnSet(EncQty, S) /\ Summable(EncQty, S)
    BY <1>1, EncumbrancesAreSummed DEF EncumbrancesSummed, Recorded
  <1>3. Traced([c \in S |-> c[1]], EncQty, S, pledges, Arrangements, m)
    BY ConstraintsTraced
  <1>4. requests[m].terms.scope.qty \in Nat
    BY <1>1, TermsQuantified DEF IssuanceInv, MandateSound, CallsInOrder, Issued, Scope
  <1>5. CASE requests[m].terms.action = "COLLATERALIZE"
    <2>1. Book(mandates[m].log, pledges, Arrangements, m, requests[m].terms.scope.qty)
      BY <1>5 DEF CollateralBooks, Books
    <2>2. Quantified(pledges, Arrangements)
      BY PledgesQuantified
    <2> HIDE DEF S
    <2>3. SumFunctionOnSet(EncQty, S) <= LogTotal(mandates[m].log, pledges)
      BY <1>2, <1>3, <2>1, <2>2, TracedWithinBook
    <2>4. LogTotal(mandates[m].log, pledges) \in Nat
      BY <2>1, <2>2, BookTotal
    <2>5. LogTotal(mandates[m].log, pledges) <= requests[m].terms.scope.qty
      BY <2>1 DEF Book
    <2>6. SumFunctionOnSet(EncQty, S) \in Nat
      BY <1>2, SumType
    <2>7. EncumberedQty(S) <= requests[m].terms.scope.qty
      BY <1>2, <1>4, <2>3, <2>4, <2>5, <2>6
    <2>8. QED
      BY <2>7 DEF S
  <1>6. CASE requests[m].terms.action # "COLLATERALIZE"
    <2>1. S = {}
      <3>1. SUFFICES ASSUME NEW c \in S PROVE FALSE
        OBVIOUS
      <3>2. c[1] \in Arrangements /\ pledges[c[1]] # None /\ pledges[c[1]].mandate = m
        BY <1>3 DEF Traced
      <3>3. QED
        BY <1>6, <3>2 DEF CollateralBooks, Books
    <2> HIDE DEF S
    <2>2. EncumberedQty(S) = 0
      BY <1>2, <2>1, SumEmpty
    <2>3. EncumberedQty(S) <= requests[m].terms.scope.qty
      BY <1>4, <2>2
    <2>4. QED
      BY <2>3 DEF S
  <1>7. QED
    BY <1>5, <1>6

\* What a mandate has in force over a right leaves room, within its terms, for
\* an arrangement reported under it that is not recorded over that right.
LEMMA InstalmentFits ==
    ASSUME CollateralInv, CollateralBooks, FinitelyMany, NEW e \in Arrangements, NEW r \in Rights,
           pledges[e] # None, encumbrances[<<e, r>>] = None, NEW h \in Holders
    PROVE  CarvedOut(pledges[e].mandate, h, r, now) + pledges[e].scope.qty
             <= requests[pledges[e].mandate].terms.scope.qty
  <1> DEFINE m == pledges[e].mandate
  <1> DEFINE S == InForceOf(m, h, r)
  <1> DEFINE x == [c \in S |-> c[1]]
  <1>1. TypeOK /\ IssuanceInv /\ m \in Mandates /\ requests[m] # None /\ pledges[e].scope \in Scope
    BY PledgeTyped, RequestableIsScope DEF CollateralInv, IssuanceInv, IssuanceTypeOK
  <1>2. /\ CarvedOut(m, h, r, now) = SumFunctionOnSet(EncQty, S)
        /\ Summable(EncQty, S) /\ CarvedOut(m, h, r, now) \in Nat
    BY <1>1, FactsOfSlots DEF AllSlotFacts, SlotFacts, EncumberedBy
  <1>3. S \in SUBSET {c \in Claims : c[2] = r /\ encumbrances[c] # None /\ encumbrances[c].mandate = m}
    BY DEF InForceOf, Constraining, Constrains
  <1>4. Traced(x, EncQty, S, pledges, Arrangements, m)
    BY <1>1, <1>3, ConstraintsTraced
  <1>5. \A c \in S : x[c] # e
    BY <1>3 DEF Claims
  <1>6. requests[m].terms.action = "COLLATERALIZE" /\ mandates[m] # None
    BY DEF CollateralBooks, Books
  <1>7. Book(mandates[m].log, pledges, Arrangements, m, requests[m].terms.scope.qty)
    BY <1>1, <1>6 DEF CollateralBooks, Books
  <1>8. Quantified(pledges, Arrangements)
    BY PledgesQuantified
  <1> HIDE DEF S, x
  <1>9. SumFunctionOnSet(EncQty, S) + pledges[e].scope.qty <= LogTotal(mandates[m].log, pledges)
    BY <1>2, <1>4, <1>5, <1>7, <1>8, TracedWithinBook
  <1>10. LogTotal(mandates[m].log, pledges) \in Nat
    BY <1>7, <1>8, BookTotal
  <1>11. LogTotal(mandates[m].log, pledges) <= requests[m].terms.scope.qty
    BY <1>7 DEF Book
  <1>12. requests[m].terms.scope.qty \in Nat /\ pledges[e].scope.qty \in Nat
    BY <1>1, TermsQuantified DEF Scope
  <1>13. QED
    BY <1>2, <1>9, <1>10, <1>11, <1>12

\* While the commitment of its mandate stands, and the slot has not been
\* overdrawn, the store has capacity for such an arrangement.
LEMMA BooksLeaveRoom ==
    /\ CollateralInv /\ CollateralBooks /\ PledgesCommensurable /\ AsRequested
    /\ UnitsAgree /\ FinitelyMany
    => PledgeHasRoom
  <1> SUFFICES ASSUME CollateralInv, CollateralBooks, PledgesCommensurable, AsRequested, UnitsAgree,
                      FinitelyMany, NEW e \in Arrangements, encumbering[e] # << >>,
                      encumbrances[<<e, Head(encumbering[e])>>] = None,
                      <<pledges[e].mandate, Head(encumbering[e])>>
                        \in Standing(requests[pledges[e].mandate].terms.from, Head(encumbering[e]), now),
                      ~Overcommitted(requests[pledges[e].mandate].terms.from, Head(encumbering[e]), {}, now)
               PROVE  HasCapacity(requests[pledges[e].mandate].terms.from, Head(encumbering[e]),
                                  Surrendered(pledges[e].mandate, requests[pledges[e].mandate].terms.from,
                                              Head(encumbering[e])),
                                  now, pledges[e].scope)
    BY DEF PledgeHasRoom
  <1> DEFINE m == pledges[e].mandate
  <1> DEFINE r == Head(encumbering[e])
  <1> DEFINE h == requests[m].terms.from
  <1> DEFINE p == <<m, r>>
  <1> DEFINE k == <<h, r>>
  <1>1. /\ TypeOK /\ IssuanceInv /\ pledges[e] # None /\ r \in Rights
        /\ m \in Mandates /\ requests[m] # None /\ h \in Holders
        /\ pledges[e].scope \in Scope /\ p \in Promises
    BY NextConstraint, PledgeTyped, RequestableIsScope
       DEF CollateralInv, IssuanceInv, IssuanceTypeOK, Promises
  <1>2. /\ reservations[p] # None /\ reservations[p].status = "active" /\ reservations[p].holder = h
        /\ p \in Standing(h, r, now)
    BY DEF Standing, ReducesAvailability
  <1>3. reservations[p].scope = requests[m].terms.scope
    BY <1>1, <1>2 DEF AsRequested
  <1>4. Surrendered(m, h, r) = {p}
    BY <1>2 DEF Surrendered
  <1>5. /\ positions[k] # None /\ positions[k] \in Scope
        /\ requests[m].terms.scope.unit = positions[k].unit
    <2>1. positions[k] # None /\ reservations[p].scope.unit = positions[k].unit
      BY <1>1, <1>2 DEF UnitsAgree
    <2>2. k \in Slots
      BY <1>1 DEF Slots
    <2>3. QED
      BY <1>1, <1>3, <2>1, <2>2 DEF TypeOK
  <1>6. pledges[e].scope.unit = positions[k].unit
    BY <1>1, <1>5 DEF PledgesCommensurable
  <1>7. Commensurable(h, r, {p}, now)
    <2>1. ASSUME NEW c \in Constraining(h, r, now)
          PROVE  encumbrances[c].scope.unit = positions[k].unit
      BY DEF Constraining, Constrains, UnitsAgree
    <2>2. ASSUME NEW q \in Standing(h, r, now)
          PROVE  reservations[q].scope.unit = positions[k].unit
      BY DEF Standing, ReducesAvailability, UnitsAgree
    <2>3. QED
      BY <2>1, <2>2 DEF Commensurable
  <1> DEFINE total == requests[m].terms.scope.qty
  <1> DEFINE carved == CarvedOut(m, h, r, now)
  <1> DEFINE bound == Encumbered(h, r, now)
  <1> DEFINE others == Committed(h, r, {p}, now)
  <1>8. total \in Nat /\ pledges[e].scope.qty \in Nat /\ positions[k].qty \in Nat
    BY <1>1, <1>5, TermsQuantified DEF Scope
  <1>9. carved \in Nat /\ carved + pledges[e].scope.qty <= total
    <2>1. carved \in Nat
      BY <1>1, FactsOfSlots DEF AllSlotFacts, SlotFacts, EncumberedBy
    <2>2. carved + pledges[e].scope.qty <= total
      BY <1>1, InstalmentFits
    <2>3. QED
      BY <2>1, <2>2
  <1>10. Residual(p, now) = Monus(total, carved)
    BY <1>2, <1>3 DEF Residual
  <1>11. /\ bound \in Nat /\ others \in Nat
         /\ Committed(h, r, {}, now) = Residual(p, now) + others
    BY <1>1, <1>2, ClaimedSplits, SetAside
  <1>12. bound + Committed(h, r, {}, now) <= positions[k].qty
    <2>1. ~(bound + Committed(h, r, {}, now) > positions[k].qty)
      BY <1>5 DEF Overcommitted
    <2>2. Committed(h, r, {}, now) \in Nat
      BY <1>1, ClaimedSplits
    <2> HIDE DEF bound, k
    <2>3. QED
      BY <1>8, <1>11, <2>1, <2>2
  <1>13. HasCapacity(h, r, {p}, now, pledges[e].scope)
    <2>1. bound + others + pledges[e].scope.qty <= positions[k].qty
      <3> HIDE DEF bound, others, carved, total, k, p
      <3>1. Residual(p, now) = total - carved \/ (total = carved /\ Residual(p, now) = 0)
        BY <1>8, <1>9, <1>10 DEF Monus
      <3>2. QED
        BY <1>8, <1>9, <1>11, <1>12, <3>1
    <2>2. ~Overencumbered(h, r, now)
      <3>1. bound <= positions[k].qty
        <4> HIDE DEF bound, others, k
        <4>1. QED
          BY <1>8, <1>11, <2>1
      <3>2. ~(bound > positions[k].qty)
        <4> HIDE DEF bound, k
        <4>1. QED
          BY <1>8, <1>11, <3>1
      <3>3. QED
        BY <3>2 DEF Overencumbered
    <2>3. ~Overcommitted(h, r, {p}, now)
      <3>1. ~(bound + others > positions[k].qty)
        <4> HIDE DEF bound, others, k
        <4>1. QED
          BY <1>8, <1>11, <2>1
      <3>2. QED
        BY <3>1 DEF Overcommitted
    <2>4. pledges[e].scope.qty <= positions[k].qty - bound - others
      <3> HIDE DEF bound, others, k
      <3>1. QED
        BY <1>8, <1>11, <2>1
    <2>5. Within(pledges[e].scope, Free(h, r, {p}, now))
      BY <1>6, <2>4 DEF Within, Free
    <2>6. Available(h, r, {p}, now)
      BY <1>5, <1>7, <2>2, <2>3 DEF Available
    <2>7. QED
      BY <2>5, <2>6 DEF HasCapacity
  <1>14. QED
    BY <1>4, <1>13

LEMMA CollateralBooksInvariant == CollateralSpec => [](CollateralBooks /\ PledgesCommensurable /\ AsRequested)
  BY CollateralBooksInit, CollateralBooksStep, PledgesCommensurableStep, AsRequestedStep,
     CollateralInvariant, CollateralServes, PTL DEF CollateralSpec

\* The constraints of one mandate over one right, the released ones too, never
\* total more than it was permitted to commit: recordExecution takes no report
\* the mandate has no room for, and records no report twice.
THEOREM CollateralWithinMandate == CollateralSpec => []ConstrainedWithinMandate
  BY CollateralUsesStore, AlwaysFinitelyMany, CollateralInvariant, CollateralBooksInvariant,
     BooksBoundConstraints, PTL

\* An arrangement reported while its mandate's commitment stands over a slot
\* that is not overdrawn can be recorded, however many instalments came before
\* and whatever other mandates have reserved and encumbered since.
THEOREM PledgesHaveRoom == CollateralSpec => []PledgeHasRoom
  BY CollateralUsesStore, AlwaysFinitelyMany, UnitsAlwaysAgree, CollateralInvariant,
     CollateralBooksInvariant, BooksLeaveRoom, PTL

-----------------------------------------------------------------------------
(* BOTH SERVICES ON THE SAME POSITIONS.  Each keeps what it guarantees on  *)
(* its own, whatever the other does between its steps; and of the promises *)
(* made to either, only the two kinds GovernedActions names can be broken. *)

-----------------------------------------------------------------------------
(* The inductive invariant: that of each service, and what a movement says *)
(* of the mandate it was made under.                                       *)

\* A movement is reported within the terms of its mandate.
EvidenceWithinTerms ==
    \A e \in Executions : evidence[e] # None =>
        Within(evidence[e].scope, requests[evidence[e].mandate].terms.scope)

CollateralSound == CollateralInv /\ CollateralBooks /\ PledgesCommensurable /\ AsRequested

TransferSound == TransferInv /\ TransferBooks /\ EvidenceWithinTerms

ActionsInv == TransferSound /\ CollateralSound

\* What a service does under its mandates leaves the other's as they were.
UnderMandates(action) ==
    /\ UNCHANGED requests
    /\ \A m \in Mandates : Issued(m)' <=> Issued(m)
    /\ \A m \in Mandates : Issued(m) /\ mandates[m].log # << >> => mandates'[m].log # << >>
    /\ \A m \in Mandates : Issued(m) /\ requests[m].terms.action # action =>
          mandates'[m].log = mandates[m].log

LEMMA EvidenceWithinStep ==
    TransferInv /\ EvidenceWithinTerms /\ [TransferService]_transferVars => EvidenceWithinTerms'
  <1> SUFFICES ASSUME TransferInv, EvidenceWithinTerms, [TransferService]_transferVars,
                      NEW e \in Executions, evidence'[e] # None
               PROVE  Within(evidence'[e].scope, requests'[evidence'[e].mandate].terms.scope)
    BY DEF EvidenceWithinTerms
  <1>1. CASE IssuanceStep /\ UNCHANGED movementVars
    <2>1. evidence' = evidence
      BY <1>1 DEF movementVars
    <2>2. evidence[e].mandate \in Mandates /\ Issued(evidence[e].mandate)
      BY <2>1, EvidenceTyped DEF Evidence, TransferInv, EvidenceKnown
    <2>3. requests'[evidence[e].mandate] = requests[evidence[e].mandate]
      BY <1>1, <2>2, IssuedKept DEF TransferInv
    <2>4. QED
      BY <2>1, <2>3 DEF EvidenceWithinTerms
  <1>2. ASSUME NEW x \in Executions, NEW m \in Mandates, NEW rights \in RightLists,
               NEW s \in Requestable, NEW at \in EffectiveInstants, Report(x, m, rights, s, at)
        PROVE  Within(evidence'[e].scope, requests'[evidence'[e].mandate].terms.scope)
    <2>1. /\ evidence' = [evidence EXCEPT ![x] =
                [mandate |-> m, rights |-> rights, scope |-> s, at |-> at]]
          /\ requests' = requests /\ Within(s, requests[m].terms.scope)
      BY <1>2 DEF Report, Authorizes
    <2>2. evidence \in [Executions -> Evidence \cup {None}]
      BY DEF TransferInv, TransferTypeOK
    <2>3. CASE e = x
      BY <2>1, <2>2, <2>3
    <2>4. CASE e # x
      <3>1. evidence'[e] = evidence[e]
        BY <2>1, <2>2, <2>4
      <3>2. QED
        BY <2>1, <3>1 DEF EvidenceWithinTerms
    <2>5. QED
      BY <2>3, <2>4
  <1>3. CASE \/ \E x \in Executions : Apply(x) \/ ApplyLost(x)
             \/ \E m \in Mandates : Reconcile(m)
             \/ UNCHANGED transferVars
    <2>1. UNCHANGED <<requests, evidence>>
      BY <1>3 DEF Apply, ApplyLost, Reconcile, transferVars, issuanceVars, movementVars
    <2>2. QED
      BY <2>1 DEF EvidenceWithinTerms
  <1>4. QED
    BY <1>1, <1>2, <1>3 DEF TransferService, Exercise, Reporting

\* A service's own steps keep what it guarantees.
LEMMA TransferSoundStep == TransferSound /\ [TransferService]_transferVars => TransferSound'
  BY TransferInvStep, TransferBooksStep, EvidenceWithinStep DEF TransferSound

LEMMA CollateralSoundStep == CollateralSound /\ [CollateralService]_collateralVars => CollateralSound'
  BY CollateralInvStep, CollateralBooksStep, PledgesCommensurableStep, AsRequestedStep DEF CollateralSound

-----------------------------------------------------------------------------
(* What each does under its mandates.                                      *)

\* A report lengthens one log, of a mandate for its action.
LEMMA LogLengthens ==
    ASSUME IssuanceInv, NEW m \in Mandates, Issued(m), NEW e \in Executions \cup Arrangements,
           mandates' = [mandates EXCEPT ![m].log = Append(@, e)], UNCHANGED requests
    PROVE  UnderMandates(requests[m].terms.action)
  <1>1. mandates \in [Mandates -> Mandate \cup {None}] /\ mandates[m] \in Mandate
    BY DEF IssuanceInv, IssuanceTypeOK, Issued
  <1>2. mandates[m].log \in Seq(Executions \cup Arrangements)
    BY <1>1 DEF Mandate
  <1>3. Append(mandates[m].log, e) \in Seq(Executions \cup Arrangements) /\ Append(mandates[m].log, e) # << >>
    <2>1. /\ Append(mandates[m].log, e) \in Seq(Executions \cup Arrangements)
          /\ Len(Append(mandates[m].log, e)) = Len(mandates[m].log) + 1
          /\ Len(mandates[m].log) \in Nat
      BY <1>2
    <2>2. Len(Append(mandates[m].log, e)) # 0 /\ Len(<< >>) = 0
      BY <2>1
    <2>3. QED
      BY <2>1, <2>2
  <1>4. [mandates[m] EXCEPT !.log = Append(mandates[m].log, e)] \in Mandate
    BY <1>1, <1>3 DEF Mandate
  <1>5. /\ mandates'[m] = [mandates[m] EXCEPT !.log = Append(mandates[m].log, e)]
        /\ \A n \in Mandates : n # m => mandates'[n] = mandates[n]
    BY <1>1
  <1>6. mandates'[m] # None /\ mandates'[m].log # << >>
    BY <1>1, <1>3, <1>4, <1>5, IssuanceAssumption DEF Mandate
  <1>7. QED
    BY <1>5, <1>6 DEF UnderMandates, Issued

LEMMA ExerciseLeaves ==
    ASSUME TransferInv, Exercise
    PROVE  UNCHANGED <<encumbrances, now>> /\ UnderMandates("TRANSFER")
  <1>1. ASSUME NEW e \in Executions, NEW m \in Mandates, NEW rights \in RightLists,
               NEW s \in Requestable, NEW at \in EffectiveInstants, Report(e, m, rights, s, at)
        PROVE  UNCHANGED <<encumbrances, now>> /\ UnderMandates("TRANSFER")
    <2>1. /\ mandates[m] # None /\ requests[m].terms.action = "TRANSFER"
          /\ mandates' = [mandates EXCEPT ![m].log = Append(@, e)]
          /\ UNCHANGED <<requests, positions, transitions, encumbrances, now>>
      BY <1>1 DEF Report, vars
    <2>2. UnderMandates(requests[m].terms.action)
      BY <2>1, LogLengthens DEF TransferInv, Issued
    <2>3. QED
      BY <2>1, <2>2
  <1>2. CASE \/ \E e \in Executions : Apply(e) \/ ApplyLost(e)
             \/ \E m \in Mandates : Reconcile(m)
    <2>1. UNCHANGED <<encumbrances, now, requests, mandates>>
      BY <1>2 DEF Apply, ApplyLost, Reconcile, ApplyEvidence, ApplyTransition, issuanceVars, vars
    <2>2. QED
      BY <2>1 DEF UnderMandates, Issued
  <1>3. QED
    BY <1>1, <1>2 DEF Exercise, Reporting

LEMMA ArrangeLeaves ==
    ASSUME CollateralInv, Arrange \/ (Discharge /\ UNCHANGED issuanceVars)
    PROVE  UNCHANGED <<positions, transitions, now>> /\ UnderMandates("COLLATERALIZE")
  <1>1. ASSUME NEW e \in Arrangements, NEW m \in Mandates, NEW rights \in RightLists,
               NEW s \in Requestable, NEW at \in Instants, ReportPledge(e, m, rights, s, at)
        PROVE  UNCHANGED <<positions, transitions, now>> /\ UnderMandates("COLLATERALIZE")
    <2>1. /\ mandates[m] # None /\ requests[m].terms.action = "COLLATERALIZE"
          /\ mandates' = [mandates EXCEPT ![m].log = Append(@, e)]
          /\ UNCHANGED <<requests, positions, transitions, encumbrances, now>>
      BY <1>1 DEF ReportPledge, vars
    <2>2. UnderMandates(requests[m].terms.action)
      BY <2>1, LogLengthens DEF CollateralInv, Issued
    <2>3. QED
      BY <2>1, <2>2
  <1>2. CASE \/ \E e \in Arrangements : Constrain(e) \/ ConstrainPassed(e) \/ ConstrainLost(e)
             \/ (Discharge /\ UNCHANGED issuanceVars)
    <2>1. UNCHANGED <<positions, transitions, now, requests, mandates>>
      BY <1>2 DEF Constrain, ConstrainNext, RecordEncumbrance, ConstrainPassed, ConstrainLost,
                  Discharge, ReleaseEncumbrance, issuanceVars, vars
    <2>2. QED
      BY <2>1 DEF UnderMandates, Issued
  <1>3. QED
    BY <1>1, <1>2 DEF Arrange, Pledging

-----------------------------------------------------------------------------
(* What each keeps while the other works.                                  *)

LEMMA OthersKeepBooks ==
    ASSUME NEW other, UnderMandates(other), NEW E, NEW ev, NEW action, action # other,
           Books(mandates, requests, ev, E, action)
    PROVE  Books(mandates', requests', ev, E, action)
  <1>1. \A m \in Mandates : mandates[m] # None =>
               /\ mandates'[m] # None
               /\ requests'[m].terms = requests[m].terms
               /\ requests[m].terms.action = action => mandates'[m].log = mandates[m].log
    BY DEF UnderMandates, Issued
  <1>2. \A m \in Mandates : ~(mandates[m] = None /\ mandates'[m] # None)
    BY DEF UnderMandates, Issued
  <1>3. QED
    BY <1>1, <1>2, BooksKept

LEMMA OthersKeepTransfer ==
    ASSUME TransferSound, UnderMandates("COLLATERALIZE"), UNCHANGED transitions,
           UNCHANGED movementVars, IssuanceInv'
    PROVE  TransferSound'
  <1>1. UNCHANGED <<evidence, applying, requests, transitions>>
    BY DEF movementVars, UnderMandates
  <1>2. TransferTypeOK'
    BY <1>1 DEF TransferSound, TransferInv, TransferTypeOK, IssuanceInv
  <1>3. \A m \in Mandates : /\ Issued(m)' <=> Issued(m)
                            /\ Issued(m) /\ requests[m].terms.action = "TRANSFER" =>
                                  mandates'[m].log = mandates[m].log
    BY DEF UnderMandates
  <1>4. EvidenceKnown'
    BY <1>1, <1>3, EvidenceTyped DEF TransferSound, TransferInv, EvidenceKnown, Evidence
  <1>5. LogKnown'
    BY <1>1, <1>3 DEF TransferSound, TransferInv, LogKnown
  <1>6. AuthorityFollowsEvidence' /\ EvidenceWithinTerms' /\ \A e \in applying' : evidence'[e] # None
    BY <1>1 DEF TransferSound, TransferInv, AuthorityFollowsEvidence, MovedOnEvidence, EvidenceWithinTerms
  <1>7. TransferBooks'
    BY <1>1, OthersKeepBooks DEF TransferSound, TransferBooks
  <1>8. QED
    BY <1>2, <1>4, <1>5, <1>6, <1>7 DEF TransferSound, TransferInv

LEMMA OthersKeepCollateral ==
    ASSUME CollateralSound, UnderMandates("TRANSFER"), UNCHANGED encumbrances,
           UNCHANGED pledgeVars, IssuanceInv',
           \A m \in Mandates, r \in Rights : reservations'[<<m, r>>] # None =>
               reservations[<<m, r>>] # None /\ reservations'[<<m, r>>].scope = reservations[<<m, r>>].scope
    PROVE  CollateralSound'
  <1>1. UNCHANGED <<pledges, encumbering, requests, encumbrances>>
    BY DEF pledgeVars, UnderMandates
  <1>2. CollateralTypeOK'
    BY <1>1 DEF CollateralSound, CollateralInv, CollateralTypeOK, IssuanceInv
  <1>3. PledgesKnown'
    BY <1>1, PledgeTyped DEF CollateralSound, CollateralInv, PledgesKnown, UnderMandates
  <1>4. EncumberingKnown' /\ ConstraintsFollowEvidence' /\ PledgesCommensurable'
    BY <1>1 DEF CollateralSound, CollateralInv, EncumberingKnown, ConstraintsFollowEvidence,
                ConstrainedOnEvidence, PledgesCommensurable
  <1>5. AsRequested'
    BY <1>1 DEF CollateralSound, AsRequested
  <1>6. CollateralBooks'
    BY <1>1, OthersKeepBooks DEF CollateralSound, CollateralBooks
  <1>7. QED
    BY <1>2, <1>3, <1>4, <1>5, <1>6 DEF CollateralSound, CollateralInv

\* A movement and its evidence change no commitment but its status.
LEMMA ExerciseReserves ==
    ASSUME TransferInv, Exercise, NEW m \in Mandates, NEW r \in Rights, reservations'[<<m, r>>] # None
    PROVE  reservations[<<m, r>>] # None /\ reservations'[<<m, r>>].scope = reservations[<<m, r>>].scope
  <1>1. CASE UNCHANGED reservations
    BY <1>1
  <1>2. CASE \E n : reservations' = Consumed(n)
    <2>1. PICK n : reservations' = Consumed(n)
      BY <1>2
    <2>2. reservations[<<m, r>>] \in Reservation \cup {None} /\ <<m, r>> \in Promises
      BY DEF TransferInv, IssuanceInv, IssuanceTypeOK, TypeOK, Promises
    <2>3. QED
      BY <2>1, <2>2 DEF Consumed, Reservation
  <1>3. QED
    BY <1>1, <1>2 DEF Exercise, Reporting, Report, Apply, ApplyLost, Reconcile, ApplyEvidence,
                      ApplyTransition, vars

-----------------------------------------------------------------------------
(* The two together.                                                       *)

LEMMA ActionsServe ==
    ASSUME [ActionsNext]_actionVars
    PROVE  \/ IssuanceStep /\ UNCHANGED movementVars /\ UNCHANGED pledgeVars
           \/ Exercise /\ UNCHANGED pledgeVars
           \/ Arrange /\ UNCHANGED movementVars
           \/ Discharge /\ UNCHANGED issuanceVars /\ UNCHANGED movementVars /\ UNCHANGED pledgeVars
           \/ UNCHANGED actionVars
  BY DEF ActionsNext, IssuanceStep

LEMMA ActionsInvInit == ActionsInit => ActionsInv
  <1>1. TransferInit => TransferSound
    BY TransferInvInit, TransferBooksInit DEF TransferSound, TransferInit, EvidenceWithinTerms
  <1>2. CollateralInit => CollateralSound
    BY CollateralInvInit, CollateralBooksInit DEF CollateralSound
  <1>3. QED
    BY <1>1, <1>2 DEF ActionsInit, ActionsInv

LEMMA ActionsInvStep == ActionsInv /\ [ActionsNext]_actionVars => ActionsInv'
  <1> SUFFICES ASSUME ActionsInv, [ActionsNext]_actionVars PROVE ActionsInv'
    OBVIOUS
  <1>0. TransferSound /\ CollateralSound /\ TransferInv /\ CollateralInv
    BY DEF ActionsInv, TransferSound, CollateralSound
  <1>1. CASE IssuanceStep /\ UNCHANGED movementVars /\ UNCHANGED pledgeVars
    BY <1>0, <1>1, TransferSoundStep, CollateralSoundStep
       DEF TransferService, CollateralService, ActionsInv
  <1>2. CASE Exercise /\ UNCHANGED pledgeVars
    <2>1. TransferSound'
      BY <1>0, <1>2, TransferSoundStep DEF TransferService
    <2>2. IssuanceInv'
      BY <2>1 DEF TransferSound, TransferInv
    <2>3. UnderMandates("TRANSFER") /\ UNCHANGED encumbrances
      BY <1>0, <1>2, ExerciseLeaves
    <2>4. CollateralSound'
      BY <1>0, <1>2, <2>2, <2>3, ExerciseReserves, OthersKeepCollateral
    <2>5. QED
      BY <2>1, <2>4 DEF ActionsInv
  <1>3. CASE \/ Arrange /\ UNCHANGED movementVars
             \/ Discharge /\ UNCHANGED issuanceVars /\ UNCHANGED movementVars /\ UNCHANGED pledgeVars
    <2>1. CollateralSound'
      BY <1>0, <1>3, CollateralSoundStep DEF CollateralService
    <2>2. IssuanceInv'
      BY <2>1 DEF CollateralSound, CollateralInv
    <2>3. UnderMandates("COLLATERALIZE") /\ UNCHANGED transitions /\ UNCHANGED movementVars
      BY <1>0, <1>3, ArrangeLeaves
    <2>4. TransferSound'
      BY <1>0, <2>2, <2>3, OthersKeepTransfer
    <2>5. QED
      BY <2>1, <2>4 DEF ActionsInv
  <1>4. CASE UNCHANGED actionVars
    <2>1. UNCHANGED transferVars /\ UNCHANGED collateralVars
      BY <1>4 DEF actionVars, transferVars, collateralVars
    <2>2. QED
      BY <1>0, <2>1, TransferSoundStep, CollateralSoundStep DEF ActionsInv
  <1>5. QED
    BY <1>1, <1>2, <1>3, <1>4, ActionsServe

LEMMA ActionsInvariant == ActionsSpec => []ActionsInv
  BY ActionsInvInit, ActionsInvStep, PTL DEF ActionsSpec

LEMMA ActionsStoreStep == ActionsInv /\ [ActionsNext]_actionVars => [Next]_vars
  <1> SUFFICES ASSUME ActionsInv, [ActionsNext]_actionVars PROVE [Next]_vars
    OBVIOUS
  <1>0. TransferInv /\ CollateralInv
    BY DEF ActionsInv, TransferSound, CollateralSound
  <1>1. CASE \/ IssuanceStep /\ UNCHANGED movementVars /\ UNCHANGED pledgeVars
             \/ Exercise /\ UNCHANGED pledgeVars
    BY <1>0, <1>1, TransferStoreStep DEF TransferService
  <1>2. CASE \/ Arrange /\ UNCHANGED movementVars
             \/ Discharge /\ UNCHANGED issuanceVars /\ UNCHANGED movementVars /\ UNCHANGED pledgeVars
    BY <1>0, <1>2, CollateralStoreStep DEF CollateralService
  <1>3. CASE UNCHANGED actionVars
    BY <1>3 DEF actionVars
  <1>4. QED
    BY <1>1, <1>2, <1>3, ActionsServe

\* The two services together are one client of the store: its theorems hold
\* whatever the order in which they work on it.
THEOREM ActionsUseStore == ActionsSpec => Spec
  <1>1. ActionsInit => Init
    BY DEF ActionsInit, TransferInit, IssuanceInit
  <1>2. QED
    BY <1>1, ActionsInvariant, ActionsStoreStep, PTL DEF ActionsSpec, Spec

\* What either service guarantees alone it guarantees beside the other: what
\* moves and what is constrained was reported and permitted, commitments are
\* backed and given back, and a reported arrangement finds its room.
THEOREM ActionsKeepGuarantees ==
    ActionsSpec => [](/\ MandateBacked /\ CompensationKnowsAll
                      /\ AuthorityFollowsEvidence
                      /\ ConstraintsFollowEvidence
                      /\ ConstrainedWithinMandate
                      /\ PledgeHasRoom)
  <1>1. ActionsInv => MandateBacked /\ CompensationKnowsAll /\ AuthorityFollowsEvidence /\ ConstraintsFollowEvidence
    BY InvBacked, InvKnowsAll DEF ActionsInv, TransferSound, CollateralSound, TransferInv, CollateralInv
  <1>2. ActionsInv /\ FinitelyMany => ConstrainedWithinMandate
    BY BooksBoundConstraints DEF ActionsInv, CollateralSound
  <1>3. ActionsInv /\ FinitelyMany /\ UnitsAgree => PledgeHasRoom
    BY BooksLeaveRoom DEF ActionsInv, CollateralSound
  <1>4. QED
    BY <1>1, <1>2, <1>3, ActionsInvariant, ActionsUseStore, AlwaysFinitelyMany, UnitsAlwaysAgree, PTL

\* Over the durable store a mandate moves no more than its terms while the
\* other service constrains the same positions.
THEOREM ActionsMoveWithinMandate == ASSUME Durable PROVE ActionsSpec => []MovedWithinMandate
  <1>1. ActionsInv /\ ExecutionMovesOnce => MovedWithinMandate
    BY BooksBoundMovements DEF ActionsInv, TransferSound
  <1>2. QED
    BY <1>1, ActionsInvariant, ActionsUseStore, DurableMovesOnce, PTL

-----------------------------------------------------------------------------
(* What breaks a promise.                                                  *)

LEMMA IssuanceDebitsNothing ==
    ASSUME IssuanceInv, IssuanceStep, NEW h \in Holders, NEW r \in Rights
    PROVE  Held(h, r)' >= Held(h, r)
  <1>0. TypeOK /\ Held(h, r) \in Nat
    BY DEF IssuanceInv, IssuanceTypeOK, Held, TypeOK, Slots, Scope
  <1>1. CASE Bootstrap
    <2>1. PICK g \in Holders, q \in Rights, s \in Requestable : BootstrapPosition(g, q, s) \/ BootstrapRefusedLate(g, q, s)
      BY <1>1 DEF Bootstrap
    <2>2. s \in Scope /\ s.qty \in Nat
      BY RequestableIsScope DEF Scope
    <2>3. CASE BootstrapPosition(g, q, s) /\ g = h /\ q = r
      <3>1. positions'[<<h, r>>] = Credited(h, r, s)
        BY <1>0, <2>3 DEF BootstrapPosition, TypeOK, Slots
      <3>2. Held(h, r)' = Held(h, r) + s.qty
        BY <1>0, <2>2, <3>1, HeldCredited
      <3>3. QED
        BY <1>0, <2>2, <3>2
    <2>4. CASE ~(BootstrapPosition(g, q, s) /\ g = h /\ q = r)
      <3>1. positions'[<<h, r>>] = positions[<<h, r>>]
        BY <1>0, <2>1, <2>4 DEF BootstrapPosition, BootstrapRefusedLate, TypeOK, Slots
      <3>2. QED
        BY <1>0, <3>1 DEF Held
    <2>5. QED
      BY <2>3, <2>4
  <1>2. CASE ~Bootstrap
    <2>1. CASE Environment
      BY <1>0, <1>2, <2>1 DEF Environment, Tick, storeVars, Held
    <2>2. CASE Submission(Terms)
      BY <1>0, <2>2 DEF Submission, Submit, vars, Held
    <2>3. ASSUME NEW m \in Mandates, MandateStep(m)
          PROVE  Held(h, r)' >= Held(h, r)
      <3>1. positions' = positions
        BY <2>3 DEF MandateStep, RequestStep, Reserve, AcquireReservation, ReserveNotEnrolled, Issue,
                Fail, Undo, UndoDone, Abandon, Revoke, ReleaseHeld, ReleaseReservation, RevokeEnds, vars
      <3>2. QED
        BY <1>0, <3>1 DEF Held
    <2>4. QED
      BY <2>1, <2>2, <2>3 DEF IssuanceStep
  <1>3. QED
    BY <1>1, <1>2

\* Nothing but a movement that was reported takes authority from a holder.
LEMMA OnlyMovementsDebit ==
    ASSUME ActionsInv, [ActionsNext]_actionVars, NEW h \in Holders, NEW r \in Rights, ~(Held(h, r)' >= Held(h, r))
    PROVE  \E e \in Executions : evidence[e] # None /\ ApplyEvidence(e)
  <1>1. TransferInv /\ CollateralInv /\ IssuanceInv /\ Held(h, r) \in Nat
    BY DEF ActionsInv, TransferSound, CollateralSound, TransferInv, IssuanceInv, IssuanceTypeOK, Held, TypeOK, Slots, Scope
  <1>2. positions' # positions
    BY <1>1 DEF Held
  <1>3. Exercise
    <2>1. ~IssuanceStep
      BY <1>1, IssuanceDebitsNothing
    <2>2. ~(Arrange \/ (Discharge /\ UNCHANGED issuanceVars))
      BY <1>1, <1>2, ArrangeLeaves
    <2>3. ~UNCHANGED actionVars
      BY <1>2 DEF actionVars, vars
    <2>4. QED
      BY <2>1, <2>2, <2>3, ActionsServe
  <1>4. ~Reporting
    BY <1>2 DEF Reporting, Report, vars
  <1>5. ASSUME NEW e \in Executions, Apply(e) \/ ApplyLost(e)
        PROVE  evidence[e] # None /\ ApplyEvidence(e)
    <2>1. Apply(e)
      BY <1>2, <1>5 DEF ApplyLost, vars
    <2>2. QED
      BY <1>1, <2>1 DEF Apply, TransferInv
  <1>6. QED
    BY <1>1, <1>3, <1>4, <1>5, ReconcileApplies DEF Exercise

\* What such a movement takes, from whom, and what the gate knew of it.
LEMMA MovementDebits ==
    ASSUME ActionsInv, TypeOK', NEW e \in Executions, evidence[e] # None, ApplyEvidence(e),
           NEW h \in Holders, NEW r \in Rights, ~(Held(h, r)' >= Held(h, r)),
           NEW v, v = evidence[e], NEW m, m = evidence[e].mandate
    PROVE  /\ JustApplied(e)
           /\ m \in Mandates /\ requests[m].terms.action = "TRANSFER" /\ h = requests[m].terms.from
           /\ Held(h, r)' = Held(h, r) - v.scope.qty
           /\ v.scope.qty \in Nat /\ v.scope.qty <= requests[m].terms.scope.qty
           /\ v.at \in Nat /\ Encumbered(h, r, v.at) <= Held(h, r)'
           /\ reservations' = Consumed(m) /\ UNCHANGED <<encumbrances, now>>
  <1> DEFINE t == requests[m].terms
  <1>0. TransferInv /\ EvidenceWithinTerms
    BY DEF ActionsInv, TransferSound
  <1>1. TypeOK
    BY <1>0 DEF TransferInv, IssuanceInv, IssuanceTypeOK
  <1>2. /\ m \in Mandates /\ v.rights \in RightLists /\ v.scope \in Scope /\ v.at \in Nat
        /\ t.from \in Holders /\ t.to \in Holders
    BY <1>0, EvidenceTyped, RequestableIsScope, InstantsAreNat DEF Evidence
  <1>3. t.action = "TRANSFER" /\ v.scope.qty <= t.scope.qty
    BY <1>0 DEF TransferInv, EvidenceKnown, EvidenceWithinTerms, Within
  <1>4. ApplyTransition(e, m, v.rights, t.from, t.to, v.scope, v.at)
    BY DEF ApplyEvidence
  <1>5. reservations' = Consumed(m) /\ UNCHANGED <<encumbrances, now>>
    BY <1>4 DEF ApplyTransition
  <1> HIDE DEF t
  <1>6. /\ h = t.from
        /\ Held(h, r)' = Held(h, r) - v.scope.qty /\ v.scope.qty \in Nat
        /\ Encumbered(h, r, v.at) <= Held(h, r)'
    BY <1>1, <1>2, <1>4, MoveHeld
  <1>7. JustApplied(e)
    <2>1. ~Applied(e)
      BY <1>4 DEF ApplyTransition, TransitionApplicable
    <2>2. /\ Len(transitions) \in Nat
          /\ DOMAIN transitions' = 1..(Len(transitions) + Len(v.rights))
          /\ \A i \in 1..Len(v.rights) :
                transitions'[Len(transitions) + i] = Movement(e, m, v.rights[i], t.from, t.to, v.scope)
      BY <1>1, <1>2, <1>4, MoveWrites
    <2>3. Len(v.rights) \in Nat /\ Len(v.rights) >= 1
      BY <1>2, RightListLength
    <2>4. 1 \in 1..Len(v.rights) /\ Len(transitions) + 1 \in DOMAIN transitions'
      BY <2>2, <2>3
    <2>5. transitions'[Len(transitions) + 1].execution = e
      <3>1. transitions'[Len(transitions) + 1] = Movement(e, m, v.rights[1], t.from, t.to, v.scope)
        BY <2>2, <2>4
      <3>2. QED
        BY <3>1 DEF Movement
    <2>6. QED
      BY <2>1, <2>4, <2>5 DEF JustApplied, Applied
  <1>8. QED
    BY <1>2, <1>3, <1>5, <1>6, <1>7 DEF t

-----------------------------------------------------------------------------
(* Constraints left without the authority they constrain.                  *)

\* What both services and the store are sure of before a step, and after it.
ActionsAt == ActionsInv /\ TypeOK /\ FinitelyMany /\ UnitsAgree /\ BegunByNow

LEMMA ActionsAlways == ActionsSpec => []ActionsAt
  BY ActionsInvariant, ActionsUseStore, TypeCorrect, AlwaysFinitelyMany, UnitsAlwaysAgree, CommitmentsBegun, PTL
     DEF ActionsAt

LEMMA DrawsBothWays ==
    ASSUME ActionsAt, ActionsAt', NEW h \in Holders, NEW r \in Rights
    PROVE  DrawFacts(h, r) /\ DrawFacts(h, r)'
  <1>1. DrawFacts(h, r)
    BY FactsOfDraws DEF AllDrawFacts, ActionsAt
  <1>2. DrawFacts(h, r)'
    <2>1. (TypeOK /\ FinitelyMany /\ UnitsAgree => AllDrawFacts)'
      BY FactsOfDraws, PTL
    <2>2. QED
      BY <2>1 DEF AllDrawFacts, ActionsAt
  <1>3. QED
    BY <1>1, <1>2

\* A movement the gate let through left what was constrained at its instant.
LEMMA DebitStrands ==
    ASSUME ActionsAt, ActionsAt', NEW e \in Executions, evidence[e] # None, ApplyEvidence(e),
           NEW h \in Holders, NEW r \in Rights,
           ~(Held(h, r)' >= Held(h, r)), Encumbered(h, r, now)' > Held(h, r)'
    PROVE  JustApplied(e) /\ \E c \in Claims : Over(c, h, r) /\ evidence[e].at < encumbrances[c].from
  <1> DEFINE at == evidence[e].at
  <1>1. /\ JustApplied(e) /\ at \in Nat
        /\ Encumbered(h, r, at) <= Held(h, r)'
        /\ UNCHANGED <<encumbrances, now>>
    BY MovementDebits DEF ActionsAt
  <1> HIDE DEF at
  <1>2. Encumbered(h, r, now)' = Encumbered(h, r, now)
    BY <1>1 DEF Encumbered, Constraining, Constrains, EncumberedQty
  <1>3. DrawFacts(h, r) /\ DrawFacts(h, r)'
    BY DrawsBothWays
  <1>4. Encumbered(h, r, now) \in Nat /\ Encumbered(h, r, at) \in Nat /\ Held(h, r)' \in Nat
    BY <1>1, <1>3, EncumberedAt DEF DrawFacts, ActionsAt
  <1>5. ~(Encumbered(h, r, now) <= Encumbered(h, r, at))
    BY <1>1, <1>2, <1>4
  <1>6. PICK c \in Constraining(h, r, now) : ~(encumbrances[c].from <= at)
    BY <1>5, EncumberedBefore DEF ActionsAt
  <1>7. c \in Claims /\ Over(c, h, r)
    BY <1>6 DEF Constraining, Constrains, Over
  <1>8. encumbrances[c].from \in Nat
    BY <1>7 DEF ActionsAt, TypeOK, Encumbrance, Over
  <1>9. at < encumbrances[c].from
    BY <1>1, <1>6, <1>8
  <1>10. QED
    BY <1>1, <1>7, <1>9 DEF at

LEMMA StrandedStep ==
    ASSUME ActionsAt, ActionsAt', [ActionsNext]_actionVars, NEW h \in Holders, NEW r \in Rights,
           ~Overencumbered(h, r, now), Overencumbered(h, r, now)'
    PROVE  \E c \in Claims : /\ Over(c, h, r)
                             /\ \/ ComesIntoForce(c)
                                \/ \E e \in Executions :
                                      JustApplied(e) /\ evidence[e].at < encumbrances[c].from
  <1>1. DrawFacts(h, r) /\ DrawFacts(h, r)'
    BY DrawsBothWays
  <1>2. /\ Encumbered(h, r, now) <= Held(h, r) /\ Encumbered(h, r, now)' > Held(h, r)'
        /\ Encumbered(h, r, now) \in Nat /\ Encumbered(h, r, now)' \in Nat
        /\ Held(h, r) \in Nat /\ Held(h, r)' \in Nat
    BY <1>1 DEF DrawFacts
  <1>3. Next
    <2>1. [Next]_vars
      BY ActionsStoreStep DEF ActionsAt
    <2>2. ~UNCHANGED vars
      BY DEF vars, Overencumbered, Encumbered, Constraining, Constrains, EncumberedQty
    <2>3. QED
      BY <2>1, <2>2
  <1>4. CASE ~(Held(h, r)' >= Held(h, r))
    <2>1. PICK e \in Executions : evidence[e] # None /\ ApplyEvidence(e)
      BY <1>4, OnlyMovementsDebit DEF ActionsAt
    <2>2. QED
      BY <1>2, <1>4, <2>1, DebitStrands
  <1>5. CASE Held(h, r)' >= Held(h, r)
    <2>1. ~(Encumbered(h, r, now)' <= Encumbered(h, r, now))
      BY <1>2, <1>5
    <2>2. ~(Constraining(h, r, now)' \subseteq Constraining(h, r, now))
      BY <1>3, <2>1, EncumberedGrows DEF ActionsAt
    <2>3. ~(Encumbered(h, r, now)' <= Held(h, r)')
      BY <1>2
    <2>4. ~\E e \in Arrangements, m \in Mandates, s \in Scope, from \in Nat : RecordEncumbrance(e, m, r, h, s, from)
      BY <1>3, <2>3, EncumberCovered DEF ActionsAt
    <2>5. TypeOK
      BY DEF ActionsAt
    <2>6. QED
      BY <1>3, <2>2, <2>4, <2>5, OnlyEncumberConstrains DEF Over
  <1>6. QED
    BY <1>4, <1>5

\* Between the two services no constraint loses its authority but in the two
\* ways named: by a movement dated before it, or by binding later than recorded.
THEOREM StrandedOnlyByDate == ActionsSpec => StrandedOnlyBackdated
  <1>1. ActionsAt /\ ActionsAt' /\ [ActionsNext]_actionVars
        => [\A h \in Holders, r \in Rights :
              (~Overencumbered(h, r, now) /\ Overencumbered(h, r, now)') =>
                  \E c \in Claims : /\ Over(c, h, r)
                                    /\ \/ ComesIntoForce(c)
                                       \/ \E e \in Executions :
                                             JustApplied(e) /\ evidence[e].at < encumbrances[c].from]_actionVars
    BY StrandedStep
  <1>2. QED
    BY <1>1, ActionsAlways, PTL DEF ActionsSpec, StrandedOnlyBackdated

-----------------------------------------------------------------------------
(* Promises that exceed what is held.                                      *)

\* The clock raises no claim of a slot whose constraints all begin while the
\* commitment they came from still stands.
LEMMA TickRaisesNothing ==
    ASSUME ActionsAt, ActionsAt', Tick, NEW h \in Holders, NEW r \in Rights, NEW m \in Mandates,
           \A c \in Claims : (Over(c, h, r) /\ ComesIntoForce(c)) => HeldFor(c)
    PROVE  Claim(m, h, r)' <= Claim(m, h, r)
  <1>1. /\ UNCHANGED <<reservations, encumbrances, positions>> /\ now' = now + 1 /\ now \in Nat /\ Next
        /\ TypeOK /\ FinitelyMany /\ TypeOK' /\ FinitelyMany' /\ CollateralInv
    BY DEF Tick, storeVars, TypeOK, ActionsAt, Next, ActionsInv, CollateralSound
  <1>2. /\ EncumberedBy(m, h, r) \in Nat /\ EncumberedBy(m, h, r)' \in Nat
        /\ InForceOf(m, h, r)' \subseteq InForceOf(m, h, r) => EncumberedBy(m, h, r)' <= EncumberedBy(m, h, r)
    BY <1>1, EncumberedMoves
  <1>3. ReservedBy(m, h, r) \in Nat
    <2>1. SlotFacts(h, r)
      BY <1>1, FactsOfSlots DEF AllSlotFacts
    <2>2. QED
      BY <2>1 DEF SlotFacts
  <1>4. ReservedBy(m, h, r)' <= ReservedBy(m, h, r) /\ ReservedBy(m, h, r)' \in Nat
    <2>1. CASE <<m, r>> \notin Standing(h, r, now)'
      BY <1>3, <2>1 DEF ReservedBy
    <2>2. CASE <<m, r>> \in Standing(h, r, now)'
      <3>1. <<m, r>> \in Promises /\ reservations[<<m, r>>] # None
        BY <1>1, <2>2 DEF Standing, ReducesAvailability
      <3>2. /\ reservations[<<m, r>>].from <= now /\ now + 1 < reservations[<<m, r>>].until
            /\ reservations[<<m, r>>].until \in Nat
        BY <1>1, <2>2, <3>1 DEF Standing, ReducesAvailability, TypeOK, BegunByNow, ActionsAt, Reservation
      <3>3. now < reservations[<<m, r>>].until
        BY <1>1, <3>2
      <3>4. <<m, r>> \in Standing(h, r, now)
        BY <1>1, <2>2, <3>1, <3>2, <3>3 DEF Standing, ReducesAvailability
      <3>5. QED
        BY <1>1, <1>3, <2>2, <3>4 DEF ReservedBy
    <2>3. QED
      BY <2>1, <2>2
  <1>5. CASE InForceOf(m, h, r)' \subseteq InForceOf(m, h, r)
    BY <1>2, <1>3, <1>4, <1>5 DEF Claim
  <1>6. CASE ~(InForceOf(m, h, r)' \subseteq InForceOf(m, h, r))
    <2>1. PICK c \in InForceOf(m, h, r)' : c \notin InForceOf(m, h, r)
      BY <1>6
    <2>2. c \in Claims /\ Over(c, h, r) /\ ComesIntoForce(c) /\ encumbrances[c].mandate = m
      BY <1>1, <2>1 DEF InForceOf, Constraining, Constrains, Over, ComesIntoForce
    <2>3. <<m, r>> \in Standing(h, r, now)
      BY <2>2 DEF HeldFor, Over
    <2>4. /\ ReservedBy(m, h, r) = requests[m].terms.scope.qty
      <3>1. reservations[<<m, r>>] # None
        BY <2>3 DEF Standing, ReducesAvailability
      <3>2. reservations[<<m, r>>].scope = requests[m].terms.scope
        BY <3>1 DEF ActionsAt, ActionsInv, CollateralSound, AsRequested
      <3>3. QED
        BY <2>3, <3>2 DEF ReservedBy
    <2>5. mandates[m] # None
      BY <2>2, <1>1 DEF CollateralInv, ConstraintsFollowEvidence, ConstrainedOnEvidence, Over, PledgesKnown, Issued, Claims
    <2> DEFINE all == {d \in Claims : d[2] = r /\ encumbrances[d] # None /\ encumbrances[d].mandate = m}
    <2>6. EncumberedQty(all) <= requests[m].terms.scope.qty
      <3>1. ConstrainedWithinMandate
        BY <1>1, BooksBoundConstraints DEF ActionsAt, ActionsInv, CollateralSound
      <3>2. QED
        BY <2>5, <3>1 DEF ConstrainedWithinMandate
    <2>7. EncumberedBy(m, h, r)' <= EncumberedQty(all) /\ EncumberedQty(all) \in Nat
      <3> DEFINE part == InForceOf(m, h, r)'
      <3>1. EncumberedBy(m, h, r)' = EncumberedQty(part)
        BY <1>1 DEF EncumberedBy, CarvedOut, InForceOf, EncumberedQty
      <3>2. part \in SUBSET all /\ all \in SUBSET Recorded
        BY <1>1 DEF InForceOf, Constraining, Constrains, Recorded
      <3> HIDE DEF part, all
      <3>3. /\ EncumberedQty(part) = SumFunctionOnSet(EncQty, part) /\ Summable(EncQty, part)
            /\ EncumberedQty(all) = SumFunctionOnSet(EncQty, all) /\ Summable(EncQty, all)
        BY <1>1, <3>2, EncumbrancesAreSummed DEF EncumbrancesSummed
      <3>4. AtMost(EncQty, EncQty, part)
        BY <3>3 DEF AtMost, Summable
      <3>5. SumFunctionOnSet(EncQty, part) <= SumFunctionOnSet(EncQty, all)
        BY <3>2, <3>3, <3>4, SumMonotone
      <3>6. QED
        BY <3>1, <3>3, <3>5, SumType
    <2> HIDE DEF all
    <2>8. EncumberedBy(m, h, r)' <= ReservedBy(m, h, r)
      BY <1>2, <1>3, <2>4, <2>6, <2>7
    <2>9. QED
      BY <1>2, <1>3, <1>4, <2>8 DEF Claim
  <1>7. QED
    BY <1>5, <1>6

\* A movement spends the promise it relied on, and takes no more than that.
LEMMA PromisedDebitStaysSolvent ==
    ASSUME ActionsAt, ActionsAt', NEW e \in Executions, evidence[e] # None, ApplyEvidence(e),
           NEW h \in Holders, NEW r \in Rights,
           ~(Held(h, r)' >= Held(h, r)), Solvent(h, r),
           NEW v, v = evidence[e], NEW m, m = evidence[e].mandate, Promised(m, r)
    PROVE  Solvent(h, r)'
  <1>0. /\ TypeOK /\ FinitelyMany /\ TypeOK' /\ FinitelyMany' /\ ActionsInv
        /\ CollateralInv /\ AsRequested
    BY DEF ActionsAt, ActionsInv, CollateralSound
  <1>1. /\ m \in Mandates /\ requests[m].terms.action = "TRANSFER" /\ h = requests[m].terms.from
        /\ Held(h, r)' = Held(h, r) - v.scope.qty
        /\ v.scope.qty \in Nat /\ v.scope.qty <= requests[m].terms.scope.qty
        /\ reservations' = Consumed(m) /\ UNCHANGED <<encumbrances, now>>
    BY <1>0, MovementDebits
  <1>2. <<m, r>> \in Standing(h, r, now)
    BY <1>1 DEF Promised
  <1>3. \A n \in Mandates : EncumberedBy(n, h, r)' = EncumberedBy(n, h, r)
    BY <1>1 DEF EncumberedBy, CarvedOut, Constraining, Constrains, EncumberedQty
  <1>4. ASSUME NEW n \in Mandates \ {m} PROVE Claim(n, h, r)' = Claim(n, h, r)
    <2>1. reservations'[<<n, r>>] = reservations[<<n, r>>]
      BY <1>1 DEF Consumed, Promises
    <2>2. ReservedBy(n, h, r)' = ReservedBy(n, h, r)
      BY <1>1, <2>1, ReservedKept
    <2>3. QED
      BY <1>3, <2>2 DEF Claim
  <1>5. EncumberedBy(m, h, r) = 0
    <2>1. InForceOf(m, h, r) = {}
      <3>1. ASSUME NEW c \in InForceOf(m, h, r) PROVE FALSE
        <4>1. c \in Claims /\ encumbrances[c] # None /\ encumbrances[c].mandate = m
          BY DEF InForceOf, Constraining, Constrains
        <4>2. pledges[c[1]] # None /\ pledges[c[1]].mandate = m
          BY <1>0, <4>1 DEF CollateralInv, ConstraintsFollowEvidence, ConstrainedOnEvidence
        <4>3. requests[m].terms.action = "COLLATERALIZE"
          BY <4>1, <4>2 DEF ActionsAt, ActionsInv, CollateralSound, CollateralBooks, Books, Claims
        <4>4. QED
          BY <1>1, <4>3
      <3>2. QED
        BY <3>1
    <2>2. EncumberedBy(m, h, r) = SumFunctionOnSet(EncQty, InForceOf(m, h, r))
      BY <1>0, <1>1, FactsOfSlots DEF AllSlotFacts, SlotFacts
    <2>3. QED
      BY <2>1, <2>2, SumEmpty
  <1>6. ReservedBy(m, h, r) = requests[m].terms.scope.qty
    <2>1. reservations[<<m, r>>] # None
      BY <1>2 DEF Standing, ReducesAvailability
    <2>2. reservations[<<m, r>>].scope = requests[m].terms.scope
      BY <1>0, <1>1, <2>1 DEF AsRequested
    <2>3. QED
      BY <1>2, <2>2 DEF ReservedBy
  <1>7. ReservedBy(m, h, r)' = 0
    <2>1. <<m, r>> \in Promises /\ reservations[<<m, r>>] # None /\ reservations[<<m, r>>].status = "active"
      BY <1>2 DEF Standing, ReducesAvailability
    <2>2. reservations'[<<m, r>>] = [reservations[<<m, r>>] EXCEPT !.status = "consumed"]
      BY <1>1, <2>1 DEF Consumed
    <2>3. reservations[<<m, r>>] \in Reservation
      BY <1>0, <2>1 DEF TypeOK
    <2>4. reservations'[<<m, r>>].status = "consumed"
      BY <2>2, <2>3 DEF Reservation
    <2>5. QED
      BY <2>4 DEF ReservedBy, Standing, ReducesAvailability
  <1>8. /\ Claimed(h, r)' + Claim(m, h, r) = Claimed(h, r) + Claim(m, h, r)'
        /\ Claimed(h, r) \in Nat /\ Claimed(h, r)' \in Nat
        /\ Claim(m, h, r) \in Nat /\ Claim(m, h, r)' \in Nat
    BY <1>0, <1>1, <1>4, OneClaimMoves
  <1>9. ReservedBy(m, h, r) \in Nat
    BY <1>0, <1>1, FactsOfSlots DEF AllSlotFacts, SlotFacts
  <1>10. Claim(m, h, r) = requests[m].terms.scope.qty /\ Claim(m, h, r)' = 0
    BY <1>1, <1>3, <1>5, <1>6, <1>7, <1>9 DEF Claim
  <1>11. Held(h, r) \in Nat
    BY <1>0 DEF Held, TypeOK, Slots, Scope
  <1>12. Claimed(h, r)' <= Held(h, r)'
    BY <1>1, <1>8, <1>10, <1>11 DEF Solvent
  <1>13. QED
    BY <1>12 DEF Solvent

LEMMA CapacityStep ==
    ASSUME ActionsAt, ActionsAt', [ActionsNext]_actionVars, NEW h \in Holders, NEW r \in Rights,
           ~Overcommitted(h, r, {}, now), Overcommitted(h, r, {}, now)'
    PROVE  \/ \E e \in Executions : JustApplied(e) /\ ~Promised(evidence[e].mandate, r)
           \/ \E c \in Claims : Over(c, h, r) /\ ComesIntoForce(c) /\ ~HeldFor(c)
  <1>1. DrawFacts(h, r) /\ DrawFacts(h, r)'
    BY DrawsBothWays
  <1>2. Solvent(h, r) /\ ~Solvent(h, r)'
    BY <1>1 DEF DrawFacts
  <1>3. Next
    <2>1. [Next]_vars
      BY ActionsStoreStep DEF ActionsAt
    <2>2. ~UNCHANGED vars
      BY DEF vars, Overcommitted, Encumbered, Constraining, Constrains, EncumberedQty, Committed,
             Standing, ReducesAvailability, Residual, CarvedOut
    <2>3. QED
      BY <2>1, <2>2
  <1>4. CASE ~(Held(h, r)' >= Held(h, r))
    <2>1. PICK e \in Executions : evidence[e] # None /\ ApplyEvidence(e)
      BY <1>4, OnlyMovementsDebit DEF ActionsAt
    <2>2. ~Promised(evidence[e].mandate, r)
      BY <1>2, <1>4, <2>1, PromisedDebitStaysSolvent
    <2>3. JustApplied(e)
      BY <1>4, <2>1, MovementDebits DEF ActionsAt
    <2>4. QED
      BY <2>2, <2>3
  <1>5. CASE Held(h, r)' >= Held(h, r) /\ now' = now
    <2>1. ~\E c \in Claims : ComesIntoForce(c)
      BY <1>5 DEF ComesIntoForce
    <2>2. QED
      BY <1>2, <1>3, <1>5, <2>1, GateStep DEF ActionsAt
  <1>6. CASE Held(h, r)' >= Held(h, r) /\ now' # now
    <2>1. Tick
      BY <1>3, <1>6, ClockTicks
    <2>2. SUFFICES ASSUME \A c \in Claims : (Over(c, h, r) /\ ComesIntoForce(c)) => HeldFor(c)
                   PROVE  FALSE
      OBVIOUS
    <2>3. \A m \in Mandates : Claim(m, h, r)' <= Claim(m, h, r)
      BY <2>1, <2>2, TickRaisesNothing
    <2>4. Claimed(h, r)' <= Claimed(h, r) /\ Claimed(h, r) \in Nat /\ Claimed(h, r)' \in Nat
      BY <2>3, NoClaimRises DEF ActionsAt
    <2>5. Held(h, r) \in Nat /\ Held(h, r)' \in Nat
      BY <1>1 DEF DrawFacts
    <2>6. QED
      BY <1>2, <1>6, <2>4, <2>5 DEF Solvent
  <1>7. QED
    BY <1>4, <1>5, <1>6

\* Between the two services no promise is broken but in the two ways named: by
\* a movement that was promised nothing any more, or by a constraint that binds
\* after the commitment it came from has ended.
THEOREM CapacityBrokenOnlyByThese == ActionsSpec => CapacityBrokenOnlyLateOrAhead
  <1>1. ActionsAt /\ ActionsAt' /\ [ActionsNext]_actionVars
        => [\A h \in Holders, r \in Rights :
              (~Overcommitted(h, r, {}, now) /\ Overcommitted(h, r, {}, now)') =>
                  \/ \E e \in Executions : JustApplied(e) /\ ~Promised(evidence[e].mandate, r)
                  \/ \E c \in Claims : Over(c, h, r) /\ ComesIntoForce(c) /\ ~HeldFor(c)]_actionVars
    BY CapacityStep
  <1>2. QED
    BY <1>1, ActionsAlways, PTL DEF ActionsSpec, CapacityBrokenOnlyLateOrAhead

=============================================================================
