---------------------- MODULE GovernedAuthorityStoreProofs ----------------------
(***************************************************************************)
(* What the Governed Authority Store guarantees for any number of holders, *)
(* rights, mandates, executions and units, whoever calls it.               *)
(***************************************************************************)
EXTENDS GovernedAuthorityStore, SumTheorems, SequenceTheorems, TLAPS

-----------------------------------------------------------------------------
(* Quantities.                                                             *)

\* A debit the containment check admits never takes a balance below zero.
LEMMA MinusIsScope ==
    ASSUME NEW a \in Scope, NEW b \in Scope, Within(b, a)
    PROVE  Minus(a, b) \in Scope
  BY DEF Scope, Within, Minus

LEMMA PlusIsScope ==
    ASSUME NEW a \in Scope, NEW b \in Scope
    PROVE  Plus(a, b) \in Scope
  BY DEF Scope, Plus

\* The instants of the clock are instants.
LEMMA InstantsAreNat == Instants \subseteq Nat
  BY DEF Instants

\* What callers may name is a scope.
LEMMA RequestableIsScope == Requestable \subseteq Scope
  BY BoundsAssumption DEF Requestable, Scope

LEMMA CreditedIsScope ==
    ASSUME TypeOK, NEW h \in Holders, NEW r \in Rights, NEW s \in Scope
    PROVE  Credited(h, r, s) \in Scope
  <1>1. positions[<<h, r>>] \in Scope \cup {None}
    BY DEF TypeOK, Slots
  <1>2. QED
    BY <1>1, PlusIsScope DEF Credited

-----------------------------------------------------------------------------
(* Type correctness, one lemma per operation.                              *)

LEMMA BootstrapType ==
    ASSUME TypeOK, NEW h \in Holders, NEW r \in Rights, NEW s \in Scope,
           BootstrapPosition(h, r, s) \/ BootstrapRefusedLate(h, r, s)
    PROVE  TypeOK'
  <1>1. Issuance(h, r, s) \in Issuances
    BY DEF Issuance, Issuances
  <1>2. transitions' \in Seq(Movements \cup Issuances)
    <2>1. transitions' = Append(transitions, Issuance(h, r, s))
      BY DEF BootstrapPosition, BootstrapRefusedLate
    <2>2. Issuance(h, r, s) \in Movements \cup Issuances
      BY <1>1
    <2>3. transitions \in Seq(Movements \cup Issuances)
      BY DEF TypeOK
    <2>4. QED
      BY <2>1, <2>2, <2>3
  <1>3. positions' \in [Slots -> Scope \cup {None}]
    <2>1. positions \in [Slots -> Scope \cup {None}]
      BY DEF TypeOK
    <2>2. positions' = [positions EXCEPT ![<<h, r>>] = Credited(h, r, s)] \/ positions' = positions
      BY DEF BootstrapPosition, BootstrapRefusedLate
    <2>3. QED
      BY <2>1, <2>2, CreditedIsScope
  <1>4. QED
    BY <1>2, <1>3 DEF TypeOK, BootstrapPosition, BootstrapRefusedLate

LEMMA RightListIsSeq ==
    ASSUME NEW rights \in RightLists
    PROVE  /\ rights \in Seq(Rights)
           /\ RightsOf(rights) \subseteq Rights
           /\ Len(rights) \in Nat \ {0}
           /\ DOMAIN rights = 1..Len(rights)
  BY BoundsAssumption DEF RightLists, RightsOf

LEMMA MoveType ==
    ASSUME TypeOK,
           NEW e \in Executions, NEW m \in Mandates, NEW rights \in RightLists,
           NEW h \in Holders, NEW g \in Holders, NEW s \in Scope, NEW at,
           ApplyTransition(e, m, rights, h, g, s, at)
    PROVE  TypeOK'
  <1> DEFINE written == [i \in DOMAIN rights |-> Movement(e, m, rights[i], h, g, s)]
  <1>1. written \in Seq(Movements)
    <2>1. \A i \in DOMAIN rights : Movement(e, m, rights[i], h, g, s) \in Movements
      BY RightListIsSeq DEF Movement, Movements
    <2>2. QED
      BY <2>1, RightListIsSeq
  <1>2. transitions' \in Seq(Movements \cup Issuances)
    <2>1. transitions' = transitions \o written
      BY DEF ApplyTransition
    <2>2. written \in Seq(Movements \cup Issuances)
      BY <1>1
    <2> HIDE DEF written
    <2>3. QED
      BY <2>1, <2>2 DEF TypeOK
  <1>3. positions' \in [Slots -> Scope \cup {None}]
    <2>1. \A r \in RightsOf(rights) : positions[<<h, r>>] \in Scope /\ Within(s, positions[<<h, r>>])
      BY RightListIsSeq DEF TypeOK, Slots, ApplyTransition, TransitionApplicable, Movable
    <2>2. \A r \in RightsOf(rights) : Minus(positions[<<h, r>>], s) \in Scope
      BY <2>1, MinusIsScope
    <2>3. \A r \in Rights : Credited(g, r, s) \in Scope
      BY CreditedIsScope
    <2>4. QED
      BY <2>2, <2>3 DEF TypeOK, ApplyTransition, Moved, Slots
  <1>4. reservations' \in [Promises -> Reservation \cup {None}]
    <2>1. \A p \in Promises : reservations[p] # None =>
             [reservations[p] EXCEPT !.status = "consumed"] \in Reservation
      BY DEF TypeOK, Reservation, ReservationStatus
    <2>2. \A p \in Promises : Consumed(m)[p] \in Reservation \cup {None}
      BY <2>1 DEF TypeOK, Consumed
    <2>3. reservations' = Consumed(m)
      BY DEF ApplyTransition
    <2>4. QED
      BY <2>2, <2>3 DEF Consumed
  <1>5. QED
    BY <1>2, <1>3, <1>4 DEF TypeOK, ApplyTransition

LEMMA ReservationType ==
    ASSUME TypeOK, NEW m \in Mandates, NEW r \in Rights,
           \/ ReleaseReservation(m, r)
           \/ \E h \in Holders, s \in Scope, from, until \in Nat :
                 AcquireReservation(m, r, h, s, from, until)
    PROVE  TypeOK'
  <1>1. CASE ReleaseReservation(m, r)
    BY <1>1 DEF TypeOK, ReleaseReservation, Promises, Reservation, ReservationStatus
  <1>2. ASSUME NEW h \in Holders, NEW s \in Scope, NEW from \in Nat, NEW until \in Nat,
               AcquireReservation(m, r, h, s, from, until)
        PROVE  TypeOK'
    BY <1>2 DEF TypeOK, AcquireReservation, Promises, Reservation, ReservationStatus
  <1>3. QED
    BY <1>1, <1>2

LEMMA EncumbranceType ==
    ASSUME TypeOK, NEW e \in Arrangements, NEW r \in Rights,
           \/ \E basis \in ReleaseBases : ReleaseEncumbrance(e, r, basis)
           \/ \E m \in Mandates, h \in Holders, s \in Scope, from \in Nat :
                 RecordEncumbrance(e, m, r, h, s, from)
    PROVE  TypeOK'
  <1>1. ASSUME NEW basis \in ReleaseBases, ReleaseEncumbrance(e, r, basis)
        PROVE  TypeOK'
    <2>1. encumbrances[<<e, r>>] \in Encumbrance
      BY <1>1 DEF TypeOK, ReleaseEncumbrance, Claims
    <2> DEFINE ended == [encumbrances[<<e, r>>] EXCEPT !.status = "released", !.basis = basis]
    <2>2. ended \in Encumbrance
      BY <2>1 DEF Encumbrance
    <2>3. encumbrances' = [encumbrances EXCEPT ![<<e, r>>] = ended]
      BY <1>1 DEF ReleaseEncumbrance, TypeOK, Claims
    <2> HIDE DEF ended
    <2>4. encumbrances' \in [Claims -> Encumbrance \cup {None}]
      BY <2>2, <2>3 DEF TypeOK, Claims
    <2>5. QED
      BY <1>1, <2>4 DEF TypeOK, ReleaseEncumbrance
  <1>2. ASSUME NEW m \in Mandates, NEW h \in Holders, NEW s \in Scope, NEW from \in Nat,
               RecordEncumbrance(e, m, r, h, s, from)
        PROVE  TypeOK'
    <2>1. encumbrances' \in [Claims -> Encumbrance \cup {None}]
      BY <1>2 DEF TypeOK, RecordEncumbrance, Claims, Encumbrance
    <2>2. reservations' \in [Promises -> Reservation \cup {None}]
      <3>1. reservations \in [Promises -> Reservation \cup {None}]
        BY DEF TypeOK
      <3>2. CASE HandedOver(m, h, r, s, from)
        <4>1. reservations[<<m, r>>] \in Reservation
          BY <3>1, <3>2 DEF HandedOver, Surrendered, Promises
        <4>2. [reservations[<<m, r>>] EXCEPT !.status = "encumbered"] \in Reservation
          BY <4>1 DEF Reservation, ReservationStatus
        <4>3. reservations' = [reservations EXCEPT ![<<m, r>>] =
                                  [reservations[<<m, r>>] EXCEPT !.status = "encumbered"]]
          BY <1>2, <3>1, <3>2 DEF RecordEncumbrance, Promises
        <4>4. QED
          BY <3>1, <4>2, <4>3
      <3>3. CASE ~HandedOver(m, h, r, s, from)
        BY <1>2, <3>1, <3>3 DEF RecordEncumbrance
      <3>4. QED
        BY <3>2, <3>3
    <2>3. QED
      BY <1>2, <2>1, <2>2 DEF TypeOK, RecordEncumbrance
  <1>3. QED
    BY <1>1, <1>2

LEMMA TypeInit == Init => TypeOK
  BY DEF Init, TypeOK, Slots, Promises, Claims

LEMMA TypeStep == TypeOK /\ [Next]_vars => TypeOK'
  <1> SUFFICES ASSUME TypeOK, [Next]_vars PROVE TypeOK'
    OBVIOUS
  <1> USE RequestableIsScope
  <1>1. CASE Bootstrap
    BY <1>1, BootstrapType DEF Bootstrap
  <1>2. CASE Move
    BY <1>2, MoveType DEF Move
  <1>3. CASE Acquire
    BY <1>3, ReservationType, BoundsAssumption DEF Acquire, TypeOK
  <1>4. CASE Release
    BY <1>4, ReservationType DEF Release
  <1>5. CASE Encumber
    BY <1>5, EncumbranceType, InstantsAreNat DEF Encumber
  <1>6. CASE Discharge
    BY <1>6, EncumbranceType DEF Discharge
  <1>7. CASE Tick
    BY <1>7 DEF Tick, TypeOK, storeVars
  <1>8. CASE UNCHANGED vars
    BY <1>8 DEF vars, TypeOK
  <1>9. QED
    BY <1>1, <1>2, <1>3, <1>4, <1>5, <1>6, <1>7, <1>8 DEF Next

\* The store's records keep their shape, and no balance is ever negative.
THEOREM TypeCorrect == Spec => []TypeOK
  BY TypeInit, TypeStep, PTL DEF Spec

-----------------------------------------------------------------------------
(* What a step may never do.                                               *)

LEMMA ReservationsKept ==
    ASSUME TypeOK, UNCHANGED reservations
    PROVE  \A p \in Promises : ReservationFinal(p)
  BY DEF TypeOK, ReservationFinal, Reservation

LEMMA EncumbrancesKept ==
    ASSUME TypeOK, UNCHANGED encumbrances
    PROVE  \A c \in Claims : EncumbranceFinal(c)
  BY DEF TypeOK, EncumbranceFinal, Encumbrance

\* Giving an active reservation another status is final.
LEMMA StatusWritten ==
    ASSUME TypeOK, NEW p \in Promises, NEW st \in ReservationStatus,
           reservations[p] # None, reservations[p].status = "active",
           reservations'[p] = [reservations[p] EXCEPT !.status = st]
    PROVE  ReservationFinal(p)
  <1>1. reservations[p] \in Reservation
    BY DEF TypeOK
  <1>2. reservations'[p] \in Reservation
    BY <1>1 DEF Reservation
  <1>3. QED
    BY <1>1, <1>2, NoneAssumption DEF ReservationFinal, Reservation

LEMMA ReservationUntouched ==
    ASSUME TypeOK, NEW p \in Promises, reservations'[p] = reservations[p]
    PROVE  ReservationFinal(p)
  BY DEF TypeOK, ReservationFinal, Reservation

LEMMA EncumbranceUntouched ==
    ASSUME TypeOK, NEW c \in Claims, encumbrances'[c] = encumbrances[c]
    PROVE  EncumbranceFinal(c)
  BY DEF TypeOK, EncumbranceFinal, Encumbrance

LEMMA FinalStep == ASSUME TypeOK, Next PROVE TerminalIsFinal
  <1> USE DEF TerminalIsFinal
  <1>1. CASE Bootstrap
    BY <1>1, ReservationsKept, EncumbrancesKept
       DEF Bootstrap, BootstrapPosition, BootstrapRefusedLate
  <1>2. CASE Move
    <2>1. PICK m \in Mandates : reservations' = Consumed(m) /\ UNCHANGED encumbrances
      BY <1>2 DEF Move, ApplyTransition
    <2>2. ASSUME NEW p \in Promises PROVE ReservationFinal(p)
      <3>1. CASE p[1] = m /\ reservations[p] # None /\ reservations[p].status = "active"
        BY <2>1, <3>1, StatusWritten DEF Consumed, ReservationStatus
      <3>2. CASE ~(p[1] = m /\ reservations[p] # None /\ reservations[p].status = "active")
        BY <2>1, <3>2, ReservationUntouched DEF Consumed
      <3>3. QED
        BY <3>1, <3>2
    <2>3. QED
      BY <2>1, <2>2, EncumbrancesKept
  <1>3. CASE Acquire
    <2>1. PICK m \in Mandates, r \in Rights :
             /\ reservations[<<m, r>>] = None
             /\ \E x : reservations' = [reservations EXCEPT ![<<m, r>>] = x]
             /\ UNCHANGED encumbrances
      BY <1>3 DEF Acquire, AcquireReservation
    <2>2. ASSUME NEW p \in Promises PROVE ReservationFinal(p)
      <3>1. CASE p = <<m, r>>
        BY <2>1, <3>1 DEF ReservationFinal
      <3>2. CASE p # <<m, r>>
        BY <2>1, <3>2, ReservationUntouched DEF TypeOK
      <3>3. QED
        BY <3>1, <3>2
    <2>3. QED
      BY <2>1, <2>2, EncumbrancesKept
  <1>4. CASE Release
    <2>1. PICK m \in Mandates, r \in Rights : ReleaseReservation(m, r)
      BY <1>4 DEF Release
    <2>2. ASSUME NEW p \in Promises PROVE ReservationFinal(p)
      <3>1. CASE p = <<m, r>>
        BY <2>1, <3>1, StatusWritten DEF ReleaseReservation, TypeOK, ReservationStatus
      <3>2. CASE p # <<m, r>>
        BY <2>1, <3>2, ReservationUntouched DEF ReleaseReservation, TypeOK
      <3>3. QED
        BY <3>1, <3>2
    <2>3. QED
      BY <2>1, <2>2, EncumbrancesKept DEF ReleaseReservation
  <1>5. CASE Encumber
    <2>1. PICK e \in Arrangements, m \in Mandates, r \in Rights, h \in Holders,
               s \in Requestable, from \in Instants : RecordEncumbrance(e, m, r, h, s, from)
      BY <1>5 DEF Encumber
    <2>2. ASSUME NEW p \in Promises PROVE ReservationFinal(p)
      <3>1. CASE p = <<m, r>> /\ HandedOver(m, h, r, s, from)
        BY <2>1, <3>1, StatusWritten
           DEF RecordEncumbrance, HandedOver, Surrendered, TypeOK, ReservationStatus
      <3>2. CASE ~(p = <<m, r>> /\ HandedOver(m, h, r, s, from))
        BY <2>1, <3>2, ReservationUntouched DEF RecordEncumbrance, TypeOK
      <3>3. QED
        BY <3>1, <3>2
    <2>3. ASSUME NEW c \in Claims PROVE EncumbranceFinal(c)
      <3>1. CASE c = <<e, r>>
        BY <2>1, <3>1 DEF EncumbranceFinal, RecordEncumbrance
      <3>2. CASE c # <<e, r>>
        BY <2>1, <3>2, EncumbranceUntouched DEF RecordEncumbrance, TypeOK
      <3>3. QED
        BY <3>1, <3>2
    <2>4. QED
      BY <2>2, <2>3
  <1>6. CASE Discharge
    <2>1. PICK e \in Arrangements, r \in Rights, basis \in ReleaseBases :
             ReleaseEncumbrance(e, r, basis)
      BY <1>6 DEF Discharge
    <2>2. ASSUME NEW c \in Claims PROVE EncumbranceFinal(c)
      <3>1. CASE c = <<e, r>>
        <4>1. encumbrances[c] \in Encumbrance /\ encumbrances[c].status = "active"
          BY <2>1, <3>1 DEF ReleaseEncumbrance, TypeOK
        <4>2. encumbrances'[c] = [encumbrances[c] EXCEPT !.status = "released", !.basis = basis]
          BY <2>1, <3>1 DEF ReleaseEncumbrance, TypeOK
        <4>3. encumbrances'[c] \in Encumbrance
          BY <4>1, <4>2 DEF Encumbrance
        <4>4. QED
          BY <4>1, <4>2, <4>3, NoneAssumption DEF EncumbranceFinal, Encumbrance
      <3>2. CASE c # <<e, r>>
        BY <2>1, <3>2, EncumbranceUntouched DEF ReleaseEncumbrance, TypeOK
      <3>3. QED
        BY <3>1, <3>2
    <2>3. QED
      BY <2>1, <2>2, ReservationsKept DEF ReleaseEncumbrance
  <1>7. CASE Tick
    BY <1>7, ReservationsKept, EncumbrancesKept DEF Tick, storeVars
  <1>8. QED
    BY <1>1, <1>2, <1>3, <1>4, <1>5, <1>6, <1>7 DEF Next

\* Terminal records are final: spent capacity is never resurrected, and no
\* live commitment or constraint changes what it is about.
THEOREM NothingReopens == Spec => CommitmentsNeverReopen
  <1>1. TypeOK /\ [Next]_vars => [TerminalIsFinal]_vars
    BY FinalStep
  <1>2. QED
    BY <1>1, TypeCorrect, PTL DEF Spec, CommitmentsNeverReopen

-----------------------------------------------------------------------------
(* The log.                                                                *)

LEMMA MoveWrites ==
    ASSUME TypeOK, NEW rights \in RightLists, NEW e, NEW m, NEW h, NEW g, NEW s, NEW at,
           ApplyTransition(e, m, rights, h, g, s, at)
    PROVE  /\ Len(transitions) \in Nat
           /\ DOMAIN transitions = 1..Len(transitions)
           /\ DOMAIN transitions' = 1..(Len(transitions) + Len(rights))
           /\ \A i \in 1..Len(transitions) : transitions'[i] = transitions[i]
           /\ \A i \in 1..Len(rights) :
                 transitions'[Len(transitions) + i] = Movement(e, m, rights[i], h, g, s)
  <1> DEFINE written == [i \in DOMAIN rights |-> Movement(e, m, rights[i], h, g, s)]
  <1> DEFINE Entry == {Movement(e, m, r, h, g, s) : r \in Rights} \cup Movements \cup Issuances
  <1>1. written \in Seq(Entry) /\ Len(written) = Len(rights)
    <2>1. \A i \in DOMAIN rights : rights[i] \in Rights
      BY RightListIsSeq
    <2>2. QED
      BY <2>1, RightListIsSeq
  <1>2. transitions' = transitions \o written
    BY DEF ApplyTransition
  <1>3. transitions \in Seq(Entry)
    BY DEF TypeOK
  <1>4. \A i \in 1..Len(rights) : written[i] = Movement(e, m, rights[i], h, g, s)
    BY RightListIsSeq
  <1> HIDE DEF written, Entry
  <1>5. /\ Len(transitions) \in Nat /\ Len(rights) \in Nat
        /\ DOMAIN transitions = 1..Len(transitions)
    BY <1>3, RightListIsSeq
  <1>6. /\ transitions' \in Seq(Entry)
        /\ Len(transitions') = Len(transitions) + Len(rights)
        /\ \A i \in 1..(Len(transitions) + Len(rights)) :
              transitions'[i] = IF i <= Len(transitions) THEN transitions[i]
                                ELSE written[i - Len(transitions)]
    <2>1. /\ transitions \o written \in Seq(Entry)
          /\ Len(transitions \o written) = Len(transitions) + Len(written)
          /\ \A i \in 1..(Len(transitions) + Len(written)) :
                (transitions \o written)[i] = IF i <= Len(transitions) THEN transitions[i]
                                              ELSE written[i - Len(transitions)]
      BY <1>1, <1>3, ConcatProperties, Zenon
    <2>2. QED
      BY <1>1, <1>2, <2>1, Zenon
  <1>7. DOMAIN transitions' = 1..(Len(transitions) + Len(rights))
    BY <1>6
  <1>8. \A i \in 1..Len(transitions) : transitions'[i] = transitions[i]
    BY <1>5, <1>6
  <1>9. ASSUME NEW i \in 1..Len(rights)
        PROVE  transitions'[Len(transitions) + i] = written[i]
    <2>1. Len(transitions) + i \in 1..(Len(transitions) + Len(rights))
      BY <1>5
    <2>2. ~(Len(transitions) + i <= Len(transitions)) /\ Len(transitions) + i - Len(transitions) = i
      BY <1>5
    <2>3. QED
      BY <1>6, <2>1, <2>2
  <1>10. QED
    BY <1>4, <1>5, <1>7, <1>8, <1>9

\* The log is append-only.
LEMMA LogGrows ==
    ASSUME TypeOK, Next
    PROVE  \A i \in DOMAIN transitions :
              i \in DOMAIN transitions' /\ transitions'[i] = transitions[i]
  <1>1. CASE Bootstrap
    <2>1. PICK x : transitions' = Append(transitions, x)
      BY <1>1 DEF Bootstrap, BootstrapPosition, BootstrapRefusedLate
    <2>2. QED
      BY <2>1 DEF TypeOK
  <1>2. CASE Move
    <2>1. PICK e \in Executions, m \in Mandates, rights \in RightLists,
               h \in Holders, g \in Holders, s \in Requestable, at \in Instants :
             ApplyTransition(e, m, rights, h, g, s, at)
      BY <1>2 DEF Move
    <2>2. QED
      BY <2>1, MoveWrites, RightListIsSeq
  <1>3. CASE Acquire \/ Release
    BY <1>3 DEF Acquire, AcquireReservation, Release, ReleaseReservation
  <1>4. CASE Encumber \/ Discharge
    <2>1. UNCHANGED transitions
      BY <1>4, Zenon DEF Encumber, RecordEncumbrance, Discharge, ReleaseEncumbrance
    <2>2. QED
      BY <2>1
  <1>5. CASE Tick
    BY <1>5 DEF Tick, storeVars
  <1>6. QED
    BY <1>1, <1>2, <1>3, <1>4, <1>5 DEF Next

-----------------------------------------------------------------------------
(* A spent commitment has a record that says on what.                      *)

LEMMA BecomesConsumed ==
    ASSUME TypeOK, Next, NEW p \in Promises,
           reservations'[p] # None, reservations'[p].status = "consumed",
           ~(reservations[p] # None /\ reservations[p].status = "consumed")
    PROVE  \E i \in DOMAIN transitions' : transitions'[i].mandate = p[1]
  <1>1. CASE Move
    <2>1. PICK e \in Executions, m \in Mandates, rights \in RightLists,
               h \in Holders, g \in Holders, s \in Requestable, at \in Instants :
             ApplyTransition(e, m, rights, h, g, s, at)
      BY <1>1 DEF Move
    <2>2. p[1] = m
      BY <2>1 DEF ApplyTransition, Consumed
    <2>3. 1 \in 1..Len(rights)
      BY RightListIsSeq
    <2>4. /\ transitions'[Len(transitions) + 1] = Movement(e, m, rights[1], h, g, s)
          /\ Len(transitions) + 1 \in DOMAIN transitions'
      BY <2>1, <2>3, MoveWrites, RightListIsSeq
    <2>5. QED
      BY <2>2, <2>4 DEF Movement
  <1>2. CASE Acquire
    <2>1. PICK m \in Mandates, r \in Rights, h \in Holders, s \in Requestable,
               from \in 0..now, until \in 1..(MaxTime + 1) : AcquireReservation(m, r, h, s, from, until)
      BY <1>2 DEF Acquire
    <2>2. p = <<m, r>>
      BY <2>1 DEF AcquireReservation, TypeOK
    <2>3. reservations'[p].status = "active"
      BY <2>1, <2>2 DEF AcquireReservation, TypeOK
    <2>4. QED
      BY <2>3
  <1>3. CASE Release
    BY <1>3 DEF Release, ReleaseReservation, TypeOK, Reservation
  <1>4. CASE Encumber
    <2>1. PICK e \in Arrangements, m \in Mandates, r \in Rights, h \in Holders,
               s \in Requestable, from \in Instants : RecordEncumbrance(e, m, r, h, s, from)
      BY <1>4 DEF Encumber
    <2>2. reservations'[p] = reservations[p] \/ reservations'[p].status = "encumbered"
      <3>1. CASE p = <<m, r>> /\ HandedOver(m, h, r, s, from)
        BY <2>1, <3>1 DEF RecordEncumbrance, HandedOver, Surrendered, TypeOK, Reservation
      <3>2. CASE ~(p = <<m, r>> /\ HandedOver(m, h, r, s, from))
        BY <2>1, <3>2 DEF RecordEncumbrance, TypeOK
      <3>3. QED
        BY <3>1, <3>2
    <2>3. QED
      BY <2>2
  <1>5. CASE Bootstrap \/ Discharge \/ Tick
    BY <1>5 DEF Bootstrap, BootstrapPosition, BootstrapRefusedLate, Discharge,
                ReleaseEncumbrance, Tick, storeVars
  <1>6. QED
    BY <1>1, <1>2, <1>3, <1>4, <1>5 DEF Next

\* Only recording a constraint hands a commitment over.
LEMMA OnlyEncumberHandsOver ==
    ASSUME TypeOK, Next, NEW p \in Promises,
           reservations'[p] # None, reservations'[p].status = "encumbered",
           ~(reservations[p] # None /\ reservations[p].status = "encumbered")
    PROVE  \E e \in Arrangements, m \in Mandates, r \in Rights, h \in Holders,
              s \in Requestable, from \in Instants :
              /\ RecordEncumbrance(e, m, r, h, s, from)
              /\ p = <<m, r>> /\ HandedOver(m, h, r, s, from)
  <1>1. CASE Encumber
    <2>1. PICK e \in Arrangements, m \in Mandates, r \in Rights, h \in Holders,
               s \in Requestable, from \in Instants : RecordEncumbrance(e, m, r, h, s, from)
      BY <1>1 DEF Encumber
    <2>2. p = <<m, r>> /\ HandedOver(m, h, r, s, from)
      BY <2>1 DEF RecordEncumbrance, TypeOK
    <2>3. QED
      BY <2>1, <2>2
  <1>2. CASE Move
    <2>1. PICK m \in Mandates : reservations' = Consumed(m)
      BY <1>2 DEF Move, ApplyTransition
    <2>2. reservations'[p] = reservations[p] \/ reservations'[p].status = "consumed"
      BY <2>1 DEF Consumed, TypeOK, Reservation
    <2>3. QED
      BY <2>2
  <1>3. CASE Acquire
    <2>1. PICK m \in Mandates, r \in Rights, h \in Holders, s \in Requestable,
               from \in 0..now, until \in 1..(MaxTime + 1) : AcquireReservation(m, r, h, s, from, until)
      BY <1>3 DEF Acquire
    <2>2. reservations'[p] = reservations[p] \/ reservations'[p].status = "active"
      BY <2>1 DEF AcquireReservation, TypeOK
    <2>3. QED
      BY <2>2
  <1>4. CASE Release
    <2>1. PICK m \in Mandates, r \in Rights : ReleaseReservation(m, r)
      BY <1>4 DEF Release
    <2>2. reservations'[p] = reservations[p] \/ reservations'[p].status = "released"
      BY <2>1 DEF ReleaseReservation, TypeOK, Reservation
    <2>3. QED
      BY <2>2
  <1>5. CASE Bootstrap \/ Discharge \/ Tick
    BY <1>5 DEF Bootstrap, BootstrapPosition, BootstrapRefusedLate, Discharge,
                ReleaseEncumbrance, Tick, storeVars
  <1>6. QED
    BY <1>1, <1>2, <1>3, <1>4, <1>5 DEF Next

\* A commitment handed over leaves a constraint of its mandate over its slot.
LEMMA BecomesEncumbered ==
    ASSUME TypeOK, Next, NEW p \in Promises,
           reservations'[p] # None, reservations'[p].status = "encumbered",
           ~(reservations[p] # None /\ reservations[p].status = "encumbered")
    PROVE  \E c \in Claims : /\ c[2] = p[2]
                             /\ encumbrances'[c] # None
                             /\ encumbrances'[c].mandate = p[1]
                             /\ encumbrances'[c].holder = reservations'[p].holder
  <1>1. PICK e \in Arrangements, m \in Mandates, r \in Rights, h \in Holders,
             s \in Requestable, from \in Instants :
           /\ RecordEncumbrance(e, m, r, h, s, from)
           /\ p = <<m, r>> /\ HandedOver(m, h, r, s, from)
    BY OnlyEncumberHandsOver
  <1>2. reservations[p] \in Reservation /\ reservations[p].holder = h
    BY <1>1 DEF HandedOver, Surrendered, TypeOK
  <1>3. reservations'[p].holder = h
    BY <1>1, <1>2 DEF RecordEncumbrance, TypeOK, Reservation
  <1>4. encumbrances'[<<e, r>>] = [holder |-> h, scope |-> s, mandate |-> m, from |-> from,
                                   status |-> "active", basis |-> None]
    BY <1>1 DEF RecordEncumbrance, TypeOK, Claims
  <1>5. encumbrances'[<<e, r>>] \in Encumbrance
    BY <1>4, RequestableIsScope, InstantsAreNat DEF Encumbrance
  <1>6. <<e, r>> \in Claims
    BY DEF Claims
  <1>7. QED
    BY <1>1, <1>3, <1>4, <1>5, <1>6, NoneAssumption

\* No commitment vanishes into a terminal status with nothing to show for it.
THEOREM SpentIsAccountedFor == Spec => []SpentCommitmentsAccountedFor
  <1>1. Init => SpentCommitmentsAccountedFor
    BY DEF Init, SpentCommitmentsAccountedFor
  <1>2. TypeOK /\ SpentCommitmentsAccountedFor /\ [Next]_vars => SpentCommitmentsAccountedFor'
    <2> SUFFICES ASSUME TypeOK, SpentCommitmentsAccountedFor, Next
                 PROVE  SpentCommitmentsAccountedFor'
      BY DEF SpentCommitmentsAccountedFor, vars
    <2> SUFFICES ASSUME NEW p \in Promises, reservations'[p] # None
                 PROVE  /\ reservations'[p].status = "consumed" =>
                              \E i \in DOMAIN transitions' : transitions'[i].mandate = p[1]
                        /\ reservations'[p].status = "encumbered" =>
                              \E c \in Claims : /\ c[2] = p[2]
                                                /\ encumbrances'[c] # None
                                                /\ encumbrances'[c].mandate = p[1]
                                                /\ encumbrances'[c].holder = reservations'[p].holder
      BY DEF SpentCommitmentsAccountedFor
    <2>1. TerminalIsFinal
      BY FinalStep
    <2>2. ASSUME reservations'[p].status = "consumed"
          PROVE  \E i \in DOMAIN transitions' : transitions'[i].mandate = p[1]
      <3>1. CASE reservations[p] # None /\ reservations[p].status = "consumed"
        BY <3>1, LogGrows DEF SpentCommitmentsAccountedFor
      <3>2. CASE ~(reservations[p] # None /\ reservations[p].status = "consumed")
        BY <2>2, <3>2, BecomesConsumed
      <3>3. QED
        BY <3>1, <3>2
    <2>3. ASSUME reservations'[p].status = "encumbered"
          PROVE  \E c \in Claims : /\ c[2] = p[2]
                                   /\ encumbrances'[c] # None
                                   /\ encumbrances'[c].mandate = p[1]
                                   /\ encumbrances'[c].holder = reservations'[p].holder
      <3>1. CASE reservations[p] # None /\ reservations[p].status = "encumbered"
        <4>1. PICK c \in Claims : /\ c[2] = p[2]
                                  /\ encumbrances[c] # None
                                  /\ encumbrances[c].mandate = p[1]
                                  /\ encumbrances[c].holder = reservations[p].holder
          BY <3>1 DEF SpentCommitmentsAccountedFor
        <4>2. encumbrances[c] \in Encumbrance
          BY <4>1 DEF TypeOK
        <4>3. encumbrances'[c] # None /\ encumbrances'[c].mandate = p[1]
              /\ encumbrances'[c].holder = reservations[p].holder
          BY <2>1, <4>1, <4>2 DEF TerminalIsFinal, EncumbranceFinal, Encumbrance
        <4>4. reservations'[p] = reservations[p]
          BY <2>1, <3>1 DEF TerminalIsFinal, ReservationFinal
        <4>5. QED
          BY <4>1, <4>3, <4>4
      <3>2. CASE ~(reservations[p] # None /\ reservations[p].status = "encumbered")
        BY <2>3, <3>2, BecomesEncumbered
      <3>3. QED
        BY <3>1, <3>2
    <2>4. QED
      BY <2>2, <2>3
  <1>3. QED
    BY <1>1, <1>2, TypeCorrect, PTL DEF Spec

-----------------------------------------------------------------------------
(* One confirmed release discharges one constraint.                        *)

LEMMA EncumbrancesChange ==
    ASSUME TypeOK, Next
    PROVE  \/ UNCHANGED encumbrances
           \/ \E e \in Arrangements, r \in Rights, h \in Holders, s \in Scope, m \in Mandates,
                 from \in Nat :
                 /\ encumbrances[<<e, r>>] = None
                 /\ encumbrances' = [encumbrances EXCEPT ![<<e, r>>] =
                        [holder |-> h, scope |-> s, mandate |-> m, from |-> from,
                         status |-> "active", basis |-> None]]
           \/ \E e \in Arrangements, r \in Rights, basis \in ReleaseBases :
                 ReleaseEncumbrance(e, r, basis)
  <1>1. CASE Bootstrap \/ Acquire \/ Release \/ Tick
    BY <1>1, Zenon DEF Bootstrap, BootstrapPosition, BootstrapRefusedLate, Acquire,
                AcquireReservation, Release, ReleaseReservation, Tick, storeVars
  <1>2. CASE Move
    BY <1>2 DEF Move, ApplyTransition
  <1>3. CASE Encumber
    <2>1. PICK e \in Arrangements, m \in Mandates, r \in Rights, h \in Holders,
               s \in Requestable, from \in Instants : RecordEncumbrance(e, m, r, h, s, from)
      BY <1>3 DEF Encumber
    <2>2. s \in Scope /\ from \in Nat
      BY RequestableIsScope, InstantsAreNat
    <2>3. QED
      BY <2>1, <2>2 DEF RecordEncumbrance
  <1>4. CASE Discharge
    BY <1>4 DEF Discharge
  <1>5. QED
    BY <1>1, <1>2, <1>3, <1>4 DEF Next

\* One confirmed release ends at most one constraint, whatever is replayed, and a
\* constraint has ended exactly when it names its grounds (releaseEncumbrance and
\* assertReleaseExecutionUnclaimed).
THEOREM ReleaseSpentOnce == Spec => []ReleaseExecutionSpentOnce
  <1>1. Init => ReleaseExecutionSpentOnce
    BY DEF Init, ReleaseExecutionSpentOnce
  <1>2. TypeOK /\ ReleaseExecutionSpentOnce /\ [Next]_vars => ReleaseExecutionSpentOnce'
    <2> SUFFICES ASSUME TypeOK, ReleaseExecutionSpentOnce, Next
                 PROVE  ReleaseExecutionSpentOnce'
      BY DEF ReleaseExecutionSpentOnce, vars
    <2>1. CASE UNCHANGED encumbrances
      BY <2>1 DEF ReleaseExecutionSpentOnce
    <2>2. ASSUME NEW e \in Arrangements, NEW r \in Rights, NEW h \in Holders, NEW s \in Scope,
                 NEW m \in Mandates, NEW from \in Nat,
                 encumbrances' = [encumbrances EXCEPT ![<<e, r>>] =
                     [holder |-> h, scope |-> s, mandate |-> m, from |-> from,
                      status |-> "active", basis |-> None]]
          PROVE  ReleaseExecutionSpentOnce'
      <3>1. \A c \in Claims : IF c = <<e, r>>
                                THEN encumbrances'[c].status = "active" /\ encumbrances'[c].basis = None
                                ELSE encumbrances'[c] = encumbrances[c]
        BY <2>2 DEF TypeOK
      <3>2. QED
        BY <3>1 DEF ReleaseExecutionSpentOnce
    <2>3. ASSUME NEW e \in Arrangements, NEW r \in Rights, NEW basis \in ReleaseBases,
                 ReleaseEncumbrance(e, r, basis)
          PROVE  ReleaseExecutionSpentOnce'
      <3>1. \A c \in Claims : IF c = <<e, r>>
                                THEN encumbrances'[c].status = "released" /\ encumbrances'[c].basis = basis
                                ELSE encumbrances'[c] = encumbrances[c]
        BY <2>3 DEF ReleaseEncumbrance, TypeOK, Encumbrance
      <3>2. basis # None
        BY NoneAssumption
      <3>3. basis.kind = "governed-execution" =>
               \A d \in Claims \ {<<e, r>>} : ~Discharged(d, basis.execution)
        BY <2>3 DEF ReleaseEncumbrance, ReleaseUnclaimed
      <3>4. QED
        BY <3>1, <3>2, <3>3 DEF ReleaseExecutionSpentOnce, Discharged
    <2>4. QED
      BY <2>1, <2>2, <2>3, EncumbrancesChange
  <1>3. QED
    BY <1>1, <1>2, TypeCorrect, PTL DEF Spec

-----------------------------------------------------------------------------
(* Whatever stands over a position is in its unit.                         *)

LEMMA PositionsKeepUnit ==
    ASSUME TypeOK, Next, NEW k \in Slots, positions[k] # None
    PROVE  positions'[k] # None /\ positions'[k].unit = positions[k].unit
  <1>0. positions[k] \in Scope
    BY DEF TypeOK
  <1>1. CASE Bootstrap
    <2>1. PICK h \in Holders, r \in Rights, s \in Requestable :
             BootstrapPosition(h, r, s) \/ BootstrapRefusedLate(h, r, s)
      BY <1>1 DEF Bootstrap
    <2>2. positions'[k] = positions[k] \/ positions'[k] = Plus(positions[k], s)
      BY <2>1 DEF BootstrapPosition, BootstrapRefusedLate, Credited, TypeOK
    <2>3. s \in Scope
      BY RequestableIsScope
    <2>4. Plus(positions[k], s) \in Scope /\ Plus(positions[k], s).unit = positions[k].unit
      BY <1>0, <2>3 DEF Plus, Scope
    <2>5. QED
      BY <1>0, <2>2, <2>4, NoneAssumption
  <1>2. CASE Move
    <2>1. PICK e \in Executions, m \in Mandates, rights \in RightLists,
               h \in Holders, g \in Holders, s \in Requestable, at \in Instants :
             ApplyTransition(e, m, rights, h, g, s, at)
      BY <1>2 DEF Move
    <2>2. s \in Scope
      BY RequestableIsScope
    <2>3. \/ positions'[k] = positions[k]
          \/ positions'[k] = Plus(positions[k], s)
          \/ positions'[k] = Minus(positions[k], s) /\ Within(s, positions[k])
      <3>1. positions' = Moved(RightsOf(rights), h, g, s)
        BY <2>1 DEF ApplyTransition
      <3>2. CASE k[2] \in RightsOf(rights) /\ k[1] = h
        <4>1. k = <<h, k[2]>>
          BY <3>2 DEF Slots
        <4>2. Within(s, positions[k])
          BY <2>1, <3>2, <4>1 DEF ApplyTransition, TransitionApplicable, Movable
        <4>3. QED
          BY <2>1, <3>1, <3>2, <4>2 DEF Moved, ApplyTransition, TransitionApplicable
      <3>3. CASE k[2] \in RightsOf(rights) /\ k[1] = g /\ k[1] # h
        <4>1. k = <<g, k[2]>>
          BY <3>3 DEF Slots
        <4>2. positions'[k] = Credited(g, k[2], s)
          BY <3>1, <3>3 DEF Moved
        <4>3. Credited(g, k[2], s) = Plus(positions[k], s)
          BY <4>1 DEF Credited
        <4>4. QED
          BY <4>2, <4>3
      <3>4. CASE ~(k[2] \in RightsOf(rights) /\ k[1] \in {h, g})
        BY <3>1, <3>4 DEF Moved
      <3>5. QED
        BY <3>2, <3>3, <3>4
    <2>4. Plus(positions[k], s) \in Scope /\ Plus(positions[k], s).unit = positions[k].unit
      BY <1>0, <2>2 DEF Plus, Scope
    <2>5. Within(s, positions[k]) => /\ Minus(positions[k], s) \in Scope
                                     /\ Minus(positions[k], s).unit = positions[k].unit
      BY <1>0, <2>2 DEF Minus, Scope, Within
    <2>6. QED
      BY <1>0, <2>3, <2>4, <2>5, NoneAssumption
  <1>3. CASE Acquire \/ Release
    BY <1>3 DEF Acquire, AcquireReservation, Release, ReleaseReservation
  <1>4. CASE Encumber \/ Discharge
    <2>1. UNCHANGED positions
      BY <1>4, Zenon DEF Encumber, RecordEncumbrance, Discharge, ReleaseEncumbrance
    <2>2. QED
      BY <2>1
  <1>5. CASE Tick
    BY <1>5 DEF Tick, storeVars
  <1>6. QED
    BY <1>1, <1>2, <1>3, <1>4, <1>5 DEF Next

LEMMA CapacityHasUnit ==
    ASSUME NEW h \in Holders, NEW r \in Rights, NEW aside, NEW at, NEW s \in Scope,
           HasCapacity(h, r, aside, at, s)
    PROVE  positions[<<h, r>>] # None /\ s.unit = positions[<<h, r>>].unit
  BY DEF HasCapacity, Available, Within, Free

\* Only an acquisition makes a commitment.
LEMMA NothingElseReserves ==
    ASSUME TypeOK, [Next]_vars, ~Acquire, NEW p \in Promises, reservations[p] = None
    PROVE  reservations'[p] = None
  <1>1. CASE Move
    BY <1>1 DEF Move, ApplyTransition, Consumed
  <1>2. CASE Release
    BY <1>2 DEF Release, ReleaseReservation, TypeOK
  <1>3. CASE Encumber
    <2>1. PICK e \in Arrangements, m \in Mandates, r \in Rights, h \in Holders,
               s \in Requestable, from \in Instants : RecordEncumbrance(e, m, r, h, s, from)
      BY <1>3 DEF Encumber
    <2>2. QED
      BY <2>1 DEF RecordEncumbrance, HandedOver, Surrendered, TypeOK
  <1>4. CASE Bootstrap \/ Discharge \/ Tick \/ UNCHANGED vars
    BY <1>4 DEF Bootstrap, BootstrapPosition, BootstrapRefusedLate, Discharge,
                      ReleaseEncumbrance, Tick, storeVars, vars
  <1>5. QED
    BY <1>1, <1>2, <1>3, <1>4 DEF Next

\* Every commitment and every constraint is in the unit of the position it stands
\* over, so computeActionCapacity never compares quantities of different units.
THEOREM UnitsAlwaysAgree == Spec => []UnitsAgree
  <1>1. Init => UnitsAgree
    BY DEF Init, UnitsAgree
  <1>2. TypeOK /\ UnitsAgree /\ [Next]_vars => UnitsAgree'
    <2> SUFFICES ASSUME TypeOK, UnitsAgree, Next PROVE UnitsAgree'
      BY DEF UnitsAgree, vars
    <2>1. TypeOK'
      BY TypeStep
    <2>2. ASSUME NEW p \in Promises, reservations'[p] # None
          PROVE  LET k == <<reservations'[p].holder, p[2]>>
                 IN  positions'[k] # None /\ reservations'[p].scope.unit = positions'[k].unit
      <3>1. CASE reservations[p] # None
        <4>1. ReservationFinal(p) /\ reservations[p] \in Reservation
          BY <3>1, FinalStep DEF TerminalIsFinal, TypeOK
        <4>2. reservations'[p].holder = reservations[p].holder
              /\ reservations'[p].scope = reservations[p].scope
          BY <3>1, <4>1 DEF ReservationFinal, Reservation
        <4>3. <<reservations[p].holder, p[2]>> \in Slots
          BY <4>1 DEF Slots, Promises, Reservation
        <4>4. QED
          BY <3>1, <4>2, <4>3, PositionsKeepUnit DEF UnitsAgree
      <3>2. CASE reservations[p] = None
        <4>1. CASE Acquire
          <5>1. PICK m \in Mandates, r \in Rights, h \in Holders, s \in Requestable,
                     from \in 0..now, until \in 1..(MaxTime + 1) : AcquireReservation(m, r, h, s, from, until)
            BY <4>1 DEF Acquire
          <5>2. p = <<m, r>> /\ reservations'[p].holder = h /\ reservations'[p].scope = s
            BY <2>2, <3>2, <5>1 DEF AcquireReservation, TypeOK
          <5>3. positions[<<h, r>>] # None /\ s.unit = positions[<<h, r>>].unit
            BY <5>1, CapacityHasUnit, RequestableIsScope DEF AcquireReservation
          <5>4. positions' = positions
            BY <5>1 DEF AcquireReservation
          <5>5. QED
            BY <5>2, <5>3, <5>4
        <4>2. CASE ~Acquire
          <5>1. reservations'[p] = None
            BY <3>2, <4>2, NothingElseReserves
          <5>2. QED
            BY <2>2, <5>1
        <4>3. QED
          BY <4>1, <4>2
      <3>3. QED
        BY <3>1, <3>2
    <2>3. ASSUME NEW c \in Claims, encumbrances'[c] # None
          PROVE  LET k == <<encumbrances'[c].holder, c[2]>>
                 IN  positions'[k] # None /\ encumbrances'[c].scope.unit = positions'[k].unit
      <3>1. CASE encumbrances[c] # None
        <4>1. EncumbranceFinal(c) /\ encumbrances[c] \in Encumbrance
          BY <3>1, FinalStep DEF TerminalIsFinal, TypeOK
        <4>2. encumbrances'[c].holder = encumbrances[c].holder
              /\ encumbrances'[c].scope = encumbrances[c].scope
          BY <3>1, <4>1 DEF EncumbranceFinal, Encumbrance
        <4>3. <<encumbrances[c].holder, c[2]>> \in Slots
          BY <4>1 DEF Slots, Claims, Encumbrance
        <4>4. QED
          BY <3>1, <4>2, <4>3, PositionsKeepUnit DEF UnitsAgree
      <3>2. CASE encumbrances[c] = None
        <4>1. Encumber
          <5>1. CASE Bootstrap \/ Acquire \/ Release \/ Tick
            BY <2>3, <3>2, <5>1, Zenon DEF Bootstrap, BootstrapPosition, BootstrapRefusedLate, Acquire,
                        AcquireReservation, Release, ReleaseReservation, Tick, storeVars
          <5>2. CASE Move
            BY <2>3, <3>2, <5>2 DEF Move, ApplyTransition
          <5>3. CASE Discharge
            BY <2>3, <3>2, <5>3 DEF Discharge, ReleaseEncumbrance, TypeOK
          <5>4. QED
            BY <5>1, <5>2, <5>3 DEF Next
        <4>2. PICK e \in Arrangements, m \in Mandates, r \in Rights, h \in Holders,
                   s \in Requestable, from \in Instants : RecordEncumbrance(e, m, r, h, s, from)
          BY <4>1 DEF Encumber
        <4>3. c = <<e, r>> /\ encumbrances'[c].holder = h /\ encumbrances'[c].scope = s
          BY <2>3, <3>2, <4>2 DEF RecordEncumbrance, TypeOK
        <4>4. positions[<<h, r>>] # None /\ s.unit = positions[<<h, r>>].unit
          BY <4>2, CapacityHasUnit, RequestableIsScope DEF RecordEncumbrance
        <4>5. positions' = positions
          BY <4>2 DEF RecordEncumbrance
        <4>6. QED
          BY <4>3, <4>4, <4>5
      <3>3. QED
        BY <3>1, <3>2
    <2>4. QED
      BY <2>2, <2>3 DEF UnitsAgree
  <1>3. QED
    BY <1>1, <1>2, TypeCorrect, PTL DEF Spec

-----------------------------------------------------------------------------
(* One execution, one movement.                                            *)

\* The durable store never moves a right twice for one execution: the replay
\* check stops a second application, the UNIQUE constraint a repeated right.
THEOREM DurableMovesOnce == ASSUME Durable PROVE Spec => []ExecutionMovesOnce
  <1>1. Init => ExecutionMovesOnce
    BY DEF Init, ExecutionMovesOnce
  <1>2. TypeOK /\ ExecutionMovesOnce /\ [Next]_vars => ExecutionMovesOnce'
    <2> SUFFICES ASSUME TypeOK, ExecutionMovesOnce, Next PROVE ExecutionMovesOnce'
      BY DEF ExecutionMovesOnce, vars
    <2>1. CASE Move
      <3>1. PICK e \in Executions, m \in Mandates, rights \in RightLists,
                 h \in Holders, g \in Holders, s \in Requestable, at \in Instants :
               ApplyTransition(e, m, rights, h, g, s, at)
        BY <2>1 DEF Move
      <3> DEFINE old == 1..Len(transitions)
      <3> DEFINE new == (Len(transitions) + 1)..(Len(transitions) + Len(rights))
      <3>2. DOMAIN transitions' = old \cup new /\ DOMAIN transitions = old
        <4>1. Len(transitions) \in Nat /\ Len(rights) \in Nat
          BY <3>1, MoveWrites, RightListIsSeq
        <4>2. /\ DOMAIN transitions = 1..Len(transitions)
              /\ DOMAIN transitions' = 1..(Len(transitions) + Len(rights))
          BY <3>1, MoveWrites, RightListIsSeq
        <4>3. 1..(Len(transitions) + Len(rights)) = old \cup new
          BY <4>1
        <4>4. QED
          BY <4>2, <4>3
      <3>3. \A i \in old : transitions'[i] = transitions[i] /\ transitions[i].execution # e
        BY <3>1, <3>2, MoveWrites DEF ApplyTransition, TransitionApplicable, Applied
      <3>4. \A i \in new : /\ i - Len(transitions) \in DOMAIN rights
                           /\ transitions'[i] = Movement(e, m, rights[i - Len(transitions)], h, g, s)
        <4>1. ASSUME NEW i \in new
              PROVE  /\ i - Len(transitions) \in DOMAIN rights
                     /\ transitions'[i] = Movement(e, m, rights[i - Len(transitions)], h, g, s)
          <5> DEFINE j == i - Len(transitions)
          <5>1. Len(transitions) \in Nat /\ Len(rights) \in Nat
            BY <3>1, MoveWrites, RightListIsSeq
          <5>2. j \in 1..Len(rights) /\ Len(transitions) + j = i
            BY <5>1
          <5>3. transitions'[Len(transitions) + j] = Movement(e, m, rights[j], h, g, s)
            BY <3>1, <5>2, MoveWrites
          <5>4. QED
            BY <5>2, <5>3, RightListIsSeq
        <4>2. QED
          BY <4>1
      <3>5. \A i, j \in DOMAIN rights : rights[i] = rights[j] => i = j
        BY <3>1 DEF ApplyTransition, TransitionApplicable, Listable
      <3>6. Len(transitions) \in Nat /\ Len(rights) \in Nat
        BY <3>1, MoveWrites, RightListIsSeq
      <3> SUFFICES ASSUME NEW i \in old \cup new, NEW j \in old \cup new,
                          transitions'[i].execution # None,
                          transitions'[i].execution = transitions'[j].execution
                   PROVE  /\ transitions'[i].right = transitions'[j].right => i = j
                          /\ transitions'[i].mandate = transitions'[j].mandate
                          /\ transitions'[i].from = transitions'[j].from
                          /\ transitions'[i].to = transitions'[j].to
                          /\ transitions'[i].scope = transitions'[j].scope
        BY <3>2 DEF ExecutionMovesOnce
      <3>7. CASE i \in old /\ j \in old
        <4>1. transitions'[i] = transitions[i] /\ transitions'[j] = transitions[j]
          BY <3>3, <3>7
        <4>2. QED
          BY <3>2, <3>7, <4>1 DEF ExecutionMovesOnce
      <3>8. CASE i \in new /\ j \in new
        <4>1. i - Len(transitions) = j - Len(transitions) => i = j
          BY <3>6, <3>8
        <4>2. /\ i - Len(transitions) \in DOMAIN rights
              /\ transitions'[i] = Movement(e, m, rights[i - Len(transitions)], h, g, s)
          BY <3>4, <3>8
        <4>3. /\ j - Len(transitions) \in DOMAIN rights
              /\ transitions'[j] = Movement(e, m, rights[j - Len(transitions)], h, g, s)
          BY <3>4, <3>8
        <4> HIDE DEF old, new
        <4>4. /\ transitions'[i].right = rights[i - Len(transitions)]
              /\ transitions'[j].right = rights[j - Len(transitions)]
          BY <4>2, <4>3 DEF Movement
        <4>5. transitions'[i].right = transitions'[j].right => i = j
          BY <3>5, <4>1, <4>2, <4>3, <4>4, Zenon
        <4>6. /\ transitions'[i].mandate = m /\ transitions'[j].mandate = m
              /\ transitions'[i].from = h /\ transitions'[j].from = h
              /\ transitions'[i].to = g /\ transitions'[j].to = g
              /\ transitions'[i].scope = s /\ transitions'[j].scope = s
          BY <4>2, <4>3 DEF Movement
        <4>7. QED
          BY <4>5, <4>6
      <3>9. CASE i \in old /\ j \in new
        <4>1. transitions'[i].execution # e
          BY <3>3, <3>9
        <4>2. transitions'[j] = Movement(e, m, rights[j - Len(transitions)], h, g, s)
          BY <3>4, <3>9
        <4>3. transitions'[j].execution = e
          BY <4>2 DEF Movement
        <4>4. QED
          BY <4>1, <4>3
      <3>10. CASE i \in new /\ j \in old
        <4>1. transitions'[j].execution # e
          BY <3>3, <3>10
        <4>2. transitions'[i] = Movement(e, m, rights[i - Len(transitions)], h, g, s)
          BY <3>4, <3>10
        <4>3. transitions'[i].execution = e
          BY <4>2 DEF Movement
        <4>4. QED
          BY <4>1, <4>3
      <3>11. QED
        BY <3>7, <3>8, <3>9, <3>10
    <2>2. CASE Bootstrap
      <3>1. PICK h \in Holders, r \in Rights, s \in Requestable :
               transitions' = Append(transitions, Issuance(h, r, s))
        BY <2>2 DEF Bootstrap, BootstrapPosition, BootstrapRefusedLate
      <3>2. Issuance(h, r, s).execution = None
        BY DEF Issuance
      <3>3. /\ Len(transitions) \in Nat
            /\ DOMAIN transitions = 1..Len(transitions)
            /\ DOMAIN transitions' = 1..(Len(transitions) + 1)
            /\ \A i \in 1..Len(transitions) : transitions'[i] = transitions[i]
            /\ transitions'[Len(transitions) + 1] = Issuance(h, r, s)
        BY <3>1 DEF TypeOK
      <3>4. QED
        BY <3>2, <3>3 DEF ExecutionMovesOnce
    <2>3. CASE Acquire \/ Release
      <3>1. UNCHANGED transitions
        BY <2>3, Zenon DEF Acquire, AcquireReservation, Release, ReleaseReservation
      <3>2. QED
        BY <3>1 DEF ExecutionMovesOnce
    <2>4. CASE Encumber \/ Discharge
      <3>1. UNCHANGED transitions
        BY <2>4, Zenon DEF Encumber, RecordEncumbrance, Discharge, ReleaseEncumbrance
      <3>2. QED
        BY <3>1 DEF ExecutionMovesOnce
    <2>5. CASE Tick
      BY <2>5 DEF Tick, storeVars, ExecutionMovesOnce
    <2>6. QED
      BY <2>1, <2>2, <2>3, <2>4, <2>5 DEF Next
  <1>3. QED
    BY <1>1, <1>2, TypeCorrect, PTL DEF Spec

-----------------------------------------------------------------------------
(* Every balance is the projection of the log.                             *)

\* What each entry of the log moved, and the entries that credit or debit a slot.
LogQty == [i \in DOMAIN transitions |-> transitions[i].scope.qty]

Credits(h, r) == {i \in DOMAIN transitions : transitions[i].right = r /\ transitions[i].to = h}
Debits(h, r)  == {i \in DOMAIN transitions : transitions[i].right = r /\ transitions[i].from = h}

\* The quantities of the log are finitely many naturals, so they can be summed.
LEMMA LogSummable == TypeOK => Summable(LogQty, DOMAIN transitions)
  <1> SUFFICES ASSUME TypeOK PROVE Summable(LogQty, DOMAIN transitions)
    OBVIOUS
  <1>1. transitions \in Seq(Movements \cup Issuances)
    BY DEF TypeOK
  <1>2. DOMAIN transitions = 1..Len(transitions) /\ Len(transitions) \in Nat
    BY <1>1
  <1>3. IsFiniteSet(DOMAIN transitions)
    BY <1>2, FS_Interval
  <1>4. ASSUME NEW i \in DOMAIN transitions PROVE LogQty[i] \in Nat
    <2>1. transitions[i] \in Movements \cup Issuances
      BY <1>1, <1>2
    <2>2. transitions[i].scope \in Scope
      BY <2>1 DEF Movements, Issuances
    <2>3. QED
      BY <2>2 DEF LogQty, Scope
  <1>5. QED
    BY <1>3, <1>4 DEF Summable

\* A sum over part of the log is a sum of its quantities.
LEMMA LoggedIsSum ==
    TypeOK => \A is \in SUBSET DOMAIN transitions : LoggedQty(is) = SumFunctionOnSet(LogQty, is)
  <1> SUFFICES ASSUME TypeOK, NEW is \in SUBSET DOMAIN transitions
               PROVE  LoggedQty(is) = SumFunctionOnSet(LogQty, is)
    OBVIOUS
  <1> DEFINE part == [i \in is |-> transitions[i].scope.qty]
  <1>1. Summable(LogQty, is)
    BY LogSummable, SummablePart
  <1>2. AgreeOn(LogQty, part, is) /\ DOMAIN part = is
    BY DEF AgreeOn, LogQty
  <1> HIDE DEF part
  <1>3. SumFunctionOnSet(LogQty, is) = SumFunctionOnSet(part, is)
    BY <1>1, <1>2, SumCong
  <1>4. LoggedQty(is) = SumFunctionOnSet(part, DOMAIN part)
    BY DEF LoggedQty, SumFunction, part
  <1>5. QED
    BY <1>2, <1>3, <1>4

\* What a slot received and gave away are sums over its entries.
SlotSums(h, r) ==
    /\ Received(h, r) = SumFunctionOnSet(LogQty, Credits(h, r))
    /\ Given(h, r) = SumFunctionOnSet(LogQty, Debits(h, r))
    /\ Summable(LogQty, Credits(h, r)) /\ Summable(LogQty, Debits(h, r))

SlotsAreSummed == \A h \in Holders, r \in Rights : SlotSums(h, r)

LEMMA LedgerSums == TypeOK => SlotsAreSummed
  <1> SUFFICES ASSUME TypeOK, NEW h \in Holders, NEW r \in Rights PROVE SlotSums(h, r)
    BY DEF SlotsAreSummed
  <1>1. Credits(h, r) \in SUBSET DOMAIN transitions /\ Debits(h, r) \in SUBSET DOMAIN transitions
    BY DEF Credits, Debits
  <1>2. Received(h, r) = LoggedQty(Credits(h, r)) /\ Given(h, r) = LoggedQty(Debits(h, r))
    BY DEF Received, Given, Credits, Debits
  <1>3. QED
    BY <1>1, <1>2, LoggedIsSum, LogSummable, SummablePart DEF SlotSums

\* A set of entries that gains the entry x gains its quantity.
LEMMA SumGains ==
    ASSUME NEW S, NEW f, Summable(f, S), NEW g, NEW x, x \notin S,
           Summable(g, S \cup {x}), AgreeOn(f, g, S)
    PROVE  SumFunctionOnSet(g, S \cup {x}) = SumFunctionOnSet(f, S) + g[x]
  <1>1. SumFunctionOnSet(g, S \cup {x}) = g[x] + SumFunctionOnSet(g, S)
    BY SumAdd
  <1>2. SumFunctionOnSet(f, S) = SumFunctionOnSet(g, S)
    BY SumCong
  <1>3. SumFunctionOnSet(f, S) \in Nat /\ g[x] \in Nat
    BY SumType DEF Summable
  <1>4. QED
    BY <1>1, <1>2, <1>3

\* What an entry appended to the log does to the sums of a slot.
LEMMA SlotSumsKept ==
    ASSUME TypeOK, TypeOK', NEW h \in Holders, NEW r \in Rights,
           AgreeOn(LogQty, LogQty', DOMAIN transitions)
    PROVE  /\ \A x : (Credits(h, r)' = Credits(h, r) \cup {x} /\ x \notin DOMAIN transitions) =>
                        Received(h, r)' = Received(h, r) + transitions'[x].scope.qty
           /\ Credits(h, r)' = Credits(h, r) => Received(h, r)' = Received(h, r)
           /\ \A x : (Debits(h, r)' = Debits(h, r) \cup {x} /\ x \notin DOMAIN transitions) =>
                        Given(h, r)' = Given(h, r) + transitions'[x].scope.qty
           /\ Debits(h, r)' = Debits(h, r) => Given(h, r)' = Given(h, r)
           /\ Received(h, r) \in Nat /\ Given(h, r) \in Nat
  <1>1. (TypeOK => SlotsAreSummed)'
    BY LedgerSums, PTL
  <1>2. /\ Received(h, r)' = SumFunctionOnSet(LogQty', Credits(h, r)')
        /\ Given(h, r)' = SumFunctionOnSet(LogQty', Debits(h, r)')
        /\ Summable(LogQty', Credits(h, r)') /\ Summable(LogQty', Debits(h, r)')
    BY <1>1 DEF SlotsAreSummed, SlotSums
  <1>3. /\ Received(h, r) = SumFunctionOnSet(LogQty, Credits(h, r))
        /\ Given(h, r) = SumFunctionOnSet(LogQty, Debits(h, r))
        /\ Summable(LogQty, Credits(h, r)) /\ Summable(LogQty, Debits(h, r))
    BY LedgerSums DEF SlotsAreSummed, SlotSums
  <1>4. /\ AgreeOn(LogQty, LogQty', Credits(h, r)) /\ AgreeOn(LogQty, LogQty', Debits(h, r))
    BY DEF AgreeOn, Credits, Debits
  <1>5. ASSUME NEW x, Credits(h, r)' = Credits(h, r) \cup {x}, x \notin DOMAIN transitions
        PROVE  Received(h, r)' = Received(h, r) + transitions'[x].scope.qty
    <2>1. x \notin Credits(h, r) /\ x \in DOMAIN transitions'
      BY <1>5 DEF Credits
    <2>2. Summable(LogQty', Credits(h, r) \cup {x})
      BY <1>2, <1>5
    <2>3. SumFunctionOnSet(LogQty', Credits(h, r) \cup {x}) = SumFunctionOnSet(LogQty, Credits(h, r)) + LogQty'[x]
      BY <1>3, <1>4, <2>1, <2>2, SumGains
    <2>4. LogQty'[x] = transitions'[x].scope.qty
      BY <2>1 DEF LogQty
    <2>5. QED
      BY <1>2, <1>3, <1>5, <2>3, <2>4
  <1>6. ASSUME NEW x, Debits(h, r)' = Debits(h, r) \cup {x}, x \notin DOMAIN transitions
        PROVE  Given(h, r)' = Given(h, r) + transitions'[x].scope.qty
    <2>1. x \notin Debits(h, r) /\ x \in DOMAIN transitions'
      BY <1>6 DEF Debits
    <2>2. Summable(LogQty', Debits(h, r) \cup {x})
      BY <1>2, <1>6
    <2>3. SumFunctionOnSet(LogQty', Debits(h, r) \cup {x}) = SumFunctionOnSet(LogQty, Debits(h, r)) + LogQty'[x]
      BY <1>3, <1>4, <2>1, <2>2, SumGains
    <2>4. LogQty'[x] = transitions'[x].scope.qty
      BY <2>1 DEF LogQty
    <2>5. QED
      BY <1>2, <1>3, <1>6, <2>3, <2>4
  <1>7. Credits(h, r)' = Credits(h, r) => Received(h, r)' = Received(h, r)
    BY <1>2, <1>3, <1>4, SumCong
  <1>8. Debits(h, r)' = Debits(h, r) => Given(h, r)' = Given(h, r)
    BY <1>2, <1>3, <1>4, SumCong
  <1>9. Received(h, r) \in Nat /\ Given(h, r) \in Nat
    BY <1>3, SumType
  <1>10. QED
    BY <1>5, <1>6, <1>7, <1>8, <1>9

\* A credit adds its quantity to what is held, and a debit takes it away.
LEMMA HeldCredited ==
    ASSUME TypeOK, NEW h \in Holders, NEW r \in Rights, NEW s \in Scope,
           positions'[<<h, r>>] = Credited(h, r, s)
    PROVE  Held(h, r)' = Held(h, r) + s.qty
  <1>1. Credited(h, r, s) \in Scope
    BY CreditedIsScope
  <1>2. positions'[<<h, r>>] # None
    BY <1>1, NoneAssumption
  <1>3. CASE positions[<<h, r>>] = None
    BY <1>2, <1>3 DEF Credited, Held, Scope
  <1>4. CASE positions[<<h, r>>] # None
    <2>1. positions[<<h, r>>] \in Scope
      BY <1>4 DEF TypeOK, Slots
    <2>2. positions'[<<h, r>>] = Plus(positions[<<h, r>>], s)
      BY <1>4 DEF Credited
    <2>3. positions'[<<h, r>>].qty = positions[<<h, r>>].qty + s.qty
      BY <2>1, <2>2 DEF Plus, Scope
    <2>4. QED
      BY <1>2, <1>4, <2>3 DEF Held
  <1>5. QED
    BY <1>3, <1>4

LEMMA HeldDebited ==
    ASSUME TypeOK, NEW h \in Holders, NEW r \in Rights, NEW s \in Scope,
           positions[<<h, r>>] # None, Within(s, positions[<<h, r>>]),
           positions'[<<h, r>>] = Minus(positions[<<h, r>>], s)
    PROVE  Held(h, r)' = Held(h, r) - s.qty /\ Held(h, r) \in Nat
  <1>1. positions[<<h, r>>] \in Scope
    BY DEF TypeOK, Slots
  <1>2. Minus(positions[<<h, r>>], s) \in Scope
    BY <1>1, MinusIsScope
  <1>3. positions'[<<h, r>>].qty = positions[<<h, r>>].qty - s.qty
    BY <1>1 DEF Minus, Scope
  <1>4. positions'[<<h, r>>] # None
    BY <1>2, NoneAssumption
  <1>5. QED
    BY <1>1, <1>3, <1>4 DEF Held, Scope

\* Every balance is what the log says it is.
THEOREM DurableLedgerBalances == ASSUME Durable PROVE Spec => []LedgerBalanced
  <1>1. Init => LedgerBalanced
    <2> SUFFICES ASSUME Init, NEW h \in Holders, NEW r \in Rights
                 PROVE  Held(h, r) = Received(h, r) - Given(h, r)
      BY DEF LedgerBalanced
    <2>1. TypeOK /\ transitions = << >>
      BY TypeInit DEF Init
    <2>2. Credits(h, r) = {} /\ Debits(h, r) = {}
      BY <2>1 DEF Credits, Debits
    <2>3. Received(h, r) = SumFunctionOnSet(LogQty, {}) /\ Given(h, r) = SumFunctionOnSet(LogQty, {})
      BY <2>1, <2>2, LedgerSums DEF SlotsAreSummed, SlotSums
    <2>4. Received(h, r) = 0 /\ Given(h, r) = 0
      BY <2>3, SumEmpty
    <2>5. Held(h, r) = 0
      BY DEF Held, Init, Slots
    <2>6. QED
      BY <2>4, <2>5
  <1>2. TypeOK /\ LedgerBalanced /\ [Next]_vars => LedgerBalanced'
    <2> SUFFICES ASSUME TypeOK, LedgerBalanced, [Next]_vars, NEW h \in Holders, NEW r \in Rights
                 PROVE  Held(h, r)' = Received(h, r)' - Given(h, r)'
      BY DEF LedgerBalanced
    <2>1. TypeOK'
      BY TypeStep
    <2>2. Held(h, r) = Received(h, r) - Given(h, r)
      BY DEF LedgerBalanced
    <2>3. AgreeOn(LogQty, LogQty', DOMAIN transitions)
      <3>1. \A i \in DOMAIN transitions : i \in DOMAIN transitions' /\ transitions'[i] = transitions[i]
        BY LogGrows DEF vars
      <3>2. QED
        BY <3>1 DEF AgreeOn, LogQty
    <2>4. CASE Bootstrap
      <3>1. PICK g \in Holders, q \in Rights, s \in Requestable : BootstrapPosition(g, q, s)
        BY <2>4 DEF Bootstrap, BootstrapRefusedLate
      <3> DEFINE x == Len(transitions) + 1
      <3>2. /\ DOMAIN transitions' = DOMAIN transitions \cup {x}
            /\ x \notin DOMAIN transitions
            /\ \A i \in DOMAIN transitions : transitions'[i] = transitions[i]
            /\ transitions'[x] = Issuance(g, q, s)
        <4>1. transitions' = Append(transitions, Issuance(g, q, s))
          BY <3>1 DEF BootstrapPosition
        <4>2. transitions \in Seq(Movements \cup Issuances)
          BY DEF TypeOK
        <4>3. DOMAIN transitions = 1..Len(transitions) /\ Len(transitions) \in Nat
          BY <4>2
        <4>4. DOMAIN transitions' = 1..(Len(transitions) + 1)
          BY <4>1, <4>2
        <4>5. transitions'[x] = Issuance(g, q, s) /\ \A i \in DOMAIN transitions : transitions'[i] = transitions[i]
          BY <4>1, <4>2, <4>3
        <4>6. QED
          BY <4>3, <4>4, <4>5
      <3> HIDE DEF x
      <3>3. transitions'[x].from = None /\ transitions'[x].to = g /\ transitions'[x].right = q
            /\ transitions'[x].scope = s
        BY <3>2 DEF Issuance
      <3>4. Debits(h, r)' = Debits(h, r)
        BY <3>2, <3>3, NoneAssumption DEF Debits
      <3>5. CASE g = h /\ q = r
        <4>1. Credits(h, r)' = Credits(h, r) \cup {x}
          BY <3>2, <3>3, <3>5 DEF Credits
        <4>2. Received(h, r)' = Received(h, r) + s.qty /\ Given(h, r)' = Given(h, r)
              /\ Received(h, r) \in Nat /\ Given(h, r) \in Nat
          BY <2>1, <2>3, <3>2, <3>3, <3>4, <4>1, SlotSumsKept
        <4>3. Held(h, r)' = Held(h, r) + s.qty
          <5>1. positions'[<<h, r>>] = Credited(h, r, s)
            BY <3>1, <3>5 DEF BootstrapPosition, TypeOK, Slots
          <5>2. QED
            BY <5>1, HeldCredited, RequestableIsScope
        <4>4. s.qty \in Nat
          BY RequestableIsScope DEF Scope
        <4>5. QED
          BY <2>2, <4>2, <4>3, <4>4
      <3>6. CASE ~(g = h /\ q = r)
        <4>1. Credits(h, r)' = Credits(h, r)
          BY <3>2, <3>3, <3>6 DEF Credits
        <4>2. Received(h, r)' = Received(h, r) /\ Given(h, r)' = Given(h, r)
          BY <2>1, <2>3, <3>4, <4>1, SlotSumsKept
        <4>3. positions'[<<h, r>>] = positions[<<h, r>>]
          BY <3>1, <3>6 DEF BootstrapPosition, TypeOK, Slots
        <4>4. QED
          BY <2>2, <4>2, <4>3 DEF Held
      <3>7. QED
        BY <3>5, <3>6
    <2>5. CASE Move
      <3>1. PICK e \in Executions, m \in Mandates, rights \in RightLists,
                 f \in Holders, g \in Holders, s \in Requestable, at \in Instants :
               ApplyTransition(e, m, rights, f, g, s, at)
        BY <2>5 DEF Move
      <3> DEFINE n == Len(transitions)
      <3> DEFINE x(j) == n + j
      <3>2. /\ n \in Nat /\ Len(rights) \in Nat
            /\ DOMAIN transitions = 1..n
            /\ DOMAIN transitions' = 1..(n + Len(rights))
            /\ \A i \in 1..n : transitions'[i] = transitions[i]
            /\ \A j \in 1..Len(rights) : transitions'[x(j)] = Movement(e, m, rights[j], f, g, s)
            /\ DOMAIN rights = 1..Len(rights)
        <4>1. Len(rights) \in Nat /\ DOMAIN rights = 1..Len(rights)
          BY RightListIsSeq
        <4>2. /\ Len(transitions) \in Nat
              /\ DOMAIN transitions = 1..Len(transitions)
              /\ DOMAIN transitions' = 1..(Len(transitions) + Len(rights))
              /\ \A i \in 1..Len(transitions) : transitions'[i] = transitions[i]
              /\ \A j \in 1..Len(rights) :
                    transitions'[Len(transitions) + j] = Movement(e, m, rights[j], f, g, s)
          BY <3>1, MoveWrites
        <4>3. QED
          BY <4>1, <4>2
      <3>3. \A j \in 1..Len(rights) : /\ transitions'[x(j)].right = rights[j]
                                      /\ transitions'[x(j)].from = f
                                      /\ transitions'[x(j)].to = g
                                      /\ transitions'[x(j)].scope = s
                                      /\ x(j) \in DOMAIN transitions'
                                      /\ x(j) \notin DOMAIN transitions
        <4>1. ASSUME NEW j \in 1..Len(rights)
              PROVE  /\ x(j) \in 1..(n + Len(rights))
                     /\ x(j) \notin 1..n
          BY <3>2
        <4>2. ASSUME NEW j \in 1..Len(rights)
              PROVE  transitions'[x(j)] = Movement(e, m, rights[j], f, g, s)
          BY <3>2
        <4> HIDE DEF x, n
        <4>3. ASSUME NEW j \in 1..Len(rights)
              PROVE  /\ transitions'[x(j)].right = rights[j]
                     /\ transitions'[x(j)].from = f
                     /\ transitions'[x(j)].to = g
                     /\ transitions'[x(j)].scope = s
          <5>1. transitions'[x(j)] = Movement(e, m, rights[j], f, g, s)
            BY <4>2
          <5>2. /\ Movement(e, m, rights[j], f, g, s).right = rights[j]
                /\ Movement(e, m, rights[j], f, g, s).from = f
                /\ Movement(e, m, rights[j], f, g, s).to = g
                /\ Movement(e, m, rights[j], f, g, s).scope = s
            BY DEF Movement
          <5>3. QED
            BY <5>1, <5>2
        <4>4. QED
          BY <3>2, <4>1, <4>3
      <3>4. \A i \in DOMAIN transitions' : i \in DOMAIN transitions \/ \E j \in 1..Len(rights) : i = x(j)
        <4>1. ASSUME NEW i \in DOMAIN transitions', i \notin DOMAIN transitions
              PROVE  \E j \in 1..Len(rights) : i = x(j)
          <5>1. i - n \in 1..Len(rights) /\ i = x(i - n)
            BY <3>2, <4>1
          <5>2. QED
            BY <5>1
        <4>2. QED
          BY <4>1
      <3>5. \A i \in DOMAIN transitions : transitions'[i] = transitions[i] /\ i \in DOMAIN transitions'
        BY <3>2
      <3>6. \A i, j \in DOMAIN rights : rights[i] = rights[j] => i = j
        BY <3>1 DEF ApplyTransition, TransitionApplicable, Listable
      <3>7. f # g /\ \A q \in RightsOf(rights) : Movable(q, f, g, s, at)
        BY <3>1 DEF ApplyTransition, TransitionApplicable
      <3>8. positions' = Moved(RightsOf(rights), f, g, s)
        BY <3>1 DEF ApplyTransition
      <3>9. s \in Scope /\ s.qty \in Nat
        BY RequestableIsScope DEF Scope
      <3>10. <<h, r>> \in Slots
        BY DEF Slots
      <3> HIDE DEF n, x
      <3>11. CASE r \in RightsOf(rights) /\ h \in {f, g}
        <4>1. PICK k \in 1..Len(rights) : rights[k] = r
          BY <3>2, <3>11 DEF RightsOf
        <4>2. \A j \in 1..Len(rights) : transitions'[x(j)].right = r => j = k
          BY <3>2, <3>3, <3>6, <4>1
        <4>3. x(k) \notin DOMAIN transitions /\ transitions'[x(k)].scope.qty = s.qty
          BY <3>3
        <4>4. CASE h = f
          <5>1. Debits(h, r)' = Debits(h, r) \cup {x(k)}
            BY <3>3, <3>4, <3>5, <4>1, <4>2, <4>4 DEF Debits
          <5>2. Credits(h, r)' = Credits(h, r)
            BY <3>3, <3>4, <3>5, <3>7, <4>4 DEF Credits
          <5>3. Received(h, r)' = Received(h, r) /\ Given(h, r)' = Given(h, r) + s.qty
                /\ Received(h, r) \in Nat /\ Given(h, r) \in Nat
            BY <2>1, <2>3, <4>3, <5>1, <5>2, SlotSumsKept
          <5>4. Held(h, r)' = Held(h, r) - s.qty /\ Held(h, r) \in Nat
            <6>1. positions'[<<h, r>>] = Minus(positions[<<h, r>>], s) /\ positions[<<h, r>>] # None
                  /\ Within(s, positions[<<h, r>>])
              BY <3>7, <3>8, <3>10, <3>11, <4>4 DEF Moved, Movable
            <6>2. QED
              BY <3>9, <6>1, HeldDebited
          <5>5. QED
            BY <2>2, <3>9, <5>3, <5>4
        <4>5. CASE h = g
          <5>1. Credits(h, r)' = Credits(h, r) \cup {x(k)}
            BY <3>3, <3>4, <3>5, <4>1, <4>2, <4>5 DEF Credits
          <5>2. Debits(h, r)' = Debits(h, r)
            BY <3>3, <3>4, <3>5, <3>7, <4>5 DEF Debits
          <5>3. Received(h, r)' = Received(h, r) + s.qty /\ Given(h, r)' = Given(h, r)
                /\ Received(h, r) \in Nat /\ Given(h, r) \in Nat
            BY <2>1, <2>3, <4>3, <5>1, <5>2, SlotSumsKept
          <5>4. Held(h, r)' = Held(h, r) + s.qty
            <6>1. positions'[<<h, r>>] = Credited(h, r, s)
              BY <3>7, <3>8, <3>10, <3>11, <4>5 DEF Moved
            <6>2. QED
              BY <3>9, <6>1, HeldCredited
          <5>5. QED
            BY <2>2, <3>9, <5>3, <5>4
        <4>6. QED
          BY <3>11, <4>4, <4>5
      <3>12. CASE ~(r \in RightsOf(rights) /\ h \in {f, g})
        <4>1. \A j \in 1..Len(rights) : rights[j] \in RightsOf(rights)
          BY <3>2 DEF RightsOf
        <4>2. Credits(h, r)' = Credits(h, r)
          BY <3>3, <3>4, <3>5, <3>12, <4>1 DEF Credits
        <4>3. Debits(h, r)' = Debits(h, r)
          BY <3>3, <3>4, <3>5, <3>12, <4>1 DEF Debits
        <4>4. Received(h, r)' = Received(h, r) /\ Given(h, r)' = Given(h, r)
          BY <2>1, <2>3, <4>2, <4>3, SlotSumsKept
        <4>5. positions'[<<h, r>>] = positions[<<h, r>>]
          BY <3>8, <3>10, <3>12 DEF Moved
        <4>6. QED
          BY <2>2, <4>4, <4>5 DEF Held
      <3>13. QED
        BY <3>11, <3>12
    <2>6. CASE ~(Bootstrap \/ Move)
      <3>1. UNCHANGED <<transitions, positions>>
        BY <2>6, Zenon DEF Next, Acquire, AcquireReservation, Release, ReleaseReservation, Encumber,
                   RecordEncumbrance, Discharge, ReleaseEncumbrance, Tick, storeVars, vars
      <3>2. QED
        BY <2>2, <3>1 DEF Held, Received, Given, LoggedQty
    <2>7. QED
      BY <2>4, <2>5, <2>6
  <1>3. QED
    BY <1>1, <1>2, TypeCorrect, PTL DEF Spec

-----------------------------------------------------------------------------
(* Sums over commitments and constraints.  The store never holds more than *)
(* finitely many of either, whatever the constants are.                    *)

Recorded == {c \in Claims : encumbrances[c] # None}
Reserved == {p \in Promises : reservations[p] # None}

FinitelyMany == IsFiniteSet(Recorded) /\ IsFiniteSet(Reserved)

\* A step commits at most one more promise.
LEMMA ReservedGrows ==
    ASSUME TypeOK, [Next]_vars
    PROVE  \E x : Reserved' \subseteq Reserved \cup {x}
  <1> USE DEF Reserved
  <1>1. CASE Acquire
    <2>1. PICK m \in Mandates, r \in Rights, h \in Holders, s \in Requestable,
               from \in 0..now, until \in 1..(MaxTime + 1) : AcquireReservation(m, r, h, s, from, until)
      BY <1>1 DEF Acquire
    <2>2. Reserved' \subseteq Reserved \cup {<<m, r>>}
      BY <2>1 DEF AcquireReservation, TypeOK
    <2>3. QED
      BY <2>2
  <1>2. CASE Move
    BY <1>2 DEF Move, ApplyTransition, Consumed
  <1>3. CASE Release
    <2>1. PICK m \in Mandates, r \in Rights : ReleaseReservation(m, r)
      BY <1>3 DEF Release
    <2>2. Reserved' \subseteq Reserved
      BY <2>1 DEF ReleaseReservation, TypeOK
    <2>3. QED
      BY <2>2
  <1>4. CASE Encumber
    <2>1. PICK e \in Arrangements, m \in Mandates, r \in Rights, h \in Holders,
               s \in Requestable, from \in Instants : RecordEncumbrance(e, m, r, h, s, from)
      BY <1>4 DEF Encumber
    <2>2. Reserved' \subseteq Reserved
      BY <2>1 DEF RecordEncumbrance, HandedOver, Surrendered, TypeOK
    <2>3. QED
      BY <2>2
  <1>5. CASE ~(Acquire \/ Move \/ Release \/ Encumber)
    <2>1. UNCHANGED reservations
      BY <1>5 DEF Next, Bootstrap, BootstrapPosition, BootstrapRefusedLate, Discharge,
                ReleaseEncumbrance, Tick, storeVars, vars
    <2>2. QED
      BY <2>1
  <1>6. QED
    BY <1>1, <1>2, <1>3, <1>4, <1>5

\* A step records at most one more constraint.
LEMMA RecordedGrows ==
    ASSUME TypeOK, [Next]_vars
    PROVE  \E x : Recorded' \subseteq Recorded \cup {x}
  <1>1. CASE UNCHANGED encumbrances
    BY <1>1 DEF Recorded
  <1>2. ASSUME NEW e \in Arrangements, NEW r \in Rights, NEW x,
               encumbrances' = [encumbrances EXCEPT ![<<e, r>>] = x]
        PROVE  Recorded' \subseteq Recorded \cup {<<e, r>>}
    BY <1>2 DEF Recorded, TypeOK
  <1>3. ASSUME NEW e \in Arrangements, NEW r \in Rights, NEW basis,
               ReleaseEncumbrance(e, r, basis)
        PROVE  Recorded' \subseteq Recorded \cup {<<e, r>>}
    BY <1>3 DEF Recorded, TypeOK, ReleaseEncumbrance
  <1>4. CASE Next
    <2>1. CASE \E e \in Arrangements, r \in Rights, h \in Holders, s \in Scope, m \in Mandates,
                 from \in Nat :
                 /\ encumbrances[<<e, r>>] = None
                 /\ encumbrances' = [encumbrances EXCEPT ![<<e, r>>] =
                        [holder |-> h, scope |-> s, mandate |-> m, from |-> from,
                         status |-> "active", basis |-> None]]
      <3>1. PICK e \in Arrangements, r \in Rights :
                 \E x : encumbrances' = [encumbrances EXCEPT ![<<e, r>>] = x]
        BY <2>1
      <3>2. QED
        BY <1>2, <3>1
    <2>2. CASE \E e \in Arrangements, r \in Rights, basis \in ReleaseBases :
                 ReleaseEncumbrance(e, r, basis)
      BY <1>3, <2>2
    <2>3. QED
      BY <1>1, <1>4, <2>1, <2>2, EncumbrancesChange
  <1>5. CASE UNCHANGED vars
    BY <1>1, <1>5 DEF vars
  <1>6. QED
    BY <1>4, <1>5

LEMMA FiniteInit == Init => FinitelyMany
  <1> SUFFICES ASSUME Init PROVE FinitelyMany
    OBVIOUS
  <1>1. Recorded = {} /\ Reserved = {}
    BY DEF Init, Recorded, Reserved
  <1>2. QED
    BY <1>1, FS_EmptySet DEF FinitelyMany

LEMMA FiniteStep == TypeOK /\ FinitelyMany /\ [Next]_vars => FinitelyMany'
  <1> SUFFICES ASSUME TypeOK, FinitelyMany, [Next]_vars PROVE FinitelyMany'
    OBVIOUS
  <1>1. PICK x : Reserved' \subseteq Reserved \cup {x}
    BY ReservedGrows
  <1>2. PICK y : Recorded' \subseteq Recorded \cup {y}
    BY RecordedGrows
  <1>3. IsFiniteSet(Reserved \cup {x}) /\ IsFiniteSet(Recorded \cup {y})
    BY FS_AddElement DEF FinitelyMany
  <1>4. IsFiniteSet(Reserved') /\ IsFiniteSet(Recorded')
    BY <1>1, <1>2, <1>3, FS_Subset
  <1>5. QED
    BY <1>4 DEF FinitelyMany

\* There are never more than finitely many commitments and constraints.
THEOREM AlwaysFinitelyMany == Spec => []FinitelyMany
  BY FiniteInit, FiniteStep, TypeCorrect, PTL DEF Spec

\* What each constraint takes from its slot.
EncQty == [c \in Claims |-> encumbrances[c].scope.qty]

\* A sum over constraints is a sum of their quantities.
EncumbrancesSummed ==
    \A cs \in SUBSET Recorded : /\ Summable(EncQty, cs)
                                /\ EncumberedQty(cs) = SumFunctionOnSet(EncQty, cs)

LEMMA EncumbrancesAreSummed == TypeOK /\ FinitelyMany => EncumbrancesSummed
  <1> SUFFICES ASSUME TypeOK, FinitelyMany, NEW cs \in SUBSET Recorded
               PROVE  Summable(EncQty, cs) /\ EncumberedQty(cs) = SumFunctionOnSet(EncQty, cs)
    BY DEF EncumbrancesSummed
  <1> DEFINE part == [c \in cs |-> encumbrances[c].scope.qty]
  <1>1. Summable(EncQty, cs)
    <2>1. IsFiniteSet(cs)
      BY FS_Subset DEF FinitelyMany
    <2>2. \A c \in cs : c \in Claims /\ encumbrances[c] \in Encumbrance
      BY DEF Recorded, TypeOK
    <2>3. \A c \in cs : EncQty[c] \in Nat
      BY <2>2 DEF EncQty, Encumbrance, Scope
    <2>4. QED
      BY <2>1, <2>3 DEF Summable
  <1>2. AgreeOn(EncQty, part, cs) /\ DOMAIN part = cs
    BY DEF AgreeOn, EncQty, Recorded
  <1> HIDE DEF part
  <1>3. SumFunctionOnSet(EncQty, cs) = SumFunctionOnSet(part, cs)
    BY <1>1, <1>2, SumCong
  <1>4. EncumberedQty(cs) = SumFunctionOnSet(part, DOMAIN part)
    BY DEF EncumberedQty, SumFunction, part
  <1>5. QED
    BY <1>1, <1>2, <1>3, <1>4

\* No constraint is rewritten: what was recorded stays recorded, for as much.
LEMMA RecordsKept ==
    ASSUME TypeOK, Next
    PROVE  /\ Recorded \subseteq Recorded'
           /\ \A c \in Recorded : /\ encumbrances'[c].scope = encumbrances[c].scope
                                  /\ encumbrances'[c].holder = encumbrances[c].holder
                                  /\ encumbrances'[c].mandate = encumbrances[c].mandate
                                  /\ encumbrances'[c].from = encumbrances[c].from
           /\ AgreeOn(EncQty, EncQty', Recorded)
  <1>1. ASSUME NEW c \in Recorded
        PROVE  /\ c \in Recorded'
               /\ encumbrances'[c].scope = encumbrances[c].scope
               /\ encumbrances'[c].holder = encumbrances[c].holder
               /\ encumbrances'[c].mandate = encumbrances[c].mandate
               /\ encumbrances'[c].from = encumbrances[c].from
    <2>1. EncumbranceFinal(c) /\ encumbrances[c] \in Encumbrance /\ encumbrances[c] # None
      BY FinalStep DEF TerminalIsFinal, TypeOK, Recorded
    <2>2. QED
      BY <2>1 DEF EncumbranceFinal, Encumbrance, Recorded
  <1>2. AgreeOn(EncQty, EncQty', Recorded)
    BY <1>1 DEF AgreeOn, EncQty, Recorded
  <1>3. QED
    BY <1>1, <1>2

-----------------------------------------------------------------------------
(* A commitment is handed over whole.                                      *)

\* The constraints mandate m has recorded over a slot, ended or not.
Successors(m, r, h) ==
    {c \in Claims : /\ c[2] = r
                    /\ encumbrances[c] # None
                    /\ encumbrances[c].mandate = m
                    /\ encumbrances[c].holder = h}

\* Recording a constraint adds it to the successors of its mandate's commitment.
LEMMA SuccessorsGrow ==
    ASSUME TypeOK, FinitelyMany, TypeOK', FinitelyMany', Next, NEW m, NEW r, NEW h
    PROVE  /\ SumFunctionOnSet(EncQty, Successors(m, r, h)) \in Nat
           /\ SumFunctionOnSet(EncQty', Successors(m, r, h)') \in Nat
           /\ SumFunctionOnSet(EncQty, Successors(m, r, h)) <= SumFunctionOnSet(EncQty', Successors(m, r, h)')
  <1> DEFINE S == Successors(m, r, h)
  <1>1. S \in SUBSET Recorded
    BY DEF Successors, Recorded
  <1>2. S' \in SUBSET Recorded'
    BY DEF Successors, Recorded
  <1>3. S \in SUBSET S'
    BY RecordsKept DEF Successors, Recorded
  <1>4. Summable(EncQty, S)
    BY <1>1, EncumbrancesAreSummed DEF EncumbrancesSummed
  <1>5. Summable(EncQty', S')
    <2>1. (TypeOK /\ FinitelyMany => EncumbrancesSummed)'
      BY EncumbrancesAreSummed, PTL
    <2>2. QED
      BY <1>2, <2>1 DEF EncumbrancesSummed
  <1> HIDE DEF S
  <1>6. AgreeOn(EncQty, EncQty', S)
    BY <1>1, RecordsKept DEF AgreeOn
  <1>7. AtMost(EncQty, EncQty', S)
    BY <1>4, <1>6 DEF AgreeOn, AtMost, Summable
  <1>8. SumFunctionOnSet(EncQty, S) <= SumFunctionOnSet(EncQty', S')
    BY <1>3, <1>4, <1>5, <1>7, SumMonotone
  <1>9. SumFunctionOnSet(EncQty, S) \in Nat /\ SumFunctionOnSet(EncQty', S') \in Nat
    BY <1>4, <1>5, SumType
  <1>10. QED
    BY <1>8, <1>9 DEF S

\* HandoffIsWhole, with the sum over a set the commitment's holder names.
HandedWhole(p, h) ==
    (reservations[p] # None /\ reservations[p].status = "encumbered" /\ reservations[p].holder = h) =>
        reservations[p].scope.qty <= SumFunctionOnSet(EncQty, Successors(p[1], p[2], h))

AllHandedWhole == \A p \in Promises, h \in Holders : HandedWhole(p, h)

LEMMA HandoffSums == TypeOK /\ FinitelyMany => (HandoffIsWhole <=> AllHandedWhole)
  <1> SUFFICES ASSUME TypeOK, FinitelyMany PROVE HandoffIsWhole <=> AllHandedWhole
    OBVIOUS
  <1>1. ASSUME NEW p \in Promises
        PROVE  EncumberedQty({c \in Claims : /\ c[2] = p[2]
                                             /\ encumbrances[c] # None
                                             /\ encumbrances[c].mandate = p[1]
                                             /\ encumbrances[c].holder = reservations[p].holder})
               = SumFunctionOnSet(EncQty, Successors(p[1], p[2], reservations[p].holder))
    <2>1. Successors(p[1], p[2], reservations[p].holder) \in SUBSET Recorded
      BY DEF Successors, Recorded
    <2>2. EncumberedQty(Successors(p[1], p[2], reservations[p].holder))
               = SumFunctionOnSet(EncQty, Successors(p[1], p[2], reservations[p].holder))
      BY <2>1, EncumbrancesAreSummed DEF EncumbrancesSummed
    <2>3. QED
      BY <2>2 DEF Successors
  <1>2. \A p \in Promises : reservations[p] # None => reservations[p].holder \in Holders
    BY DEF TypeOK, Reservation
  <1>3. QED
    BY <1>1, <1>2 DEF HandoffIsWhole, AllHandedWhole, HandedWhole

\* The step that hands a commitment over leaves constraints that cover it.
LEMMA HandoverCovers ==
    ASSUME TypeOK, FinitelyMany, TypeOK', FinitelyMany',
           NEW e \in Arrangements, NEW m \in Mandates, NEW r \in Rights, NEW h \in Holders,
           NEW s \in Scope, NEW from \in Nat,
           RecordEncumbrance(e, m, r, h, s, from), HandedOver(m, h, r, s, from), Next
    PROVE  reservations[<<m, r>>].scope.qty <= SumFunctionOnSet(EncQty', Successors(m, r, h)')
  <1> DEFINE c == <<e, r>>
  <1> DEFINE S == Successors(m, r, h)
  <1> DEFINE inForce == {d \in Constraining(h, r, now) : encumbrances[d].mandate = m}
  <1>0. c \in Claims
    BY DEF Claims
  <1>1. encumbrances'[c] = [holder |-> h, scope |-> s, mandate |-> m, from |-> from,
                            status |-> "active", basis |-> None]
    BY <1>0 DEF RecordEncumbrance, TypeOK
  <1>2. encumbrances'[c] # None
    <2>1. encumbrances'[c] \in Encumbrance
      BY <1>1 DEF Encumbrance
    <2>2. QED
      BY <2>1, NoneAssumption
  <1>3. c \notin S /\ S \cup {c} \subseteq S' /\ S' \subseteq Recorded' /\ S \subseteq Recorded
    <2>1. c \notin S
      BY DEF Successors, RecordEncumbrance
    <2>2. c \in S'
      BY <1>0, <1>1, <1>2 DEF Successors
    <2>3. S \subseteq S'
      BY RecordsKept DEF Successors, Recorded
    <2>4. QED
      BY <2>1, <2>2, <2>3 DEF Successors, Recorded
  <1>4. Summable(EncQty, S) /\ inForce \in SUBSET S
    <2>1. inForce \in SUBSET S
      BY DEF Successors, Constraining, Constrains
    <2>2. QED
      BY <1>3, <2>1, EncumbrancesAreSummed DEF EncumbrancesSummed
  <1>5. Summable(EncQty', S')
    <2>1. (TypeOK /\ FinitelyMany => EncumbrancesSummed)'
      BY EncumbrancesAreSummed, PTL
    <2>2. QED
      BY <1>3, <2>1 DEF EncumbrancesSummed
  <1>6. AgreeOn(EncQty, EncQty', S)
    BY <1>3, RecordsKept DEF AgreeOn
  <1>7. CarvedOut(m, h, r, now) = SumFunctionOnSet(EncQty, inForce)
    BY <1>3, <1>4, EncumbrancesAreSummed DEF EncumbrancesSummed, CarvedOut
  <1>8. EncQty'[c] = s.qty
    BY <1>0, <1>1 DEF EncQty
  <1> HIDE DEF S, inForce, c
  <1>9. /\ Summable(EncQty', S \cup {c}) /\ S \cup {c} \in SUBSET S'
        /\ Summable(EncQty, inForce)
    BY <1>3, <1>4, <1>5, SummablePart
  <1>10. SumFunctionOnSet(EncQty', S \cup {c}) = SumFunctionOnSet(EncQty, S) + s.qty
    BY <1>3, <1>4, <1>6, <1>8, <1>9, SumGains
  <1>11. SumFunctionOnSet(EncQty', S \cup {c}) <= SumFunctionOnSet(EncQty', S')
    <2>1. AtMost(EncQty', EncQty', S \cup {c})
      BY <1>9 DEF AtMost, Summable
    <2>2. QED
      BY <1>5, <1>9, <2>1, SumMonotone
  <1>12. SumFunctionOnSet(EncQty, inForce) <= SumFunctionOnSet(EncQty, S)
    <2>1. AtMost(EncQty, EncQty, inForce)
      BY <1>9 DEF AtMost, Summable
    <2>2. QED
      BY <1>4, <1>9, <2>1, SumMonotone
  <1>13. /\ SumFunctionOnSet(EncQty, inForce) \in Nat /\ SumFunctionOnSet(EncQty, S) \in Nat
         /\ SumFunctionOnSet(EncQty', S') \in Nat /\ s.qty \in Nat
    BY <1>4, <1>5, <1>9, SumType DEF Scope
  <1>14. reservations[<<m, r>>].scope.qty <= CarvedOut(m, h, r, now) + s.qty
         /\ reservations[<<m, r>>].scope.qty \in Nat
    <2>1. /\ reservations[<<m, r>>].scope.qty <= CarvedOut(m, h, r, now) + (IF from <= now THEN s.qty ELSE 0)
          /\ reservations[<<m, r>>] \in Reservation
      BY DEF HandedOver, Surrendered, TypeOK, Promises
    <2>2. reservations[<<m, r>>].scope.qty \in Nat
      BY <2>1 DEF Reservation, Scope
    <2>3. QED
      BY <1>7, <1>13, <2>1, <2>2
  <1>15. QED
    BY <1>7, <1>10, <1>11, <1>12, <1>13, <1>14 DEF S

LEMMA AllHandedWholeStep ==
    TypeOK /\ FinitelyMany /\ AllHandedWhole /\ [Next]_vars => AllHandedWhole'
  <1>1. CASE UNCHANGED vars
    BY <1>1 DEF vars, AllHandedWhole, HandedWhole, EncQty, Successors
  <1>2. ASSUME TypeOK, FinitelyMany, AllHandedWhole, Next, NEW p \in Promises, NEW h \in Holders,
               reservations'[p] # None, reservations'[p].status = "encumbered",
               reservations'[p].holder = h
        PROVE  reservations'[p].scope.qty <= SumFunctionOnSet(EncQty', Successors(p[1], p[2], h)')
    <2>0. TypeOK' /\ FinitelyMany'
      BY <1>2, TypeStep, FiniteStep
    <2>1. CASE reservations[p] # None /\ reservations[p].status = "encumbered"
      <3>1. reservations'[p] = reservations[p] /\ reservations[p] \in Reservation
        BY <1>2, <2>1, FinalStep DEF TerminalIsFinal, ReservationFinal, TypeOK
      <3>2. reservations[p].scope.qty \in Nat
        BY <3>1 DEF Reservation, Scope
      <3>3. reservations[p].scope.qty <= SumFunctionOnSet(EncQty, Successors(p[1], p[2], h))
        BY <1>2, <2>1, <3>1 DEF AllHandedWhole, HandedWhole
      <3>4. /\ SumFunctionOnSet(EncQty, Successors(p[1], p[2], h)) \in Nat
            /\ SumFunctionOnSet(EncQty', Successors(p[1], p[2], h)') \in Nat
            /\ SumFunctionOnSet(EncQty, Successors(p[1], p[2], h))
                 <= SumFunctionOnSet(EncQty', Successors(p[1], p[2], h)')
        BY <1>2, <2>0, SuccessorsGrow
      <3>5. QED
        BY <3>1, <3>2, <3>3, <3>4
    <2>2. CASE ~(reservations[p] # None /\ reservations[p].status = "encumbered")
      <3>1. PICK e \in Arrangements, m \in Mandates, r \in Rights, g \in Holders,
                 s \in Requestable, from \in Instants :
               /\ RecordEncumbrance(e, m, r, g, s, from)
               /\ p = <<m, r>> /\ HandedOver(m, g, r, s, from)
        BY <1>2, <2>2, OnlyEncumberHandsOver
      <3>2. s \in Scope /\ from \in Nat
        BY RequestableIsScope, InstantsAreNat
      <3>3. reservations[<<m, r>>].scope.qty <= SumFunctionOnSet(EncQty', Successors(m, r, g)')
        BY <1>2, <2>0, <3>1, <3>2, HandoverCovers
      <3>4. reservations'[p].scope = reservations[p].scope /\ g = h
        <4>1. reservations[p] \in Reservation /\ reservations[p].holder = g
          BY <1>2, <3>1 DEF HandedOver, Surrendered, TypeOK
        <4>2. QED
          BY <1>2, <3>1, <4>1 DEF RecordEncumbrance, TypeOK, Reservation
      <3>5. p[1] = m /\ p[2] = r
        BY <3>1
      <3>6. QED
        BY <3>1, <3>3, <3>4, <3>5
    <2>3. QED
      BY <2>1, <2>2
  <1>3. QED
    BY <1>1, <1>2 DEF AllHandedWhole, HandedWhole

\* A reservation ends as encumbered only when the constraints of its mandate
\* cover the whole of it, in both stores.
THEOREM HandoffAlwaysWhole == Spec => []HandoffIsWhole
  <1>1. Init => AllHandedWhole
    BY DEF Init, AllHandedWhole, HandedWhole
  <1>2. Spec => []AllHandedWhole
    BY <1>1, AllHandedWholeStep, TypeCorrect, AlwaysFinitelyMany, PTL DEF Spec
  <1>3. QED
    BY <1>2, HandoffSums, TypeCorrect, AlwaysFinitelyMany, PTL

-----------------------------------------------------------------------------
(* The capacity gate.  What the mandates of a slot lay claim to, a sum over *)
(* mandates, is what its constraints and its commitments add up to, sums    *)
(* over records: the two accounts the gate and its property keep.           *)

LEMMA ImageFinite ==
    ASSUME NEW S, IsFiniteSet(S), NEW f
    PROVE  IsFiniteSet({f[x] : x \in S})
  <1> DEFINE T == {f[x] : x \in S}
  <1> DEFINE g == [x \in S |-> f[x]]
  <1>1. g \in Surjection(S, T)
    BY DEF Surjection
  <1>2. QED
    BY <1>1, FS_Surjection

\* The constraints of mandate m in force over a slot, and its claims by mandate.
InForceOf(m, h, r) == {c \in Constraining(h, r, now) : encumbrances[c].mandate = m}

ClaimOf(h, r) == [m \in Mandates |-> Claim(m, h, r)]

\* The records a slot's claims are made of are finitely many, and their sums numbers.
SlotFacts(h, r) ==
    /\ Standing(h, r, now) \in SUBSET Reserved /\ IsFiniteSet(Standing(h, r, now))
    /\ Constraining(h, r, now) \in SUBSET Recorded /\ IsFiniteSet(Constraining(h, r, now))
    /\ \A m \in Mandates : /\ EncumberedBy(m, h, r) = SumFunctionOnSet(EncQty, InForceOf(m, h, r))
                           /\ Summable(EncQty, InForceOf(m, h, r))
                           /\ EncumberedBy(m, h, r) \in Nat
                           /\ ReservedBy(m, h, r) \in Nat
                           /\ Claim(m, h, r) \in Nat
                           /\ m \notin Claimants(h, r) => Claim(m, h, r) = 0
    /\ Claimants(h, r) \in SUBSET Mandates /\ IsFiniteSet(Claimants(h, r))
    /\ Summable(ClaimOf(h, r), Claimants(h, r))
    /\ Claimed(h, r) = SumFunctionOnSet(ClaimOf(h, r), Claimants(h, r))
    /\ Encumbered(h, r, now) = SumFunctionOnSet(EncQty, Constraining(h, r, now))
    /\ Summable(EncQty, Constraining(h, r, now))

AllSlotFacts == \A h \in Holders, r \in Rights : SlotFacts(h, r)

LEMMA FactsOfSlots == TypeOK /\ FinitelyMany => AllSlotFacts
  <1> SUFFICES ASSUME TypeOK, FinitelyMany, NEW h \in Holders, NEW r \in Rights PROVE SlotFacts(h, r)
    BY DEF AllSlotFacts
  <1> DEFINE P == Standing(h, r, now)
  <1> DEFINE E == Constraining(h, r, now)
  <1>1. P \in SUBSET Reserved /\ IsFiniteSet(P)
    <2>1. P \in SUBSET Reserved
      BY DEF Standing, ReducesAvailability, Reserved
    <2>2. QED
      BY <2>1, FS_Subset DEF FinitelyMany
  <1>2. E \in SUBSET Recorded /\ IsFiniteSet(E)
    <2>1. E \in SUBSET Recorded
      BY DEF Constraining, Constrains, Recorded
    <2>2. QED
      BY <2>1, FS_Subset DEF FinitelyMany
  <1>3. ASSUME NEW m \in Mandates
        PROVE  /\ EncumberedBy(m, h, r) = SumFunctionOnSet(EncQty, InForceOf(m, h, r))
               /\ Summable(EncQty, InForceOf(m, h, r))
               /\ EncumberedBy(m, h, r) \in Nat
    <2>1. InForceOf(m, h, r) \in SUBSET Recorded
      BY <1>2 DEF InForceOf
    <2>2. EncumberedQty(InForceOf(m, h, r)) = EncumberedBy(m, h, r)
      BY DEF EncumberedBy, CarvedOut, InForceOf
    <2>3. QED
      BY <2>1, <2>2, EncumbrancesAreSummed, SumType DEF EncumbrancesSummed
  <1>4. ASSUME NEW m \in Mandates PROVE ReservedBy(m, h, r) \in Nat
    <2>1. CASE <<m, r>> \in P
      <3>1. reservations[<<m, r>>] \in Reservation
        BY <1>1, <2>1 DEF Reserved, TypeOK
      <3>2. QED
        BY <2>1, <3>1 DEF ReservedBy, Reservation, Scope
    <2>2. CASE <<m, r>> \notin P
      BY <2>2 DEF ReservedBy
    <2>3. QED
      BY <2>1, <2>2
  <1>5. ASSUME NEW m \in Mandates PROVE Claim(m, h, r) \in Nat
    BY <1>3, <1>4 DEF Claim
  <1>6. Claimants(h, r) \in SUBSET Mandates /\ IsFiniteSet(Claimants(h, r))
    <2> DEFINE A == {p[1] : p \in P}
    <2> DEFINE mandateOf == [c \in E |-> encumbrances[c].mandate]
    <2> DEFINE B == {mandateOf[c] : c \in E}
    <2>1. IsFiniteSet(A)
      <3> DEFINE first == [p \in P |-> p[1]]
      <3>1. IsFiniteSet({first[p] : p \in P})
        BY <1>1, ImageFinite
      <3>2. {first[p] : p \in P} = A
        OBVIOUS
      <3>3. QED
        BY <3>1, <3>2
    <2>2. IsFiniteSet(B)
      BY <1>2, ImageFinite
    <2>3. Claimants(h, r) = A \cup B
      BY DEF Claimants
    <2>4. A \in SUBSET Mandates
      BY <1>1 DEF Reserved, Promises
    <2>5. B \in SUBSET Mandates
      <3>1. \A c \in E : encumbrances[c] \in Encumbrance
        BY <1>2 DEF Recorded, TypeOK
      <3>2. QED
        BY <3>1 DEF Encumbrance
    <2> HIDE DEF A, B
    <2>6. QED
      BY <2>1, <2>2, <2>3, <2>4, <2>5, FS_Union
  <1>7. ASSUME NEW m \in Mandates, m \notin Claimants(h, r) PROVE Claim(m, h, r) = 0
    <2>1. InForceOf(m, h, r) = {}
      BY <1>7 DEF Claimants, InForceOf
    <2>2. <<m, r>> \notin P
      <3>1. SUFFICES ASSUME <<m, r>> \in P PROVE FALSE
        OBVIOUS
      <3>2. <<m, r>>[1] = m
        OBVIOUS
      <3>3. m \in {p[1] : p \in P}
        BY <3>1, <3>2
      <3>4. QED
        BY <1>7, <3>3 DEF Claimants
    <2>3. EncumberedBy(m, h, r) = 0
      BY <1>3, <2>1, SumEmpty
    <2>4. ReservedBy(m, h, r) = 0
      BY <2>2 DEF ReservedBy
    <2>5. QED
      BY <2>3, <2>4 DEF Claim
  <1>8. Summable(ClaimOf(h, r), Claimants(h, r))
    BY <1>5, <1>6 DEF ClaimOf, Summable
  <1>9. Claimed(h, r) = SumFunctionOnSet(ClaimOf(h, r), Claimants(h, r))
    <2> DEFINE part == [m \in Claimants(h, r) |-> Claim(m, h, r)]
    <2>1. AgreeOn(ClaimOf(h, r), part, Claimants(h, r)) /\ DOMAIN part = Claimants(h, r)
      BY <1>6 DEF AgreeOn, ClaimOf
    <2>2. Claimed(h, r) = SumFunctionOnSet(part, DOMAIN part)
      BY DEF Claimed, SumFunction
    <2> HIDE DEF part
    <2>3. QED
      BY <1>8, <2>1, <2>2, SumCong
  <1>10. /\ Encumbered(h, r, now) = SumFunctionOnSet(EncQty, E)
         /\ Summable(EncQty, E)
    BY <1>2, EncumbrancesAreSummed DEF EncumbrancesSummed, Encumbered
  <1>11. QED
    BY <1>1, <1>2, <1>3, <1>4, <1>5, <1>6, <1>7, <1>8, <1>9, <1>10 DEF SlotFacts

\* What each standing commitment still asks for beyond its mandate's constraints.
ResidualOf(h, r) == [p \in Standing(h, r, now) |-> Residual(p, now)]

LEMMA ResidualFacts ==
    ASSUME TypeOK, FinitelyMany, NEW h \in Holders, NEW r \in Rights
    PROVE  /\ Summable(ResidualOf(h, r), Standing(h, r, now))
           /\ \A p \in Standing(h, r, now) :
                 /\ p[1] \in Mandates /\ p = <<p[1], r>>
                 /\ Residual(p, now) = Monus(ReservedBy(p[1], h, r), EncumberedBy(p[1], h, r))
           /\ \A aside : Committed(h, r, aside, now) = SumFunctionOnSet(ResidualOf(h, r), Standing(h, r, now) \ aside)
  <1> DEFINE P == Standing(h, r, now)
  <1>0. SlotFacts(h, r)
    BY FactsOfSlots DEF AllSlotFacts
  <1>1. ASSUME NEW p \in P
        PROVE  /\ p[1] \in Mandates /\ p = <<p[1], r>>
               /\ Residual(p, now) = Monus(ReservedBy(p[1], h, r), EncumberedBy(p[1], h, r))
    <2>1. p \in Promises /\ p[2] = r /\ reservations[p].holder = h
      BY DEF Standing
    <2>2. p[1] \in Mandates /\ p = <<p[1], r>>
      BY <2>1 DEF Promises
    <2>3. ReservedBy(p[1], h, r) = reservations[p].scope.qty
      BY <2>2 DEF ReservedBy
    <2>4. QED
      BY <2>1, <2>2, <2>3 DEF Residual, EncumberedBy
  <1>2. Summable(ResidualOf(h, r), P)
    <2>1. ASSUME NEW p \in P PROVE Residual(p, now) \in Nat
      <3>1. ReservedBy(p[1], h, r) \in Nat /\ EncumberedBy(p[1], h, r) \in Nat
        BY <1>0, <1>1 DEF SlotFacts
      <3>2. QED
        BY <1>1, <3>1 DEF Monus
    <2>2. IsFiniteSet(P)
      BY <1>0 DEF SlotFacts
    <2>3. QED
      BY <2>1, <2>2 DEF Summable, ResidualOf
  <1>3. ASSUME NEW aside
        PROVE  Committed(h, r, aside, now) = SumFunctionOnSet(ResidualOf(h, r), P \ aside)
    <2> DEFINE part == [p \in P \ aside |-> Residual(p, now)]
    <2>1. Summable(ResidualOf(h, r), P \ aside)
      BY <1>2, SummablePart
    <2>2. AgreeOn(ResidualOf(h, r), part, P \ aside) /\ DOMAIN part = P \ aside
      BY DEF AgreeOn, ResidualOf
    <2>3. Committed(h, r, aside, now) = SumFunctionOnSet(part, DOMAIN part)
      BY DEF Committed, SumFunction
    <2> HIDE DEF part
    <2>4. QED
      BY <2>1, <2>2, <2>3, SumCong
  <1>4. QED
    BY <1>1, <1>2, <1>3

\* Claims by mandate and quantities by record are one account.
LEMMA ClaimedSplits ==
    ASSUME TypeOK, FinitelyMany, NEW h \in Holders, NEW r \in Rights
    PROVE  /\ Claimed(h, r) = Encumbered(h, r, now) + Committed(h, r, {}, now)
           /\ Encumbered(h, r, now) \in Nat /\ Committed(h, r, {}, now) \in Nat
  <1> DEFINE P == Standing(h, r, now)
  <1> DEFINE E == Constraining(h, r, now)
  <1> DEFINE C == Claimants(h, r)
  <1> DEFINE fixed == [m \in C |-> EncumberedBy(m, h, r)]
  <1> DEFINE open == [m \in C |-> Monus(ReservedBy(m, h, r), EncumberedBy(m, h, r))]
  <1>0. SlotFacts(h, r)
    BY FactsOfSlots DEF AllSlotFacts
  <1>1. C \in SUBSET Mandates /\ IsFiniteSet(C)
    BY <1>0 DEF SlotFacts
  <1>2. \A m \in C : ReservedBy(m, h, r) \in Nat /\ EncumberedBy(m, h, r) \in Nat
    BY <1>0, <1>1 DEF SlotFacts
  <1>3. Summable(fixed, C) /\ Summable(open, C)
    <2>1. \A m \in C : Monus(ReservedBy(m, h, r), EncumberedBy(m, h, r)) \in Nat
      BY <1>2 DEF Monus
    <2>2. QED
      BY <1>1, <1>2, <2>1 DEF Summable
  <1>4. PlusOn(ClaimOf(h, r), fixed, open, C)
    BY <1>1, <1>2 DEF PlusOn, ClaimOf, Claim, Monus
  <1>5. SumFunctionOnSet(fixed, C) = SumFunctionOnSet(EncQty, E)
    <2> DEFINE kind == [c \in E |-> encumbrances[c].mandate]
    <2>1. \A c \in E : kind[c] \in C
      BY DEF Claimants
    <2>2. ByKind(fixed, EncQty, E, kind, C)
      <3>1. ASSUME NEW m \in C PROVE fixed[m] = SumFunctionOnSet(EncQty, {c \in E : kind[c] = m})
        <4>1. {c \in E : kind[c] = m} = InForceOf(m, h, r)
          BY DEF InForceOf
        <4>2. EncumberedBy(m, h, r) = SumFunctionOnSet(EncQty, InForceOf(m, h, r))
          BY <1>0, <1>1 DEF SlotFacts
        <4> HIDE DEF kind
        <4>3. QED
          BY <4>1, <4>2
      <3> HIDE DEF fixed, kind
      <3>2. QED
        BY <3>1 DEF ByKind
    <2>3. Summable(EncQty, E)
      BY <1>0 DEF SlotFacts
    <2> HIDE DEF fixed, kind, E, C
    <2>4. QED
      BY <1>1, <2>1, <2>2, <2>3, SumByKind
  <1>6. SumFunctionOnSet(open, C) = Committed(h, r, {}, now)
    <2> DEFINE T == {p[1] : p \in P}
    <2> DEFINE first == [p \in P |-> p[1]]
    <2>1. \A p \in P : p[1] \in Mandates /\ p = <<p[1], r>>
          /\ Residual(p, now) = Monus(ReservedBy(p[1], h, r), EncumberedBy(p[1], h, r))
      BY ResidualFacts
    <2>2. T \in SUBSET C
      BY DEF Claimants
    <2>3. \A m \in C \ T : open[m] = 0
      <3>1. ASSUME NEW m \in C \ T PROVE open[m] = 0
        <4>1. <<m, r>> \notin P
          <5>1. <<m, r>>[1] = m
            OBVIOUS
          <5>2. QED
            BY <5>1
        <4>2. ReservedBy(m, h, r) = 0
          BY <4>1 DEF ReservedBy
        <4>3. QED
          BY <1>2, <4>2 DEF Monus
      <3>2. QED
        BY <3>1
    <2>4. first \in [P -> T] /\ Renames(first, P, T)
      BY <2>1 DEF Renames
    <2>5. \A p \in P : open[first[p]] = ResidualOf(h, r)[p]
      BY <2>1, <2>2 DEF ResidualOf
    <2>6. Summable(ResidualOf(h, r), P)
      BY ResidualFacts
    <2> HIDE DEF open, first, T, C, P
    <2>7. SumFunctionOnSet(open, T) = SumFunctionOnSet(ResidualOf(h, r), P)
      BY <2>4, <2>5, <2>6, SumRename
    <2>8. SumFunctionOnSet(open, C) = SumFunctionOnSet(open, T)
      BY <1>3, <2>2, <2>3, SumZeros
    <2>9. Committed(h, r, {}, now) = SumFunctionOnSet(ResidualOf(h, r), P)
      <3>1. P \ {} = P
        OBVIOUS
      <3>2. Committed(h, r, {}, now) = SumFunctionOnSet(ResidualOf(h, r), P \ {})
        BY ResidualFacts DEF P
      <3>3. QED
        BY <3>1, <3>2
    <2>10. QED
      BY <2>7, <2>8, <2>9
  <1>7. Claimed(h, r) = SumFunctionOnSet(ClaimOf(h, r), C) /\ Encumbered(h, r, now) = SumFunctionOnSet(EncQty, E)
    BY <1>0 DEF SlotFacts
  <1> HIDE DEF fixed, open, C, E, P
  <1>8. SumFunctionOnSet(ClaimOf(h, r), C) = SumFunctionOnSet(fixed, C) + SumFunctionOnSet(open, C)
    BY <1>3, <1>4, SumPlus
  <1>9. SumFunctionOnSet(fixed, C) \in Nat /\ SumFunctionOnSet(open, C) \in Nat
    BY <1>3, SumType
  <1>10. QED
    BY <1>5, <1>6, <1>7, <1>8, <1>9

\* Setting one standing commitment aside takes its residual out, and no more.
LEMMA SetAside ==
    ASSUME TypeOK, FinitelyMany, NEW h \in Holders, NEW r \in Rights, NEW p
    PROVE  /\ p \in Standing(h, r, now) =>
                 Committed(h, r, {}, now) = Residual(p, now) + Committed(h, r, {p}, now)
           /\ p \notin Standing(h, r, now) => Committed(h, r, {p}, now) = Committed(h, r, {}, now)
           /\ Committed(h, r, {p}, now) \in Nat
  <1> DEFINE P == Standing(h, r, now)
  <1>1. /\ Summable(ResidualOf(h, r), P)
        /\ Committed(h, r, {}, now) = SumFunctionOnSet(ResidualOf(h, r), P \ {})
        /\ Committed(h, r, {p}, now) = SumFunctionOnSet(ResidualOf(h, r), P \ {p})
    BY ResidualFacts
  <1>2. P \ {} = P /\ (p \notin P => P \ {p} = P)
    OBVIOUS
  <1>3. ASSUME p \in P
        PROVE  SumFunctionOnSet(ResidualOf(h, r), P) = Residual(p, now) + SumFunctionOnSet(ResidualOf(h, r), P \ {p})
    <2>1. ResidualOf(h, r)[p] = Residual(p, now)
      BY <1>3 DEF ResidualOf
    <2> HIDE DEF P
    <2>2. QED
      BY <1>1, <1>3, <2>1, SumRemove
  <1>4. Committed(h, r, {p}, now) \in Nat
    <2>1. Summable(ResidualOf(h, r), P \ {p})
      BY <1>1, SummablePart
    <2>2. QED
      BY <1>1, <2>1, SumType
  <1> HIDE DEF P
  <1>5. QED
    BY <1>1, <1>2, <1>3, <1>4 DEF P

\* The mandates a slot's claims can be counted over, before and after a step.
LEMMA ClaimedOver ==
    ASSUME TypeOK, FinitelyMany, TypeOK', FinitelyMany', NEW h \in Holders, NEW r \in Rights, NEW m0 \in Mandates
    PROVE  \E N \in SUBSET Mandates :
              /\ m0 \in N
              /\ Summable(ClaimOf(h, r), N) /\ Claimed(h, r) = SumFunctionOnSet(ClaimOf(h, r), N)
              /\ Summable(ClaimOf(h, r)', N) /\ Claimed(h, r)' = SumFunctionOnSet(ClaimOf(h, r)', N)
  <1> DEFINE N == Claimants(h, r) \cup Claimants(h, r)' \cup {m0}
  <1>1. SlotFacts(h, r)
    BY FactsOfSlots DEF AllSlotFacts
  <1>2. SlotFacts(h, r)'
    <2>1. (TypeOK /\ FinitelyMany => AllSlotFacts)'
      BY FactsOfSlots, PTL
    <2>2. QED
      BY <2>1 DEF AllSlotFacts
  <1>3. /\ Claimants(h, r) \in SUBSET Mandates /\ IsFiniteSet(Claimants(h, r))
        /\ \A m \in Mandates : Claim(m, h, r) \in Nat /\ (m \notin Claimants(h, r) => Claim(m, h, r) = 0)
        /\ Claimed(h, r) = SumFunctionOnSet(ClaimOf(h, r), Claimants(h, r))
    BY <1>1 DEF SlotFacts
  <1>4. /\ Claimants(h, r)' \in SUBSET Mandates /\ IsFiniteSet(Claimants(h, r)')
        /\ \A m \in Mandates : Claim(m, h, r)' \in Nat /\ (m \notin Claimants(h, r)' => Claim(m, h, r)' = 0)
        /\ Claimed(h, r)' = SumFunctionOnSet(ClaimOf(h, r)', Claimants(h, r)')
    BY <1>2 DEF SlotFacts
  <1>5. N \in SUBSET Mandates /\ IsFiniteSet(N)
    <2>1. IsFiniteSet(Claimants(h, r) \cup Claimants(h, r)')
      BY <1>3, <1>4, FS_Union
    <2>2. QED
      BY <1>3, <1>4, <2>1, FS_AddElement
  <1>6. Summable(ClaimOf(h, r), N) /\ \A m \in N \ Claimants(h, r) : ClaimOf(h, r)[m] = 0
    BY <1>3, <1>5 DEF Summable, ClaimOf
  <1>7. Summable(ClaimOf(h, r)', N) /\ \A m \in N \ Claimants(h, r)' : ClaimOf(h, r)'[m] = 0
    BY <1>4, <1>5 DEF Summable, ClaimOf
  <1>8. Claimants(h, r) \in SUBSET N /\ Claimants(h, r)' \in SUBSET N /\ m0 \in N
    OBVIOUS
  <1> HIDE DEF N
  <1>9. SumFunctionOnSet(ClaimOf(h, r), N) = SumFunctionOnSet(ClaimOf(h, r), Claimants(h, r))
    BY <1>6, <1>8, SumZeros
  <1>10. SumFunctionOnSet(ClaimOf(h, r)', N) = SumFunctionOnSet(ClaimOf(h, r)', Claimants(h, r)')
    BY <1>7, <1>8, SumZeros
  <1>11. QED
    BY <1>3, <1>4, <1>5, <1>6, <1>7, <1>8, <1>9, <1>10

\* A step that changes the claim of one mandate changes the total by as much.
LEMMA OneClaimMoves ==
    ASSUME TypeOK, FinitelyMany, TypeOK', FinitelyMany', NEW h \in Holders, NEW r \in Rights, NEW m0 \in Mandates,
           \A m \in Mandates \ {m0} : Claim(m, h, r)' = Claim(m, h, r)
    PROVE  /\ Claimed(h, r)' + Claim(m0, h, r) = Claimed(h, r) + Claim(m0, h, r)'
           /\ Claimed(h, r) \in Nat /\ Claimed(h, r)' \in Nat
           /\ Claim(m0, h, r) \in Nat /\ Claim(m0, h, r)' \in Nat
  <1>1. PICK N \in SUBSET Mandates :
              /\ m0 \in N
              /\ Summable(ClaimOf(h, r), N) /\ Claimed(h, r) = SumFunctionOnSet(ClaimOf(h, r), N)
              /\ Summable(ClaimOf(h, r)', N) /\ Claimed(h, r)' = SumFunctionOnSet(ClaimOf(h, r)', N)
    BY ClaimedOver
  <1>2. \A m \in Mandates : ClaimOf(h, r)[m] = Claim(m, h, r) /\ ClaimOf(h, r)'[m] = Claim(m, h, r)'
    BY DEF ClaimOf
  <1>3. AgreeOn(ClaimOf(h, r), ClaimOf(h, r)', N \ {m0})
    BY <1>2 DEF AgreeOn
  <1>4. SumFunctionOnSet(ClaimOf(h, r)', N) + ClaimOf(h, r)[m0] = SumFunctionOnSet(ClaimOf(h, r), N) + ClaimOf(h, r)'[m0]
    BY <1>1, <1>3, SumChange
  <1>5. /\ SumFunctionOnSet(ClaimOf(h, r), N) \in Nat /\ SumFunctionOnSet(ClaimOf(h, r)', N) \in Nat
        /\ ClaimOf(h, r)[m0] \in Nat /\ ClaimOf(h, r)'[m0] \in Nat
    BY <1>1, SumType DEF Summable
  <1>6. QED
    BY <1>1, <1>2, <1>4, <1>5

\* A step that raises no mandate's claim does not raise the total.
LEMMA NoClaimRises ==
    ASSUME TypeOK, FinitelyMany, TypeOK', FinitelyMany', NEW h \in Holders, NEW r \in Rights,
           \A m \in Mandates : Claim(m, h, r)' <= Claim(m, h, r)
    PROVE  Claimed(h, r)' <= Claimed(h, r) /\ Claimed(h, r) \in Nat /\ Claimed(h, r)' \in Nat
  <1>1. CASE Mandates = {}
    <2>1. SlotFacts(h, r)
      BY FactsOfSlots DEF AllSlotFacts
    <2>2. SlotFacts(h, r)'
      <3>1. (TypeOK /\ FinitelyMany => AllSlotFacts)'
        BY FactsOfSlots, PTL
      <3>2. QED
        BY <3>1 DEF AllSlotFacts
    <2>3. /\ Claimants(h, r) = {} /\ Claimed(h, r) = SumFunctionOnSet(ClaimOf(h, r), Claimants(h, r))
          /\ Claimants(h, r)' = {} /\ Claimed(h, r)' = SumFunctionOnSet(ClaimOf(h, r)', Claimants(h, r)')
      BY <1>1, <2>1, <2>2 DEF SlotFacts
    <2>4. Claimed(h, r) = 0 /\ Claimed(h, r)' = 0
      BY <2>3, SumEmpty
    <2>5. QED
      BY <2>4
  <1>2. ASSUME NEW m0 \in Mandates
        PROVE  Claimed(h, r)' <= Claimed(h, r) /\ Claimed(h, r) \in Nat /\ Claimed(h, r)' \in Nat
    <2>1. PICK N \in SUBSET Mandates :
                /\ m0 \in N
                /\ Summable(ClaimOf(h, r), N) /\ Claimed(h, r) = SumFunctionOnSet(ClaimOf(h, r), N)
                /\ Summable(ClaimOf(h, r)', N) /\ Claimed(h, r)' = SumFunctionOnSet(ClaimOf(h, r)', N)
      BY ClaimedOver
    <2>2. AtMost(ClaimOf(h, r)', ClaimOf(h, r), N)
      BY DEF AtMost, ClaimOf
    <2>3. N \in SUBSET N
      OBVIOUS
    <2>4. SumFunctionOnSet(ClaimOf(h, r)', N) <= SumFunctionOnSet(ClaimOf(h, r), N)
      BY <2>1, <2>2, <2>3, SumMonotone
    <2>5. QED
      BY <2>1, <2>4, SumType
  <1>3. QED
    BY <1>1, <1>2

\* What mandates have encumbered over a slot moves with the constraints in force.
LEMMA EncumberedMoves ==
    ASSUME TypeOK, FinitelyMany, TypeOK', FinitelyMany', Next, NEW h \in Holders, NEW r \in Rights, NEW m \in Mandates
    PROVE  /\ InForceOf(m, h, r)' \subseteq InForceOf(m, h, r) => EncumberedBy(m, h, r)' <= EncumberedBy(m, h, r)
           /\ InForceOf(m, h, r)' = InForceOf(m, h, r) => EncumberedBy(m, h, r)' = EncumberedBy(m, h, r)
           /\ \A c \in Claims :
                 (c \notin InForceOf(m, h, r) /\ InForceOf(m, h, r)' = InForceOf(m, h, r) \cup {c}) =>
                     EncumberedBy(m, h, r)' = EncumberedBy(m, h, r) + encumbrances'[c].scope.qty
           /\ EncumberedBy(m, h, r) \in Nat /\ EncumberedBy(m, h, r)' \in Nat
  <1> DEFINE S == InForceOf(m, h, r)
  <1>1. SlotFacts(h, r)
    BY FactsOfSlots DEF AllSlotFacts
  <1>2. SlotFacts(h, r)'
    <2>1. (TypeOK /\ FinitelyMany => AllSlotFacts)'
      BY FactsOfSlots, PTL
    <2>2. QED
      BY <2>1 DEF AllSlotFacts
  <1>3. /\ EncumberedBy(m, h, r) = SumFunctionOnSet(EncQty, S) /\ Summable(EncQty, S)
        /\ EncumberedBy(m, h, r) \in Nat
        /\ S \in SUBSET Recorded
    <2>1. Constraining(h, r, now) \in SUBSET Recorded
      BY <1>1 DEF SlotFacts
    <2>2. S \in SUBSET Recorded
      BY <2>1 DEF InForceOf
    <2>3. QED
      BY <1>1, <2>2 DEF SlotFacts
  <1>4. /\ EncumberedBy(m, h, r)' = SumFunctionOnSet(EncQty', S') /\ Summable(EncQty', S')
        /\ EncumberedBy(m, h, r)' \in Nat
    BY <1>2 DEF SlotFacts
  <1>5. AgreeOn(EncQty, EncQty', S)
    BY <1>3, RecordsKept DEF AgreeOn
  <1>6. ASSUME S' \subseteq S PROVE EncumberedBy(m, h, r)' <= EncumberedBy(m, h, r)
    <2>1. AtMost(EncQty', EncQty, S')
      <3>1. \A c \in S' : EncQty'[c] = EncQty[c] /\ EncQty'[c] \in Nat
        BY <1>4, <1>5, <1>6 DEF AgreeOn, Summable
      <3>2. QED
        BY <3>1 DEF AtMost
    <2>2. S' \in SUBSET S
      BY <1>6
    <2> HIDE DEF S
    <2>3. QED
      BY <1>3, <1>4, <2>1, <2>2, SumMonotone
  <1>7. ASSUME S' = S PROVE EncumberedBy(m, h, r)' = EncumberedBy(m, h, r)
    BY <1>3, <1>4, <1>5, <1>7, SumCong
  <1>8. ASSUME NEW c \in Claims, c \notin S, S' = S \cup {c}
        PROVE  EncumberedBy(m, h, r)' = EncumberedBy(m, h, r) + encumbrances'[c].scope.qty
    <2>1. Summable(EncQty', S \cup {c})
      BY <1>4, <1>8
    <2>2. SumFunctionOnSet(EncQty', S \cup {c}) = SumFunctionOnSet(EncQty, S) + EncQty'[c]
      BY <1>3, <1>5, <1>8, <2>1, SumGains
    <2>3. EncQty'[c] = encumbrances'[c].scope.qty
      BY DEF EncQty
    <2>4. QED
      BY <1>3, <1>4, <1>8, <2>2, <2>3
  <1>9. QED
    BY <1>3, <1>4, <1>6, <1>7, <1>8

\* A step that adds no commitment and no constraint to a slot raises no claim on it.
LEMMA NothingAdded ==
    ASSUME TypeOK, FinitelyMany, TypeOK', FinitelyMany', Next, NEW h \in Holders, NEW r \in Rights,
           Standing(h, r, now)' \subseteq Standing(h, r, now),
           Constraining(h, r, now)' \subseteq Constraining(h, r, now)
    PROVE  Claimed(h, r)' <= Claimed(h, r) /\ Claimed(h, r) \in Nat /\ Claimed(h, r)' \in Nat
  <1>1. ASSUME NEW m \in Mandates PROVE Claim(m, h, r)' <= Claim(m, h, r)
    <2>1. InForceOf(m, h, r)' \subseteq InForceOf(m, h, r)
      <3>1. Constraining(h, r, now) \subseteq Recorded
        BY DEF Constraining, Constrains, Recorded
      <3>2. \A c \in Recorded : encumbrances'[c].mandate = encumbrances[c].mandate
        BY RecordsKept
      <3>3. QED
        BY <3>1, <3>2 DEF InForceOf
    <2>2. /\ EncumberedBy(m, h, r)' <= EncumberedBy(m, h, r)
          /\ EncumberedBy(m, h, r) \in Nat /\ EncumberedBy(m, h, r)' \in Nat
      BY <2>1, EncumberedMoves
    <2>3. ReservedBy(m, h, r)' <= ReservedBy(m, h, r) /\ ReservedBy(m, h, r) \in Nat /\ ReservedBy(m, h, r)' \in Nat
      <3>1. ReservedBy(m, h, r) \in Nat
        <4>1. SlotFacts(h, r)
          BY FactsOfSlots DEF AllSlotFacts
        <4>2. QED
          BY <4>1 DEF SlotFacts
      <3>2. CASE <<m, r>> \notin Standing(h, r, now)'
        BY <3>1, <3>2 DEF ReservedBy
      <3>3. CASE <<m, r>> \in Standing(h, r, now)'
        <4>1. <<m, r>> \in Standing(h, r, now)
          BY <3>3
        <4>2. ReservationFinal(<<m, r>>) /\ reservations[<<m, r>>] # None /\ reservations[<<m, r>>] \in Reservation
          BY <4>1, FinalStep DEF TerminalIsFinal, Standing, ReducesAvailability, TypeOK
        <4>3. reservations'[<<m, r>>].scope = reservations[<<m, r>>].scope
          BY <4>2 DEF ReservationFinal, Reservation
        <4>4. QED
          BY <3>1, <3>3, <4>1, <4>3 DEF ReservedBy
      <3>4. QED
        BY <3>2, <3>3
    <2>4. QED
      BY <2>2, <2>3 DEF Claim
  <1>2. QED
    BY <1>1, NoClaimRises

\* A commitment is never dated after the instant it is made.
BegunByNow == \A p \in Promises : reservations[p] # None => reservations[p].from <= now

\* Only the clock moves the clock.
LEMMA ClockTicks == ASSUME Next PROVE Tick \/ now' = now
  <1>1. CASE Bootstrap \/ Move
    BY <1>1 DEF Bootstrap, BootstrapPosition, BootstrapRefusedLate, Move, ApplyTransition
  <1>2. CASE Acquire \/ Release
    BY <1>2 DEF Acquire, AcquireReservation, Release, ReleaseReservation
  <1>3. CASE Encumber \/ Discharge
    BY <1>3 DEF Encumber, RecordEncumbrance, Discharge, ReleaseEncumbrance
  <1>4. QED
    BY <1>1, <1>2, <1>3 DEF Next

LEMMA BegunStep == TypeOK /\ BegunByNow /\ [Next]_vars => BegunByNow'
  <1> SUFFICES ASSUME TypeOK, BegunByNow, [Next]_vars, NEW p \in Promises, reservations'[p] # None
               PROVE  reservations'[p].from <= now'
    BY DEF BegunByNow
  <1>1. now \in Nat /\ now' \in Nat /\ now <= now'
    <2>1. now' = now \/ now' = now + 1
      BY ClockTicks DEF Tick, vars
    <2>2. QED
      BY <2>1 DEF TypeOK
  <1>2. CASE reservations[p] # None
    <2>1. reservations[p] \in Reservation /\ reservations[p].from <= now
      BY <1>2 DEF TypeOK, BegunByNow
    <2>2. reservations'[p].from = reservations[p].from
      <3>1. CASE Next
        <4>1. ReservationFinal(p)
          BY <3>1, FinalStep DEF TerminalIsFinal
        <4>2. QED
          BY <1>2, <2>1, <4>1 DEF ReservationFinal, Reservation
      <3>2. CASE UNCHANGED vars
        BY <3>2 DEF vars
      <3>3. QED
        BY <3>1, <3>2
    <2>3. reservations[p].from \in Nat
      BY <2>1 DEF Reservation
    <2>4. QED
      BY <1>1, <2>1, <2>2, <2>3
  <1>3. CASE reservations[p] = None
    <2>1. CASE Acquire
      <3>1. PICK m \in Mandates, r \in Rights, h \in Holders, s \in Requestable,
                 from \in 0..now, until \in 1..(MaxTime + 1) : AcquireReservation(m, r, h, s, from, until)
        BY <2>1 DEF Acquire
      <3>2. p = <<m, r>>
        BY <1>3, <3>1 DEF AcquireReservation, TypeOK
      <3>3. reservations'[p].from = from
        BY <3>1, <3>2 DEF AcquireReservation, TypeOK
      <3>4. from <= now
        BY <1>1
      <3>5. QED
        BY <1>1, <3>3, <3>4
    <2>2. CASE ~Acquire
      <3>1. reservations'[p] = None
        BY <1>3, <2>2, NothingElseReserves
      <3>2. QED
        BY <3>1
    <2>3. QED
      BY <2>1, <2>2
  <1>4. QED
    BY <1>2, <1>3

\* No reservation begins later than the clock: whoever acquires one names an
\* instant that has come.
THEOREM CommitmentsBegun == Spec => []BegunByNow
  <1>1. Init => BegunByNow
    BY DEF Init, BegunByNow
  <1>2. QED
    BY <1>1, BegunStep, TypeCorrect, PTL DEF Spec

-----------------------------------------------------------------------------
(* The gate never overcommits a slot.                                      *)

\* What the gate admits fits beside everything it counted.
LEMMA CapacityFits ==
    ASSUME TypeOK, FinitelyMany, NEW h \in Holders, NEW r \in Rights, NEW aside, NEW s \in Scope,
           Committed(h, r, aside, now) \in Nat, HasCapacity(h, r, aside, now, s)
    PROVE  /\ Encumbered(h, r, now) + Committed(h, r, aside, now) + s.qty <= Held(h, r)
           /\ Held(h, r) \in Nat
  <1>1. positions[<<h, r>>] # None /\ positions[<<h, r>>] \in Scope
    BY DEF HasCapacity, Available, TypeOK, Slots
  <1>2. s.qty <= positions[<<h, r>>].qty - Encumbered(h, r, now) - Committed(h, r, aside, now)
    BY DEF HasCapacity, Within, Free
  <1>3. Encumbered(h, r, now) \in Nat
    BY ClaimedSplits
  <1>4. Held(h, r) = positions[<<h, r>>].qty /\ positions[<<h, r>>].qty \in Nat /\ s.qty \in Nat
    BY <1>1 DEF Held, Scope
  <1>5. QED
    BY <1>2, <1>3, <1>4

LEMMA ReservedKept ==
    ASSUME NEW m \in Mandates, NEW h \in Holders, NEW r \in Rights,
           reservations'[<<m, r>>] = reservations[<<m, r>>], now' = now
    PROVE  ReservedBy(m, h, r)' = ReservedBy(m, h, r)
  BY DEF ReservedBy, Standing, ReducesAvailability

\* A new commitment adds no more to a slot's claims than its own quantity.
LEMMA AcquireStaysSolvent ==
    ASSUME TypeOK, FinitelyMany, TypeOK', FinitelyMany', Next,
           NEW m0 \in Mandates, NEW h \in Holders, NEW r \in Rights, NEW s \in Scope,
           NEW from \in Nat, NEW until \in Nat,
           AcquireReservation(m0, r, h, s, from, until)
    PROVE  Solvent(h, r)'
  <1> DEFINE p == <<m0, r>>
  <1>0. p \in Promises
    BY DEF Promises
  <1>1. /\ UNCHANGED <<positions, encumbrances, now>>
        /\ reservations[p] = None
        /\ reservations'[p] = [holder |-> h, scope |-> s, from |-> from, until |-> until, status |-> "active"]
        /\ HasCapacity(h, r, {}, now, s)
    BY <1>0 DEF AcquireReservation, TypeOK
  <1>2. \A m \in Mandates : EncumberedBy(m, h, r)' = EncumberedBy(m, h, r) /\ EncumberedBy(m, h, r) \in Nat
    <2>1. \A m \in Mandates : InForceOf(m, h, r)' = InForceOf(m, h, r)
      BY <1>1 DEF InForceOf, Constraining, Constrains
    <2>2. QED
      BY <2>1, EncumberedMoves
  <1>3. \A m \in Mandates \ {m0} : Claim(m, h, r)' = Claim(m, h, r)
    <2>1. ASSUME NEW m \in Mandates \ {m0} PROVE Claim(m, h, r)' = Claim(m, h, r)
      <3>1. reservations'[<<m, r>>] = reservations[<<m, r>>]
        BY DEF AcquireReservation, TypeOK, Promises
      <3>2. ReservedBy(m, h, r)' = ReservedBy(m, h, r)
        BY <1>1, <3>1, ReservedKept
      <3>3. QED
        BY <1>2, <3>2 DEF Claim
    <2>2. QED
      BY <2>1
  <1>4. ReservedBy(m0, h, r) = 0
    BY <1>1 DEF ReservedBy, Standing, ReducesAvailability
  <1>5. s.qty \in Nat /\ ReservedBy(m0, h, r)' \in {0, s.qty}
    BY <1>1 DEF ReservedBy, Scope
  <1>6. Claim(m0, h, r)' <= Claim(m0, h, r) + s.qty
    BY <1>2, <1>4, <1>5 DEF Claim
  <1>7. /\ Claimed(h, r)' + Claim(m0, h, r) = Claimed(h, r) + Claim(m0, h, r)'
        /\ Claimed(h, r) \in Nat /\ Claimed(h, r)' \in Nat
        /\ Claim(m0, h, r) \in Nat /\ Claim(m0, h, r)' \in Nat
    BY <1>3, OneClaimMoves
  <1>8. /\ Claimed(h, r) = Encumbered(h, r, now) + Committed(h, r, {}, now)
        /\ Committed(h, r, {}, now) \in Nat /\ Encumbered(h, r, now) \in Nat
    BY ClaimedSplits
  <1>9. Encumbered(h, r, now) + Committed(h, r, {}, now) + s.qty <= Held(h, r) /\ Held(h, r) \in Nat
    BY <1>1, <1>8, CapacityFits
  <1>10. Held(h, r)' = Held(h, r)
    BY <1>1 DEF Held
  <1>11. Claimed(h, r)' <= Held(h, r)
    BY <1>5, <1>6, <1>7, <1>8, <1>9
  <1>12. QED
    BY <1>10, <1>11 DEF Solvent

\* What recording a constraint does to the constraints in force over its slot.
LEMMA EncumberAdds ==
    ASSUME TypeOK, NEW e \in Arrangements, NEW m \in Mandates, NEW r \in Rights, NEW h \in Holders,
           NEW s \in Scope, NEW from \in Nat, RecordEncumbrance(e, m, r, h, s, from)
    PROVE  /\ <<e, r>> \in Claims
           /\ <<e, r>> \notin Constraining(h, r, now)
           /\ Constraining(h, r, now)' =
                 IF from <= now THEN Constraining(h, r, now) \cup {<<e, r>>} ELSE Constraining(h, r, now)
           /\ encumbrances'[<<e, r>>].scope = s
           /\ encumbrances'[<<e, r>>].mandate = m
           /\ \A d \in Claims \ {<<e, r>>} : encumbrances'[d] = encumbrances[d]
           /\ now' = now
  <1> DEFINE c == <<e, r>>
  <1>0. c \in Claims /\ c[2] = r
    BY DEF Claims
  <1>1. /\ encumbrances[c] = None
        /\ encumbrances'[c] = [holder |-> h, scope |-> s, mandate |-> m, from |-> from,
                               status |-> "active", basis |-> None]
        /\ \A d \in Claims \ {c} : encumbrances'[d] = encumbrances[d]
        /\ now' = now
    BY <1>0 DEF RecordEncumbrance, TypeOK
  <1>2. encumbrances'[c] # None
    <2>1. encumbrances'[c] \in Encumbrance
      BY <1>1 DEF Encumbrance
    <2>2. QED
      BY <2>1, NoneAssumption
  <1>3. c \notin Constraining(h, r, now)
    BY <1>1 DEF Constraining, Constrains
  <1>4. \A d \in Claims \ {c} : d \in Constraining(h, r, now)' <=> d \in Constraining(h, r, now)
    BY <1>1 DEF Constraining, Constrains
  <1>5. c \in Constraining(h, r, now)' <=> from <= now
    BY <1>0, <1>1, <1>2 DEF Constraining, Constrains
  <1>6. Constraining(h, r, now) \subseteq Claims /\ Constraining(h, r, now)' \subseteq Claims
    BY DEF Constraining
  <1>7. encumbrances'[c].scope = s /\ encumbrances'[c].mandate = m
    BY <1>1
  <1> HIDE DEF c
  <1>8. Constraining(h, r, now)' = IF from <= now THEN Constraining(h, r, now) \cup {c} ELSE Constraining(h, r, now)
    BY <1>0, <1>3, <1>4, <1>5, <1>6
  <1>9. QED
    BY <1>0, <1>1, <1>3, <1>7, <1>8 DEF c

\* What recording a constraint does to the claim of its own mandate, and to no other.
LEMMA EncumberMovesOne ==
    ASSUME TypeOK, FinitelyMany, TypeOK', FinitelyMany', Next,
           NEW e \in Arrangements, NEW m0 \in Mandates, NEW r \in Rights, NEW h \in Holders,
           NEW s \in Scope, NEW from \in Nat,
           RecordEncumbrance(e, m0, r, h, s, from)
    PROVE  /\ \A m \in Mandates \ {m0} : Claim(m, h, r)' = Claim(m, h, r)
           /\ EncumberedBy(m0, h, r)' = EncumberedBy(m0, h, r) + (IF from <= now THEN s.qty ELSE 0)
           /\ EncumberedBy(m0, h, r) \in Nat /\ s.qty \in Nat
  <1> DEFINE c == <<e, r>>
  <1>0. s.qty \in Nat
    BY DEF Scope
  <1>1. /\ c \in Claims /\ c \notin Constraining(h, r, now)
        /\ Constraining(h, r, now)' =
              IF from <= now THEN Constraining(h, r, now) \cup {c} ELSE Constraining(h, r, now)
        /\ encumbrances'[c].scope = s /\ encumbrances'[c].mandate = m0
        /\ \A d \in Claims \ {c} : encumbrances'[d] = encumbrances[d]
        /\ now' = now
    BY EncumberAdds
  <1>2. \A m \in Mandates \ {m0} : InForceOf(m, h, r)' = InForceOf(m, h, r)
    BY <1>1 DEF InForceOf, Constraining
  <1>3. \A m \in Mandates \ {m0} : Claim(m, h, r)' = Claim(m, h, r)
    <2>1. ASSUME NEW m \in Mandates \ {m0} PROVE Claim(m, h, r)' = Claim(m, h, r)
      <3>1. reservations'[<<m, r>>] = reservations[<<m, r>>]
        BY DEF RecordEncumbrance, TypeOK, Promises
      <3>2. ReservedBy(m, h, r)' = ReservedBy(m, h, r)
        BY <1>1, <3>1, ReservedKept
      <3>3. EncumberedBy(m, h, r)' = EncumberedBy(m, h, r)
        BY <1>2, EncumberedMoves
      <3>4. QED
        BY <3>2, <3>3 DEF Claim
    <2>2. QED
      BY <2>1
  <1>4. EncumberedBy(m0, h, r)' = EncumberedBy(m0, h, r) + (IF from <= now THEN s.qty ELSE 0)
        /\ EncumberedBy(m0, h, r) \in Nat
    <2>1. CASE from <= now
      <3>1. c \notin InForceOf(m0, h, r) /\ InForceOf(m0, h, r)' = InForceOf(m0, h, r) \cup {c}
        BY <1>1, <2>1 DEF InForceOf, Constraining
      <3>2. encumbrances'[c].scope.qty = s.qty
        BY <1>1
      <3> HIDE DEF c
      <3>3. QED
        BY <1>0, <1>1, <2>1, <3>1, <3>2, EncumberedMoves
    <2>2. CASE ~(from <= now)
      <3>1. InForceOf(m0, h, r)' = InForceOf(m0, h, r)
        BY <1>1, <2>2 DEF InForceOf, Constraining
      <3>2. QED
        BY <2>2, <3>1, EncumberedMoves
    <2>3. QED
      BY <2>1, <2>2
  <1>5. QED
    BY <1>0, <1>3, <1>4

\* What the gate admits of a constraint, setting its mandate's commitment aside.
LEMMA EncumberAdmitted ==
    ASSUME TypeOK, FinitelyMany, NEW e \in Arrangements, NEW m \in Mandates, NEW r \in Rights, NEW h \in Holders,
           NEW s \in Scope, NEW from \in Nat, RecordEncumbrance(e, m, r, h, s, from)
    PROVE  /\ Encumbered(h, r, now) + Committed(h, r, Surrendered(m, h, r), now) + s.qty <= Held(h, r)
           /\ Committed(h, r, Surrendered(m, h, r), now) \in Nat
           /\ Held(h, r) \in Nat /\ s.qty \in Nat
           /\ Held(h, r)' = Held(h, r)
  <1> DEFINE aside == Surrendered(m, h, r)
  <1>1. UNCHANGED positions /\ HasCapacity(h, r, aside, now, s)
    BY DEF RecordEncumbrance
  <1>2. aside \in {{}, {<<m, r>>}}
    BY DEF Surrendered
  <1>3. Committed(h, r, {<<m, r>>}, now) \in Nat /\ Committed(h, r, {}, now) \in Nat
    BY SetAside, ClaimedSplits
  <1>4. Committed(h, r, aside, now) \in Nat
    BY <1>2, <1>3
  <1>5. Encumbered(h, r, now) + Committed(h, r, aside, now) + s.qty <= Held(h, r) /\ Held(h, r) \in Nat
    BY <1>1, <1>4, CapacityFits
  <1>6. Held(h, r)' = Held(h, r) /\ s.qty \in Nat
    BY <1>1 DEF Held, Scope
  <1>7. QED
    BY <1>4, <1>5, <1>6

\* A constraint that takes over from its mandate's commitment raises what the
\* slot owes no further than the gate allowed, whether it takes over or not.
LEMMA EncumberStaysSolvent ==
    ASSUME TypeOK, FinitelyMany, UnitsAgree, TypeOK', FinitelyMany', Next,
           NEW e \in Arrangements, NEW m0 \in Mandates, NEW r \in Rights, NEW h \in Holders,
           NEW s \in Scope, NEW from \in Nat,
           RecordEncumbrance(e, m0, r, h, s, from), Solvent(h, r)
    PROVE  Solvent(h, r)'
  <1> DEFINE p == <<m0, r>>
  <1> DEFINE aside == Surrendered(m0, h, r)
  <1> DEFINE now0 == IF from <= now THEN s.qty ELSE 0
  <1>0. p \in Promises /\ p[2] = r
    BY DEF Promises
  <1>1. /\ Claimed(h, r)' + Claim(m0, h, r) = Claimed(h, r) + Claim(m0, h, r)'
        /\ Claimed(h, r) \in Nat /\ Claimed(h, r)' \in Nat
        /\ Claim(m0, h, r) \in Nat /\ Claim(m0, h, r)' \in Nat
    BY EncumberMovesOne, OneClaimMoves
  <1>2. /\ EncumberedBy(m0, h, r)' = EncumberedBy(m0, h, r) + now0
        /\ EncumberedBy(m0, h, r) \in Nat /\ s.qty \in Nat /\ now0 \in Nat /\ now0 <= s.qty
    BY EncumberMovesOne
  <1>3. /\ Claimed(h, r) = Encumbered(h, r, now) + Committed(h, r, {}, now)
        /\ Committed(h, r, {}, now) \in Nat /\ Encumbered(h, r, now) \in Nat
    BY ClaimedSplits
  <1>4. UNCHANGED positions /\ now' = now /\ HasCapacity(h, r, aside, now, s)
    BY DEF RecordEncumbrance
  <1>5. Held(h, r)' = Held(h, r)
    BY <1>4 DEF Held
  <1>6. aside \in {{}, {p}} /\ (p \in aside <=> aside = {p})
    BY DEF Surrendered
  <1>7. /\ p \in Standing(h, r, now) =>
              Committed(h, r, {}, now) = Residual(p, now) + Committed(h, r, {p}, now)
        /\ p \notin Standing(h, r, now) => Committed(h, r, {p}, now) = Committed(h, r, {}, now)
        /\ Committed(h, r, {p}, now) \in Nat
    BY SetAside
  <1>8. /\ Encumbered(h, r, now) + Committed(h, r, aside, now) + s.qty <= Held(h, r)
        /\ Committed(h, r, aside, now) \in Nat /\ Held(h, r) \in Nat
    BY EncumberAdmitted
  <1>9. p \in Standing(h, r, now) => p \in aside
    BY DEF Standing, ReducesAvailability, Surrendered
  <1>10. CASE p \notin Standing(h, r, now)
    <2>1. p \notin Standing(h, r, now)'
      <3>1. \/ reservations'[p] = reservations[p]
            \/ reservations'[p].status = "encumbered"
        BY <1>0 DEF RecordEncumbrance, TypeOK, HandedOver, Surrendered, Reservation
      <3>2. QED
        BY <1>4, <1>10, <3>1 DEF Standing, ReducesAvailability
    <2>2. ReservedBy(m0, h, r) = 0 /\ ReservedBy(m0, h, r)' = 0
      BY <1>10, <2>1 DEF ReservedBy
    <2>3. Claim(m0, h, r)' <= Claim(m0, h, r) + s.qty
      BY <1>2, <2>2 DEF Claim
    <2>4. Committed(h, r, aside, now) = Committed(h, r, {}, now)
      BY <1>6, <1>7, <1>10
    <2>5. Claimed(h, r)' <= Held(h, r)
      BY <1>1, <1>2, <1>3, <1>8, <2>3, <2>4
    <2>6. QED
      BY <1>5, <2>5 DEF Solvent
  <1>11. CASE p \in Standing(h, r, now)
    <2>0. aside = {p}
      BY <1>6, <1>9, <1>11
    <2>1. /\ reservations[p] \in Reservation /\ reservations[p] # None
          /\ reservations[p].holder = h
      BY <1>0, <1>11 DEF Standing, ReducesAvailability, TypeOK
    <2>2. ReservedBy(m0, h, r) = reservations[p].scope.qty /\ reservations[p].scope.qty \in Nat
      BY <1>11, <2>1 DEF ReservedBy, Reservation, Scope
    <2>3. Residual(p, now) = Monus(ReservedBy(m0, h, r), EncumberedBy(m0, h, r))
      BY <2>1, <2>2 DEF Residual, EncumberedBy
    <2>4. Claim(m0, h, r) = EncumberedBy(m0, h, r) + Residual(p, now) /\ Residual(p, now) \in Nat
      BY <1>2, <2>2, <2>3 DEF Claim, Monus
    <2>5. Claimed(h, r) = Encumbered(h, r, now) + Residual(p, now) + Committed(h, r, aside, now)
      BY <1>3, <1>7, <1>11, <2>0, <2>4
    <2>6. CASE HandedOver(m0, h, r, s, from)
      <3>1. reservations'[p].status = "encumbered"
        BY <1>0, <2>1, <2>6 DEF RecordEncumbrance, TypeOK, Reservation
      <3>2. ReservedBy(m0, h, r)' = 0
        BY <3>1 DEF ReservedBy, Standing, ReducesAvailability
      <3>3. Claim(m0, h, r)' = EncumberedBy(m0, h, r) + now0
        BY <1>2, <3>2 DEF Claim
      <3>4. Claimed(h, r)' <= Held(h, r)
        BY <1>1, <1>2, <1>3, <1>8, <2>4, <2>5, <3>3
      <3>5. QED
        BY <1>5, <3>4 DEF Solvent
    <2>7. CASE ~HandedOver(m0, h, r, s, from)
      <3>1. reservations' = reservations
        BY <2>7 DEF RecordEncumbrance
      <3>2. ReservedBy(m0, h, r)' = ReservedBy(m0, h, r)
        BY <1>4, <3>1, ReservedKept
      <3>3. reservations[p].scope.unit = s.unit
        <4>1. reservations[p].scope.unit = positions[<<h, r>>].unit
          BY <1>0, <2>1 DEF UnitsAgree
        <4>2. s.unit = positions[<<h, r>>].unit
          BY <1>4, CapacityHasUnit
        <4>3. QED
          BY <4>1, <4>2
      <3>4. ~(reservations[p].scope.qty <= EncumberedBy(m0, h, r) + now0)
        BY <1>9, <1>11, <2>7, <3>3 DEF HandedOver, EncumberedBy
      <3>5. Claim(m0, h, r)' = Claim(m0, h, r)
        BY <1>2, <2>2, <3>2, <3>4 DEF Claim
      <3>6. Claimed(h, r)' = Claimed(h, r)
        BY <1>1, <3>5
      <3>7. QED
        BY <1>5, <3>6 DEF Solvent
    <2>8. QED
      BY <2>6, <2>7
  <1>12. QED
    BY <1>10, <1>11

\* A slot a step adds nothing to stays solvent.
LEMMA UntouchedStaysSolvent ==
    ASSUME TypeOK, FinitelyMany, TypeOK', FinitelyMany', Next, NEW h \in Holders, NEW r \in Rights,
           Standing(h, r, now)' \subseteq Standing(h, r, now),
           Constraining(h, r, now)' \subseteq Constraining(h, r, now),
           Solvent(h, r), Held(h, r)' >= Held(h, r)
    PROVE  Solvent(h, r)'
  <1>1. Claimed(h, r)' <= Claimed(h, r) /\ Claimed(h, r) \in Nat /\ Claimed(h, r)' \in Nat
    BY NothingAdded
  <1>2. Held(h, r) \in Nat /\ Held(h, r)' \in Nat
    BY DEF Held, TypeOK, Slots, Scope
  <1>3. QED
    BY <1>1, <1>2 DEF Solvent

\* Records that stay as they are, or stop counting, add nothing.
LEMMA FewerStand ==
    ASSUME NEW h, NEW r,
           \A p \in Promises : reservations'[p] = reservations[p]
                               \/ (reservations'[p] # None => reservations'[p].status # "active"),
           now' = now
    PROVE  Standing(h, r, now)' \subseteq Standing(h, r, now)
  BY DEF Standing, ReducesAvailability

LEMMA FewerConstrain ==
    ASSUME NEW h, NEW r,
           \A c \in Claims : encumbrances'[c] = encumbrances[c]
                             \/ (encumbrances'[c] # None => encumbrances'[c].status # "active"),
           now' = now
    PROVE  Constraining(h, r, now)' \subseteq Constraining(h, r, now)
  BY DEF Constraining, Constrains

\* A constraint over another slot.
LEMMA EncumbersOther ==
    ASSUME TypeOK, NEW e \in Arrangements, NEW m \in Mandates, NEW q \in Rights, NEW g \in Holders, NEW s, NEW from,
           RecordEncumbrance(e, m, q, g, s, from), NEW h, NEW r, ~(g = h /\ q = r)
    PROVE  Constraining(h, r, now)' \subseteq Constraining(h, r, now)
  <1>1. ASSUME NEW c \in Claims, c \in Constraining(h, r, now)' PROVE c \in Constraining(h, r, now)
    <2>1. c[2] = r /\ encumbrances'[c].holder = h
      BY <1>1 DEF Constraining
    <2>2. c # <<e, q>>
      BY <2>1 DEF RecordEncumbrance, TypeOK, Claims
    <2>3. encumbrances'[c] = encumbrances[c] /\ now' = now
      BY <2>2 DEF RecordEncumbrance, TypeOK
    <2>4. QED
      BY <1>1, <2>3 DEF Constraining, Constrains
  <1>2. QED
    BY <1>1 DEF Constraining

\* A constraint that ended is in force no longer.
LEMMA DischargeEnds ==
    ASSUME TypeOK, Discharge
    PROVE  \A c \in Claims : encumbrances'[c] = encumbrances[c]
                             \/ (encumbrances'[c] # None => encumbrances'[c].status # "active")
  <1>1. PICK e \in Arrangements, q \in Rights, basis \in ReleaseBases : ReleaseEncumbrance(e, q, basis)
    BY DEF Discharge
  <1>2. ASSUME NEW c \in Claims, encumbrances'[c] # encumbrances[c]
        PROVE  encumbrances'[c].status # "active"
    <2>1. c = <<e, q>> /\ encumbrances[c] \in Encumbrance
      BY <1>1, <1>2 DEF ReleaseEncumbrance, TypeOK
    <2>2. encumbrances'[c] = [encumbrances[c] EXCEPT !.status = "released", !.basis = basis]
      BY <1>1, <2>1 DEF ReleaseEncumbrance, TypeOK
    <2>3. QED
      BY <2>2, <2>1 DEF Encumbrance
  <1>3. QED
    BY <1>2

LEMMA GateStep ==
    ASSUME TypeOK, FinitelyMany, UnitsAgree, BegunByNow, TypeOK', FinitelyMany', Next,
           NEW h \in Holders, NEW r \in Rights,
           Solvent(h, r), Held(h, r)' >= Held(h, r), ~\E c \in Claims : ComesIntoForce(c)
    PROVE  Solvent(h, r)'
  <1>1. CASE Bootstrap
    <2>1. UNCHANGED <<reservations, encumbrances, now>>
      BY <1>1 DEF Bootstrap, BootstrapPosition, BootstrapRefusedLate
    <2>2. QED
      BY <2>1, FewerStand, FewerConstrain, UntouchedStaysSolvent
  <1>2. CASE Move
    <2>1. PICK m \in Mandates : reservations' = Consumed(m) /\ UNCHANGED <<encumbrances, now>>
      BY <1>2 DEF Move, ApplyTransition
    <2>2. \A p \in Promises : reservations'[p] = reservations[p]
                              \/ (reservations'[p] # None => reservations'[p].status # "active")
      <3>1. ASSUME NEW p \in Promises, reservations'[p] # reservations[p]
            PROVE  reservations'[p].status # "active"
        <4>1. reservations[p] \in Reservation /\ reservations'[p] = [reservations[p] EXCEPT !.status = "consumed"]
          BY <2>1, <3>1 DEF Consumed, TypeOK
        <4>2. QED
          BY <4>1 DEF Reservation
      <3>2. QED
        BY <3>1
    <2>3. QED
      BY <2>1, <2>2, FewerStand, FewerConstrain, UntouchedStaysSolvent
  <1>3. CASE Acquire
    <2>1. PICK m \in Mandates, q \in Rights, g \in Holders, s \in Requestable,
               from \in 0..now, until \in 1..(MaxTime + 1) : AcquireReservation(m, q, g, s, from, until)
      BY <1>3 DEF Acquire
    <2>2. CASE g = h /\ q = r
      <3>1. from \in Nat /\ until \in Nat /\ s \in Scope
        BY BoundsAssumption, RequestableIsScope DEF TypeOK
      <3>2. QED
        BY <2>1, <2>2, <3>1, AcquireStaysSolvent
    <2>3. CASE ~(g = h /\ q = r)
      <3>1. UNCHANGED <<encumbrances, now>>
        BY <2>1 DEF AcquireReservation
      <3>2. Standing(h, r, now)' \subseteq Standing(h, r, now)
        <4>1. ASSUME NEW p \in Promises, p \in Standing(h, r, now)' PROVE p \in Standing(h, r, now)
          <5>1. p[2] = r /\ reservations'[p].holder = h
            BY <4>1 DEF Standing
          <5>2. p # <<m, q>>
            BY <2>1, <2>3, <5>1 DEF AcquireReservation, TypeOK, Promises
          <5>3. reservations'[p] = reservations[p]
            BY <2>1, <5>2 DEF AcquireReservation, TypeOK
          <5>4. QED
            BY <3>1, <4>1, <5>3 DEF Standing, ReducesAvailability
        <4>2. QED
          BY <4>1 DEF Standing
      <3>3. Constraining(h, r, now)' \subseteq Constraining(h, r, now)
        BY <3>1, FewerConstrain
      <3>4. QED
        BY <3>2, <3>3, UntouchedStaysSolvent
    <2>4. QED
      BY <2>2, <2>3
  <1>4. CASE Release
    <2>1. PICK m \in Mandates, q \in Rights : ReleaseReservation(m, q)
      BY <1>4 DEF Release
    <2>2. UNCHANGED <<encumbrances, now>>
      BY <2>1 DEF ReleaseReservation
    <2>3. \A p \in Promises : reservations'[p] = reservations[p]
                              \/ (reservations'[p] # None => reservations'[p].status # "active")
      BY <2>1 DEF ReleaseReservation, TypeOK, Reservation, Promises
    <2>4. QED
      BY <2>2, <2>3, FewerStand, FewerConstrain, UntouchedStaysSolvent
  <1>5. CASE Encumber
    <2>1. PICK e \in Arrangements, m \in Mandates, q \in Rights, g \in Holders,
               s \in Requestable, from \in Instants : RecordEncumbrance(e, m, q, g, s, from)
      BY <1>5 DEF Encumber
    <2>2. CASE g = h /\ q = r
      <3>1. from \in Nat /\ s \in Scope
        BY InstantsAreNat, RequestableIsScope
      <3>2. QED
        BY <2>1, <2>2, <3>1, EncumberStaysSolvent
    <2>3. CASE ~(g = h /\ q = r)
      <3>1. now' = now
        BY <2>1 DEF RecordEncumbrance
      <3>2. Standing(h, r, now)' \subseteq Standing(h, r, now)
        <4>1. \A p \in Promises : reservations'[p] = reservations[p]
                                  \/ (reservations'[p] # None => reservations'[p].status # "active")
          <5>1. ASSUME NEW p \in Promises, reservations'[p] # reservations[p]
                PROVE  reservations'[p].status # "active"
            <6>1. p = <<m, q>> /\ reservations[p] \in Reservation
              BY <2>1, <5>1 DEF RecordEncumbrance, HandedOver, Surrendered, TypeOK
            <6>2. reservations'[p] = [reservations[p] EXCEPT !.status = "encumbered"]
              BY <2>1, <5>1, <6>1 DEF RecordEncumbrance, TypeOK
            <6>3. QED
              BY <6>1, <6>2 DEF Reservation
          <5>2. QED
            BY <5>1
        <4>2. QED
          BY <3>1, <4>1, FewerStand
      <3>3. Constraining(h, r, now)' \subseteq Constraining(h, r, now)
        BY <2>1, <2>3, EncumbersOther
      <3>4. QED
        BY <3>2, <3>3, UntouchedStaysSolvent
    <2>4. QED
      BY <2>2, <2>3
  <1>6. CASE Discharge
    <2>1. UNCHANGED <<reservations, now>>
      BY <1>6 DEF Discharge, ReleaseEncumbrance
    <2>2. QED
      BY <1>6, <2>1, DischargeEnds, FewerStand, FewerConstrain, UntouchedStaysSolvent
  <1>7. CASE Tick
    <2>1. UNCHANGED <<reservations, encumbrances>> /\ now' = now + 1 /\ now \in Nat
      BY <1>7 DEF Tick, storeVars, TypeOK
    <2>2. Standing(h, r, now)' \subseteq Standing(h, r, now)
      <3>1. ASSUME NEW p \in Promises, p \in Standing(h, r, now)' PROVE p \in Standing(h, r, now)
        <4>1. /\ reservations[p] # None /\ reservations[p] \in Reservation
              /\ reservations[p].from <= now /\ now + 1 < reservations[p].until
              /\ reservations[p].until \in Nat
          BY <2>1, <3>1 DEF Standing, ReducesAvailability, TypeOK, BegunByNow, Reservation
        <4>2. now < reservations[p].until
          BY <2>1, <4>1
        <4>3. QED
          BY <2>1, <3>1, <4>1, <4>2 DEF Standing, ReducesAvailability
      <3>2. QED
        BY <3>1 DEF Standing
    <2>3. Constraining(h, r, now)' \subseteq Constraining(h, r, now)
      <3>1. ASSUME NEW c \in Claims, c \in Constraining(h, r, now)' PROVE c \in Constraining(h, r, now)
        <4>1. Constrains(c, now)' /\ now' # now
          BY <2>1, <3>1 DEF Constraining
        <4>2. Constrains(c, now)
          BY <4>1 DEF ComesIntoForce
        <4>3. QED
          BY <2>1, <3>1, <4>2 DEF Constraining
      <3>2. QED
        BY <3>1 DEF Constraining
    <2>4. QED
      BY <2>2, <2>3, UntouchedStaysSolvent
  <1>8. QED
    BY <1>1, <1>2, <1>3, <1>4, <1>5, <1>6, <1>7 DEF Next

\* No commitment, no constraint in force, no release and no tick of the clock
\* makes a solvent slot insolvent, whatever the mandates and their instalments.
THEOREM GateHoldsCapacity == Spec => GateNeverOvercommits
  <1>1. /\ TypeOK /\ FinitelyMany /\ UnitsAgree /\ BegunByNow
        /\ TypeOK' /\ FinitelyMany' /\ [Next]_vars
        => [\A h \in Holders, r \in Rights :
               (/\ Solvent(h, r)
                /\ Held(h, r)' >= Held(h, r)
                /\ ~\E c \in Claims : ComesIntoForce(c)) => Solvent(h, r)']_vars
    BY GateStep
  <1>2. QED
    BY <1>1, TypeCorrect, AlwaysFinitelyMany, UnitsAlwaysAgree, CommitmentsBegun, PTL
       DEF Spec, GateNeverOvercommits

-----------------------------------------------------------------------------
(* What constraints alone take of a slot.                                  *)

LEMMA EncumberedAt ==
    ASSUME TypeOK, FinitelyMany, NEW h \in Holders, NEW r \in Rights, NEW at
    PROVE  /\ Constraining(h, r, at) \in SUBSET Recorded
           /\ Summable(EncQty, Constraining(h, r, at))
           /\ Encumbered(h, r, at) = SumFunctionOnSet(EncQty, Constraining(h, r, at))
           /\ Encumbered(h, r, at) \in Nat
  <1>1. Constraining(h, r, at) \in SUBSET Recorded
    BY DEF Constraining, Constrains, Recorded
  <1>2. Summable(EncQty, Constraining(h, r, at)) /\ Encumbered(h, r, at) = SumFunctionOnSet(EncQty, Constraining(h, r, at))
    BY <1>1, EncumbrancesAreSummed DEF EncumbrancesSummed, Encumbered
  <1>3. QED
    BY <1>1, <1>2, SumType

\* At an instant by which every constraint in force now had begun, the
\* constraints took no less than they do now.
LEMMA EncumberedBefore ==
    ASSUME TypeOK, FinitelyMany, NEW h \in Holders, NEW r \in Rights, NEW at,
           \A c \in Constraining(h, r, now) : encumbrances[c].from <= at
    PROVE  Encumbered(h, r, now) <= Encumbered(h, r, at)
  <1>1. Constraining(h, r, now) \in SUBSET Constraining(h, r, at)
    BY DEF Constraining, Constrains
  <1>2. /\ Summable(EncQty, Constraining(h, r, now)) /\ Summable(EncQty, Constraining(h, r, at))
        /\ Encumbered(h, r, now) = SumFunctionOnSet(EncQty, Constraining(h, r, now))
        /\ Encumbered(h, r, at) = SumFunctionOnSet(EncQty, Constraining(h, r, at))
    BY EncumberedAt
  <1>3. AtMost(EncQty, EncQty, Constraining(h, r, now))
    BY <1>2 DEF AtMost, Summable
  <1>4. SumFunctionOnSet(EncQty, Constraining(h, r, now)) <= SumFunctionOnSet(EncQty, Constraining(h, r, at))
    BY <1>1, <1>2, <1>3, SumMonotone
  <1>5. QED
    BY <1>2, <1>4

\* What a slot's constraints take moves with the constraints in force.
LEMMA EncumberedGrows ==
    ASSUME TypeOK, FinitelyMany, TypeOK', FinitelyMany', Next, NEW h \in Holders, NEW r \in Rights
    PROVE  /\ Constraining(h, r, now)' \subseteq Constraining(h, r, now) =>
                  Encumbered(h, r, now)' <= Encumbered(h, r, now)
           /\ \A c \in Claims :
                 (c \notin Constraining(h, r, now) /\ Constraining(h, r, now)' = Constraining(h, r, now) \cup {c}) =>
                     Encumbered(h, r, now)' = Encumbered(h, r, now) + encumbrances'[c].scope.qty
           /\ Encumbered(h, r, now) \in Nat /\ Encumbered(h, r, now)' \in Nat
  <1> DEFINE S == Constraining(h, r, now)
  <1>1. SlotFacts(h, r)
    BY FactsOfSlots DEF AllSlotFacts
  <1>2. SlotFacts(h, r)'
    <2>1. (TypeOK /\ FinitelyMany => AllSlotFacts)'
      BY FactsOfSlots, PTL
    <2>2. QED
      BY <2>1 DEF AllSlotFacts
  <1>3. /\ Encumbered(h, r, now) = SumFunctionOnSet(EncQty, S) /\ Summable(EncQty, S)
        /\ Encumbered(h, r, now) \in Nat
        /\ S \in SUBSET Recorded
    BY <1>1, SumType DEF SlotFacts
  <1>4. /\ Encumbered(h, r, now)' = SumFunctionOnSet(EncQty', S') /\ Summable(EncQty', S')
        /\ Encumbered(h, r, now)' \in Nat
    <2>1. Encumbered(h, r, now)' = SumFunctionOnSet(EncQty', S') /\ Summable(EncQty', S')
      BY <1>2 DEF SlotFacts
    <2>2. QED
      BY <2>1, SumType
  <1>5. AgreeOn(EncQty, EncQty', S)
    BY <1>3, RecordsKept DEF AgreeOn
  <1>6. ASSUME S' \subseteq S PROVE Encumbered(h, r, now)' <= Encumbered(h, r, now)
    <2>1. AtMost(EncQty', EncQty, S')
      <3>1. \A c \in S' : EncQty'[c] = EncQty[c] /\ EncQty'[c] \in Nat
        BY <1>4, <1>5, <1>6 DEF AgreeOn, Summable
      <3>2. QED
        BY <3>1 DEF AtMost
    <2>2. S' \in SUBSET S
      BY <1>6
    <2> HIDE DEF S
    <2>3. QED
      BY <1>3, <1>4, <2>1, <2>2, SumMonotone
  <1>7. ASSUME NEW c \in Claims, c \notin S, S' = S \cup {c}
        PROVE  Encumbered(h, r, now)' = Encumbered(h, r, now) + encumbrances'[c].scope.qty
    <2>1. Summable(EncQty', S \cup {c})
      BY <1>4, <1>7
    <2>2. SumFunctionOnSet(EncQty', S \cup {c}) = SumFunctionOnSet(EncQty, S) + EncQty'[c]
      BY <1>3, <1>5, <1>7, <2>1, SumGains
    <2>3. EncQty'[c] = encumbrances'[c].scope.qty
      BY DEF EncQty
    <2>4. QED
      BY <1>3, <1>4, <1>7, <2>2, <2>3
  <1>8. QED
    BY <1>3, <1>4, <1>6, <1>7

\* A slot without a position has nothing standing over it, so that what is held
\* says when a slot is overdrawn, enrolled or not.
DrawFacts(h, r) ==
    /\ Overencumbered(h, r, now) <=> Encumbered(h, r, now) > Held(h, r)
    /\ Overcommitted(h, r, {}, now) <=> ~Solvent(h, r)
    /\ Held(h, r) \in Nat
    /\ Encumbered(h, r, now) \in Nat
    /\ Claimed(h, r) \in Nat

AllDrawFacts == \A h \in Holders, r \in Rights : DrawFacts(h, r)

LEMMA FactsOfDraws == TypeOK /\ FinitelyMany /\ UnitsAgree => AllDrawFacts
  <1> SUFFICES ASSUME TypeOK, FinitelyMany, UnitsAgree, NEW h \in Holders, NEW r \in Rights PROVE DrawFacts(h, r)
    BY DEF AllDrawFacts
  <1>1. Held(h, r) \in Nat
    BY DEF Held, TypeOK, Slots, Scope
  <1>2. /\ Claimed(h, r) = Encumbered(h, r, now) + Committed(h, r, {}, now)
        /\ Encumbered(h, r, now) \in Nat /\ Committed(h, r, {}, now) \in Nat
    BY ClaimedSplits
  <1>3. CASE positions[<<h, r>>] # None
    <2>1. Held(h, r) = positions[<<h, r>>].qty
      BY <1>3 DEF Held
    <2>2. QED
      BY <1>1, <1>2, <1>3, <2>1 DEF Overencumbered, Overcommitted, Solvent, DrawFacts
  <1>4. CASE positions[<<h, r>>] = None
    <2>1. Constraining(h, r, now) = {}
      BY <1>4 DEF Constraining, Constrains, UnitsAgree
    <2>2. Standing(h, r, now) = {}
      BY <1>4 DEF Standing, ReducesAvailability, UnitsAgree
    <2>3. Encumbered(h, r, now) = 0
      <3>1. Encumbered(h, r, now) = SumFunctionOnSet(EncQty, Constraining(h, r, now))
        BY EncumberedAt
      <3>2. QED
        BY <2>1, <3>1, SumEmpty
    <2>4. Committed(h, r, {}, now) = 0
      <3>1. Committed(h, r, {}, now) = SumFunctionOnSet(ResidualOf(h, r), Standing(h, r, now) \ {})
        BY ResidualFacts
      <3>2. Standing(h, r, now) \ {} = {}
        BY <2>2
      <3>3. QED
        BY <3>1, <3>2, SumEmpty
    <2>5. Held(h, r) = 0
      BY <1>4 DEF Held
    <2>6. QED
      BY <1>2, <1>4, <2>3, <2>4, <2>5 DEF Overencumbered, Overcommitted, Solvent, DrawFacts
  <1>5. Claimed(h, r) \in Nat
    BY <1>2
  <1>6. QED
    BY <1>1, <1>2, <1>3, <1>4, <1>5 DEF DrawFacts

\* A constraint the gate admits leaves its slot covering every constraint.
LEMMA EncumberCovered ==
    ASSUME TypeOK, FinitelyMany, TypeOK', FinitelyMany', Next,
           NEW e \in Arrangements, NEW m \in Mandates, NEW r \in Rights, NEW h \in Holders,
           NEW s \in Scope, NEW from \in Nat, RecordEncumbrance(e, m, r, h, s, from)
    PROVE  Encumbered(h, r, now)' <= Held(h, r)'
  <1>1. /\ Encumbered(h, r, now) + Committed(h, r, Surrendered(m, h, r), now) + s.qty <= Held(h, r)
        /\ Committed(h, r, Surrendered(m, h, r), now) \in Nat
        /\ Held(h, r) \in Nat /\ s.qty \in Nat
        /\ Held(h, r)' = Held(h, r)
    BY EncumberAdmitted
  <1>2. Encumbered(h, r, now) \in Nat /\ Encumbered(h, r, now)' \in Nat
    BY EncumberedGrows
  <1>3. Encumbered(h, r, now)' <= Encumbered(h, r, now) + s.qty
    <2>1. CASE from <= now
      <3> DEFINE c == <<e, r>>
      <3>1. /\ c \in Claims /\ c \notin Constraining(h, r, now)
            /\ Constraining(h, r, now)' = Constraining(h, r, now) \cup {c}
            /\ encumbrances'[c].scope = s
        BY <2>1, EncumberAdds
      <3> HIDE DEF c
      <3>2. Encumbered(h, r, now)' = Encumbered(h, r, now) + encumbrances'[c].scope.qty
        BY <3>1, EncumberedGrows
      <3>3. QED
        BY <1>1, <1>2, <3>1, <3>2
    <2>2. CASE ~(from <= now)
      <3>0. Constraining(h, r, now)' =
                IF from <= now THEN Constraining(h, r, now) \cup {<<e, r>>} ELSE Constraining(h, r, now)
        BY EncumberAdds
      <3>1. Constraining(h, r, now)' \subseteq Constraining(h, r, now)
        BY <2>2, <3>0
      <3>2. Encumbered(h, r, now)' <= Encumbered(h, r, now)
        BY <3>1, EncumberedGrows
      <3>3. QED
        BY <1>1, <1>2, <3>2
    <2>3. QED
      BY <2>1, <2>2
  <1>4. QED
    BY <1>1, <1>2, <1>3

\* A slot gains a constraint in force only when one over it is recorded, or begins.
LEMMA OnlyEncumberConstrains ==
    ASSUME TypeOK, Next, NEW h \in Holders, NEW r \in Rights
    PROVE  \/ Constraining(h, r, now)' \subseteq Constraining(h, r, now)
           \/ \E c \in Claims : c[2] = r /\ encumbrances[c] # None /\ encumbrances[c].holder = h /\ ComesIntoForce(c)
           \/ \E e \in Arrangements, m \in Mandates, s \in Scope, from \in Nat : RecordEncumbrance(e, m, r, h, s, from)
  <1>1. CASE Bootstrap \/ Move \/ Acquire \/ Release
    <2>1. encumbrances' = encumbrances /\ now' = now
      BY <1>1 DEF Bootstrap, BootstrapPosition, BootstrapRefusedLate, Move, ApplyTransition,
                  Acquire, AcquireReservation, Release, ReleaseReservation
    <2>2. \A c \in Claims : encumbrances'[c] = encumbrances[c]
      BY <2>1
    <2>3. Constraining(h, r, now)' \subseteq Constraining(h, r, now)
      BY <2>1, <2>2, FewerConstrain
    <2>4. QED
      BY <2>3
  <1>2. CASE Encumber
    <2>1. PICK e \in Arrangements, m \in Mandates, q \in Rights, g \in Holders,
               s \in Requestable, from \in Instants : RecordEncumbrance(e, m, q, g, s, from)
      BY <1>2 DEF Encumber
    <2>2. from \in Nat /\ s \in Scope
      BY InstantsAreNat, RequestableIsScope
    <2>3. CASE g = h /\ q = r
      BY <2>1, <2>2, <2>3
    <2>4. CASE ~(g = h /\ q = r)
      BY <2>1, <2>4, EncumbersOther
    <2>5. QED
      BY <2>3, <2>4
  <1>3. CASE Discharge
    <2>1. now' = now
      BY <1>3 DEF Discharge, ReleaseEncumbrance
    <2>2. QED
      BY <1>3, <2>1, DischargeEnds, FewerConstrain
  <1>4. CASE Tick
    <2>1. UNCHANGED encumbrances /\ now' # now
      BY <1>4 DEF Tick, storeVars, TypeOK
    <2>2. ASSUME NEW c \in Constraining(h, r, now)', c \notin Constraining(h, r, now)
          PROVE  c \in Claims /\ c[2] = r /\ encumbrances[c] # None /\ encumbrances[c].holder = h /\ ComesIntoForce(c)
      BY <2>1, <2>2 DEF Constraining, Constrains, ComesIntoForce
    <2>3. QED
      BY <2>2
  <1>5. QED
    BY <1>1, <1>2, <1>3, <1>4 DEF Next

\* What a movement does to every balance.
LEMMA MoveHeld ==
    ASSUME TypeOK, TypeOK', NEW e, NEW m, NEW rights \in RightLists, NEW h0 \in Holders, NEW g \in Holders,
           NEW s \in Scope, NEW at, ApplyTransition(e, m, rights, h0, g, s, at),
           NEW h \in Holders, NEW r \in Rights, ~(Held(h, r)' >= Held(h, r))
    PROVE  /\ h = h0 /\ r \in RightsOf(rights)
           /\ Held(h, r)' = Held(h, r) - s.qty /\ s.qty \in Nat
           /\ Encumbered(h, r, at) <= Held(h, r)'
  <1> DEFINE k == <<h, r>>
  <1>0. k \in Slots /\ k[1] = h /\ k[2] = r
    BY DEF Slots
  <1>1. positions'[k] = IF r \in RightsOf(rights) /\ h = h0 THEN Minus(positions[k], s)
                        ELSE IF r \in RightsOf(rights) /\ h = g THEN Credited(g, r, s)
                        ELSE positions[k]
    <2>1. positions'[k] = Moved(RightsOf(rights), h0, g, s)[k]
      BY DEF ApplyTransition
    <2>2. Moved(RightsOf(rights), h0, g, s)[k] =
            CASE k[2] \in RightsOf(rights) /\ k[1] = h0 -> Minus(positions[k], s)
              [] k[2] \in RightsOf(rights) /\ k[1] = g -> Credited(g, k[2], s)
              [] OTHER -> positions[k]
      BY <1>0 DEF Moved
    <2>3. h0 # g
      BY DEF ApplyTransition, TransitionApplicable
    <2> HIDE DEF k
    <2>4. QED
      BY <1>0, <2>1, <2>2, <2>3
  <1>2. Held(h, r) \in Nat /\ Held(h, r)' \in Nat
    BY DEF Held, TypeOK, Slots, Scope
  <1>3. r \in RightsOf(rights) /\ h = h0
    <2>1. CASE ~(r \in RightsOf(rights) /\ h = h0) /\ r \in RightsOf(rights) /\ h = g
      <3>1. positions'[<<h, r>>] = Credited(h, r, s)
        BY <1>1, <2>1
      <3>2. Held(h, r)' = Held(h, r) + s.qty /\ s.qty \in Nat
        BY <3>1, HeldCredited DEF Scope
      <3>3. QED
        BY <1>2, <3>2
    <2>2. CASE ~(r \in RightsOf(rights) /\ h = h0) /\ ~(r \in RightsOf(rights) /\ h = g)
      <3>1. Held(h, r)' = Held(h, r)
        BY <1>1, <2>2 DEF Held
      <3>2. QED
        BY <1>2, <3>1
    <2>3. QED
      BY <2>1, <2>2
  <1>4. Movable(r, h, g, s, at)
    BY <1>3 DEF ApplyTransition, TransitionApplicable
  <1>5. /\ positions[<<h, r>>] # None /\ Within(s, positions[<<h, r>>])
        /\ positions'[<<h, r>>] = Minus(positions[<<h, r>>], s)
        /\ Encumbered(h, r, at) <= Minus(positions[<<h, r>>], s).qty
    BY <1>1, <1>3, <1>4 DEF Movable, CoversEncumbrances
  <1>6. Held(h, r)' = Held(h, r) - s.qty
    BY <1>5, HeldDebited
  <1>7. Held(h, r)' = Minus(positions[<<h, r>>], s).qty
    <2>1. positions[<<h, r>>] \in Scope
      BY <1>0, <1>5 DEF TypeOK
    <2>2. Minus(positions[<<h, r>>], s) \in Scope
      BY <1>5, <2>1, MinusIsScope
    <2>3. QED
      BY <1>5, <2>2, NoneAssumption DEF Held
  <1>8. QED
    BY <1>3, <1>5, <1>6, <1>7 DEF Scope

=============================================================================
