------------------------- MODULE GovernedAuthorityStore -------------------------
(***************************************************************************)
(* The Governed Authority Store of src/enterprise/authority-governance:    *)
(* who holds how much of which governed right of one resource of one       *)
(* tenant, the append-only log of the transitions that got it there, the   *)
(* reservations that commit a holder's authority to a mandate before it is *)
(* executed, and the encumbrances that constrain it afterwards.            *)
(*                                                                         *)
(* Every mutating method of the store is one critical section (a           *)
(* synchronous function body in memory, a db.transaction in SQLite), so    *)
(* each is one action here.  A call the store refuses, or answers from a   *)
(* replay, writes nothing: it is a stuttering step and has no disjunct.    *)
(***************************************************************************)
EXTENDS Integers, Sequences, FiniteSets, Functions

CONSTANTS
    Holders,            \* parties that can hold a position
    Rights,             \* governed right types
    Units,              \* proportional, and every unit denomination
    Mandates,           \* authorization artifacts that reserve or spend authority
    Executions,         \* execution references of reported movements
    Arrangements,       \* execution references of reported collateral arrangements
    ReleaseMandates,    \* mandates of the release-encumbrance action
    ReleaseExecutions,  \* execution references of confirmed releases
    None,               \* the absent record
    Durable             \* TRUE: the SQLite store; FALSE: the in-memory store

CONSTANTS               \* bounds of the inputs, for TLC
    Quantities,         \* quantities a caller names
    MaxTime,            \* the last instant of the clock
    MaxIssuances,       \* issuances in the log
    MaxRights           \* rights one movement names

Scope       == [unit : Units, qty : Nat]
Requestable == [unit : Units, qty : Quantities]

Movements == [execution : Executions, mandate : Mandates, right : Rights,
              from : Holders, to : Holders, scope : Scope]
Issuances == [execution : {None}, mandate : {None}, right : Rights,
              from : {None}, to : Holders, scope : Scope]

ReservationStatus == {"active", "consumed", "encumbered", "released"}
Reservation == [holder : Holders, scope : Scope, from : Nat, until : Nat,
                status : ReservationStatus]

ReleaseBases ==
    [kind : {"governed-execution"}, mandate : ReleaseMandates, execution : ReleaseExecutions]
      \cup [kind : {"administrative"}]

Encumbrance == [holder : Holders, scope : Scope, mandate : Mandates, from : Nat,
                status : {"active", "released"}, basis : ReleaseBases \cup {None}]

Slots    == Holders \X Rights       \* a position is its (holder, right) pair
Promises == Mandates \X Rights      \* a reservation is identified by mandate and right
Claims   == Arrangements \X Rights  \* an encumbrance by its execution and right

ASSUME NoneAssumption ==
    /\ None \notin Holders \cup Mandates \cup Executions
    /\ None \notin Scope \cup Reservation \cup Encumbrance \cup ReleaseBases

ASSUME BoundsAssumption ==
    /\ Quantities \subseteq Nat \ {0}
    /\ MaxTime \in Nat /\ MaxIssuances \in Nat /\ MaxRights \in Nat
    /\ Durable \in BOOLEAN

VARIABLES
    positions,      \* the scope each slot holds, or None
    transitions,    \* the log, in append order
    reservations,   \* the reservation of each promise, or None
    encumbrances,   \* the encumbrance of each claim, or None
    now             \* the clock every record is stamped from

storeVars == <<positions, transitions, reservations, encumbrances>>
vars      == <<positions, transitions, reservations, encumbrances, now>>

TypeOK ==
    /\ positions    \in [Slots    -> Scope \cup {None}]
    /\ transitions  \in Seq(Movements \cup Issuances)
    /\ reservations \in [Promises -> Reservation \cup {None}]
    /\ encumbrances \in [Claims   -> Encumbrance \cup {None}]
    /\ now \in Nat

Init ==
    /\ positions    = [s \in Slots    |-> None]
    /\ transitions  = << >>
    /\ reservations = [p \in Promises |-> None]
    /\ encumbrances = [c \in Claims   |-> None]
    /\ now = 0

-----------------------------------------------------------------------------
(* Quantities.  Two scopes are comparable only in the same unit.           *)

\* Variants named ...Faulty are mistakes an implementation could make.  No action
\* uses one; each is there to show that a property below would notice it.

Within(inner, outer) == inner.unit = outer.unit /\ inner.qty <= outer.qty

Plus(a, b)  == [a EXCEPT !.qty = @ + b.qty]
Minus(a, b) == [a EXCEPT !.qty = @ - b.qty]
Monus(x, y) == IF x > y THEN x - y ELSE 0

(* What stands over a slot at an instant.                                  *)

ReducesAvailability(p, at) ==
    /\ reservations[p] # None
    /\ reservations[p].status = "active"
    /\ reservations[p].from <= at
    /\ at < reservations[p].until

Standing(h, r, at) ==
    {p \in Promises : p[2] = r /\ ReducesAvailability(p, at) /\ reservations[p].holder = h}

Constrains(c, at) ==
    /\ encumbrances[c] # None
    /\ encumbrances[c].status = "active"
    /\ encumbrances[c].from <= at

Constraining(h, r, at) ==
    {c \in Claims : c[2] = r /\ Constrains(c, at) /\ encumbrances[c].holder = h}

EncumberedQty(cs) == SumFunction([c \in cs |-> encumbrances[c].scope.qty])

Encumbered(h, r, at) == EncumberedQty(Constraining(h, r, at))

\* What the constraints recorded under mandate m already account for.
CarvedOut(m, h, r, at) ==
    EncumberedQty({c \in Constraining(h, r, at) : encumbrances[c].mandate = m})

\* Nets the whole reservation away at the first instalment.
ResidualFaulty(p, at) ==
    IF CarvedOut(p[1], reservations[p].holder, p[2], at) > 0 THEN 0 ELSE reservations[p].scope.qty

\* A reservation counts net of what its own mandate has already encumbered.
Residual(p, at) ==
    Monus(reservations[p].scope.qty, CarvedOut(p[1], reservations[p].holder, p[2], at))

Committed(h, r, aside, at) ==
    SumFunction([p \in Standing(h, r, at) \ aside |-> Residual(p, at)])

(* The capacity verdict (computeActionCapacity).  Both actions that draw   *)
(* on capacity engage every standing constraint: collateralize because it  *)
(* consumes their class, transfer because it moves the holder's authority. *)

Commensurable(h, r, aside, at) ==
    /\ \A c \in Constraining(h, r, at) : encumbrances[c].scope.unit = positions[<<h, r>>].unit
    /\ \A p \in Standing(h, r, at) \ aside : reservations[p].scope.unit = positions[<<h, r>>].unit

Overencumbered(h, r, at) ==
    /\ positions[<<h, r>>] # None
    /\ Encumbered(h, r, at) > positions[<<h, r>>].qty

Overcommitted(h, r, aside, at) ==
    /\ positions[<<h, r>>] # None
    /\ Encumbered(h, r, at) + Committed(h, r, aside, at) > positions[<<h, r>>].qty

Available(h, r, aside, at) ==
    /\ positions[<<h, r>>] # None
    /\ Commensurable(h, r, aside, at)
    /\ ~Overencumbered(h, r, at)
    /\ ~Overcommitted(h, r, aside, at)

Free(h, r, aside, at) ==
    [unit |-> positions[<<h, r>>].unit,
     qty  |-> positions[<<h, r>>].qty - Encumbered(h, r, at) - Committed(h, r, aside, at)]

\* Asks what is held, and not what is still uncommitted.
HasCapacityFaulty(h, r, aside, at, s) ==
    positions[<<h, r>>] # None /\ Within(s, positions[<<h, r>>])

HasCapacity(h, r, aside, at, s) == Available(h, r, aside, at) /\ Within(s, Free(h, r, aside, at))

-----------------------------------------------------------------------------
(* bootstrapPosition: issuance creates a position or adds to one.  An      *)
(* issuance in another unit is refused by addAuthorityScopes, which the    *)
(* in-memory store reaches after it has appended the transition.           *)

Issuance(h, r, s) ==
    [execution |-> None, mandate |-> None, right |-> r, from |-> None, to |-> h, scope |-> s]

\* Overwrites the position that is already there.
CreditedFaulty(h, r, s) == s

Credited(h, r, s) == IF positions[<<h, r>>] = None THEN s ELSE Plus(positions[<<h, r>>], s)

Creditable(h, r, s) == positions[<<h, r>>] # None => positions[<<h, r>>].unit = s.unit

BootstrapPosition(h, r, s) ==
    /\ Creditable(h, r, s)
    /\ transitions' = Append(transitions, Issuance(h, r, s))
    /\ positions' = [positions EXCEPT ![<<h, r>>] = Credited(h, r, s)]
    /\ UNCHANGED <<reservations, encumbrances, now>>

BootstrapRefusedLate(h, r, s) ==
    /\ ~Durable
    /\ ~Creditable(h, r, s)
    /\ transitions' = Append(transitions, Issuance(h, r, s))
    /\ UNCHANGED <<positions, reservations, encumbrances, now>>

-----------------------------------------------------------------------------
(* applyTransition: one movement, every right of it or none.               *)

Applied(e) == \E i \in DOMAIN transitions : transitions[i].execution = e

RightsOf(rights) == {rights[i] : i \in DOMAIN rights}

\* Compares what stays behind with what is kept by denomination only.
CoversEncumbrancesFaulty(h, r, kept, at) ==
    \A c \in Constraining(h, r, at) : encumbrances[c].scope.unit = kept.unit

\* The constraints that stay behind must still be covered by what is kept.
CoversEncumbrances(h, r, kept, at) ==
    /\ \A c \in Constraining(h, r, at) : encumbrances[c].scope.unit = kept.unit
    /\ Encumbered(h, r, at) <= kept.qty

Movable(r, h, g, s, at) ==
    /\ positions[<<h, r>>] # None
    /\ Within(s, positions[<<h, r>>])
    /\ CoversEncumbrances(h, r, Minus(positions[<<h, r>>], s), at)
    /\ Creditable(g, r, s)

Moved(rs, h, g, s) ==
    [k \in Slots |->
        CASE k[2] \in rs /\ k[1] = h -> Minus(positions[k], s)
          [] k[2] \in rs /\ k[1] = g -> Credited(g, k[2], s)
          [] OTHER -> positions[k]]

Movement(e, m, r, h, g, s) ==
    [execution |-> e, mandate |-> m, right |-> r, from |-> h, to |-> g, scope |-> s]

\* Terminalizes every commitment, not only the mandate's.
ConsumedFaulty(m) ==
    [p \in Promises |->
        IF reservations[p] # None /\ reservations[p].status = "active"
          THEN [reservations[p] EXCEPT !.status = "consumed"]
          ELSE reservations[p]]

Consumed(m) ==
    [p \in Promises |->
        IF p[1] = m /\ reservations[p] # None /\ reservations[p].status = "active"
          THEN [reservations[p] EXCEPT !.status = "consumed"]
          ELSE reservations[p]]

\* A list that repeats a right is staged twice from one balance.  SQLite's
\* UNIQUE (tenant, execution, right) refuses its second row and rolls back.
Listable(rights) ==
    Durable => \A i, j \in DOMAIN rights : rights[i] = rights[j] => i = j

\* Does not look for the execution in the log first.
TransitionApplicableFaulty(e, rights, h, g, s, at) ==
    /\ h # g
    /\ Listable(rights)
    /\ \A r \in RightsOf(rights) : Movable(r, h, g, s, at)

TransitionApplicable(e, rights, h, g, s, at) ==
    /\ ~Applied(e)
    /\ h # g
    /\ Listable(rights)
    /\ \A r \in RightsOf(rights) : Movable(r, h, g, s, at)

ApplyTransition(e, m, rights, h, g, s, at) ==
    /\ TransitionApplicable(e, rights, h, g, s, at)
    /\ transitions' = transitions \o [i \in DOMAIN rights |-> Movement(e, m, rights[i], h, g, s)]
    /\ positions' = Moved(RightsOf(rights), h, g, s)
    /\ reservations' = Consumed(m)
    /\ UNCHANGED <<encumbrances, now>>

-----------------------------------------------------------------------------
(* acquireReservation and releaseReservation.                              *)

AcquireReservation(m, r, h, s, from, until) ==
    /\ reservations[<<m, r>>] = None
    /\ from < until
    /\ HasCapacity(h, r, {}, now, s)
    /\ reservations' = [reservations EXCEPT ![<<m, r>>] =
           [holder |-> h, scope |-> s, from |-> from, until |-> until, status |-> "active"]]
    /\ UNCHANGED <<positions, transitions, encumbrances, now>>

\* Releases a commitment whatever became of it.
ReleaseReservationFaulty(m, r) ==
    /\ reservations[<<m, r>>] # None
    /\ reservations' = [reservations EXCEPT ![<<m, r>>].status = "released"]
    /\ UNCHANGED <<positions, transitions, encumbrances, now>>

ReleaseReservation(m, r) ==
    /\ reservations[<<m, r>>] # None
    /\ reservations[<<m, r>>].status = "active"
    /\ reservations' = [reservations EXCEPT ![<<m, r>>].status = "released"]
    /\ UNCHANGED <<positions, transitions, encumbrances, now>>

-----------------------------------------------------------------------------
(* recordEncumbrance: a constraint replaces the commitment it came from.   *)

\* Counts a commitment and the constraint that succeeds it both.
SurrenderedFaulty(m, h, r) == {}

\* The mandate's own active commitment, set aside while its successor is sized.
Surrendered(m, h, r) ==
    {p \in {<<m, r>>} : /\ reservations[p] # None
                        /\ reservations[p].status = "active"
                        /\ reservations[p].holder = h}

\* Hands over at the first instalment, however small.
HandedOverFaulty(m, h, r, s, from) ==
    /\ <<m, r>> \in Surrendered(m, h, r)
    /\ reservations[<<m, r>>].scope.unit = s.unit

\* The handoff is complete once the mandate's constraints cover the commitment.
HandedOver(m, h, r, s, from) ==
    LET p == <<m, r>>
        covered == CarvedOut(m, h, r, now) + (IF from <= now THEN s.qty ELSE 0)
    IN  /\ p \in Surrendered(m, h, r)
        /\ reservations[p].scope.unit = s.unit
        /\ reservations[p].scope.qty <= covered

RecordEncumbrance(e, m, r, h, s, from) ==
    /\ encumbrances[<<e, r>>] = None
    /\ HasCapacity(h, r, Surrendered(m, h, r), now, s)
    /\ encumbrances' = [encumbrances EXCEPT ![<<e, r>>] =
           [holder |-> h, scope |-> s, mandate |-> m, from |-> from,
            status |-> "active", basis |-> None]]
    /\ reservations' = IF HandedOver(m, h, r, s, from)
                         THEN [reservations EXCEPT ![<<m, r>>].status = "encumbered"]
                         ELSE reservations
    /\ UNCHANGED <<positions, transitions, now>>

(* releaseEncumbrance: one confirmed release ends one constraint.          *)

Discharged(d, rx) ==
    /\ encumbrances[d] # None
    /\ encumbrances[d].basis # None
    /\ encumbrances[d].basis.kind = "governed-execution"
    /\ encumbrances[d].basis.execution = rx

ReleaseUnclaimed(basis, c) ==
    basis.kind = "governed-execution" => \A d \in Claims \ {c} : ~Discharged(d, basis.execution)

ReleaseEncumbrance(e, r, basis) ==
    /\ encumbrances[<<e, r>>] # None
    /\ encumbrances[<<e, r>>].status = "active"
    /\ ReleaseUnclaimed(basis, <<e, r>>)
    /\ encumbrances' = [encumbrances EXCEPT ![<<e, r>>].status = "released",
                                            ![<<e, r>>].basis = basis]
    /\ UNCHANGED <<positions, transitions, reservations, now>>

-----------------------------------------------------------------------------
Tick == now < MaxTime /\ now' = now + 1 /\ UNCHANGED storeVars

Instants   == 0..MaxTime
RightLists == UNION {[1..n -> Rights] : n \in 1..MaxRights}

Bootstrap ==
    /\ Cardinality({i \in DOMAIN transitions : transitions[i].execution = None}) < MaxIssuances
    /\ \E h \in Holders, r \in Rights, s \in Requestable :
          BootstrapPosition(h, r, s) \/ BootstrapRefusedLate(h, r, s)

Move ==
    \E e \in Executions, m \in Mandates, rights \in RightLists,
       h, g \in Holders, s \in Requestable, at \in Instants :
        ApplyTransition(e, m, rights, h, g, s, at)

Acquire ==
    \E m \in Mandates, r \in Rights, h \in Holders, s \in Requestable,
       from \in 0..now, until \in 1..(MaxTime + 1) :
        AcquireReservation(m, r, h, s, from, until)

Release == \E m \in Mandates, r \in Rights : ReleaseReservation(m, r)

Encumber ==
    \E e \in Arrangements, m \in Mandates, r \in Rights, h \in Holders, s \in Requestable,
       from \in Instants :
        RecordEncumbrance(e, m, r, h, s, from)

Discharge ==
    \E e \in Arrangements, r \in Rights, basis \in ReleaseBases : ReleaseEncumbrance(e, r, basis)

Next == Bootstrap \/ Move \/ Acquire \/ Release \/ Encumber \/ Discharge \/ Tick

Spec == Init /\ [][Next]_vars

-----------------------------------------------------------------------------
(* Safety.                                                                 *)

LoggedQty(is) == SumFunction([i \in is |-> transitions[i].scope.qty])

Received(h, r) ==
    LoggedQty({i \in DOMAIN transitions : transitions[i].right = r /\ transitions[i].to = h})

Given(h, r) ==
    LoggedQty({i \in DOMAIN transitions : transitions[i].right = r /\ transitions[i].from = h})

Held(h, r) == IF positions[<<h, r>>] = None THEN 0 ELSE positions[<<h, r>>].qty

\* Every balance is the projection of the log: what the holder received less
\* what it gave away.  Nothing is created by a movement, lost by one, or moved
\* without an entry that says so (the current-state table projects the history).
LedgerBalanced == \A h \in Holders, r \in Rights : Held(h, r) = Received(h, r) - Given(h, r)

\* An execution moves a right at most once, and all the entries it wrote
\* describe one movement: one mandate, one pair of holders, one quantity.  This
\* is what the replay check of applyTransition and its staging must guarantee.
ExecutionMovesOnce ==
    \A i, j \in DOMAIN transitions :
        (transitions[i].execution # None /\ transitions[i].execution = transitions[j].execution) =>
            /\ transitions[i].right = transitions[j].right => i = j
            /\ transitions[i].mandate = transitions[j].mandate
            /\ transitions[i].from = transitions[j].from
            /\ transitions[i].to = transitions[j].to
            /\ transitions[i].scope = transitions[j].scope

\* A commitment that was spent has a record that says on what: a consumed one
\* a movement under its mandate in the log, an encumbered one a constraint its
\* mandate recorded over the same holder and right.  A commitment never
\* vanishes into a terminal status with nothing to show for it.
SpentCommitmentsAccountedFor ==
    \A p \in Promises : reservations[p] # None =>
        /\ reservations[p].status = "consumed" =>
               \E i \in DOMAIN transitions : transitions[i].mandate = p[1]
        /\ reservations[p].status = "encumbered" =>
               \E c \in Claims : /\ c[2] = p[2]
                                 /\ encumbrances[c] # None
                                 /\ encumbrances[c].mandate = p[1]
                                 /\ encumbrances[c].holder = reservations[p].holder

\* A reservation ends as encumbered only when the constraints of its mandate
\* cover the whole of it: the instalments still to come stay protected.
HandoffIsWhole ==
    \A p \in Promises : (reservations[p] # None /\ reservations[p].status = "encumbered") =>
        reservations[p].scope.qty <=
            EncumberedQty({c \in Claims : /\ c[2] = p[2]
                                          /\ encumbrances[c] # None
                                          /\ encumbrances[c].mandate = p[1]
                                          /\ encumbrances[c].holder = reservations[p].holder})

\* Whatever the callers do, capacity is never asked to compare quantities of
\* different units: every commitment and every constraint over a slot is in
\* the unit of the position it stands over.
UnitsAgree ==
    /\ \A p \in Promises : reservations[p] # None =>
           LET k == <<reservations[p].holder, p[2]>>
           IN  positions[k] # None /\ reservations[p].scope.unit = positions[k].unit
    /\ \A c \in Claims : encumbrances[c] # None =>
           LET k == <<encumbrances[c].holder, c[2]>>
           IN  positions[k] # None /\ encumbrances[c].scope.unit = positions[k].unit

\* One confirmed release discharges at most one constraint, and a constraint
\* is terminal exactly when it names the grounds it ended on.
ReleaseExecutionSpentOnce ==
    \A c, d \in Claims :
        (encumbrances[c] # None /\ encumbrances[d] # None) =>
            /\ encumbrances[c].status = "released" <=> encumbrances[c].basis # None
            /\ (/\ c # d
                /\ encumbrances[c].basis # None /\ encumbrances[d].basis # None
                /\ encumbrances[c].basis.kind = "governed-execution"
                /\ encumbrances[d].basis.kind = "governed-execution")
               => encumbrances[c].basis.execution # encumbrances[d].basis.execution

-----------------------------------------------------------------------------
(* What a step may never do.                                               *)

\* A terminal record stays as it is, and no step rewrites what a live one was
\* about: spent capacity is never resurrected, no commitment or constraint
\* changes holder, quantity or window.
ReservationFinal(p) ==
    reservations[p] # None =>
        /\ reservations'[p] # None
        /\ reservations'[p] = [reservations[p] EXCEPT !.status = reservations'[p].status]
        /\ reservations[p].status # "active" => reservations'[p] = reservations[p]

EncumbranceFinal(c) ==
    encumbrances[c] # None =>
        /\ encumbrances'[c] # None
        /\ encumbrances'[c] = [encumbrances[c] EXCEPT !.status = encumbrances'[c].status,
                                                      !.basis = encumbrances'[c].basis]
        /\ encumbrances[c].status = "released" => encumbrances'[c] = encumbrances[c]

TerminalIsFinal ==
    /\ \A p \in Promises : ReservationFinal(p)
    /\ \A c \in Claims : EncumbranceFinal(c)

CommitmentsNeverReopen == [][TerminalIsFinal]_vars

\* What one mandate lays claim to over a slot: the greater of what it still
\* reserves and what it has already encumbered, so that a promise counts once
\* while it turns from a commitment into a constraint.
ReservedBy(m, h, r) ==
    IF <<m, r>> \in Standing(h, r, now) THEN reservations[<<m, r>>].scope.qty ELSE 0

EncumberedBy(m, h, r) == CarvedOut(m, h, r, now)

Claim(m, h, r) ==
    IF ReservedBy(m, h, r) > EncumberedBy(m, h, r) THEN ReservedBy(m, h, r) ELSE EncumberedBy(m, h, r)

Claimants(h, r) ==
    {p[1] : p \in Standing(h, r, now)} \cup {encumbrances[c].mandate : c \in Constraining(h, r, now)}

Claimed(h, r) == SumFunction([m \in Claimants(h, r) |-> Claim(m, h, r)])

Solvent(h, r) == Claimed(h, r) <= Held(h, r)

\* A constraint recorded ahead of its time begins to bind.
ComesIntoForce(c) == ~Constrains(c, now) /\ Constrains(c, now)' /\ now' # now

\* Only a debit, or a constraint recorded ahead of its time, can leave a holder
\* promising more than it holds.  A commitment, a constraint that is in force,
\* their release and the clock never make a solvent slot insolvent, through any
\* number of instalments of any number of mandates.
GateNeverOvercommits ==
    [][\A h \in Holders, r \in Rights :
          (/\ Solvent(h, r)
           /\ Held(h, r)' >= Held(h, r)
           /\ ~\E c \in Claims : ComesIntoForce(c)) => Solvent(h, r)']_vars
=============================================================================
