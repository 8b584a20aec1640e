----------------------------- MODULE MandateIssuance -----------------------------
(***************************************************************************)
(* What the TRANSFER and COLLATERALIZE services have in common: from an    *)
(* allowed request to a mandate backed by reservations, and revocation.    *)
(* requestTransfer and requestCollateralization are the same chain of      *)
(* steps over stores of the same shape, and so are the two revokeMandate.  *)
(* The mandate store and the Governed Authority Store share no             *)
(* transaction, so a call is a chain of steps with an await between them:  *)
(* a request reserves the holder's authority right by right, then issues   *)
(* the mandate, or gives back what it took; a revocation is durable before *)
(* capacity is released.  Between any two steps other calls run, the clock *)
(* advances, and the call itself may die.                                  *)
(*                                                                         *)
(* The Governance Store and the Kernel's other checks are not represented: *)
(* an allowed decision is a choice of the environment.  A mandate is       *)
(* identified with the request it answers: a repeated request is answered  *)
(* from the first one's outcome and changes nothing.                       *)
(***************************************************************************)
EXTENDS GovernedAuthorityStore, SequencesExt

VARIABLES
    requests,   \* the request a mandate id was minted for, and how far it got
    mandates,   \* the mandate stores: status and execution log, or None
    revoking    \* revocations that are durable and still releasing capacity

issuanceVars == <<requests, mandates, revoking>>

\* A request names its rights without repetition.
DistinctRights == {rights \in RightLists : \A i, j \in DOMAIN rights : rights[i] = rights[j] => i = j}

TransferTerms ==
    {t \in [action : {"TRANSFER"}, from : Holders, to : Holders, rights : DistinctRights,
            scope : Requestable, partial : BOOLEAN] : t.from # t.to}

\* The holder is whose authority is pledged, whoever asked.
CollateralTerms ==
    [action : {"COLLATERALIZE"}, from : Holders, rights : DistinctRights,
     scope : Requestable, additional : BOOLEAN]

Terms == TransferTerms \cup CollateralTerms

Phases == {"reserving", "issuing", "undoing", "settled"}

Request == [terms : Terms, from : Nat, until : Nat, phase : Phases,
            next : 1..(MaxRights + 1), acquired : Seq(Rights)]

Mandate == [status : {"active", "revoked"}, log : Seq(Executions \cup Arrangements)]

ASSUME IssuanceAssumption == None \notin Request \cup Mandate

IssuanceTypeOK ==
    /\ TypeOK
    /\ requests \in [Mandates -> Request \cup {None}]
    /\ mandates \in [Mandates -> Mandate \cup {None}]
    /\ revoking \subseteq Mandates

IssuanceInit ==
    /\ Init
    /\ requests = [m \in Mandates |-> None]
    /\ mandates = [m \in Mandates |-> None]
    /\ revoking = {}

-----------------------------------------------------------------------------
(* requestTransfer and requestCollateralization.                           *)

Enrolled == \E k \in Slots : positions[k] # None

\* The Kernel's coverage check; an unenrolled resource is deferred to the
\* checks that were there before positions existed.
Covered(t) ==
    Enrolled => \A i \in DOMAIN t.rights :
        positions[<<t.from, t.rights[i]>>] # None /\ Within(t.scope, positions[<<t.from, t.rights[i]>>])

InPhase(m, phase) == requests[m] # None /\ requests[m].phase = phase

Submit(m, t, until) ==
    /\ requests[m] = None
    /\ Covered(t)
    /\ requests' = [requests EXCEPT ![m] =
           [terms |-> t, from |-> now, until |-> until, phase |-> "reserving",
            next |-> 1, acquired |-> << >>]]
    /\ UNCHANGED vars /\ UNCHANGED <<mandates, revoking>>

Advanced(q) ==
    [q EXCEPT !.next = @ + 1, !.phase = IF q.next = Len(q.terms.rights) THEN "issuing" ELSE @]

NextRight(m) == requests[m].terms.rights[requests[m].next]

\* Variants named ...Faulty are mistakes an implementation could make; no action
\* uses one.  This one reserves for an instant and not for the mandate's window.
ReserveFaulty(m) ==
    /\ InPhase(m, "reserving")
    /\ AcquireReservation(m, NextRight(m), requests[m].terms.from, requests[m].terms.scope,
                          requests[m].from, now + 1)
    /\ requests' = [requests EXCEPT ![m] =
           [Advanced(requests[m]) EXCEPT !.acquired = Append(@, NextRight(m))]]
    /\ UNCHANGED <<mandates, revoking>>

\* Forgets what it acquired.
ReserveUnlistedFaulty(m) ==
    /\ InPhase(m, "reserving")
    /\ AcquireReservation(m, NextRight(m), requests[m].terms.from, requests[m].terms.scope,
                          requests[m].from, requests[m].until)
    /\ requests' = [requests EXCEPT ![m] = Advanced(@)]
    /\ UNCHANGED <<mandates, revoking>>

Reserve(m) ==
    /\ InPhase(m, "reserving")
    /\ AcquireReservation(m, NextRight(m), requests[m].terms.from, requests[m].terms.scope,
                          requests[m].from, requests[m].until)
    /\ requests' = [requests EXCEPT ![m] =
           [Advanced(requests[m]) EXCEPT !.acquired = Append(@, NextRight(m))]]
    /\ UNCHANGED <<mandates, revoking>>

ReserveNotEnrolled(m) ==
    /\ InPhase(m, "reserving")
    /\ ~Enrolled
    /\ requests' = [requests EXCEPT ![m] = Advanced(@)]
    /\ UNCHANGED vars /\ UNCHANGED <<mandates, revoking>>

Issue(m) ==
    /\ InPhase(m, "issuing")
    /\ mandates' = [mandates EXCEPT ![m] = [status |-> "active", log |-> << >>]]
    /\ requests' = [requests EXCEPT ![m].phase = "settled"]
    /\ UNCHANGED vars /\ UNCHANGED revoking

\* A reservation was refused, or a store failed: give back what was acquired.
Fail(m) ==
    /\ InPhase(m, "reserving") \/ InPhase(m, "issuing")
    /\ requests' = [requests EXCEPT ![m].phase = "undoing"]
    /\ UNCHANGED vars /\ UNCHANGED <<mandates, revoking>>

\* Starts the list over instead of going on to the next entry.
UndoFaulty(m) ==
    /\ InPhase(m, "undoing")
    /\ requests[m].acquired # << >>
    /\ ReleaseReservation(m, Head(requests[m].acquired))
    /\ UNCHANGED issuanceVars

Undo(m) ==
    /\ InPhase(m, "undoing")
    /\ requests[m].acquired # << >>
    /\ ReleaseReservation(m, Head(requests[m].acquired))
    /\ requests' = [requests EXCEPT ![m].acquired = Tail(@)]
    /\ UNCHANGED <<mandates, revoking>>

UndoDone(m) ==
    /\ InPhase(m, "undoing")
    /\ requests[m].acquired = << >>
    /\ requests' = [requests EXCEPT ![m].phase = "settled"]
    /\ UNCHANGED vars /\ UNCHANGED <<mandates, revoking>>

\* The process dies, or the compensating release itself fails and is swallowed.
Abandon(m) ==
    /\ requests[m] # None
    /\ requests[m].phase # "settled"
    /\ requests' = [requests EXCEPT ![m].phase = "settled"]
    /\ UNCHANGED vars /\ UNCHANGED <<mandates, revoking>>

-----------------------------------------------------------------------------
(* revokeMandate.                                                          *)

\* Answers a repeated revocation without releasing what the first one left.
RevokeFaulty(m) ==
    /\ mandates[m] # None
    /\ mandates[m].status = "active"
    /\ m \notin revoking
    /\ mandates' = [mandates EXCEPT ![m].status = "revoked"]
    /\ revoking' = revoking \cup {m}
    /\ UNCHANGED vars /\ UNCHANGED requests

\* Revoking again is answered from the record, and releases again.
Revoke(m) ==
    /\ mandates[m] # None
    /\ m \notin revoking
    /\ mandates' = [mandates EXCEPT ![m].status = "revoked"]
    /\ revoking' = revoking \cup {m}
    /\ UNCHANGED vars /\ UNCHANGED requests

HeldActive(m) == {r \in Rights : reservations[<<m, r>>] # None /\ reservations[<<m, r>>].status = "active"}

ReleaseHeld(m) ==
    /\ m \in revoking
    /\ \E r \in HeldActive(m) : ReleaseReservation(m, r)
    /\ UNCHANGED issuanceVars

\* The last capacity is released, or the call dies before it.
RevokeEnds(m) ==
    /\ m \in revoking
    /\ revoking' = revoking \ {m}
    /\ UNCHANGED vars /\ UNCHANGED <<requests, mandates>>

-----------------------------------------------------------------------------
Environment == (Bootstrap \/ Tick) /\ UNCHANGED issuanceVars

Submission(terms) ==
    \E m \in Mandates, t \in terms, until \in (now + 1)..(MaxTime + 1) : Submit(m, t, until)

RequestStep(m) ==
    Reserve(m) \/ ReserveNotEnrolled(m) \/ Issue(m) \/ Fail(m) \/ Undo(m) \/ UndoDone(m)

MandateStep(m) == RequestStep(m) \/ Abandon(m) \/ Revoke(m) \/ ReleaseHeld(m) \/ RevokeEnds(m)

RevokeAgain(m) == mandates[m] # None /\ mandates[m].status = "revoked" /\ Revoke(m)

-----------------------------------------------------------------------------
(* Safety.                                                                 *)

Live(m) == mandates[m] # None /\ mandates[m].status = "active"

ReservationOf(m) ==
    [holder |-> requests[m].terms.from, scope |-> requests[m].terms.scope,
     from |-> requests[m].from, until |-> requests[m].until, status |-> "active"]

\* A mandate that can still be exercised and has not been is backed, right by
\* right, by a commitment of its holder for the whole of its terms and the
\* whole of its window, whatever failed or was retried on the way to issuing
\* it.  Only a right asked for while the resource was not enrolled has none.
MandateBacked ==
    \A m \in Mandates : (Live(m) /\ mandates[m].log = << >>) =>
        \A r \in RightsOf(requests[m].acquired) : reservations[<<m, r>>] = ReservationOf(m)

\* Until its mandate exists, what a request holds is exactly what its call
\* remembers having acquired, so that giving back the list gives back all of
\* it, and an orderly failure leaves no capacity withheld for nobody.
CompensationKnowsAll ==
    \A m \in Mandates : (requests[m] # None /\ mandates[m] = None) =>
        HeldActive(m) = RightsOf(requests[m].acquired)

-----------------------------------------------------------------------------
(* Liveness.                                                               *)

\* Every request in flight comes to an end.
RequestsSettle == \A m \in Mandates : (requests[m] # None) ~> InPhase(m, "settled")

\* A revoked mandate ends up holding no capacity, even if the call that revoked
\* it died between the two stores.
RevocationFreesCapacity ==
    \A m \in Mandates :
        (mandates[m] # None /\ mandates[m].status = "revoked") ~> (HeldActive(m) = {})
=============================================================================
