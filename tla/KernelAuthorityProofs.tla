--------------------------- MODULE KernelAuthorityProofs ---------------------------
(***************************************************************************)
(* What the store of kernel authority and the world built from it          *)
(* guarantee for any number of entities, keys and concurrent calls.        *)
(***************************************************************************)
EXTENDS KernelAuthority, SequenceTheorems, TLAPS

-----------------------------------------------------------------------------
(* The actions, taken apart once.                                          *)

Provisioning ==
    \E o \in Operators, e \in Entities, k \in Keys \cup {None} : \E terms \in TermsOf(e) : Provision(o, e, terms, k)

Revoking == \E o \in Operators, e \in Entities, k \in Keys \cup {None} : Revoke(o, e, k)

Replaying ==
    \E o \in Operators, e \in Entities, k \in Keys \cup {None} :
        \E payload \in TermsOf(e) \cup {Revoked} : Replay(o, e, payload, k)

Reading == \E o \in Operators : ReadRecords(o)

LEMMA NextIsOneOf ==
    AuthorityNext <=> Provisioning \/ Revoking \/ Replaying \/ Reading \/ Publish \/ Crash \/ Start
  BY DEF AuthorityNext, Provisioning, Revoking, Replaying, Reading

Payloads == {Revoked} \cup UNION {TermsOf(e) : e \in Entities}

Claims == [entity : Entities, payload : Payloads]

Reload == [operator : Operators, snapshot : [Entities -> Record]]

\* Terms are the terms of some record, and a revocation is none.
LEMMA TermsAreTerms ==
    ASSUME NEW e \in Entities, NEW terms \in TermsOf(e)
    PROVE  /\ terms \in [subject : Subjects \cup {None}, needs : Entities \cup {None, Unmet}]
           /\ terms # Revoked
           /\ terms.subject \in Subjects \cup {None}
           /\ terms.subject # None => e \in Actors
  <1>1. terms \in [subject : Subjects \cup {None}, needs : Entities \cup {None, Unmet}]
    BY DEF TermsOf, Entities
  <1>2. terms # Revoked
    BY <1>1, KernelAuthorityAssumption DEF Entities
  <1>3. terms.subject # None => e \in Actors
    BY DEF TermsOf
  <1>4. QED
    BY <1>1, <1>2, <1>3

\* Each reload in flight is that of a call.
LEMMA ReloadsTyped ==
    ASSUME AuthorityTypeOK
    PROVE  /\ reloads \in Seq(Reload) /\ DOMAIN reloads = 1..Len(reloads) /\ Len(reloads) \in Nat
           /\ \A i \in DOMAIN reloads : reloads[i].operator \in Operators
  <1>1. reloads \in Seq(Reload)
    BY DEF AuthorityTypeOK, Reload
  <1>2. ASSUME NEW i \in DOMAIN reloads
        PROVE  reloads[i] \in Reload
    BY <1>1, <1>2, ElementOfSeq
  <1>3. QED
    BY <1>1, <1>2 DEF Reload

\* A key is pinned to a claim.
LEMMA ClaimIsClaim ==
    ASSUME AuthorityTypeOK, NEW e \in Entities, NEW payload \in TermsOf(e) \cup {Revoked},
           NEW k \in Keys \cup {None}
    PROVE  Pinned(k, e, payload) \in [Keys -> {None} \cup Claims]
  <1>1. Claim(e, payload) \in Claims
    BY DEF Claim, Claims, Payloads
  <1>2. claims \in [Keys -> {None} \cup Claims]
    BY DEF AuthorityTypeOK, Claims, Payloads
  <1>3. k # None => k \in Keys
    OBVIOUS
  <1>4. QED
    BY <1>1, <1>2, <1>3 DEF Pinned

-----------------------------------------------------------------------------
(* Type correctness.                                                       *)

LEMMA TypeInit == AuthorityInit => AuthorityTypeOK
  BY DEF AuthorityInit, AuthorityTypeOK, Nothing, NoRecord, Record

LEMMA TypeStep == AuthorityTypeOK /\ [AuthorityNext]_authorityVars => AuthorityTypeOK'
  <1> SUFFICES ASSUME AuthorityTypeOK, [AuthorityNext]_authorityVars PROVE AuthorityTypeOK'
    OBVIOUS
  <1> USE DEF AuthorityTypeOK
  <1>1. CASE Provisioning
    <2>0. PICK o \in Operators, e \in Entities, k \in Keys \cup {None} :
                  \E terms \in TermsOf(e) : Provision(o, e, terms, k)
      BY <1>1 DEF Provisioning
    <2>1. PICK terms \in TermsOf(e) : Provision(o, e, terms, k)
      BY <2>0
    <2>2. records' \in [Entities -> Record]
      BY <2>1, TermsAreTerms DEF Provision, Record
    <2>3. claims' \in [Keys -> {None} \cup Claims]
      BY <2>1, ClaimIsClaim DEF Provision
    <2>4. subjects' \in [Subjects -> Actors \cup {None}]
      BY <2>1, TermsAreTerms DEF Provision
    <2>5. operators' \in [Operators -> {"idle", "committed", "reloading"}]
      BY <2>1 DEF Provision, Committed
    <2>6. QED
      BY <2>1, <2>2, <2>3, <2>4, <2>5 DEF Provision, Claims, Payloads
  <1>2. CASE Revoking
    <2>1. PICK o \in Operators, e \in Entities, k \in Keys \cup {None} : Revoke(o, e, k)
      BY <1>2 DEF Revoking
    <2>2. records' \in [Entities -> Record]
      BY <2>1 DEF Revoke, Record
    <2>3. claims' \in [Keys -> {None} \cup Claims]
      BY <2>1, ClaimIsClaim DEF Revoke
    <2>4. operators' \in [Operators -> {"idle", "committed", "reloading"}]
      BY <2>1 DEF Revoke, Committed
    <2>5. QED
      BY <2>1, <2>2, <2>3, <2>4 DEF Revoke, Claims, Payloads
  <1>3. CASE Replaying
    <2>0. PICK o \in Operators, e \in Entities, k \in Keys \cup {None} :
                  \E payload \in TermsOf(e) \cup {Revoked} : Replay(o, e, payload, k)
      BY <1>3 DEF Replaying
    <2>1. PICK payload \in TermsOf(e) \cup {Revoked} : Replay(o, e, payload, k)
      BY <2>0
    <2>2. claims' \in [Keys -> {None} \cup Claims]
      BY <2>1, ClaimIsClaim DEF Replay
    <2>3. QED
      BY <2>1, <2>2 DEF Replay, Claims, Payloads
  <1>4. CASE Reading
    <2>1. PICK o \in Operators : ReadRecords(o)
      BY <1>4 DEF Reading
    <2>2. [operator |-> o, snapshot |-> records] \in Reload
      BY DEF Reload
    <2>3. reloads' \in Seq(Reload)
      BY <2>1, <2>2, AppendProperties DEF ReadRecords, Reload
    <2>4. QED
      BY <2>1, <2>3 DEF ReadRecords, storeVars, Reload
  <1>5. CASE Publish
    <2>1. reloads \in Seq(Reload) /\ reloads # << >>
      BY <1>5 DEF Publish, Reload
    <2>2. Head(reloads) \in Reload /\ Tail(reloads) \in Seq(Reload)
      BY <2>1, HeadTailProperties
    <2>3. QED
      BY <1>5, <2>2 DEF Publish, storeVars, Reload
  <1>6. CASE Crash
    BY <1>6 DEF Crash, storeVars, Nothing, NoRecord, Record
  <1>7. CASE Start
    BY <1>7 DEF Start, storeVars
  <1>8. CASE UNCHANGED authorityVars
    BY <1>8 DEF authorityVars, storeVars
  <1>9. QED
    BY <1>1, <1>2, <1>3, <1>4, <1>5, <1>6, <1>7, <1>8, NextIsOneOf

\* The store, the calls and the world are well typed in every reachable state.
THEOREM AuthorityTypeCorrect == AuthoritySpec => []AuthorityTypeOK
  BY TypeInit, TypeStep, PTL DEF AuthoritySpec

-----------------------------------------------------------------------------
(* What the store is asked.                                                *)

\* A provisioned entity was absent, a revoked one active, and no other is touched;
\* a key is pinned to what is true afterwards.
StoreMoves(e, k, payload) ==
    /\ e \in Entities
    /\ \A d \in Entities \ {e} : records'[d] = records[d]
    /\ \/ /\ payload \in TermsOf(e) /\ Absent(records, e)
          /\ records'[e] = [status |-> "active", terms |-> payload]
       \/ /\ payload = Revoked /\ Active(records, e)
          /\ records'[e] = [status |-> "revoked", terms |-> records[e].terms]
       \/ /\ payload = Revoked /\ records[e].status = "revoked" /\ UNCHANGED records
       \/ /\ payload \in TermsOf(e) /\ Active(records, e) /\ records[e].terms = payload
          /\ UNCHANGED records
       \/ Claimed(k) /\ UNCHANGED records
    /\ claims' = Pinned(k, e, payload)

LEMMA OperationMoves ==
    ASSUME AuthorityTypeOK, [AuthorityNext]_authorityVars
    PROVE  \/ UNCHANGED <<records, claims>>
           \/ \E e \in Entities, k \in Keys \cup {None} :
                 \E payload \in TermsOf(e) \cup {Revoked} : StoreMoves(e, k, payload)
  <1>1. CASE Provisioning
    <2>1. PICK o \in Operators, e \in Entities, k \in Keys \cup {None} :
                  \E terms \in TermsOf(e) : Provision(o, e, terms, k)
      BY <1>1 DEF Provisioning
    <2>2. PICK terms \in TermsOf(e) : Provision(o, e, terms, k)
      BY <2>1
    <2>3. StoreMoves(e, k, terms)
      BY <2>2 DEF Provision, Provisionable, StoreMoves, AuthorityTypeOK
    <2>4. QED
      BY <2>3
  <1>2. CASE Revoking
    <2>1. PICK o \in Operators, e \in Entities, k \in Keys \cup {None} : Revoke(o, e, k)
      BY <1>2 DEF Revoking
    <2>2. records[e] \in Record /\ records'[e] = [records[e] EXCEPT !.status = "revoked"]
      BY <2>1 DEF Revoke, AuthorityTypeOK
    <2>3. StoreMoves(e, k, Revoked)
      BY <2>1, <2>2 DEF Revoke, Revocable, StoreMoves, AuthorityTypeOK, Record
    <2>4. QED
      BY <2>3
  <1>3. CASE Replaying
    <2>1. PICK o \in Operators, e \in Entities, k \in Keys \cup {None} :
                  \E payload \in TermsOf(e) \cup {Revoked} : Replay(o, e, payload, k)
      BY <1>3 DEF Replaying
    <2>2. PICK payload \in TermsOf(e) \cup {Revoked} : Replay(o, e, payload, k)
      BY <2>1
    <2>3. StoreMoves(e, k, payload)
      BY <2>2 DEF Replay, Repeated, StoreMoves
    <2>4. QED
      BY <2>3
  <1>4. CASE Reading \/ Publish \/ Crash \/ Start \/ UNCHANGED authorityVars
    BY <1>4 DEF Reading, ReadRecords, Publish, Crash, Start, authorityVars, storeVars
  <1>5. QED
    BY <1>1, <1>2, <1>3, <1>4, NextIsOneOf

LEMMA ClaimsStep ==
    AuthorityTypeOK /\ ClaimsHonoured /\ [AuthorityNext]_authorityVars => ClaimsHonoured'
  <1> SUFFICES ASSUME AuthorityTypeOK, ClaimsHonoured, [AuthorityNext]_authorityVars,
                      NEW key \in Keys, claims'[key] # None
               PROVE  IF claims'[key].payload = Revoked
                        THEN records'[claims'[key].entity].status = "revoked"
                        ELSE /\ ~Absent(records', claims'[key].entity)
                             /\ records'[claims'[key].entity].terms = claims'[key].payload
    BY DEF ClaimsHonoured, Absent
  <1>1. CASE UNCHANGED <<records, claims>>
    BY <1>1 DEF ClaimsHonoured, Absent
  <1>2. ASSUME NEW e \in Entities, NEW k \in Keys \cup {None},
               NEW payload \in TermsOf(e) \cup {Revoked}, StoreMoves(e, k, payload)
        PROVE  IF claims'[key].payload = Revoked
                 THEN records'[claims'[key].entity].status = "revoked"
                 ELSE /\ ~Absent(records', claims'[key].entity)
                      /\ records'[claims'[key].entity].terms = claims'[key].payload
    <2>1. payload \in TermsOf(e) => payload # Revoked
      BY TermsAreTerms
    <2>2. CASE claims'[key] = claims[key]
      <3>1. claims[key] # None /\ claims[key].entity \in Entities
        BY <2>2 DEF AuthorityTypeOK
      <3>2. CASE claims[key].entity # e
        <4>1. records'[claims[key].entity] = records[claims[key].entity]
          BY <1>2, <3>1, <3>2 DEF StoreMoves
        <4>2. QED
          BY <2>2, <3>1, <4>1 DEF ClaimsHonoured, Absent
      <3>3. CASE claims[key].entity = e
        BY <1>2, <2>2, <3>1, <3>3 DEF ClaimsHonoured, Absent, Active, StoreMoves
      <3>4. QED
        BY <3>2, <3>3
    <2>3. CASE claims'[key] # claims[key]
      <3>1. claims'[key] = Claim(e, payload) /\ ~Claimed(k)
        BY <1>2, <2>3 DEF StoreMoves, Pinned, AuthorityTypeOK
      <3>2. claims'[key].entity = e /\ claims'[key].payload = payload
        BY <3>1 DEF Claim
      <3>3. QED
        BY <1>2, <2>1, <3>1, <3>2 DEF StoreMoves, Absent, Active
    <2>4. QED
      BY <2>2, <2>3
  <1>3. QED
    BY <1>1, <1>2, OperationMoves

\* A key answers for what is on record, in every reachable state.
THEOREM ClaimsAreHonoured == AuthoritySpec => []ClaimsHonoured
  <1>1. AuthorityInit => ClaimsHonoured
    BY DEF AuthorityInit, ClaimsHonoured
  <1>2. QED
    BY <1>1, TypeInit, TypeStep, ClaimsStep, PTL DEF AuthoritySpec

\* What a record says survives every step: its terms, and its revocation.
LEMMA RecordsNarrow ==
    ASSUME AuthorityTypeOK, [AuthorityNext]_authorityVars, NEW e \in Entities
    PROVE  /\ ~Absent(records, e) => ~Absent(records', e) /\ records'[e].terms = records[e].terms
           /\ records[e].status = "revoked" => records'[e].status = "revoked"
  <1>1. CASE UNCHANGED <<records, claims>>
    BY <1>1 DEF Absent
  <1>2. ASSUME NEW d \in Entities, NEW k \in Keys \cup {None},
               NEW payload \in TermsOf(d) \cup {Revoked}, StoreMoves(d, k, payload)
        PROVE  /\ ~Absent(records, e) => ~Absent(records', e) /\ records'[e].terms = records[e].terms
               /\ records[e].status = "revoked" => records'[e].status = "revoked"
    <2>1. CASE d # e
      BY <1>2, <2>1 DEF StoreMoves, Absent
    <2>2. CASE d = e
      BY <1>2, <2>2 DEF StoreMoves, Absent, Active
    <2>3. QED
      BY <2>1, <2>2
  <1>3. QED
    BY <1>1, <1>2, OperationMoves

LEMMA SubjectsNarrow ==
    ASSUME AuthorityTypeOK, [AuthorityNext]_authorityVars, NEW s \in Subjects, subjects[s] # None
    PROVE  subjects'[s] = subjects[s]
  <1>1. CASE Provisioning
    <2>1. PICK o \in Operators, e \in Entities, k \in Keys \cup {None} :
                  \E terms \in TermsOf(e) : Provision(o, e, terms, k)
      BY <1>1 DEF Provisioning
    <2>2. PICK terms \in TermsOf(e) : Provision(o, e, terms, k)
      BY <2>1
    <2>3. QED
      BY <2>2 DEF Provision, Provisionable, AuthorityTypeOK
  <1>2. CASE Revoking \/ Replaying
    BY <1>2 DEF Revoking, Replaying, Revoke, Replay
  <1>3. CASE Reading \/ Publish \/ Crash \/ Start \/ UNCHANGED authorityVars
    BY <1>3 DEF Reading, ReadRecords, Publish, Crash, Start, authorityVars, storeVars
  <1>4. QED
    BY <1>1, <1>2, <1>3, NextIsOneOf

\* No step widens what was provisioned, revives what was revoked, or binds a subject
\* to a second actor.
THEOREM OnlyNarrows == AuthoritySpec => AuthorityOnlyNarrows
  <1>1. ASSUME AuthorityTypeOK, [AuthorityNext]_authorityVars
        PROVE  [/\ \A e \in Entities : ~Absent(records, e) => records'[e].terms = records[e].terms
                /\ \A e \in Entities : records[e].status = "revoked" => records'[e].status = "revoked"
                /\ \A s \in Subjects : subjects[s] # None => subjects'[s] = subjects[s]]_authorityVars
    BY <1>1, RecordsNarrow, SubjectsNarrow
  <1>2. QED
    BY <1>1, TypeInit, TypeStep, PTL DEF AuthoritySpec, AuthorityOnlyNarrows

-----------------------------------------------------------------------------
(* The world the Kernel decides from.                                      *)

Backed(rs) ==
    \A e \in Entities : ~Absent(rs, e) => ~Absent(records, e) /\ rs[e].terms = records[e].terms

\* WorldIsWhole is inductive once it is also said of the reloads in flight: what they
\* have read may be out of date, but is never contradicted by the store.
WorldInv ==
    /\ Backed(world) /\ Hydratable(world)
    /\ \A i \in DOMAIN reloads : Backed(reloads[i].snapshot)

LEMMA BackedStays ==
    ASSUME AuthorityTypeOK, [AuthorityNext]_authorityVars, NEW rs, Backed(rs)
    PROVE  \A e \in Entities : ~Absent(rs, e) => ~Absent(records', e) /\ rs[e].terms = records'[e].terms
  BY RecordsNarrow DEF Backed

LEMMA NothingIsHydratable == Hydratable(Nothing)
  <1>1. Present(Nothing) = {}
    BY DEF Present, Nothing, NoRecord, Absent
  <1>2. QED
    BY <1>1 DEF Hydratable, Acyclic

LEMMA WorldInit == AuthorityInit => WorldInv
  BY NothingIsHydratable DEF AuthorityInit, WorldInv, Backed, Nothing, NoRecord, Absent

LEMMA WorldStep == AuthorityTypeOK /\ WorldInv /\ [AuthorityNext]_authorityVars => WorldInv'
  <1> SUFFICES ASSUME AuthorityTypeOK, WorldInv, [AuthorityNext]_authorityVars PROVE WorldInv'
    OBVIOUS
  <1>0. ASSUME NEW rs, Backed(rs)
        PROVE  \A e \in Entities : ~Absent(rs, e) => ~Absent(records', e) /\ rs[e].terms = records'[e].terms
    BY <1>0, BackedStays
  <1>1. CASE Provisioning \/ Revoking \/ Replaying \/ UNCHANGED authorityVars
    <2>1. UNCHANGED <<world, reloads>>
      BY <1>1 DEF Provisioning, Revoking, Replaying, Provision, Revoke, Replay, authorityVars
    <2>2. QED
      BY <1>0, <2>1 DEF WorldInv, Backed
  <1>2. CASE Reading
    <2>1. PICK o \in Operators : ReadRecords(o)
      BY <1>2 DEF Reading
    <2>2. reloads \in Seq(Reload) /\ [operator |-> o, snapshot |-> records] \in Reload
      BY DEF AuthorityTypeOK, Reload
    <2>3. \A i \in DOMAIN reloads' : reloads'[i].snapshot = records \/ (i \in DOMAIN reloads /\ reloads'[i] = reloads[i])
      <3>1. /\ DOMAIN reloads' = 1..(Len(reloads) + 1)
            /\ reloads'[Len(reloads) + 1].snapshot = records
            /\ \A i \in 1..Len(reloads) : reloads'[i] = reloads[i]
        BY <2>1, <2>2, AppendProperties DEF ReadRecords
      <3>2. ASSUME NEW i \in 1..(Len(reloads) + 1)
            PROVE  reloads'[i].snapshot = records \/ (i \in DOMAIN reloads /\ reloads'[i] = reloads[i])
        <4>1. CASE i = Len(reloads) + 1
          BY <3>1, <4>1
        <4>2. CASE i \in 1..Len(reloads)
          BY <3>1, <4>2, ReloadsTyped
        <4>3. QED
          BY <3>2, <4>1, <4>2, ReloadsTyped
      <3>3. QED
        BY <3>1, <3>2
    <2>4. UNCHANGED <<records, world>>
      BY <2>1 DEF ReadRecords, storeVars
    <2>5. QED
      BY <2>3, <2>4 DEF WorldInv, Backed
  <1>3. CASE Publish
    <2>1. reloads \in Seq(Reload) /\ reloads # << >>
      BY <1>3 DEF Publish, AuthorityTypeOK, Reload
    <2>2. \A i \in DOMAIN Tail(reloads) : i + 1 \in DOMAIN reloads /\ Tail(reloads)[i] = reloads[i + 1]
      BY <2>1, HeadTailProperties
    <2>3. 1 \in DOMAIN reloads /\ Head(reloads) = reloads[1]
      BY <2>1
    <2>4. Backed(world') /\ Hydratable(world')
      BY <1>3, <2>3 DEF Publish, WorldInv
    <2>5. UNCHANGED records /\ reloads' = Tail(reloads)
      BY <1>3 DEF Publish, storeVars
    <2>6. QED
      BY <2>2, <2>4, <2>5 DEF WorldInv, Backed, Hydratable, Present, Acyclic
  <1>4. CASE Crash
    BY <1>4, NothingIsHydratable
       DEF Crash, WorldInv, Backed, Nothing, NoRecord, Absent, Hydratable, Present, Acyclic
  <1>5. CASE Start
    <2>1. UNCHANGED <<records, reloads>>
      BY <1>5 DEF Start, storeVars
    <2>2. Backed(world') /\ Hydratable(world')
      BY <1>5 DEF Start, WorldInv, Backed
    <2>3. QED
      BY <2>1, <2>2 DEF WorldInv, Backed, Hydratable, Present, Acyclic
  <1>6. QED
    BY <1>1, <1>2, <1>3, <1>4, <1>5, NextIsOneOf

\* The Kernel decides from a whole world, backed by the store, in every reachable state.
THEOREM WorldAlwaysWhole == AuthoritySpec => []WorldIsWhole
  <1>1. WorldInv => WorldIsWhole
    BY DEF WorldInv, WorldIsWhole, Backed
  <1>2. QED
    BY <1>1, TypeInit, TypeStep, WorldInit, WorldStep, PTL DEF AuthoritySpec

-----------------------------------------------------------------------------
(* What the world is once the calls have ended.                            *)

\* The reloads in flight are those of the calls that wait for one, each its own, and
\* there are none while there is no world to reload.
ReloadsAreCalls ==
    /\ host # "up" => reloads = << >> /\ \A o \in Operators : operators[o] = "idle"
    /\ \A i \in DOMAIN reloads : operators[reloads[i].operator] = "reloading"
    /\ \A i, j \in DOMAIN reloads : i # j => reloads[i].operator # reloads[j].operator

\* Between the writes, the last of the reloads in flight has read what the store
\* holds now; when there is none, the world has.
LastReloadCurrent ==
    (host = "up" /\ \A o \in Operators : operators[o] # "committed") =>
        IF reloads = << >> THEN Hydratable(records) => world = records
                           ELSE reloads[Len(reloads)].snapshot = records

FollowInv == ReloadsAreCalls /\ LastReloadCurrent

LEMMA FollowInit == AuthorityInit => FollowInv
  BY DEF AuthorityInit, FollowInv, ReloadsAreCalls, LastReloadCurrent

\* A write leaves its call with a reload to make, unless there is no world.
LEMMA WriteFollows ==
    ASSUME AuthorityTypeOK, FollowInv, NEW o \in Operators, operators[o] = "idle",
           Committed(o), UNCHANGED <<reloads, world, host>>
    PROVE  FollowInv'
  <1>1. ASSUME NEW i \in DOMAIN reloads
        PROVE  reloads[i].operator # o
    BY <1>1 DEF FollowInv, ReloadsAreCalls
  <1>2. ASSUME NEW i \in DOMAIN reloads
        PROVE  reloads[i].operator \in Operators
    BY <1>2, ReloadsTyped
  <1>3. ReloadsAreCalls'
    BY <1>1, <1>2 DEF FollowInv, ReloadsAreCalls, Committed, AuthorityTypeOK
  <1>4. LastReloadCurrent'
    BY DEF LastReloadCurrent, Committed, AuthorityTypeOK
  <1>5. QED
    BY <1>3, <1>4 DEF FollowInv

LEMMA FollowStep == AuthorityTypeOK /\ FollowInv /\ [AuthorityNext]_authorityVars => FollowInv'
  <1> SUFFICES ASSUME AuthorityTypeOK, FollowInv, [AuthorityNext]_authorityVars PROVE FollowInv'
    OBVIOUS
  <1>1. CASE Provisioning \/ Revoking
    BY <1>1, WriteFollows DEF Provisioning, Revoking, Provision, Revoke, Serving
  <1>2. CASE Replaying \/ UNCHANGED authorityVars
    BY <1>2 DEF Replaying, Replay, authorityVars, storeVars, FollowInv, ReloadsAreCalls, LastReloadCurrent
  <1>3. CASE Reading
    <2>1. PICK o \in Operators : ReadRecords(o)
      BY <1>3 DEF Reading
    <2>2. reloads \in Seq(Reload) /\ [operator |-> o, snapshot |-> records] \in Reload
      BY DEF AuthorityTypeOK, Reload
    <2>3. DOMAIN reloads = 1..Len(reloads) /\ Len(reloads) \in Nat
      BY <2>2
    <2>4. /\ DOMAIN reloads' = 1..(Len(reloads) + 1) /\ Len(reloads') = Len(reloads) + 1
          /\ reloads' # << >>
          /\ reloads'[Len(reloads) + 1] = [operator |-> o, snapshot |-> records]
          /\ \A i \in DOMAIN reloads : reloads'[i] = reloads[i]
      BY <2>1, <2>2, <2>3, AppendProperties DEF ReadRecords
    <2>5. \A i \in DOMAIN reloads : reloads[i].operator # o /\ reloads[i].operator \in Operators
      BY <2>1, ReloadsTyped DEF ReadRecords, FollowInv, ReloadsAreCalls
    <2>6. host = "up" /\ UNCHANGED <<records, host>> /\ operators' = [operators EXCEPT ![o] = "reloading"]
      BY <2>1 DEF ReadRecords, storeVars, FollowInv, ReloadsAreCalls
    <2>7. ReloadsAreCalls'
      <3>1. ASSUME NEW i \in DOMAIN reloads'
            PROVE  operators'[reloads'[i].operator] = "reloading"
        <4>1. CASE i \in DOMAIN reloads
          BY <2>4, <2>5, <2>6, <4>1 DEF FollowInv, ReloadsAreCalls, AuthorityTypeOK
        <4>2. CASE i = Len(reloads) + 1
          BY <2>4, <2>6, <4>2 DEF AuthorityTypeOK
        <4>3. QED
          BY <2>3, <2>4, <3>1, <4>1, <4>2
      <3>2. ASSUME NEW i \in DOMAIN reloads', NEW j \in DOMAIN reloads', i # j
            PROVE  reloads'[i].operator # reloads'[j].operator
        BY <2>3, <2>4, <2>5, <3>2 DEF FollowInv, ReloadsAreCalls
      <3>3. QED
        BY <2>6, <3>1, <3>2 DEF ReloadsAreCalls
    <2>8. LastReloadCurrent'
      BY <2>4, <2>6 DEF LastReloadCurrent
    <2>9. QED
      BY <2>7, <2>8 DEF FollowInv
  <1>4. CASE Publish
    <2>1. reloads \in Seq(Reload) /\ reloads # << >>
      BY <1>4 DEF Publish, AuthorityTypeOK, Reload
    <2>2. /\ DOMAIN reloads = 1..Len(reloads) /\ Len(reloads) \in Nat \ {0}
          /\ Head(reloads) = reloads[1]
      BY <2>1
    <2>3. /\ Len(Tail(reloads)) = Len(reloads) - 1
          /\ DOMAIN Tail(reloads) = 1..(Len(reloads) - 1)
          /\ \A i \in 1..(Len(reloads) - 1) : Tail(reloads)[i] = reloads[i + 1]
      BY <2>1, HeadTailProperties
    <2>4. /\ reloads' = Tail(reloads)
          /\ operators' = [operators EXCEPT ![reloads[1].operator] = "idle"]
          /\ world' = IF Hydratable(reloads[1].snapshot) THEN reloads[1].snapshot ELSE world
          /\ UNCHANGED <<records, host>>
      BY <1>4, <2>2 DEF Publish, storeVars
    <2>5. \A i \in 1..Len(reloads) : reloads[i].operator \in Operators
      BY <2>2, ReloadsTyped
    <2>6. host = "up"
      BY <2>1 DEF FollowInv, ReloadsAreCalls
    <2>7. ReloadsAreCalls'
      <3>1. ASSUME NEW i \in DOMAIN reloads'
            PROVE  operators'[reloads'[i].operator] = "reloading"
        <4>1. i + 1 \in 1..Len(reloads) /\ i + 1 # 1 /\ reloads'[i] = reloads[i + 1]
          BY <2>2, <2>3, <2>4, <3>1
        <4>2. reloads[i + 1].operator # reloads[1].operator
          BY <2>2, <4>1 DEF FollowInv, ReloadsAreCalls
        <4>3. QED
          BY <2>2, <2>4, <2>5, <4>1, <4>2 DEF FollowInv, ReloadsAreCalls, AuthorityTypeOK
      <3>2. ASSUME NEW i \in DOMAIN reloads', NEW j \in DOMAIN reloads', i # j
            PROVE  reloads'[i].operator # reloads'[j].operator
        <4>1. /\ i + 1 \in 1..Len(reloads) /\ reloads'[i] = reloads[i + 1]
              /\ j + 1 \in 1..Len(reloads) /\ reloads'[j] = reloads[j + 1]
              /\ i + 1 # j + 1
          BY <2>2, <2>3, <2>4, <3>2
        <4>2. QED
          BY <2>2, <4>1 DEF FollowInv, ReloadsAreCalls
      <3>3. QED
        BY <2>4, <2>6, <3>1, <3>2 DEF ReloadsAreCalls
    <2>8. LastReloadCurrent'
      <3> SUFFICES ASSUME \A o \in Operators : operators'[o] # "committed"
                   PROVE  IF reloads' = << >> THEN Hydratable(records) => world' = records
                                              ELSE reloads'[Len(reloads')].snapshot = records
        BY <2>4 DEF LastReloadCurrent
      <3>1. operators[reloads[1].operator] = "reloading"
        BY <2>2 DEF FollowInv, ReloadsAreCalls
      <3>2. \A o \in Operators : operators[o] # "committed"
        BY <2>2, <2>4, <2>5, <3>1 DEF AuthorityTypeOK
      <3>3. reloads[Len(reloads)].snapshot = records
        BY <2>1, <2>6, <3>2 DEF FollowInv, LastReloadCurrent
      <3>4. CASE Len(reloads) = 1
        BY <2>1, <2>3, <2>4, <3>3, <3>4
      <3>5. CASE Len(reloads) # 1
        <4>1. Len(reloads) - 1 \in 1..(Len(reloads) - 1)
          BY <2>2, <3>5
        <4>2. reloads' # << >>
          BY <2>2, <2>3, <2>4, <4>1, EmptySeq
        <4>3. reloads'[Len(reloads')] = reloads[Len(reloads)]
          BY <2>2, <2>3, <2>4, <4>1
        <4>4. QED
          BY <3>3, <4>2, <4>3
      <3>6. QED
        BY <3>4, <3>5
    <2>9. QED
      BY <2>7, <2>8 DEF FollowInv
  <1>5. CASE Crash
    BY <1>5 DEF Crash, FollowInv, ReloadsAreCalls, LastReloadCurrent
  <1>6. CASE Start
    BY <1>6 DEF Start, storeVars, FollowInv, ReloadsAreCalls, LastReloadCurrent
  <1>7. QED
    BY <1>1, <1>2, <1>3, <1>4, <1>5, <1>6, NextIsOneOf

\* Once the calls have ended, however they interleaved, the world is the store's.
THEOREM WorldAlwaysFollows == AuthoritySpec => []WorldFollowsStore
  <1>1. AuthorityTypeOK /\ FollowInv => WorldFollowsStore
    <2> SUFFICES ASSUME AuthorityTypeOK, FollowInv, Quiet, Hydratable(records)
                 PROVE  world = records
      BY DEF WorldFollowsStore
    <2>1. reloads = << >>
      <3> SUFFICES ASSUME reloads # << >> PROVE FALSE
        OBVIOUS
      <3>1. 1 \in DOMAIN reloads /\ reloads[1].operator \in Operators
        BY ReloadsTyped
      <3>2. QED
        BY <3>1 DEF Quiet, FollowInv, ReloadsAreCalls
    <2>2. QED
      BY <2>1 DEF Quiet, FollowInv, LastReloadCurrent
  <1>2. QED
    BY <1>1, TypeInit, TypeStep, FollowInit, FollowStep, PTL DEF AuthoritySpec
=============================================================================
