------------------------------ MODULE KernelAuthority ------------------------------
(***************************************************************************)
(* src/enterprise/kernel-authority for one organization: the store of what *)
(* operators provisioned and revoked, and the world the Kernel decides     *)
(* from, a projection that is built again from all records after every     *)
(* committed write, and when the process starts.                           *)
(*                                                                         *)
(* An entity depends on at most one other here: the actor a credential is  *)
(* for, or the grant a grant or a delegation derives from.  An append does *)
(* not look at what the terms refer to; building the world does, and fails *)
(* as a whole.  The event chains are represented by the record they        *)
(* reconstruct to; tampering with them is left out.                        *)
(***************************************************************************)
EXTENDS Naturals, Sequences, FiniteSets

CONSTANTS
    Actors,         \* entities that may be bound to an external subject
    Credentials,    \* passports, tokens, grants and delegations
    Subjects,       \* external subjects
    Keys,           \* idempotency keys
    Operators,      \* calls of the provisioning service at a time
    None,           \* no subject, no dependency, no key
    Unmet,          \* stands for whatever else in its terms the engine refuses
    Revoked         \* the payload of a revocation

ASSUME KernelAuthorityAssumption ==
    /\ Actors \cap Credentials = {}
    /\ None \notin Actors \cup Credentials \cup Subjects \cup Keys
    /\ Unmet \notin Actors \cup Credentials \cup {None}
    /\ Revoked \notin [subject : Subjects \cup {None}, needs : Actors \cup Credentials \cup {None, Unmet}]

VARIABLES
    records,        \* the store: status and terms of each entity
    claims,         \* the store: what each idempotency key was used for
    subjects,       \* the store: the actor each external subject is bound to
    operators,      \* the calls in flight: idle, committed or reloading
    reloads,        \* the reloads that have read the store, in that order
    world,          \* the records the Kernel decides from
    host,           \* the process: down, up, or up without its world
    required        \* whether the host may run without its world; never changes

storeVars == <<records, claims, subjects>>
authorityVars == <<storeVars, operators, reloads, world, host, required>>

Entities == Actors \cup Credentials

\* What an entity may be provisioned with.
TermsOf(e) ==
    IF e \in Actors
      THEN [subject : Subjects \cup {None}, needs : {None}]
      ELSE [subject : {None}, needs : Entities \cup {None, Unmet}]

NoRecord == [status |-> "absent", terms |-> [subject |-> None, needs |-> None]]

Record == [status : {"absent", "active", "revoked"},
           terms : [subject : Subjects \cup {None}, needs : Entities \cup {None, Unmet}]]

Nothing == [e \in Entities |-> NoRecord]

AuthorityTypeOK ==
    /\ records \in [Entities -> Record]
    /\ claims \in [Keys -> {None} \cup [entity : Entities, payload : {Revoked} \cup UNION {TermsOf(e) : e \in Entities}]]
    /\ subjects \in [Subjects -> Actors \cup {None}]
    /\ operators \in [Operators -> {"idle", "committed", "reloading"}]
    /\ reloads \in Seq([operator : Operators, snapshot : [Entities -> Record]])
    /\ world \in [Entities -> Record]
    /\ host \in {"down", "up", "detached"}
    /\ required \in BOOLEAN

AuthorityInit ==
    /\ records = Nothing
    /\ claims = [k \in Keys |-> None]
    /\ subjects = [s \in Subjects |-> None]
    /\ operators = [o \in Operators |-> "idle"]
    /\ reloads = << >>
    /\ world = Nothing
    /\ host = "up"
    /\ required \in BOOLEAN

Absent(rs, e) == rs[e].status = "absent"
Active(rs, e) == rs[e].status = "active"

-----------------------------------------------------------------------------
(* decideKernelAuthorityAppend and appendEvent, one transaction.           *)

Claimed(k) == k # None /\ claims[k] # None

Claim(e, payload) == [entity |-> e, payload |-> payload]

\* A key is for one payload of one entity.
KeyConflict(k, e, payload) == Claimed(k) /\ claims[k] # Claim(e, payload)

\* A key is pinned to what it was first used for.
Pinned(k, e, payload) ==
    IF k = None \/ Claimed(k) THEN claims ELSE [claims EXCEPT ![k] = Claim(e, payload)]

\* Takes a revoked entity for one that was never provisioned.
ProvisionableFaulty(e, terms, k) ==
    /\ ~KeyConflict(k, e, terms) /\ ~Claimed(k)
    /\ ~Active(records, e)
    /\ terms.subject # None => subjects[terms.subject] \in {None, e}

Provisionable(e, terms, k) ==
    /\ ~KeyConflict(k, e, terms) /\ ~Claimed(k)
    /\ Absent(records, e)
    /\ terms.subject # None => subjects[terms.subject] \in {None, e}

Revocable(e, k) ==
    /\ ~KeyConflict(k, e, Revoked) /\ ~Claimed(k)
    /\ Active(records, e)

\* The same terms again, a second revocation, or a key already used for this.
Repeated(e, payload, k) ==
    /\ ~KeyConflict(k, e, payload)
    /\ \/ Claimed(k)
       \/ payload = Revoked /\ records[e].status = "revoked"
       \/ payload # Revoked /\ Active(records, e) /\ records[e].terms = payload

\* Without a world there is nothing to reload.
Committed(o) == operators' = IF host = "up" THEN [operators EXCEPT ![o] = "committed"] ELSE operators

Serving(o) == host \in {"up", "detached"} /\ operators[o] = "idle"

Provision(o, e, terms, k) ==
    /\ Serving(o)
    /\ Provisionable(e, terms, k)
    /\ records' = [records EXCEPT ![e] = [status |-> "active", terms |-> terms]]
    /\ claims' = Pinned(k, e, terms)
    /\ subjects' = IF terms.subject = None THEN subjects ELSE [subjects EXCEPT ![terms.subject] = e]
    /\ Committed(o)
    /\ UNCHANGED <<reloads, world, host, required>>

Revoke(o, e, k) ==
    /\ Serving(o)
    /\ Revocable(e, k)
    /\ records' = [records EXCEPT ![e].status = "revoked"]
    /\ claims' = Pinned(k, e, Revoked)
    /\ Committed(o)
    /\ UNCHANGED <<subjects, reloads, world, host, required>>

\* A replay pins its key, and does not reload: it is answered as a success.
Replay(o, e, payload, k) ==
    /\ Serving(o)
    /\ k # None
    /\ Repeated(e, payload, k)
    /\ claims' = Pinned(k, e, payload)
    /\ UNCHANGED <<records, subjects, operators, reloads, world, host, required>>

-----------------------------------------------------------------------------
(* reload and hydrateKernelAuthorityWorld.                                 *)

Present(rs) == {e \in Entities : ~Absent(rs, e)}

\* No record waits for itself, directly or through others.
Acyclic(rs) ==
    \A S \in (SUBSET Present(rs)) \ {{}} : \E e \in S : rs[e].terms.needs \notin S

\* Every record is replayed as provisioned, a revoked one too; one that the engine
\* refuses, because what it needs is not there, refuses the world.
Hydratable(rs) ==
    /\ \A e \in Present(rs) : rs[e].terms.needs \in Present(rs) \cup {None}
    /\ Acyclic(rs)

ReadRecords(o) ==
    /\ operators[o] = "committed"
    /\ operators' = [operators EXCEPT ![o] = "reloading"]
    /\ reloads' = Append(reloads, [operator |-> o, snapshot |-> records])
    /\ UNCHANGED <<storeVars, world, host, required>>

\* Publishes the reload that was asked for last before those that were asked for first.
PublishFaulty ==
    /\ reloads # << >>
    /\ LET last == reloads[Len(reloads)]
       IN  /\ operators' = [operators EXCEPT ![last.operator] = "idle"]
           /\ world' = IF Hydratable(last.snapshot) THEN last.snapshot ELSE world
    /\ reloads' = SubSeq(reloads, 1, Len(reloads) - 1)
    /\ UNCHANGED <<storeVars, host, required>>

\* Reads are answered in order.  A world that cannot be built leaves the one before,
\* and the call that committed fails.
Publish ==
    /\ reloads # << >>
    /\ LET first == Head(reloads)
       IN  /\ operators' = [operators EXCEPT ![first.operator] = "idle"]
           /\ world' = IF Hydratable(first.snapshot) THEN first.snapshot ELSE world
    /\ reloads' = Tail(reloads)
    /\ UNCHANGED <<storeVars, host, required>>

Crash ==
    /\ host # "down"
    /\ host' = "down"
    /\ world' = Nothing
    /\ operators' = [o \in Operators |-> "idle"]
    /\ reloads' = << >>
    /\ UNCHANGED <<storeVars, required>>

\* Runs on with what could be read of the world.
StartFaulty ==
    /\ host = "down"
    /\ host' = "up"
    /\ world' = [e \in Entities |-> IF records[e].terms.needs # Unmet THEN records[e] ELSE NoRecord]
    /\ UNCHANGED <<storeVars, operators, reloads, required>>

\* createEnterprise: a host that requires its world does not come up without it;
\* one that does not decides from an empty one.
Start ==
    /\ host = "down"
    /\ \/ Hydratable(records) /\ host' = "up" /\ world' = records
       \/ ~Hydratable(records) /\ ~required /\ host' = "detached" /\ UNCHANGED world
    /\ UNCHANGED <<storeVars, operators, reloads, required>>

-----------------------------------------------------------------------------
AuthorityNext ==
    \/ \E o \in Operators, e \in Entities, k \in Keys \cup {None} :
          \/ \E terms \in TermsOf(e) : Provision(o, e, terms, k)
          \/ Revoke(o, e, k)
          \/ \E payload \in TermsOf(e) \cup {Revoked} : Replay(o, e, payload, k)
    \/ \E o \in Operators : ReadRecords(o)
    \/ Publish
    \/ Crash
    \/ Start

AuthoritySpec == AuthorityInit /\ [][AuthorityNext]_authorityVars

\* A committed call goes on to reload.
FairAuthoritySpec ==
    /\ AuthoritySpec
    /\ \A o \in Operators : WF_authorityVars(ReadRecords(o))
    /\ WF_authorityVars(Publish)

-----------------------------------------------------------------------------
(* Properties.                                                             *)

\* What a key was used for is on record: a key never answers for an operation that
\* did not happen, and never for two.
ClaimsHonoured ==
    \A k \in Keys : claims[k] # None =>
        LET c == claims[k]
        IN  IF c.payload = Revoked THEN records[c.entity].status = "revoked"
                                   ELSE ~Absent(records, c.entity) /\ records[c.entity].terms = c.payload

\* Authority only narrows: a revocation is terminal, terms are never rewritten, and
\* an external subject is never bound to a second actor, by any order of retries.
AuthorityOnlyNarrows ==
    [][/\ \A e \in Entities : ~Absent(records, e) => records'[e].terms = records[e].terms
       /\ \A e \in Entities : records[e].status = "revoked" => records'[e].status = "revoked"
       /\ \A s \in Subjects : subjects[s] # None => subjects'[s] = subjects[s]]_authorityVars

\* The Kernel never decides from a record the store does not hold with those terms,
\* nor from a world of which a part was left out.
WorldIsWhole ==
    /\ \A e \in Entities : ~Absent(world, e) => ~Absent(records, e) /\ world[e].terms = records[e].terms
    /\ Hydratable(world)

Quiet == host = "up" /\ \A o \in Operators : operators[o] = "idle"

\* Once every call has ended, the world is what the store says, unless the store
\* holds a record that no world can be built with.
WorldFollowsStore == Quiet /\ Hydratable(records) => world = records

\* While the store can be hydrated, a revocation reaches the world the Kernel decides
\* from, whatever other calls run meanwhile.
RevocationPropagates ==
    \A e \in Entities :
        (records[e].status = "revoked" /\ host = "up") ~> (~Active(world, e) \/ ~Hydratable(records))

\* A revocation takes effect in the running process: once every call has ended, the
\* Kernel does not decide from an entity that is revoked.
RevocationTakesEffect ==
    Quiet => \A e \in Entities : records[e].status = "revoked" => ~Active(world, e)
=============================================================================
