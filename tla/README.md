# Governed authority in TLA+

TLA+ models of Soberanía Enterprise (the TypeScript in `src/enterprise`,
`packages` and `apps/agent-passport-web`): modules that state what the code
does, configurations that check them with TLC on small instances, and theorems
checked by TLAPS for every instance. Paths are relative to the repository.

The system decides whether an organisation's agents may transfer, license,
pledge or tokenize an asset, records what was decided and what was then
reported to have happened, and keeps the books: who holds how much of which
right, what part of it is promised to a mandate that has not been exercised
yet, and what part is constrained by a pledge. Around those books stand the
services that carry state of their own across an `await`: the host that starts
and stops them, the authority the Kernel decides from, the protected files and
the grants on them, and the shop that sells agent passports.

## The system

| Part | State | Operations | Modelled |
|---|---|---|---|
| **Governed Authority Store** `src/enterprise/authority-governance` | positions (holder, right → quantity in a unit); an append-only log of transitions; reservations; encumbrances | `bootstrapPosition`, `applyTransition`, `acquireReservation`, `releaseReservation`, `recordEncumbrance`, `releaseEncumbrance`; in memory and in SQLite | yes: `GovernedAuthorityStore` |
| **Constraint applicability** `constraint-applicability.ts` | none (profiles) | which standing constraints bear on an action, `computeActionCapacity` | the profile of the two actions that draw on capacity |
| **Coverage resolver** `resolver.ts` | none | does the named holder hold enough, for the Kernel | as the guard of a submitted request |
| **TRANSFER** `transfer-governance` | mandates, executions, lifecycle events, revocations | `requestTransfer`, `recordExecution`, `reconcileAuthorityTransitions`, `revokeMandate`, lifecycle reports | all but lifecycle reports: `MandateIssuance`, `TransferGovernance` |
| **COLLATERALIZE** `collateralization-governance` | mandates, arrangements reported, releases reported, revocations | `requestCollateralization`, `recordExecution`, `revokeMandate`, reported releases | all but reported releases: `MandateIssuance`, `CollateralizationGovernance` |
| **RELEASE_ENCUMBRANCE** `encumbrance-release-governance` | release mandates and executions | calls an external executor, then ends the constraint; recovery of a confirmed release | yes: `EncumbranceReleaseGovernance` |
| **Lifecycle controller, module registry** `lifecycle`, `registry` | state per module and of the host | start and stop in dependency order, degrade, roll back, time out | yes: `EnterpriseLifecycle` |
| **Content protection** `content-protection` | protected resources | `protectResource` | yes: `ContentProtection` |
| **Access governance** `access-governance` | grants, revocations | `issueGrant`, `requestProviderCredential`, `revokeGrant`, enforcement at a remote provider | yes: `AccessGovernance` |
| **Kernel authority** `kernel-authority` | authority records, idempotency keys, the world the Kernel reads | provision, revoke, reload after a write, hydrate at start | but for the integrity of event chains: `KernelAuthority` |
| **Agent passport web app** `apps/agent-passport-web` | purchases, Stripe events, registries, entitlements, passports | checkout, webhook, session page, token recovery, enrolment | buying and enrolling: `PassportCheckout` |
| **LICENSE, TOKENIZE** | mandates and executions | issue and record; no authority effect | no |
| **Representation store** | grants to represent a holder | grant, revoke, resolve a chain | no |
| **Governance Store** `governance-store` | evaluations, references | idempotent append, projection | no |
| **AOC Kernel** `src/kernel` | none | one decision from the answers of its ports | an allowed decision is a choice of the environment |
| **Passport service** `src/enterprise/passport` | passports | reconstructed from stored evaluations | no |
| **Feature runtimes** `src/features` | per runtime, in process | recognition, approvals, policy packs, action enforcement | no |
| HTTP API, host, composition, telemetry, scripts, vendored code, other contract packages | – | wiring and data types | no |

How the parts interact. A service (TRANSFER, COLLATERALIZE…) asks the Kernel
for a decision; the Kernel asks the coverage resolver, which reads positions.
On an allowed decision the service acquires reservations in the authority
store, one per right, then issues a mandate in its own store. Later an external
system reports an execution: the service records it as evidence in its own
store and then has the authority store apply it (a movement, or an
encumbrance). RELEASE_ENCUMBRANCE goes the other way: it asks an external
executor to end the arrangement, records what it answered, and only then ends
the encumbrance. The stores are separate databases and share no transaction.
Every call between them is an `await`, so other requests, the clock and a crash
come in between; every method *of a store* is atomic (a synchronous function
body in memory, a `db.transaction` in SQLite).

Kernel authority keeps its records in one store and the world the Kernel reads
in memory, rebuilt whole after each committed write. Content protection uploads
what access governance grants links to and may delete; the two share only the
storage provider. The web application shares nothing with the rest: its other
party is Stripe.

The hard behaviours are therefore: capacity computed from four tables and
promised to several actors at once; a promise turning from reservation into
encumbrance in instalments; a movement of several rights that fails half-way;
replays recognised from the log; the gap between two stores, with its
compensation and its recovery; reports that arrive after the reservation that
backed them has lapsed; revocation against exercise; an external party that
acted and whose answer is lost; an operation that outlives its timer; reloads
that overlap; events delivered in any order, and again. `PROJECT.json` lists
each one at its line, with the property that watches it.

## Modules

| Module | Contents |
|---|---|
| `GovernedAuthorityStore`, `MCGovernedAuthorityStore` | the authority store; symmetry for its runs |
| `MandateIssuance` | what TRANSFER and COLLATERALIZE share: from a request to a mandate backed by reservations, and revocation; extends the store |
| `TransferGovernance`, `MCTransferGovernance` | TRANSFER: evidence, movement, recovery; extends `MandateIssuance` |
| `CollateralizationGovernance`, `MCCollateralizationGovernance` | COLLATERALIZE: evidence, constraints right by right; extends `MandateIssuance` |
| `GovernedActions`, `MCGovernedActions` | both services at work on the same positions |
| `ConstraintDischarge` | abstract: what a governed release promises |
| `EncumbranceReleaseGovernance`, `MCEncumbranceReleaseGovernance` | RELEASE_ENCUMBRANCE; extends the store, implements `ConstraintDischarge` |
| `EnterpriseLifecycle`, `MCEnterpriseLifecycle` | the lifecycle controller and the order the registry computes |
| `StorageProvider` | external: the files a provider holds |
| `ContentProtection`, `AccessGovernance` | the two services that use it |
| `ProtectedAccess`, `MCProtectedAccess` | both of them over one provider |
| `KernelAuthority`, `MCKernelAuthority` | provisioning, revocation, the world |
| `PassportCheckout`, `MCPassportCheckout` | the web application and Stripe |
| `SumTheorems` | facts about sums over finite sets, about no module of the system |
| `GovernedAuthorityStoreProofs`, `GovernedActionsProofs`, `EncumbranceReleaseProofs`, `EnterpriseLifecycleProofs`, `KernelAuthorityProofs`, `ProtectedAccessProofs`, `PassportCheckoutProofs` | theorems and the lemmas they rest on; `GovernedActionsProofs` has the services it composes as well |

Operators named `…Faulty` stand before the definition they vary. No action uses
them; each is a mistake an implementation could make (dropping a guard,
counting a reservation twice, giving up a loop at the first failure), kept so
that one can substitute it and see the property that notices.

### GovernedAuthorityStore

One tenant and one resource: no operation of the store relates two of either,
so positions, reservations and encumbrances are functions from what is left of
their keys. `positions[<<holder, right>>]` is the `positions` map of
`in-memory-authority-store.ts` (the `governed_authority_positions` table of
SQLite), `transitions` the log, `reservations[<<mandate, right>>]` a
reservation under its idempotency key (every caller uses
`mandate:right`), `encumbrances[<<execution, right>>]` an encumbrance under the
identity derived from its execution. `now` is the clock the store is given.

| Action | Code |
|---|---|
| `BootstrapPosition`, `BootstrapRefusedLate` | `bootstrapPosition`; the second is the in-memory store's order of append and refusal |
| `ApplyTransition` | `applyTransition`: replay check, staging of every right, conservation, append, consumption of the mandate's reservations |
| `AcquireReservation`, `ReleaseReservation` | the same names |
| `RecordEncumbrance` | `recordEncumbrance`: sets the mandate's own reservation aside while sizing, hands it over when it is covered |
| `ReleaseEncumbrance` | the same name, with `assertReleaseExecutionUnclaimed` |

A call that is refused, and a replay answered from the record, write nothing
and so are stuttering steps. `Durable` chooses the backend; the two differ in
`BootstrapRefusedLate` and in `Listable` (SQLite's UNIQUE constraint).
`Committed`, `Residual`, `Encumbered` and `Available` are
`computeActionCapacity` and its two sums in `encumbrance-lifecycle.ts`.

Abstracted: digests, hash chains, identifiers, references to evidence, access
checks by organisation, and rights' descriptive fields; a scope is a unit and a
natural number (basis points and denominated units differ in their unit only).
Position windows are not represented: the code consults them in the resolver
and nowhere in the store. Encumbrances are always of the profile both modelled
actions engage. `releaseEncumbrance` checks the reported release against the
encumbrance's identity; identity is the key here, so it holds by construction.

Properties:

- `TypeOK` (proved, in no run).
- `LedgerBalanced`: each balance is what the log says was received less what
  it says was given.
- `ExecutionMovesOnce`: an execution moves a right at most once, and its
  entries describe one movement.
- `HandoffIsWhole`: a reservation becomes `encumbered` only when its mandate's
  constraints cover all of it.
- `SpentCommitmentsAccountedFor`: a spent reservation has a movement or a
  constraint to show for it.
- `CommitmentsNeverReopen`: terminal records are final, and live ones change
  only in status.
- `ReleaseExecutionSpentOnce` (proved, in no run): one confirmed release ends one
  constraint.
- `UnitsAgree` (proved, in no run): what stands over a position is in its unit.
- `GateNeverOvercommits`: no acquisition, instalment, handoff or release
  makes a holder promise more than it holds, where a mandate's claim is the
  greater of its reservation and its constraints. What can is a debit, and the
  clock reaching the instant a constraint was recorded ahead for, which is what
  `GovernedActions` looks into.

### MandateIssuance

Actions conjoin store actions, never copy them. `requestTransfer` and
`requestCollateralization` are the same chain of steps, as are the two
`revokeMandate`, so the chain is modelled once; the terms say which service it
is. Every asynchronous call is a chain of actions:

| Call | Actions |
|---|---|
| `requestTransfer`, `requestCollateralization` | `Submit`, then per right `Reserve` or `ReserveNotEnrolled`, then `Issue`; or `Fail`, then `Undo` for each entry acquired, then `UndoDone` |
| `revokeMandate` | `Revoke` (durable), then `ReleaseHeld` per reservation, then `RevokeEnds` |
| a process that dies | `Abandon`, `RevokeEnds`: the call stops, both stores keep what they committed |

`requests` is the memory of the call (`acquired` is the local list that
`reserveTransferAuthority` and `reserveCollateralAuthority` return), `mandates`
the two mandate stores, whose mandates are told apart by their terms, and
`revoking` the revocations between their two stores. A mandate is identified
with its request, because a repeated request is answered from the first one's
outcome. `log` is the mandate's execution log, from which `transferredScope`
and `committedScope` follow.

Left out: the references appended to the Governance Store (read by no guard
modelled), the Kernel's other checks, parties' identity checks, registry and
agreement references (constant through a mandate's life).

Properties, which the runs of the services check:

- `MandateBacked`: a live mandate not yet exercised holds each commitment its
  request acquired, in full, for its whole window.
- `CompensationKnowsAll`: until a mandate exists, what is held in its name is
  what its call remembers, so giving back the list gives back everything.
- `RequestsSettle`, `RevocationFreesCapacity`: liveness.

### TransferGovernance

`recordExecution` is `Report` (the evidence is committed), then `Apply`, or
`ApplyLost` when the store refuses or the process dies;
`reconcileAuthorityTransitions` is `Reconcile`, one execution per step.
`evidence` is the execution evidence of the mandate store, `applying` the
reports between the two stores. `Authorizes` is
`enterpriseTransferMandateAuthorizes`; it is evaluated at the instant the
report *claims*, which may lie before or after `now`, as in the code. The
instant the movement is said to take effect is a separate input
(`EffectiveInstants`), because the code compares it with nothing. Lifecycle
reports are left out.

- `TransferTypeOK` (proved, in no run).
- `AuthorityFollowsEvidence`, `MovedWithinMandate`: what moves is what was
  reported, and never in total more than was permitted.

### CollateralizationGovernance

`recordExecution` is `ReportPledge` (the evidence is committed), then for each
right `Constrain`, or `ConstrainPassed` when the mandate never held a
commitment for it or the report repeats it, or `ConstrainLost`, which ends the
call. `pledges` is the evidence, `encumbering` the rights a call in flight has
still to constrain. `PledgeAuthorized` is
`enterpriseCollateralizationMandateAuthorizes`; the constraint takes effect at
the instant the report claims, and its holder is read from the mandate's
reservation whatever became of it. `Discharge` is the store's release of a
constraint, by whichever service. `recorded` is kept for a property only.

- `CollateralTypeOK` (proved, in no run).
- `ConstraintsFollowEvidence`: each constraint is for a reported arrangement,
  a right it names, its scope and instant, and the holder the mandate names.
- `ConstrainedWithinMandate`: the constraints of a mandate over a right,
  released ones too, stay within its terms.
- `PledgeHasRoom`: an arrangement reported while its mandate's commitment
  stands can be recorded, whatever others have reserved and encumbered since. A
  right the report repeats is excepted: it is on record already, and the code
  answers the repetition from there before it looks at capacity. (Its instalment
  is then counted twice, so without the exception the statement is false; TLC
  shows it with `MaxRights = 2`.)

### GovernedActions

The conjunction of both services over one authority store, for what neither
shows alone:

- `CapacityBrokenOnlyLateOrAhead`: a position becomes overcommitted only by a
  movement reported after its own commitment lapsed, was released or was spent,
  or by a constraint recorded ahead of its time that begins to bind once its
  reservation is gone. The services add no third way to each other.
- `StrandedOnlyBackdated`: a constraint loses its cover only to a movement said
  to be effective before the constraint was, or by binding later than recorded.

### EncumbranceReleaseGovernance

Three stores take part: the mandate store (`releases`, `evidence`), the
authority store, and the provider behind the executor (`discharged`, external:
the mandates whose idempotency key it has acted on). `authorizing` is a request
between its evaluation and its mandate, `attempts` a call in flight.

| Action | Code |
|---|---|
| `Ask`, `IssueRelease`, `AskLost` | `requestEncumbranceRelease`: the target is read, the Kernel allows, awaits later `issueMandate` refuses if a live mandate is over the constraint |
| `RevokeRelease` | `revokeMandate` |
| `Execute`, `ExecutorAnswers`, `Record`, `Terminalize`, `AttemptLost` | `executeEncumbranceRelease`: checks, the executor's call, `recordExecution`, `terminalize`, and a call that dies or is refused in between |
| `Recover` | `recoverEncumbranceRelease`, and executing a spent mandate again |
| `Waiver` | an administrator's `releaseEncumbrance` |

The executor is assumed to keep the promise of its port: one discharge per key,
which the service derives from the mandate. Its answer may be lost, in which
case the outcome is indeterminate and it may or may not have acted. The instant
of an execution is the caller's and need not be `now`. Encumbrances come from
the store's own `RecordEncumbrance`.

- `SpentExactlyOnce`: a mandate is spent exactly when one execution is confirmed
  under it, and then the arrangement has ended.
- `LiveDischargesAlone`: of the mandates that have discharged one arrangement,
  at most one is live.
- `ImplementsDischarge`: the refinement of `ConstraintDischarge`. There, a
  constraint blocks capacity, its arrangement may end outside, and the block is
  lifted only after; an administrator may waive it. The mapping reads a block
  off the encumbrance and an end off `discharged`.
- `ConfirmedIsFinished`: a confirmed release is finished in the authority store.
- `DischargedOnEvidence` (proved, in no run): what the refinement says, with the
  mandate and the execution that account for it.

### EnterpriseLifecycle

A module is named by its place in registration order; `descriptors` (who
depends on whom, who is required) is chosen in `LifecycleInit` and never
changes, so one run covers every graph. The controller has one thread: an
action is what it does between two awaits. `pending` is the loop in progress.

| Action | Code |
|---|---|
| `Start` | `doStart` up to its first await: validation, `resolveTopologicalOrder`, the first `initialize()` |
| `InitializeReturns`, `OptionalFails`, `RequiredFails` | an `initialize()` that returned, failed, or ran out its timer: go on, degrade, or roll back |
| `ShutdownRunning`, `ShutdownIdle`, `ShutdownWhileStarting` | `doShutdown` by the host's state |
| `ShutdownReturns`, `ShutdownFails` | one `shutdown()` of `shutdownModules`, for a rollback or a shutdown |
| `LateInitialization`, `LateShutdown` | an operation that outlived `withTimeout` and goes on unobserved |

`late` and `open` (external) record what the controller cannot see: which
initializations still run, and which modules hold resources. `InitializationOrder`
is the algorithm of `dependency-graph.ts` as a recursive function.

- `DependenciesOutlive`: while a module comes up or is up, all it depends on is.
- `HostReflectsModules`: what the host says of itself is what its modules are.
- `OnlyLateRemainOpen`: of a host that is down, only a module that was asked to
  stop in vain, or came up short or late, still holds resources.
- `OrderIsFirstTopological`: the order is the first, by registration, of the
  orders that respect every dependency, and is refused when there is none.
- `HostSettles`: a start, and a shutdown that was accepted, end.

### StorageProvider, ContentProtection, AccessGovernance, ProtectedAccess

A file is at the provider or not; any answer may be lost after the provider did
what it was asked. `ContentProtection` follows `protectResource` stage by stage:

| Action | Code |
|---|---|
| `Protect`, `BindingVerified`, `KeyWrapped`, `BindingOrKeyRefused` | `createPending`, the sovereign binding, the wrapped key |
| `CiphertextStored`, `StorageFails` | the upload, the sink that hears of it, an answer that is lost |
| `MarkActive`, `MarkActiveFails`, `MarkOrphaned`, `MarkFailed` | the last write, and the best effort to record a failure |
| `ProtectionCut` | the process dies at an await |

`AccessGovernance` has the grants' store (`grants`, `revocations`) and the calls
between their awaits (`enforcing`, `links`). Time is a small clock; 0 is a time
that is not recorded.

| Action | Code |
|---|---|
| `IssueGrant` | `issueGrant` |
| `RequestLink`, `LinkSigned`, `LinkRefused`, `RecordLink`, `LinkLost` | `requestProviderCredential`: the status is read, the provider signs, the expiry is written back |
| `Revoke`, `FileDeleted`, `DeletionFails`, `Finalize`, `RevocationCut` | `revokeGrant`: `beginRevocation`, `determineAndExecutePinataEnforcement`, `finalizeRevocationEnforcement` |

Left out: what is encrypted with which key, reading a resource back, who may
call what. The time a revocation is said to be made at is the caller's and is
not compared with the clock. A grant's own `expiresAt` is recorded by the code
and read by nothing, and has no counterpart.

- `CiphertextAccountedFor`: a file at the provider is known to an active or
  orphaned record, or to a pending one, or was left behind when an answer was
  lost or the sink threw.
- `EffectiveNeverEarly`: from the time a revocation names, no link works that
  was on record when the grant was revoked.
- `RevocationDetermined`: a revocation gets its determination unless it is cut.
- `ActiveIsStored` (both services): the ciphertext of an active resource is
  there unless a grant on it was revoked because the resource was removed.
- Proved, in no run: `AnswerMatchesRecord` (the caller of `protectResource` is
  told what is recorded, unless the sink threw), `SettledForGood` and
  `RevokedForGood` (neither record is changed once it has settled).

### KernelAuthority

One organization. `records`, `claims` and `subjects` are the tables of the
store; `operators` the calls of the provisioning service, `reloads` those that
have read the store and not published yet, `world` what the Kernel decides
from. An entity depends on at most one other; `Unmet` stands for terms the
engine refuses for any other reason.

| Action | Code |
|---|---|
| `Provision`, `Revoke`, `Replay` | `appendEvent` by `decideKernelAuthorityAppend`; a replay pins its key and does not reload |
| `ReadRecords`, `Publish` | `reload`: `listRecords`, then `hydrateKernelAuthorityWorld`, which builds all or nothing |
| `Crash`, `Start` | `createEnterprise`: a host that requires its authority does not come up without it; one that does not runs `detached` |

- `WorldIsWhole`: the Kernel never decides from a record the store does not
  hold, nor from part of a world.
- `WorldFollowsStore`: once every call has ended, the world is the store, if a
  world can be built from it.
- `AuthorityOnlyNarrows`: revocation is terminal, terms are never rewritten, no
  external subject is bound twice.
- `RevocationPropagates`: while the store can be hydrated, a revocation reaches
  the world.
- `ClaimsHonoured` (proved, in no run): what a key was used for is on record.

### PassportCheckout

One process, one SQLite file; every statement commits by itself, so a call may
be cut after any of its writes. Stripe is external: `sessions`, `histories` (the
statuses a subscription has had) and what it emits, delivered in any order.
`received` and `processed` are the table of webhook events, `floating` the
events of no registry, `fetching` the webhook call that asks Stripe for the
subscription.

| Action | Code |
|---|---|
| `OpenCheckout`, `LinkSession`, `CheckoutLost` | `POST /api/checkout/session` |
| `CreateSession`, `Pay`, `Expire`, `ChangeSubscription` | Stripe and the buyer |
| `ReceiveCompleted`, `ReceiveCompletedCut`, `Fetch`, `FetchCut`, `BillCheckout` | `checkout.session.completed`: purchase, registry, entitlement, then the subscription |
| `ReceiveExpired`, `ReceiveSubscription`, `ReceiveInvoice`, `ReceiveUnresolved`, `ReceiveUnknown`, `ReceiveCut` | the other events, an event of no registry or purchase, and a delivery cut once it is recorded |
| `VerifySession`, `VerifySessionCut`, `RecoverToken` | the page the buyer returns to, and `recover` |
| `StartEnrolment`, `IssuePassport` | `POST /api/agent-passports` by the session of a purchase, whichever its tier: `canEnrollWithPurchase` does not look at it |
| `StartRegistryEnrolment`, `IssueRegistryPassport` | the same through a registry, by its token, with `addPassportToRegistry` |
| `EnrolmentLost`, `IssueCut` | an enrolment of either kind that fails or dies before its passport is on record, or after |

`enrolments` has a call per passport, with its `path` (session or registry) and
what it is about; a passport that was made while its purchase is not marked, or
its registry does not list it, leaves its call `stranded`. A call that is lost before there is a
passport may be made again.

Left out: accounts, memberships, invitations, exports, token rotation, and
payment methods that settle later. The signature of a passport is an await.

- `PassportsArePaid`: a passport is enrolled only against something paid for.
- `IssuedPurchaseClosed`: a purchase whose enrolment by its session was answered
  stays closed, and names a passport so enrolled; enrolments that overlap may
  each make one, none that starts later does.
- `CapacityAddsUp`: a registry's counts, its entitlement's and its list agree and
  never exceed its capacity, and the list is exactly what was handed out through
  it, for any number of overlapping enrolments. What is enrolled by the session
  of the same purchase takes no place and is in no list (see the departures).
- `BillingMatchesSubscription`: the billing status is what the subscription's
  maps to, or past due by an invoice and then a grace date is set; how long the
  grace lasts is not modelled.
- `FetchCoversFloating`: an event that found no registry is no newer than the
  status the completed checkout then fetched. A fetch that fails brings no
  status to compare, and the property is silent on it.
- `PaymentLands`: a payment completes the purchase and makes the registry,
  unless its one delivery was cut before it did.

## Runs

All set `CHECK_DEADLOCK FALSE`: a store nobody calls, or whose bounded clock
and inputs are used up, has legitimately stopped.

| Run | Instance | What it shows |
|---|---|---|
| `store_capacity` | in memory, 1 slot, 2 units, 2 mandates, 2 arrangements, quantities 1–2, 2 instants | `HandoffIsWhole`, `GateNeverOvercommits` |
| `store_lifecycles` | SQLite, 2 holders, 2 rights, 2 mandates, 1 execution of 1–2 rights, 1 arrangement | `LedgerBalanced`, `ExecutionMovesOnce`, `SpentCommitmentsAccountedFor`, `CommitmentsNeverReopen` with movements, their repetition and constraints together |
| `transfer_recovery` | 2 holders, 2 rights, 1 mandate, 2 executions, quantity 1, 2 instants, fairness | `MovedWithinMandate`, `MandateBacked`, `CompensationKnowsAll`, `AuthorityFollowsEvidence`, `RequestsSettle`, `RevocationFreesCapacity` |
| `collateral_room` | 2 requests for one right, 2 arrangements, quantities 1–2, 2 instants | `ConstraintsFollowEvidence`, `ConstrainedWithinMandate`, `PledgeHasRoom` |
| `actions_capacity` | 2 holders, 2 mandates of either kind for one right, 1 execution, 1 arrangement, 2 instants | `CapacityBrokenOnlyLateOrAhead`, `StrandedOnlyBackdated` |
| `release` | 1 slot, 1 arrangement, 2 release mandates, 2 executions, 2 instants, fairness | `SpentExactlyOnce`, `LiveDischargesAlone`, `ImplementsDischarge`, `ConfirmedIsFinished` |
| `lifecycle` | all graphs over 3 modules, cyclic ones too, every criticality, fairness | `DependenciesOutlive`, `HostReflectsModules`, `OnlyLateRemainOpen`, `OrderIsFirstTopological`, `HostSettles` |
| `access` | 1 file, 1 grant, 2 link requests, durations 1–2, 3 instants, fairness | `CiphertextAccountedFor`, `EffectiveNeverEarly`, `ActiveIsStored`, `RevocationDetermined` |
| `authority` | 2 actors, 1 credential, 1 subject, 1 key, 2 calls at a time, fairness | `WorldIsWhole`, `WorldFollowsStore`, `AuthorityOnlyNarrows`, `RevocationPropagates` |
| `checkout` | 1 single purchase, 1 registry of 2 places, 1 checkout of the two, 3 enrolments by either path, 2 statuses of a subscription, fairness | `PassportsArePaid`, `IssuedPurchaseClosed`, `CapacityAddsUp`, `BillingMatchesSubscription`, `FetchCoversFloating`, `PaymentLands` |

Why the bounds are enough. In the authority store: two holders, because a
movement has two ends and the capacity gate looks at one slot; two rights,
because staging and compensation differ between the first and the last of a
list and nowhere else; two mandates, because capacity is contested pairwise; two
arrangements, the least that makes an instalment; quantities 1 and 2 where
quantities are split, so that an instalment can be a part, the whole, or too
much; two instants, so that a window can end before, at, or after a report.
Quantities are compared and added, never divided. `store_capacity` needs no
movement: `GateNeverOvercommits` speaks of the other steps. `transfer_recovery`
has two reports of quantity 1, so that a second one exceeds a whole mandate.

A release concerns one constraint; two mandates and two executions are what can
overlap over it. Three modules make every shape of cycle and chain a loop over
an order can meet, with one module before and one after any that fails. Two
links are the least of which one can be earlier, later, or recorded too late;
one grant is enough because `ActiveIsStored` has the other cases by what is
revoked for which reason. Two operators make reloads overlap, two actors contest
one subject. Three enrolments contest two places, and can mix the two paths
over one purchase; two statuses make an event older or newer than a fetch. Of
the two purchases one is checked out (`MaxCheckouts`): an operation reads and
writes the rows of one purchase, so that two relate only by the passports they
do not share, and the theorems hold for any number of checkouts. In
`collateral_room` both requests have one holder, so that the clause of
`ConstraintsFollowEvidence` about the holder rests on its theorem. Where symmetry is declared, the sets permuted
are named in the MC module; no run with liveness uses it.

Two runs expect a violation: they state what a comment or document of the
repository says, and TLC shows what the code does.

| Run | Statement | Behaviour |
|---|---|---|
| `collateral_unrecorded` | `UnrecordedStaysHeld` | a report that dies after its evidence and before its constraint cannot be repeated, and the reservation said to keep the capacity meanwhile lapses or is released by a revocation |
| `authority_revoked` | `RevocationTakesEffect` | once a record is provisioned that no world can be built with, every later revocation is committed, its reload fails, a repeat is answered as a success, and the process keeps deciding from what was revoked |

### Other departures of the code from its words

These are in the models, as the exceptions their properties name, and have no
run of their own.

- A report that claims an instant inside its window, received after its
  reservation lapsed and another mandate reserved the same authority, spends it
  (`transfer-governance/service.ts:830`): the overcommitted outcome that
  `packages/governed-authority/src/governed-authority-reservation.ts:233` calls
  unreachable.
- A transfer report that names a right twice is stored as evidence
  (`transfer-governance/in-memory-mandate-store.ts:209`) and can never be
  applied by the durable store, so recovery of its mandate stops there.
- A movement said to be effective before a constraint was is not checked against
  it (`encumbrance-lifecycle.ts:514`), and takes the authority it stands over;
  `docs/enterprise/AOC_GOVERNED_AUTHORITY_ENCUMBRANCE.md:360` has the outcome
  unreachable.
- With `Durable = FALSE`, `LedgerBalanced` and `ExecutionMovesOnce` fail: the
  in-memory `bootstrapPosition` logs an issuance before refusing it for its
  unit, and its `applyTransition` logs a repeated right twice for one debit,
  where SQLite rolls both back.
- A resource enrolled between two acquisitions of one request leaves its mandate
  a commitment for some rights only.
- An arrangement can be discharged outside under two mandates: confirmed under
  one and not yet terminalized, or revoked while its executor runs, when another
  is issued. `docs/enterprise/AOC_GOVERNED_ENCUMBRANCE_RELEASE.md:211` speaks of
  at most one external release, which holds per mandate.
- A shutdown asked for while the host is starting is rejected, and every later
  call is answered with that rejection. A degraded module is never shut down,
  where `docs/enterprise/AOC_ENTERPRISE_MODULE_AUTHORING_GUIDE.md:104` says it is.
- A link can be signed and recorded after its grant was revoked, against the
  comment at `access-governance/service.ts:196-198`; a revocation cut before its
  second write keeps its placeholder for good.
- A host that does not require its kernel authority, and comes up without it,
  provisions without ever reloading.
- A webhook delivery cut after its event is recorded makes every later one a
  duplicate, where `apps/agent-passport-web/docs/organization-registry-buyer-admin.md:124`
  has the handler safe for retries. Two overlapping enrolments each issue a
  passport on one purchase (`docs/production-persistence-issuer-keys.md:85`).
- The session of an organization's purchase enrolls a passport as the session of
  a single one does (`agent-passports/route.ts:92-124`, the form's
  `enroll-agent/actions.ts:103-124`; `canEnrollWithPurchase`,
  `purchase-repository.ts:213-223`, reads no tier): outside the registry, and
  beyond its capacity. `apps/agent-passport-web/docs/organization-registry-buyer-admin.md:39`
  has up to 10 passports, and `:254` has over-issuance blocked server-side,
  which is so of `addPassportToRegistry` only. A registry passport that is
  refused its place, or whose call dies before asking for it, stays on record
  and verifiable, in no list.
- A registry made by the session page lacks the subscription's identifiers until
  the webhook adds them, and one left without its entitlement is never repaired.

## Fairness

Safety needs none. Each run with liveness assumes only this:

- `transfer_recovery`, per mandate: weak fairness of the request's next step
  (the event loop resumes a pending `await`; `Abandon` stays possible and
  settles the request too); weak fairness of repeating a revocation (a caller
  that got no answer asks again; the code answers from the record and releases
  again); strong fairness of `ReleaseHeld`, because each repetition may die
  before its first release and not all of them do. Nothing is assumed of new
  requests, reports, the clock or recovery.
- `release`: somebody calls `recoverEncumbranceRelease` for a mandate that has
  something to recover. Nothing is assumed of the executor.
- `lifecycle`: an awaited operation settles, by itself or by its timer, which
  `withTimeout` always sets.
- `access`: the answer of the provider to an enforcement, or its failure, comes.
- `authority`: a committed call reads the store and publishes, unless the
  process ends first.
- `checkout`: Stripe repeats a delivery until it is answered, and the buyer
  returns to the page of the session. A delivery may be cut each time; what
  follows from a cut is an alternative of the property.

## Proofs

Proved by TLAPS for all sets of values, any quantities and any bounds:

| Module | Theorems |
|---|---|
| `GovernedAuthorityStoreProofs` | `TypeCorrect`; `NothingReopens` (`CommitmentsNeverReopen`); `SpentIsAccountedFor` (`SpentCommitmentsAccountedFor`); `ReleaseSpentOnce` (`ReleaseExecutionSpentOnce`); `UnitsAlwaysAgree` (`UnitsAgree`); `DurableMovesOnce` (`ExecutionMovesOnce`) and `DurableLedgerBalances` (`LedgerBalanced`), assuming `Durable`; `AlwaysFinitelyMany`; `HandoffAlwaysWhole` (`HandoffIsWhole`); `CommitmentsBegun`; `GateHoldsCapacity` (`GateNeverOvercommits`) |
| `GovernedActionsProofs`, TRANSFER | `TransferTypeCorrect`; `TransferMandatesBacked` (`MandateBacked`); `TransferCompensationWhole` (`CompensationKnowsAll`); `MovementsFollowEvidence` (`AuthorityFollowsEvidence`); `TransferWithinMandate` (`MovedWithinMandate`), assuming `Durable`; `TransferUsesStore` |
| COLLATERALIZE | `CollateralTypeCorrect`; `ConstraintsHaveEvidence` (`ConstraintsFollowEvidence`); `CollateralMandatesBacked` (`MandateBacked`, `CompensationKnowsAll`); `CollateralWithinMandate` (`ConstrainedWithinMandate`); `PledgesHaveRoom` (`PledgeHasRoom`); `CollateralUsesStore` |
| both together | `ActionsUseStore`; `ActionsKeepGuarantees` (`MandateBacked`, `CompensationKnowsAll`, `AuthorityFollowsEvidence`, `ConstraintsFollowEvidence`, `ConstrainedWithinMandate`, `PledgeHasRoom`); `ActionsMoveWithinMandate` (`MovedWithinMandate`), assuming `Durable`; `StrandedOnlyByDate` (`StrandedOnlyBackdated`); `CapacityBrokenOnlyByThese` (`CapacityBrokenOnlyLateOrAhead`) |
| `EncumbranceReleaseProofs` | `ReleaseTypeCorrect`; `NothingFreedUnproven` (`DischargedOnEvidence`); `MandateSpentOnce` (`SpentExactlyOnce`); `LiveMandateAlone` (`LiveDischargesAlone`); `ReleaseUsesStore`; `ReleaseImplementsDischarge` |
| `EnterpriseLifecycleProofs` | `LifecycleTyped`; `DependenciesAlwaysOutlive` (`DependenciesOutlive`); `HostAlwaysReflects` (`HostReflectsModules`); `OnlyLateEverRemainOpen` (`OnlyLateRemainOpen`); `OrderAlwaysFirstTopological` (`OrderIsFirstTopological`) |
| `KernelAuthorityProofs` | `AuthorityTypeCorrect`; `ClaimsAreHonoured`; `OnlyNarrows` (`AuthorityOnlyNarrows`); `WorldAlwaysWhole` (`WorldIsWhole`); `WorldAlwaysFollows` (`WorldFollowsStore`) |
| `ProtectedAccessProofs` | `AccessTypeCorrect`; `CiphertextAlwaysAccountedFor`; `AnswersMatchRecords`; `RevocationNeverEarly` (`EffectiveNeverEarly`); `ActiveAlwaysStored` (`ActiveIsStored`); `RevokedStaysRevoked`; `SettledStaysSettled` |
| `PassportCheckoutProofs` | `CheckoutTypeCorrect`; `PassportsAlwaysPaid` (`PassportsArePaid`); `IssuedStaysClosed` (`IssuedPurchaseClosed`); `CapacityAlwaysAddsUp` (`CapacityAddsUp`); `BillingAlwaysMatches` (`BillingMatchesSubscription`); `FetchAlwaysCovers` (`FetchCoversFloating`) |

So every safety invariant, every action property and the refinement that a
passing run checks is also a theorem. The type invariant of every module is
proved, and repeated in no run.

Assumptions. `NoneAssumption`, `IssuanceAssumption`, `EvidenceAssumption`,
`PledgeAssumption` and `ReleaseNoneAssumption` say that the absent record is
none of the records it is compared with; `BoundsAssumption` and
`CountAssumption` that bounds and quantities are numbers, positive where the
code refuses zero; `EffectiveAssumption` that reported instants are instants;
`KernelAuthorityAssumption`, `AccessAssumption` and `CheckoutAssumption` that
the kinds of names do not overlap and the sets chosen from are not empty.
Four theorems assume `Durable`, the SQLite store. The in-memory one logs a
repeated right twice for one debit: an execution can then move a right twice
(`DurableMovesOnce`), the log says more than the balances do
(`DurableLedgerBalances`), and by the log a mandate moves more than its terms
(`TransferWithinMandate`, `ActionsMoveWithinMandate`).

The arguments:

- *Store.* `TypeOK` is inductive; one lemma per group of actions carries the
  step, and the others rest on it. `NothingReopens` is a step property, by cases
  on the writer: each operation that writes a status tests it for `active`
  first. `SpentIsAccountedFor` is inductive with two facts about a step: the log
  only grows, and an encumbrance never changes mandate or holder.
  `UnitsAlwaysAgree` needs that a position never changes unit and that capacity
  is given in the position's unit only. `DurableMovesOnce` uses `MoveWrites`: a
  movement appends new entries of an execution not yet in the log, on distinct
  rights.
- *Sums* (`SumTheorems`). `SumFunctionOnSet` folds a function over a set in an
  order CHOOSE picks. What is needed of it is induction over a finite set, which
  the library's rules state for an operator. `FamilyInduction` avoids that: a sum
  over every subset of a finite set at once is one function, and of the sizes of
  subsets a claim fails for there is a least (`LeastNatural`). From there: a sum
  is a number, an element can be taken out first, equal and greater values give
  equal and greater sums, a set can be split, renamed, and grouped by kind.
- *The ledger.* `DurableLedgerBalances` carries each balance as the sum of its
  credits less that of its debits over the positions in the log. An operation
  appends one block of entries; in a movement the rights of the block are
  distinct, so each slot has at most one of them.
- *The handoff.* `HandoffAlwaysWhole` carries, for each reservation that ended
  as encumbered, that its successors cover it (`HandedWhole`): released
  constraints are successors too, so nothing that happens later undoes it.
  `AlwaysFinitelyMany` is what makes the sums numbers.
- *The gate.* `GateHoldsCapacity` splits what a holder promises by mandate
  (`ClaimedSplits`): each claims the greater of what its reservation leaves and
  what its constraints hold. An acquisition or instalment changes one claim
  (`OneClaimMoves`), by no more than the gate measured with that mandate's
  reservation set aside (`EncumberAdmitted`); no other step the property speaks
  of raises a claim (`NoClaimRises`). `CommitmentsBegun` keeps a tick from
  bringing a reservation into its window.
- *Issuance* (lemmas for both services). `IssuanceInv` says of each mandate what
  phase its call is in and what it then holds (`RequestSound`, `CallsInOrder`,
  `HolderNamed`, `CallHolds`, `UnusedBacked`). `CompensationKnowsAll` and
  `MandateBacked` are parts of it that are not inductive without the rest: that
  a live mandate is backed follows from what its call held at the last
  acquisition, across the awaits in between.
- *TRANSFER and COLLATERALIZE.* The invariant adds that the log of a mandate is
  its evidence (`LogKnown`) and that a report in flight has evidence of the
  rights still to constrain (`EncumberingKnown`). `TransferUsesStore`,
  `CollateralUsesStore` and `ReleaseUsesStore` prove that each step of a service
  is a step of the store or leaves it alone, so that the store's theorems hold
  under every service.
- *Within the mandate.* A `Book` says of a mandate that its log lists distinct
  reports whose quantities total no more than its terms; reporting extends it
  under the check of `Authorizes` or `PledgeAuthorized`. Movements and
  constraints are traced one to one into the reports (`TracedWithinBook`), so
  that late ones, recoveries and repetitions are counted once.
- *Room for a pledge.* `PledgesHaveRoom` needs that a commitment is what its
  mandate's terms asked for (`AsRequested`) and that the constraints of a mandate
  and the report not yet recorded fit in its book together (`InstalmentFits`);
  then what the gate would measure with the commitment set aside is no more than
  what a slot that is not overcommitted holds.
- *Both services.* `ActionsInv` is the two invariants together. It is inductive
  because each service exercises only mandates issued for its own kind of action
  (`ExerciseLeaves`, `ArrangeLeaves`). For the action properties: only movements
  debit (`OnlyMovementsDebit`), a tick raises nothing but a constraint recorded
  ahead (`TickRaisesNothing`), and a movement with its commitment standing gives
  up in claims what it takes in balance (`PromisedDebitStaysSolvent`); every
  other step is `GateHoldsCapacity`.
- *Release.* `ReleaseInv` relates an attempt to its mandate (`AttemptsKnown`), a
  mandate to its request and constraint (`MintedOnce`, `TargetsKnown`), evidence
  to status (`ConfirmationSpends`) and mandates to each other (`OneLive`);
  `ReleaseImplementsDischarge` is then a step lemma: each action maps to one of
  `ConstraintDischarge` or to a stutter.
- *Lifecycle.* `LifecycleInv`: modules came up in the order computed
  (`CameUpInOrder`), the records of the host are theirs (`RecordsAgree`), and
  each state of the host says what the loop in progress has still to do
  (`InPhase`). A loop over an order, undone in reverse, then keeps dependencies
  up as long as their dependents.
- *The order.* `InitializationOrder` is a recursive function and unfolds by
  `PlacesUnfold`. `PlacesOrdered`: what is placed is in order after any number of
  rounds. `NeverStuck`: if any complete order exists a module is unblocked, namely
  the first of that order that is not placed. `OrderIsGreedy`: each place has the
  least module that could stand there, so that no order that respects the
  dependencies precedes it.
- *Kernel authority.* `WorldInv`: the world, and every reload read and not yet
  published, is backed by the store. `FollowInv`: a call that is not idle has
  its reload before it, and the last reload read is what the store holds unless
  a call has still to read; so whichever is published last is current.
- *Protected access.* `TypesOK` and `AccessInv` relate each stage of a call to
  the record it found, and the outstanding expiry of a grant to the links on
  record, before and after it is revoked.
- *Checkout.* `CheckoutInv`: what is completed was paid and its event received
  (`PaidInv`); Stripe is asked only about a registry that can be found by its
  subscription, and answers with a change that has been (`FetchInv`,
  `HistoryInv`); an enrolment is against something paid for, through the
  registry of one that has it, and a passport is its enrolment's
  (`EnrolmentInv`); a purchase names one enrolled by its session (`NamedInv`); a registry that does not exist
  has nothing recorded (`EmptyInv`).

Only model-checked: liveness (`RequestsSettle`, `RevocationFreesCapacity`,
`ConfirmedIsFinished`, `HostSettles`, `RevocationDetermined`,
`RevocationPropagates`, `PaymentLands`), which takes ENABLED under fairness and is
out of the prover's reach; and the two runs that expect a violation.

## Not modelled

- LICENSE and TOKENIZE: they issue mandates and record executions as TRANSFER
  does, and reserve, move and constrain no authority. Within one store each
  method is atomic; what is left is bookkeeping.
- The representation store, the passport service and the Governance Store:
  appends to one store, each atomic and idempotent, and readers without state.
  No guard of the services modelled reads them, except that a repeated request
  is answered from its first evaluation, which is why a mandate is identified
  with its request.
- The AOC Kernel, the feature runtimes and the constraint profiles of actions
  that draw on no capacity: pure functions of what they are given; a decision is
  a choice of the environment.
- Lifecycle reports of TRANSFER and reported releases of COLLATERALIZE: kept
  beside the mandate, read by nothing.
- The event chains of kernel authority and their tamper checks, digests,
  signatures and encryption: a matter of cryptography.
- In the web application: accounts, memberships, invitations, exports, token
  rotation, delayed payment methods.
- HTTP, serialisation, telemetry, scripts, vendored and contract packages;
  SQLite beyond its constraints and transactions; several tenants, resources or
  organizations at once, which no operation modelled relates.
