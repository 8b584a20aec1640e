----------------------------- MODULE PassportCheckout ------------------------------
(***************************************************************************)
(* apps/agent-passport-web: a purchase is paid for at Stripe, Stripe tells *)
(* the application through a webhook, and passports are enrolled: by the   *)
(* session of a purchase, whichever its tier, or through the registry of   *)
(* an organization's, which has room for several.                          *)
(*                                                                         *)
(* One process and one SQLite file.  Code between two awaits is one step;  *)
(* each statement commits by itself, so a call may be cut, by an error or  *)
(* by the end of the process, after any of its writes.                     *)
(***************************************************************************)
EXTENDS Naturals, Sequences, FiniteSets

CONSTANTS
    Singles,        \* purchases of one passport
    Orgs,           \* purchases of a registry
    Passports,      \* calls that enroll an agent, and the passport each makes
    MaxPassports,   \* capacity of a registry
    MaxCheckouts,   \* bound on the checkouts opened
    MaxChanges      \* bound on the changes of a subscription

ASSUME CheckoutAssumption ==
    /\ Singles \cap Orgs = {}
    /\ Passports # {} /\ IsFiniteSet(Passports)
    /\ "none" \notin Singles \cup Orgs \cup Passports
    /\ MaxPassports \in Nat \ {0} /\ MaxCheckouts \in Nat /\ MaxChanges \in Nat

Purchases == Singles \cup Orgs

VARIABLES
    checkouts,      \* the call that opens a checkout
    sessions,       \* external: the checkout session at Stripe
    histories,      \* external: the statuses the subscription has had
    purchases,      \* table purchases
    received,       \* table stripe_webhook_events: the events recorded,
    processed,      \*   and those of them marked processed
    floating,       \* table registry_billing_events: the events of no registry
    fetching,       \* the webhook call that asks Stripe for the subscription
    registries,     \* tables organization_registries and ..._entitlements, ..._passports
    passports,      \* table passports: the purchase each was enrolled against
    enrolments      \* the calls that enroll

stripeVars == <<sessions, histories>>
webhookVars == <<received, processed, floating, fetching>>
checkoutVars == <<checkouts, stripeVars, purchases, webhookVars, registries, passports, enrolments>>

Statuses == {"active", "past_due", "canceled"}
Unclaimed == "none"

\* mapStripeSubscriptionStatusToBillingStatus, for the statuses modelled.
Mapped(status) == IF status = "none" THEN "pending" ELSE status

\* change: which change of the subscription the event reports, 0 for a checkout's.
Events == [about : Purchases, kind : {"completed", "expired", "subscription", "failed", "paid"},
           change : 0..MaxChanges]

Event(p, kind, n) == [about |-> p, kind |-> kind, change |-> n]

Purchase == [status : {"none", "pending", "completed", "expired"}, linked : BOOLEAN,
             enrolment : {"not_started", "started", "passport_issued"},
             passport : Passports \cup {Unclaimed}]

\* disclosed: somebody was given the token that opens the registry.
Registry == [exists : BOOLEAN, linked : BOOLEAN, disclosed : BOOLEAN, entitled : BOOLEAN,
             issued : 0..MaxPassports, remaining : 0..MaxPassports,
             used : 0..MaxPassports, left : 0..MaxPassports, listed : SUBSET Passports,
             billing : Statuses \cup {"unknown", "pending"},
             subscription : Statuses \cup {"none"}, grace : BOOLEAN]

\* path: by the session of the purchase, or through its registry.  stranded: the
\* passport was made, and the purchase is not marked or the registry has no place.
Enrolment == [stage : {"idle", "signing", "issued", "stranded"},
              path : {"none", "session", "registry"},
              about : Purchases \cup {Unclaimed}]

CheckoutTypeOK ==
    /\ checkouts \in [Purchases -> {"none", "asking", "answered", "lost"}]
    /\ sessions \in [Purchases -> {"none", "open", "paid", "expired"}]
    /\ histories \in [Orgs -> Seq(Statuses)]
    /\ purchases \in [Purchases -> Purchase]
    /\ received \subseteq Events
    /\ processed \subseteq received
    /\ floating \subseteq received
    /\ fetching \in [Orgs -> [stage : {"none", "asking", "answered"}, change : Nat]]
    /\ registries \in [Orgs -> Registry]
    /\ passports \in [Passports -> Purchases \cup {Unclaimed}]
    /\ enrolments \in [Passports -> Enrolment]

NoPurchase == [status |-> "none", linked |-> FALSE, enrolment |-> "not_started", passport |-> Unclaimed]

NoRegistry == [exists |-> FALSE, linked |-> FALSE, disclosed |-> FALSE, entitled |-> FALSE,
               issued |-> 0, remaining |-> 0, used |-> 0, left |-> 0, listed |-> {},
               billing |-> "unknown", subscription |-> "none", grace |-> FALSE]

NotFetching == [stage |-> "none", change |-> 0]

NotEnrolling == [stage |-> "idle", path |-> "none", about |-> Unclaimed]

CheckoutInit ==
    /\ checkouts = [p \in Purchases |-> "none"]
    /\ sessions = [p \in Purchases |-> "none"]
    /\ histories = [p \in Orgs |-> <<>>]
    /\ purchases = [p \in Purchases |-> NoPurchase]
    /\ received = {} /\ processed = {} /\ floating = {}
    /\ fetching = [p \in Orgs |-> NotFetching]
    /\ registries = [p \in Orgs |-> NoRegistry]
    /\ passports = [k \in Passports |-> Unclaimed]
    /\ enrolments = [k \in Passports |-> NotEnrolling]

-----------------------------------------------------------------------------
(* POST /api/checkout/session.                                             *)

OpenCheckout(p) ==
    /\ checkouts[p] = "none"
    /\ Cardinality({q \in Purchases : checkouts[q] # "none"}) < MaxCheckouts
    /\ checkouts' = [checkouts EXCEPT ![p] = "asking"]
    /\ purchases' = [purchases EXCEPT ![p].status = "pending"]
    /\ UNCHANGED <<stripeVars, webhookVars, registries, passports, enrolments>>

\* Answers the buyer without waiting for the session to be recorded.
LinkSessionFaulty(p) ==
    /\ checkouts[p] = "asking" /\ sessions[p] = "open"
    /\ checkouts' = [checkouts EXCEPT ![p] = "answered"]
    /\ \E linked \in BOOLEAN : purchases' = [purchases EXCEPT ![p].linked = linked]
    /\ UNCHANGED <<stripeVars, webhookVars, registries, passports, enrolments>>

\* The session is recorded, and only then is its address given to the buyer.
LinkSession(p) ==
    /\ checkouts[p] = "asking" /\ sessions[p] = "open"
    /\ checkouts' = [checkouts EXCEPT ![p] = "answered"]
    /\ purchases' = [purchases EXCEPT ![p].linked = TRUE]
    /\ UNCHANGED <<stripeVars, webhookVars, registries, passports, enrolments>>

CheckoutLost(p) ==
    /\ checkouts[p] = "asking"
    /\ checkouts' = [checkouts EXCEPT ![p] = "lost"]
    /\ UNCHANGED <<stripeVars, purchases, webhookVars, registries, passports, enrolments>>

-----------------------------------------------------------------------------
(* External: Stripe.  Sessions take cards, so a completed one is paid.     *)

CreateSession(p) ==
    /\ checkouts[p] = "asking" /\ sessions[p] = "none"
    /\ sessions' = [sessions EXCEPT ![p] = "open"]
    /\ UNCHANGED <<checkouts, histories, purchases, webhookVars, registries, passports, enrolments>>

Pay(p) ==
    /\ checkouts[p] = "answered" /\ sessions[p] = "open"
    /\ sessions' = [sessions EXCEPT ![p] = "paid"]
    /\ histories' = [o \in Orgs |-> IF o = p THEN <<"active">> ELSE histories[o]]
    /\ UNCHANGED <<checkouts, purchases, webhookVars, registries, passports, enrolments>>

Expire(p) ==
    /\ sessions[p] = "open"
    /\ sessions' = [sessions EXCEPT ![p] = "expired"]
    /\ UNCHANGED <<checkouts, histories, purchases, webhookVars, registries, passports, enrolments>>

ChangeSubscription(p, status) ==
    /\ Len(histories[p]) \in 1..(MaxChanges - 1)
    /\ histories[p][Len(histories[p])] \notin {status, "canceled"}
    /\ histories' = [histories EXCEPT ![p] = Append(@, status)]
    /\ UNCHANGED <<checkouts, sessions, purchases, webhookVars, registries, passports, enrolments>>

\* Every change is an event, and a payment that fails or succeeds is one more.
Emitted(e) ==
    CASE e.kind = "completed" -> e.change = 0 /\ sessions[e.about] = "paid"
      [] e.kind = "expired" -> e.change = 0 /\ sessions[e.about] = "expired"
      [] OTHER -> /\ e.about \in Orgs
                  /\ e.change \in 1..Len(histories[e.about])
                  /\ e.kind = "failed" => histories[e.about][e.change] = "past_due"
                  /\ e.kind = "paid" => histories[e.about][e.change] = "active"

-----------------------------------------------------------------------------
(* POST /api/stripe/webhook.  Stripe delivers an event in any order, again *)
(* and again until it is answered; the first delivery records it, and each *)
(* later one is answered as a duplicate, whatever became of the first.     *)

Receive(e) ==
    /\ Emitted(e)
    /\ e \notin received
    /\ received' = received \cup {e}

\* The delivery is cut after it is recorded and before it is handled.  Of the other
\* kinds, a delivery cut there leaves what one that never came would leave.
ReceiveCut(p, kind) ==
    /\ Receive(Event(p, kind, 0))
    /\ UNCHANGED <<checkouts, stripeVars, purchases, processed, floating, fetching, registries,
                   passports, enrolments>>

\* No purchase has this session.
ReceiveUnknown(p, kind) ==
    /\ Receive(Event(p, kind, 0))
    /\ ~purchases[p].linked
    /\ processed' = processed \cup {Event(p, kind, 0)}
    /\ UNCHANGED <<checkouts, stripeVars, purchases, floating, fetching, registries, passports, enrolments>>

Completed(p) == [purchases EXCEPT ![p].status = "completed"]

\* createRegistryEntitlement.
Entitled(registry) == [registry EXCEPT !.entitled = TRUE, !.left = MaxPassports]

\* Leaves the identifiers of the subscription to the update of the billing profile.
CreatedFaulty(linked, disclosed) ==
    [NoRegistry EXCEPT !.exists = TRUE, !.linked = FALSE, !.disclosed = disclosed,
                       !.remaining = MaxPassports]

\* createOrganizationRegistry.
Created(linked, disclosed) ==
    [NoRegistry EXCEPT !.exists = TRUE, !.linked = linked, !.disclosed = disclosed,
                       !.remaining = MaxPassports]

\* ensureOrganizationRegistry, from the webhook: the token it makes is given to nobody.
Ensured(p) ==
    IF registries[p].exists THEN registries
                            ELSE [registries EXCEPT ![p] = Entitled(Created(TRUE, FALSE))]

ReceiveCompleted(p) ==
    /\ Receive(Event(p, "completed", 0))
    /\ purchases[p].linked
    /\ purchases' = Completed(p)
    /\ IF p \in Orgs
       THEN /\ registries' = Ensured(p)
            /\ fetching' = [fetching EXCEPT ![p] = [stage |-> "asking", change |-> 0]]
            /\ UNCHANGED processed
       ELSE /\ processed' = processed \cup {Event(p, "completed", 0)}
            /\ UNCHANGED <<registries, fetching>>
    /\ UNCHANGED <<checkouts, stripeVars, floating, passports, enrolments>>

\* The same, cut after the purchase is completed, or after its registry is created.
ReceiveCompletedCut(p) ==
    /\ Receive(Event(p, "completed", 0))
    /\ purchases[p].linked
    /\ purchases' = Completed(p)
    /\ \/ UNCHANGED registries
       \/ /\ p \in Orgs /\ ~registries[p].exists
          /\ registries' = [registries EXCEPT ![p] = Created(TRUE, FALSE)]
    /\ UNCHANGED <<checkouts, stripeVars, processed, floating, fetching, passports, enrolments>>

ReceiveExpired(p) ==
    /\ Receive(Event(p, "expired", 0))
    /\ purchases[p].linked
    /\ purchases' = [purchases EXCEPT ![p].status = "expired"]
    /\ processed' = processed \cup {Event(p, "expired", 0)}
    /\ UNCHANGED <<checkouts, stripeVars, floating, fetching, registries, passports, enrolments>>

\* subscriptions.retrieve: the status at the time Stripe answers, or an error (0).
Fetch(p) ==
    /\ fetching[p].stage = "asking"
    /\ \E n \in {0, Len(histories[p])} :
           fetching' = [fetching EXCEPT ![p] = [stage |-> "answered", change |-> n]]
    /\ UNCHANGED <<checkouts, stripeVars, purchases, received, processed, floating, registries,
                   passports, enrolments>>

FetchCut(p) ==
    /\ fetching[p].stage # "none"
    /\ fetching' = [fetching EXCEPT ![p] = NotFetching]
    /\ UNCHANGED <<checkouts, stripeVars, purchases, received, processed, floating, registries,
                   passports, enrolments>>

\* updateRegistryBillingProfile with what was fetched; null when nothing was.
BillCheckout(p) ==
    /\ fetching[p].stage = "answered"
    /\ LET n == fetching[p].change
           status == IF n = 0 THEN "none" ELSE histories[p][n]
       IN  registries' = [registries EXCEPT ![p].linked = TRUE, ![p].billing = Mapped(status),
                                            ![p].subscription = status]
    /\ fetching' = [fetching EXCEPT ![p] = NotFetching]
    /\ processed' = processed \cup {Event(p, "completed", 0)}
    /\ UNCHANGED <<checkouts, stripeVars, purchases, received, floating, passports, enrolments>>

\* getRegistryByStripeSubscriptionId, or by its customer: both are recorded at once.
Resolved(p) == registries[p].exists /\ registries[p].linked

ReceiveUnresolved(e) ==
    /\ e.kind \in {"subscription", "failed", "paid"}
    /\ Receive(e)
    /\ ~Resolved(e.about)
    /\ floating' = floating \cup {e}
    /\ processed' = processed \cup {e}
    /\ UNCHANGED <<checkouts, stripeVars, purchases, fetching, registries, passports, enrolments>>

\* handleSubscriptionEvent.
WithStatus(registry, status) ==
    [registry EXCEPT !.billing = Mapped(status), !.subscription = status,
                     !.grace = CASE status = "past_due" -> TRUE
                                 [] status = "active" -> FALSE
                                 [] OTHER -> @]

ReceiveSubscription(p, n) ==
    LET e == Event(p, "subscription", n)
    IN  /\ Receive(e)
        /\ Resolved(p)
        /\ registries' = [registries EXCEPT ![p] = WithStatus(@, histories[p][n])]
        /\ processed' = processed \cup {e}
        /\ UNCHANGED <<checkouts, stripeVars, purchases, floating, fetching, passports, enrolments>>

\* Restores the registry whatever its subscription is.
WithInvoiceFaulty(registry, kind) ==
    IF kind = "failed" THEN [registry EXCEPT !.billing = "past_due", !.grace = TRUE]
                       ELSE [registry EXCEPT !.billing = "active", !.grace = FALSE]

\* handleInvoiceEvent: a payment that succeeded restores an active subscription only.
WithInvoice(registry, kind) ==
    CASE kind = "failed" -> [registry EXCEPT !.billing = "past_due", !.grace = TRUE]
      [] kind = "paid" /\ registry.subscription = "active" ->
             [registry EXCEPT !.billing = "active", !.grace = FALSE]
      [] OTHER -> registry

ReceiveInvoice(p, kind, n) ==
    LET e == Event(p, kind, n)
    IN  /\ kind \in {"failed", "paid"}
        /\ Receive(e)
        /\ Resolved(p)
        /\ registries' = [registries EXCEPT ![p] = WithInvoice(@, kind)]
        /\ processed' = processed \cup {e}
        /\ UNCHANGED <<checkouts, stripeVars, purchases, floating, fetching, passports, enrolments>>

-----------------------------------------------------------------------------
(* GET /api/checkout/session/[sessionId] creates the registry a completed  *)
(* purchase lacks, without the identifiers of its subscription, and shows  *)
(* its token.  POST .../recover replaces the token and shows the new one.  *)

VerifySession(p) ==
    /\ purchases[p].linked /\ purchases[p].status = "completed"
    /\ ~registries[p].exists
    /\ registries' = [registries EXCEPT ![p] = Entitled(Created(FALSE, TRUE))]
    /\ UNCHANGED <<checkouts, stripeVars, purchases, webhookVars, passports, enrolments>>

VerifySessionCut(p) ==
    /\ purchases[p].linked /\ purchases[p].status = "completed"
    /\ ~registries[p].exists
    /\ registries' = [registries EXCEPT ![p] = Created(FALSE, FALSE)]
    /\ UNCHANGED <<checkouts, stripeVars, purchases, webhookVars, passports, enrolments>>

RecoverToken(p) ==
    /\ sessions[p] = "paid" /\ purchases[p].linked
    /\ registries[p].exists
    /\ registries' = [registries EXCEPT ![p].disclosed = TRUE]
    /\ UNCHANGED <<checkouts, stripeVars, purchases, webhookVars, passports, enrolments>>

-----------------------------------------------------------------------------
(* POST /api/agent-passports, and the form's enrollAgentAction.            *)

\* Asks whether a passport was issued, and not whether the purchase was paid.
CanEnrollFaulty(p) == purchases[p].linked /\ purchases[p].enrolment # "passport_issued"

\* canEnrollWithPurchase, which does not look at the tier.
CanEnroll(p) ==
    /\ purchases[p].linked
    /\ purchases[p].status = "completed"
    /\ purchases[p].enrolment # "passport_issued"

Started(k, path, p) == [enrolments EXCEPT ![k] = [stage |-> "signing", path |-> path, about |-> p]]

StartEnrolment(k, p) ==
    /\ enrolments[k].stage = "idle"
    /\ CanEnroll(p)
    /\ purchases' = [purchases EXCEPT ![p].enrolment = "started"]
    /\ enrolments' = Started(k, "session", p)
    /\ UNCHANGED <<checkouts, stripeVars, webhookVars, registries, passports>>

\* Opens the purchase to another attempt.
EnrolmentLostFaulty(k) ==
    /\ enrolments[k].stage = "signing"
    /\ purchases' = IF enrolments[k].path = "session"
                    THEN [purchases EXCEPT ![enrolments[k].about].enrolment = "not_started"]
                    ELSE purchases
    /\ enrolments' = [enrolments EXCEPT ![k] = NotEnrolling]
    /\ UNCHANGED <<checkouts, stripeVars, webhookVars, registries, passports>>

\* The call fails or dies while the passport is being signed, and leaves none.
EnrolmentLost(k) ==
    /\ enrolments[k].stage = "signing"
    /\ enrolments' = [enrolments EXCEPT ![k] = NotEnrolling]
    /\ UNCHANGED <<checkouts, stripeVars, purchases, webhookVars, registries, passports>>

\* createPassportRecord.
PassportCreated(k) == passports' = [passports EXCEPT ![k] = enrolments[k].about]

\* markPurchasePassportIssued: the last one to be issued is the purchase's.
MarkIssued(k, p) ==
    purchases' = [purchases EXCEPT ![p].enrolment = "passport_issued", ![p].passport = k]

IssuePassport(k) ==
    /\ enrolments[k].stage = "signing" /\ enrolments[k].path = "session"
    /\ PassportCreated(k)
    /\ MarkIssued(k, enrolments[k].about)
    /\ enrolments' = [enrolments EXCEPT ![k].stage = "issued"]
    /\ UNCHANGED <<checkouts, stripeVars, webhookVars, registries>>

\* The call is cut once the passport exists.
IssueCut(k) ==
    /\ enrolments[k].stage = "signing"
    /\ PassportCreated(k)
    /\ enrolments' = [enrolments EXCEPT ![k].stage = "stranded"]
    /\ UNCHANGED <<checkouts, stripeVars, purchases, webhookVars, registries>>

StartRegistryEnrolment(k, p) ==
    /\ enrolments[k].stage = "idle"
    /\ registries[p].exists /\ registries[p].disclosed
    /\ registries[p].entitled /\ registries[p].left > 0
    /\ enrolments' = Started(k, "registry", p)
    /\ UNCHANGED <<checkouts, stripeVars, purchases, webhookVars, registries, passports>>

\* Relies on the capacity found before the passport was signed.
HasRoomFaulty(registry) == registry.entitled

\* addPassportToRegistry's own look at both counts.
HasRoom(registry) == registry.entitled /\ registry.left > 0 /\ registry.remaining > 0

Listed(registry, k) ==
    [registry EXCEPT !.listed = @ \cup {k}, !.issued = @ + 1, !.remaining = @ - 1,
                     !.used = @ + 1, !.left = @ - 1]

IssueRegistryPassport(k) ==
    LET p == enrolments[k].about
    IN  /\ enrolments[k].stage = "signing" /\ enrolments[k].path = "registry"
        /\ PassportCreated(k)
        /\ \/ /\ HasRoom(registries[p])
              /\ registries' = [registries EXCEPT ![p] = Listed(@, k)]
              /\ enrolments' = [enrolments EXCEPT ![k].stage = "issued"]
           \/ /\ ~HasRoom(registries[p])
              /\ enrolments' = [enrolments EXCEPT ![k].stage = "stranded"]
              /\ UNCHANGED registries
        /\ UNCHANGED <<checkouts, stripeVars, purchases, webhookVars>>

-----------------------------------------------------------------------------
CheckoutNext ==
    \/ \E p \in Purchases :
           \/ OpenCheckout(p) \/ LinkSession(p) \/ CheckoutLost(p)
           \/ CreateSession(p) \/ Pay(p) \/ Expire(p)
           \/ ReceiveCompleted(p) \/ ReceiveCompletedCut(p) \/ ReceiveExpired(p)
           \/ \E kind \in {"completed", "expired"} : ReceiveUnknown(p, kind) \/ ReceiveCut(p, kind)
    \/ \E p \in Orgs :
           \/ \E status \in Statuses : ChangeSubscription(p, status)
           \/ Fetch(p) \/ FetchCut(p) \/ BillCheckout(p)
           \/ VerifySession(p) \/ VerifySessionCut(p) \/ RecoverToken(p)
           \/ \E n \in 1..MaxChanges :
                  \/ ReceiveSubscription(p, n)
                  \/ \E kind \in {"failed", "paid"} : ReceiveInvoice(p, kind, n)
    \/ \E e \in Events : ReceiveUnresolved(e)
    \/ \E k \in Passports :
           \/ \E p \in Purchases : StartEnrolment(k, p)
           \/ \E p \in Orgs : StartRegistryEnrolment(k, p)
           \/ EnrolmentLost(k) \/ IssuePassport(k) \/ IssueCut(k) \/ IssueRegistryPassport(k)

CheckoutSpec == CheckoutInit /\ [][CheckoutNext]_checkoutVars

\* Stripe repeats a delivery until it is answered, and the buyer returns to the
\* page that shows the session until it shows the registry.
Told(p) == ReceiveCompleted(p) \/ ReceiveCompletedCut(p) \/ ReceiveUnknown(p, "completed")
               \/ ReceiveCut(p, "completed")

CheckoutFairness ==
    /\ \A p \in Purchases : WF_checkoutVars(Told(p))
    /\ \A p \in Orgs : WF_checkoutVars(VerifySession(p) \/ VerifySessionCut(p))

FairCheckoutSpec == CheckoutSpec /\ CheckoutFairness

-----------------------------------------------------------------------------
(* Properties.                                                             *)

\* A passport is enrolled only against a purchase that was paid for, whatever
\* was delivered, in which order, and whatever was cut.
PassportsArePaid ==
    \A k \in Passports : passports[k] # Unclaimed => sessions[passports[k]] = "paid"

\* The enrolment was answered with its passport.
Issued(k, path, p) == enrolments[k] = [stage |-> "issued", path |-> path, about |-> p]

\* A purchase whose enrolment by its session was answered stays closed to further
\* ones, and names a passport so enrolled: canEnrollWithPurchase is asked before
\* the passport is signed and markPurchasePassportIssued runs after, so that
\* enrolments that overlap may each make one, and none that starts later does.
IssuedPurchaseClosed ==
    \A k \in Passports, p \in Purchases : Issued(k, "session", p) =>
        /\ purchases[p].enrolment = "passport_issued"
        /\ purchases[p].passport \in Passports
        /\ Issued(purchases[p].passport, "session", p)
        /\ passports[purchases[p].passport] = p

\* A registry's counts, its entitlement's and its list agree, never exceed its
\* capacity, and its list has the passports handed out through it, and no others,
\* however many enrolments were under way: addPassportToRegistry looks again.
\* What is enrolled by the session of the same purchase takes none of its places.
CapacityAddsUp ==
    \A p \in Orgs : LET r == registries[p] IN r.exists =>
        /\ r.issued = Cardinality(r.listed) /\ r.issued <= MaxPassports
        /\ r.issued + r.remaining = MaxPassports
        /\ r.entitled => r.used = r.issued /\ r.left = r.remaining
        /\ ~r.entitled => r.listed = {}
        /\ \A k \in Passports : k \in r.listed <=> Issued(k, "registry", p)

\* The billing status is what the subscription's maps to, or past due because an
\* invoice says so, and then a period of grace is set: handleSubscriptionEvent,
\* handleInvoiceEvent and the completed checkout write the two in any order.
BillingMatchesSubscription ==
    \A p \in Orgs : LET r == registries[p] IN
        /\ r.billing \in {Mapped(r.subscription), "past_due"} \cup
               (IF r.subscription = "none" THEN {"unknown"} ELSE {})
        /\ r.billing = "past_due" /\ r.subscription # "past_due" => r.grace

\* An event that found no registry is older than the status the completed checkout
\* then fetches, so nothing is forgotten: the registry is found by its subscription
\* from before Stripe is asked.  (A fetch that fails brings no status to compare.)
FetchCoversFloating ==
    \A p \in Orgs : fetching[p].stage = "answered" /\ fetching[p].change # 0 =>
        \A e \in floating : e.about = p => e.change <= fetching[p].change

\* What is paid for arrives: the purchase is completed and an organization's has its
\* registry, unless the one delivery of the event was cut before it completed
\* the purchase, since every later one is taken for a duplicate.
PaymentLands ==
    \A p \in Purchases :
        sessions[p] = "paid" ~>
            \/ /\ purchases[p].status = "completed"
               /\ p \in Orgs => registries[p].exists
            \/ /\ purchases[p].status = "pending"
               /\ Event(p, "completed", 0) \in received \ processed
=============================================================================
