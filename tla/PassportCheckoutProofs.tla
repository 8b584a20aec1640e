--------------------------- MODULE PassportCheckoutProofs ---------------------------
(***************************************************************************)
(* What a purchase, its registry and its passports agree on for any        *)
(* number of purchases, passports, changes of a subscription and any       *)
(* capacity, whatever Stripe delivers and whatever is cut.                 *)
(***************************************************************************)
EXTENDS PassportCheckout, FiniteSetTheorems, TLAPS

-----------------------------------------------------------------------------
(* The inductive invariant.                                                *)

CompletedEvent(p) == Event(p, "completed", 0)

\* A purchase is completed, and has a registry, because the event that says it was
\* paid for was received, and that one is received once.
PaidInv ==
    /\ \A p \in Purchases :
           purchases[p].status = "completed" => sessions[p] = "paid" /\ CompletedEvent(p) \in received
    /\ \A p \in Orgs :
           registries[p].exists => sessions[p] = "paid" /\ CompletedEvent(p) \in received

\* Stripe is asked about a subscription by which the registry can already be found.
FetchInv ==
    /\ \A p \in Orgs : fetching[p].stage # "none" => Resolved(p)
    /\ \A p \in Orgs : fetching[p].change <= Len(histories[p])
    /\ \A e \in floating : e.about \in Orgs /\ e.change <= Len(histories[e.about])

\* A subscription has a history once its session is paid.
HistoryInv == \A p \in Orgs : sessions[p] # "paid" => histories[p] = << >>

\* An enrolment under way is against something that was paid for, through the registry
\* of one that has it, and a passport is that of its enrolment.
EnrolmentInv ==
    \A k \in Passports : LET n == enrolments[k] IN
        /\ n.stage # "idle" =>
               /\ n.about \in Purchases /\ sessions[n.about] = "paid"
               /\ n.path \in {"session", "registry"}
               /\ n.path = "registry" => n.about \in Orgs /\ registries[n.about].exists
        /\ n.stage \in {"idle", "signing"} => passports[k] = Unclaimed
        /\ n.stage = "issued" => passports[k] = n.about
        /\ passports[k] # Unclaimed => passports[k] = n.about /\ n.stage # "idle"

\* The passport a purchase names was issued against it, by its session.
NamedInv ==
    \A p \in Purchases :
        /\ purchases[p].passport # Unclaimed => Issued(purchases[p].passport, "session", p)
        /\ \A k \in Passports : Issued(k, "session", p) =>
               purchases[p].enrolment = "passport_issued" /\ purchases[p].passport \in Passports

\* A registry that does not exist has nothing recorded in its name.
EmptyInv == \A p \in Orgs : ~registries[p].exists => registries[p] = NoRegistry

CheckoutInv ==
    /\ PaidInv /\ HistoryInv /\ FetchInv /\ EnrolmentInv /\ NamedInv /\ EmptyInv
    /\ CapacityAddsUp /\ BillingMatchesSubscription /\ FetchCoversFloating

-----------------------------------------------------------------------------
(* Types.                                                                  *)

\* What Stripe emits is typed, and reports a change that there was.
LEMMA EmittedEvents ==
    ASSUME CheckoutTypeOK, NEW e, Emitted(e), e \in Events
    PROVE  /\ e.kind = "completed" => sessions[e.about] = "paid"
           /\ e.kind \in {"subscription", "failed", "paid"} =>
                  e.about \in Orgs /\ e.change \in 1..Len(histories[e.about])
  BY DEF Emitted, Events

LEMMA EventsAreTyped ==
    ASSUME NEW p \in Purchases, NEW n \in 0..MaxChanges,
           NEW kind \in {"completed", "expired", "subscription", "failed", "paid"}
    PROVE  /\ Event(p, kind, n) \in Events
           /\ Event(p, kind, n).about = p
           /\ Event(p, kind, n).kind = kind
           /\ Event(p, kind, n).change = n
  BY DEF Event, Events

\* The registries a step may write.
LEMMA RegistriesTyped ==
    ASSUME NEW r \in Registry
    PROVE  /\ NoRegistry \in Registry
           /\ \A linked, disclosed \in BOOLEAN :
                  Created(linked, disclosed) \in Registry /\ Entitled(Created(linked, disclosed)) \in Registry
           /\ \A status \in Statuses : WithStatus(r, status) \in Registry
           /\ \A kind \in {"failed", "paid"} : WithInvoice(r, kind) \in Registry
           /\ \A status \in Statuses \cup {"none"} :
                  [r EXCEPT !.linked = TRUE, !.billing = Mapped(status), !.subscription = status] \in Registry
           /\ [r EXCEPT !.disclosed = TRUE] \in Registry
  <1>1. NoRegistry \in Registry
    BY CheckoutAssumption DEF NoRegistry, Registry
  <1>2. ASSUME NEW linked \in BOOLEAN, NEW disclosed \in BOOLEAN
        PROVE  Created(linked, disclosed) \in Registry /\ Entitled(Created(linked, disclosed)) \in Registry
    <2>1. MaxPassports \in 0..MaxPassports
      BY CheckoutAssumption
    <2>2. Created(linked, disclosed) \in Registry
      BY <1>1, <1>2, <2>1 DEF Created, Registry
    <2>3. QED
      BY <2>1, <2>2 DEF Entitled, Registry
  <1>3. ASSUME NEW status \in Statuses
        PROVE  WithStatus(r, status) \in Registry
    <2>1. CASE status = "past_due"
      BY <2>1 DEF WithStatus, Mapped, Statuses, Registry
    <2>2. CASE status = "active"
      BY <2>2 DEF WithStatus, Mapped, Statuses, Registry
    <2>3. CASE status = "canceled"
      BY <2>3 DEF WithStatus, Mapped, Statuses, Registry
    <2>4. QED
      BY <1>3, <2>1, <2>2, <2>3 DEF Statuses
  <1>4. ASSUME NEW kind \in {"failed", "paid"}
        PROVE  WithInvoice(r, kind) \in Registry
    BY <1>4 DEF WithInvoice, Statuses, Registry
  <1>5. ASSUME NEW status \in Statuses \cup {"none"}
        PROVE  [r EXCEPT !.linked = TRUE, !.billing = Mapped(status), !.subscription = status] \in Registry
    BY <1>5 DEF Mapped, Statuses, Registry
  <1>6. [r EXCEPT !.disclosed = TRUE] \in Registry
    BY DEF Registry
  <1>7. QED
    BY <1>1, <1>2, <1>3, <1>4, <1>5, <1>6

\* The purchases a step may write.
LEMMA PurchasesTyped ==
    ASSUME CheckoutTypeOK, NEW p \in Purchases
    PROVE  /\ \A status \in {"pending", "completed", "expired"} :
                  [purchases EXCEPT ![p].status = status] \in [Purchases -> Purchase]
           /\ [purchases EXCEPT ![p].linked = TRUE] \in [Purchases -> Purchase]
           /\ [purchases EXCEPT ![p].enrolment = "started"] \in [Purchases -> Purchase]
           /\ \A k \in Passports :
                  [purchases EXCEPT ![p].enrolment = "passport_issued", ![p].passport = k]
                      \in [Purchases -> Purchase]
  <1>1. /\ purchases \in [Purchases -> Purchase]
        /\ purchases[p] \in Purchase
    BY DEF CheckoutTypeOK
  <1>2. ASSUME NEW status \in {"pending", "completed", "expired"}
        PROVE  [purchases EXCEPT ![p].status = status] \in [Purchases -> Purchase]
    <2>1. [purchases[p] EXCEPT !.status = status] \in Purchase
      BY <1>1, <1>2 DEF Purchase
    <2>2. QED
      BY <1>1, <2>1
  <1>3. [purchases EXCEPT ![p].linked = TRUE] \in [Purchases -> Purchase]
    <2>1. [purchases[p] EXCEPT !.linked = TRUE] \in Purchase
      BY <1>1 DEF Purchase
    <2>2. QED
      BY <1>1, <2>1
  <1>4. [purchases EXCEPT ![p].enrolment = "started"] \in [Purchases -> Purchase]
    <2>1. [purchases[p] EXCEPT !.enrolment = "started"] \in Purchase
      BY <1>1 DEF Purchase
    <2>2. QED
      BY <1>1, <2>1
  <1>5. ASSUME NEW k \in Passports
        PROVE  [purchases EXCEPT ![p].enrolment = "passport_issued", ![p].passport = k]
                   \in [Purchases -> Purchase]
    <2>1. [purchases[p] EXCEPT !.enrolment = "passport_issued", !.passport = k] \in Purchase
      BY <1>1 DEF Purchase
    <2>2. QED
      BY <1>1, <2>1
  <1>6. QED
    BY <1>2, <1>3, <1>4, <1>5

\* The enrolments and the questions to Stripe a step may write.
LEMMA CallsTyped ==
    ASSUME CheckoutTypeOK
    PROVE  /\ \A k \in Passports, path \in {"session", "registry"}, p \in Purchases :
                  Started(k, path, p) \in [Passports -> Enrolment]
           /\ \A k \in Passports, stage \in {"issued", "stranded"} :
                  [enrolments EXCEPT ![k].stage = stage] \in [Passports -> Enrolment]
           /\ \A k \in Passports :
                  [enrolments EXCEPT ![k] = NotEnrolling] \in [Passports -> Enrolment]
           /\ \A p \in Orgs, stage \in {"none", "asking", "answered"}, n \in Nat :
                  [fetching EXCEPT ![p] = [stage |-> stage, change |-> n]]
                      \in [Orgs -> [stage : {"none", "asking", "answered"}, change : Nat]]
  <1>1. enrolments \in [Passports -> Enrolment]
    BY DEF CheckoutTypeOK
  <1>2. ASSUME NEW k \in Passports, NEW path \in {"session", "registry"}, NEW p \in Purchases
        PROVE  Started(k, path, p) \in [Passports -> Enrolment]
    BY <1>1 DEF Started, Enrolment
  <1>3. ASSUME NEW k \in Passports, NEW stage \in {"issued", "stranded"}
        PROVE  [enrolments EXCEPT ![k].stage = stage] \in [Passports -> Enrolment]
    <2>1. [enrolments[k] EXCEPT !.stage = stage] \in Enrolment
      BY <1>1 DEF Enrolment
    <2>2. QED
      BY <1>1, <2>1
  <1>4. ASSUME NEW k \in Passports
        PROVE  [enrolments EXCEPT ![k] = NotEnrolling] \in [Passports -> Enrolment]
    BY <1>1 DEF NotEnrolling, Enrolment
  <1>5. ASSUME NEW p \in Orgs, NEW stage \in {"none", "asking", "answered"}, NEW n \in Nat
        PROVE  [fetching EXCEPT ![p] = [stage |-> stage, change |-> n]]
                   \in [Orgs -> [stage : {"none", "asking", "answered"}, change : Nat]]
    BY DEF CheckoutTypeOK
  <1>6. QED
    BY <1>2, <1>3, <1>4, <1>5

\* A registry that is written is typed, and so is the table.
LEMMA RegistryWritten ==
    ASSUME CheckoutTypeOK, NEW p \in Orgs, NEW r \in Registry
    PROVE  [registries EXCEPT ![p] = r] \in [Orgs -> Registry]
  BY DEF CheckoutTypeOK

LEMMA TypesPreserved ==
    ASSUME CheckoutTypeOK, CheckoutInv, [CheckoutNext]_checkoutVars
    PROVE  CheckoutTypeOK'
  <1>1. ASSUME NEW p \in Purchases, OpenCheckout(p)
        PROVE  CheckoutTypeOK'
    BY <1>1, CheckoutAssumption, PurchasesTyped DEF OpenCheckout, CheckoutTypeOK, stripeVars,
       webhookVars
  <1>2. ASSUME NEW p \in Purchases, LinkSession(p)
        PROVE  CheckoutTypeOK'
    BY <1>2, CheckoutAssumption, PurchasesTyped DEF LinkSession, CheckoutTypeOK, stripeVars,
       webhookVars
  <1>3. ASSUME NEW p \in Purchases, CheckoutLost(p)
        PROVE  CheckoutTypeOK'
    BY <1>3, CheckoutAssumption, EventsAreTyped DEF CheckoutLost, CheckoutTypeOK, stripeVars,
       webhookVars
  <1>4. ASSUME NEW p \in Purchases, CreateSession(p)
        PROVE  CheckoutTypeOK'
    BY <1>4, CheckoutAssumption, EventsAreTyped DEF CreateSession, CheckoutTypeOK, stripeVars,
       webhookVars
  <1>5. ASSUME NEW p \in Purchases, Pay(p)
        PROVE  CheckoutTypeOK'
    <2>1. histories' \in [Orgs -> Seq(Statuses)]
      <3>1. <<"active">> \in Seq(Statuses)
        BY DEF Statuses
      <3>2. QED
        BY <1>5, <3>1 DEF Pay, CheckoutTypeOK
    <2>2. sessions' \in [Purchases -> {"none", "open", "paid", "expired"}]
      BY <1>5 DEF Pay, CheckoutTypeOK
    <2>3. QED
      BY <1>5, <2>1, <2>2 DEF Pay, CheckoutTypeOK, webhookVars
  <1>6. ASSUME NEW p \in Purchases, Expire(p)
        PROVE  CheckoutTypeOK'
    BY <1>6, CheckoutAssumption, EventsAreTyped DEF Expire, CheckoutTypeOK, stripeVars, webhookVars
  <1>7. ASSUME NEW p \in Purchases, ReceiveCompleted(p)
        PROVE  CheckoutTypeOK'
    <2>1. purchases' \in [Purchases -> Purchase]
      BY <1>7, PurchasesTyped DEF ReceiveCompleted, Completed
    <2>2. Event(p, "completed", 0) \in Events
      BY CheckoutAssumption, EventsAreTyped
    <2>3. /\ received' \subseteq Events /\ processed' \subseteq received'
          /\ floating' \subseteq received'
      BY <1>7, <2>2 DEF ReceiveCompleted, Receive, CheckoutTypeOK
    <2>4. registries' \in [Orgs -> Registry]
      <3>1. CASE p \in Orgs /\ ~registries[p].exists
        <4>1. Entitled(Created(TRUE, FALSE)) \in Registry
          BY <3>1, RegistriesTyped DEF CheckoutTypeOK
        <4>2. QED
          BY <1>7, <3>1, <4>1, RegistryWritten DEF ReceiveCompleted, Ensured
      <3>2. CASE p \notin Orgs \/ registries[p].exists
        BY <1>7, <3>2 DEF ReceiveCompleted, Ensured, CheckoutTypeOK
      <3>3. QED
        BY <3>1, <3>2
    <2>5. fetching' \in [Orgs -> [stage : {"none", "asking", "answered"}, change : Nat]]
      <3>1. CASE p \in Orgs
        <4>1. fetching' = [fetching EXCEPT ![p] = [stage |-> "asking", change |-> 0]]
          BY <1>7, <3>1 DEF ReceiveCompleted
        <4>2. QED
          BY <3>1, <4>1, CallsTyped
      <3>2. CASE p \notin Orgs
        BY <1>7, <3>2 DEF ReceiveCompleted, CheckoutTypeOK
      <3>3. QED
        BY <3>1, <3>2
    <2>6. QED
      BY <1>7, <2>1, <2>3, <2>4, <2>5 DEF ReceiveCompleted, CheckoutTypeOK, stripeVars
  <1>8. ASSUME NEW p \in Purchases, ReceiveCompletedCut(p)
        PROVE  CheckoutTypeOK'
    <2>1. purchases' \in [Purchases -> Purchase]
      BY <1>8, PurchasesTyped DEF ReceiveCompletedCut, Completed
    <2>2. Event(p, "completed", 0) \in Events
      BY CheckoutAssumption, EventsAreTyped
    <2>3. /\ received' \subseteq Events /\ processed' \subseteq received'
          /\ floating' \subseteq received'
      BY <1>8, <2>2 DEF ReceiveCompletedCut, Receive, CheckoutTypeOK
    <2>4. registries' \in [Orgs -> Registry]
      <3>1. ASSUME p \in Orgs, registries' = [registries EXCEPT ![p] = Created(TRUE, FALSE)]
            PROVE  registries' \in [Orgs -> Registry]
        BY <3>1, RegistriesTyped, RegistryWritten DEF CheckoutTypeOK
      <3>2. QED
        BY <1>8, <3>1 DEF ReceiveCompletedCut, CheckoutTypeOK
    <2>5. QED
      BY <1>8, <2>1, <2>3, <2>4 DEF ReceiveCompletedCut, CheckoutTypeOK, stripeVars
  <1>9. ASSUME NEW p \in Purchases, ReceiveExpired(p)
        PROVE  CheckoutTypeOK'
    <2>1. purchases' \in [Purchases -> Purchase]
      BY <1>9, PurchasesTyped DEF ReceiveExpired
    <2>2. Event(p, "expired", 0) \in Events
      BY CheckoutAssumption, EventsAreTyped
    <2>3. /\ received' \subseteq Events /\ processed' \subseteq received'
          /\ floating' \subseteq received'
      BY <1>9, <2>2 DEF ReceiveExpired, Receive, CheckoutTypeOK
    <2>4. QED
      BY <1>9, <2>1, <2>3 DEF ReceiveExpired, CheckoutTypeOK, stripeVars
  <1>10. ASSUME NEW p \in Purchases, NEW kind \in {"completed", "expired"}, ReceiveUnknown(p, kind)
        PROVE  CheckoutTypeOK'
    BY <1>10, CheckoutAssumption, EventsAreTyped DEF ReceiveUnknown, CheckoutTypeOK, stripeVars,
       webhookVars, Receive
  <1>11. ASSUME NEW p \in Purchases, NEW kind \in {"completed", "expired"}, ReceiveCut(p, kind)
        PROVE  CheckoutTypeOK'
    BY <1>11, CheckoutAssumption, EventsAreTyped DEF ReceiveCut, CheckoutTypeOK, stripeVars,
       webhookVars, Receive
  <1>12. ASSUME NEW p \in Orgs, NEW status \in Statuses, ChangeSubscription(p, status)
        PROVE  CheckoutTypeOK'
    BY <1>12, CheckoutAssumption DEF ChangeSubscription, CheckoutTypeOK, stripeVars, webhookVars,
       Statuses
  <1>13. ASSUME NEW p \in Orgs, Fetch(p)
        PROVE  CheckoutTypeOK'
    BY <1>13, CheckoutAssumption, EventsAreTyped DEF Fetch, CheckoutTypeOK, stripeVars,
       webhookVars, Statuses
  <1>14. ASSUME NEW p \in Orgs, FetchCut(p)
        PROVE  CheckoutTypeOK'
    BY <1>14, CheckoutAssumption, CallsTyped DEF FetchCut, CheckoutTypeOK, stripeVars, webhookVars,
       NotFetching
  <1>15. ASSUME NEW p \in Orgs, BillCheckout(p)
        PROVE  CheckoutTypeOK'
    <2> DEFINE n == fetching[p].change
               status == IF n = 0 THEN "none" ELSE histories[p][n]
               r == [registries[p] EXCEPT !.linked = TRUE, !.billing = Mapped(status),
                                          !.subscription = status]
    <2>1. status \in Statuses \cup {"none"}
      BY DEF CheckoutTypeOK, CheckoutInv, FetchInv
    <2>2. r \in Registry
      BY <2>1, RegistriesTyped DEF CheckoutTypeOK
    <2>3. registries' = [registries EXCEPT ![p] = r]
      BY <1>15 DEF BillCheckout
    <2>4. registries' \in [Orgs -> Registry]
      BY <2>2, <2>3, RegistryWritten
    <2>5. Event(p, "completed", 0) \in received
      BY <1>15 DEF BillCheckout, CheckoutInv, FetchInv, PaidInv, CompletedEvent, Resolved
    <2>6. fetching' \in [Orgs -> [stage : {"none", "asking", "answered"}, change : Nat]]
      BY <1>15, CallsTyped DEF BillCheckout, NotFetching
    <2>7. QED
      BY <1>15, <2>4, <2>5, <2>6 DEF BillCheckout, CheckoutTypeOK, stripeVars
  <1>16. ASSUME NEW p \in Orgs, VerifySession(p)
        PROVE  CheckoutTypeOK'
    <2>1. Entitled(Created(FALSE, TRUE)) \in Registry
      BY RegistriesTyped DEF CheckoutTypeOK
    <2>2. registries' \in [Orgs -> Registry]
      BY <1>16, <2>1, RegistryWritten DEF VerifySession
    <2>3. QED
      BY <1>16, <2>2 DEF VerifySession, CheckoutTypeOK, stripeVars, webhookVars
  <1>17. ASSUME NEW p \in Orgs, VerifySessionCut(p)
        PROVE  CheckoutTypeOK'
    <2>1. Created(FALSE, FALSE) \in Registry
      BY RegistriesTyped DEF CheckoutTypeOK
    <2>2. registries' \in [Orgs -> Registry]
      BY <1>17, <2>1, RegistryWritten DEF VerifySessionCut
    <2>3. QED
      BY <1>17, <2>2 DEF VerifySessionCut, CheckoutTypeOK, stripeVars, webhookVars
  <1>18. ASSUME NEW p \in Orgs, RecoverToken(p)
        PROVE  CheckoutTypeOK'
    <2>1. [registries[p] EXCEPT !.disclosed = TRUE] \in Registry
      BY RegistriesTyped DEF CheckoutTypeOK
    <2>2. registries' \in [Orgs -> Registry]
      BY <1>18, <2>1, RegistryWritten DEF RecoverToken
    <2>3. QED
      BY <1>18, <2>2 DEF RecoverToken, CheckoutTypeOK, stripeVars, webhookVars
  <1>19. ASSUME NEW p \in Orgs, NEW n \in 1..MaxChanges, ReceiveSubscription(p, n)
        PROVE  CheckoutTypeOK'
    <2>1. Event(p, "subscription", n) \in Events /\ Event(p, "subscription", n).change = n
      BY CheckoutAssumption, EventsAreTyped DEF Purchases
    <2>2. n \in 1..Len(histories[p])
      BY <1>19, <2>1, EmittedEvents, EventsAreTyped, CheckoutAssumption
        DEF ReceiveSubscription, Receive, Purchases
    <2>3. WithStatus(registries[p], histories[p][n]) \in Registry
      <3>1. histories[p][n] \in Statuses /\ registries[p] \in Registry
        BY <2>2 DEF CheckoutTypeOK
      <3>2. QED
        BY <3>1, RegistriesTyped
    <2>4. registries' \in [Orgs -> Registry]
      BY <1>19, <2>3, RegistryWritten DEF ReceiveSubscription
    <2>5. /\ received' \subseteq Events /\ processed' \subseteq received'
          /\ floating' \subseteq received'
      BY <1>19, <2>1 DEF ReceiveSubscription, Receive, CheckoutTypeOK
    <2>6. QED
      BY <1>19, <2>4, <2>5 DEF ReceiveSubscription, CheckoutTypeOK, stripeVars
  <1>20. ASSUME NEW p \in Orgs, NEW n \in 1..MaxChanges, NEW kind \in {"failed", "paid"},
     ReceiveInvoice(p, kind, n)
        PROVE  CheckoutTypeOK'
    <2>1. Event(p, kind, n) \in Events /\ Event(p, kind, n).change = n
      BY CheckoutAssumption, EventsAreTyped DEF Purchases
    <2>2. n \in 1..Len(histories[p])
      BY <1>20, <2>1, EmittedEvents, EventsAreTyped, CheckoutAssumption
        DEF ReceiveInvoice, Receive, Purchases
    <2>3. WithInvoice(registries[p], kind) \in Registry
      BY <2>2, RegistriesTyped DEF CheckoutTypeOK
    <2>4. registries' \in [Orgs -> Registry]
      BY <1>20, <2>3, RegistryWritten DEF ReceiveInvoice
    <2>5. /\ received' \subseteq Events /\ processed' \subseteq received'
          /\ floating' \subseteq received'
      BY <1>20, <2>1 DEF ReceiveInvoice, Receive, CheckoutTypeOK
    <2>6. QED
      BY <1>20, <2>4, <2>5 DEF ReceiveInvoice, CheckoutTypeOK, stripeVars
  <1>21. ASSUME NEW e \in Events, ReceiveUnresolved(e)
        PROVE  CheckoutTypeOK'
    BY <1>21, CheckoutAssumption, EventsAreTyped DEF ReceiveUnresolved, CheckoutTypeOK, stripeVars,
       webhookVars, Receive
  <1>22. ASSUME NEW k \in Passports, NEW p \in Purchases, StartEnrolment(k, p)
        PROVE  CheckoutTypeOK'
    BY <1>22, CheckoutAssumption, PurchasesTyped, CallsTyped DEF StartEnrolment, CheckoutTypeOK,
       stripeVars, webhookVars, Purchases
  <1>23. ASSUME NEW k \in Passports, NEW p \in Orgs, StartRegistryEnrolment(k, p)
        PROVE  CheckoutTypeOK'
    BY <1>23, CheckoutAssumption, CallsTyped DEF StartRegistryEnrolment, CheckoutTypeOK,
       stripeVars, webhookVars, Purchases
  <1>24. ASSUME NEW k \in Passports, EnrolmentLost(k)
        PROVE  CheckoutTypeOK'
    BY <1>24, CheckoutAssumption, CallsTyped DEF EnrolmentLost, CheckoutTypeOK, stripeVars,
       webhookVars
  <1>25. ASSUME NEW k \in Passports, IssuePassport(k)
        PROVE  CheckoutTypeOK'
    <2>1. enrolments[k].about \in Purchases
      BY <1>25 DEF IssuePassport, CheckoutInv, EnrolmentInv
    <2>2. purchases' \in [Purchases -> Purchase]
      BY <1>25, <2>1, PurchasesTyped DEF IssuePassport, MarkIssued
    <2>3. passports' \in [Passports -> Purchases \cup {Unclaimed}]
      BY <1>25, <2>1 DEF IssuePassport, PassportCreated, CheckoutTypeOK
    <2>4. enrolments' \in [Passports -> Enrolment]
      BY <1>25, CallsTyped DEF IssuePassport
    <2>5. QED
      BY <1>25, <2>2, <2>3, <2>4 DEF IssuePassport, CheckoutTypeOK, stripeVars, webhookVars
  <1>26. ASSUME NEW k \in Passports, IssueCut(k)
        PROVE  CheckoutTypeOK'
    <2>1. passports' \in [Passports -> Purchases \cup {Unclaimed}]
      BY <1>26 DEF IssueCut, PassportCreated, CheckoutTypeOK, Enrolment
    <2>2. enrolments' \in [Passports -> Enrolment]
      BY <1>26, CallsTyped DEF IssueCut
    <2>3. QED
      BY <1>26, <2>1, <2>2 DEF IssueCut, CheckoutTypeOK, stripeVars, webhookVars
  <1>27. ASSUME NEW k \in Passports, IssueRegistryPassport(k)
        PROVE  CheckoutTypeOK'
    <2> DEFINE p == enrolments[k].about
    <2>1. passports' \in [Passports -> Purchases \cup {Unclaimed}]
      BY <1>27 DEF IssueRegistryPassport, PassportCreated, CheckoutTypeOK, Enrolment
    <2>2. enrolments' \in [Passports -> Enrolment]
      <3>1. CASE enrolments' = [enrolments EXCEPT ![k].stage = "issued"]
        BY <3>1, CallsTyped
      <3>2. CASE enrolments' = [enrolments EXCEPT ![k].stage = "stranded"]
        BY <3>2, CallsTyped
      <3>3. QED
        BY <1>27, <3>1, <3>2 DEF IssueRegistryPassport
    <2>3. p \in Orgs
      BY <1>27 DEF IssueRegistryPassport, CheckoutInv, EnrolmentInv
    <2>4. ASSUME HasRoom(registries[p])
          PROVE  Listed(registries[p], k) \in Registry
      <3>1. /\ registries[p] \in Registry
            /\ registries[p].issued \in 0..MaxPassports /\ registries[p].remaining \in
               1..MaxPassports
            /\ registries[p].used \in 0..MaxPassports /\ registries[p].left \in 1..MaxPassports
        BY <2>3, <2>4 DEF CheckoutTypeOK, Registry, HasRoom
      <3>2. registries[p] # NoRegistry
        BY <2>4 DEF HasRoom, NoRegistry
      <3>3. /\ registries[p].issued + registries[p].remaining = MaxPassports
            /\ registries[p].used = registries[p].issued
        BY <2>3, <2>4, <3>2 DEF HasRoom, CheckoutInv, EmptyInv, CapacityAddsUp
      <3>4. /\ registries[p].issued + 1 \in 0..MaxPassports
            /\ registries[p].remaining - 1 \in 0..MaxPassports
            /\ registries[p].used + 1 \in 0..MaxPassports
            /\ registries[p].left - 1 \in 0..MaxPassports
        BY <3>1, <3>3, CheckoutAssumption
      <3>5. QED
        BY <3>1, <3>4 DEF Listed, Registry
    <2>5. registries' \in [Orgs -> Registry]
      <3>1. CASE HasRoom(registries[p]) /\ registries' = [registries EXCEPT ![p] = Listed(@, k)]
        BY <1>27, <2>3, <2>4, <3>1, RegistryWritten DEF IssueRegistryPassport
      <3>2. CASE UNCHANGED registries
        BY <3>2 DEF CheckoutTypeOK
      <3>3. QED
        BY <1>27, <3>1, <3>2 DEF IssueRegistryPassport
    <2>6. QED
      BY <1>27, <2>1, <2>2, <2>5 DEF IssueRegistryPassport, CheckoutTypeOK, stripeVars, webhookVars
  <1>28. CASE UNCHANGED checkoutVars
    BY <1>28 DEF CheckoutTypeOK, checkoutVars, stripeVars, webhookVars
  <1>29. QED
    BY <1>1, <1>2, <1>3, <1>4, <1>5, <1>6, <1>7, <1>8, <1>9, <1>10, <1>11, <1>12, <1>13, <1>14,
       <1>15, <1>16, <1>17, <1>18, <1>19, <1>20, <1>21, <1>22, <1>23, <1>24, <1>25, <1>26, <1>27,
          <1>28 DEF CheckoutNext

-----------------------------------------------------------------------------
(* What a step writes of a registry, and what it keeps.                    *)

Counts(r) == [entitled |-> r.entitled, issued |-> r.issued, remaining |-> r.remaining,
              used |-> r.used, left |-> r.left, listed |-> r.listed]

Bills(r) == [billing |-> r.billing, subscription |-> r.subscription, grace |-> r.grace]

\* The update of the billing profile by a completed checkout.
Billed(r, status) == [r EXCEPT !.linked = TRUE, !.billing = Mapped(status), !.subscription = status]

\* A write to the billing profile touches no count.
LEMMA BillingKeepsCounts ==
    ASSUME NEW r \in Registry
    PROVE  /\ \A status \in Statuses :
                  /\ WithStatus(r, status).exists = r.exists /\ WithStatus(r, status).linked = r.linked
                  /\ Counts(WithStatus(r, status)) = Counts(r)
           /\ \A kind \in {"failed", "paid"} :
                  /\ WithInvoice(r, kind).exists = r.exists /\ WithInvoice(r, kind).linked = r.linked
                  /\ Counts(WithInvoice(r, kind)) = Counts(r)
           /\ \A status \in Statuses \cup {"none"} :
                  /\ Billed(r, status).exists = r.exists /\ Billed(r, status).linked
                  /\ Counts(Billed(r, status)) = Counts(r)
  <1>1. ASSUME NEW status \in Statuses
        PROVE  /\ WithStatus(r, status).exists = r.exists /\ WithStatus(r, status).linked = r.linked
               /\ Counts(WithStatus(r, status)) = Counts(r)
    BY <1>1 DEF WithStatus, Counts, Registry
  <1>2. ASSUME NEW kind \in {"failed", "paid"}
        PROVE  /\ WithInvoice(r, kind).exists = r.exists /\ WithInvoice(r, kind).linked = r.linked
               /\ Counts(WithInvoice(r, kind)) = Counts(r)
    <2>1. CASE kind = "failed"
      BY <2>1 DEF WithInvoice, Counts, Registry
    <2>2. CASE kind = "paid" /\ r.subscription = "active"
      BY <2>2 DEF WithInvoice, Counts, Registry
    <2>3. CASE kind = "paid" /\ r.subscription # "active"
      BY <2>3 DEF WithInvoice
    <2>4. QED
      BY <1>2, <2>1, <2>2, <2>3
  <1>3. ASSUME NEW status \in Statuses \cup {"none"}
        PROVE  /\ Billed(r, status).exists = r.exists /\ Billed(r, status).linked
               /\ Counts(Billed(r, status)) = Counts(r)
    BY DEF Billed, Counts, Registry
  <1>4. QED
    BY <1>1, <1>2, <1>3

\* A passport that is listed touches no billing.
LEMMA ListingKeepsBilling ==
    ASSUME NEW r \in Registry, NEW k \in Passports
    PROVE  /\ Listed(r, k).exists = r.exists /\ Listed(r, k).linked = r.linked
           /\ Bills(Listed(r, k)) = Bills(r)
  BY DEF Listed, Bills, Registry

\* What a registry counts before anything is issued.
Fresh(entitled, left) == [entitled |-> entitled, issued |-> 0, remaining |-> MaxPassports,
                          used |-> 0, left |-> left, listed |-> {}]

\* A registry that is created has everything to issue.
LEMMA CreatedIsFresh ==
    ASSUME NEW linked \in BOOLEAN, NEW disclosed \in BOOLEAN
    PROVE  /\ Created(linked, disclosed).exists /\ Created(linked, disclosed).linked = linked
           /\ Entitled(Created(linked, disclosed)).exists
           /\ Entitled(Created(linked, disclosed)).linked = linked
           /\ Bills(Created(linked, disclosed)) = Bills(NoRegistry)
           /\ Bills(Entitled(Created(linked, disclosed))) = Bills(NoRegistry)
           /\ Counts(Created(linked, disclosed)) = Fresh(FALSE, 0)
           /\ Counts(Entitled(Created(linked, disclosed))) = Fresh(TRUE, MaxPassports)
  <1> DEFINE c == Created(linked, disclosed)
  <1>1. /\ c \in [exists : BOOLEAN, linked : BOOLEAN, disclosed : BOOLEAN,
                  entitled : {FALSE}, issued : {0}, remaining : {MaxPassports}, used : {0}, left : {0},
                  listed : {{}}, billing : {"unknown"}, subscription : {"none"}, grace : {FALSE}]
        /\ c.exists /\ c.linked = linked
    BY DEF Created, NoRegistry
  <1> HIDE DEF c
  <1>2. Bills(c) = Bills(NoRegistry) /\ Counts(c) = Fresh(FALSE, 0)
    <2>1. /\ c.entitled = FALSE /\ c.issued = 0 /\ c.remaining = MaxPassports /\ c.used = 0
          /\ c.left = 0 /\ c.listed = {}
      BY <1>1
    <2>2. c.billing = "unknown" /\ c.subscription = "none" /\ c.grace = FALSE
      BY <1>1
    <2>3. QED
      BY <2>1, <2>2 DEF Counts, Bills, Fresh, NoRegistry
  <1>3. Entitled(c).exists /\ Entitled(c).linked = linked /\ Bills(Entitled(c)) = Bills(c)
    BY <1>1 DEF Entitled, Bills
  <1>4. Counts(Entitled(c)) = Fresh(TRUE, MaxPassports)
    <2>1. /\ Entitled(c).entitled = TRUE /\ Entitled(c).issued = 0
          /\ Entitled(c).remaining = MaxPassports /\ Entitled(c).used = 0
          /\ Entitled(c).left = MaxPassports /\ Entitled(c).listed = {}
      BY <1>1 DEF Entitled
    <2>2. QED
      BY <2>1 DEF Counts, Fresh
  <1>5. QED
    BY <1>1, <1>2, <1>3, <1>4 DEF c

\* A step writes one registry.
RegistryBecomes(p, r) == registries'[p] = r /\ \A q \in Orgs \ {p} : registries'[q] = registries[q]

LEMMA BillWrites ==
    ASSUME CheckoutTypeOK, CheckoutInv, NEW p \in Orgs, BillCheckout(p)
    PROVE  \E status \in Statuses \cup {"none"} :
               /\ RegistryBecomes(p, Billed(registries[p], status))
               /\ status # "none" => fetching[p].change # 0 /\ status = histories[p][fetching[p].change]
  <1> DEFINE status == IF fetching[p].change = 0 THEN "none" ELSE histories[p][fetching[p].change]
  <1>1. status \in Statuses \cup {"none"}
    BY DEF CheckoutTypeOK, CheckoutInv, FetchInv
  <1>2. registries' = [registries EXCEPT ![p] = Billed(registries[p], status)]
    BY DEF BillCheckout, Billed
  <1>3. RegistryBecomes(p, Billed(registries[p], status))
    BY <1>2 DEF CheckoutTypeOK, RegistryBecomes
  <1>4. status # "none" => fetching[p].change # 0
    OBVIOUS
  <1>5. QED
    BY <1>1, <1>2, <1>3, <1>4

LEMMA SubscriptionWrites ==
    ASSUME CheckoutTypeOK, NEW p \in Orgs, NEW n \in 1..MaxChanges, ReceiveSubscription(p, n)
    PROVE  \E status \in Statuses :
               RegistryBecomes(p, WithStatus(registries[p], status))
  <1>1. Event(p, "subscription", n) \in Events /\ Event(p, "subscription", n).change = n
    BY CheckoutAssumption, EventsAreTyped DEF Purchases
  <1>2. n \in 1..Len(histories[p])
    BY <1>1, EmittedEvents, EventsAreTyped, CheckoutAssumption DEF ReceiveSubscription, Receive, Purchases
  <1>3. histories[p][n] \in Statuses
    BY <1>2 DEF CheckoutTypeOK
  <1>4. QED
    BY <1>3 DEF ReceiveSubscription, CheckoutTypeOK, RegistryBecomes

LEMMA InvoiceWrites ==
    ASSUME CheckoutTypeOK, NEW p \in Orgs, NEW n \in 1..MaxChanges, NEW kind \in {"failed", "paid"},
           ReceiveInvoice(p, kind, n)
    PROVE  RegistryBecomes(p, WithInvoice(registries[p], kind))
  BY DEF ReceiveInvoice, CheckoutTypeOK, RegistryBecomes

\* An enrolment at this stage, on this path.
At(stage, path, p) == [stage |-> stage, path |-> path, about |-> p]

\* The enrolment k is now at this stage, and no other has moved.
EnrolmentBecomes(k, stage, path, p) ==
    /\ enrolments'[k] = At(stage, path, p)
    /\ \A j \in Passports \ {k} : enrolments'[j] = enrolments[j]

\* The passport k was made against p, and no other was made.
PassportBecomes(k, p) == passports'[k] = p /\ \A j \in Passports \ {k} : passports'[j] = passports[j]

LEMMA IssueWrites ==
    ASSUME CheckoutTypeOK, CheckoutInv, NEW k \in Passports, IssueRegistryPassport(k)
    PROVE  \E p \in Orgs :
               /\ enrolments[k] = At("signing", "registry", p)
               /\ PassportBecomes(k, p)
               /\ \/ /\ HasRoom(registries[p])
                     /\ RegistryBecomes(p, Listed(registries[p], k))
                     /\ EnrolmentBecomes(k, "issued", "registry", p)
                  \/ registries' = registries /\ EnrolmentBecomes(k, "stranded", "registry", p)
  <1> DEFINE p == enrolments[k].about
  <1>1. enrolments[k] = At("signing", "registry", p) /\ p \in Orgs
    BY DEF IssueRegistryPassport, CheckoutTypeOK, Enrolment, At, CheckoutInv, EnrolmentInv
  <1>2. PassportBecomes(k, p)
    BY DEF IssueRegistryPassport, PassportCreated, PassportBecomes, CheckoutTypeOK
  <1>3. ASSUME NEW stage \in {"issued", "stranded"}, enrolments' = [enrolments EXCEPT ![k].stage = stage]
        PROVE  EnrolmentBecomes(k, stage, "registry", p)
    <2>1. [enrolments[k] EXCEPT !.stage = stage] = At(stage, "registry", p)
      BY <1>1 DEF At
    <2>2. QED
      BY <1>3, <2>1 DEF EnrolmentBecomes, CheckoutTypeOK
  <1>4. CASE /\ HasRoom(registries[p])
             /\ registries' = [registries EXCEPT ![p] = Listed(registries[p], k)]
             /\ enrolments' = [enrolments EXCEPT ![k].stage = "issued"]
    <2>1. RegistryBecomes(p, Listed(registries[p], k))
      BY <1>1, <1>4 DEF CheckoutTypeOK, RegistryBecomes
    <2>2. QED
      BY <1>1, <1>2, <1>3, <1>4, <2>1
  <1>5. CASE registries' = registries /\ enrolments' = [enrolments EXCEPT ![k].stage = "stranded"]
    BY <1>1, <1>2, <1>3, <1>5
  <1>6. QED
    BY <1>4, <1>5 DEF IssueRegistryPassport

\* A passport issued by the session of a purchase.
LEMMA SessionWrites ==
    ASSUME CheckoutTypeOK, CheckoutInv, NEW k \in Passports, IssuePassport(k)
    PROVE  \E p \in Purchases :
               /\ enrolments[k] = At("signing", "session", p)
               /\ PassportBecomes(k, p) /\ EnrolmentBecomes(k, "issued", "session", p)
               /\ purchases'[p].enrolment = "passport_issued" /\ purchases'[p].passport = k
               /\ purchases'[p].status = purchases[p].status
               /\ \A q \in Purchases \ {p} : purchases'[q] = purchases[q]
  <1> DEFINE p == enrolments[k].about
  <1>1. enrolments[k] = At("signing", "session", p) /\ p \in Purchases
    BY DEF IssuePassport, CheckoutTypeOK, Enrolment, At, CheckoutInv, EnrolmentInv
  <1>2. PassportBecomes(k, p)
    BY DEF IssuePassport, PassportCreated, PassportBecomes, CheckoutTypeOK
  <1>3. EnrolmentBecomes(k, "issued", "session", p)
    <2>1. [enrolments[k] EXCEPT !.stage = "issued"] = At("issued", "session", p)
      BY <1>1 DEF At
    <2>2. QED
      BY <2>1 DEF IssuePassport, EnrolmentBecomes, CheckoutTypeOK
  <1>4. /\ purchases'[p].enrolment = "passport_issued" /\ purchases'[p].passport = k
        /\ purchases'[p].status = purchases[p].status
        /\ \A q \in Purchases \ {p} : purchases'[q] = purchases[q]
    BY <1>1 DEF IssuePassport, MarkIssued, CheckoutTypeOK, Purchase
  <1>5. QED
    BY <1>1, <1>2, <1>3, <1>4

\* The purchase p is completed, and no other has changed.
PurchaseCompleted(p) ==
    /\ purchases'[p].status = "completed"
    /\ purchases'[p].enrolment = purchases[p].enrolment /\ purchases'[p].passport = purchases[p].passport
    /\ \A q \in Purchases \ {p} : purchases'[q] = purchases[q]

LEMMA CompletedWrites ==
    ASSUME CheckoutTypeOK, CheckoutInv, NEW p \in Purchases, ReceiveCompleted(p)
    PROVE  /\ sessions[p] = "paid" /\ CompletedEvent(p) \in received'
           /\ PurchaseCompleted(p)
           /\ p \in Orgs => /\ ~registries[p].exists
                            /\ RegistryBecomes(p, Entitled(Created(TRUE, FALSE)))
                            /\ fetching'[p] = [stage |-> "asking", change |-> 0]
                            /\ \A q \in Orgs \ {p} : fetching'[q] = fetching[q]
           /\ p \notin Orgs => registries' = registries /\ fetching' = fetching
  <1>1. sessions[p] = "paid" /\ CompletedEvent(p) \in received'
    BY EmittedEvents, EventsAreTyped, CheckoutAssumption DEF ReceiveCompleted, Receive, CompletedEvent
  <1>2. PurchaseCompleted(p)
    BY DEF ReceiveCompleted, Completed, PurchaseCompleted, CheckoutTypeOK, Purchase
  <1>3. p \in Orgs => ~registries[p].exists
    BY DEF ReceiveCompleted, Receive, CheckoutInv, PaidInv, CompletedEvent
  <1>4. ASSUME p \in Orgs
        PROVE  RegistryBecomes(p, Entitled(Created(TRUE, FALSE)))
    BY <1>3, <1>4 DEF ReceiveCompleted, Ensured, RegistryBecomes, CheckoutTypeOK
  <1>5. ASSUME p \in Orgs
        PROVE  /\ fetching'[p] = [stage |-> "asking", change |-> 0]
               /\ \A q \in Orgs \ {p} : fetching'[q] = fetching[q]
    BY <1>5 DEF ReceiveCompleted, CheckoutTypeOK
  <1>6. p \notin Orgs => registries' = registries /\ fetching' = fetching
    BY DEF ReceiveCompleted
  <1>7. QED
    BY <1>1, <1>2, <1>3, <1>4, <1>5, <1>6

LEMMA CompletedCutWrites ==
    ASSUME CheckoutTypeOK, NEW p \in Purchases, ReceiveCompletedCut(p)
    PROVE  /\ sessions[p] = "paid" /\ CompletedEvent(p) \in received'
           /\ PurchaseCompleted(p)
           /\ \/ registries' = registries
              \/ p \in Orgs /\ ~registries[p].exists /\ RegistryBecomes(p, Created(TRUE, FALSE))
  <1>1. sessions[p] = "paid" /\ CompletedEvent(p) \in received'
    BY EmittedEvents, EventsAreTyped, CheckoutAssumption DEF ReceiveCompletedCut, Receive, CompletedEvent
  <1>2. PurchaseCompleted(p)
    BY DEF ReceiveCompletedCut, Completed, PurchaseCompleted, CheckoutTypeOK, Purchase
  <1>3. ASSUME p \in Orgs, registries' = [registries EXCEPT ![p] = Created(TRUE, FALSE)]
        PROVE  RegistryBecomes(p, Created(TRUE, FALSE))
    BY <1>3 DEF RegistryBecomes, CheckoutTypeOK
  <1>4. QED
    BY <1>1, <1>2, <1>3 DEF ReceiveCompletedCut

LEMMA VerifyWrites ==
    ASSUME CheckoutTypeOK, NEW p \in Orgs, VerifySession(p) \/ VerifySessionCut(p)
    PROVE  /\ purchases[p].status = "completed" /\ ~registries[p].exists
           /\ \/ RegistryBecomes(p, Entitled(Created(FALSE, TRUE)))
              \/ RegistryBecomes(p, Created(FALSE, FALSE))
  BY DEF VerifySession, VerifySessionCut, RegistryBecomes, CheckoutTypeOK

\* The registry once its new token was shown.
Shown(r) == [r EXCEPT !.disclosed = TRUE]

LEMMA RecoverWrites ==
    ASSUME CheckoutTypeOK, NEW p \in Orgs, RecoverToken(p)
    PROVE  /\ registries[p].exists
           /\ RegistryBecomes(p, Shown(registries[p]))
  BY DEF RecoverToken, RegistryBecomes, CheckoutTypeOK, Shown

\* Showing the token touches neither a count nor the billing.
LEMMA ShownKeeps ==
    ASSUME NEW r \in Registry
    PROVE  /\ Shown(r).exists = r.exists /\ Shown(r).linked = r.linked
           /\ Counts(Shown(r)) = Counts(r) /\ Bills(Shown(r)) = Bills(r)
  BY DEF Shown, Counts, Bills, Registry

\* An enrolment touches the billing of no registry.
LEMMA IssueKeeps ==
    ASSUME CheckoutTypeOK, CheckoutInv, NEW k \in Passports, IssueRegistryPassport(k)
    PROVE  \A q \in Orgs : /\ registries'[q].exists = registries[q].exists
                           /\ registries'[q].linked = registries[q].linked
                           /\ Bills(registries'[q]) = Bills(registries[q])
  <1>1. CASE registries' = registries
    BY <1>1
  <1>2. ASSUME NEW p \in Orgs, RegistryBecomes(p, Listed(registries[p], k))
        PROVE  \A q \in Orgs : /\ registries'[q].exists = registries[q].exists
                               /\ registries'[q].linked = registries[q].linked
                               /\ Bills(registries'[q]) = Bills(registries[q])
    <2>1. registries[p] \in Registry
      BY DEF CheckoutTypeOK
    <2>2. QED
      BY <1>2, <2>1, ListingKeepsBilling DEF RegistryBecomes
  <1>3. QED
    BY <1>1, <1>2, IssueWrites

-----------------------------------------------------------------------------
(* Every step preserves each part of the invariant.                        *)

LEMMA PaidPreserved ==
    ASSUME CheckoutTypeOK, CheckoutInv, CheckoutTypeOK', [CheckoutNext]_checkoutVars
    PROVE  PaidInv'
  <1>1. ASSUME NEW p \in Purchases, OpenCheckout(p)
        PROVE  PaidInv'
    BY <1>1 DEF OpenCheckout, Purchase, CheckoutTypeOK, PaidInv, CheckoutInv, stripeVars,
       webhookVars
  <1>2. ASSUME NEW p \in Purchases, LinkSession(p)
        PROVE  PaidInv'
    BY <1>2 DEF LinkSession, Purchase, CheckoutTypeOK, PaidInv, CheckoutInv, stripeVars, webhookVars
  <1>3. ASSUME NEW p \in Purchases, CheckoutLost(p)
        PROVE  PaidInv'
    BY <1>3 DEF CheckoutLost, CheckoutTypeOK, PaidInv, CheckoutInv, stripeVars, webhookVars
  <1>4. ASSUME NEW p \in Purchases, CreateSession(p)
        PROVE  PaidInv'
    BY <1>4 DEF CreateSession, CheckoutTypeOK, PaidInv, CheckoutInv, stripeVars, webhookVars
  <1>5. ASSUME NEW p \in Purchases, Pay(p)
        PROVE  PaidInv'
    BY <1>5 DEF Pay, CheckoutTypeOK, PaidInv, CheckoutInv, stripeVars, webhookVars
  <1>6. ASSUME NEW p \in Purchases, Expire(p)
        PROVE  PaidInv'
    BY <1>6 DEF Expire, CheckoutTypeOK, PaidInv, CheckoutInv, stripeVars, webhookVars
  <1>7. ASSUME NEW p \in Purchases, ReceiveCompleted(p)
        PROVE  PaidInv'
    <2>1. \A q \in Purchases \ {p} : purchases'[q] = purchases[q]
      BY <1>7, CompletedWrites DEF PurchaseCompleted
    <2>2. \A q \in Orgs \ {p} : registries'[q] = registries[q]
      BY <1>7, CompletedWrites DEF RegistryBecomes
    <2>3. sessions' = sessions /\ received \subseteq received'
      BY <1>7 DEF ReceiveCompleted, Receive, stripeVars
    <2>4. sessions[p] = "paid" /\ CompletedEvent(p) \in received'
      BY <1>7, CompletedWrites
    <2>5. QED
      BY <2>1, <2>2, <2>3, <2>4 DEF CheckoutInv, PaidInv, Purchases
  <1>8. ASSUME NEW p \in Purchases, ReceiveCompletedCut(p)
        PROVE  PaidInv'
    <2>1. \A q \in Purchases \ {p} : purchases'[q] = purchases[q]
      BY <1>8, CompletedCutWrites DEF PurchaseCompleted
    <2>2. \A q \in Orgs \ {p} : registries'[q] = registries[q]
      BY <1>8, CompletedCutWrites DEF RegistryBecomes
    <2>3. sessions' = sessions /\ received \subseteq received'
      BY <1>8 DEF ReceiveCompletedCut, Receive, stripeVars
    <2>4. sessions[p] = "paid" /\ CompletedEvent(p) \in received'
      BY <1>8, CompletedCutWrites
    <2>5. QED
      BY <2>1, <2>2, <2>3, <2>4 DEF CheckoutInv, PaidInv, Purchases
  <1>9. ASSUME NEW p \in Purchases, ReceiveExpired(p)
        PROVE  PaidInv'
    BY <1>9 DEF ReceiveExpired, Purchase, Receive, CheckoutTypeOK, PaidInv, CheckoutInv,
       stripeVars, webhookVars
  <1>10. ASSUME NEW p \in Purchases, NEW kind \in {"completed", "expired"}, ReceiveUnknown(p, kind)
        PROVE  PaidInv'
    BY <1>10 DEF ReceiveUnknown, Receive, CheckoutTypeOK, PaidInv, CheckoutInv, stripeVars,
       webhookVars
  <1>11. ASSUME NEW p \in Purchases, NEW kind \in {"completed", "expired"}, ReceiveCut(p, kind)
        PROVE  PaidInv'
    BY <1>11 DEF ReceiveCut, Receive, CheckoutTypeOK, PaidInv, CheckoutInv, stripeVars, webhookVars
  <1>12. ASSUME NEW p \in Orgs, NEW status \in Statuses, ChangeSubscription(p, status)
        PROVE  PaidInv'
    BY <1>12 DEF ChangeSubscription, CheckoutTypeOK, PaidInv, CheckoutInv, stripeVars, webhookVars
  <1>13. ASSUME NEW p \in Orgs, Fetch(p)
        PROVE  PaidInv'
    BY <1>13 DEF Fetch, CheckoutTypeOK, PaidInv, CheckoutInv, stripeVars, webhookVars
  <1>14. ASSUME NEW p \in Orgs, FetchCut(p)
        PROVE  PaidInv'
    BY <1>14 DEF FetchCut, CheckoutTypeOK, PaidInv, CheckoutInv, stripeVars, webhookVars
  <1>15. ASSUME NEW p \in Orgs, BillCheckout(p)
        PROVE  PaidInv'
    <2>1. registries[p] \in Registry
      BY DEF CheckoutTypeOK
    <2>2. \A q \in Orgs : registries'[q].exists = registries[q].exists
      BY <1>15, <2>1, BillWrites, BillingKeepsCounts DEF RegistryBecomes
    <2>3. UNCHANGED <<purchases, sessions>> /\ received \subseteq received'
      BY <1>15 DEF BillCheckout, Receive, stripeVars, webhookVars
    <2>4. QED
      BY <2>2, <2>3 DEF CheckoutInv, PaidInv
  <1>16. ASSUME NEW p \in Orgs, VerifySession(p)
        PROVE  PaidInv'
    BY <1>16, VerifyWrites, CreatedIsFresh DEF VerifySession, RegistryBecomes, Purchases,
       CheckoutInv, PaidInv, stripeVars, webhookVars
  <1>17. ASSUME NEW p \in Orgs, VerifySessionCut(p)
        PROVE  PaidInv'
    BY <1>17, VerifyWrites, CreatedIsFresh DEF VerifySessionCut, RegistryBecomes, Purchases,
       CheckoutInv, PaidInv, stripeVars, webhookVars
  <1>18. ASSUME NEW p \in Orgs, RecoverToken(p)
        PROVE  PaidInv'
    <2>1. registries[p] \in Registry
      BY DEF CheckoutTypeOK
    <2>2. QED
      BY <1>18, <2>1, RecoverWrites, ShownKeeps DEF RecoverToken, RegistryBecomes, CheckoutInv,
         PaidInv, stripeVars, webhookVars
  <1>19. ASSUME NEW p \in Orgs, NEW n \in 1..MaxChanges, ReceiveSubscription(p, n)
        PROVE  PaidInv'
    <2>1. registries[p] \in Registry
      BY DEF CheckoutTypeOK
    <2>2. \A q \in Orgs : registries'[q].exists = registries[q].exists
      BY <1>19, <2>1, SubscriptionWrites, BillingKeepsCounts DEF RegistryBecomes
    <2>3. UNCHANGED <<purchases, sessions>> /\ received \subseteq received'
      BY <1>19 DEF ReceiveSubscription, Receive, stripeVars, webhookVars
    <2>4. QED
      BY <2>2, <2>3 DEF CheckoutInv, PaidInv
  <1>20. ASSUME NEW p \in Orgs, NEW n \in 1..MaxChanges, NEW kind \in {"failed", "paid"},
     ReceiveInvoice(p, kind, n)
        PROVE  PaidInv'
    <2>1. registries[p] \in Registry
      BY DEF CheckoutTypeOK
    <2>2. QED
      BY <1>20, <2>1, InvoiceWrites, BillingKeepsCounts DEF ReceiveInvoice, RegistryBecomes,
         Receive, CheckoutInv, PaidInv, stripeVars, webhookVars
  <1>21. ASSUME NEW e \in Events, ReceiveUnresolved(e)
        PROVE  PaidInv'
    BY <1>21 DEF ReceiveUnresolved, Receive, CheckoutTypeOK, PaidInv, CheckoutInv, stripeVars,
       webhookVars
  <1>22. ASSUME NEW k \in Passports, NEW p \in Purchases, StartEnrolment(k, p)
        PROVE  PaidInv'
    BY <1>22 DEF StartEnrolment, Purchase, Purchases, CheckoutTypeOK, PaidInv, CheckoutInv,
       stripeVars, webhookVars
  <1>23. ASSUME NEW k \in Passports, NEW p \in Orgs, StartRegistryEnrolment(k, p)
        PROVE  PaidInv'
    BY <1>23 DEF StartRegistryEnrolment, CheckoutTypeOK, PaidInv, CheckoutInv, stripeVars,
       webhookVars
  <1>24. ASSUME NEW k \in Passports, EnrolmentLost(k)
        PROVE  PaidInv'
    BY <1>24 DEF EnrolmentLost, CheckoutTypeOK, PaidInv, CheckoutInv, stripeVars, webhookVars
  <1>25. ASSUME NEW k \in Passports, IssuePassport(k)
        PROVE  PaidInv'
    <2>1. \A q \in Purchases : purchases'[q].status = purchases[q].status
      BY <1>25, SessionWrites
    <2>2. UNCHANGED <<sessions, received, registries>>
      BY <1>25 DEF IssuePassport, stripeVars, webhookVars
    <2>3. QED
      BY <2>1, <2>2 DEF CheckoutInv, PaidInv
  <1>26. ASSUME NEW k \in Passports, IssueCut(k)
        PROVE  PaidInv'
    BY <1>26 DEF IssueCut, CheckoutTypeOK, PaidInv, CheckoutInv, stripeVars, webhookVars
  <1>27. ASSUME NEW k \in Passports, IssueRegistryPassport(k)
        PROVE  PaidInv'
    <2>1. \A q \in Orgs : registries'[q].exists = registries[q].exists
      BY <1>27, IssueKeeps
    <2>2. UNCHANGED <<purchases, sessions, received>>
      BY <1>27 DEF IssueRegistryPassport, stripeVars, webhookVars
    <2>3. QED
      BY <2>1, <2>2 DEF CheckoutInv, PaidInv
  <1>28. CASE UNCHANGED checkoutVars
    BY <1>28 DEF checkoutVars, CheckoutTypeOK, PaidInv, CheckoutInv, stripeVars, webhookVars
  <1>29. QED
    BY <1>1, <1>2, <1>3, <1>4, <1>5, <1>6, <1>7, <1>8, <1>9, <1>10, <1>11, <1>12, <1>13, <1>14,
       <1>15, <1>16, <1>17, <1>18, <1>19, <1>20, <1>21, <1>22, <1>23, <1>24, <1>25, <1>26, <1>27,
          <1>28 DEF CheckoutNext

LEMMA HistoryPreserved ==
    ASSUME CheckoutTypeOK, CheckoutInv, CheckoutTypeOK', [CheckoutNext]_checkoutVars
    PROVE  HistoryInv' /\ \A q \in Orgs : Len(histories[q]) <= Len(histories'[q])
  <1>1. ASSUME NEW p \in Purchases, OpenCheckout(p)
        PROVE  HistoryInv' /\ \A q \in Orgs : Len(histories[q]) <= Len(histories'[q])
    BY <1>1 DEF OpenCheckout, CheckoutTypeOK, HistoryInv, CheckoutInv, stripeVars
  <1>2. ASSUME NEW p \in Purchases, LinkSession(p)
        PROVE  HistoryInv' /\ \A q \in Orgs : Len(histories[q]) <= Len(histories'[q])
    BY <1>2 DEF LinkSession, CheckoutTypeOK, HistoryInv, CheckoutInv, stripeVars
  <1>3. ASSUME NEW p \in Purchases, CheckoutLost(p)
        PROVE  HistoryInv' /\ \A q \in Orgs : Len(histories[q]) <= Len(histories'[q])
    BY <1>3 DEF CheckoutLost, CheckoutTypeOK, HistoryInv, CheckoutInv, stripeVars
  <1>4. ASSUME NEW p \in Purchases, CreateSession(p)
        PROVE  HistoryInv' /\ \A q \in Orgs : Len(histories[q]) <= Len(histories'[q])
    BY <1>4 DEF CreateSession, Purchases, CheckoutTypeOK, HistoryInv, CheckoutInv, stripeVars
  <1>5. ASSUME NEW p \in Purchases, Pay(p)
        PROVE  HistoryInv' /\ \A q \in Orgs : Len(histories[q]) <= Len(histories'[q])
    BY <1>5 DEF Pay, Purchases, CheckoutTypeOK, HistoryInv, CheckoutInv, stripeVars
  <1>6. ASSUME NEW p \in Purchases, Expire(p)
        PROVE  HistoryInv' /\ \A q \in Orgs : Len(histories[q]) <= Len(histories'[q])
    BY <1>6 DEF Expire, Purchases, CheckoutTypeOK, HistoryInv, CheckoutInv, stripeVars
  <1>7. ASSUME NEW p \in Purchases, ReceiveCompleted(p)
        PROVE  HistoryInv' /\ \A q \in Orgs : Len(histories[q]) <= Len(histories'[q])
    BY <1>7 DEF ReceiveCompleted, CheckoutTypeOK, HistoryInv, CheckoutInv, stripeVars
  <1>8. ASSUME NEW p \in Purchases, ReceiveCompletedCut(p)
        PROVE  HistoryInv' /\ \A q \in Orgs : Len(histories[q]) <= Len(histories'[q])
    BY <1>8 DEF ReceiveCompletedCut, CheckoutTypeOK, HistoryInv, CheckoutInv, stripeVars
  <1>9. ASSUME NEW p \in Purchases, ReceiveExpired(p)
        PROVE  HistoryInv' /\ \A q \in Orgs : Len(histories[q]) <= Len(histories'[q])
    BY <1>9 DEF ReceiveExpired, CheckoutTypeOK, HistoryInv, CheckoutInv, stripeVars
  <1>10. ASSUME NEW p \in Purchases, NEW kind \in {"completed", "expired"}, ReceiveUnknown(p, kind)
        PROVE  HistoryInv' /\ \A q \in Orgs : Len(histories[q]) <= Len(histories'[q])
    BY <1>10 DEF ReceiveUnknown, CheckoutTypeOK, HistoryInv, CheckoutInv, stripeVars
  <1>11. ASSUME NEW p \in Purchases, NEW kind \in {"completed", "expired"}, ReceiveCut(p, kind)
        PROVE  HistoryInv' /\ \A q \in Orgs : Len(histories[q]) <= Len(histories'[q])
    BY <1>11 DEF ReceiveCut, CheckoutTypeOK, HistoryInv, CheckoutInv, stripeVars
  <1>12. ASSUME NEW p \in Orgs, NEW status \in Statuses, ChangeSubscription(p, status)
        PROVE  HistoryInv' /\ \A q \in Orgs : Len(histories[q]) <= Len(histories'[q])
    BY <1>12 DEF ChangeSubscription, Purchases, CheckoutTypeOK, HistoryInv, CheckoutInv, stripeVars
  <1>13. ASSUME NEW p \in Orgs, Fetch(p)
        PROVE  HistoryInv' /\ \A q \in Orgs : Len(histories[q]) <= Len(histories'[q])
    BY <1>13 DEF Fetch, CheckoutTypeOK, HistoryInv, CheckoutInv, stripeVars
  <1>14. ASSUME NEW p \in Orgs, FetchCut(p)
        PROVE  HistoryInv' /\ \A q \in Orgs : Len(histories[q]) <= Len(histories'[q])
    BY <1>14 DEF FetchCut, CheckoutTypeOK, HistoryInv, CheckoutInv, stripeVars
  <1>15. ASSUME NEW p \in Orgs, BillCheckout(p)
        PROVE  HistoryInv' /\ \A q \in Orgs : Len(histories[q]) <= Len(histories'[q])
    BY <1>15 DEF BillCheckout, CheckoutTypeOK, HistoryInv, CheckoutInv, stripeVars
  <1>16. ASSUME NEW p \in Orgs, VerifySession(p)
        PROVE  HistoryInv' /\ \A q \in Orgs : Len(histories[q]) <= Len(histories'[q])
    BY <1>16 DEF VerifySession, CheckoutTypeOK, HistoryInv, CheckoutInv, stripeVars
  <1>17. ASSUME NEW p \in Orgs, VerifySessionCut(p)
        PROVE  HistoryInv' /\ \A q \in Orgs : Len(histories[q]) <= Len(histories'[q])
    BY <1>17 DEF VerifySessionCut, CheckoutTypeOK, HistoryInv, CheckoutInv, stripeVars
  <1>18. ASSUME NEW p \in Orgs, RecoverToken(p)
        PROVE  HistoryInv' /\ \A q \in Orgs : Len(histories[q]) <= Len(histories'[q])
    BY <1>18 DEF RecoverToken, CheckoutTypeOK, HistoryInv, CheckoutInv, stripeVars
  <1>19. ASSUME NEW p \in Orgs, NEW n \in 1..MaxChanges, ReceiveSubscription(p, n)
        PROVE  HistoryInv' /\ \A q \in Orgs : Len(histories[q]) <= Len(histories'[q])
    BY <1>19 DEF ReceiveSubscription, CheckoutTypeOK, HistoryInv, CheckoutInv, stripeVars
  <1>20. ASSUME NEW p \in Orgs, NEW n \in 1..MaxChanges, NEW kind \in {"failed", "paid"},
     ReceiveInvoice(p, kind, n)
        PROVE  HistoryInv' /\ \A q \in Orgs : Len(histories[q]) <= Len(histories'[q])
    BY <1>20 DEF ReceiveInvoice, CheckoutTypeOK, HistoryInv, CheckoutInv, stripeVars
  <1>21. ASSUME NEW e \in Events, ReceiveUnresolved(e)
        PROVE  HistoryInv' /\ \A q \in Orgs : Len(histories[q]) <= Len(histories'[q])
    BY <1>21 DEF ReceiveUnresolved, CheckoutTypeOK, HistoryInv, CheckoutInv, stripeVars
  <1>22. ASSUME NEW k \in Passports, NEW p \in Purchases, StartEnrolment(k, p)
        PROVE  HistoryInv' /\ \A q \in Orgs : Len(histories[q]) <= Len(histories'[q])
    BY <1>22 DEF StartEnrolment, CheckoutTypeOK, HistoryInv, CheckoutInv, stripeVars
  <1>23. ASSUME NEW k \in Passports, NEW p \in Orgs, StartRegistryEnrolment(k, p)
        PROVE  HistoryInv' /\ \A q \in Orgs : Len(histories[q]) <= Len(histories'[q])
    BY <1>23 DEF StartRegistryEnrolment, CheckoutTypeOK, HistoryInv, CheckoutInv, stripeVars
  <1>24. ASSUME NEW k \in Passports, EnrolmentLost(k)
        PROVE  HistoryInv' /\ \A q \in Orgs : Len(histories[q]) <= Len(histories'[q])
    BY <1>24 DEF EnrolmentLost, CheckoutTypeOK, HistoryInv, CheckoutInv, stripeVars
  <1>25. ASSUME NEW k \in Passports, IssuePassport(k)
        PROVE  HistoryInv' /\ \A q \in Orgs : Len(histories[q]) <= Len(histories'[q])
    BY <1>25 DEF IssuePassport, CheckoutTypeOK, HistoryInv, CheckoutInv, stripeVars
  <1>26. ASSUME NEW k \in Passports, IssueCut(k)
        PROVE  HistoryInv' /\ \A q \in Orgs : Len(histories[q]) <= Len(histories'[q])
    BY <1>26 DEF IssueCut, CheckoutTypeOK, HistoryInv, CheckoutInv, stripeVars
  <1>27. ASSUME NEW k \in Passports, IssueRegistryPassport(k)
        PROVE  HistoryInv' /\ \A q \in Orgs : Len(histories[q]) <= Len(histories'[q])
    BY <1>27 DEF IssueRegistryPassport, CheckoutTypeOK, HistoryInv, CheckoutInv, stripeVars
  <1>28. CASE UNCHANGED checkoutVars
    BY <1>28 DEF checkoutVars, CheckoutTypeOK, HistoryInv, CheckoutInv, stripeVars
  <1>29. QED
    BY <1>1, <1>2, <1>3, <1>4, <1>5, <1>6, <1>7, <1>8, <1>9, <1>10, <1>11, <1>12, <1>13, <1>14,
       <1>15, <1>16, <1>17, <1>18, <1>19, <1>20, <1>21, <1>22, <1>23, <1>24, <1>25, <1>26, <1>27,
          <1>28 DEF CheckoutNext

\* Who writes a registry.
LEMMA RegistryWriters ==
    ASSUME [CheckoutNext]_checkoutVars
    PROVE  \/ UNCHANGED registries
           \/ \E p \in Purchases : ReceiveCompleted(p) \/ ReceiveCompletedCut(p)
           \/ \E p \in Orgs : BillCheckout(p) \/ VerifySession(p) \/ VerifySessionCut(p) \/ RecoverToken(p)
           \/ \E p \in Orgs, n \in 1..MaxChanges : ReceiveSubscription(p, n)
           \/ \E p \in Orgs, n \in 1..MaxChanges, kind \in {"failed", "paid"} : ReceiveInvoice(p, kind, n)
           \/ \E k \in Passports : IssueRegistryPassport(k)
  BY DEF CheckoutNext, checkoutVars, OpenCheckout, LinkSession, CheckoutLost,
         CreateSession, Pay, Expire, ReceiveExpired, ReceiveUnknown, ReceiveCut, ReceiveUnresolved,
         ChangeSubscription, Fetch, FetchCut, StartEnrolment, StartRegistryEnrolment, EnrolmentLost,
         IssuePassport, IssueCut

\* A registry a step writes is created, billed, shown or listed in.
LEMMA RegistryStep ==
    ASSUME CheckoutTypeOK, CheckoutInv, [CheckoutNext]_checkoutVars, NEW q \in Orgs
    PROVE  \/ registries'[q] = registries[q]
           \/ /\ ~registries[q].exists
              /\ \E linked, disclosed \in BOOLEAN :
                     registries'[q] \in {Created(linked, disclosed), Entitled(Created(linked, disclosed))}
           \/ /\ registries[q].exists
              /\ \/ \E status \in Statuses \cup {"none"} : registries'[q] = Billed(registries[q], status)
                 \/ \E status \in Statuses : registries'[q] = WithStatus(registries[q], status)
                 \/ \E kind \in {"failed", "paid"} : registries'[q] = WithInvoice(registries[q], kind)
                 \/ registries'[q] = Shown(registries[q])
           \/ \E k \in Passports :
                  /\ IssueRegistryPassport(k) /\ enrolments[k] = At("signing", "registry", q)
                  /\ EnrolmentBecomes(k, "issued", "registry", q)
                  /\ HasRoom(registries[q]) /\ registries'[q] = Listed(registries[q], k)
  <1>1. ASSUME NEW p \in Purchases, ReceiveCompleted(p) \/ ReceiveCompletedCut(p),
               registries'[q] # registries[q]
        PROVE  /\ ~registries[q].exists
               /\ registries'[q] \in {Created(TRUE, FALSE), Entitled(Created(TRUE, FALSE))}
    BY <1>1, CompletedWrites, CompletedCutWrites DEF RegistryBecomes
  <1>2. ASSUME NEW p \in Orgs, VerifySession(p) \/ VerifySessionCut(p), registries'[q] # registries[q]
        PROVE  /\ ~registries[q].exists
               /\ registries'[q] \in {Entitled(Created(FALSE, TRUE)), Created(FALSE, FALSE)}
    BY <1>2, VerifyWrites DEF RegistryBecomes
  <1>3. ASSUME NEW p \in Orgs, BillCheckout(p), registries'[q] # registries[q]
        PROVE  /\ registries[q].exists
               /\ \E status \in Statuses \cup {"none"} : registries'[q] = Billed(registries[q], status)
    <2>1. registries[p].exists
      BY <1>3 DEF BillCheckout, CheckoutInv, FetchInv, Resolved
    <2>2. QED
      BY <1>3, <2>1, BillWrites DEF RegistryBecomes
  <1>4. ASSUME NEW p \in Orgs, NEW n \in 1..MaxChanges, ReceiveSubscription(p, n),
               registries'[q] # registries[q]
        PROVE  /\ registries[q].exists
               /\ \E status \in Statuses : registries'[q] = WithStatus(registries[q], status)
    <2>1. registries[p].exists
      BY <1>4 DEF ReceiveSubscription, Resolved
    <2>2. QED
      BY <1>4, <2>1, SubscriptionWrites DEF RegistryBecomes
  <1>5. ASSUME NEW p \in Orgs, NEW n \in 1..MaxChanges, NEW kind \in {"failed", "paid"},
               ReceiveInvoice(p, kind, n), registries'[q] # registries[q]
        PROVE  registries[q].exists /\ registries'[q] = WithInvoice(registries[q], kind)
    <2>1. registries[p].exists
      BY <1>5 DEF ReceiveInvoice, Resolved
    <2>2. QED
      BY <1>5, <2>1, InvoiceWrites DEF RegistryBecomes
  <1>6. ASSUME NEW p \in Orgs, RecoverToken(p), registries'[q] # registries[q]
        PROVE  registries[q].exists /\ registries'[q] = Shown(registries[q])
    BY <1>6, RecoverWrites DEF RegistryBecomes
  <1>7. ASSUME NEW k \in Passports, IssueRegistryPassport(k), registries'[q] # registries[q]
        PROVE  /\ enrolments[k] = At("signing", "registry", q)
               /\ EnrolmentBecomes(k, "issued", "registry", q)
               /\ HasRoom(registries[q]) /\ registries'[q] = Listed(registries[q], k)
    <2>1. PICK p \in Orgs :
              /\ enrolments[k] = At("signing", "registry", p)
              /\ \/ /\ HasRoom(registries[p])
                    /\ RegistryBecomes(p, Listed(registries[p], k))
                    /\ EnrolmentBecomes(k, "issued", "registry", p)
                 \/ registries' = registries
      BY <1>7, IssueWrites
    <2>2. p = q
      BY <1>7, <2>1 DEF RegistryBecomes
    <2>3. QED
      BY <1>7, <2>1, <2>2 DEF RegistryBecomes
  <1>8. CASE registries'[q] = registries[q]
    BY <1>8
  <1>9. CASE registries'[q] # registries[q]
    <2>1. TRUE \in BOOLEAN /\ FALSE \in BOOLEAN
      OBVIOUS
    <2>2. QED
      BY <1>1, <1>2, <1>3, <1>4, <1>5, <1>6, <1>7, <1>9, <2>1, RegistryWriters
  <1>10. QED
    BY <1>8, <1>9

\* A registry found by its subscription stays found.
LEMMA ResolvedPreserved ==
    ASSUME CheckoutTypeOK, CheckoutInv, [CheckoutNext]_checkoutVars
    PROVE  \A q \in Orgs : Resolved(q) => Resolved(q)'
  <1>1. ASSUME NEW q \in Orgs, Resolved(q)
        PROVE  Resolved(q)'
    <2> DEFINE r == registries[q]
               Kept(n) == n.exists /\ n.linked
    <2>1. r \in Registry /\ r.exists /\ r.linked
      BY <1>1 DEF CheckoutTypeOK, Resolved
    <2>2. \A status \in Statuses \cup {"none"} : Kept(Billed(r, status))
      BY <2>1, BillingKeepsCounts
    <2>3. \A status \in Statuses : Kept(WithStatus(r, status))
      BY <2>1, BillingKeepsCounts
    <2>4. \A kind \in {"failed", "paid"} : Kept(WithInvoice(r, kind))
      BY <2>1, BillingKeepsCounts
    <2>5. Kept(Shown(r)) /\ \A k \in Passports : Kept(Listed(r, k))
      BY <2>1, ShownKeeps, ListingKeepsBilling
    <2>6. Kept(registries'[q])
      BY <2>1, <2>2, <2>3, <2>4, <2>5, RegistryStep
    <2>7. QED
      BY <2>6 DEF Resolved
  <1>2. QED
    BY <1>1

\* Who writes the question to Stripe and the events of no registry.
LEMMA FetchWriters ==
    ASSUME [CheckoutNext]_checkoutVars
    PROVE  \/ UNCHANGED <<fetching, floating>>
           \/ \E p \in Purchases : ReceiveCompleted(p)
           \/ \E p \in Orgs : Fetch(p) \/ FetchCut(p) \/ BillCheckout(p)
           \/ \E e \in Events : ReceiveUnresolved(e)
  BY DEF CheckoutNext, checkoutVars, webhookVars, OpenCheckout, LinkSession, CheckoutLost,
         CreateSession, Pay, Expire, ReceiveCompletedCut, ReceiveExpired, ReceiveUnknown, ReceiveCut,
         ChangeSubscription, VerifySession, VerifySessionCut, RecoverToken, ReceiveSubscription,
         ReceiveInvoice, StartEnrolment, StartRegistryEnrolment, EnrolmentLost, IssuePassport,
         IssueCut, IssueRegistryPassport

LEMMA FetchPreserved ==
    ASSUME CheckoutTypeOK, CheckoutInv, CheckoutTypeOK', [CheckoutNext]_checkoutVars
    PROVE  FetchInv' /\ FetchCoversFloating'
  <1>1. /\ \A q \in Orgs : Resolved(q) => Resolved(q)'
        /\ \A q \in Orgs : Len(histories[q]) <= Len(histories'[q])
        /\ \A q \in Orgs : Len(histories[q]) \in Nat /\ Len(histories'[q]) \in Nat
    BY ResolvedPreserved, HistoryPreserved DEF CheckoutTypeOK
  <1>2. /\ \A q \in Orgs : fetching[q].change \in Nat
        /\ \A e \in floating : e.change \in Nat /\ e.about \in Purchases
    BY DEF CheckoutTypeOK, Events
  <1>3. CASE UNCHANGED <<fetching, floating>>
    BY <1>1, <1>2, <1>3 DEF CheckoutInv, FetchInv, FetchCoversFloating
  <1>4. ASSUME NEW p \in Purchases, ReceiveCompleted(p)
        PROVE  FetchInv' /\ FetchCoversFloating'
    <2>1. CASE p \notin Orgs
      BY <1>1, <1>2, <1>4, <2>1 DEF ReceiveCompleted, CheckoutInv, FetchInv, FetchCoversFloating
    <2>2. CASE p \in Orgs
      <3>1. Resolved(p)'
        BY <1>4, <2>2, CompletedWrites, CreatedIsFresh DEF RegistryBecomes, Resolved
      <3>2. /\ fetching'[p] = [stage |-> "asking", change |-> 0]
            /\ \A q \in Orgs \ {p} : fetching'[q] = fetching[q]
            /\ floating' = floating
        BY <1>4, <2>2, CompletedWrites DEF ReceiveCompleted
      <3>3. QED
        BY <1>1, <1>2, <3>1, <3>2 DEF CheckoutInv, FetchInv, FetchCoversFloating
    <2>3. QED
      BY <2>1, <2>2
  <1>5. ASSUME NEW p \in Orgs, Fetch(p)
        PROVE  FetchInv' /\ FetchCoversFloating'
    <2>1. PICK n \in {0, Len(histories[p])} :
              /\ fetching'[p] = [stage |-> "answered", change |-> n]
              /\ \A q \in Orgs \ {p} : fetching'[q] = fetching[q]
      BY <1>5 DEF Fetch, CheckoutTypeOK
    <2>2. fetching[p].stage = "asking" /\ floating' = floating /\ histories' = histories
      BY <1>5 DEF Fetch, stripeVars
    <2>3. QED
      BY <1>1, <1>2, <2>1, <2>2 DEF CheckoutInv, FetchInv, FetchCoversFloating
  <1>6. ASSUME NEW p \in Orgs, FetchCut(p) \/ BillCheckout(p)
        PROVE  FetchInv' /\ FetchCoversFloating'
    <2>1. /\ fetching'[p] = NotFetching /\ floating' = floating
          /\ \A q \in Orgs \ {p} : fetching'[q] = fetching[q]
      BY <1>6 DEF FetchCut, BillCheckout, CheckoutTypeOK
    <2>2. QED
      BY <1>1, <1>2, <2>1 DEF CheckoutInv, FetchInv, FetchCoversFloating, NotFetching
  <1>7. ASSUME NEW e \in Events, ReceiveUnresolved(e)
        PROVE  FetchInv' /\ FetchCoversFloating'
    <2>1. /\ e.about \in Orgs /\ e.change \in 1..Len(histories[e.about]) /\ ~Resolved(e.about)
          /\ fetching' = fetching /\ histories' = histories /\ floating' = floating \cup {e}
      BY <1>7, EmittedEvents DEF ReceiveUnresolved, Receive, stripeVars
    <2>2. QED
      BY <1>1, <1>2, <2>1 DEF CheckoutInv, FetchInv, FetchCoversFloating
  <1>8. QED
    BY <1>3, <1>4, <1>5, <1>6, <1>7, FetchWriters

\* A registry that is not there has nothing to its name, and its billing is that of
\* its subscription.
LEMMA BillingPreserved ==
    ASSUME CheckoutTypeOK, CheckoutInv, [CheckoutNext]_checkoutVars
    PROVE  EmptyInv' /\ BillingMatchesSubscription'
  <1> DEFINE Matches(r) ==
          /\ r.billing \in {Mapped(r.subscription), "past_due"} \cup
                 (IF r.subscription = "none" THEN {"unknown"} ELSE {})
          /\ r.billing = "past_due" /\ r.subscription # "past_due" => r.grace
  <1>1. ASSUME NEW q \in Orgs
        PROVE  Matches(registries'[q]) /\ (~registries'[q].exists => registries'[q] = NoRegistry)
    <2> DEFINE r == registries[q]
    <2>1. /\ r \in Registry /\ Matches(r) /\ (~r.exists => r = NoRegistry)
      BY DEF CheckoutTypeOK, CheckoutInv, EmptyInv, BillingMatchesSubscription
    <2>2. ASSUME NEW a, NEW b, Bills(a) = Bills(b), Matches(b)
          PROVE  Matches(a)
      BY <2>2 DEF Bills
    <2>3. CASE registries'[q] = r
      BY <2>1, <2>3
    <2>4. ASSUME NEW linked \in BOOLEAN, NEW disclosed \in BOOLEAN,
                 registries'[q] \in {Created(linked, disclosed), Entitled(Created(linked, disclosed))}
          PROVE  Matches(registries'[q]) /\ registries'[q].exists
      <3>1. Matches(NoRegistry)
        BY DEF NoRegistry, Mapped
      <3>2. Bills(registries'[q]) = Bills(NoRegistry) /\ registries'[q].exists
        BY <2>4, CreatedIsFresh
      <3>3. QED
        BY <2>2, <3>1, <3>2
    <2>5. ASSUME r.exists, NEW status \in Statuses \cup {"none"}, registries'[q] = Billed(r, status)
          PROVE  Matches(registries'[q]) /\ registries'[q].exists
      <3>1. registries'[q].billing = Mapped(status) /\ registries'[q].subscription = status
        BY <2>1, <2>5 DEF Billed, Registry
      <3>2. registries'[q].exists
        BY <2>1, <2>5, BillingKeepsCounts
      <3>3. QED
        BY <3>1, <3>2 DEF Mapped
    <2>6. ASSUME r.exists, NEW status \in Statuses, registries'[q] = WithStatus(r, status)
          PROVE  Matches(registries'[q]) /\ registries'[q].exists
      <3>1. registries'[q].billing = Mapped(status) /\ registries'[q].subscription = status
        BY <2>1, <2>6 DEF WithStatus, Registry
      <3>2. registries'[q].exists
        BY <2>1, <2>6, BillingKeepsCounts
      <3>3. QED
        BY <3>1, <3>2 DEF Mapped, Statuses
    <2>7. ASSUME r.exists, NEW kind \in {"failed", "paid"}, registries'[q] = WithInvoice(r, kind)
          PROVE  Matches(registries'[q]) /\ registries'[q].exists
      <3>1. CASE kind = "failed"
        <4>1. registries'[q].billing = "past_due" /\ registries'[q].grace
          BY <2>1, <2>7, <3>1 DEF WithInvoice, Registry
        <4>2. QED
          BY <2>1, <2>7, <4>1, BillingKeepsCounts
      <3>2. CASE kind = "paid" /\ r.subscription = "active"
        <4>1. registries'[q].billing = "active" /\ registries'[q].subscription = "active"
          BY <2>1, <2>7, <3>2 DEF WithInvoice, Registry
        <4>2. QED
          BY <2>1, <2>7, <4>1, BillingKeepsCounts DEF Mapped
      <3>3. CASE kind = "paid" /\ r.subscription # "active"
        BY <2>1, <2>7, <3>3 DEF WithInvoice
      <3>4. QED
        BY <2>7, <3>1, <3>2, <3>3
    <2>8. ASSUME registries'[q] = Shown(r)
          PROVE  Matches(registries'[q]) /\ registries'[q].exists = r.exists
      BY <2>1, <2>2, <2>8, ShownKeeps
    <2>9. ASSUME NEW k \in Passports, registries'[q] = Listed(r, k), HasRoom(r)
          PROVE  Matches(registries'[q]) /\ registries'[q].exists
      <3>1. r.exists
        BY <2>1, <2>9 DEF HasRoom, NoRegistry
      <3>2. QED
        BY <2>1, <2>2, <2>9, <3>1, ListingKeepsBilling
    <2> HIDE DEF Matches
    <2>10. QED
      BY <2>1, <2>3, <2>4, <2>5, <2>6, <2>7, <2>8, <2>9, RegistryStep
  <1>2. QED
    BY <1>1 DEF EmptyInv, BillingMatchesSubscription

\* What is paid for stays paid for, and a registry stays.
LEMMA MonotonePreserved ==
    ASSUME CheckoutTypeOK, CheckoutInv, [CheckoutNext]_checkoutVars
    PROVE  /\ \A p \in Purchases : sessions[p] = "paid" => sessions'[p] = "paid"
           /\ \A p \in Orgs : registries[p].exists => registries'[p].exists
  <1>1. ASSUME NEW q \in Purchases, sessions[q] = "paid"
        PROVE  sessions'[q] = "paid"
    <2>1. CASE sessions' = sessions
      BY <1>1, <2>1
    <2>2. ASSUME NEW p \in Purchases, CreateSession(p) \/ Pay(p) \/ Expire(p)
          PROVE  sessions'[q] = "paid"
      BY <1>1, <2>2 DEF CreateSession, Pay, Expire, CheckoutTypeOK
    <2>3. \/ sessions' = sessions
          \/ \E p \in Purchases : CreateSession(p) \/ Pay(p) \/ Expire(p)
      BY DEF CheckoutNext, checkoutVars, stripeVars, OpenCheckout, LinkSession, CheckoutLost,
             ReceiveCompleted, ReceiveCompletedCut, ReceiveExpired, ReceiveUnknown, ReceiveCut,
             ReceiveUnresolved, ChangeSubscription, Fetch, FetchCut, BillCheckout, VerifySession,
             VerifySessionCut, RecoverToken, ReceiveSubscription, ReceiveInvoice, StartEnrolment,
             StartRegistryEnrolment, EnrolmentLost, IssuePassport, IssueCut, IssueRegistryPassport
    <2>4. QED
      BY <2>1, <2>2, <2>3
  <1>2. ASSUME NEW q \in Orgs, registries[q].exists
        PROVE  registries'[q].exists
    <2>1. registries[q] \in Registry
      BY DEF CheckoutTypeOK
    <2>2. \A linked, disclosed \in BOOLEAN : \A r \in {Created(linked, disclosed),
                                                      Entitled(Created(linked, disclosed))} : r.exists
      BY CreatedIsFresh
    <2>3. \A status \in Statuses \cup {"none"} : Billed(registries[q], status).exists
      BY <1>2, <2>1, BillingKeepsCounts
    <2>4. \A status \in Statuses : WithStatus(registries[q], status).exists
      BY <1>2, <2>1, BillingKeepsCounts
    <2>5. \A kind \in {"failed", "paid"} : WithInvoice(registries[q], kind).exists
      BY <1>2, <2>1, BillingKeepsCounts
    <2>6. Shown(registries[q]).exists /\ \A k \in Passports : Listed(registries[q], k).exists
      BY <1>2, <2>1, ShownKeeps, ListingKeepsBilling
    <2>7. QED
      BY <1>2, <2>2, <2>3, <2>4, <2>5, <2>6, RegistryStep
  <1>3. QED
    BY <1>1, <1>2

\* Who writes a passport or the stage of an enrolment.
LEMMA EnrolmentWriters ==
    ASSUME [CheckoutNext]_checkoutVars
    PROVE  \/ UNCHANGED <<enrolments, passports>>
           \/ \E k \in Passports :
                  \/ \E p \in Purchases : StartEnrolment(k, p)
                  \/ \E p \in Orgs : StartRegistryEnrolment(k, p)
                  \/ EnrolmentLost(k) \/ IssueCut(k) \/ IssuePassport(k) \/ IssueRegistryPassport(k)
  BY DEF CheckoutNext, checkoutVars, OpenCheckout, LinkSession, CheckoutLost, CreateSession, Pay,
         Expire, ReceiveCompleted, ReceiveCompletedCut, ReceiveExpired, ReceiveUnknown, ReceiveCut,
         ReceiveUnresolved, ChangeSubscription, Fetch, FetchCut, BillCheckout, VerifySession,
         VerifySessionCut, RecoverToken, ReceiveSubscription, ReceiveInvoice

\* An enrolment starts, by the session or through the registry; is lost; leaves its
\* passport stranded; or issues it.
LEMMA EnrolmentStep ==
    ASSUME CheckoutTypeOK, CheckoutInv, [CheckoutNext]_checkoutVars, NEW j \in Passports
    PROVE  \/ enrolments'[j] = enrolments[j] /\ passports'[j] = passports[j]
           \/ /\ enrolments[j].stage = "idle" /\ passports'[j] = passports[j]
              /\ \E p \in Purchases, path \in {"session", "registry"} :
                     /\ enrolments'[j] = At("signing", path, p)
                     /\ sessions[p] = "paid"
                     /\ path = "registry" => p \in Orgs /\ registries[p].exists
           \/ /\ enrolments[j].stage = "signing"
              /\ enrolments'[j] = NotEnrolling /\ passports'[j] = passports[j]
           \/ \E p \in Purchases, path \in {"session", "registry"} :
                  /\ enrolments[j] = At("signing", path, p)
                  /\ enrolments'[j] = At("stranded", path, p) /\ passports'[j] = p
           \/ \E p \in Purchases :
                  /\ enrolments[j] = At("signing", "session", p)
                  /\ enrolments'[j] = At("issued", "session", p) /\ passports'[j] = p
                  /\ IssuePassport(j)
           \/ \E p \in Orgs :
                  /\ enrolments[j] = At("signing", "registry", p)
                  /\ enrolments'[j] = At("issued", "registry", p) /\ passports'[j] = p
                  /\ HasRoom(registries[p]) /\ registries'[p] = Listed(registries[p], j)
  <1>1. CASE UNCHANGED <<enrolments, passports>>
    BY <1>1
  <1>2. ASSUME NEW k \in Passports, NEW p \in Purchases, k # j,
               StartEnrolment(k, p) \/ StartRegistryEnrolment(k, p)
        PROVE  enrolments'[j] = enrolments[j] /\ passports'[j] = passports[j]
    BY <1>2 DEF StartEnrolment, StartRegistryEnrolment, Started, CheckoutTypeOK
  <1>3. ASSUME NEW k \in Passports, k # j, EnrolmentLost(k) \/ IssueCut(k)
        PROVE  enrolments'[j] = enrolments[j] /\ passports'[j] = passports[j]
    BY <1>3 DEF EnrolmentLost, IssueCut, PassportCreated, CheckoutTypeOK
  <1>4. ASSUME NEW k \in Passports, k # j, IssuePassport(k) \/ IssueRegistryPassport(k)
        PROVE  enrolments'[j] = enrolments[j] /\ passports'[j] = passports[j]
    <2>1. CASE IssuePassport(k)
      BY <1>4, <2>1 DEF IssuePassport, PassportCreated, CheckoutTypeOK
    <2>2. CASE IssueRegistryPassport(k)
      BY <1>4, <2>2, IssueWrites DEF EnrolmentBecomes, PassportBecomes
    <2>3. QED
      BY <1>4, <2>1, <2>2
  <1>5. ASSUME NEW p \in Purchases, StartEnrolment(j, p)
        PROVE  /\ enrolments[j].stage = "idle" /\ passports'[j] = passports[j]
               /\ enrolments'[j] = At("signing", "session", p) /\ sessions[p] = "paid"
    <2>1. sessions[p] = "paid"
      BY <1>5 DEF StartEnrolment, CanEnroll, CheckoutInv, PaidInv
    <2>2. QED
      BY <1>5, <2>1 DEF StartEnrolment, Started, At, CheckoutTypeOK
  <1>6. ASSUME NEW p \in Orgs, StartRegistryEnrolment(j, p)
        PROVE  /\ enrolments[j].stage = "idle" /\ passports'[j] = passports[j]
               /\ enrolments'[j] = At("signing", "registry", p)
               /\ p \in Purchases /\ sessions[p] = "paid" /\ registries[p].exists
    BY <1>6 DEF StartRegistryEnrolment, Started, At, CheckoutTypeOK, CheckoutInv, PaidInv, Purchases
  <1>7. ASSUME EnrolmentLost(j)
        PROVE  /\ enrolments[j].stage = "signing"
               /\ enrolments'[j] = NotEnrolling /\ passports'[j] = passports[j]
    BY <1>7 DEF EnrolmentLost, CheckoutTypeOK
  <1>8. ASSUME IssueCut(j)
        PROVE  \E p \in Purchases, path \in {"session", "registry"} :
                   /\ enrolments[j] = At("signing", path, p)
                   /\ enrolments'[j] = At("stranded", path, p) /\ passports'[j] = p
    <2> DEFINE p == enrolments[j].about
               path == enrolments[j].path
    <2>1. enrolments[j] = At("signing", path, p)
      BY <1>8 DEF IssueCut, CheckoutTypeOK, Enrolment, At
    <2>2. p \in Purchases /\ path \in {"session", "registry"}
      BY <1>8 DEF IssueCut, CheckoutInv, EnrolmentInv
    <2>3. [enrolments[j] EXCEPT !.stage = "stranded"] = At("stranded", path, p)
      BY <2>1 DEF At
    <2>4. enrolments'[j] = At("stranded", path, p) /\ passports'[j] = p
      BY <1>8, <2>3 DEF IssueCut, PassportCreated, CheckoutTypeOK
    <2>5. QED
      BY <2>1, <2>2, <2>4
  <1>9. ASSUME IssuePassport(j)
        PROVE  \E p \in Purchases :
                   /\ enrolments[j] = At("signing", "session", p)
                   /\ enrolments'[j] = At("issued", "session", p) /\ passports'[j] = p
                   /\ IssuePassport(j)
    BY <1>9, SessionWrites DEF EnrolmentBecomes, PassportBecomes
  <1>10. ASSUME IssueRegistryPassport(j)
         PROVE  \E p \in Orgs :
                    /\ enrolments[j] = At("signing", "registry", p) /\ passports'[j] = p
                    /\ \/ /\ enrolments'[j] = At("issued", "registry", p)
                          /\ HasRoom(registries[p]) /\ registries'[p] = Listed(registries[p], j)
                       \/ enrolments'[j] = At("stranded", "registry", p)
    BY <1>10, IssueWrites DEF EnrolmentBecomes, PassportBecomes, RegistryBecomes
  <1>11. CASE \/ \E p \in Purchases : StartEnrolment(j, p)
              \/ \E p \in Orgs : StartRegistryEnrolment(j, p)
    <2>1. "session" \in {"session", "registry"} /\ "registry" \in {"session", "registry"}
      OBVIOUS
    <2>2. "session" # "registry"
      OBVIOUS
    <2>3. QED
      BY <1>5, <1>6, <1>11, <2>1, <2>2
  <1>12. CASE IssueRegistryPassport(j)
    <2>1. Orgs \subseteq Purchases /\ "registry" \in {"session", "registry"}
      BY DEF Purchases
    <2>2. QED
      BY <1>10, <1>12, <2>1
  <1>13. CASE \E k \in Passports \ {j} :
                  \/ \E p \in Purchases : StartEnrolment(k, p)
                  \/ \E p \in Orgs : StartRegistryEnrolment(k, p)
                  \/ EnrolmentLost(k) \/ IssueCut(k) \/ IssuePassport(k) \/ IssueRegistryPassport(k)
    BY <1>2, <1>3, <1>4, <1>13 DEF Purchases
  <1>14. QED
    BY <1>1, <1>7, <1>8, <1>9, <1>11, <1>12, <1>13, EnrolmentWriters

\* An enrolment that was answered stays as it is.
LEMMA IssuedStays ==
    ASSUME CheckoutTypeOK, CheckoutInv, [CheckoutNext]_checkoutVars, NEW k \in Passports,
           NEW path, NEW p, Issued(k, path, p)
    PROVE  enrolments'[k] = enrolments[k]
  <1>1. enrolments[k].stage = "issued"
    BY DEF Issued
  <1>2. \A other, q : enrolments[k] # At("signing", other, q)
    BY <1>1 DEF At
  <1>3. QED
    BY <1>1, <1>2, EnrolmentStep

LEMMA EnrolmentPreserved ==
    ASSUME CheckoutTypeOK, CheckoutInv, [CheckoutNext]_checkoutVars
    PROVE  EnrolmentInv'
  <1>1. /\ \A p \in Purchases : sessions[p] = "paid" => sessions'[p] = "paid"
        /\ \A p \in Orgs : registries[p].exists => registries'[p].exists
    BY MonotonePreserved
  <1>2. SUFFICES ASSUME NEW j \in Passports
        PROVE  LET n == enrolments'[j] IN
                   /\ n.stage # "idle" =>
                          /\ n.about \in Purchases /\ sessions'[n.about] = "paid"
                          /\ n.path \in {"session", "registry"}
                          /\ n.path = "registry" => n.about \in Orgs /\ registries'[n.about].exists
                   /\ n.stage \in {"idle", "signing"} => passports'[j] = Unclaimed
                   /\ n.stage = "issued" => passports'[j] = n.about
                   /\ passports'[j] # Unclaimed => passports'[j] = n.about /\ n.stage # "idle"
    BY DEF EnrolmentInv
  <1>3. /\ enrolments[j].stage # "idle" =>
               /\ enrolments[j].about \in Purchases /\ sessions[enrolments[j].about] = "paid"
               /\ enrolments[j].path \in {"session", "registry"}
               /\ enrolments[j].path = "registry" =>
                      enrolments[j].about \in Orgs /\ registries[enrolments[j].about].exists
        /\ enrolments[j].stage \in {"idle", "signing"} => passports[j] = Unclaimed
        /\ enrolments[j].stage = "issued" => passports[j] = enrolments[j].about
        /\ passports[j] # Unclaimed =>
               passports[j] = enrolments[j].about /\ enrolments[j].stage # "idle"
    BY DEF CheckoutInv, EnrolmentInv
  <1>4. CASE enrolments'[j] = enrolments[j] /\ passports'[j] = passports[j]
    BY <1>1, <1>3, <1>4
  <1>5. CASE /\ enrolments[j].stage = "idle" /\ passports'[j] = passports[j]
             /\ \E p \in Purchases, path \in {"session", "registry"} :
                    /\ enrolments'[j] = At("signing", path, p)
                    /\ sessions[p] = "paid"
                    /\ path = "registry" => p \in Orgs /\ registries[p].exists
    <2>1. PICK p \in Purchases, path \in {"session", "registry"} :
              /\ enrolments'[j] = At("signing", path, p)
              /\ sessions[p] = "paid"
              /\ path = "registry" => p \in Orgs /\ registries[p].exists
      BY <1>5
    <2>2. /\ enrolments'[j].stage = "signing" /\ enrolments'[j].path = path
          /\ enrolments'[j].about = p /\ passports'[j] = Unclaimed
      BY <1>3, <1>5, <2>1 DEF At
    <2>3. QED
      BY <1>1, <2>1, <2>2
  <1>6. CASE /\ enrolments[j].stage = "signing"
             /\ enrolments'[j] = NotEnrolling /\ passports'[j] = passports[j]
    BY <1>3, <1>6 DEF NotEnrolling
  <1>7. ASSUME NEW p \in Purchases, NEW path \in {"session", "registry"},
               NEW stage \in {"stranded", "issued"},
               enrolments[j] = At("signing", path, p), enrolments'[j] = At(stage, path, p),
               passports'[j] = p
        PROVE  LET n == enrolments'[j] IN
                   /\ n.stage # "idle" =>
                          /\ n.about \in Purchases /\ sessions'[n.about] = "paid"
                          /\ n.path \in {"session", "registry"}
                          /\ n.path = "registry" => n.about \in Orgs /\ registries'[n.about].exists
                   /\ n.stage \in {"idle", "signing"} => passports'[j] = Unclaimed
                   /\ n.stage = "issued" => passports'[j] = n.about
                   /\ passports'[j] # Unclaimed => passports'[j] = n.about /\ n.stage # "idle"
    <2>1. /\ enrolments[j].stage = "signing" /\ enrolments[j].path = path /\ enrolments[j].about = p
          /\ enrolments'[j].stage = stage /\ enrolments'[j].path = path /\ enrolments'[j].about = p
      BY <1>7 DEF At
    <2>2. QED
      BY <1>1, <1>3, <1>7, <2>1
  <1>8. /\ Orgs \subseteq Purchases
        /\ "session" \in {"session", "registry"} /\ "registry" \in {"session", "registry"}
        /\ "stranded" \in {"stranded", "issued"} /\ "issued" \in {"stranded", "issued"}
    BY DEF Purchases
  <1>9. QED
    BY <1>4, <1>5, <1>6, <1>7, <1>8, EnrolmentStep

\* Who writes the enrolment of a purchase.
LEMMA PurchaseStep ==
    ASSUME CheckoutTypeOK, CheckoutInv, [CheckoutNext]_checkoutVars, NEW q \in Purchases
    PROVE  \/ /\ purchases'[q].enrolment = purchases[q].enrolment
              /\ purchases'[q].passport = purchases[q].passport
           \/ /\ purchases[q].enrolment # "passport_issued"
              /\ purchases'[q].passport = purchases[q].passport
           \/ \E k \in Passports :
                  /\ enrolments[k] = At("signing", "session", q)
                  /\ EnrolmentBecomes(k, "issued", "session", q)
                  /\ purchases'[q].enrolment = "passport_issued" /\ purchases'[q].passport = k
  <1> DEFINE Same == /\ purchases'[q].enrolment = purchases[q].enrolment
                     /\ purchases'[q].passport = purchases[q].passport
  <1>1. CASE UNCHANGED purchases
    BY <1>1
  <1>2. purchases \in [Purchases -> Purchase] /\ purchases[q] \in Purchase
    BY DEF CheckoutTypeOK
  <1>3. ASSUME NEW p \in Purchases, OpenCheckout(p) \/ LinkSession(p) \/ ReceiveExpired(p)
        PROVE  Same
    BY <1>2, <1>3 DEF OpenCheckout, LinkSession, ReceiveExpired, Purchase
  <1>4. ASSUME NEW p \in Purchases, ReceiveCompleted(p) \/ ReceiveCompletedCut(p)
        PROVE  Same
    <2>1. purchases' = [purchases EXCEPT ![p].status = "completed"]
      BY <1>4 DEF ReceiveCompleted, ReceiveCompletedCut, Completed
    <2>2. QED
      BY <1>2, <2>1 DEF Purchase
  <1>5. ASSUME NEW k \in Passports, NEW p \in Purchases, StartEnrolment(k, p)
        PROVE  \/ Same
               \/ /\ purchases[q].enrolment # "passport_issued"
                  /\ purchases'[q].passport = purchases[q].passport
    BY <1>2, <1>5 DEF StartEnrolment, CanEnroll, Purchase
  <1>6. ASSUME NEW k \in Passports, IssuePassport(k)
        PROVE  \/ Same
               \/ /\ enrolments[k] = At("signing", "session", q)
                  /\ EnrolmentBecomes(k, "issued", "session", q)
                  /\ purchases'[q].enrolment = "passport_issued" /\ purchases'[q].passport = k
    <2>1. PICK p \in Purchases :
              /\ enrolments[k] = At("signing", "session", p)
              /\ EnrolmentBecomes(k, "issued", "session", p)
              /\ purchases'[p].enrolment = "passport_issued" /\ purchases'[p].passport = k
              /\ \A r \in Purchases \ {p} : purchases'[r] = purchases[r]
      BY <1>6, SessionWrites
    <2>2. QED
      BY <1>2, <2>1
  <1>7. \/ UNCHANGED purchases
        \/ \E p \in Purchases : \/ OpenCheckout(p) \/ LinkSession(p) \/ ReceiveExpired(p)
                                \/ ReceiveCompleted(p) \/ ReceiveCompletedCut(p)
        \/ \E k \in Passports : IssuePassport(k) \/ \E p \in Purchases : StartEnrolment(k, p)
    BY DEF CheckoutNext, checkoutVars, CheckoutLost, CreateSession, Pay, Expire, ReceiveUnknown,
           ReceiveCut, ReceiveUnresolved, ChangeSubscription, Fetch, FetchCut, BillCheckout,
           VerifySession, VerifySessionCut, RecoverToken, ReceiveSubscription, ReceiveInvoice,
           StartRegistryEnrolment, EnrolmentLost, IssueCut, IssueRegistryPassport
  <1>8. QED
    BY <1>1, <1>3, <1>4, <1>5, <1>6, <1>7

LEMMA NamedPreserved ==
    ASSUME CheckoutTypeOK, CheckoutInv, CheckoutTypeOK', [CheckoutNext]_checkoutVars
    PROVE  NamedInv'
  <1> DEFINE Was(k, q) == enrolments[k] = At("issued", "session", q)
             Is(k, q) == enrolments'[k] = At("issued", "session", q)
  <1>1. SUFFICES ASSUME NEW q \in Purchases
        PROVE  /\ purchases'[q].passport # Unclaimed => Is(purchases'[q].passport, q)
               /\ \A k \in Passports : Is(k, q) =>
                      purchases'[q].enrolment = "passport_issued" /\ purchases'[q].passport \in Passports
    BY DEF NamedInv, Issued, At
  <1>2. /\ purchases[q].passport # Unclaimed => Was(purchases[q].passport, q)
        /\ \A k \in Passports : Was(k, q) =>
               purchases[q].enrolment = "passport_issued" /\ purchases[q].passport \in Passports
    BY DEF CheckoutInv, NamedInv, Issued, At
  <1>3. purchases[q].passport \in Passports \cup {Unclaimed} /\ Unclaimed \notin Passports
    BY CheckoutAssumption DEF CheckoutTypeOK, Purchase, Unclaimed
  \* An enrolment that issued stays as it is, and the one that issues now names itself.
  <1>4. ASSUME NEW k \in Passports, Was(k, q)
        PROVE  Is(k, q)
    <2>1. Issued(k, "session", q)
      BY <1>4 DEF Issued, At
    <2>2. QED
      BY <1>4, <2>1, IssuedStays
  <1>5. ASSUME NEW k \in Passports, Is(k, q)
        PROVE  Was(k, q) \/ IssuePassport(k)
    <2>1. enrolments'[k].stage = "issued" /\ enrolments'[k].path = "session"
      BY <1>5 DEF At
    <2>2. /\ \A stage \in {"signing", "stranded"} : \A path, p : enrolments'[k] # At(stage, path, p)
          /\ enrolments'[k] # NotEnrolling
          /\ \A p : enrolments'[k] # At("issued", "registry", p)
      BY <2>1 DEF At, NotEnrolling
    <2>3. enrolments'[k] = enrolments[k] \/ IssuePassport(k)
      BY <2>2, EnrolmentStep
    <2>4. QED
      BY <1>5, <2>3
  <1>6. ASSUME NEW k \in Passports, IssuePassport(k), Is(k, q)
        PROVE  purchases'[q].enrolment = "passport_issued" /\ purchases'[q].passport = k
    <2>1. PICK p \in Purchases :
              /\ EnrolmentBecomes(k, "issued", "session", p)
              /\ purchases'[p].enrolment = "passport_issued" /\ purchases'[p].passport = k
      BY <1>6, SessionWrites
    <2>2. p = q
      BY <1>6, <2>1 DEF EnrolmentBecomes, At
    <2>3. QED
      BY <2>1, <2>2
  <1>7. ASSUME NEW k \in Passports, EnrolmentBecomes(k, "issued", "session", q),
               purchases'[q].enrolment = "passport_issued", purchases'[q].passport = k
        PROVE  Is(purchases'[q].passport, q) /\ purchases'[q].passport \in Passports
    BY <1>7 DEF EnrolmentBecomes
  <1> HIDE DEF Was, Is
  <1>8. CASE purchases'[q].enrolment = purchases[q].enrolment /\ purchases'[q].passport = purchases[q].passport
    BY <1>2, <1>3, <1>4, <1>5, <1>6, <1>8
  <1>9. CASE /\ purchases[q].enrolment # "passport_issued"
             /\ purchases'[q].passport = purchases[q].passport
    BY <1>2, <1>3, <1>4, <1>5, <1>6, <1>9
  <1>10. QED
    BY <1>7, <1>8, <1>9, PurchaseStep

IssuedFor(k, q) == Issued(k, "registry", q)

\* The counts of a registry, apart from who is listed.
Balanced(c) ==
    /\ c.issued = Cardinality(c.listed) /\ c.issued <= MaxPassports
    /\ c.issued + c.remaining = MaxPassports
    /\ c.entitled => c.used = c.issued /\ c.left = c.remaining
    /\ ~c.entitled => c.listed = {}

LEMMA FreshIsBalanced ==
    ASSUME NEW entitled \in BOOLEAN, NEW left, entitled <=> left = MaxPassports, ~entitled <=> left = 0
    PROVE  Balanced(Fresh(entitled, left)) /\ Fresh(entitled, left).listed = {}
  BY FS_EmptySet, CheckoutAssumption DEF Balanced, Fresh

\* One more passport is listed where there is room.
LEMMA ListedIsBalanced ==
    ASSUME NEW r \in Registry, HasRoom(r), Balanced(Counts(r)), NEW k \in Passports, k \notin r.listed
    PROVE  /\ Balanced(Counts(Listed(r, k))) /\ Counts(Listed(r, k)).listed = r.listed \cup {k}
           /\ Listed(r, k) # r
  <1>1. /\ r.issued \in 0..MaxPassports /\ r.remaining \in 0..MaxPassports
        /\ r.used \in 0..MaxPassports /\ r.left \in 0..MaxPassports
        /\ r.listed \subseteq Passports /\ r.entitled /\ r.remaining > 0
    BY DEF Registry, HasRoom
  <1>2. /\ r.issued = Cardinality(r.listed) /\ r.issued + r.remaining = MaxPassports
        /\ r.used = r.issued /\ r.left = r.remaining
    BY <1>1 DEF Balanced, Counts
  <1>3. Cardinality(r.listed \cup {k}) = Cardinality(r.listed) + 1
    <2>1. IsFiniteSet(r.listed)
      BY <1>1, CheckoutAssumption, FS_Subset
    <2>2. QED
      BY <2>1, FS_AddElement
  <1>4. /\ Listed(r, k).entitled = r.entitled /\ Listed(r, k).issued = r.issued + 1
        /\ Listed(r, k).remaining = r.remaining - 1 /\ Listed(r, k).used = r.used + 1
        /\ Listed(r, k).left = r.left - 1 /\ Listed(r, k).listed = r.listed \cup {k}
    BY DEF Listed, Registry
  <1>5. Counts(Listed(r, k)) = [entitled |-> r.entitled, issued |-> r.issued + 1,
                                remaining |-> r.remaining - 1, used |-> r.used + 1,
                                left |-> r.left - 1, listed |-> r.listed \cup {k}]
    BY <1>4 DEF Counts
  <1>6. r.issued + 1 <= MaxPassports /\ (r.issued + 1) + (r.remaining - 1) = MaxPassports
    BY <1>1, <1>2, CheckoutAssumption
  <1>7. Balanced(Counts(Listed(r, k)))
    BY <1>1, <1>2, <1>3, <1>5, <1>6 DEF Balanced
  <1>8. Listed(r, k) # r
    BY <1>1, <1>4
  <1>9. QED
    BY <1>5, <1>7, <1>8

LEMMA CapacityPreserved ==
    ASSUME CheckoutTypeOK, CheckoutInv, CheckoutTypeOK', [CheckoutNext]_checkoutVars
    PROVE  CapacityAddsUp'
  <1>1. SUFFICES ASSUME NEW q \in Orgs, registries'[q].exists
        PROVE  /\ Balanced(Counts(registries'[q]))
               /\ \A k \in Passports : k \in Counts(registries'[q]).listed <=> IssuedFor(k, q)'
    BY DEF CapacityAddsUp, Balanced, Counts, IssuedFor, Issued
  <1> DEFINE r == registries[q]
  <1>2. r \in Registry
    BY DEF CheckoutTypeOK
  <1>3. r.exists => /\ Balanced(Counts(r))
                    /\ \A k \in Passports : k \in Counts(r).listed <=> IssuedFor(k, q)
    BY DEF CheckoutInv, CapacityAddsUp, Balanced, Counts, IssuedFor
  <1>4. ~r.exists => ~HasRoom(r) /\ \A k \in Passports : ~IssuedFor(k, q)
    BY DEF CheckoutInv, EmptyInv, EnrolmentInv, NoRegistry, HasRoom, IssuedFor, Issued
  <1>5. ASSUME NEW k \in Passports, IssuedFor(k, q)
        PROVE  IssuedFor(k, q)'
    BY <1>5, IssuedStays DEF IssuedFor, Issued
  <1>6. ASSUME NEW k \in Passports, IssuedFor(k, q)', ~IssuedFor(k, q)
        PROVE  HasRoom(r) /\ registries'[q] = Listed(r, k) /\ enrolments[k].stage = "signing"
    <2>1. /\ enrolments'[k].stage = "issued" /\ enrolments'[k].path = "registry"
          /\ enrolments'[k].about = q /\ enrolments'[k] # enrolments[k]
      BY <1>6 DEF IssuedFor, Issued
    <2>2. /\ \A stage \in {"signing", "stranded"} : \A path, p : enrolments'[k] # At(stage, path, p)
          /\ enrolments'[k] # NotEnrolling
          /\ \A p : enrolments'[k] # At("issued", "session", p)
      BY <2>1 DEF At, NotEnrolling
    <2>3. PICK p \in Orgs :
              /\ enrolments[k] = At("signing", "registry", p)
              /\ enrolments'[k] = At("issued", "registry", p)
              /\ HasRoom(registries[p]) /\ registries'[p] = Listed(registries[p], k)
      BY <2>1, <2>2, EnrolmentStep
    <2>4. p = q /\ enrolments[k].stage = "signing"
      BY <2>1, <2>3 DEF At
    <2>5. QED
      BY <2>3, <2>4
  <1>7. ASSUME NEW k \in Passports, HasRoom(r), registries'[q] = Listed(r, k), ~IssuedFor(k, q)
        PROVE  /\ r.exists
               /\ Balanced(Counts(registries'[q])) /\ registries'[q] # r
               /\ Counts(registries'[q]).listed = Counts(r).listed \cup {k}
               /\ Counts(registries'[q]) # Counts(r)
    <2>1. r.exists
      BY <1>4, <1>7
    <2>2. k \notin r.listed
      BY <1>3, <1>7, <2>1 DEF Counts
    <2>3. Counts(r).listed = r.listed
      BY DEF Counts
    <2>4. QED
      BY <1>2, <1>3, <1>7, <2>1, <2>2, <2>3, ListedIsBalanced
  \* Where nothing is listed, nobody has issued.
  <1>8. ASSUME Counts(registries'[q]) = Counts(r), r.exists
        PROVE  /\ Balanced(Counts(registries'[q]))
               /\ \A k \in Passports : k \in Counts(registries'[q]).listed <=> IssuedFor(k, q)'
    BY <1>3, <1>5, <1>6, <1>7, <1>8
  <1>9. CASE registries'[q] = r
    BY <1>1, <1>8, <1>9
  <1>10. ASSUME ~r.exists, NEW linked \in BOOLEAN, NEW disclosed \in BOOLEAN,
                registries'[q] \in {Created(linked, disclosed), Entitled(Created(linked, disclosed))}
         PROVE  /\ Balanced(Counts(registries'[q]))
                /\ \A k \in Passports : k \in Counts(registries'[q]).listed <=> IssuedFor(k, q)'
    <2>1. \A k \in Passports : ~IssuedFor(k, q)'
      BY <1>4, <1>6, <1>10
    <2>2. Counts(registries'[q]) \in {Fresh(FALSE, 0), Fresh(TRUE, MaxPassports)}
      BY <1>10, CreatedIsFresh
    <2>3. MaxPassports # 0
      BY CheckoutAssumption
    <2>4. QED
      BY <2>1, <2>2, <2>3, FreshIsBalanced
  <1>11. ASSUME r.exists,
                \/ \E status \in Statuses \cup {"none"} : registries'[q] = Billed(r, status)
                \/ \E status \in Statuses : registries'[q] = WithStatus(r, status)
                \/ \E kind \in {"failed", "paid"} : registries'[q] = WithInvoice(r, kind)
                \/ registries'[q] = Shown(r)
         PROVE  Counts(registries'[q]) = Counts(r)
    BY <1>2, <1>11, BillingKeepsCounts, ShownKeeps
  <1>12. ASSUME NEW k \in Passports, enrolments[k] = At("signing", "registry", q),
                EnrolmentBecomes(k, "issued", "registry", q), HasRoom(r), registries'[q] = Listed(r, k)
         PROVE  /\ Balanced(Counts(registries'[q]))
                /\ \A j \in Passports : j \in Counts(registries'[q]).listed <=> IssuedFor(j, q)'
    <2>1. ~IssuedFor(k, q) /\ IssuedFor(k, q)'
      BY <1>12 DEF IssuedFor, Issued, EnrolmentBecomes, At
    <2>2. \A j \in Passports \ {k} : IssuedFor(j, q)' <=> IssuedFor(j, q)
      BY <1>12 DEF IssuedFor, Issued, EnrolmentBecomes, At
    <2>3. /\ r.exists /\ Balanced(Counts(registries'[q]))
          /\ Counts(registries'[q]).listed = Counts(r).listed \cup {k}
      BY <1>7, <1>12, <2>1
    <2>4. QED
      BY <1>3, <2>1, <2>2, <2>3
  <1>13. QED
    BY <1>8, <1>9, <1>10, <1>11, <1>12, RegistryStep

-----------------------------------------------------------------------------
(* The theorems.                                                           *)

LEMMA InitInv == CheckoutInit => CheckoutTypeOK /\ CheckoutInv
  <1> SUFFICES ASSUME CheckoutInit
      PROVE  CheckoutTypeOK /\ CheckoutInv
    OBVIOUS
  <1>1. NoRegistry \in Registry
    BY CheckoutAssumption DEF NoRegistry, Registry
  <1>2. NoPurchase \in Purchase
    BY DEF NoPurchase, Purchase
  <1>3. CheckoutTypeOK
    BY <1>1, <1>2 DEF CheckoutInit, CheckoutTypeOK, NotFetching, NotEnrolling, Enrolment
  <1>4. /\ \A p \in Purchases : purchases[p] = NoPurchase
        /\ \A p \in Orgs : registries[p] = NoRegistry /\ fetching[p] = NotFetching /\ histories[p] = << >>
        /\ \A k \in Passports : /\ passports[k] = Unclaimed
                                /\ enrolments[k] = NotEnrolling
        /\ floating = {}
    BY DEF CheckoutInit
  <1>5. PaidInv /\ HistoryInv /\ EmptyInv /\ CapacityAddsUp /\ FetchCoversFloating
    BY <1>4 DEF PaidInv, HistoryInv, EmptyInv, CapacityAddsUp, FetchCoversFloating, NoPurchase,
                NoRegistry, NotFetching
  <1>6. FetchInv /\ EnrolmentInv
    BY <1>4 DEF FetchInv, EnrolmentInv, NotFetching, NotEnrolling
  <1>7. NamedInv
    BY <1>4 DEF NamedInv, Issued, NoPurchase, NotEnrolling
  <1>8. BillingMatchesSubscription
    BY <1>4 DEF BillingMatchesSubscription, NoRegistry
  <1>9. QED
    BY <1>3, <1>5, <1>6, <1>7, <1>8 DEF CheckoutInv

LEMMA StepInv ==
    CheckoutTypeOK /\ CheckoutInv /\ [CheckoutNext]_checkoutVars => (CheckoutTypeOK /\ CheckoutInv)'
  BY TypesPreserved, PaidPreserved, HistoryPreserved, FetchPreserved, BillingPreserved,
     EnrolmentPreserved, NamedPreserved, CapacityPreserved DEF CheckoutInv

LEMMA AlwaysInv == CheckoutSpec => [](CheckoutTypeOK /\ CheckoutInv)
  BY InitInv, StepInv, PTL DEF CheckoutSpec

\* Every purchase, registry, passport and event keeps its type.
THEOREM CheckoutTypeCorrect == CheckoutSpec => []CheckoutTypeOK
  BY AlwaysInv, PTL

\* No passport is enrolled against what was not paid for.
THEOREM PassportsAlwaysPaid == CheckoutSpec => []PassportsArePaid
  <1>1. CheckoutTypeOK /\ CheckoutInv => PassportsArePaid
    BY DEF CheckoutInv, EnrolmentInv, PassportsArePaid
  <1>2. QED
    BY <1>1, AlwaysInv, PTL

\* A purchase whose enrolment by its session was answered stays closed.
THEOREM IssuedStaysClosed == CheckoutSpec => []IssuedPurchaseClosed
  <1>1. CheckoutTypeOK /\ CheckoutInv => IssuedPurchaseClosed
    <2>1. ASSUME CheckoutTypeOK, CheckoutInv, NEW k \in Passports, NEW p \in Purchases,
                 Issued(k, "session", p)
          PROVE  /\ purchases[p].enrolment = "passport_issued"
                 /\ purchases[p].passport \in Passports
                 /\ Issued(purchases[p].passport, "session", p)
                 /\ passports[purchases[p].passport] = p
      <3>1. purchases[p].enrolment = "passport_issued" /\ purchases[p].passport \in Passports
        BY <2>1 DEF CheckoutInv, NamedInv
      <3>2. purchases[p].passport # Unclaimed
        BY <3>1, CheckoutAssumption DEF Unclaimed
      <3>3. Issued(purchases[p].passport, "session", p)
        BY <2>1, <3>2 DEF CheckoutInv, NamedInv
      <3>4. QED
        BY <2>1, <3>1, <3>3 DEF CheckoutInv, EnrolmentInv, Issued
    <2>2. QED
      BY <2>1 DEF IssuedPurchaseClosed
  <1>2. QED
    BY <1>1, AlwaysInv, PTL

\* A registry hands out no more passports than its capacity, its counts agree, and it
\* lists exactly those handed out through it.
THEOREM CapacityAlwaysAddsUp == CheckoutSpec => []CapacityAddsUp
  <1>1. CheckoutTypeOK /\ CheckoutInv => CapacityAddsUp
    BY DEF CheckoutInv
  <1>2. QED
    BY <1>1, AlwaysInv, PTL

\* The billing status follows the subscription whatever the order of the events.
THEOREM BillingAlwaysMatches == CheckoutSpec => []BillingMatchesSubscription
  <1>1. CheckoutTypeOK /\ CheckoutInv => BillingMatchesSubscription
    BY DEF CheckoutInv
  <1>2. QED
    BY <1>1, AlwaysInv, PTL

\* What the completed checkout fetched is no older than an event nothing was found for.
THEOREM FetchAlwaysCovers == CheckoutSpec => []FetchCoversFloating
  <1>1. CheckoutTypeOK /\ CheckoutInv => FetchCoversFloating
    BY DEF CheckoutInv
  <1>2. QED
    BY <1>1, AlwaysInv, PTL

=============================================================================
