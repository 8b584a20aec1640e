\* One checkout, of a single purchase or of an organization's, and three enrolments
\* for the two places of a registry.
SPECIFICATION FairCheckoutSpec
CONSTANTS
    Singles = {s1}
    s1 = s1
    Orgs = {o1}
    o1 = o1
    Passports = {k1, k2, k3}
    k1 = k1
    k2 = k2
    k3 = k3
    MaxPassports = 2
    MaxCheckouts = 1
    MaxChanges = 2
CHECK_DEADLOCK FALSE
INVARIANTS
    PassportsArePaid
    IssuedPurchaseClosed
    CapacityAddsUp
    BillingMatchesSubscription
    FetchCoversFloating
PROPERTIES
    PaymentLands
