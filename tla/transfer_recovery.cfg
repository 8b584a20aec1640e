\* Calls that die half way, under the fairness of calls in flight and of callers
\* that repeat an interrupted revocation; two reports of one mandate.
SPECIFICATION FairTransferSpec
CONSTANTS
    Holders = {alice, bob}
    Rights = {economic, usage}
    Units = {bps}
    Mandates = {m1}
    Executions = {e1, e2}
    Arrangements = {}
    ReleaseMandates = {}
    ReleaseExecutions = {}
    None = None
    Durable = TRUE
    Quantities = {1}
    MaxTime = 1
    MaxIssuances = 2
    MaxRights = 2
    EffectiveInstants = {0}
CHECK_DEADLOCK FALSE
INVARIANTS
    MovedWithinMandate
    MandateBacked
    CompensationKnowsAll
    AuthorityFollowsEvidence
PROPERTIES
    RequestsSettle
    RevocationFreesCapacity
