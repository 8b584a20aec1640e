\* Two mandates over one constraint, two executions, failures between any two steps.
SPECIFICATION FairReleaseSpec
CONSTANTS
    Holders = {alice}
    Rights = {economic}
    Units = {bps}
    Mandates = {m1}
    Executions = {}
    Arrangements = {a1}
    ReleaseMandates = {r1, r2}
    ReleaseExecutions = {x1, x2}
    None = None
    Durable = TRUE
    Quantities = {1}
    MaxTime = 1
    MaxIssuances = 1
    MaxRights = 1
CHECK_DEADLOCK FALSE
INVARIANTS
    SpentExactlyOnce
    LiveDischargesAlone
PROPERTIES
    ImplementsDischarge
    ConfirmedIsFinished
