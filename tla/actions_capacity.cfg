\* A transfer and a collateralization of one position.
SPECIFICATION ActionsSpec
CONSTANTS
    Holders = {alice, bob}
    Rights = {economic}
    Units = {bps}
    Mandates = {m1, m2}
    Executions = {e1}
    Arrangements = {a1}
    ReleaseMandates = {}
    ReleaseExecutions = {}
    None = None
    Durable = TRUE
    Quantities = {1}
    MaxTime = 1
    MaxIssuances = 1
    MaxRights = 1
    EffectiveInstants = {0, 1}
SYMMETRY ActionsSymmetry
CHECK_DEADLOCK FALSE
PROPERTIES
    CapacityBrokenOnlyLateOrAhead
    StrandedOnlyBackdated
