\* Two mandates pledging one slot in instalments.
SPECIFICATION CollateralSpec
CONSTANTS
    Holders = {alice}
    Rights = {economic}
    Units = {bps}
    Mandates = {m1, m2}
    Executions = {}
    Arrangements = {a1, a2}
    ReleaseMandates = {}
    ReleaseExecutions = {}
    None = None
    Durable = TRUE
    Quantities = {1, 2}
    MaxTime = 1
    MaxIssuances = 1
    MaxRights = 1
SYMMETRY CollateralSymmetry
CHECK_DEADLOCK FALSE
INVARIANTS
    ConstraintsFollowEvidence
    ConstrainedWithinMandate
    PledgeHasRoom
