\* A report that dies between its evidence and its constraint.
SPECIFICATION CollateralSpec
CONSTANTS
    Holders = {alice}
    Rights = {economic}
    Units = {bps}
    Mandates = {m1}
    Executions = {}
    Arrangements = {a1}
    ReleaseMandates = {rm1}
    ReleaseExecutions = {}
    None = None
    Durable = TRUE
    Quantities = {1}
    MaxTime = 1
    MaxIssuances = 1
    MaxRights = 1
CHECK_DEADLOCK FALSE
INVARIANTS
    UnrecordedStaysHeld
