\* The in-memory store: commitments and constraints competing for one slot,
\* instalments, handoffs and discharges.
SPECIFICATION Spec
CONSTANTS
    Holders = {alice}
    Rights = {economic}
    Units = {bps, shares}
    Mandates = {m1, m2}
    Executions = {}
    Arrangements = {a1, a2}
    ReleaseMandates = {rm1}
    ReleaseExecutions = {rx1}
    None = None
    Durable = FALSE
    Quantities = {1, 2}
    MaxTime = 1
    MaxIssuances = 2
    MaxRights = 1
SYMMETRY Symmetry
CHECK_DEADLOCK FALSE
INVARIANTS
    HandoffIsWhole
PROPERTIES
    GateNeverOvercommits
