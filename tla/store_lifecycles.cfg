\* The durable store: movements of one or two rights, their replays, the
\* commitments they consume and the constraints that outlive them.
SPECIFICATION Spec
CONSTANTS
    Holders = {alice, bob}
    Rights = {economic, usage}
    Units = {bps}
    Mandates = {m1, m2}
    Executions = {e1}
    Arrangements = {a1}
    ReleaseMandates = {rm1}
    ReleaseExecutions = {rx1}
    None = None
    Durable = TRUE
    Quantities = {1}
    MaxTime = 0
    MaxIssuances = 2
    MaxRights = 2
SYMMETRY Symmetry
CHECK_DEADLOCK FALSE
INVARIANTS
    LedgerBalanced
    ExecutionMovesOnce
    SpentCommitmentsAccountedFor
PROPERTIES
    CommitmentsNeverReopen
