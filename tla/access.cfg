\* One protected resource, one grant on it, two links, three instants.
SPECIFICATION FairProtectedAccessSpec
CONSTANTS
    Files = {f1}
    f1 = f1
    Grants = {g1}
    g1 = g1
    Requests = {q1, q2}
    q1 = q1
    q2 = q2
    Durations = {1, 2}
    MaxTime = 3
CHECK_DEADLOCK FALSE
INVARIANTS
    CiphertextAccountedFor
    EffectiveNeverEarly
    ActiveIsStored
PROPERTIES
    RevocationDetermined
