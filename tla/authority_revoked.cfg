\* One actor and two credentials: a revocation after a write no world can be built with.
SPECIFICATION AuthoritySpec
CONSTANTS
    Actors = {a1}
    a1 = a1
    Credentials = {c1, c2}
    c1 = c1
    c2 = c2
    Subjects = {s1}
    s1 = s1
    Keys = {k1}
    k1 = k1
    Operators = {o1}
    o1 = o1
    None = None
    Unmet = Unmet
    Revoked = Revoked
CHECK_DEADLOCK FALSE
INVARIANTS
    RevocationTakesEffect
