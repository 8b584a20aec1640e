\* Two actors, one credential and one external subject, two calls at a time.
SPECIFICATION FairAuthoritySpec
CONSTANTS
    Actors = {a1, a2}
    a1 = a1
    a2 = a2
    Credentials = {c1}
    c1 = c1
    Subjects = {s1}
    s1 = s1
    Keys = {k1}
    k1 = k1
    Operators = {o1, o2}
    o1 = o1
    o2 = o2
    None = None
    Unmet = Unmet
    Revoked = Revoked
CHECK_DEADLOCK FALSE
INVARIANTS
    WorldIsWhole
    WorldFollowsStore
PROPERTIES
    AuthorityOnlyNarrows
    RevocationPropagates
