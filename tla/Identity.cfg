SPECIFICATION MCSpec
CONSTANTS
    None = None
    r1 = r1
    r2 = r2
    k1 = k1
    k2 = k2
    u1 = u1
    u2 = u2
    o1 = o1
    o2 = o2
    a = a
    b = b
    e1 = e1
    e2 = e2
    t1 = t1
    t2 = t2
    t3 = t3
    x1 = x1
    x2 = x2
    x3 = x3
    Requests = {r1, r2}
    Seeds = {k1, k2}
    Users = {u1, u2}
    Orgs = {o1, o2}
    Emails = {e1, e2}
    Slugs = {a, b}
    Teams = {t1, t2, t3}
    Roles = {x1, x2, x3}
    OwnerRole = x1
    Threshold = 2
INVARIANTS
    IdentityIsSound
    SessionsAreAccountedFor
    MfaHasItsFactor
    HierarchiesHaveNoCycle
CHECK_DEADLOCK FALSE
