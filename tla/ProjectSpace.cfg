SPECIFICATION MCSpec
CONSTANTS
    None = None
    r1 = r1
    r2 = r2
    w1 = w1
    w2 = w2
    p1 = p1
    p2 = p2
    t1 = t1
    t2 = t2
    u1 = u1
    u2 = u2
    a = a
    b = b
    v1 = v1
    v2 = v2
    s1 = s1
    s2 = s2
    s3 = s3
    x1 = x1
    x2 = x2
    q1 = q1
    q2 = q2
    k1 = k1
    Requests = {r1, r2}
    Workspaces = {w1, w2}
    Projects = {p1, p2}
    Templates = {t1, t2}
    Users = {u1, u2}
    Slugs = {a, b}
    Flows = {v1, v2}
    States = {s1, s2, s3}
    Transitions = {x1, x2}
    Parts = {q1, q2}
    StateNames = {a, b}
    Enrolled = {k1}
INVARIANTS
    ProjectsAreSound
    ProjectsKeepAnOwner
    DesignsAreSound
CHECK_DEADLOCK FALSE
