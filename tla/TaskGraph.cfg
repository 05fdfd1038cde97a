SPECIFICATION MCSpec
CONSTANTS
    None = None
    r1 = r1
    r2 = r2
    t1 = t1
    t2 = t2
    t3 = t3
    u1 = u1
    u2 = u2
    l1 = l1
    l2 = l2
    n1 = n1
    n2 = n2
    Requests = {r1, r2}
    Tasks = {t1, t2, t3}
    Users = {u1, u2}
    Labels = {l1, l2}
    Names = {n1, n2}
    Days = {1, 2}
    Workflows <- MCWorkflows
INVARIANTS
    TasksAreSound
    GraphsAreAcyclic
    LinksAreUnique
PROPERTIES
    MovesFollowTheTable
CHECK_DEADLOCK FALSE
