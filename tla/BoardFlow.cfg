SPECIFICATION MCSpec
CONSTANTS
    None = None
    r1 = r1
    r2 = r2
    b1 = b1
    b2 = b2
    c1 = c1
    c2 = c2
    c3 = c3
    s1 = s1
    s2 = s2
    w1 = w1
    w2 = w2
    t1 = t1
    t2 = t2
    n1 = n1
    n2 = n2
    Requests = {r1, r2}
    Boards = {b1, b2}
    Columns = {c1, c2, c3}
    Swimlanes = {w1, w2}
    Sprints = {s1, s2}
    Tasks = {t1, t2}
    Names = {n1, n2}
    Limits = {0, 1, 2}
    Days = {1, 2}
    TaskStatuses = {"todo", "doing", "done"}
    Follows <- MCFollows
INVARIANTS
    BoardsAreSound
    StatusFollowsTheMove
PROPERTIES
    WipLimitsHold
CHECK_DEADLOCK FALSE
