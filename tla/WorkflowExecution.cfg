\* One task, two requests, chains of two automatic hops of the ten allowed.
SPECIFICATION Spec
CONSTANTS
    a = a
    b = b
    c = c
    submit = submit
    finish = finish
    reopen = reopen
    States = {a, b, c}
    Initial = a
    Transitions = {submit, finish, reopen}
    From <- MCFrom
    To <- MCTo
    Automatic = {finish, reopen}
    Gated = {submit}
    Tasks = {k1}
    Requests = {r1, r2}
    None = None
    MaxChain = 2
    MaxApprovals = 2
SYMMETRY Symmetry
CHECK_DEADLOCK FALSE
INVARIANTS
    TypeOK
    AgreedTrailIsChain
    GatedMovesWereApproved
    AutomaticChainIsBounded
PROPERTIES
    OffWorkflowMovesNeedAnOverlap
