\* One task and two requests are enough for the counterexample.
SPECIFICATION Spec
CONSTANTS
    a = a
    b = b
    c = c
    submit = submit
    finish = finish
    reopen = reopen
    States = {a, b, c}
    Initial = a
    Transitions = {submit, finish, reopen}
    From <- MCFrom
    To <- MCTo
    Automatic = {finish, reopen}
    Gated = {submit}
    Tasks = {k1}
    Requests = {r1, r2}
    None = None
    MaxChain = 2
    MaxApprovals = 2
CHECK_DEADLOCK FALSE
INVARIANT MovesFollowTheWorkflow
