\* One ticket and two requests are enough for the counterexample.
SPECIFICATION Spec
CONSTANTS
    Orgs = {o1}
    Channels = {c1}
    Tickets = {t1}
    Requests = {r1, r2}
    DiscordUsers = {d1}
    Users = {u1}
    None = None
    MaxAudit = 4
INVARIANT NoLostUpdate
CHECK_DEADLOCK FALSE
