\* One organisation, one channel that is reused, two tickets, two requests.
SPECIFICATION Spec
CONSTANTS
    Orgs = {o1}
    Channels = {c1}
    Tickets = {t1, t2}
    Requests = {r1, r2}
    DiscordUsers = {d1}
    Users = {u1}
    None = None
    MaxAudit = 4
INVARIANTS
    TypeOK
    NumberingIsDense
    OneActivePerChannel
    AgreedTicketsAreCoherent
    ActiveTicketIsNewest
PROPERTIES
    DisputesNeedAWindow
    ImplementsDesk
SYMMETRY Symmetry
CHECK_DEADLOCK FALSE
