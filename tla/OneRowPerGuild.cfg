\* One guild, one code used twice and two requests give the counterexample.
SPECIFICATION Spec
CONSTANTS
    Orgs = {o1}
    Guilds = {g1}
    Codes = {c1}
    Links = {l1, l2}
    Requests = {r1, r2}
    None = None
    MaxAudit = 3
INVARIANT OneRowPerGuild
CHECK_DEADLOCK FALSE
