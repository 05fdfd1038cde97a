\* Two organisations that compete for one guild; three codes, so that a code
\* can be superseded twice; three link ids, one more than two requests can use.
SPECIFICATION Spec
CONSTANTS
    Orgs = {o1, o2}
    Guilds = {g1}
    Codes = {c1, c2, c3}
    Links = {l1, l2, l3}
    Requests = {r1, r2}
    None = None
    MaxAudit = 3
INVARIANTS
    LinksAreSound
    OneActiveLinkPerGuild
    RulesBendOnlyByOverlaps
PROPERTIES
    NoSilentTakeover
    SetupTakesEffect
SYMMETRY Symmetry
CHECK_DEADLOCK FALSE
