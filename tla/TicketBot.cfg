\* Two interactions on one channel, a second ticket that may reuse the channel,
\* one staff member.
SPECIFICATION BotSpec
CONSTANTS
    Channels = {c1}
    Tickets = {t1, t2}
    Members = {m1}
    Interactions = {i1, i2}
    Nothing = Nothing
INVARIANTS
    BotTypeOK
    ChannelsAndTicketsStayTogether
PROPERTIES
    StaleControlsAreHarmless
    EveryInteractionEnds
