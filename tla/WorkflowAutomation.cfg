SPECIFICATION JobsSpec
CONSTANTS
    Workers = {w1, w2}
    Pendings = {p1, p2, p3}
    External = {p1, p3}
    Hanging = {p3}
    MaxFaults = 2
INVARIANTS
    JobsAreSound
    EffectsAreAccountedFor
    RecordsAreTrue
PROPERTIES
    OutcomesAreFinal
    OnlyHangingActionsStarveOthers
CHECK_DEADLOCK FALSE
