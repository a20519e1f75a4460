SPECIFICATION MCSpec
CONSTANTS
    Accounts = {a1, a2}
    MaxInFlight = 2
    MaxVersion = 2
    MaxClicks = 2
    MaxAttempts = 2
    MaxPolls = 2
    Conns = {c1, c2}
INVARIANTS
    StatusIsTrue
    PaidOnce
PROPERTIES
    ViewsAreCurrent
    WaitingEnds
CHECK_DEADLOCK FALSE
