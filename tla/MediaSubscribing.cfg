SPECIFICATION SubscribingSpec
CONSTANTS
    Tracks = {t1}
    Transports = {r1, r2}
    Consumers = {c1, c2}
    MaxLine = 2
    MaxAsks = 1
    MaxResting = 1
    MaxTimers = 2
    LateFailures = FALSE
    Absent = absent
SYMMETRY Symmetry
INVARIANTS
    SubscriptionsAreSound
    SubscribedWhenCalm
    StateTellsTheTruth
    LostMediaOnItsWayBack
CHECK_DEADLOCK FALSE
