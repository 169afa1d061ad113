SPECIFICATION Spec
CONSTANTS
    Captures = {c1, c2, c3}
    Publications = {p1, p2}
    Transports = {t1, t2}
    Producers = {x1, x2, x3}
    MaxTimers = 1
    None = none
SYMMETRY Symmetry
INVARIANTS
    OneMicrophone
    AgreeWhenCalm
    PublishIsAnswered
CHECK_DEADLOCK FALSE
