SPECIFICATION Spec
CONSTANTS
    ana = ana
    bia = bia
    caio = caio
    w1 = w1
    w2 = w2
    Peers = {ana, bia, caio}
    Home <- MCHome
    Uses <- MCUses
    Kinds = {"camera"}
    Transports = {t1, t2}
    Producers = {x1, x2}
    Consumers = {c1, c2}
    Bridges = {b1, b2}
    MaxSessions <- MCMaxSessions
    None = none
INVARIANTS
    TracksAreSound
    UnitsAreWhatIsForwarded
    PipesAreTheBridges
    SubscribersAreHere
CHECK_DEADLOCK FALSE
