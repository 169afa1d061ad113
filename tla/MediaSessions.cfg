SPECIFICATION Spec
CONSTANTS
    ana = ana
    bia = bia
    People = {ana, bia}
    t1 = t1
    t2 = t2
    Tasks = {t1, t2}
    Take = 2
    MaxEvents = 7
    MaxDisorder = 3
    Nobody = Nobody
SYMMETRY Symmetry
INVARIANTS
    StaysAreSessions
    NothingOpenPastTheEnd
CHECK_DEADLOCK FALSE
