SPECIFICATION SessionLiveSpec
CONSTANTS
    Keys = {speakers}
    Limit = 2
    Room = 1
    MaxFrames = 6
    MaxValues = 2
    MaxRequests = 3
    MaxEvents = 2
    None = None
INVARIANTS
    AnsweredInTurn
    EventsInTheirPlace
    EndIsExplained
    BacklogIsBounded
    NothingWaitsOnAnIdleSocket
PROPERTIES
    ClosesInTheEnd
    KeepsStream
CHECK_DEADLOCK FALSE
