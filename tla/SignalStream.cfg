SPECIFICATION LiveSpec
CONSTANTS
    Sockets = {s1, s2}
    Requests = {r1}
    Backlog = 2
    None = none
INVARIANTS
    AlwaysOnTheWayBack
PROPERTIES
    QuietOnceStopped
    PromisesSettle
CHECK_DEADLOCK FALSE
