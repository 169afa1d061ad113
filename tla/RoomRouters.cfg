SPECIFICATION LiveSpec
CONSTANTS
    Workers = {w1, w2}
    Peers = {a, b}
    Rooms = {r1, r2}
    Routers = {x1, x2, x3, x4}
    Nobody = nobody
INVARIANTS
    PeersLiveOnOpenRouters
    RoomsAreSound
    NoRouterIsLost
    TogetherUnlessStrained
PROPERTIES
    JoinsSettle
