SPECIFICATION CatalogSpec
CONSTANTS
    Rooms = {r1}
    Channels = {c1}
    Users = {u1, u2}
    Admins = {}
    CHANNEL_ROOM_LIMIT = 1
    Calls = {k1, k2}
    None = None
SYMMETRY Symmetry
PROPERTIES
    OwnersStay
    RoomsStay
