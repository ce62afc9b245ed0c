CONSTANTS
    tablet = tablet
    v1 = v1
    v2 = v2
    None = None
    Device = {tablet}
    Viewer = {v1, v2}
    Expiry = 2
    MaxRooms = 2
    MaxSent = 3
SPECIFICATION Spec
CHECK_DEADLOCK FALSE
INVARIANTS HandedIsFresh NoSleepOverMessage
PROPERTIES OfferReturns RoomsExpire
