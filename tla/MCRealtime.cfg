SPECIFICATION Spec
CONSTANTS
    Rooms = {r1, r2}
    MayJoin = {r1}
    Circumstances = {"updates", "refused"}
    MaxMounts = 2
    MaxDrops = 1
INVARIANTS
    RoomsFollowPages
PROPERTIES
    OpenRoomsAreJoined
    ClosedRoomsAreLeft
CHECK_DEADLOCK FALSE
