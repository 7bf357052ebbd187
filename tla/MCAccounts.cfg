SPECIFICATION Spec
CONSTANTS
    Users = {u1, u2}
    Founders = {u1}
    Staff = {}
    Nobody = Nobody
    Handlers = {h1, h2}
    Operations <- AllOps
    GivenRoles = {"AGENT", "ADMIN"}
    MaxVersion = 1
SYMMETRY Symmetry
INVARIANTS
    NoSessionWhileInactive
    EveryRevocationCounts
PROPERTIES
    LastAdminNeedsRace
    RefusedForever
    ImplementsSessions
CHECK_DEADLOCK FALSE
