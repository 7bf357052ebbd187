SPECIFICATION Spec
CONSTANTS
    NoTime = NoTime
    HasPlan = TRUE
    FirstResponseWindow = 5
    ResolutionWindow = 5
    Handlers = {h1, h2, h3}
    Scanners = {}
    Instants <- NoClock
    Operations <- NoMessage
    MaxChanges = 3
    MaxMessages = 0
SYMMETRY Symmetry
INVARIANTS
    TimelineIsHistory
    StaffDrivesResolution
PROPERTIES
    ImplementsContract
CHECK_DEADLOCK FALSE
