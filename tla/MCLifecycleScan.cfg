SPECIFICATION Spec
CONSTANTS
    NoTime = NoTime
    HasPlan = TRUE
    FirstResponseWindow = 50
    ResolutionWindow = 5
    Handlers = {h1}
    Scanners = {s1, s2}
    Instants <- EarlyInstants
    Operations <- StaffOnly
    MaxChanges = 2
    MaxMessages = 0
SYMMETRY Symmetry
INVARIANTS
    StampAgreesWithState
    EscalatesOnce
    EscalationIsOnRecord
    JobsHaveEvents
