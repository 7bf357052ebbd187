SPECIFICATION FairSpec
CONSTANTS
    NoTime = NoTime
    HasPlan = TRUE
    FirstResponseWindow = 5
    ResolutionWindow = 5
    Handlers = {h1, h2}
    Scanners = {s1}
    Instants <- DueInstants
    Operations <- MessageOps
    MaxChanges = 0
    MaxMessages = 1
INVARIANTS
    FirstResponseNeedsStaffReply
PROPERTIES
    FirstResponseIsFinal
    OverdueIsNoticed
