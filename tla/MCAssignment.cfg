SPECIFICATION Spec
CONSTANTS
    Agents = {a1}
    Managers = {m1}
    Admins = {}
    t1 = t1
    t2 = t2
    Teams <- TwoTeams
    Roster <- AgentsOnFirst
    RoutedTeams <- FirstTeam
    Unsettled = {a1}
    Rosters <- OtherTeam
    Nobody = Nobody
    NoTeam = NoTeam
    Handlers = {h1, h2}
    Operations <- AllOperations
    MaxAssignments = 1
    MaxTransfers = 1
    MaxRequests = 1
SYMMETRY Symmetry
INVARIANTS
    TimelineTellsOwner
    RequestsMatchTimeline
    AgentsOnlyClaim
    JobsTellTheTruth
