SPECIFICATION Spec
CONSTANTS
    Agents = {a1, a2}
    Managers = {m1}
    Admins = {}
    t1 = t1
    t2 = t2
    Teams <- TwoTeams
    Roster <- AgentsOnFirst
    RoutedTeams <- FirstTeam
    Unsettled = {}
    Rosters <- NoRoster
    Nobody = Nobody
    NoTeam = NoTeam
    Handlers = {h1, h2}
    Operations <- AssignOnly
    MaxAssignments = 2
    MaxTransfers = 0
    MaxRequests = 0
PROPERTIES
    ClaimsStealNothing
CHECK_DEADLOCK FALSE
