SPECIFICATION Spec
CONSTANTS
    Rows = {1, 2}
    Filters = {"any", "some"}
    Matches <- TwoFilters
    Limit = 1
    Screens = {"tickets", "trash"}
    FirstRows = {1, 2}
    FirstPages = {1, 2, 3}
    MaxPage <- Pages
    MaxFetches = 2
    MaxChanges = 1
    MaxFaults = 1
INVARIANTS
    SettledShowsWanted
    NeverStranded

    
CHECK_DEADLOCK FALSE
