SPECIFICATION Spec
CONSTANTS
    Customer = Customer
    Agent = Agent
    Colleague = Colleague
    Nobody = Nobody
    Users = {Customer, Agent, Colleague}
    Requester = Customer
    FirstAssignee = Agent
    Team <- TheTeam
    FirstRole <- Roles
    Viewer = Colleague
    Events = {e1}
    Happenings <- OneOfEach
    PageLimit = 1
    MaxAttempts = 2
    Faults = {"redis", "insert", "answer", "patch", "crash"}
    MaxFaults = 2
    MaxChanges = 1
INVARIANTS
    NoticesAddressed
    OneRowPerRun
PROPERTIES
    QueuedIsDelivered
    BellCatchesUp
CHECK_DEADLOCK FALSE
