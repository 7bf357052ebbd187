SPECIFICATION ReportSpec
CONSTANTS
    k1 = k1
    k2 = k2
    a1 = a1
    m1 = m1
    d1 = d1
    t1 = t1
    t2 = t2
    r1 = r1
    Tickets = {k1, k2}
    RequestIds = {r1}
    Agents = {a1}
    Managers = {m1}
    Admins = {d1}
    Teams = {t1, t2}
    NoTeam = NoTeam
    Nobody = Nobody
    NoTime = NoTime
    Instants <- Times
    HasPlan = TRUE
    FirstResponseWindow = 5
    ResolutionWindow = 10
    WindowLength = 5
    Backlog <- SmallBacklog
    Kinds = {"overview", "queue", "agents", "me", "requests"}
    MaxWrites = 1
INVARIANTS
    FiguresWereTrue
    QuietReportAddsUp
