SPECIFICATION MCSpec
CONSTANTS
    None = None
    Emails = {v1, v2, m1}
    TeamIds = {p1, p2}
    MemberLimit = 1
    AiIds = {v1, v2, m1}
    AiRequests = {p1, p2}
    Tags = {1, 2}
    RowSets = {{2}, {1, 2}}
    Projects = {p1, p2}
    Readings = {v1, v2}
    Writers = {w1, w2}
    Pages = {g1}
    Impact <- RowImpact
    MaxId = 3
    Borrowers = {v1, v2, b1}
    Pools = {p1, p2}
    Conns = {k1, k2, k3}
    PoolSize = 1
    FirstForms <- Forms
    FormValues <- FormChoices
    OpcuaNodes = {1, 2}
    MaxEdits = 4
    Registers <- Mapped
    WindowSize = 4
    MaxMappings = 3
    RowTags = {{1}, {2}, {1, 2}}
    MaxRows = 4
SYMMETRY Symmetry
CHECK_DEADLOCK FALSE
INVARIANTS TeamsListTheirUsers OneActiveUnlessRaced LiveTableAgrees PoolsLend FormsAreKept PollsReadTheTags
