SPECIFICATION LiveSpec
CONSTANTS
    Connectors = {c1}
    Requests = {r1}
    Workers = {w1, w2}
    Configs = {k1, k2}
    Subscriptions = {k2}
    None = None
    JoinMayTimeOut = TRUE
    DbMayFail = FALSE
    MayCrash = FALSE
PROPERTIES WorkSettles
