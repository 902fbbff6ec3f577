SPECIFICATION MCSpec
CONSTANTS
    Connectors = {c1, c2}
    Requests = {r1, r2}
    Workers = {w1, w2, w3}
    Configs = {k1, k2}
    Subscriptions = {k1, k2}
    None = None
    JoinMayTimeOut = TRUE
    DbMayFail = TRUE
    MayCrash = TRUE
SYMMETRY Symmetry
INVARIANTS NoOrphanWorker EnabledIsServed SerialRestIsClean
PROPERTIES ImplementsSlots
