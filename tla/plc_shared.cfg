SPECIFICATION PlcSpec
CONSTANTS
    None = None
    Plants = {p1, p2}
    Logics = {l1}
    Signals = {s1}
    Deployers = {d1, d2}
    MaxVersions = 1
CHECK_DEADLOCK FALSE
PROPERTIES PassedRunsTheLogic
