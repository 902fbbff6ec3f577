SPECIFICATION MCSpec
CONSTANTS
    Projects = {p1, p2}
    Requests = {r1, r2}
    Processes = {x1, x2}
    Names = {n1}
    Texts = {t1}
    Broken = {}
    Bundling = {TRUE}
    None = None
    Handoffs = TRUE
    ToolsMayFail = TRUE
    MayCrash = TRUE
SYMMETRY Symmetry
INVARIANTS RestartFindsAProject SerialRowsTell
