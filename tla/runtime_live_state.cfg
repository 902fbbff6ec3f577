SPECIFICATION WholeSpec
CONSTANTS
    Projects = {p1, p2}
    Requests = {r1}
    Processes = {x1, x2}
    Names = {n1}
    Texts = {t1}
    Broken = {}
    Bundling = {TRUE}
    None = None
    Handoffs = FALSE
    ToolsMayFail = TRUE
    MayCrash = FALSE
SYMMETRY Symmetry
INVARIANTS StateReflectsRuntime
