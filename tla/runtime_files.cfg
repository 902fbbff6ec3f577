SPECIFICATION WholeSpec
CONSTANTS
    Projects = {p1}
    Requests = {r1}
    Processes = {x1, x2}
    Names = {n1, n2}
    Texts = {t1, t2}
    Broken = {t2}
    Bundling = {TRUE, FALSE}
    None = None
    Handoffs = FALSE
    ToolsMayFail = TRUE
    MayCrash = FALSE
SYMMETRY Symmetry
INVARIANTS RunsWhatWasDeployed NothingBrokenRuns OneProcessGoesOn
