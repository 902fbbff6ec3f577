SPECIFICATION Spec
CONSTANTS
    Projects = {p1, p2}
    Requests = {r1}
    Tags <- PlantTags
    Inputs <- PlantInputs
    Mappings <- PlantRows
    Programs <- PlantProgram
    PlantFault <- Plant
    None = None
    Polls = TRUE
SYMMETRY Symmetry
INVARIANTS DerivedTagsAgree DiagnosticsTellAlarms InputForcesHold
