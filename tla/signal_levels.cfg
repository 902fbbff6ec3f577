SPECIFICATION AreaSpec
CONSTANTS
    Projects = {p1, p2}
    Requests = {r1, r2}
    Tags <- LevelTags
    Inputs <- LevelTags
    Mappings <- LevelRows
    Programs <- LevelProgram
    PlantFault <- Plant
    None = None
    Polls = TRUE
    Others = {p2}
SYMMETRY RequestSymmetry
INVARIANTS EvaluatedTagsAgree BehaviourCatchesUp
