SPECIFICATION MCSpec
CONSTANTS
    None = None
    RowTags = {1, 2, 3, 4}
    Endpoints = {1, 2, 3, 4, 5}
    Placeholders = {5}
    Norm <- RowNorm
    RoleOf <- RowRoles
    Drawn <- RowPool
    LoadOrders <- RowOrders
    Updated = {2, 4}
    Asked = {2, 4}
    Patches <- RowPatches
    Depth = 2
    MaxPaths = 3
    CacheSize = 2
    SmallGraph <- OneRelation
    RowNames = {"a", "b"}
    Values = {v1, v2}
    Writers = {w1, w2}
    Sockets = {s1, s2}
    MaxRevision = 3
    Nodes = {1, 2, 3, 4, 5, 6}
    RolesOf <- PlantRoles
    TypeRole <- PlantTypes
    PartOf <- PlantParts
    TokenOf <- PlantTokens
    NodeOrder <- PlantOrder
    TrustIn <- PlantTrust
    Synthetic = {2}
    Drawable <- PlantDraw
    MaxDrawn = 4
    Devices = {1, 2, 3, 4, 5, 6, 7}
    Behaves <- ParseBehaves
    ServedUnit <- ParseUnits
    DigitsOf <- ParseDigits
    UnitTyped = {6}
    TypeFits <- ParseFits
    Candidates <- ParseGives
    Intents <- ParseIntents
    PageOf <- ParsePages
    Blocks <- ParseBlocks
    MaxPresent = 7
    RoleOfType <- ParseRoles
    Recognized <- ParseKnown
    SpokenChains <- ParseChains
    SpokenLinks <- ParseLinks
    Equipment = {1, 2, 3, 4}
    Acts <- PlantActs
    Inputs <- PlantInputs
SYMMETRY Symmetry
CHECK_DEADLOCK FALSE
INVARIANTS ShortcutsAgree PageCatchesUp LoopsAreJudged FinalStands ScansReachTheEnd
PROPERTIES PumpsAreSafe
