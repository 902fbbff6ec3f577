SPECIFICATION MCSpec
CONSTANTS
    None = None
    Parses = {r1, r2}
    Elements = {e1, e2}
    Items = 2
    Generators = {r1, r2}
    Designs <- AllDesigns
    Modules = {"module"}
    FilesOf <- DesignFiles
    LoopTags = {"loop"}
    LoopsOf <- DesignLoops
    MaxRuns = 2
    Tags = {1, 2, 3}
    Norm <- Spelling
    Ties <- TagPairs
    Similar <- AlikeTags
    Fits <- TagPairs
    Reports = {"healthy", "alarm"}
    Datasets <- PlantDatasets
    Parsed <- PlantGraphs
    Reviewers = {r1, r2}
    Plants = {e1, e2}
    Logics = {e1, e2}
    Signals = {e1, e2}
    Deployers = {r0}
    MaxVersions = 3
    Entities <- PlantEntities
    Strangers = {"nobody"}
    BucketOf <- PlantBuckets
    UnitOf <- PlantUnits
    Units = {"unit"}
    Pool <- PlantPool
    MaxOutgoing = 2
    MaxFound = 4
    SignalTags = {1, 2, 3, 4}
    Width = 2
    MaxNamed = 4
    Requests = {r0}
    Contents = {e1, e2}
    MaxVersion = 2
    Edited = {"logic", "preferred", "plain"}
SYMMETRY Symmetry
CHECK_DEADLOCK FALSE
INVARIANTS ReadersSeeOneParse NewestRunIsWhole ConflictsAreAllowed ReconcilingSettles LatestFileIsServed CommitsHoldTheVersion EdgesAreTheBest ChannelsAreDistinct
PROPERTIES ApplyKeepsDevices PassedRunsTheLogic RollbackBringsBack
