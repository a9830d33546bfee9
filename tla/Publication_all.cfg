SPECIFICATION AllSpec
CONSTANTS
    Projects = {p1, p2}
    Institutions = {{p1, p2}}
    Builders = {b1, b2}
    LoadSize = 1
    WriteSize = 2
    MaxChanges = 1
    MaxJobs = 2
    MaxRuns = 2
    MaxEdits = 1
    MaxFaults = 1
    FeedProjects = {1, 2}
    Harvesters = {h1}
    Unready = {}
    PageSize = 1
    MaxClock = 3
    MaxSaves = 3
    MaxLosses = 1
    Records = {r1, r2}
    OwnSet = {r1}
    BatchSize = 1
    MaxStores = 2
SYMMETRY Symmetry
INVARIANTS
    AllTypeOK
    RebuiltIsCurrent
    SeededIsCurrent
    CalmRunIsComplete
    CopyIsCurrent
    NoneTwice
    CompleteIsConsistent
    ServedIsWhole
PROPERTIES
    PruneSparesOthers
CHECK_DEADLOCK FALSE
