SPECIFICATION TimelyFairSpec
CONSTANTS
    Procs = {p1, p2}
    LockTTL = 2
    WaitLimit = 1
    MaxVersion = 2
INVARIANTS
    TypeOK
    MutualExclusion
    NoNeedlessBuild
PROPERTIES
    ReleasesItsOwn
    CallsEnd
