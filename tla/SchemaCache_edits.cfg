SPECIFICATION TimelySpec
CONSTANTS
    Procs = {p1, p2}
    LockTTL = 2
    WaitLimit = 2
    MaxVersion = 2
PROPERTIES
    EditsStay
