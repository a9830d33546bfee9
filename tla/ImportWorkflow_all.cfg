SPECIFICATION FairSpec
CONSTANTS
    Datasets = {d1, d2}
    Threads = 2
    Retries = 1
INVARIANTS
    TypeOK
    RunsFindTheirTask
    ReportsAgree
    PolledIsQueued
PROPERTIES
    ImplementsReports
    PollingEnds
CHECK_DEADLOCK FALSE
