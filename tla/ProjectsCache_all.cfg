SPECIFICATION FairSpec
CONSTANTS
    Projects = {p1}
    Editors = {e1}
    Workers = {w1, w2}
    Views = {v1}
    MaxChanges = 2
    MaxQueue = 1
    MaxFaults = 1
INVARIANTS
    TypeOK
    WarmingsAreOrdered
    UnpublishedIsGone
PROPERTIES
    SnapshotCatchesUp
CHECK_DEADLOCK FALSE
