SPECIFICATION Spec
CONSTANTS
    Projects = {p1, p2, p3, p4}
    Institutions = {{p1, p2, p3, p4}}
    Builders = {b1}
    LoadSize = 2
    WriteSize = 2
    MaxChanges = 0
    MaxJobs = 1
INVARIANTS
    CountedIsWritten
CHECK_DEADLOCK FALSE
