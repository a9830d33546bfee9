SPECIFICATION ThreeSpec
CONSTANTS
    Files = {f1, f2, f3}
    Staff = {s1, s2}
    Verifies = {v1, v2, v3}
    Flaggers = {g1}
    Ways = {"dashboard", "command", "sync"}
    Retries = 1
    MaxFaults = 2
    MaxCrashes = 1
    SmallFiles = {f1, f2}
    FewStaff = {s1}
    FewVerifies = {v1}
    FewFaults = 1
INVARIANTS
    TypeOK
    AwaitingIsFinished
    CompletedIsRecorded
    PatientCompletedIsComplete
    PatientOneObjectEach
PROPERTIES
    FairNoneForgotten
CHECK_DEADLOCK FALSE
