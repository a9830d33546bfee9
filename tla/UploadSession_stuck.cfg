SPECIFICATION LiveSpec
CONSTANTS
    Files = {f1}
    Staff = {s1}
    Verifies = {v1}
    Flaggers = {g1}
    Ways = {"dashboard"}
    Retries = 1
    MaxFaults = 0
    MaxCrashes = 1
PROPERTIES
    VerificationEnds
CHECK_DEADLOCK FALSE
