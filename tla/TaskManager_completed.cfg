SPECIFICATION Spec
CONSTANTS
    Tasks = {t1}
    Callers = {c1, c2}
    HueyIds = {t1}
    TimeoutAge = 1
    RemovalDelay = 1
    FlagTTL = 2
    MaxRegs = 1
PROPERTIES
    CompletedStays
CHECK_DEADLOCK FALSE
