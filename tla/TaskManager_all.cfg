SPECIFICATION FairSpec
CONSTANTS
    Tasks = {t1}
    Callers = {c1, c2}
    HueyIds = {t1}
    TimeoutAge = 1
    RemovalDelay = 1
    FlagTTL = 2
    MaxRegs = 3
INVARIANTS
    TypeOK
    ViewsAgree
    EndedIsCleanedUp
    FlagsFit
    NoLeak
    ReturnedIsReported
PROPERTIES
    CancellationIsProcessed
    ContextIsRemoved
CHECK_DEADLOCK FALSE
