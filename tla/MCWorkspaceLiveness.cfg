CONSTANTS
    w1 = w1
    w2 = w2
    m1 = m1
    m2 = m2
    WS = {w1}
    Modules = {m1, m2}
    ModRes <- MCModRes
    ModOut <- MCModOut
    MaxRes = 2
    NoModule = NoModule
    NoChecksum = NoChecksum
    ChecksumCoversInit = TRUE
    PlanFailsOnceDeleted = TRUE
SPECIFICATION FairSpec
PROPERTY DeletionCompletes
CHECK_DEADLOCK FALSE
