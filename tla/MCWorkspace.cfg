CONSTANTS
    w1 = w1
    w2 = w2
    m1 = m1
    m2 = m2
    WS = {w1, w2}
    Modules = {m1, m2}
    ModRes <- MCModRes
    ModOut <- MCModOut
    MaxRes = 2
    NoModule = NoModule
    NoChecksum = NoChecksum
    ChecksumCoversInit = TRUE
    PlanFailsOnceDeleted = FALSE
SPECIFICATION Spec
SYMMETRY MCSymmetry
INVARIANT TypeOK
INVARIANT NoOrphans
INVARIANT ChecksumSound
CHECK_DEADLOCK FALSE
PROPERTY ImplementsAbstract
