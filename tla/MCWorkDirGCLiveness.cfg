CONSTANTS
    u1 = u1
    u2 = u2
    j1 = j1
    UIDs = {u1, u2}
    Junk = {j1}
SPECIFICATION FairSpec
PROPERTY OrphanDirsCollected
