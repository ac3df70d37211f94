SPECIFICATION MessagingSpec
CONSTANTS
    Tenant = {t1, t2}
    Owner = owner
    Viewer <- MCViewer
    Room = {r1, r2}
    Bound = 3
    AtOnce = 1
    Null = Null
SYMMETRY MCSymmetry
CONSTRAINTS
    MCLoads
    MCPromised
    MCDeletions
    MCContents
    MCRooms
CHECK_DEADLOCK FALSE
INVARIANTS
    NothingTwice
    ReadWasReceived
    AlertedAtThree
