SPECIFICATION Spec
CONSTANTS
    Booking = {b1, b2}
    t1 = t1
    Tenant = {t1, t2}
    West <- MCWest
    LastDay = 3
    RentalMode = "MIXED"
    MinimumNights = 0
    MaximumNights = 0
    MinLeaseDays = 3
SYMMETRY MCSymmetry
CONSTRAINTS
    MCOneChooses
    MCOneLivesOn
    MCShortLife
CHECK_DEADLOCK FALSE
INVARIANTS
    NoDoubleStay
    LeaseFoundThePlaceFree
    CalendarAgrees
