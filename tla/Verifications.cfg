SPECIFICATION RegimeSpec
CONSTANTS
    flat = flat
    Listing = {flat}
    Verification = {v1, v2}
    ListingOf <- MCListingOf
    Payment = {i1, i2}
    ListingPaid <- MCListingPaid
    Agent = {a1, a2}
    NoAgent = NoAgent
    NoPayment = NoPayment
    Proc = {p1, p2}
SYMMETRY MCSymmetry
CONSTRAINT MCSmall
CHECK_DEADLOCK FALSE
INVARIANTS
    BadgeNeedsVisit
    PaidVisitWasPaid
    RatedAgentVisitedSerially
    OneVisitPerPaymentSerially
