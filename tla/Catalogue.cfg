SPECIFICATION MCSpec
CONSTANTS
    flat = flat
    Listing = {flat}
    Invoice = {i1, i2}
    ListingOf <- MCListingOf
    BoostScoreGain = 10
    BoostScoreMax = 15
    MaxCalls = 2
    Proc = {p1, p2}
    agency = agency
    l1 = l1
    l2 = l2
    l3 = l3
    bill = bill
    NoInvoice = NoInvoice
    NewListing = NewListing
    server = server
SYMMETRY MCSymmetry
CONSTRAINT MCApart
CHECK_DEADLOCK FALSE
INVARIANTS
    OnlyPublishedIsSearchable
    IndexFollowsStatus
    BoostsAreEarned
PROPERTY
    PublicationWithinCap
