SPECIFICATION HistorySpec
CONSTANTS
    b1 = b1
    flat = flat
    Booking = {b1}
    Listing = {flat}
    ListingOf <- MCListingOf
    Invoice = {i1, i2}
    InvoiceOf <- MCInvoiceOf
    NoInvoice = NoInvoice
    Proc = {p1, p2}
SYMMETRY MCSymmetry
CONSTRAINT MCFourStatuses
CHECK_DEADLOCK FALSE
INVARIANTS
    LeaseApprovedAndPaid
    NoEarlyPayout
PROPERTY
    MovesFromRowsRead
