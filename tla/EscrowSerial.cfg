SPECIFICATION FairSpec
CONSTANTS
    b1 = b1
    flat = flat
    Booking = {b1}
    Listing = {flat}
    ListingOf <- MCListingOf
    Invoice = {i1, i2}
    InvoiceOf <- MCInvoiceOf
    NoInvoice = NoInvoice
    Proc = {p1}
CHECK_DEADLOCK FALSE
INVARIANT
    NoCheckoutWithoutApproval
PROPERTIES
    DisputeFreezesEscrow
    SettledInvoiceReachesBooking
    ImplementsLifecycle
