SPECIFICATION FairSpec
CONSTANTS
    agency = agency
    Agency = {agency}
    Listing = {}
    OwnerOf <- MCOwnerOf
    Invoice = {i1, i2}
    Payer <- MCPayer
    NoInvoice = NoInvoice
    NewListing = NewListing
    MaxListings = 1
    Proc = {p1}
CHECK_DEADLOCK FALSE
INVARIANT
    ActiveWasPaidOrGranted
PROPERTIES
    ExpiredIsSuspended
    PaidInvoiceActivates
