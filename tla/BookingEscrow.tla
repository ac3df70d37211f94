--------------------------- MODULE BookingEscrow ---------------------------
(***************************************************************************)
(* The life of a booking and of the money behind it: BookingsService,      *)
(* PaymentsService and the contract that follows a paid lease.             *)
(*                                                                         *)
(* Every HTTP handler of the two services reads the booking, checks it,    *)
(* and later issues UPDATE ... WHERE id, without a transaction and without *)
(* repeating the check in the WHERE clause; Node runs other handlers at    *)
(* each await in between.  A handler is therefore an action for its SELECT *)
(* and its checks, which leaves the pending write in request[p], and the   *)
(* action Write for the UPDATE.  A handler that calls PayDunya has a step  *)
(* for the answer too.                                                     *)
(***************************************************************************)
EXTENDS Naturals, FiniteSets

CONSTANTS
    Booking,     \* rows of the bookings table, already created
    Listing,     \* rows of the listings table
    ListingOf,   \* booking.listingId
    Invoice,     \* PayDunya invoices that may be created (bounded pool)
    InvoiceOf,   \* custom_data.booking_id of an invoice
    NoInvoice,   \* paymentRef is null
    Proc         \* requests the backend serves at the same time

ASSUME BookingAssumption ==
    /\ ListingOf \in [Booking -> Listing]
    /\ InvoiceOf \in [Invoice -> Booking]
    /\ NoInvoice \notin Invoice

VARIABLES
    bookingType, \* booking.bookingType: a nightly stay or a lease by the month
    status,      \* booking.status
    escrow,      \* booking.escrowStatus
    ref,         \* booking.paymentRef: the PayDunya token stored in the row
    listing,     \* listing.status
    contracts,   \* bookings with a row in the contracts table
    invoice,     \* PayDunya's side of each invoice
    phase,       \* where now lies relative to the stay
    request,     \* the handler each process runs, and the write it prepares
    past         \* history: the recorded handlers that have written to a booking

vars == <<bookingType, status, escrow, ref, listing, contracts, invoice, phase, request, past>>

BookingType == {"NIGHTLY", "MONTHLY"}
NightlyStatus == {"PENDING", "CONFIRMED", "CANCELLED", "COMPLETED"}
LeaseStatus == {"REQUESTED", "APPROVED", "REJECTED", "ACTIVE", "TERMINATED", "CANCELLED"}
BookingStatus == NightlyStatus \cup LeaseStatus
EscrowStatus == {"AWAITING_PAYMENT", "HELD", "DISPUTED", "RELEASED", "REFUNDED"}
ListingStatus == {"DRAFT", "ACTIVE", "RENTED", "SUSPENDED"}

\* "created": the invoice exists at PayDunya but its URL has not been returned;
\* "open": the tenant has the URL; PayDunya answers pending for both.
InvoiceState == {"none", "created", "open", "completed", "failed"}

\* More than 7 days before startDate; at most 7 days before it; in the 24 hours
\* that follow it; later during the stay; at endDate or after it.  Nothing makes
\* endDate later than startDate: a stay without a night is "spent" at its start, over
\* while the 24 hours run.
Phase == {"early", "late", "arrival", "spent", "staying", "over"}

NextPhases(f) ==
    CASE f = "early"   -> {"late"}
      [] f = "late"    -> {"arrival", "spent"}
      [] f = "arrival" -> {"staying", "over"}   \* one night ends at hour 24
      [] f \in {"spent", "staying"} -> {"over"}
      [] f = "over"    -> {}

Nightly(b) == bookingType[b] = "NIGHTLY"
Started(b) == phase[b] \in {"arrival", "spent", "staying", "over"}
Over(b) == phase[b] \in {"spent", "over"}

Op == {"confirm", "approve", "reject", "terminate", "tenantCancel",
       "ownerCancel", "complete", "dispute", "resolveRelease", "resolveRefund",
       "release", "refund", "initiate", "webhook", "verify", "paid",
       "paymentFailed"}

\* The handlers whose past effect the properties speak of.
Recorded == {"approve", "tenantCancel", "release", "resolveRelease"}

Keep == "KEEP"           \* a column the UPDATE does not mention

Idle == [stage |-> "idle"]

(***************************************************************************)
(* A request being served: the booking, the handler, the columns of the    *)
(* UPDATE it will issue (stage "update") or the row it has read (stage     *)
(* "query"), and the invoice it deals with.                                *)
(***************************************************************************)
Request ==
    [stage : {"bill", "query", "update", "rent", "contract"}, op : Op, b : Booking,
     status : BookingStatus \cup {Keep}, escrow : EscrowStatus \cup {Keep},
     inv : Invoice \cup {NoInvoice}]

TypeOK ==
    /\ bookingType \in [Booking -> BookingType]
    /\ status \in [Booking -> BookingStatus]
    /\ escrow \in [Booking -> EscrowStatus]
    /\ ref \in [Booking -> Invoice \cup {NoInvoice}]
    /\ listing \in [Listing -> ListingStatus]
    /\ contracts \in SUBSET Booking
    /\ invoice \in [Invoice -> InvoiceState]
    /\ phase \in [Booking -> Phase]
    /\ request \in [Proc -> Request \cup {Idle}]
    /\ past \in [Booking -> SUBSET Recorded]

\* Bookings as create() and createMonthlyRequest() leave them.  Neither compares
\* the dates with the present, so a stay may already be under way or over.
Init ==
    /\ bookingType \in [Booking -> BookingType]
    /\ status = [b \in Booking |-> IF Nightly(b) THEN "PENDING" ELSE "REQUESTED"]
    /\ escrow = [b \in Booking |-> "AWAITING_PAYMENT"]
    /\ ref = [b \in Booking |-> NoInvoice]
    /\ listing = [l \in Listing |-> "ACTIVE"]
    /\ contracts = {}
    /\ invoice = [i \in Invoice |-> "none"]
    /\ phase \in [Booking -> Phase]
    /\ request = [p \in Proc |-> Idle]
    /\ past = [b \in Booking |-> {}]

-----------------------------------------------------------------------------
(***************************************************************************)
(* The reading half of the handlers.                                       *)
(***************************************************************************)

Enter(p, r) ==
    /\ request[p] = Idle
    /\ request' = [request EXCEPT ![p] = r]
    /\ UNCHANGED <<bookingType, status, escrow, ref, listing, contracts, invoice, phase, past>>

\* The handler p runs goes on with r, or ends when r is Idle.
Continue(p, r) == request' = [request EXCEPT ![p] = r]

Update(op, b, s, e, i) ==
    [stage |-> "update", op |-> op, b |-> b, status |-> s, escrow |-> e, inv |-> i]

Query(op, b, i) ==
    [stage |-> "query", op |-> op, b |-> b, status |-> status[b], escrow |-> Keep,
     inv |-> i]

\* The landlord accepts a nightly booking.
Confirm(p, b) ==
    /\ status[b] = "PENDING"
    /\ Enter(p, Update("confirm", b, "CONFIRMED", Keep, NoInvoice))

\* The landlord answers a monthly request.
ApproveMonthlyRequest(p, b) ==
    /\ ~Nightly(b)
    /\ status[b] = "REQUESTED"
    /\ Enter(p, Update("approve", b, "APPROVED", Keep, NoInvoice))

RejectAnyRequest(p, b) ==                        \* mutant: no check of the status
    /\ ~Nightly(b)
    /\ Enter(p, Update("reject", b, "REJECTED", Keep, NoInvoice))

RejectMonthlyRequest(p, b) ==
    /\ ~Nightly(b)
    /\ status[b] = "REQUESTED"
    /\ Enter(p, Update("reject", b, "REJECTED", Keep, NoInvoice))

\* Either party, or an admin, ends a lease.
TerminateLease(p, b) ==
    /\ ~Nightly(b)
    /\ status[b] = "ACTIVE"
    /\ Enter(p, Update("terminate", b, "TERMINATED", Keep, NoInvoice))

EscrowAfterCancelByAnyone(b, op) ==              \* mutant: the party is not looked at
    IF escrow[b] # "HELD" THEN escrow[b]
    ELSE IF phase[b] # "early" THEN "RELEASED" ELSE "REFUNDED"

\* The escrow a cancellation writes back: the value just read, unless HELD.
EscrowAfterCancel(b, op) ==
    IF escrow[b] # "HELD" THEN escrow[b]
    ELSE IF op = "tenantCancel" /\ phase[b] # "early" THEN "RELEASED" ELSE "REFUNDED"

\* The tenant or the owner cancels.  An admin who is neither never gets past
\* the access check of findOne.
Cancel(p, b, op) ==
    /\ status[b] \notin {"CANCELLED", "COMPLETED"}
    /\ status[b] = "CONFIRMED" => ~Started(b)
    /\ Enter(p, Update(op, b, "CANCELLED", EscrowAfterCancel(b, op), NoInvoice))

CompleteDisputed(p, b) ==                        \* mutant: disputes are not looked at
    /\ status[b] = "CONFIRMED"
    /\ Over(b)
    /\ Enter(p, Update("complete", b, "COMPLETED", "RELEASED", NoInvoice))

\* The landlord closes a stay.
Complete(p, b) ==
    /\ status[b] = "CONFIRMED"
    /\ escrow[b] # "DISPUTED"
    /\ Over(b)
    /\ Enter(p, Update("complete", b, "COMPLETED", "RELEASED", NoInvoice))

\* The tenant reports the dwelling within 24 hours of the start of the stay.
ReportDispute(p, b) ==
    /\ status[b] = "CONFIRMED"
    /\ escrow[b] = "HELD"
    /\ phase[b] \in {"arrival", "spent"}
    /\ Enter(p, Update("dispute", b, Keep, "DISPUTED", NoInvoice))

\* An admin decides a dispute.
ResolveDispute(p, b) ==
    /\ escrow[b] = "DISPUTED"
    /\ \/ Enter(p, Update("resolveRelease", b, "COMPLETED", "RELEASED", NoInvoice))
       \/ Enter(p, Update("resolveRefund", b, "CANCELLED", "REFUNDED", NoInvoice))

\* An admin moves the escrow by hand; the status of the booking stays.
Release(p, b) ==
    /\ escrow[b] = "HELD"
    /\ Enter(p, Update("release", b, Keep, "RELEASED", NoInvoice))

Refund(p, b) ==
    /\ escrow[b] = "HELD"
    /\ Enter(p, Update("refund", b, Keep, "REFUNDED", NoInvoice))

\* The tenant comes back to the confirmation page: ask PayDunya about the token
\* in the row, unless the booking already counts as paid.
VerifyBooking(p, b) ==
    /\ status[b] \notin {"CONFIRMED", "ACTIVE"}
    /\ ref[b] # NoInvoice
    /\ Enter(p, Query("verify", b, ref[b]))

ReusableStatus(b) == IF Nightly(b) THEN "PENDING" ELSE "APPROVED"

InitiateUnapproved(p, b) ==                      \* mutant: no approval needed
    /\ \E i \in Invoice : InvoiceOf[i] = b /\ invoice[i] = "none"
    /\ Enter(p, [Query("initiate", b, NoInvoice) EXCEPT !.stage = "bill"])

\* The tenant asks to pay.  A booking that waits for payment and has a token is
\* verified and its checkout reused; otherwise a new invoice is requested.
\* Nothing restricts the status of a nightly booking.
Initiate(p, b) ==
    /\ ~Nightly(b) => status[b] = "APPROVED"
    /\ IF status[b] = ReusableStatus(b) /\ ref[b] # NoInvoice
         THEN VerifyBooking(p, b)
         ELSE /\ \E i \in Invoice : InvoiceOf[i] = b /\ invoice[i] = "none"
              /\ Enter(p, [Query("initiate", b, NoInvoice) EXCEPT !.stage = "bill"])

AlreadyHandledStatuses ==                        \* mutant: APPROVED taken for paid
    {"APPROVED", "CONFIRMED", "COMPLETED", "ACTIVE", "TERMINATED"}

AlreadyPaidStatuses == {"CONFIRMED", "COMPLETED", "ACTIVE", "TERMINATED"}

\* PayDunya's notification for invoice i, at any time and any number of times.
\* A booking in one of AlreadyPaidStatuses is acknowledged without a write.
HandlePaydunyaWebhook(p, i) ==
    /\ invoice[i] # "none"
    /\ status[InvoiceOf[i]] \notin AlreadyPaidStatuses
    /\ Enter(p, Query("webhook", InvoiceOf[i], i))

-----------------------------------------------------------------------------
(***************************************************************************)
(* What a handler does after its first await.                              *)
(***************************************************************************)

\* checkout-invoice/create answers with a token.
CreateInvoice(p) ==
    /\ request[p].stage = "bill"
    /\ \E i \in Invoice :
         /\ InvoiceOf[i] = request[p].b
         /\ invoice[i] = "none"
         /\ invoice' = [invoice EXCEPT ![i] = "created"]
         /\ Continue(p, Update("initiate", request[p].b, Keep, Keep, i))
    /\ UNCHANGED <<bookingType, status, escrow, ref, listing, contracts, phase, past>>

MarkBookingConfirmed(b, i) ==                    \* mutant: bookingType not looked at
    Update("paid", b, "CONFIRMED", "HELD", i)

\* The UPDATE markBookingPaid issues.  Only the webhook stores the token again.
MarkBookingPaid(b, i) ==
    Update("paid", b, IF Nightly(b) THEN "CONFIRMED" ELSE "ACTIVE", "HELD", i)

\* checkout-invoice/confirm answers the webhook or the active verification.
\* The amount always agrees: the invoice was created for the booking's total.
ConfirmAnswer(p) ==
    LET r == request[p] IN
    /\ r.stage = "query"
    /\ \/ /\ invoice[r.inv] = "completed"
          /\ Continue(p, MarkBookingPaid(r.b, IF r.op = "webhook" THEN r.inv ELSE NoInvoice))
       \/ /\ invoice[r.inv] = "failed"
          /\ Continue(p, IF r.op = "verify" /\ r.status = "CANCELLED" THEN Idle
                         ELSE Update("paymentFailed", r.b, "CANCELLED", "REFUNDED", NoInvoice))
       \/ /\ invoice[r.inv] \in {"created", "open"}
          /\ Continue(p, Idle)
    /\ UNCHANGED <<bookingType, status, escrow, ref, listing, contracts, invoice, phase, past>>

Column(new, old) == IF new = Keep THEN old ELSE new

\* The UPDATE of the booking.  Ending a lease frees the listing in the same
\* transaction; a paid lease goes on with a separate UPDATE of the listing; the
\* tenant gets the payment URL once the token is stored.
Write(p) ==
    LET r == request[p] IN
    /\ r.stage = "update"
    /\ status' = [status EXCEPT ![r.b] = Column(r.status, @)]
    /\ escrow' = [escrow EXCEPT ![r.b] = Column(r.escrow, @)]
    /\ ref' = [ref EXCEPT ![r.b] = IF r.inv = NoInvoice THEN @ ELSE r.inv]
    /\ past' = [past EXCEPT ![r.b] = @ \cup ({r.op} \cap Recorded)]
    /\ listing' = IF r.op = "terminate"
                    THEN [listing EXCEPT ![ListingOf[r.b]] = "ACTIVE"] ELSE listing
    /\ invoice' = IF r.op = "initiate" /\ invoice[r.inv] = "created"
                    THEN [invoice EXCEPT ![r.inv] = "open"] ELSE invoice
    /\ Continue(p, IF r.op = "paid" /\ ~Nightly(r.b)
                     THEN [r EXCEPT !.stage = "rent"] ELSE Idle)
    /\ UNCHANGED <<bookingType, contracts, phase>>

\* The second write of markBookingPaid, for a lease.
RentListing(p) ==
    /\ request[p].stage = "rent"
    /\ listing' = [listing EXCEPT ![ListingOf[request[p].b]] = "RENTED"]
    /\ Continue(p, [request[p] EXCEPT !.stage = "contract"])
    /\ UNCHANGED <<bookingType, status, escrow, ref, contracts, invoice, phase, past>>

\* Best effort, after the payment: the unique bookingId makes a second creation
\* a lookup or a failed insert.
GenerateForBooking(p) ==
    /\ request[p].stage = "contract"
    /\ contracts' = contracts \cup {request[p].b}
    /\ Continue(p, Idle)
    /\ UNCHANGED <<bookingType, status, escrow, ref, listing, invoice, phase, past>>

\* A database error, an unreachable PayDunya or a restart of the container.
Abort(p) ==
    /\ request[p] # Idle
    /\ Continue(p, Idle)
    /\ UNCHANGED <<bookingType, status, escrow, ref, listing, contracts, invoice, phase, past>>

-----------------------------------------------------------------------------
(***************************************************************************)
(* The environment: the tenant's payment, PayDunya, other services, time.  *)
(***************************************************************************)

PayInvoice(i) ==
    /\ invoice[i] = "open"
    /\ invoice' = [invoice EXCEPT ![i] = "completed"]
    /\ UNCHANGED <<bookingType, status, escrow, ref, listing, contracts, phase, request, past>>

FailInvoice(i) ==
    /\ invoice[i] \in {"created", "open"}
    /\ invoice' = [invoice EXCEPT ![i] = "failed"]
    /\ UNCHANGED <<bookingType, status, escrow, ref, listing, contracts, phase, request, past>>

\* ListingsService: publish, unpublish, archive, restore, activate, suspend.  None
\* of them looks at the bookings, and none of them writes RENTED.
MoveListing(l) ==
    /\ \E b \in Booking : ListingOf[b] = l /\ ~Nightly(b)
    /\ \E s \in ListingStatus \ {"RENTED"} :
         s # listing[l] /\ listing' = [listing EXCEPT ![l] = s]
    /\ UNCHANGED <<bookingType, status, escrow, ref, contracts, invoice, phase, request, past>>

TimePasses(b) ==
    /\ \E f \in NextPhases(phase[b]) : phase' = [phase EXCEPT ![b] = f]
    /\ UNCHANGED <<bookingType, status, escrow, ref, listing, contracts, invoice, request, past>>

-----------------------------------------------------------------------------
Handler(p, b) ==
    \/ Confirm(p, b)
    \/ ApproveMonthlyRequest(p, b)
    \/ RejectMonthlyRequest(p, b)
    \/ TerminateLease(p, b)
    \/ Cancel(p, b, "tenantCancel")
    \/ Cancel(p, b, "ownerCancel")
    \/ Complete(p, b)
    \/ ReportDispute(p, b)
    \/ ResolveDispute(p, b)
    \/ Release(p, b)
    \/ Refund(p, b)
    \/ VerifyBooking(p, b)
    \/ Initiate(p, b)

Resume(p) ==
    /\ request[p] # Idle
    /\ \/ CreateInvoice(p)
       \/ ConfirmAnswer(p)
       \/ Write(p)
       \/ RentListing(p)
       \/ GenerateForBooking(p)

Next ==
    \/ \E p \in Proc, b \in Booking : Handler(p, b)
    \/ \E p \in Proc, i \in Invoice : HandlePaydunyaWebhook(p, i)
    \/ \E p \in Proc : Resume(p) \/ Abort(p)
    \/ \E i \in Invoice : PayInvoice(i) \/ FailInvoice(i)
    \/ \E l \in Listing : MoveListing(l)
    \/ \E b \in Booking : TimePasses(b)

Spec == Init /\ [][Next]_vars

(***************************************************************************)
(* Fairness.  PayDunya repeats a notification until it gets a 200 answer,  *)
(* so each stage of an attempt for an invoice eventually succeeds even if  *)
(* other attempts abort there: strong fairness, since the slot may be      *)
(* taken or the attempt dropped in between.  A request being served goes   *)
(* on by itself.  Users, admins, PayDunya's decisions and time owe nothing.*)
(***************************************************************************)
AnswerAbout(p, i) == request[p] # Idle /\ request[p].inv = i /\ ConfirmAnswer(p)

SettlingWrite(p, b) ==
    /\ request[p] # Idle
    /\ request[p].b = b
    /\ request[p].op \in {"paid", "paymentFailed"}
    /\ Write(p)

Fairness ==
    /\ \A p \in Proc : WF_vars(Resume(p))
    /\ \A i \in Invoice :
         /\ SF_vars(\E p \in Proc : HandlePaydunyaWebhook(p, i))
         /\ SF_vars(\E p \in Proc : AnswerAbout(p, i))
         /\ SF_vars(\E p \in Proc : SettlingWrite(p, InvoiceOf[i]))

FairSpec == Spec /\ Fairness

-----------------------------------------------------------------------------
(***************************************************************************)
(* Safety that holds whatever the interleaving.                            *)
(***************************************************************************)

Paid(b) == \E i \in Invoice : InvoiceOf[i] = b /\ invoice[i] = "completed"

EarnedLease(b) == ~Nightly(b) /\ Paid(b) /\ "approve" \in past[b]

\* A booking never takes a status of the other product: no stale write of a
\* nightly handler reaches a lease or the reverse, and only a stay is disputed.
\* About the twelve UPDATEs of booking.status and markBookingPaid's branch on
\* bookingType.
ProductsStaySeparate ==
    \A b \in Booking :
        IF Nightly(b) THEN status[b] \in NightlyStatus
        ELSE status[b] \in LeaseStatus /\ escrow[b] # "DISPUTED"

\* The escrow is HELD or DISPUTED only for a booking PayDunya reports paid, even
\* after cancellations that write back an escrow they read long before.
FundsHeldOnlyIfPaid ==
    \A b \in Booking : escrow[b] \in {"HELD", "DISPUTED"} => Paid(b)

\* A lease runs, has run, has a contract or occupies its listing only if the
\* landlord approved the request and the tenant paid, in whatever order the
\* approval, a refusal, the invoices and their notifications interleave.
LeaseApprovedAndPaid ==
    /\ \A b \in Booking : status[b] \in {"ACTIVE", "TERMINATED"} => EarnedLease(b)
    /\ \A b \in contracts : EarnedLease(b)
    /\ \A l \in Listing :
         listing[l] = "RENTED" => \E b \in Booking : ListingOf[b] = l /\ EarnedLease(b)

\* The landlord alone never gets the funds before the end of the stay: an escrow
\* is RELEASED early only after a late cancellation by the tenant or an admin's
\* decision, and a booking is COMPLETED early only after an admin's decision
\* (the rules the comments of cancel() and complete() call "anti-fraude").
NoEarlyPayout ==
    \A b \in Booking : ~Over(b) =>
        /\ escrow[b] = "RELEASED" =>
             past[b] \cap {"tenantCancel", "release", "resolveRelease"} # {}
        /\ status[b] = "COMPLETED" => "resolveRelease" \in past[b]

(***************************************************************************)
(* The inductive invariant: why the five invariants above survive UPDATEs  *)
(* that land long after their checks.  What justified the pending write is *)
(* a fact that cannot be undone (an invoice completed, an approval on      *)
(* record, the stay over), or is the handler itself.                       *)
(***************************************************************************)
Approved(b) == Nightly(b) \/ "approve" \in past[b]

PayoutAllowed(b, op) ==
    \/ Over(b)
    \/ (past[b] \cup {op}) \cap {"tenantCancel", "release", "resolveRelease"} # {}

\* The write r prepares may land at any later time.
JustifiedUpdate(r) ==
    /\ r.status # Keep =>
         r.status \in IF Nightly(r.b) THEN NightlyStatus ELSE LeaseStatus
    /\ r.status = "APPROVED" => r.op = "approve"
    /\ r.status \in {"ACTIVE", "TERMINATED"} => EarnedLease(r.b)
    /\ r.status = "COMPLETED" =>
         Over(r.b) \/ "resolveRelease" \in past[r.b] \cup {r.op}
    /\ r.escrow \in {"HELD", "DISPUTED"} => Paid(r.b)
    /\ r.escrow = "DISPUTED" => Nightly(r.b)
    /\ r.escrow = "RELEASED" => PayoutAllowed(r.b, r.op)
    /\ r.inv # NoInvoice => InvoiceOf[r.inv] = r.b /\ Approved(r.b)
    /\ r.op = "initiate" => r.inv # NoInvoice
    /\ r.op = "paid" /\ ~Nightly(r.b) => EarnedLease(r.b)

JustifiedRequest(r) ==
    /\ r.stage = "bill" => Approved(r.b)
    /\ r.stage = "query" =>
         r.inv # NoInvoice /\ InvoiceOf[r.inv] = r.b /\ Approved(r.b)
    /\ r.stage = "update" => JustifiedUpdate(r)
    /\ r.stage \in {"rent", "contract"} => EarnedLease(r.b)

\* Every request in flight is justified whenever its write lands: the check that
\* a handler made before its awaits still supports the UPDATE it issues after them.
RequestsJustified ==
    \A p \in Proc : request[p] # Idle => JustifiedRequest(request[p])

\* Only approved leases reach the checkout, and a row holds its own invoice.
BilledAfterApproval ==
    /\ \A b \in Booking : status[b] = "APPROVED" => Approved(b)
    /\ \A b \in Booking :
         ref[b] # NoInvoice => InvoiceOf[ref[b]] = b /\ Approved(b)
    /\ \A i \in Invoice : invoice[i] # "none" => Approved(InvoiceOf[i])

IInv ==
    /\ TypeOK
    /\ ProductsStaySeparate
    /\ FundsHeldOnlyIfPaid
    /\ LeaseApprovedAndPaid
    /\ NoEarlyPayout
    /\ BilledAfterApproval
    /\ RequestsJustified

-----------------------------------------------------------------------------
(***************************************************************************)
(* Safety when requests do not overlap (a single process in Proc).         *)
(***************************************************************************)

\* While a dispute is open nothing but an admin's decision moves the escrow or the
\* status: "gèle l'escrow le temps de l'examen du litige" (reportDispute).
DisputeFreezesEscrow ==
    [][\A b \in Booking :
         escrow[b] = "DISPUTED" /\ (escrow'[b] # "DISPUTED" \/ status'[b] # status[b])
           => \E p \in Proc :
                /\ request[p] # Idle
                /\ request[p].b = b
                /\ request[p].op \in {"resolveRelease", "resolveRefund"}]_vars

\* A request the landlord refused, or has not answered, has no checkout: nobody
\* can pay for it.
NoCheckoutWithoutApproval ==
    \A b \in Booking : status[b] \in {"REQUESTED", "REJECTED"} =>
        ref[b] = NoInvoice /\ \A i \in Invoice : InvoiceOf[i] = b => invoice[i] = "none"

-----------------------------------------------------------------------------
(***************************************************************************)
(* Liveness under FairSpec.                                                *)
(***************************************************************************)

\* Once PayDunya has settled an invoice, paid or refused, the booking does not
\* stay for ever in the status that waits for payment.
SettledInvoiceReachesBooking ==
    \A i \in Invoice :
        invoice[i] \in {"completed", "failed"}
            ~> status[InvoiceOf[i]] \notin {"PENDING", "APPROVED"}
=============================================================================
