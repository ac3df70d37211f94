------------------------ MODULE BookingEscrowProofs ------------------------
(***************************************************************************)
(* Proofs about BookingEscrow for every set of bookings, listings and      *)
(* invoices and any number of requests served at the same time; about      *)
(* SerialEscrow, where requests do not overlap; and about BookingHistory,  *)
(* which remembers the statuses of the rows.                               *)
(***************************************************************************)
EXTENDS SerialEscrow, BookingHistory, TLAPS

-----------------------------------------------------------------------------
(***************************************************************************)
(* Type correctness.                                                       *)
(***************************************************************************)

\* A request being served is a Request: Idle is the only other value.
LEMMA BusyIsRequest ==
    ASSUME TypeOK, NEW p \in Proc, request[p] # Idle
    PROVE  request[p] \in Request
BY DEF TypeOK

\* The stages after the first await only run for a request being served.
LEMMA StageIsRequest ==
    ASSUME TypeOK, NEW p \in Proc,
           request[p].stage \in {"bill", "query", "update", "rent", "contract"}
    PROVE  request[p] \in Request /\ request[p] # Idle
BY DEF TypeOK, Idle, Request

\* An UPDATE record built from columns of the right types is a Request.
LEMMA UpdateIsRequest ==
    ASSUME NEW op \in Op, NEW b \in Booking,
           NEW s \in BookingStatus \cup {Keep}, NEW e \in EscrowStatus \cup {Keep},
           NEW i \in Invoice \cup {NoInvoice}
    PROVE  Update(op, b, s, e, i) \in Request
BY DEF Update, Request

\* The row a handler has read makes a Request.
LEMMA QueryIsRequest ==
    ASSUME TypeOK, NEW op \in Op, NEW b \in Booking, NEW i \in Invoice \cup {NoInvoice}
    PROVE  /\ Query(op, b, i) \in Request
           /\ [Query(op, b, i) EXCEPT !.stage = "bill"] \in Request
BY DEF Query, Request, TypeOK

\* The first step of a handler keeps the types.
LEMMA EnterType ==
    ASSUME TypeOK, NEW p \in Proc, NEW r \in Request, Enter(p, r)
    PROVE  TypeOK'
BY DEF Enter, TypeOK

\* So do the steps after the first await.
LEMMA ResumeType ==
    ASSUME TypeOK, NEW p \in Proc, Resume(p)
    PROVE  TypeOK'
<1>1. CASE CreateInvoice(p)
  <2>1. request[p] \in Request
    BY <1>1, StageIsRequest DEF CreateInvoice
  <2>2. PICK i \in Invoice :
           /\ invoice' = [invoice EXCEPT ![i] = "created"]
           /\ request' = [request EXCEPT ![p] = Update("initiate", request[p].b, Keep, Keep, i)]
    BY <1>1 DEF CreateInvoice, Continue
  <2>3. Update("initiate", request[p].b, Keep, Keep, i) \in Request
    BY <2>1, UpdateIsRequest DEF Request, Op
  <2> QED BY <1>1, <2>2, <2>3 DEF CreateInvoice, TypeOK, InvoiceState
<1>2. CASE ConfirmAnswer(p)
  <2> DEFINE r == request[p]
             new == request'[p]
  <2>1. r \in Request
    BY <1>2, StageIsRequest DEF ConfirmAnswer
  <2>2. ASSUME NEW i \in Invoice \cup {NoInvoice}
        PROVE  MarkBookingPaid(r.b, i) \in Request
    <3>1. (IF Nightly(r.b) THEN "CONFIRMED" ELSE "ACTIVE") \in BookingStatus \cup {Keep}
      BY DEF BookingStatus, NightlyStatus, LeaseStatus
    <3>2. r.b \in Booking
      BY <2>1 DEF Request
    <3> QED BY <3>1, <3>2, UpdateIsRequest DEF MarkBookingPaid, Op, EscrowStatus
  <2>3. Update("paymentFailed", r.b, "CANCELLED", "REFUNDED", NoInvoice) \in Request
    BY <2>1, UpdateIsRequest
       DEF Request, Op, BookingStatus, NightlyStatus, EscrowStatus
  <2>4. (IF r.op = "webhook" THEN r.inv ELSE NoInvoice) \in Invoice \cup {NoInvoice}
    BY <2>1 DEF Request
  <2>5. PICK q \in Request \cup {Idle} : request' = [request EXCEPT ![p] = q]
    BY <1>2, <2>2, <2>3, <2>4 DEF ConfirmAnswer, Continue
  <2> QED BY <1>2, <2>5 DEF ConfirmAnswer, TypeOK
<1>3. CASE Write(p)
  <2> DEFINE r == request[p]
  <2>1. r \in Request
    BY <1>3, StageIsRequest DEF Write
  <2>2. [r EXCEPT !.stage = "rent"] \in Request
    BY <2>1 DEF Request
  <2>3. request' \in [Proc -> Request \cup {Idle}]
    BY <1>3, <2>2 DEF Write, Continue, TypeOK
  <2>4. /\ Column(r.status, status[r.b]) \in BookingStatus
        /\ Column(r.escrow, escrow[r.b]) \in EscrowStatus
    BY <2>1 DEF Column, Request, TypeOK
  <2>5. /\ status' \in [Booking -> BookingStatus]
        /\ escrow' \in [Booking -> EscrowStatus]
    BY <1>3, <2>1, <2>4 DEF Write, TypeOK
  <2>6. ref' \in [Booking -> Invoice \cup {NoInvoice}]
    BY <1>3, <2>1 DEF Write, TypeOK, Request
  <2>7. past' \in [Booking -> SUBSET Recorded]
    BY <1>3, <2>1 DEF Write, TypeOK
  <2>8. listing' \in [Listing -> ListingStatus] /\ invoice' \in [Invoice -> InvoiceState]
    BY <1>3 DEF Write, TypeOK, ListingStatus, InvoiceState
  <2> QED BY <1>3, <2>3, <2>5, <2>6, <2>7, <2>8 DEF Write, TypeOK
<1>4. CASE RentListing(p)
  <2>1. request[p] \in Request
    BY <1>4, StageIsRequest DEF RentListing
  <2>2. [request[p] EXCEPT !.stage = "contract"] \in Request
    BY <2>1 DEF Request
  <2> QED BY <1>4, <2>2 DEF RentListing, Continue, TypeOK, ListingStatus
<1>5. CASE GenerateForBooking(p)
  <2>1. request[p] \in Request
    BY <1>5, StageIsRequest DEF GenerateForBooking
  <2>2. request[p].b \in Booking
    BY <2>1 DEF Request
  <2> QED BY <1>5, <2>2 DEF GenerateForBooking, Continue, TypeOK
<1> QED BY <1>1, <1>2, <1>3, <1>4, <1>5 DEF Resume

\* The first step of every handler is an Enter with a request of the right type.
LEMMA HandlerEnters ==
    ASSUME TypeOK, NEW p \in Proc, NEW b \in Booking, Handler(p, b)
    PROVE  \E r \in Request : Enter(p, r)
<1> USE DEF BookingStatus, NightlyStatus, LeaseStatus, EscrowStatus, Op
<1>1. CASE Confirm(p, b)
  BY <1>1, UpdateIsRequest DEF Confirm
<1>2. CASE ApproveMonthlyRequest(p, b)
  BY <1>2, UpdateIsRequest DEF ApproveMonthlyRequest
<1>3. CASE RejectMonthlyRequest(p, b)
  BY <1>3, UpdateIsRequest DEF RejectMonthlyRequest
<1>4. CASE TerminateLease(p, b)
  BY <1>4, UpdateIsRequest DEF TerminateLease
<1>5. ASSUME NEW op \in {"tenantCancel", "ownerCancel"}, Cancel(p, b, op)
      PROVE  \E r \in Request : Enter(p, r)
  <2>1. EscrowAfterCancel(b, op) \in EscrowStatus
    BY DEF EscrowAfterCancel, TypeOK
  <2>2. Update(op, b, "CANCELLED", EscrowAfterCancel(b, op), NoInvoice) \in Request
    BY <2>1, UpdateIsRequest
  <2> QED BY <1>5, <2>2 DEF Cancel
<1>6. CASE Complete(p, b)
  BY <1>6, UpdateIsRequest DEF Complete
<1>7. CASE ReportDispute(p, b)
  BY <1>7, UpdateIsRequest DEF ReportDispute
<1>8. CASE ResolveDispute(p, b)
  BY <1>8, UpdateIsRequest DEF ResolveDispute
<1>9. CASE Release(p, b)
  BY <1>9, UpdateIsRequest DEF Release
<1>10. CASE Refund(p, b)
  BY <1>10, UpdateIsRequest DEF Refund
<1>11. VerifyBooking(p, b) => \E r \in Request : Enter(p, r)
  <2>1. ref[b] \in Invoice \cup {NoInvoice}
    BY DEF TypeOK
  <2> QED BY <2>1, QueryIsRequest DEF VerifyBooking
<1>12. CASE Initiate(p, b)
  <2>1. VerifyBooking(p, b) \/ Enter(p, [Query("initiate", b, NoInvoice) EXCEPT !.stage = "bill"])
    BY <1>12 DEF Initiate
  <2> QED BY <2>1, <1>11, QueryIsRequest
<1> QED BY <1>1, <1>2, <1>3, <1>4, <1>5, <1>6, <1>7, <1>8, <1>9, <1>10, <1>11, <1>12
        DEF Handler

\* So is the first step of the notification handler.
LEMMA WebhookEnters ==
    ASSUME TypeOK, NEW p \in Proc, NEW i \in Invoice, HandlePaydunyaWebhook(p, i)
    PROVE  \E r \in Request : Enter(p, r)
<1>1. InvoiceOf[i] \in Booking
  BY BookingAssumption
<1>2. Query("webhook", InvoiceOf[i], i) \in Request
  BY <1>1, QueryIsRequest DEF Op
<1> QED BY <1>2 DEF HandlePaydunyaWebhook

\* One step of anybody keeps the types.
LEMMA TypeStep ==
    ASSUME TypeOK, [Next]_vars
    PROVE  TypeOK'
<1>1. ASSUME NEW p \in Proc, NEW b \in Booking, Handler(p, b)
      PROVE  TypeOK'
  BY <1>1, HandlerEnters, EnterType
<1>2. ASSUME NEW p \in Proc, NEW i \in Invoice, HandlePaydunyaWebhook(p, i)
      PROVE  TypeOK'
  BY <1>2, WebhookEnters, EnterType
<1>3. ASSUME NEW p \in Proc, Resume(p)
      PROVE  TypeOK'
  BY <1>3, ResumeType
<1>4. ASSUME NEW p \in Proc, Abort(p)
      PROVE  TypeOK'
  BY <1>4 DEF Abort, Continue, TypeOK
<1>5. ASSUME NEW i \in Invoice, PayInvoice(i) \/ FailInvoice(i)
      PROVE  TypeOK'
  BY <1>5 DEF PayInvoice, FailInvoice, TypeOK, InvoiceState
<1>6. ASSUME NEW l \in Listing, MoveListing(l)
      PROVE  TypeOK'
  BY <1>6 DEF MoveListing, TypeOK
<1>7. ASSUME NEW b \in Booking, TimePasses(b)
      PROVE  TypeOK'
  <2>1. NextPhases(phase[b]) \subseteq Phase
    BY DEF NextPhases, Phase, TypeOK
  <2> QED BY <1>7, <2>1 DEF TimePasses, TypeOK
<1>8. CASE UNCHANGED vars
  BY <1>8 DEF vars, TypeOK
<1> QED BY <1>1, <1>2, <1>3, <1>4, <1>5, <1>6, <1>7, <1>8 DEF Next

\* Every variable keeps its type in every behaviour.
THEOREM TypeCorrect == Spec => []TypeOK
<1>1. Init => TypeOK
  BY DEF Init, TypeOK, BookingStatus, NightlyStatus, LeaseStatus, EscrowStatus,
         ListingStatus, InvoiceState
<1>2. TypeOK /\ [Next]_vars => TypeOK'
  BY TypeStep
<1> QED BY <1>1, <1>2, PTL DEF Spec

-----------------------------------------------------------------------------
(***************************************************************************)
(* The inductive invariant.  A step changes the rows, the requests, or     *)
(* both; what justifies either only grows.                                 *)
(***************************************************************************)
Rows ==
    /\ ProductsStaySeparate
    /\ FundsHeldOnlyIfPaid
    /\ LeaseApprovedAndPaid
    /\ NoEarlyPayout
    /\ BilledAfterApproval

\* The facts a pending write may rest on are never taken back.
FactsStay ==
    /\ bookingType' = bookingType
    /\ \A b \in Booking : past[b] \subseteq past'[b]
    /\ \A b \in Booking : Over(b) => Over(b)'
    /\ \A i \in Invoice : invoice[i] = "completed" => invoice'[i] = "completed"

LEMMA FactsOnlyGrow ==
    ASSUME TypeOK, [Next]_vars
    PROVE  FactsStay
<1> USE DEF FactsStay, Over
<1>1. ASSUME NEW p \in Proc, NEW b \in Booking, Handler(p, b)
      PROVE  FactsStay
  BY <1>1, HandlerEnters DEF Enter
<1>2. ASSUME NEW p \in Proc, NEW i \in Invoice, HandlePaydunyaWebhook(p, i)
      PROVE  FactsStay
  BY <1>2, WebhookEnters DEF Enter
<1>3. ASSUME NEW p \in Proc, CreateInvoice(p)
      PROVE  FactsStay
  BY <1>3 DEF CreateInvoice, TypeOK
<1>4. ASSUME NEW p \in Proc, Write(p)
      PROVE  FactsStay
  BY <1>4 DEF Write, TypeOK
<1>5. ASSUME NEW p \in Proc, Resume(p)
      PROVE  FactsStay
  BY <1>3, <1>4, <1>5 DEF Resume, ConfirmAnswer, RentListing, GenerateForBooking
<1>6. ASSUME NEW i \in Invoice, PayInvoice(i) \/ FailInvoice(i)
      PROVE  FactsStay
  BY <1>6 DEF PayInvoice, FailInvoice, TypeOK
<1>7. ASSUME NEW b \in Booking, TimePasses(b)
      PROVE  FactsStay
  <2>1. Over(b) => NextPhases(phase[b]) \subseteq {"over"}
    BY DEF NextPhases
  <2>2. PICK f \in NextPhases(phase[b]) : phase' = [phase EXCEPT ![b] = f]
    BY <1>7 DEF TimePasses
  <2>3. \A c \in Booking : Over(c) => Over(c)'
    BY <2>1, <2>2 DEF TypeOK
  <2> QED BY <1>7, <2>3 DEF TimePasses
<1>8. CASE (\E p \in Proc : Abort(p)) \/ (\E l \in Listing : MoveListing(l)) \/ UNCHANGED vars
  BY <1>8 DEF Abort, MoveListing, vars
<1> QED BY <1>1, <1>2, <1>5, <1>6, <1>7, <1>8 DEF Next

\* What the facts imply stays too.
LEMMA ReasonsStay ==
    ASSUME FactsStay, NEW b \in Booking, NEW op
    PROVE  /\ Nightly(b)' <=> Nightly(b)
           /\ Paid(b) => Paid(b)'
           /\ Approved(b) => Approved(b)'
           /\ EarnedLease(b) => EarnedLease(b)'
           /\ PayoutAllowed(b, op) => PayoutAllowed(b, op)'
BY DEF FactsStay, Nightly, Paid, Approved, EarnedLease, PayoutAllowed

\* A justified request stays justified while others work.
LEMMA JustifiedStays ==
    ASSUME FactsStay, NEW r \in Request, JustifiedRequest(r)
    PROVE  JustifiedRequest(r)'
<1>1. r.b \in Booking
  BY DEF Request
<1>2. /\ Nightly(r.b)' <=> Nightly(r.b)
      /\ Paid(r.b) => Paid(r.b)'
      /\ Approved(r.b) => Approved(r.b)'
      /\ EarnedLease(r.b) => EarnedLease(r.b)'
      /\ PayoutAllowed(r.b, r.op) => PayoutAllowed(r.b, r.op)'
  BY <1>1, ReasonsStay
<1>3. /\ Over(r.b) => Over(r.b)'
      /\ past[r.b] \subseteq past'[r.b]
  BY <1>1 DEF FactsStay
<1>4. JustifiedUpdate(r) => JustifiedUpdate(r)'
  BY <1>2, <1>3 DEF JustifiedUpdate
<1> QED BY <1>2, <1>4 DEF JustifiedRequest

\* If process p alone changes its request, to one that is justified or Idle, all
\* requests stay justified.
LEMMA OtherRequests ==
    ASSUME TypeOK, RequestsJustified, FactsStay, NEW p \in Proc, NEW r,
           request' = [request EXCEPT ![p] = r], r # Idle => JustifiedRequest(r)'
    PROVE  RequestsJustified'
<1> USE DEF JustifiedRequest, JustifiedUpdate, Approved, EarnedLease, PayoutAllowed,
            Nightly, Paid, Over
<1> SUFFICES ASSUME NEW q \in Proc, request'[q] # Idle
             PROVE  JustifiedRequest(request[q])'
  BY DEF RequestsJustified
<1>1. CASE q = p
  <2>1. request'[q] = r
    BY <1>1 DEF TypeOK
  <2> QED BY <2>1
<1>2. CASE q # p
  <2>1. request'[q] = request[q]
    BY <1>2 DEF TypeOK
  <2> DEFINE s == request[q]
  <2>2. s \in Request /\ JustifiedRequest(s)
    BY <2>1, BusyIsRequest DEF RequestsJustified
  <2>3. ASSUME NEW t \in Request, JustifiedRequest(t)
        PROVE  JustifiedRequest(t)'
    BY <2>3, JustifiedStays
  <2>4. PICK t : t = request[q]
    OBVIOUS
  <2>5. JustifiedRequest(t)'
    BY <2>2, <2>3, <2>4
  <2> QED BY <2>1, <2>4, <2>5
<1> QED BY <1>1, <1>2

\* A step that writes no booking, creates no contract and no invoice, and rents
\* no listing keeps the rows right.
LEMMA RowsStay ==
    ASSUME TypeOK, Rows, FactsStay, UNCHANGED <<status, escrow, ref, contracts>>,
           \A l \in Listing : listing'[l] = "RENTED" => listing[l] = "RENTED",
           \A i \in Invoice : invoice'[i] # "none" => invoice[i] # "none"
    PROVE  Rows'
<1> USE ReasonsStay
<1>1. ProductsStaySeparate'
  BY DEF Rows, ProductsStaySeparate
<1>2. FundsHeldOnlyIfPaid'
  BY DEF Rows, FundsHeldOnlyIfPaid
<1>3. LeaseApprovedAndPaid'
  BY DEF Rows, LeaseApprovedAndPaid, TypeOK
<1>4. NoEarlyPayout'
  BY DEF Rows, NoEarlyPayout, FactsStay
<1>5. BilledAfterApproval'
  BY BookingAssumption DEF Rows, BilledAfterApproval
<1> QED BY <1>1, <1>2, <1>3, <1>4, <1>5 DEF Rows

-----------------------------------------------------------------------------
(***************************************************************************)
(* A handler starts with a justified request: its guard gives the reason.  *)
(***************************************************************************)

LEMMA StaysByStatus ==
    ASSUME Rows, NEW b \in Booking
    PROVE  /\ status[b] \in {"PENDING", "CONFIRMED", "COMPLETED"} => Nightly(b)
           /\ escrow[b] = "DISPUTED" => Nightly(b)
BY DEF Rows, ProductsStaySeparate, LeaseStatus

\* A cancellation writes back an escrow it may write at any later time.
LEMMA CancelJustified ==
    ASSUME TypeOK, Rows, NEW b \in Booking, NEW op \in {"tenantCancel", "ownerCancel"}
    PROVE  JustifiedRequest(Update(op, b, "CANCELLED", EscrowAfterCancel(b, op), NoInvoice))
<1> DEFINE e == EscrowAfterCancel(b, op)
<1>1. e \in {"HELD", "DISPUTED"} => e = escrow[b]
  BY DEF EscrowAfterCancel
<1>2. e \in {"HELD", "DISPUTED"} => Paid(b)
  BY <1>1 DEF Rows, FundsHeldOnlyIfPaid
<1>3. e = "DISPUTED" => Nightly(b)
  BY <1>1, StaysByStatus
<1>4. e = "RELEASED" => PayoutAllowed(b, op)
  <2>1. CASE op = "tenantCancel"
    BY <2>1 DEF PayoutAllowed
  <2>2. CASE op = "ownerCancel"
    BY <2>2 DEF EscrowAfterCancel, PayoutAllowed, Rows, NoEarlyPayout
  <2> QED BY <2>1, <2>2
<1> QED BY <1>2, <1>3, <1>4
        DEF Update, JustifiedRequest, JustifiedUpdate, Keep, NightlyStatus, LeaseStatus

\* Paying, verifying and hearing from PayDunya concern approved bookings only.
LEMMA QueryJustified ==
    ASSUME NEW op, NEW b, NEW i, i # NoInvoice, InvoiceOf[i] = b, Approved(b)
    PROVE  JustifiedRequest(Query(op, b, i))
BY DEF Query, JustifiedRequest

LEMMA HandlerJustified ==
    ASSUME TypeOK, Rows, NEW p \in Proc, NEW b \in Booking, Handler(p, b)
    PROVE  \E r : Enter(p, r) /\ JustifiedRequest(r)
<1> DEFINE Goal == \E r : Enter(p, r) /\ JustifiedRequest(r)
<1> USE DEF Update, JustifiedRequest, JustifiedUpdate, Keep
<1>1. CASE Confirm(p, b)
  BY <1>1, StaysByStatus DEF Confirm, NightlyStatus
<1>2. CASE ApproveMonthlyRequest(p, b)
  BY <1>2 DEF ApproveMonthlyRequest, LeaseStatus
<1>3. CASE RejectMonthlyRequest(p, b)
  BY <1>3 DEF RejectMonthlyRequest, LeaseStatus
<1>4. CASE TerminateLease(p, b)
  BY <1>4 DEF TerminateLease, LeaseStatus, Rows, LeaseApprovedAndPaid
<1>5. ASSUME NEW op \in {"tenantCancel", "ownerCancel"}, Cancel(p, b, op)
      PROVE  Goal
  BY <1>5, CancelJustified DEF Cancel
<1>6. CASE Complete(p, b)
  BY <1>6, StaysByStatus DEF Complete, NightlyStatus, PayoutAllowed
<1>7. CASE ReportDispute(p, b)
  BY <1>7, StaysByStatus DEF ReportDispute, Rows, FundsHeldOnlyIfPaid
<1>8. CASE ResolveDispute(p, b)
  BY <1>8, StaysByStatus DEF ResolveDispute, NightlyStatus, PayoutAllowed
<1>9. CASE Release(p, b)
  BY <1>9 DEF Release, PayoutAllowed
<1>10. CASE Refund(p, b)
  BY <1>10 DEF Refund
<1>11. VerifyBooking(p, b) => Goal
  <2>1. ref[b] # NoInvoice => InvoiceOf[ref[b]] = b /\ Approved(b)
    BY DEF Rows, BilledAfterApproval
  <2> QED BY <2>1, QueryJustified DEF VerifyBooking
<1>12. CASE Initiate(p, b)
  <2>1. Approved(b)
    BY <1>12 DEF Initiate, Rows, BilledAfterApproval, Approved
  <2>2. JustifiedRequest([Query("initiate", b, NoInvoice) EXCEPT !.stage = "bill"])
    BY <2>1 DEF Query
  <2>3. VerifyBooking(p, b) \/ Enter(p, [Query("initiate", b, NoInvoice) EXCEPT !.stage = "bill"])
    BY <1>12 DEF Initiate
  <2> QED BY <2>2, <2>3, <1>11
<1> QED BY <1>1, <1>2, <1>3, <1>4, <1>5, <1>6, <1>7, <1>8, <1>9, <1>10, <1>11, <1>12
        DEF Handler

LEMMA WebhookJustified ==
    ASSUME Rows, NEW p \in Proc, NEW i \in Invoice, HandlePaydunyaWebhook(p, i)
    PROVE  \E r : Enter(p, r) /\ JustifiedRequest(r)
<1>1. i # NoInvoice /\ Approved(InvoiceOf[i])
  BY BookingAssumption DEF HandlePaydunyaWebhook, Rows, BilledAfterApproval
<1> QED BY <1>1, QueryJustified DEF HandlePaydunyaWebhook

-----------------------------------------------------------------------------
(***************************************************************************)
(* Each step keeps the invariant.                                          *)
(***************************************************************************)

\* The first step of a handler touches no row.
LEMMA EnterStep ==
    ASSUME TypeOK, Rows, RequestsJustified, FactsStay, TypeOK', NEW p \in Proc,
           NEW r, Enter(p, r), JustifiedRequest(r)
    PROVE  Rows' /\ RequestsJustified'
<1>1. Rows'
  BY RowsStay DEF Enter
<1>2. request' = [request EXCEPT ![p] = r]
  BY DEF Enter
<1>3. r \in Request \cup {Idle}
  BY <1>2 DEF TypeOK
<1>4. r # Idle => JustifiedRequest(r)'
  BY <1>3, JustifiedStays
<1> QED BY <1>1, <1>2, <1>4, OtherRequests

\* A new invoice belongs to an approved booking, and so does the token it leaves
\* to be stored.
LEMMA CreateInvoiceStep ==
    ASSUME TypeOK, Rows, RequestsJustified, FactsStay, NEW p \in Proc, CreateInvoice(p)
    PROVE  Rows' /\ RequestsJustified'
<1>1. request[p] \in Request /\ request[p] # Idle
  BY StageIsRequest DEF CreateInvoice
<1>2. PICK r \in Request : r = request[p]
  BY <1>1
<1>3. PICK i \in Invoice :
         /\ InvoiceOf[i] = r.b
         /\ invoice[i] = "none"
         /\ invoice' = [invoice EXCEPT ![i] = "created"]
         /\ request' = [request EXCEPT ![p] = Update("initiate", r.b, Keep, Keep, i)]
  BY <1>2 DEF CreateInvoice, Continue
<1>4. UNCHANGED <<bookingType, status, escrow, ref, listing, contracts, phase, past>>
  BY DEF CreateInvoice
<1>5. r.b \in Booking /\ Approved(r.b)
  BY <1>1, <1>2 DEF RequestsJustified, JustifiedRequest, CreateInvoice, Request
<1>6. Approved(r.b)'
  BY <1>5, ReasonsStay
<1>7. ProductsStaySeparate'
  BY <1>4, ReasonsStay DEF Rows, ProductsStaySeparate
<1>8. FundsHeldOnlyIfPaid'
  BY <1>4, ReasonsStay DEF Rows, FundsHeldOnlyIfPaid
<1>9. LeaseApprovedAndPaid'
  BY <1>4, ReasonsStay DEF Rows, LeaseApprovedAndPaid, TypeOK
<1>10. NoEarlyPayout'
  BY <1>4, ReasonsStay DEF Rows, NoEarlyPayout, FactsStay
<1>11. BilledAfterApproval'
  BY <1>3, <1>4, <1>6, ReasonsStay, BookingAssumption DEF Rows, BilledAfterApproval, TypeOK
<1>12. JustifiedRequest(Update("initiate", r.b, Keep, Keep, i))'
  BY <1>3, <1>6, BookingAssumption
     DEF JustifiedRequest, JustifiedUpdate, Update, Keep
<1>13. RequestsJustified'
  BY <1>3, <1>12, OtherRequests
<1> QED BY <1>7, <1>8, <1>9, <1>10, <1>11, <1>13 DEF Rows

\* The answer that an invoice is completed is the proof of payment that the write
\* of markBookingPaid rests on.
LEMMA AnswerStep ==
    ASSUME TypeOK, Rows, RequestsJustified, FactsStay, NEW p \in Proc, ConfirmAnswer(p)
    PROVE  Rows' /\ RequestsJustified'
<1>1. request[p] \in Request /\ request[p] # Idle
  BY StageIsRequest DEF ConfirmAnswer
<1>2. PICK r \in Request : r = request[p]
  BY <1>1
<1>3. /\ r.b \in Booking /\ r.inv \in Invoice
      /\ InvoiceOf[r.inv] = r.b /\ Approved(r.b)
  BY <1>1, <1>2 DEF ConfirmAnswer, RequestsJustified, JustifiedRequest, Request
<1>4. UNCHANGED <<bookingType, status, escrow, ref, listing, contracts, invoice, phase, past>>
  BY DEF ConfirmAnswer
<1>5. Rows'
  BY <1>4, RowsStay
<1>6. ASSUME request' = [request EXCEPT ![p] = Idle]
      PROVE  RequestsJustified'
  BY <1>6, OtherRequests
<1>7. ASSUME NEW i \in {r.inv, NoInvoice}, invoice[r.inv] = "completed",
             request' = [request EXCEPT ![p] = MarkBookingPaid(r.b, i)]
      PROVE  RequestsJustified'
  <2>1. Paid(r.b)
    BY <1>3, <1>7 DEF Paid
  <2>2. ~Nightly(r.b) => EarnedLease(r.b)
    BY <1>3, <2>1 DEF EarnedLease, Approved
  <2>3. Paid(r.b)' /\ Approved(r.b)' /\ (Nightly(r.b)' <=> Nightly(r.b))
    BY <1>3, <2>1, ReasonsStay
  <2>4. ~Nightly(r.b) => EarnedLease(r.b)'
    BY <1>3, <2>2, ReasonsStay
  <2>5. PICK s : s = MarkBookingPaid(r.b, i)
    OBVIOUS
  <2>6. /\ s.stage = "update" /\ s.op = "paid" /\ s.b = r.b /\ s.escrow = "HELD"
        /\ s.inv = i /\ s.status = IF Nightly(r.b) THEN "CONFIRMED" ELSE "ACTIVE"
    BY <2>5 DEF MarkBookingPaid, Update
  <2>7. JustifiedRequest(s)'
    BY <1>3, <2>3, <2>4, <2>6
       DEF JustifiedRequest, JustifiedUpdate, Keep, NightlyStatus, LeaseStatus
  <2> QED BY <1>7, <2>5, <2>7, OtherRequests
<1>8. ASSUME request' = [request EXCEPT
               ![p] = Update("paymentFailed", r.b, "CANCELLED", "REFUNDED", NoInvoice)]
      PROVE  RequestsJustified'
  <2>1. JustifiedRequest(Update("paymentFailed", r.b, "CANCELLED", "REFUNDED", NoInvoice))'
    BY DEF Update, JustifiedRequest, JustifiedUpdate, Keep, NightlyStatus, LeaseStatus
  <2> QED BY <1>8, <2>1, OtherRequests
<1>9. RequestsJustified'
  BY <1>2, <1>6, <1>7, <1>8 DEF ConfirmAnswer, Continue
<1> QED BY <1>5, <1>9

\* The UPDATE itself, whatever the row has become since the handler read it.
LEMMA WriteStep ==
    ASSUME TypeOK, Rows, RequestsJustified, FactsStay, NEW p \in Proc, Write(p)
    PROVE  Rows' /\ RequestsJustified'
<1>1. request[p] \in Request /\ request[p] # Idle
  BY StageIsRequest DEF Write
<1>2. PICK r \in Request : r = request[p]
  BY <1>1
<1>3. r.b \in Booking /\ JustifiedUpdate(r)
  BY <1>1, <1>2 DEF Write, RequestsJustified, JustifiedRequest, Request
<1>4. \A b \in Booking : b # r.b =>
        status'[b] = status[b] /\ escrow'[b] = escrow[b] /\ ref'[b] = ref[b] /\ past'[b] = past[b]
  BY <1>2 DEF Write, TypeOK
<1>5. /\ status'[r.b] = IF r.status = Keep THEN status[r.b] ELSE r.status
      /\ escrow'[r.b] = IF r.escrow = Keep THEN escrow[r.b] ELSE r.escrow
      /\ ref'[r.b] = IF r.inv = NoInvoice THEN ref[r.b] ELSE r.inv
      /\ past'[r.b] = past[r.b] \cup ({r.op} \cap Recorded)
  BY <1>2, <1>3 DEF Write, TypeOK, Column
<1>6. contracts' = contracts /\ bookingType' = bookingType /\ phase' = phase
  BY DEF Write
<1>7. \A l \in Listing : listing'[l] = "RENTED" => listing[l] = "RENTED"
  BY DEF Write, TypeOK
<1>8. \A i \in Invoice : invoice'[i] # "none" => invoice[i] # "none"
  BY DEF Write, TypeOK
<1>9. ProductsStaySeparate'
  <2>1. ASSUME NEW b \in Booking
        PROVE  IF Nightly(b) THEN status'[b] \in NightlyStatus
               ELSE status'[b] \in LeaseStatus /\ escrow'[b] # "DISPUTED"
    BY <1>3, <1>4, <1>5 DEF Rows, ProductsStaySeparate, JustifiedUpdate, Keep
  <2> QED BY <2>1, ReasonsStay DEF ProductsStaySeparate
<1>10. FundsHeldOnlyIfPaid'
  <2>1. ASSUME NEW b \in Booking, escrow'[b] \in {"HELD", "DISPUTED"}
        PROVE  Paid(b)
    BY <1>3, <1>4, <1>5, <2>1 DEF Rows, FundsHeldOnlyIfPaid, JustifiedUpdate
  <2> QED BY <2>1, ReasonsStay DEF FundsHeldOnlyIfPaid
<1>11. LeaseApprovedAndPaid'
  <2>1. ASSUME NEW b \in Booking, status'[b] \in {"ACTIVE", "TERMINATED"}
        PROVE  EarnedLease(b)
    BY <1>3, <1>4, <1>5, <2>1 DEF Rows, LeaseApprovedAndPaid, JustifiedUpdate
  <2> QED BY <1>6, <1>7, <2>1, ReasonsStay DEF Rows, LeaseApprovedAndPaid, TypeOK
<1>12. NoEarlyPayout'
  <2> SUFFICES ASSUME NEW b \in Booking, ~Over(b)'
               PROVE  /\ escrow'[b] = "RELEASED" =>
                           past'[b] \cap {"tenantCancel", "release", "resolveRelease"} # {}
                      /\ status'[b] = "COMPLETED" => "resolveRelease" \in past'[b]
    BY DEF NoEarlyPayout
  <2>1. ~Over(b)
    BY DEF FactsStay
  <2>2. past[b] \subseteq past'[b]
    BY DEF FactsStay
  <2>3. CASE b # r.b
    BY <1>4, <2>1, <2>3 DEF Rows, NoEarlyPayout
  <2>4. CASE b = r.b
    <3>1. r.escrow = "RELEASED" =>
            past'[b] \cap {"tenantCancel", "release", "resolveRelease"} # {}
      BY <1>3, <1>5, <2>1, <2>4 DEF JustifiedUpdate, PayoutAllowed, Recorded
    <3>2. r.status = "COMPLETED" => "resolveRelease" \in past'[b]
      BY <1>3, <1>5, <2>1, <2>4 DEF JustifiedUpdate, Recorded
    <3> QED BY <1>5, <2>1, <2>2, <2>4, <3>1, <3>2 DEF Rows, NoEarlyPayout
  <2> QED BY <2>3, <2>4
<1>13. BilledAfterApproval'
  <2>1. ASSUME NEW b \in Booking, status'[b] = "APPROVED"
        PROVE  Approved(b)'
    <3>1. CASE b = r.b /\ r.status # Keep
      BY <1>3, <1>5, <2>1, <3>1 DEF JustifiedUpdate, Approved, Recorded
    <3>2. CASE ~(b = r.b /\ r.status # Keep)
      BY <1>4, <1>5, <2>1, <3>2, ReasonsStay DEF Rows, BilledAfterApproval
    <3> QED BY <3>1, <3>2
  <2>2. ASSUME NEW b \in Booking, ref'[b] # NoInvoice
        PROVE  InvoiceOf[ref'[b]] = b /\ Approved(b)
    BY <1>3, <1>4, <1>5, <2>2 DEF Rows, BilledAfterApproval, JustifiedUpdate
  <2>3. \A i \in Invoice : invoice'[i] # "none" => Approved(InvoiceOf[i])
    BY <1>8 DEF Rows, BilledAfterApproval
  <2> QED BY <2>1, <2>2, <2>3, ReasonsStay, BookingAssumption DEF BilledAfterApproval
<1>14. RequestsJustified'
  <2>1. ASSUME request' = [request EXCEPT ![p] = Idle]
        PROVE  RequestsJustified'
    BY <2>1, OtherRequests
  <2>2. ASSUME r.op = "paid", ~Nightly(r.b),
               request' = [request EXCEPT ![p] = [r EXCEPT !.stage = "rent"]]
        PROVE  RequestsJustified'
    <3>1. EarnedLease(r.b)'
      BY <1>3, <2>2, ReasonsStay DEF JustifiedUpdate
    <3>2. PICK s : s = [r EXCEPT !.stage = "rent"]
      OBVIOUS
    <3>3. s.stage = "rent" /\ s.b = r.b
      BY <3>2 DEF Request
    <3>4. JustifiedRequest(s)'
      BY <3>1, <3>3 DEF JustifiedRequest
    <3> QED BY <2>2, <3>2, <3>4, OtherRequests
  <2> QED BY <1>2, <2>1, <2>2 DEF Write, Continue
<1> QED BY <1>9, <1>10, <1>11, <1>12, <1>13, <1>14 DEF Rows

\* The two writes that follow the payment of a lease.
LEMMA LeaseStep ==
    ASSUME TypeOK, Rows, RequestsJustified, FactsStay, NEW p \in Proc,
           RentListing(p) \/ GenerateForBooking(p)
    PROVE  Rows' /\ RequestsJustified'
<1>1. request[p] \in Request /\ request[p] # Idle
  BY StageIsRequest DEF RentListing, GenerateForBooking
<1>2. PICK r \in Request : r = request[p]
  BY <1>1
<1>3. r.b \in Booking /\ EarnedLease(r.b)
  BY <1>1, <1>2 DEF RequestsJustified, JustifiedRequest, Request, RentListing, GenerateForBooking
<1>4. UNCHANGED <<bookingType, status, escrow, ref, invoice, phase, past>>
  BY DEF RentListing, GenerateForBooking
<1>5. contracts' \subseteq contracts \cup {r.b}
  BY <1>2 DEF RentListing, GenerateForBooking
<1>6. \A l \in Listing : listing'[l] = "RENTED" => listing[l] = "RENTED" \/ l = ListingOf[r.b]
  BY <1>2 DEF RentListing, GenerateForBooking, TypeOK
<1>7. EarnedLease(r.b)'
  BY <1>3, ReasonsStay
<1>8. ProductsStaySeparate'
  BY <1>4, ReasonsStay DEF Rows, ProductsStaySeparate
<1>9. FundsHeldOnlyIfPaid'
  BY <1>4, ReasonsStay DEF Rows, FundsHeldOnlyIfPaid
<1>10. LeaseApprovedAndPaid'
  <2>1. \A b \in Booking : EarnedLease(b) => EarnedLease(b)'
    BY ReasonsStay
  <2>2. \A b \in contracts' : EarnedLease(b)'
    BY <1>5, <1>7, <2>1 DEF Rows, LeaseApprovedAndPaid, TypeOK
  <2>3. ASSUME NEW l \in Listing, listing'[l] = "RENTED"
        PROVE  \E b \in Booking : ListingOf[b] = l /\ EarnedLease(b)'
    BY <1>3, <1>6, <1>7, <2>1, <2>3 DEF Rows, LeaseApprovedAndPaid
  <2> QED BY <1>4, <2>1, <2>2, <2>3 DEF Rows, LeaseApprovedAndPaid
<1>11. NoEarlyPayout'
  BY <1>4, ReasonsStay DEF Rows, NoEarlyPayout, FactsStay
<1>12. BilledAfterApproval'
  BY <1>4, ReasonsStay, BookingAssumption DEF Rows, BilledAfterApproval
<1>13. RequestsJustified'
  <2>1. ASSUME request' = [request EXCEPT ![p] = Idle]
        PROVE  RequestsJustified'
    BY <2>1, OtherRequests
  <2>2. ASSUME request' = [request EXCEPT ![p] = [r EXCEPT !.stage = "contract"]]
        PROVE  RequestsJustified'
    <3>1. PICK s : s = [r EXCEPT !.stage = "contract"]
      OBVIOUS
    <3>2. s.stage = "contract" /\ s.b = r.b
      BY <3>1 DEF Request
    <3>3. JustifiedRequest(s)'
      BY <1>7, <3>2 DEF JustifiedRequest
    <3> QED BY <2>2, <3>1, <3>3, OtherRequests
  <2> QED BY <1>2, <2>1, <2>2 DEF RentListing, GenerateForBooking, Continue
<1> QED BY <1>8, <1>9, <1>10, <1>11, <1>12, <1>13 DEF Rows

\* The environment and aborted requests only remove or confirm.
LEMMA EnvironmentStep ==
    ASSUME TypeOK, Rows, RequestsJustified, FactsStay,
           \/ \E p \in Proc : Abort(p)
           \/ \E i \in Invoice : PayInvoice(i) \/ FailInvoice(i)
           \/ \E l \in Listing : MoveListing(l)
           \/ \E b \in Booking : TimePasses(b)
           \/ UNCHANGED vars
    PROVE  Rows' /\ RequestsJustified'
<1>1. CASE \E p \in Proc : Abort(p)
  <2>1. PICK p \in Proc : Abort(p)
    BY <1>1
  <2>2. Rows'
    BY <2>1, RowsStay DEF Abort
  <2>3. RequestsJustified'
    BY <2>1, OtherRequests DEF Abort, Continue
  <2> QED BY <2>2, <2>3
<1>2. CASE ~\E p \in Proc : Abort(p)
  <2>1. request' = request
    BY <1>2 DEF PayInvoice, FailInvoice, MoveListing, TimePasses, vars
  <2>2. UNCHANGED <<status, escrow, ref, contracts>>
    BY <1>2 DEF PayInvoice, FailInvoice, MoveListing, TimePasses, vars
  <2>3. \A l \in Listing : listing'[l] = "RENTED" => listing[l] = "RENTED"
    BY <1>2 DEF PayInvoice, FailInvoice, MoveListing, TimePasses, vars, TypeOK
  <2>4. \A i \in Invoice : invoice'[i] # "none" => invoice[i] # "none"
    BY <1>2 DEF PayInvoice, FailInvoice, MoveListing, TimePasses, vars, TypeOK
  <2>5. Rows'
    BY <2>2, <2>3, <2>4, RowsStay
  <2>6. ASSUME NEW q \in Proc
        PROVE  request' = [request EXCEPT ![q] = request[q]]
    BY <2>1 DEF TypeOK
  <2>7. ASSUME NEW q \in Proc
        PROVE  (request[q] # Idle => JustifiedRequest(request[q]))'
    <3>1. PICK r : r = request[q]
      OBVIOUS
    <3>2. r # Idle => JustifiedRequest(r)'
      BY <3>1, BusyIsRequest, JustifiedStays DEF RequestsJustified
    <3>3. RequestsJustified'
      BY <2>6, <3>1, <3>2, OtherRequests
    <3> QED BY <3>3 DEF RequestsJustified
  <2> QED BY <2>5, <2>7 DEF RequestsJustified
<1> QED BY <1>1, <1>2

\* The invariant of the whole system.
THEOREM Invariance == Spec => []IInv
<1>1. Init => IInv
  <2> SUFFICES ASSUME Init PROVE IInv
    OBVIOUS
  <2>1. TypeOK
    BY DEF Init, TypeOK, BookingStatus, NightlyStatus, LeaseStatus, EscrowStatus,
           ListingStatus, InvoiceState
  <2>2. ProductsStaySeparate /\ FundsHeldOnlyIfPaid /\ LeaseApprovedAndPaid /\ NoEarlyPayout
    BY DEF Init, ProductsStaySeparate, FundsHeldOnlyIfPaid, LeaseApprovedAndPaid,
           NoEarlyPayout, NightlyStatus, LeaseStatus
  <2>3. BilledAfterApproval /\ RequestsJustified
    BY DEF Init, BilledAfterApproval, RequestsJustified
  <2> QED BY <2>1, <2>2, <2>3 DEF IInv
<1>2. IInv /\ [Next]_vars => IInv'
  <2> SUFFICES ASSUME TypeOK, Rows, RequestsJustified, [Next]_vars
               PROVE  TypeOK' /\ Rows' /\ RequestsJustified'
    BY DEF IInv, Rows
  <2>1. TypeOK' /\ FactsStay
    BY TypeStep, FactsOnlyGrow
  <2>2. ASSUME NEW p \in Proc, NEW b \in Booking, Handler(p, b)
        PROVE  Rows' /\ RequestsJustified'
    BY <2>1, <2>2, HandlerJustified, EnterStep
  <2>3. ASSUME NEW p \in Proc, NEW i \in Invoice, HandlePaydunyaWebhook(p, i)
        PROVE  Rows' /\ RequestsJustified'
    BY <2>1, <2>3, WebhookJustified, EnterStep
  <2>4. ASSUME NEW p \in Proc, Resume(p)
        PROVE  Rows' /\ RequestsJustified'
    BY <2>1, <2>4, CreateInvoiceStep, AnswerStep, WriteStep, LeaseStep DEF Resume
  <2> QED BY <2>1, <2>2, <2>3, <2>4, EnvironmentStep DEF Next
<1> QED BY <1>1, <1>2, PTL DEF Spec

\* No row takes a status of the other product.
THEOREM ProductsNeverMix == Spec => []ProductsStaySeparate
BY Invariance, PTL DEF IInv

\* Funds are held or frozen only when PayDunya reports them paid.
THEOREM HeldFundsWerePaid == Spec => []FundsHeldOnlyIfPaid
BY Invariance, PTL DEF IInv

\* A lease runs only when approved and paid.
THEOREM LeasesAreEarned == Spec => []LeaseApprovedAndPaid
BY Invariance, PTL DEF IInv

\* Before the end of the stay only the tenant's late cancellation or an admin pays
\* the landlord.
THEOREM PayoutsAreNotEarly == Spec => []NoEarlyPayout
BY Invariance, PTL DEF IInv

\* The write of every request in flight is justified whenever it lands.
THEOREM PendingWritesAreJustified == Spec => []RequestsJustified
BY Invariance, PTL DEF IInv

-----------------------------------------------------------------------------
(***************************************************************************)
(* Bookings whose requests do not overlap: BookingEscrow with one process  *)
(* implements BookingLifecycle, a dispute freezes the escrow, and no       *)
(* request the landlord has not accepted can be paid.                      *)
(***************************************************************************)

\* A check stays true as long as the row does not change: time only moves the stay
\* forward, and a started stay stays started.
LEMMA FreshStays ==
    ASSUME NEW r, Fresh(r), UNCHANGED <<bookingType, status, escrow>>,
           Started(r.b) => Started(r.b)'
    PROVE  Fresh(r)'
BY DEF Fresh, FreshUpdate, Unsettled, Nightly

\* A handler's guard is what Fresh says of the request it starts.
LEMMA HandlerFresh ==
    ASSUME TypeOK, Rows, SerialInv, NEW p \in Proc, NEW b \in Booking, Handler(p, b)
    PROVE  \E r : Enter(p, r) /\ Fresh(r)
<1> DEFINE Goal == \E r : Enter(p, r) /\ Fresh(r)
<1> USE DEF Update, Fresh, FreshUpdate
<1>1. CASE Confirm(p, b)
  BY <1>1 DEF Confirm
<1>2. CASE ApproveMonthlyRequest(p, b)
  BY <1>2 DEF ApproveMonthlyRequest
<1>3. CASE RejectMonthlyRequest(p, b)
  BY <1>3 DEF RejectMonthlyRequest
<1>4. CASE TerminateLease(p, b)
  BY <1>4 DEF TerminateLease
<1>5. ASSUME NEW op \in {"tenantCancel", "ownerCancel"}, Cancel(p, b, op)
      PROVE  Goal
  <2>1. escrow[b] # "DISPUTED"
    BY <1>5 DEF Cancel, SerialInv
  <2>2. Fresh(Update(op, b, "CANCELLED", EscrowAfterCancel(b, op), NoInvoice))
    BY <1>5, <2>1 DEF Cancel, EscrowAfterCancel
  <2> QED BY <1>5, <2>2 DEF Cancel
<1>6. CASE Complete(p, b)
  BY <1>6 DEF Complete
<1>7. CASE ReportDispute(p, b)
  BY <1>7 DEF ReportDispute, Started
<1>8. CASE ResolveDispute(p, b)
  BY <1>8 DEF ResolveDispute
<1>9. CASE Release(p, b)
  BY <1>9 DEF Release
<1>10. CASE Refund(p, b)
  BY <1>10 DEF Refund
<1>11. CASE VerifyBooking(p, b)
  <2>1. Unsettled(b)
    BY <1>11 DEF VerifyBooking, Unsettled, SerialInv, Rows, BilledAfterApproval, Approved,
                 ProductsStaySeparate, NightlyStatus
  <2> QED BY <1>11, <2>1 DEF VerifyBooking, Query
<1>12. CASE Initiate(p, b)
  <2>1. CASE VerifyBooking(p, b)
    BY <2>1, <1>11
  <2>2. CASE Enter(p, [Query("initiate", b, NoInvoice) EXCEPT !.stage = "bill"])
    BY <2>2 DEF Query
  <2> QED BY <1>12, <2>1, <2>2 DEF Initiate
<1> HIDE DEF Update, Fresh, FreshUpdate
<1> QED BY <1>1, <1>2, <1>3, <1>4, <1>5, <1>6, <1>7, <1>8, <1>9, <1>10, <1>11, <1>12
        DEF Handler

\* A notification is only looked into for a booking that may still be paid.
LEMMA WebhookFresh ==
    ASSUME TypeOK, Rows, SerialInv, NEW p \in Proc, NEW i \in Invoice,
           HandlePaydunyaWebhook(p, i)
    PROVE  \E r : Enter(p, r) /\ Fresh(r)
<1>1. InvoiceOf[i] \in Booking
  BY BookingAssumption
<1>2. Unsettled(InvoiceOf[i])
  BY <1>1 DEF HandlePaydunyaWebhook, AlreadyPaidStatuses, Unsettled, SerialInv, Rows,
              BilledAfterApproval, Approved, ProductsStaySeparate, NightlyStatus
<1> QED BY <1>2 DEF HandlePaydunyaWebhook, Query, Fresh

\* The UPDATE of a fresh request is one move of the lifecycle, or changes nothing the
\* lifecycle sees.
LEMMA WriteIsMove ==
    ASSUME TypeOK, Rows, SerialInv, NEW p \in Proc, Write(p)
    PROVE  /\ Lifecycle!Life(request[p].b) \/ UNCHANGED Lifecycle!vars
           /\ request[p].b \in Booking
<1> DEFINE r == request[p]
           b == r.b
<1>1. r \in Request /\ r # Idle /\ r.stage = "update" /\ b \in Booking
  BY StageIsRequest DEF Write, Request
<1>2. /\ status' = [status EXCEPT ![b] = Column(r.status, @)]
      /\ escrow' = [escrow EXCEPT ![b] = Column(r.escrow, @)]
      /\ UNCHANGED bookingType
  BY DEF Write
<1>3. FreshUpdate(r)
  BY <1>1 DEF SerialInv, Fresh
<1>4. \A s \in BookingStatus, e \in EscrowStatus :
        Column(r.status, status[b]) = s /\ Column(r.escrow, escrow[b]) = e
          => Lifecycle!Move(b, s, e)
  BY <1>2 DEF Lifecycle!Move
<1>5. /\ Column(Keep, status[b]) = status[b] /\ Column(Keep, escrow[b]) = escrow[b]
      /\ \A s \in BookingStatus : Column(s, status[b]) = s
      /\ \A e \in EscrowStatus : Column(e, escrow[b]) = e
      /\ status[b] \in BookingStatus /\ escrow[b] \in EscrowStatus
  BY <1>1 DEF Column, Keep, TypeOK, BookingStatus, NightlyStatus, LeaseStatus, EscrowStatus
<1>6. ProductsStaySeparate
  BY DEF Rows
<1> USE <1>1, <1>3, <1>4, <1>5 DEF FreshUpdate, BookingStatus, NightlyStatus, LeaseStatus,
        EscrowStatus
<1>10. CASE r.op \in {"confirm", "approve"}
  BY <1>10 DEF Lifecycle!Life, Lifecycle!Agree
<1>11. CASE r.op = "reject"
  BY <1>11 DEF Lifecycle!Life, Lifecycle!Refuse
<1>12. CASE r.op = "terminate"
  BY <1>12, <1>6 DEF Lifecycle!Life, Lifecycle!Close, SerialInv
<1>13. CASE r.op \in {"tenantCancel", "ownerCancel"}
  BY <1>13 DEF Lifecycle!Life, Lifecycle!Withdraw
<1>14. CASE r.op = "complete"
  BY <1>14 DEF Lifecycle!Life, Lifecycle!Close
<1>15. CASE r.op = "dispute"
  BY <1>15 DEF Lifecycle!Life, Lifecycle!Dispute
<1>16. CASE r.op \in {"resolveRelease", "resolveRefund"}
  BY <1>16 DEF Lifecycle!Life, Lifecycle!Decide
<1>17. CASE r.op \in {"release", "refund"}
  BY <1>17 DEF Lifecycle!Life, Lifecycle!Settle
<1>18. CASE r.op = "initiate"
  BY <1>18, <1>2 DEF Lifecycle!vars, TypeOK
<1>19. CASE r.op = "paid"
  BY <1>19, <1>6 DEF Lifecycle!Life, Lifecycle!Pay, Lifecycle!Nightly, Nightly, Unsettled,
                     ProductsStaySeparate
<1>20. CASE r.op = "paymentFailed"
  BY <1>20, <1>6 DEF Lifecycle!Life, Lifecycle!PaymentRefused, Unsettled, ProductsStaySeparate
<1> QED BY <1>10, <1>11, <1>12, <1>13, <1>14, <1>15, <1>16, <1>17, <1>18, <1>19, <1>20

\* A request that starts, or goes on, with a fresh r keeps the invariant while the
\* rows stay as they are.
LEMMA RequestKeepsSerial ==
    ASSUME TypeOK, SerialInv, NEW p \in Proc, Proc = {p}, NEW r, r # Idle => Fresh(r),
           request' = [request EXCEPT ![p] = r],
           UNCHANGED <<bookingType, status, escrow, phase, past>>
    PROVE  SerialInv'
<1>1. ASSUME r # Idle
      PROVE  Fresh(r)'
  BY <1>1, FreshStays DEF Started
<1>2. request'[p] = r
  BY DEF TypeOK
<1>3. (\A q \in Proc : request[q] # Idle => Fresh(request[q]))'
  <2> SUFFICES ASSUME NEW q \in Proc, request'[q] # Idle
               PROVE  Fresh(request[q])'
    OBVIOUS
  <2>1. request'[q] = r
    BY <1>2
  <2> QED BY <1>1, <2>1 DEF Fresh, FreshUpdate, Unsettled, Nightly, Started
<1> QED BY <1>3 DEF SerialInv, Started

\* Steps of the environment leave rows and requests alone; time only goes on.
LEMMA OthersKeepSerial ==
    ASSUME SerialInv,
           UNCHANGED <<bookingType, status, escrow, request, past>>,
           \A b : Started(b) => Started(b)'
    PROVE  SerialInv'
<1>1. ASSUME NEW q \in Proc, request[q] # Idle
      PROVE  Fresh(request[q])'
  BY <1>1 DEF SerialInv, Fresh, FreshUpdate, Unsettled, Nightly
<1> QED BY <1>1 DEF SerialInv

\* After the UPDATE the only request is idle, or has the listing left to write.
LEMMA WriteKeepsSerial ==
    ASSUME TypeOK, Rows, SerialInv, NEW p \in Proc, Proc = {p}, Write(p)
    PROVE  SerialInv'
<1> DEFINE r == request[p]
           b == r.b
<1>1. r \in Request /\ r # Idle /\ r.stage = "update" /\ b \in Booking
  BY StageIsRequest DEF Write, Request
<1>2. FreshUpdate(r)
  BY <1>1 DEF SerialInv, Fresh
<1>3. /\ status' = [status EXCEPT ![b] = Column(r.status, @)]
      /\ escrow' = [escrow EXCEPT ![b] = Column(r.escrow, @)]
      /\ past' = [past EXCEPT ![b] = @ \cup ({r.op} \cap Recorded)]
      /\ UNCHANGED <<bookingType, phase>>
      /\ request'[p] = IF r.op = "paid" /\ ~Nightly(b) THEN [r EXCEPT !.stage = "rent"] ELSE Idle
  BY DEF Write, Continue, TypeOK
<1>4. /\ status'[b] = Column(r.status, status[b]) /\ escrow'[b] = Column(r.escrow, escrow[b])
      /\ past'[b] = past[b] \cup ({r.op} \cap Recorded)
      /\ \A c \in Booking : c # b =>
            status'[c] = status[c] /\ escrow'[c] = escrow[c] /\ past'[c] = past[c]
  BY <1>1, <1>3 DEF TypeOK
<1>5. status'[b] \in {"REQUESTED", "REJECTED"} => "approve" \notin past'[b]
  BY <1>1, <1>2, <1>4 DEF FreshUpdate, Column, Keep, Recorded, SerialInv, Unsettled
<1>6. escrow'[b] = "DISPUTED" => status'[b] = "CONFIRMED" /\ Started(b)
  BY <1>1, <1>2, <1>4 DEF FreshUpdate, Column, Keep, SerialInv, Unsettled
<1>7. request'[p] # Idle => Fresh(request[p])'
  BY <1>1, <1>3 DEF Fresh, Request
<1> QED BY <1>3, <1>4, <1>5, <1>6, <1>7 DEF SerialInv, Started

\* What happens after the first await, the UPDATE apart.
LEMMA AwaitKeepsSerial ==
    ASSUME TypeOK, Rows, SerialInv, NEW p \in Proc, Proc = {p},
           CreateInvoice(p) \/ ConfirmAnswer(p) \/ RentListing(p) \/ GenerateForBooking(p) \/ Abort(p)
    PROVE  SerialInv' /\ UNCHANGED <<bookingType, status, escrow, phase, past>>
<1>1. CASE CreateInvoice(p)
  <2>1. PICK i \in Invoice :
          request' = [request EXCEPT ![p] = Update("initiate", request[p].b, Keep, Keep, i)]
    BY <1>1 DEF CreateInvoice, Continue
  <2>2. Fresh(Update("initiate", request[p].b, Keep, Keep, i))
    BY DEF Update, Fresh, FreshUpdate
  <2> QED BY <1>1, <2>1, <2>2, RequestKeepsSerial DEF CreateInvoice
<1>2. CASE ConfirmAnswer(p)
  <2> DEFINE r == request[p]
  <2>1. r \in Request /\ r # Idle /\ r.stage = "query"
    BY <1>2, StageIsRequest DEF ConfirmAnswer
  <2>2. Unsettled(r.b)
    BY <2>1 DEF SerialInv, Fresh
  <2>3. /\ \A i : Fresh(MarkBookingPaid(r.b, i))
        /\ Fresh(Update("paymentFailed", r.b, "CANCELLED", "REFUNDED", NoInvoice))
    BY <2>2 DEF MarkBookingPaid, Update, Fresh, FreshUpdate
  <2>4. \E n : request' = [request EXCEPT ![p] = n] /\ (n # Idle => Fresh(n))
    BY <1>2, <2>3 DEF ConfirmAnswer, Continue
  <2> QED BY <1>2, <2>4, RequestKeepsSerial DEF ConfirmAnswer
<1>3. CASE RentListing(p)
  <2>1. request[p] \in Request
    BY <1>3, StageIsRequest DEF RentListing
  <2>2. Fresh([request[p] EXCEPT !.stage = "contract"])
    BY <2>1 DEF Fresh, Request
  <2> QED BY <1>3, <2>2, RequestKeepsSerial DEF RentListing, Continue
<1>4. CASE GenerateForBooking(p)
  BY <1>4, RequestKeepsSerial DEF GenerateForBooking, Continue
<1>5. CASE Abort(p)
  BY <1>5, RequestKeepsSerial DEF Abort, Continue
<1> QED BY <1>1, <1>2, <1>3, <1>4, <1>5

\* Any step with one request at a time.
LEMMA SerialStep ==
    ASSUME IInv, SerialInv, NEW p0, Proc = {p0}, [Next]_vars
    PROVE  SerialInv' /\ [Lifecycle!Next]_(Lifecycle!vars)
<1> USE DEF Lifecycle!vars
<1>0. TypeOK /\ Rows
  BY DEF IInv, Rows
<1>1. ASSUME NEW p \in Proc, \E r : Enter(p, r) /\ Fresh(r)
      PROVE  SerialInv' /\ UNCHANGED <<bookingType, status, escrow>>
  BY <1>0, <1>1, RequestKeepsSerial DEF Enter
<1>2. ASSUME NEW p \in Proc, NEW b \in Booking, Handler(p, b)
      PROVE  SerialInv' /\ UNCHANGED <<bookingType, status, escrow>>
  BY <1>0, <1>1, <1>2, HandlerFresh
<1>3. ASSUME NEW p \in Proc, NEW i \in Invoice, HandlePaydunyaWebhook(p, i)
      PROVE  SerialInv' /\ UNCHANGED <<bookingType, status, escrow>>
  BY <1>0, <1>1, <1>3, WebhookFresh
<1>4. ASSUME NEW p \in Proc, Write(p)
      PROVE  SerialInv' /\ [Lifecycle!Next]_(Lifecycle!vars)
  BY <1>0, <1>4, WriteKeepsSerial, WriteIsMove DEF Lifecycle!Next
<1>5. ASSUME NEW p \in Proc, Resume(p) \/ Abort(p)
      PROVE  SerialInv' /\ [Lifecycle!Next]_(Lifecycle!vars)
  BY <1>0, <1>4, <1>5, AwaitKeepsSerial DEF Resume
<1>6. ASSUME NEW i \in Invoice, PayInvoice(i) \/ FailInvoice(i)
      PROVE  SerialInv' /\ UNCHANGED <<bookingType, status, escrow>>
  BY <1>6, OthersKeepSerial DEF PayInvoice, FailInvoice, Started
<1>7. ASSUME NEW l \in Listing, MoveListing(l)
      PROVE  SerialInv' /\ UNCHANGED <<bookingType, status, escrow>>
  BY <1>7, OthersKeepSerial DEF MoveListing, Started
<1>8. ASSUME NEW b \in Booking, TimePasses(b)
      PROVE  SerialInv' /\ UNCHANGED <<bookingType, status, escrow>>
  <2>1. PICK f \in NextPhases(phase[b]) : phase' = [phase EXCEPT ![b] = f]
    BY <1>8 DEF TimePasses
  <2>2. Started(b) => Started(b)'
    BY <1>0, <2>1 DEF Started, NextPhases, TypeOK
  <2>3. \A c : Started(c) => Started(c)'
    BY <1>0, <2>1, <2>2 DEF Started, TypeOK
  <2> QED BY <1>8, <2>3, OthersKeepSerial DEF TimePasses
<1>9. CASE UNCHANGED vars
  BY <1>9, OthersKeepSerial DEF vars, Started
<1> QED BY <1>2, <1>3, <1>4, <1>5, <1>6, <1>7, <1>8, <1>9 DEF Next

\* With one process, what the handlers checked holds until they write.
THEOREM ChecksHoldUntilWrites ==
    ASSUME NEW p0, Proc = {p0}
    PROVE  Spec => []SerialInv
<1>1. Init => SerialInv
  BY DEF Init, SerialInv
<1>2. IInv /\ SerialInv /\ [Next]_vars => SerialInv'
  BY SerialStep
<1> QED BY <1>1, <1>2, Invariance, PTL DEF Spec

\* With one process, the code implements the abstract lifecycle of a booking: its
\* awaits, its retries and its failures are invisible to the parties.
THEOREM LifecycleImplemented ==
    ASSUME NEW p0, Proc = {p0}
    PROVE  Spec => ImplementsLifecycle
<1>1. Init => Lifecycle!Init
  BY DEF Init, Lifecycle!Init, BookingType, Nightly, Lifecycle!Nightly
<1>2. IInv /\ SerialInv /\ [Next]_vars => [Lifecycle!Next]_(Lifecycle!vars)
  BY SerialStep
<1> QED BY <1>1, <1>2, Invariance, ChecksHoldUntilWrites, PTL
        DEF Spec, ImplementsLifecycle, Lifecycle!Spec

\* With one process, a request the landlord refused or has not answered cannot be
\* paid: it has no token and no invoice.
THEOREM UnapprovedHasNoCheckout ==
    ASSUME NEW p0, Proc = {p0}
    PROVE  Spec => []NoCheckoutWithoutApproval
<1>1. IInv /\ SerialInv => NoCheckoutWithoutApproval
  BY BookingAssumption DEF IInv, SerialInv, NoCheckoutWithoutApproval, BilledAfterApproval,
     Approved, ProductsStaySeparate, NightlyStatus, TypeOK
<1> QED BY <1>1, Invariance, ChecksHoldUntilWrites, PTL

\* Only the decision on a dispute writes to a disputed booking.
LEMMA DisputedWrite ==
    ASSUME TypeOK, SerialInv, NEW p \in Proc, Write(p), NEW b \in Booking,
           escrow[b] = "DISPUTED", escrow'[b] # "DISPUTED" \/ status'[b] # status[b]
    PROVE  /\ request[p] # Idle
           /\ request[p].b = b
           /\ request[p].op \in {"resolveRelease", "resolveRefund"}
<1> DEFINE r == request[p]
<1>1. r \in Request /\ r # Idle /\ r.stage = "update" /\ r.b \in Booking
  BY StageIsRequest DEF Write, Request
<1>2. r.b = b
  BY <1>1 DEF Write, TypeOK
<1>3. /\ status'[b] = Column(r.status, status[b])
      /\ escrow'[b] = Column(r.escrow, escrow[b])
  BY <1>2 DEF Write, TypeOK
<1>4. FreshUpdate(r) /\ status[b] = "CONFIRMED"
  BY <1>1 DEF SerialInv, Fresh
<1> QED BY <1>1, <1>2, <1>3, <1>4 DEF FreshUpdate, Unsettled, Column, Keep

\* With one process, a dispute freezes the status and the escrow until an admin's
\* decision.
THEOREM DisputesFreeze ==
    ASSUME NEW p0, Proc = {p0}
    PROVE  Spec => DisputeFreezesEscrow
<1> DEFINE Frozen ==
      \A b \in Booking :
         escrow[b] = "DISPUTED" /\ (escrow'[b] # "DISPUTED" \/ status'[b] # status[b])
           => \E p \in Proc :
                /\ request[p] # Idle
                /\ request[p].b = b
                /\ request[p].op \in {"resolveRelease", "resolveRefund"}
<1>1. ASSUME TypeOK, SerialInv, Next
      PROVE  (\E p \in Proc : Write(p)) \/ UNCHANGED <<status, escrow>>
  <2>1. ASSUME NEW p \in Proc, NEW b \in Booking, Handler(p, b)
        PROVE  UNCHANGED <<status, escrow>>
    BY <1>1, <2>1, HandlerEnters DEF Enter
  <2>2. ASSUME NEW p \in Proc, NEW i \in Invoice, HandlePaydunyaWebhook(p, i)
        PROVE  UNCHANGED <<status, escrow>>
    BY <1>1, <2>2, WebhookEnters DEF Enter
  <2> QED BY <1>1, <2>1, <2>2 DEF Next, Resume, CreateInvoice, ConfirmAnswer, RentListing,
            GenerateForBooking, Abort, PayInvoice, FailInvoice, MoveListing, TimePasses
<1>2. TypeOK /\ SerialInv /\ [Next]_vars => [Frozen]_vars
  <2> SUFFICES ASSUME TypeOK, SerialInv, Next
               PROVE  Frozen
    OBVIOUS
  <2>1. CASE UNCHANGED <<status, escrow>>
    BY <2>1
  <2>2. CASE \E p \in Proc : Write(p)
    BY <2>2, DisputedWrite
  <2> QED BY <1>1, <2>1, <2>2
<1>3. IInv => TypeOK
  BY DEF IInv
<1> QED BY <1>2, <1>3, Invariance, ChecksHoldUntilWrites, PTL DEF Spec, DisputeFreezesEscrow

-----------------------------------------------------------------------------
(***************************************************************************)
(* The moves of a status when requests overlap.                            *)
(***************************************************************************)

\* A write that was the move of a status the row has had stays one.
LEMMA RecalledStays ==
    ASSUME NEW r \in Request, Recalled(r), bookingType' = bookingType,
           \A b \in Booking : had[b] \subseteq had'[b]
    PROVE  Recalled(r)'
BY DEF Recalled, Row!LateMoves, Request

\* A handler prepares the move of the status it reads.
LEMMA HandlerRecalled ==
    ASSUME TypeOK, Rows, HistoryInv, NEW p \in Proc, NEW b \in Booking, Handler(p, b)
    PROVE  \E r : Enter(p, r) /\ (r.stage = "update" => Recalled(r))
<1> DEFINE Goal == \E r : Enter(p, r) /\ (r.stage = "update" => Recalled(r))
           Can(s) == s \in Row!LateMoves(bookingType[b], had[b])
<1>0. /\ status[b] \in had[b] /\ status[b] \in BookingStatus
      /\ escrow[b] = "DISPUTED" => "CONFIRMED" \in had[b]
  BY DEF HistoryInv, TypeOK
<1>1. /\ status[b] = "PENDING" => Can("CONFIRMED")
      /\ status[b] = "REQUESTED" => Can("APPROVED") /\ Can("REJECTED")
      /\ status[b] = "ACTIVE" => Can("TERMINATED")
      /\ status[b] = "CONFIRMED" \/ escrow[b] = "DISPUTED" => Can("COMPLETED") /\ Can("CANCELLED")
  BY <1>0 DEF Row!LateMoves, Row!MayBecome
<1>2. status[b] \notin {"CANCELLED", "COMPLETED"} => Can("CANCELLED")
  BY <1>0 DEF Row!LateMoves, Row!MayBecome, BookingStatus, NightlyStatus, LeaseStatus
<1> HIDE DEF Can
<1>3. ASSUME NEW op, op # "approve", NEW s, s = Keep \/ Can(s), NEW e,
             e = "DISPUTED" => "CONFIRMED" \in had[b]
      PROVE  Recalled(Update(op, b, s, e, NoInvoice))
  BY <1>3 DEF Recalled, Update, Can
<1>4. CASE Confirm(p, b)
  BY <1>1, <1>3, <1>4 DEF Confirm, Keep
<1>5. CASE ApproveMonthlyRequest(p, b)
  <2>1. Recalled(Update("approve", b, "APPROVED", Keep, NoInvoice))
    BY <1>1, <1>5 DEF ApproveMonthlyRequest, Recalled, Update, Can, Keep
  <2> QED BY <1>5, <2>1 DEF ApproveMonthlyRequest
<1>6. CASE RejectMonthlyRequest(p, b)
  BY <1>1, <1>3, <1>6 DEF RejectMonthlyRequest, Keep
<1>7. CASE TerminateLease(p, b)
  BY <1>1, <1>3, <1>7 DEF TerminateLease, Keep
<1>8. ASSUME NEW op \in {"tenantCancel", "ownerCancel"}, Cancel(p, b, op)
      PROVE  Goal
  <2>1. EscrowAfterCancel(b, op) = "DISPUTED" => "CONFIRMED" \in had[b]
    BY <1>0 DEF EscrowAfterCancel
  <2>2. Recalled(Update(op, b, "CANCELLED", EscrowAfterCancel(b, op), NoInvoice))
    BY <1>2, <1>3, <1>8, <2>1 DEF Cancel
  <2> QED BY <1>8, <2>2 DEF Cancel
<1>9. CASE Complete(p, b)
  BY <1>1, <1>3, <1>9 DEF Complete
<1>10. CASE ReportDispute(p, b)
  BY <1>0, <1>3, <1>10 DEF ReportDispute
<1>11. CASE ResolveDispute(p, b)
  <2>1. /\ Recalled(Update("resolveRelease", b, "COMPLETED", "RELEASED", NoInvoice))
        /\ Recalled(Update("resolveRefund", b, "CANCELLED", "REFUNDED", NoInvoice))
    BY <1>1, <1>3, <1>11 DEF ResolveDispute
  <2> QED BY <1>11, <2>1 DEF ResolveDispute
<1>12. CASE Release(p, b)
  BY <1>3, <1>12 DEF Release
<1>13. CASE Refund(p, b)
  BY <1>3, <1>13 DEF Refund
<1>14. VerifyBooking(p, b) => Goal
  BY DEF VerifyBooking, Query
<1>15. CASE Initiate(p, b)
  <2>1. CASE Enter(p, [Query("initiate", b, NoInvoice) EXCEPT !.stage = "bill"])
    BY <2>1 DEF Query
  <2> QED BY <1>14, <1>15, <2>1 DEF Initiate
<1> QED BY <1>4, <1>5, <1>6, <1>7, <1>8, <1>9, <1>10, <1>11, <1>12, <1>13, <1>14, <1>15
        DEF Handler

\* What markBookingPaid and a refused invoice write, on a booking that could be paid.
LEMMA AnswerRecalled ==
    ASSUME TypeOK, Rows, RequestsJustified, HistoryInv, NEW p \in Proc, request[p] # Idle,
           CreateInvoice(p) \/ ConfirmAnswer(p)
    PROVE  \E r : Continue(p, r) /\ (r # Idle => r.stage = "update" /\ Recalled(r))
<1> DEFINE r0 == request[p]
           Can(s) == s \in Row!LateMoves(bookingType[r0.b], had[r0.b])
<1>1. r0 \in Request /\ r0.b \in Booking /\ JustifiedRequest(r0)
  BY BusyIsRequest DEF RequestsJustified, Request
<1>2. CASE CreateInvoice(p)
  <2>1. PICK i \in Invoice : Continue(p, Update("initiate", r0.b, Keep, Keep, i))
    BY <1>2 DEF CreateInvoice
  <2>2. Update("initiate", r0.b, Keep, Keep, i).stage = "update"
        /\ Recalled(Update("initiate", r0.b, Keep, Keep, i))
    BY DEF Recalled, Update, Keep
  <2> QED BY <2>1, <2>2
<1>3. CASE ConfirmAnswer(p)
  <2>1. Approved(r0.b)
    BY <1>1, <1>3 DEF ConfirmAnswer, JustifiedRequest
  <2>2. IF Nightly(r0.b) THEN "PENDING" \in had[r0.b] ELSE "APPROVED" \in had[r0.b]
    BY <1>1, <2>1 DEF Approved, HistoryInv
  <2>3. Can("CANCELLED") /\ Can(IF Nightly(r0.b) THEN "CONFIRMED" ELSE "ACTIVE")
    BY <2>2 DEF Row!LateMoves, Row!MayBecome
  <2> HIDE DEF Can
  <2>4. ASSUME NEW op, op # "approve", NEW s, Can(s), NEW e, e # "DISPUTED", NEW i
        PROVE  /\ Recalled(Update(op, r0.b, s, e, i))
               /\ Update(op, r0.b, s, e, i).stage = "update"
    BY <2>4 DEF Recalled, Update, Can
  <2>5. \/ Continue(p, Idle)
        \/ \E i : Continue(p, MarkBookingPaid(r0.b, i))
        \/ Continue(p, Update("paymentFailed", r0.b, "CANCELLED", "REFUNDED", NoInvoice))
    BY <1>3 DEF ConfirmAnswer
  <2>6. CASE \E i : Continue(p, MarkBookingPaid(r0.b, i))
    BY <2>3, <2>4, <2>6 DEF MarkBookingPaid
  <2> QED BY <2>3, <2>4, <2>5, <2>6
<1> QED BY <1>2, <1>3

\* One step of anybody keeps the history true, and moves a status only where it says.
LEMMA HistoryStep ==
    ASSUME TypeOK, Rows, RequestsJustified, HistoryInv, [Next]_vars,
           had' = [b \in Booking |-> had[b] \cup {status'[b]}]
    PROVE  /\ HistoryInv'
           /\ \A b \in Booking :
                status'[b] # status[b] => status'[b] \in Row!LateMoves(bookingType[b], had[b])
<1> DEFINE Moves == \A b \in Booking :
                      status'[b] # status[b]
                        => status'[b] \in Row!LateMoves(bookingType[b], had[b])
           Pending == \A p \in Proc :
                        request[p] # Idle /\ request[p].stage = "update" => Recalled(request[p])
           RowFacts(b) == /\ status[b] \in had[b]
                          /\ Nightly(b) => "PENDING" \in had[b]
                          /\ "approve" \in past[b] => "APPROVED" \in had[b]
                          /\ escrow[b] = "DISPUTED" => "CONFIRMED" \in had[b]
<1>0. \A b \in Booking : had[b] \subseteq had'[b] /\ status'[b] \in had'[b]
  OBVIOUS
<1>1. FactsStay /\ TypeOK' /\ bookingType' = bookingType
  BY FactsOnlyGrow, TypeStep DEF FactsStay
<1>2. ASSUME NEW r \in Request, Recalled(r)
      PROVE  Recalled(r)'
  BY <1>0, <1>1, <1>2, RecalledStays
<1>3. ASSUME NEW p \in Proc, NEW r, request' = [request EXCEPT ![p] = r],
             r # Idle /\ r.stage = "update" => Recalled(r)
      PROVE  Pending'
  <2>1. \A q \in Proc : request'[q] = IF q = p THEN r ELSE request[q]
    BY <1>3 DEF TypeOK
  <2>2. r # Idle => r \in Request
    BY <1>1, <2>1 DEF TypeOK
  <2>3. \A q \in Proc : request[q] # Idle => request[q] \in Request
    BY DEF TypeOK
  <2>4. ASSUME NEW q \in Proc, request'[q] # Idle, request'[q].stage = "update"
        PROVE  Recalled(request[q])'
    <3>1. PICK x : x = request'[q]
      OBVIOUS
    <3>2. x \in Request /\ Recalled(x)
      BY <1>3, <2>1, <2>2, <2>3, <2>4, <3>1 DEF HistoryInv
    <3>3. Recalled(x)'
      BY <1>2, <3>2
    <3> QED BY <3>1, <3>3 DEF Recalled
  <2> QED BY <2>4
<1>4. ASSUME UNCHANGED <<status, escrow, past>>
      PROVE  Moves /\ \A b \in Booking : RowFacts(b)'
  BY <1>0, <1>1, <1>4 DEF HistoryInv, Nightly
<1>5. ASSUME NEW p \in Proc, \E r : Enter(p, r) /\ (r.stage = "update" => Recalled(r))
      PROVE  HistoryInv' /\ Moves
  BY <1>3, <1>4, <1>5 DEF Enter, HistoryInv
<1>6. ASSUME NEW p \in Proc, NEW b \in Booking, Handler(p, b)
      PROVE  HistoryInv' /\ Moves
  BY <1>5, <1>6, HandlerRecalled
<1>7. ASSUME NEW p \in Proc, NEW i \in Invoice, HandlePaydunyaWebhook(p, i)
      PROVE  HistoryInv' /\ Moves
  BY <1>5, <1>7 DEF HandlePaydunyaWebhook, Query
<1>8. ASSUME NEW p \in Proc, request[p] # Idle, CreateInvoice(p) \/ ConfirmAnswer(p)
      PROVE  HistoryInv' /\ Moves
  <2>1. UNCHANGED <<status, escrow, past>>
    BY <1>8 DEF CreateInvoice, ConfirmAnswer
  <2>2. Pending'
    BY <1>3, <1>8, AnswerRecalled DEF Continue
  <2> QED BY <1>4, <2>1, <2>2 DEF HistoryInv
<1>9. ASSUME NEW p \in Proc, request[p] # Idle, Write(p)
      PROVE  HistoryInv' /\ Moves
  <2> DEFINE r == request[p]
  <2>1. r \in Request /\ r.b \in Booking /\ r.stage = "update" /\ Recalled(r)
    BY <1>9, BusyIsRequest DEF Write, HistoryInv, Request
  <2>2. /\ status' = [status EXCEPT ![r.b] = Column(r.status, @)]
        /\ escrow' = [escrow EXCEPT ![r.b] = Column(r.escrow, @)]
        /\ past' = [past EXCEPT ![r.b] = @ \cup ({r.op} \cap Recorded)]
        /\ request' = [request EXCEPT ![p] = IF r.op = "paid" /\ ~Nightly(r.b)
                                               THEN [r EXCEPT !.stage = "rent"] ELSE Idle]
    BY <1>9 DEF Write, Continue
  <2>3. /\ \A b \in Booking : b # r.b =>
             status'[b] = status[b] /\ escrow'[b] = escrow[b] /\ past'[b] = past[b]
        /\ status'[r.b] = Column(r.status, status[r.b])
        /\ escrow'[r.b] = Column(r.escrow, escrow[r.b])
        /\ past'[r.b] \subseteq past[r.b] \cup {r.op}
    BY <2>1, <2>2 DEF TypeOK
  <2>4. Moves
    BY <2>1, <2>3 DEF Recalled, Column
  <2>5. "approve" \in past'[r.b] => "APPROVED" \in had'[r.b]
    <3>1. CASE r.op = "approve"
      <4>1. status'[r.b] = "APPROVED"
        BY <2>1, <2>3, <3>1 DEF Recalled, Column, Keep
      <4> QED BY <1>0, <2>1, <4>1
    <3>2. CASE r.op # "approve"
      BY <1>0, <2>1, <2>3, <3>2 DEF HistoryInv
    <3> QED BY <3>1, <3>2
  <2>6. escrow'[r.b] = "DISPUTED" => "CONFIRMED" \in had'[r.b]
    BY <1>0, <2>1, <2>3 DEF HistoryInv, Recalled, Column
  <2>7. ASSUME NEW b \in Booking
        PROVE  RowFacts(b)'
    BY <1>0, <1>1, <2>3, <2>5, <2>6 DEF HistoryInv, Nightly
  <2>8. Pending'
    <3> DEFINE x == IF r.op = "paid" /\ ~Nightly(r.b) THEN [r EXCEPT !.stage = "rent"] ELSE Idle
    <3>1. x # Idle => x.stage # "update"
      BY <2>1 DEF Request
    <3> HIDE DEF x
    <3> QED BY <1>3, <2>2, <3>1 DEF x
  <2> QED BY <2>4, <2>7, <2>8 DEF HistoryInv
<1>10. ASSUME NEW p \in Proc, request[p] # Idle,
              RentListing(p) \/ GenerateForBooking(p) \/ Abort(p)
       PROVE  HistoryInv' /\ Moves
  <2>1. UNCHANGED <<status, escrow, past>>
    BY <1>10 DEF RentListing, GenerateForBooking, Abort
  <2>2. PICK r : request' = [request EXCEPT ![p] = r] /\ (r # Idle => r.stage = "contract")
    <3>1. CASE RentListing(p)
      <4>1. [request[p] EXCEPT !.stage = "contract"].stage = "contract"
        BY <1>10, BusyIsRequest DEF Request
      <4> QED BY <3>1, <4>1 DEF RentListing, Continue
    <3> QED BY <1>10, <3>1 DEF GenerateForBooking, Abort, Continue
  <2>3. Pending'
    BY <1>3, <2>2
  <2> QED BY <1>4, <2>1, <2>3 DEF HistoryInv
<1>11. ASSUME UNCHANGED <<status, escrow, past, request>>
       PROVE  HistoryInv' /\ Moves
  <2>1. Pending'
    <3>1. ASSUME NEW p \in Proc
          PROVE  request' = [request EXCEPT ![p] = request[p]]
      BY <1>11 DEF TypeOK
    <3>2. ASSUME NEW p \in Proc
          PROVE  Pending'
      BY <1>3, <3>1 DEF HistoryInv
    <3> QED BY <3>2
  <2> QED BY <1>4, <1>11, <2>1 DEF HistoryInv
<1>12. ASSUME \/ \E i \in Invoice : PayInvoice(i) \/ FailInvoice(i)
              \/ \E l \in Listing : MoveListing(l)
              \/ \E b \in Booking : TimePasses(b)
              \/ UNCHANGED vars
       PROVE  HistoryInv' /\ Moves
  BY <1>11, <1>12 DEF PayInvoice, FailInvoice, MoveListing, TimePasses, vars
<1>13. ASSUME NEW p \in Proc, Resume(p) \/ Abort(p)
       PROVE  HistoryInv' /\ Moves
  BY <1>8, <1>9, <1>10, <1>13 DEF Resume, Abort
<1> HIDE DEF Moves
<1>14. HistoryInv' /\ Moves
  BY <1>6, <1>7, <1>12, <1>13 DEF Next
<1> QED BY <1>14 DEF Moves

\* However many requests overlap, a row only makes the moves of statuses it has had:
\* the moves Availability gives to its bookings.
THEOREM StatusesMoveAsRowsRead == HistorySpec => MovesFromRowsRead
<1> DEFINE Moves == \A b \in Booking :
                      status'[b] # status[b]
                        => status'[b] \in Row!LateMoves(bookingType[b], had[b])
<1>1. HistoryInit => HistoryInv /\ Init
  BY DEF HistoryInit, Init, HistoryInv
<1>2. [HistoryNext]_<<vars, had>> => [Next]_vars
  BY DEF HistoryNext
<1>3. IInv => TypeOK /\ Rows /\ RequestsJustified
  BY DEF IInv, Rows
<1>4. IInv /\ HistoryInv /\ [HistoryNext]_<<vars, had>> => HistoryInv' /\ [Moves]_<<vars, had>>
  <2>1. CASE HistoryNext
    BY <1>3, <2>1, HistoryStep DEF HistoryNext
  <2>2. CASE UNCHANGED <<vars, had>>
    BY <2>2 DEF vars, HistoryInv, Recalled, Nightly
  <2> QED BY <2>1, <2>2
<1>5. HistorySpec => Spec
  BY <1>1, <1>2, PTL DEF HistorySpec, Spec
<1> QED BY <1>1, <1>4, <1>5, Invariance, PTL DEF HistorySpec, MovesFromRowsRead
=============================================================================
