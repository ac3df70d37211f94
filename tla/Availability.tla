---------------------------- MODULE Availability ----------------------------
(***************************************************************************)
(* The calendar of one listing: the booking card of its page in each       *)
(* tenant's browser, and the two handlers that insert bookings, create and *)
(* createMonthlyRequest, which query the table for a conflict and insert   *)
(* without a transaction or a constraint.  What becomes of a booking after *)
(* its insertion are the moves of BookingLifecycle, which other requests   *)
(* may write late.                                                         *)
(*                                                                         *)
(* A date is a day, stored as the instant it begins in UTC.  The calendar  *)
(* works in the days of the browser: to the west of UTC that instant falls *)
(* on the day before.  The listing's terms do not change while its page is *)
(* open.                                                                   *)
(***************************************************************************)
EXTENDS Integers, FiniteSets

CONSTANTS
    Booking,        \* rows the bookings table may get for this listing
    Tenant,         \* tenants, each with the page of the listing in a browser
    West,           \* those whose browser's clock is to the west of UTC
    LastDay,        \* the calendar goes from day 1 to LastDay
    RentalMode,     \* listing.rentalMode
    MinimumNights,  \* listing.minimumNights, 0 when it has none
    MaximumNights,  \* listing.maximumNights, 0 when it has none
    MinLeaseDays    \* listing.minLeaseMonths, in days

ASSUME AvailabilityAssumption ==
    /\ LastDay \in Nat
    /\ West \subseteq Tenant
    /\ RentalMode \in {"NIGHTLY", "MONTHLY", "MIXED"}
    /\ MinimumNights \in Nat
    /\ MaximumNights \in Nat
    /\ MinLeaseDays \in Nat

VARIABLES
    bookingType, \* booking.bookingType
    status,      \* booking.status, "ABSENT" before the insertion
    stay,        \* booking.startDate and booking.endDate
    today,       \* the day it is, in UTC
    listing,     \* listing.status; HIDDEN is DRAFT or SUSPENDED
    card,        \* the booking card of each tenant, and the request it waits for
    had,         \* the statuses a row has had: what a request being served has read
    seen,        \* history: the rows that existed when a booking was checked
    revived      \* history: the bookings that stood again after they had ceased to

vars == <<bookingType, status, stay, today, listing, card, had, seen, revived>>

\* Only the statuses of the lifecycle matter here, not where the money is.
Life == INSTANCE BookingLifecycle WITH escrow <- status

Day == 1 .. LastDay
NoDay == 0               \* a date that is null, or not chosen yet

Dates == [from : Day \cup {NoDay}, to : Day \cup {NoDay}]

Stage == {"closed",      \* page closed, or the tenant has left for PayDunya
          "open",        \* choosing dates
          "overlap",     \* create: the listing is read, the overlap query comes
          "insertStay",  \* create: no overlap, the INSERT comes
          "placed",      \* the booking exists, payments/initiate comes
          "leases",      \* createMonthlyRequest: the query of leases in progress comes
          "moveIn",      \* createMonthlyRequest: the query of stays comes
          "insertLease"} \* createMonthlyRequest: the INSERT comes

(***************************************************************************)
(* A card: the booked ranges the page has loaded, the dates chosen on the  *)
(* calendar, the day of entry of the monthly request being sent, and the   *)
(* rows that existed when the handler queried the table.                   *)
(***************************************************************************)
Card == [stage : Stage, ranges : SUBSET Booking, dates : Dates,
         entry : Day \cup {NoDay}, found : SUBSET Booking]

NoDates == [from |-> NoDay, to |-> NoDay]
Closed == [stage |-> "closed", ranges |-> {}, dates |-> NoDates, entry |-> NoDay,
           found |-> {}]

Status == {"ABSENT", "PENDING", "CONFIRMED", "CANCELLED", "COMPLETED", "REQUESTED", "APPROVED",
           "REJECTED", "ACTIVE", "TERMINATED"}

TypeOK ==
    /\ bookingType \in [Booking -> {"NIGHTLY", "MONTHLY"}]
    /\ status \in [Booking -> Status]
    /\ stay \in [Booking -> Dates]
    /\ today \in Nat
    /\ listing \in {"ACTIVE", "RENTED", "HIDDEN"}
    /\ card \in [Tenant -> Card]
    /\ had \in [Booking -> SUBSET Status]
    /\ seen \in [Booking -> SUBSET Booking]
    /\ revived \in SUBSET Booking

Init ==
    /\ bookingType = [b \in Booking |-> "NIGHTLY"]
    /\ status = [b \in Booking |-> "ABSENT"]
    /\ stay = [b \in Booking |-> NoDates]
    /\ today = 1
    /\ listing = "ACTIVE"
    /\ card = [t \in Tenant |-> Closed]
    /\ had = [b \in Booking |-> {}]
    /\ seen = [b \in Booking |-> {}]
    /\ revived = {}

-----------------------------------------------------------------------------
(***************************************************************************)
(* The rows the handlers query.                                            *)
(***************************************************************************)

Nightly(b) == bookingType[b] = "NIGHTLY"

Stays == {b \in Booking : Nightly(b) /\ status[b] # "ABSENT"}
Leases == {b \in Booking : ~Nightly(b) /\ status[b] # "ABSENT"}

PendingStays ==                                  \* mutant: confirmed stays are forgotten
    {b \in Booking : Nightly(b) /\ status[b] = "PENDING"}

\* Stays that take their days: asked for or confirmed.
LiveStays == {b \in Booking : Nightly(b) /\ status[b] \in {"PENDING", "CONFIRMED"}}

UnpaidLeases ==                                  \* mutant: a running lease is forgotten
    {b \in Booking : ~Nightly(b) /\ status[b] \in {"REQUESTED", "APPROVED"}}

\* Leases that keep others out.
LiveLeases == {b \in Booking : ~Nightly(b) /\ status[b] \in {"REQUESTED", "APPROVED", "ACTIVE"}}

\* The overlap query compares with lte and gte: two stays may not share a day, not
\* even the one's last and the other's first.
Overlaps(b, d) == stay[b].from <= d.to /\ stay[b].to >= d.from

Conflicts(d) == {b \in LiveStays : Overlaps(b, d)}

Covers(b, day) == stay[b].from <= day /\ stay[b].to >= day

Nights(d) == d.to - d.from

\* The server's limits on the length of a stay.
LengthAllowed(d) ==
    /\ MinimumNights # 0 => Nights(d) >= MinimumNights
    /\ RentalMode = "NIGHTLY" /\ MaximumNights # 0 => Nights(d) <= MaximumNights
    /\ RentalMode = "MIXED" => Nights(d) < MinLeaseDays

-----------------------------------------------------------------------------
(***************************************************************************)
(* The booking card in the browser.                                        *)
(***************************************************************************)

Show(t, c) ==
    /\ card' = [card EXCEPT ![t] = c]
    /\ UNCHANGED <<bookingType, status, stay, today, listing, had, seen, revived>>

\* The stays getAvailability returns: a stay whose last day has begun is over for it.
StillToCome == {b \in LiveStays : stay[b].to > today}

\* The page is opened or reloaded; the calendar shows once the ranges have arrived,
\* with none when the request fails.  A leased listing, or one that is only let by
\* the month, shows no calendar; the form of a monthly request needs none.
OpenPage(t) ==
    /\ card[t].stage \in {"closed", "open"}
    /\ \E ranges \in {StillToCome, {}} :
         Show(t, [Closed EXCEPT !.stage = "open", !.ranges = ranges])

\* The day of the browser on which a stored day begins: isBooked cuts the instants of
\* a range to it with setHours, and compares the days of the calendar with that.
LocalDay(t, day) == IF t \in West THEN day - 1 ELSE day

BookedInside(t, day, ranges) ==                  \* mutant: the day of departure is free
    \E b \in ranges : LocalDay(t, stay[b].from) <= day /\ day < LocalDay(t, stay[b].to)

IsBooked(t, day, ranges) ==
    \E b \in ranges : LocalDay(t, stay[b].from) <= day /\ day <= LocalDay(t, stay[b].to)

\* A click on a free day that is not past: the first one is the arrival, the second the
\* departure; an earlier day, or a booked day in between, starts again.  To the west
\* of UTC it may still be yesterday.
HandleSelectDate(t, day) ==
    LET c == card[t]
        first == \/ c.dates.from = NoDay
                 \/ c.dates.to # NoDay
                 \/ day <= c.dates.from
                 \/ \E d \in c.dates.from + 1 .. day - 1 : IsBooked(t, d, c.ranges)
    IN
    /\ c.stage = "open"
    /\ RentalMode # "MONTHLY"
    /\ ~IsBooked(t, day, c.ranges)
    /\ LocalDay(t, today) <= day
    /\ Show(t, [c EXCEPT !.dates = IF first THEN [from |-> day, to |-> NoDay]
                                   ELSE [from |-> @.from, to |-> day]])

\* When the button lets the tenant submit.
SubmitEnabled(d) ==
    /\ d.from # NoDay /\ d.to # NoDay
    /\ ~(MinimumNights # 0 /\ Nights(d) > 0 /\ Nights(d) < MinimumNights)
    /\ ~(RentalMode = "NIGHTLY" /\ MaximumNights # 0 /\ Nights(d) > MaximumNights)
    /\ ~(RentalMode = "MIXED" /\ Nights(d) >= MinLeaseDays)

\* The tenant submits, and create reads the listing.  Only RENTED is refused.
RequestStay(t) ==
    /\ card[t].stage = "open"
    /\ SubmitEnabled(card[t].dates)
    /\ listing # "RENTED"
    /\ RentalMode # "MONTHLY"
    /\ Show(t, [card[t] EXCEPT !.stage = "overlap"])

\* The form of a monthly request, which needs no calendar, and the guards of
\* createMonthlyRequest.
RequestLease(t, day) ==
    /\ card[t].stage = "closed"
    /\ RentalMode # "NIGHTLY"
    /\ listing = "ACTIVE"
    /\ Show(t, [Closed EXCEPT !.stage = "leases", !.entry = day])

-----------------------------------------------------------------------------
(***************************************************************************)
(* The two handlers.                                                       *)
(***************************************************************************)

\* create: the overlap query, then the limits on the length.
CheckOverlap(t) ==
    LET c == card[t] IN
    /\ c.stage = "overlap"
    /\ Show(t, IF Conflicts(c.dates) = {} /\ LengthAllowed(c.dates)
                 THEN [c EXCEPT !.stage = "insertStay", !.found = Stays]
                 ELSE [c EXCEPT !.stage = "open"])

Insert(t, b, type, s, dates, c) ==
    /\ status[b] = "ABSENT"
    /\ bookingType' = [bookingType EXCEPT ![b] = type]
    /\ status' = [status EXCEPT ![b] = s]
    /\ stay' = [stay EXCEPT ![b] = dates]
    /\ had' = [had EXCEPT ![b] = {s}]
    /\ seen' = [seen EXCEPT ![b] = card[t].found]
    /\ card' = [card EXCEPT ![t] = c]
    /\ UNCHANGED <<today, listing, revived>>

InsertStay(t, b) ==
    /\ card[t].stage = "insertStay"
    /\ Insert(t, b, "NIGHTLY", "PENDING", card[t].dates,
              [card[t] EXCEPT !.stage = "placed", !.found = {}])

\* payments/initiate: the tenant leaves for PayDunya, or the card shows an error and
\* keeps the dates, although the booking exists.
InitiatePayment(t) ==
    /\ card[t].stage = "placed"
    /\ \/ Show(t, Closed)
       \/ Show(t, [card[t] EXCEPT !.stage = "open"])

\* createMonthlyRequest: one request or lease in progress per listing.
CheckLeases(t) ==
    /\ card[t].stage = "leases"
    /\ Show(t, IF LiveLeases = {} THEN [card[t] EXCEPT !.stage = "moveIn", !.found = Leases]
               ELSE Closed)

\* createMonthlyRequest: the day of entry is not one of a stay.
CheckMoveIn(t) ==
    LET c == card[t] IN
    /\ c.stage = "moveIn"
    /\ Show(t, IF \E b \in LiveStays : Covers(b, c.entry)
                 THEN Closed
                 ELSE [c EXCEPT !.stage = "insertLease", !.found = @ \cup Stays])

InsertLease(t, b) ==
    /\ card[t].stage = "insertLease"
    /\ Insert(t, b, "MONTHLY", "REQUESTED", [from |-> card[t].entry, to |-> NoDay], Closed)

\* The request fails; the card shows the error and keeps the dates.
Fail(t) ==
    \/ /\ card[t].stage \in {"overlap", "insertStay"}
       /\ Show(t, [card[t] EXCEPT !.stage = "open", !.found = {}])
    \/ /\ card[t].stage \in {"leases", "moveIn", "insertLease"}
       /\ Show(t, Closed)

-----------------------------------------------------------------------------
(***************************************************************************)
(* What happens to the bookings and to the listing meanwhile.              *)
(***************************************************************************)

Standing(b) == status[b] \in {"PENDING", "CONFIRMED", "REQUESTED", "APPROVED", "ACTIVE"}

\* A handler that read one of the statuses the row has had writes what the lifecycle
\* gives after it, whatever the row has become: approve and confirm, cancel, complete
\* and terminate, and the answers of PayDunya.  Ending a lease frees the listing in
\* the same transaction.
LiveOn(b) ==
    /\ \E s \in Life!LateMoves(bookingType[b], had[b]) :
         /\ status' = [status EXCEPT ![b] = s]
         /\ had' = [had EXCEPT ![b] = @ \cup {s}]
         /\ listing' = IF s = "TERMINATED" THEN "ACTIVE" ELSE listing
    /\ revived' = IF ~Standing(b) /\ Standing(b)' THEN revived \cup {b} ELSE revived
    /\ UNCHANGED <<bookingType, stay, today, card, seen>>

\* The second write of markBookingPaid, at some time after the lease was paid.
RentListing(b) ==
    /\ "ACTIVE" \in had[b]
    /\ listing' = "RENTED"
    /\ UNCHANGED <<bookingType, status, stay, today, card, had, seen, revived>>

NextDay ==
    /\ today < LastDay
    /\ today' = today + 1
    /\ UNCHANGED <<bookingType, status, stay, listing, card, had, seen, revived>>

\* ListingsService: publish, unpublish, archive, restore, activate, suspend.
MoveListing ==
    /\ \E s \in {"ACTIVE", "HIDDEN"} : s # listing /\ listing' = s
    /\ UNCHANGED <<bookingType, status, stay, today, card, had, seen, revived>>

Serve(t) ==
    \/ CheckOverlap(t)
    \/ InitiatePayment(t)
    \/ CheckLeases(t)
    \/ CheckMoveIn(t)
    \/ Fail(t)
    \/ \E b \in Booking : InsertStay(t, b) \/ InsertLease(t, b)

Browse(t) ==
    \/ OpenPage(t)
    \/ RequestStay(t)
    \/ \E day \in Day : HandleSelectDate(t, day) \/ RequestLease(t, day)

Next ==
    \/ \E t \in Tenant : Browse(t) \/ Serve(t)
    \/ \E b \in Booking : LiveOn(b) \/ RentListing(b)
    \/ MoveListing
    \/ NextDay

Spec == Init /\ [][Next]_vars

-----------------------------------------------------------------------------
(***************************************************************************)
(* Safety.                                                                 *)
(***************************************************************************)

DaysOf(b) == stay[b].from .. stay[b].to

\* Two standing stays share a day only if neither existed when the other was checked
\* (two requests between a query and an INSERT), or if the one that did has ceased to
\* stand and come back: paid after its cancellation or its end, or confirmed by a
\* request that had read it before.  About the overlap query of create, the statuses
\* it counts as live and its comparison of dates.
NoDoubleStay ==
    \A a, b \in Stays :
        a # b /\ Standing(a) /\ Standing(b) /\ a \in seen[b] \ revived
            => DaysOf(a) \cap DaysOf(b) = {}

\* A lease stands beside another one, or begins on a day of a stay, only in the same
\* two cases: the other booking was inserted after the query that should have found
\* it, or has come back, paid after its end or approved by a request that read it
\* before its cancellation.  About the two queries of createMonthlyRequest.
LeaseFoundThePlaceFree ==
    \A a \in Stays \cup Leases, b \in Leases :
        a # b /\ Standing(a) /\ Standing(b) /\ a \in seen[b] \ revived
            => a \in Stays /\ stay[b].from \notin DaysOf(a)

\* The overlap query refuses a range because of a booking the calendar was showing only
\* to a browser to the west of UTC, and only if the range begins on the last day of
\* that booking, which such a calendar shows free; the length of a range that could be
\* submitted is never refused.  About isBooked and its local days, the walk over the
\* days in between, and the comparisons both sides make apart.
CalendarAgrees ==
    \A t \in Tenant : card[t].stage = "overlap" =>
        /\ \A b \in Conflicts(card[t].dates) \cap card[t].ranges :
             t \in West /\ card[t].dates.from = stay[b].to
        /\ LengthAllowed(card[t].dates)

\* A stay has at least one night, and a length the listing admits.  create itself never
\* compares the two dates: the first half is the calendar's doing, the second both
\* sides'.
StaysHaveNights ==
    \A b \in Stays : Nights(stay[b]) >= 1 /\ LengthAllowed(stay[b])

(***************************************************************************)
(* The inductive invariant: a row, or a request that is about to insert    *)
(* one, has found no booking in its way among those it has seen, whatever  *)
(* became of them since.                                                   *)
(***************************************************************************)
Clash(a, d) == a \in Stays /\ DaysOf(a) \cap (d.from .. d.to) # {}

\* A booking that was not standing comes back only by being revived.
Harmless(a) == Standing(a) => a \in revived

CardChecked(t, c) ==
    /\ c.ranges \subseteq Stays
    /\ c.found \subseteq Stays \cup Leases
    /\ c.dates.from # NoDay => ~IsBooked(t, c.dates.from, c.ranges)
    /\ c.dates.to # NoDay =>
         /\ c.dates.from # NoDay /\ c.dates.from < c.dates.to
         /\ \A b \in c.ranges : Overlaps(b, c.dates) => t \in West /\ c.dates.from = stay[b].to
    /\ c.stage \in {"overlap", "insertStay"} => c.dates.to # NoDay /\ LengthAllowed(c.dates)
    /\ c.stage = "insertStay" => \A a \in c.found : Clash(a, c.dates) => Harmless(a)
    /\ c.stage \in {"leases", "moveIn", "insertLease"} => c.entry # NoDay
    /\ c.stage \in {"moveIn", "insertLease"} =>
         \A a \in c.found : a \in Leases => Harmless(a)
    /\ c.stage = "insertLease" =>
         \A a \in c.found : a \in Stays /\ Covers(a, c.entry) => Harmless(a)

RowsDated ==
    /\ \A b \in Stays : stay[b].from # NoDay /\ stay[b].from < stay[b].to
    /\ \A b \in Booking : seen[b] \subseteq Stays \cup Leases
    /\ \A b \in Booking : b \notin Stays \cup Leases => seen[b] = {}
    /\ revived \subseteq Stays \cup Leases

ProductStatuses ==
    /\ \A b \in Booking : status[b] = "ABSENT" => Nightly(b) /\ had[b] = {}
    /\ \A b \in Booking : "ABSENT" \notin had[b]
    /\ \A b \in Booking :
         {status[b]} \cup had[b] \subseteq
           IF Nightly(b) THEN {"ABSENT", "PENDING", "CONFIRMED", "CANCELLED", "COMPLETED"}
           ELSE {"REQUESTED", "APPROVED", "REJECTED", "ACTIVE", "CANCELLED", "TERMINATED"}

RowsChecked ==
    /\ \A b \in Stays : \A a \in seen[b] : Clash(a, stay[b]) => Harmless(a)
    /\ \A b \in Leases : \A a \in seen[b] :
         a \in Leases \/ stay[b].from \in DaysOf(a) => Harmless(a)

IInv ==
    /\ TypeOK
    /\ StaysHaveNights
    /\ RowsDated
    /\ ProductStatuses
    /\ RowsChecked
    /\ \A t \in Tenant : CardChecked(t, card[t])
=============================================================================
