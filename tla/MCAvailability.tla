--------------------------- MODULE MCAvailability ---------------------------
(***************************************************************************)
(* An instance of Availability for TLC: two tenants, one of them to the    *)
(* west of UTC, on the page of a listing let by the night and by the       *)
(* month, and two bookings.                                                *)
(***************************************************************************)
EXTENDS Availability, TLC

CONSTANT t1

MCWest == {t1}

\* One of the browsers is to the west of UTC: the tenants are not alike.
MCSymmetry == Permutations(Booking)

\* One tenant at a time chooses dates; requests of both may be in flight.  What a
\* tenant chooses depends on nothing but the ranges loaded before, so an order in
\* which one has finished choosing when the other starts leads to the same requests.
MCOneChooses == Cardinality({t \in Tenant : card[t].stage = "open"}) <= 1

\* One of the bookings lives on; the other waits for its landlord.
MCOneLivesOn ==
    Cardinality({b \in Booking : status[b] \notin {"ABSENT", "PENDING", "REQUESTED"}}) <= 1

\* A booking has at most four statuses.  One day passes, with bookings that still wait for
\* their landlords.
MCShortLife ==
    /\ today <= 2
    /\ \A b \in Booking : Cardinality(had[b]) <= IF today = 1 THEN 4 ELSE 1
=============================================================================
