------------------------- MODULE AvailabilityProofs -------------------------
(***************************************************************************)
(* Theorems about Availability, for any calendar, any number of tenants    *)
(* and of bookings, and any terms of the listing.                          *)
(***************************************************************************)
EXTENDS Availability, TLAPS

USE AvailabilityAssumption

(***************************************************************************)
(* Steps of a card: the tables stay as they are.                           *)
(***************************************************************************)

\* A card that satisfies the invariant may replace any other.
LEMMA ShowKeeps ==
    ASSUME IInv, NEW t \in Tenant, NEW c \in Card, CardChecked(t, c), Show(t, c)
    PROVE  IInv'
<1>1. TypeOK'
  BY DEF IInv, TypeOK, Show
<1>2. \A u \in Tenant : card'[u] = IF u = t THEN c ELSE card[u]
  BY DEF IInv, TypeOK, Show
<1>3. \A u \in Tenant : CardChecked(u, card'[u])
  BY <1>2 DEF IInv, TypeOK
<1>4. \A u \in Tenant : CardChecked(u, card[u])'
  BY <1>3 DEF Show, CardChecked, IsBooked, LocalDay, Stays, Leases, Covers, Overlaps, LengthAllowed, Nights, Clash,
     Harmless, DaysOf, Standing, Nightly
<1>5. (StaysHaveNights /\ RowsDated /\ ProductStatuses /\ RowsChecked)'
  BY DEF IInv, Show, StaysHaveNights, RowsDated, ProductStatuses, RowsChecked, Stays, Leases,
     LengthAllowed, Nights, Clash, Harmless, DaysOf, Standing, Nightly
<1> QED BY <1>1, <1>4, <1>5 DEF IInv

LEMMA ClosedCard == Closed \in Card /\ \A t : CardChecked(t, Closed)
  BY DEF Closed, Card, CardChecked, NoDates, Dates, NoDay, Stage

\* A card that only goes back to its page, or to a stage without a check, stays sound.
LEMMA StageOnly ==
    ASSUME NEW t, NEW c \in Card, CardChecked(t, c), NEW s \in {"open", "placed"}
    PROVE  LET d == [c EXCEPT !.stage = s]
               e == [c EXCEPT !.stage = s, !.found = {}]
           IN  d \in Card /\ CardChecked(t, d) /\ e \in Card /\ CardChecked(t, e)
  BY DEF Card, CardChecked, Stage

LEMMA OpenPageKeeps ==
    ASSUME IInv, NEW t \in Tenant, OpenPage(t)
    PROVE  IInv'
<1>1. PICK r \in {StillToCome, {}} : Show(t, [Closed EXCEPT !.stage = "open", !.ranges = r])
  BY DEF OpenPage
<1> DEFINE c == [Closed EXCEPT !.stage = "open", !.ranges = r]
<1>2. r \subseteq Stays
  BY DEF StillToCome, LiveStays, Stays
<1>3. c \in Card
  BY <1>2 DEF Closed, Card, NoDates, Dates, NoDay, Stage, Stays
<1>4. CardChecked(t, c)
  BY <1>2 DEF Closed, CardChecked, NoDates, NoDay
<1> QED BY <1>1, <1>3, <1>4, ShowKeeps

\* The walk over the days between arrival and departure meets every range shown, as the
\* browser shows it.
LEMMA WalkFindsOverlaps ==
    ASSUME IInv, NEW t, NEW b \in Stays, NEW from \in Day, NEW day \in Day, from < day,
           \A d \in from .. day :
             ~(LocalDay(t, stay[b].from) <= d /\ d <= LocalDay(t, stay[b].to))
    PROVE  Overlaps(b, [from |-> from, to |-> day]) => t \in West /\ from = stay[b].to
<1>1. stay[b].from \in Int /\ stay[b].to \in Int /\ stay[b].from < stay[b].to
  BY DEF IInv, TypeOK, RowsDated, Stays, Dates, Day, NoDay
<1>2. SUFFICES ASSUME stay[b].from <= day, stay[b].to >= from
               PROVE  t \in West /\ from = stay[b].to
  BY DEF Overlaps
<1>3. CASE t \notin West
  <2>1. \A d \in from .. day : ~(stay[b].from <= d /\ d <= stay[b].to)
    BY <1>3 DEF LocalDay
  <2>2. CASE stay[b].from <= from
    BY <1>1, <1>2, <2>1, <2>2 DEF Day
  <2>3. CASE from < stay[b].from
    BY <1>1, <1>2, <2>1, <2>3 DEF Day
  <2> QED BY <1>1, <2>2, <2>3 DEF Day
<1>4. CASE t \in West
  <2>1. \A d \in from .. day : ~(stay[b].from - 1 <= d /\ d <= stay[b].to - 1)
    BY <1>4 DEF LocalDay
  <2>2. CASE stay[b].from - 1 <= from
    BY <1>1, <1>2, <1>4, <2>1, <2>2 DEF Day
  <2>3. CASE from < stay[b].from - 1
    <3>1. stay[b].from - 1 \in from .. day
      BY <1>1, <1>2, <2>3 DEF Day
    <3> QED BY <1>1, <2>1, <3>1
  <2> QED BY <1>1, <2>2, <2>3 DEF Day
<1> QED BY <1>3, <1>4

LEMMA FirstClick ==
    ASSUME NEW t, NEW c \in Card, CardChecked(t, c), c.stage = "open", NEW day \in Day,
           ~IsBooked(t, day, c.ranges)
    PROVE  LET e == [c EXCEPT !.dates = [from |-> day, to |-> NoDay]]
           IN  e \in Card /\ CardChecked(t, e)
<1> DEFINE e == [c EXCEPT !.dates = [from |-> day, to |-> NoDay]]
<1>1. /\ e \in Card /\ e.dates = [from |-> day, to |-> NoDay] /\ e.ranges = c.ranges
      /\ e.stage = "open" /\ e.found = c.found
  BY DEF Card, Dates, NoDay
<1> HIDE DEF e
<1>2. CardChecked(t, e)
  BY <1>1 DEF CardChecked
<1> QED BY <1>1, <1>2 DEF e

LEMMA SecondClick ==
    ASSUME IInv, NEW t, NEW c \in Card, CardChecked(t, c), c.stage = "open", NEW day \in Day,
           ~IsBooked(t, day, c.ranges), c.dates.from \in Day, c.dates.from < day,
           \A d \in c.dates.from + 1 .. day - 1 : ~IsBooked(t, d, c.ranges)
    PROVE  LET e == [c EXCEPT !.dates = [from |-> c.dates.from, to |-> day]]
           IN  e \in Card /\ CardChecked(t, e)
<1> DEFINE e == [c EXCEPT !.dates = [from |-> c.dates.from, to |-> day]]
<1>1. /\ e \in Card /\ e.dates = [from |-> c.dates.from, to |-> day] /\ e.ranges = c.ranges
      /\ e.stage = "open" /\ e.found = c.found
  BY DEF Card, Dates, NoDay
<1> HIDE DEF e
<1>2. c.dates.from # NoDay
  BY DEF Day, NoDay
<1>3. ASSUME NEW b \in c.ranges
      PROVE  Overlaps(b, [from |-> c.dates.from, to |-> day])
               => t \in West /\ c.dates.from = stay[b].to
  <2>1. b \in Stays /\ ~IsBooked(t, c.dates.from, c.ranges)
    BY <1>2 DEF CardChecked
  <2>2. \A d \in c.dates.from .. day : ~IsBooked(t, d, c.ranges)
    <3> SUFFICES ASSUME NEW d \in c.dates.from .. day
                 PROVE  ~IsBooked(t, d, c.ranges)
      OBVIOUS
    <3>1. d = c.dates.from \/ d = day \/ d \in c.dates.from + 1 .. day - 1
      BY DEF Day
    <3> QED BY <2>1, <3>1
  <2> QED BY <2>1, <2>2, WalkFindsOverlaps DEF IsBooked
<1>4. CardChecked(t, e)
  BY <1>1, <1>2, <1>3 DEF CardChecked
<1> QED BY <1>1, <1>4 DEF e

LEMMA SelectKeeps ==
    ASSUME IInv, NEW t \in Tenant, NEW day \in Day, HandleSelectDate(t, day)
    PROVE  IInv'
<1> DEFINE c == card[t]
<1>1. c \in Card /\ CardChecked(t, c) /\ c.stage = "open" /\ ~IsBooked(t, day, c.ranges)
  BY DEF IInv, TypeOK, HandleSelectDate
<1>2. c.dates.from \in Day \cup {NoDay}
  BY <1>1 DEF Card, Dates
<1>3. CASE Show(t, [c EXCEPT !.dates = [from |-> day, to |-> NoDay]])
  BY <1>1, <1>3, FirstClick, ShowKeeps
<1>4. CASE /\ c.dates.from # NoDay /\ ~(day <= c.dates.from)
           /\ \A d \in c.dates.from + 1 .. day - 1 : ~IsBooked(t, d, c.ranges)
           /\ Show(t, [c EXCEPT !.dates = [from |-> c.dates.from, to |-> day]])
  <2>1. c.dates.from \in Day /\ c.dates.from < day
    BY <1>2, <1>4 DEF Day, NoDay
  <2>2. LET e == [c EXCEPT !.dates = [from |-> c.dates.from, to |-> day]]
        IN  e \in Card /\ CardChecked(t, e)
    BY <1>1, <1>4, <2>1, SecondClick
  <2> QED BY <1>4, <2>2, ShowKeeps
<1>5. [c EXCEPT !.dates = [from |-> @.from, to |-> day]]
        = [c EXCEPT !.dates = [from |-> c.dates.from, to |-> day]]
  BY <1>1 DEF Card
<1> QED BY <1>3, <1>4, <1>5 DEF HandleSelectDate

LEMMA RequestKeeps ==
    ASSUME IInv, NEW t \in Tenant, RequestStay(t) \/ \E day \in Day : RequestLease(t, day)
    PROVE  IInv'
<1>1. CASE RequestStay(t)
  <2> DEFINE c == card[t]
             e == [c EXCEPT !.stage = "overlap"]
  <2>1. c \in Card /\ CardChecked(t, c) /\ c.stage = "open" /\ SubmitEnabled(c.dates) /\ Show(t, e)
    BY <1>1 DEF IInv, TypeOK, RequestStay
  <2>2. e \in Card /\ e.dates = c.dates /\ e.ranges = c.ranges /\ e.found = c.found
        /\ e.stage = "overlap"
    BY <2>1 DEF Card, Stage
  <2>3. c.dates.to # NoDay /\ c.dates.from < c.dates.to
        /\ c.dates.from \in Int /\ c.dates.to \in Int
    BY <2>1 DEF CardChecked, SubmitEnabled, Card, Dates, Day, NoDay
  <2>4. LengthAllowed(c.dates)
    BY <2>1, <2>3 DEF SubmitEnabled, LengthAllowed, Nights
  <2> HIDE DEF e
  <2>5. CardChecked(t, e)
    BY <2>1, <2>2, <2>3, <2>4 DEF CardChecked
  <2> QED BY <2>1, <2>2, <2>5, ShowKeeps
<1>2. ASSUME NEW day \in Day, RequestLease(t, day)
      PROVE  IInv'
  <2> DEFINE e == [Closed EXCEPT !.stage = "leases", !.entry = day]
  <2>1. /\ e \in Card /\ e.stage = "leases" /\ e.entry = day /\ e.ranges = {} /\ e.found = {}
        /\ e.dates = NoDates
    BY ClosedCard DEF Card, Stage, Closed
  <2> HIDE DEF e
  <2>2. CardChecked(t, e)
    BY <2>1 DEF CardChecked, NoDay, Day, NoDates
  <2> QED BY <1>2, <2>1, <2>2, ShowKeeps DEF RequestLease, e
<1> QED BY <1>1, <1>2

(***************************************************************************)
(* The queries.                                                            *)
(***************************************************************************)

\* Of the stays found, those that stand are the ones the queries count as live.
LEMMA StandingStays ==
    ASSUME IInv, NEW a \in Stays, Standing(a)
    PROVE  a \in LiveStays
  BY DEF IInv, ProductStatuses, Stays, Standing, LiveStays

LEMMA StandingLeases ==
    ASSUME IInv, NEW a \in Leases, Standing(a)
    PROVE  a \in LiveLeases
  BY DEF IInv, ProductStatuses, Leases, Standing, LiveLeases

LEMMA CheckOverlapKeeps ==
    ASSUME IInv, NEW t \in Tenant, CheckOverlap(t)
    PROVE  IInv'
<1> DEFINE c == card[t]
           e == [c EXCEPT !.stage = "insertStay", !.found = Stays]
<1>1. c \in Card /\ CardChecked(t, c) /\ c.stage = "overlap"
  BY DEF IInv, TypeOK, CheckOverlap
<1>2. CASE Show(t, [c EXCEPT !.stage = "open"])
  BY <1>1, <1>2, StageOnly, ShowKeeps
<1>3. CASE Conflicts(c.dates) = {} /\ Show(t, e)
  <2>1. e \in Card /\ e.dates = c.dates /\ e.ranges = c.ranges /\ e.found = Stays
        /\ e.stage = "insertStay"
    BY <1>1 DEF Card, Stage, Stays
  <2>2. ASSUME NEW a \in Stays, Clash(a, c.dates)
        PROVE  Harmless(a)
    <3>1. PICK d \in stay[a].from .. stay[a].to : d \in c.dates.from .. c.dates.to
      BY <2>2 DEF Clash, DaysOf
    <3>2. /\ stay[a].from \in Int /\ stay[a].to \in Int
          /\ c.dates.from \in Int /\ c.dates.to \in Int
      BY <1>1 DEF IInv, TypeOK, Stays, Card, Dates, Day, NoDay
    <3>3. Overlaps(a, c.dates)
      BY <3>1, <3>2 DEF Overlaps
    <3> QED BY <1>3, <3>3, StandingStays DEF Conflicts, Harmless
  <2> HIDE DEF e
  <2>3. CardChecked(t, e)
    BY <1>1, <2>1, <2>2 DEF CardChecked
  <2> QED BY <1>3, <2>1, <2>3, ShowKeeps
<1> QED BY <1>2, <1>3 DEF CheckOverlap

LEMMA CheckLeasesKeeps ==
    ASSUME IInv, NEW t \in Tenant, CheckLeases(t)
    PROVE  IInv'
<1> DEFINE c == card[t]
           e == [c EXCEPT !.stage = "moveIn", !.found = Leases]
<1>1. c \in Card /\ CardChecked(t, c) /\ c.stage = "leases"
  BY DEF IInv, TypeOK, CheckLeases
<1>2. CASE Show(t, Closed)
  BY <1>2, ClosedCard, ShowKeeps
<1>3. CASE LiveLeases = {} /\ Show(t, e)
  <2>1. e \in Card /\ e.dates = c.dates /\ e.ranges = c.ranges /\ e.found = Leases
        /\ e.stage = "moveIn" /\ e.entry = c.entry
    BY <1>1 DEF Card, Stage, Leases
  <2> HIDE DEF e
  <2>2. CardChecked(t, e)
    BY <1>1, <1>3, <2>1, StandingLeases DEF CardChecked, Harmless
  <2> QED BY <1>3, <2>1, <2>2, ShowKeeps
<1> QED BY <1>2, <1>3 DEF CheckLeases

LEMMA CheckMoveInKeeps ==
    ASSUME IInv, NEW t \in Tenant, CheckMoveIn(t)
    PROVE  IInv'
<1> DEFINE c == card[t]
           e == [c EXCEPT !.stage = "insertLease", !.found = c.found \cup Stays]
<1>1. c \in Card /\ CardChecked(t, c) /\ c.stage = "moveIn"
  BY DEF IInv, TypeOK, CheckMoveIn
<1>2. CASE Show(t, Closed)
  BY <1>2, ClosedCard, ShowKeeps
<1>3. CASE ~(\E b \in LiveStays : Covers(b, c.entry)) /\ Show(t, e)
  <2>1. e \in Card /\ e.dates = c.dates /\ e.ranges = c.ranges /\ e.found = c.found \cup Stays
        /\ e.stage = "insertLease" /\ e.entry = c.entry
    BY <1>1 DEF Card, Stage, Stays
  <2>2. \A a \in Stays : a \notin Leases
    BY DEF Stays, Leases
  <2> HIDE DEF e
  <2>3. CardChecked(t, e)
    BY <1>1, <1>3, <2>1, <2>2, StandingStays DEF CardChecked, Harmless
  <2> QED BY <1>3, <2>1, <2>3, ShowKeeps
<1>4. [c EXCEPT !.stage = "insertLease", !.found = @ \cup Stays] = e
  BY <1>1 DEF Card
<1> QED BY <1>2, <1>3, <1>4 DEF CheckMoveIn

LEMMA FailureKeeps ==
    ASSUME IInv, NEW t \in Tenant, InitiatePayment(t) \/ Fail(t)
    PROVE  IInv'
<1>1. card[t] \in Card /\ CardChecked(t, card[t])
  BY DEF IInv, TypeOK
<1>2. CASE Show(t, Closed)
  BY <1>2, ClosedCard, ShowKeeps
<1>3. CASE Show(t, [card[t] EXCEPT !.stage = "open"])
  BY <1>1, <1>3, StageOnly, ShowKeeps
<1>4. CASE Show(t, [card[t] EXCEPT !.stage = "open", !.found = {}])
  BY <1>1, <1>4, StageOnly, ShowKeeps
<1> QED BY <1>2, <1>3, <1>4 DEF InitiatePayment, Fail

(***************************************************************************)
(* The INSERTs, and the life of the bookings.                              *)
(***************************************************************************)

\* What one INSERT changes, row by row.
LEMMA InsertKeeps ==
    ASSUME IInv, NEW t \in Tenant, NEW b \in Booking,
           NEW type \in {"NIGHTLY", "MONTHLY"}, NEW s \in {"PENDING", "REQUESTED"},
           NEW dates \in Dates, NEW c \in Card, CardChecked(t, c),
           c.stage \in {"placed", "closed"}, Insert(t, b, type, s, dates, c),
           type = "NIGHTLY" => /\ s = "PENDING" /\ LengthAllowed(dates)
                               /\ dates.from # NoDay /\ dates.from < dates.to
                               /\ \A a \in card[t].found : Clash(a, dates) => Harmless(a),
           type = "MONTHLY" => /\ s = "REQUESTED"
                               /\ \A a \in card[t].found :
                                    a \in Leases \/ dates.from \in DaysOf(a) => Harmless(a)
    PROVE  IInv'
<1> USE DEF Insert
<1>1. TypeOK'
  BY DEF IInv, TypeOK, Card, Status
<1>2. b \notin Stays \cup Leases /\ \A a \in Stays \cup Leases : a # b
  BY DEF Stays, Leases
<1>3. /\ Stays' = IF type = "NIGHTLY" THEN Stays \cup {b} ELSE Stays
      /\ Leases' = IF type = "MONTHLY" THEN Leases \cup {b} ELSE Leases
  BY DEF IInv, TypeOK, Stays, Leases, Nightly
<1>4. \A a \in Booking : a # b =>
        /\ stay'[a] = stay[a] /\ status'[a] = status[a] /\ seen'[a] = seen[a]
        /\ Harmless(a)' = Harmless(a)
  BY DEF IInv, TypeOK, Harmless, Standing
<1>5. stay'[b] = dates /\ status'[b] = s /\ seen'[b] = card[t].found
      /\ bookingType'[b] = type
  BY DEF IInv, TypeOK
<1>6. card[t].found \subseteq Stays \cup Leases
  BY DEF IInv, CardChecked
<1>7. StaysHaveNights'
  <2>1. dates.from \in Int /\ dates.to \in Int
    BY DEF Dates, Day, NoDay
  <2> QED BY <1>2, <1>3, <1>4, <1>5, <2>1 DEF IInv, StaysHaveNights, Nights, LengthAllowed
<1>8. RowsDated'
  BY <1>2, <1>3, <1>4, <1>5, <1>6 DEF IInv, RowsDated, TypeOK
<1>9. ProductStatuses'
  BY DEF IInv, TypeOK, ProductStatuses, Nightly
<1>10. RowsChecked'
  <2>1. \A a \in Booking, d \in Dates : a # b => Clash(a, d)' = Clash(a, d)
    BY <1>3, <1>4 DEF Clash, DaysOf
  <2>2. ASSUME NEW e \in Stays', NEW a \in seen'[e], Clash(a, stay[e])'
        PROVE  Harmless(a)'
    <3>1. CASE e = b
      <4>1. a \in card[t].found /\ a \in Booking /\ a # b /\ type = "NIGHTLY"
        BY <1>2, <1>3, <1>5, <1>6, <2>2, <3>1 DEF Stays, Leases
      <4>2. Clash(a, dates)
        BY <1>3, <1>4, <1>5, <2>2, <3>1, <4>1 DEF Clash, DaysOf
      <4> QED BY <1>4, <4>1, <4>2
    <3>2. CASE e # b
      <4>1. e \in Stays /\ a \in seen[e] /\ a # b /\ a \in Booking /\ stay'[e] = stay[e] /\ stay[e] \in Dates
        BY <1>2, <1>3, <1>4, <2>2, <3>2 DEF IInv, RowsDated, TypeOK, Stays
      <4>2. Clash(a, stay[e])
        BY <1>3, <1>4, <2>2, <4>1 DEF Clash, DaysOf
      <4> QED BY <1>4, <4>1, <4>2 DEF IInv, RowsChecked, TypeOK
    <3> QED BY <3>1, <3>2
  <2>3. ASSUME NEW e \in Leases', NEW a \in seen'[e], (a \in Leases \/ stay[e].from \in DaysOf(a))'
        PROVE  Harmless(a)'
    <3>1. CASE e = b
      <4>1. a \in card[t].found /\ a \in Booking /\ a # b /\ type = "MONTHLY"
        BY <1>2, <1>3, <1>5, <1>6, <2>3, <3>1 DEF Stays, Leases
      <4>2. a \in Leases \/ dates.from \in DaysOf(a)
        BY <1>3, <1>4, <1>5, <2>3, <3>1, <4>1 DEF DaysOf
      <4> QED BY <1>4, <4>1, <4>2
    <3>2. CASE e # b
      <4>1. e \in Leases /\ a \in seen[e] /\ a # b /\ a \in Booking /\ stay'[e] = stay[e]
        BY <1>2, <1>3, <1>4, <2>3, <3>2 DEF IInv, RowsDated, TypeOK, Leases
      <4>2. a \in Leases \/ stay[e].from \in DaysOf(a)
        BY <1>3, <1>4, <2>3, <4>1 DEF DaysOf
      <4> QED BY <1>4, <4>1, <4>2 DEF IInv, RowsChecked
    <3> QED BY <3>1, <3>2
  <2> QED BY <2>2, <2>3 DEF RowsChecked
<1>11. \A u \in Tenant : CardChecked(u, card'[u]) /\ card'[u] \in Card
  BY DEF IInv, TypeOK
<1>12. ASSUME NEW u \in Tenant, NEW d \in Card, d = card'[u], CardChecked(u, d)
       PROVE  CardChecked(u, card[u])'
  <2>2. /\ d.ranges \subseteq Stays /\ d.found \subseteq Stays \cup Leases
        /\ \A a \in d.ranges \cup d.found : a # b /\ a \in Booking
    BY <1>2, <1>12 DEF CardChecked, Stays, Leases
  <2>3. \A a \in d.ranges \cup d.found :
          /\ (a \in Stays)' = (a \in Stays)
          /\ (a \in Leases)' = (a \in Leases)
          /\ stay'[a] = stay[a]
          /\ Harmless(a)' = Harmless(a)
    BY <1>3, <1>4, <2>2
  <2>4. /\ \A a \in d.ranges : stay'[a] = stay[a]
        /\ \A a \in d.found : Clash(a, d.dates)' = Clash(a, d.dates)
    BY <2>3 DEF Clash, DaysOf
  <2>5. /\ d.ranges \subseteq Stays' /\ d.found \subseteq Stays' \cup Leases'
    BY <1>3, <2>2
  <2> QED BY <1>12, <2>3, <2>4, <2>5 DEF CardChecked, IsBooked, LocalDay, Covers, Overlaps, LengthAllowed, Nights, Clash,
          DaysOf
<1> QED BY <1>1, <1>7, <1>8, <1>9, <1>10, <1>11, <1>12 DEF IInv

LEMMA InsertStayKeeps ==
    ASSUME IInv, NEW t \in Tenant, NEW b \in Booking, InsertStay(t, b)
    PROVE  IInv'
<1> DEFINE c == card[t]
           e == [c EXCEPT !.stage = "placed", !.found = {}]
<1>1. c \in Card /\ CardChecked(t, c) /\ c.stage = "insertStay" /\ c.dates \in Dates
  BY DEF IInv, TypeOK, InsertStay, Card
<1>2. e \in Card /\ CardChecked(t, e)
  BY <1>1, StageOnly
<1>3. e.stage = "placed"
  BY <1>1 DEF Card
<1>4. Insert(t, b, "NIGHTLY", "PENDING", c.dates, e)
  BY DEF InsertStay
<1>5. /\ LengthAllowed(c.dates) /\ c.dates.from # NoDay /\ c.dates.from < c.dates.to
      /\ \A a \in c.found : Clash(a, c.dates) => Harmless(a)
  BY <1>1 DEF CardChecked
<1> HIDE DEF e
<1> QED BY <1>1, <1>2, <1>3, <1>4, <1>5, InsertKeeps

LEMMA InsertLeaseKeeps ==
    ASSUME IInv, NEW t \in Tenant, NEW b \in Booking, InsertLease(t, b)
    PROVE  IInv'
<1> DEFINE c == card[t]
           dates == [from |-> c.entry, to |-> NoDay]
<1>1. c \in Card /\ CardChecked(t, c) /\ c.stage = "insertLease"
  BY DEF IInv, TypeOK, InsertLease
<1>2. dates \in Dates /\ dates.from = c.entry
  BY <1>1 DEF Card, Dates
<1>3. Insert(t, b, "MONTHLY", "REQUESTED", dates, Closed)
  BY DEF InsertLease
<1>4. ASSUME NEW a \in c.found, a \in Leases \/ dates.from \in DaysOf(a)
      PROVE  Harmless(a)
  <2>1. a \in Leases => Harmless(a)
    BY <1>1 DEF CardChecked
  <2>2. c.entry \in Int /\ stay[a].from \in Int /\ stay[a].to \in Int
    BY <1>1 DEF IInv, TypeOK, Card, Dates, Day, NoDay, CardChecked, Stays, Leases
  <2>3. a \in Stays /\ c.entry \in DaysOf(a) => Covers(a, c.entry)
    BY <2>2 DEF DaysOf, Covers
  <2>4. a \in Stays \/ a \in Leases
    BY <1>1 DEF CardChecked
  <2> QED BY <1>1, <1>2, <1>4, <2>1, <2>3, <2>4 DEF CardChecked
<1>5. Closed.stage = "closed"
  BY DEF Closed
<1> HIDE DEF dates
<1> QED BY <1>2, <1>3, <1>4, <1>5, ClosedCard, InsertKeeps

\* What may be written late in a row is a status of its product.
LEMMA LateMovesOfProduct ==
    ASSUME IInv, NEW b \in Booking, NEW s \in Life!LateMoves(bookingType[b], had[b])
    PROVE  /\ status[b] # "ABSENT" /\ s # "ABSENT" /\ s \in Status
           /\ IF Nightly(b) THEN s \in {"PENDING", "CONFIRMED", "CANCELLED", "COMPLETED"}
              ELSE s \in {"REQUESTED", "APPROVED", "REJECTED", "ACTIVE", "CANCELLED", "TERMINATED"}
<1>1. PICK r \in had[b] : s \in Life!MayBecome(bookingType[b], r)
  BY DEF Life!LateMoves
<1>2. IF Nightly(b) THEN r \in {"ABSENT", "PENDING", "CONFIRMED", "CANCELLED", "COMPLETED"}
      ELSE r \in {"REQUESTED", "APPROVED", "REJECTED", "ACTIVE", "CANCELLED", "TERMINATED"}
  BY <1>1 DEF IInv, ProductStatuses
<1>3. r # "ABSENT" /\ status[b] # "ABSENT"
  BY <1>1 DEF IInv, ProductStatuses
<1>4. Nightly(b) => s \in {"PENDING", "CONFIRMED", "CANCELLED", "COMPLETED"}
  BY <1>1, <1>2, <1>3 DEF Life!MayBecome, Nightly
<1>5. ~Nightly(b) => s \in {"REQUESTED", "APPROVED", "REJECTED", "ACTIVE", "CANCELLED", "TERMINATED"}
  BY <1>1, <1>2, <1>3 DEF Life!MayBecome, Nightly, IInv, TypeOK
<1> QED BY <1>3, <1>4, <1>5 DEF Status

\* A booking that did not stand stands again only by being revived.
LEMMA LiveOnKeeps ==
    ASSUME IInv, NEW b \in Booking, LiveOn(b)
    PROVE  IInv'
<1>1. PICK s \in Life!LateMoves(bookingType[b], had[b]) :
        /\ status' = [status EXCEPT ![b] = s]
        /\ had' = [had EXCEPT ![b] = had[b] \cup {s}]
        /\ listing' = IF s = "TERMINATED" THEN "ACTIVE" ELSE listing
  BY DEF LiveOn, IInv, TypeOK
<1>2. /\ revived' = IF ~Standing(b) /\ Standing(b)' THEN revived \cup {b} ELSE revived
      /\ UNCHANGED <<bookingType, stay, today, card, seen>>
  BY DEF LiveOn
<1>3. /\ status[b] # "ABSENT" /\ s # "ABSENT" /\ s \in Status
      /\ IF Nightly(b) THEN s \in {"PENDING", "CONFIRMED", "CANCELLED", "COMPLETED"}
         ELSE s \in {"REQUESTED", "APPROVED", "REJECTED", "ACTIVE", "CANCELLED", "TERMINATED"}
  BY LateMovesOfProduct
<1>4. revived' \in SUBSET Booking /\ revived \subseteq revived' /\ revived' \subseteq revived \cup {b}
  BY <1>2 DEF IInv, TypeOK
<1>5. TypeOK'
  BY <1>1, <1>2, <1>3, <1>4 DEF IInv, TypeOK
<1>6. Stays' = Stays /\ Leases' = Leases
  BY <1>1, <1>2, <1>3 DEF IInv, TypeOK, Stays, Leases, Nightly
<1>7. \A a \in Booking : Harmless(a) => Harmless(a)'
  BY <1>1, <1>2, <1>4 DEF IInv, TypeOK, Harmless, Standing
<1>8. ProductStatuses'
  <2>1. \A a \in Booking : a # b => status'[a] = status[a] /\ had'[a] = had[a]
    BY <1>1 DEF IInv, TypeOK
  <2>2. status'[b] = s /\ had'[b] = had[b] \cup {s}
    BY <1>1 DEF IInv, TypeOK
  <2> QED BY <1>2, <1>3, <2>1, <2>2 DEF IInv, ProductStatuses, Nightly
<1>9. (StaysHaveNights /\ RowsDated)'
  <2>1. b \in Stays \cup Leases
    BY <1>3 DEF Stays, Leases
  <2> QED BY <1>2, <1>4, <1>6, <2>1 DEF IInv, StaysHaveNights, RowsDated, LengthAllowed, Nights
<1>10. RowsChecked'
  BY <1>2, <1>6, <1>7 DEF IInv, TypeOK, RowsDated, RowsChecked, Clash, DaysOf, Stays, Leases
<1>11. ASSUME NEW t \in Tenant
       PROVE  CardChecked(t, card[t])'
  <2>1. CardChecked(t, card[t]) /\ card[t] \in Card /\ card'[t] = card[t]
    BY <1>2 DEF IInv, TypeOK
  <2>2. \A a \in card[t].found : Harmless(a) => Harmless(a)'
    BY <1>7, <2>1 DEF Card
  <2> QED BY <1>2, <1>6, <2>1, <2>2 DEF CardChecked, IsBooked, LocalDay, Covers, Overlaps,
          LengthAllowed, Nights, Clash, DaysOf
<1> QED BY <1>5, <1>8, <1>9, <1>10, <1>11 DEF IInv

\* Steps that leave the bookings and the cards as they are.
LEMMA OthersKeep ==
    ASSUME IInv, \/ MoveListing
                 \/ \E b \in Booking : RentListing(b)
                 \/ NextDay
                 \/ UNCHANGED vars
    PROVE  IInv'
<1>1. UNCHANGED <<bookingType, status, stay, card, had, seen, revived>>
  BY DEF MoveListing, RentListing, NextDay, vars
<1>2. today' \in Nat /\ listing' \in {"ACTIVE", "RENTED", "HIDDEN"}
  BY DEF IInv, TypeOK, MoveListing, RentListing, NextDay, vars
<1>3. TypeOK'
  BY <1>1, <1>2 DEF IInv, TypeOK
<1> QED BY <1>1, <1>3 DEF IInv, StaysHaveNights, RowsDated, ProductStatuses, RowsChecked, CardChecked,
        IsBooked, LocalDay, Stays, Leases, LengthAllowed, Nights, Clash, Harmless, DaysOf, Standing,
        Nightly, Covers, Overlaps

(***************************************************************************)
(* The theorems.                                                           *)
(***************************************************************************)

\* The inductive invariant.
THEOREM Invariance == Spec => []IInv
<1>1. Init => IInv
  BY ClosedCard DEF Init, IInv, TypeOK, StaysHaveNights, RowsDated, ProductStatuses, RowsChecked,
     Stays, Leases, NoDates, Dates, NoDay, Status, Nightly
<1>2. IInv /\ [Next]_vars => IInv'
  BY OpenPageKeeps, SelectKeeps, RequestKeeps, CheckOverlapKeeps, CheckLeasesKeeps,
     CheckMoveInKeeps, FailureKeeps, InsertStayKeeps, InsertLeaseKeeps, LiveOnKeeps, OthersKeep
     DEF Next, Browse, Serve
<1> QED BY <1>1, <1>2, PTL DEF Spec

\* Every variable keeps its type.
THEOREM TypeCorrect == Spec => []TypeOK
<1>1. IInv => TypeOK
  BY DEF IInv
<1> QED BY <1>1, Invariance, PTL

\* No two standing stays share a day, but for two requests that were between their
\* query and their INSERT at the same time, or a booking that ceased to stand and came
\* back.
THEOREM StaysAreApart == Spec => []NoDoubleStay
<1>1. ASSUME IInv
      PROVE  NoDoubleStay
  BY <1>1 DEF IInv, RowsChecked, NoDoubleStay, Clash, DaysOf, Harmless
<1> QED BY <1>1, Invariance, PTL

\* Nor does a lease stand beside another, or begin during a stay.
THEOREM LeasesAreAlone == Spec => []LeaseFoundThePlaceFree
<1>1. ASSUME IInv
      PROVE  LeaseFoundThePlaceFree
  BY <1>1 DEF IInv, RowsChecked, LeaseFoundThePlaceFree, Harmless
<1> QED BY <1>1, Invariance, PTL

\* The calendar of the page and the checks of the server agree, but for the last day of a
\* stay in a browser to the west of UTC.
THEOREM CalendarIsRight == Spec => []CalendarAgrees
<1>1. ASSUME IInv
      PROVE  CalendarAgrees
  BY <1>1 DEF IInv, CardChecked, CalendarAgrees, Conflicts
<1> QED BY <1>1, Invariance, PTL

\* Every stay has a night and an admitted length.
THEOREM StaysAreLongEnough == Spec => []StaysHaveNights
<1>1. IInv => StaysHaveNights
  BY DEF IInv
<1> QED BY <1>1, Invariance, PTL
=============================================================================
