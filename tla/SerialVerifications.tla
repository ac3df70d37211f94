------------------------ MODULE SerialVerifications ------------------------
(***************************************************************************)
(* Verifications under two regimes.  Under "races" requests overlap as they *)
(* like; under "serial" a request is served to its end (or fails) before   *)
(* the next one, as when nobody acts at the same time as anybody else.     *)
(***************************************************************************)
EXTENDS Verifications

ASSUME PaymentsAssumption == IsFiniteSet(Payment)

VARIABLE regime

Alone(p) == \A q \in Proc \ {p} : request[q] = Idle

RegimeInit == Init /\ regime \in {"races", "serial"}

RegimeNext ==
    /\ \/ \E p \in Proc :
            /\ regime = "serial" => Alone(p)
            /\ Handler(p) \/ Resume(p) \/ Abort(p)
       \/ ExpireOldBadges
       \/ \E i \in Payment : PayInvoice(i) \/ FailInvoice(i)
       \/ \E l \in Listing : BadgeAges(l)
    /\ UNCHANGED regime

RegimeSpec == RegimeInit /\ [][RegimeNext]_<<vars, regime>>

\* When requests do not overlap, the rating of a visit is held by an agent who
\* completed it, after reassignments, declines and repeated visits.
RatedAgentVisitedSerially == regime = "serial" => RatedAgentVisited

\* When requests do not overlap, one payment gives one visit: repeated notifications,
\* also after a failure half-way, never create more visits than were paid for.
OneVisitPerPaymentSerially == regime = "serial" => OneVisitPerPayment

-----------------------------------------------------------------------------
(***************************************************************************)
(* The invariant behind them.                                              *)
(***************************************************************************)
OneRequest == \A p, q \in Proc : request[p] # Idle /\ request[q] # Idle => p = q

\* A visit that is done is the one of its agent.
DoneByAgent == \A v \in Verification : status[v] = "DONE" => agent[v] \in visits[v].completed \cup {NoAgent}

\* What an agent's completion and an owner's rating have read is still so.
VisitAsRead(r) ==
    /\ r.stage \in {"badge", "done"} => agent[r.v] = r.a
    /\ r.stage = "rate" => r.a \in visits[r.v].completed

\* A row is there for every invoice the owner has got; it keeps the token of its own invoice
\* until it is confirmed, with one that was paid; and no two rows have the same.
OneRowPerInvoice ==
    /\ \A y \in Payment :
         /\ invoice[y] \in {"open", "completed"} => payment[y] # Absent
         /\ invoice[y] = "none" => payment[y] = Absent
         /\ token[y] # y => payment[y] = "CONFIRMED"
         /\ payment[y] = "CONFIRMED" => invoice[token[y]] = "completed"
    /\ \A x, y \in Payment :
         payment[x] # Absent /\ payment[y] # Absent /\ token[x] = token[y] => x = y

\* A visit that was paid for has a confirmed row, and no other visit has it.
OneVisitPerRow ==
    /\ \A v \in Verification : origin[v] # NoPayment => payment[origin[v]] = "CONFIRMED"
    /\ \A v, w \in Verification : origin[v] # NoPayment /\ origin[v] = origin[w] => v = w

Unvisited(y) == \A v \in Verification : origin[v] # y

\* The row a request works on is as it has read it.
RowAsRead(r) ==
    /\ r.stage = "row" => payment[r.row] = Absent /\ invoice[r.row] # "none"
    /\ r.stage \in {"query", "confirm", "fail"} => payment[r.row] = "PENDING"
    /\ r.stage = "confirm" => invoice[r.inv] = "completed"
    /\ r.stage = "load" \/ (r.stage = "insert" /\ r.row # NoPayment) =>
         payment[r.row] = "CONFIRMED" /\ Unvisited(r.row)

SerialInv ==
    /\ OneRequest
    /\ DoneByAgent /\ RatedAgentVisited
    /\ OneRowPerInvoice /\ OneVisitPerRow
    /\ \A p \in Proc : VisitAsRead(request[p]) /\ RowAsRead(request[p])

RegimeInv == TypeOK /\ (regime = "serial" => SerialInv)
=============================================================================
