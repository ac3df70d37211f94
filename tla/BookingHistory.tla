--------------------------- MODULE BookingHistory ---------------------------
(***************************************************************************)
(* BookingEscrow with one more history, the statuses each row has had, for *)
(* requests that overlap: which moves of a status their late writes make.  *)
(***************************************************************************)
EXTENDS BookingEscrow

VARIABLE had   \* history: the statuses each row has had

Row == INSTANCE BookingLifecycle

HistoryInit == Init /\ had = [b \in Booking |-> {status[b]}]

HistoryNext == Next /\ had' = [b \in Booking |-> had[b] \cup {status'[b]}]

HistorySpec == HistoryInit /\ [][HistoryNext]_<<vars, had>>

\* However the requests overlap, a row takes no status but those the lifecycle gives
\* after one it has had: a write that lands late may bring a cancelled lease back to
\* APPROVED or a refused one to ACTIVE, but never pays a request nobody approved, ends
\* a lease that never ran or completes a stay that was never confirmed.  About the
\* checks of the handlers against the UPDATEs they issue later, and about what
\* markBookingPaid writes on a row that has changed since the invoice was created.
MovesFromRowsRead ==
    [][\A b \in Booking :
         status'[b] # status[b] => status'[b] \in Row!LateMoves(bookingType[b], had[b])]_<<vars, had>>

(***************************************************************************)
(* Why: a pending write is the move of a status the row has had, and a     *)
(* handler that has still to ask PayDunya serves a booking that could once *)
(* be paid.                                                                *)
(***************************************************************************)
Recalled(r) ==
    /\ r.status # Keep => r.status \in Row!LateMoves(bookingType[r.b], had[r.b])
    /\ r.op = "approve" => r.status = "APPROVED"
    /\ r.escrow = "DISPUTED" => "CONFIRMED" \in had[r.b]

HistoryInv ==
    /\ \A b \in Booking :
         /\ status[b] \in had[b]
         /\ Nightly(b) => "PENDING" \in had[b]
         /\ "approve" \in past[b] => "APPROVED" \in had[b]
         /\ escrow[b] = "DISPUTED" => "CONFIRMED" \in had[b]
    /\ \A p \in Proc : request[p] # Idle /\ request[p].stage = "update" => Recalled(request[p])
=============================================================================
