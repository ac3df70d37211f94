-------------------------- MODULE BookingLifecycle --------------------------
(***************************************************************************)
(* What a booking promises to the tenant and to the landlord: the moves of *)
(* its status and of the money in escrow, each in one step, without        *)
(* requests, invoices or time.  SerialEscrow shows that BookingEscrow      *)
(* implements it when requests do not overlap.  When they do, a row also   *)
(* makes the late moves of the last operator: BookingHistory shows that it *)
(* makes no other, and Availability gives them to its bookings.            *)
(***************************************************************************)
CONSTANT Booking

VARIABLES
    bookingType, \* NIGHTLY (a stay) or MONTHLY (a lease)
    status,      \* where the agreement stands
    escrow       \* where the money is

vars == <<bookingType, status, escrow>>

Nightly(b) == bookingType[b] = "NIGHTLY"

Init ==
    /\ bookingType \in [Booking -> {"NIGHTLY", "MONTHLY"}]
    /\ status = [b \in Booking |-> IF Nightly(b) THEN "PENDING" ELSE "REQUESTED"]
    /\ escrow = [b \in Booking |-> "AWAITING_PAYMENT"]

Move(b, s, e) ==
    /\ status' = [status EXCEPT ![b] = s]
    /\ escrow' = [escrow EXCEPT ![b] = e]
    /\ UNCHANGED bookingType

\* The landlord answers: a stay may be agreed before it is paid, a lease must be.
Agree(b) ==
    \/ status[b] = "PENDING" /\ Move(b, "CONFIRMED", escrow[b])
    \/ status[b] = "REQUESTED" /\ Move(b, "APPROVED", escrow[b])

Refuse(b) == status[b] = "REQUESTED" /\ Move(b, "REJECTED", escrow[b])

\* PayDunya reports the payment of an agreed lease or of any stay.  A booking that
\* was cancelled or closed meanwhile comes back to life.
Pay(b) ==
    /\ escrow[b] # "DISPUTED"
    /\ IF Nightly(b)
         THEN status[b] \in {"PENDING", "CANCELLED", "COMPLETED"} /\ Move(b, "CONFIRMED", "HELD")
         ELSE status[b] \in {"APPROVED", "CANCELLED", "TERMINATED"} /\ Move(b, "ACTIVE", "HELD")

\* PayDunya refuses the payment: the booking is called off, with nothing in escrow.
PaymentRefused(b) ==
    /\ escrow[b] # "DISPUTED"
    /\ status[b] \in {"PENDING", "APPROVED", "CANCELLED", "COMPLETED", "TERMINATED"}
    /\ Move(b, "CANCELLED", "REFUNDED")

\* A party withdraws; money held goes to the one or to the other.
Withdraw(b) ==
    /\ status[b] \notin {"CANCELLED", "COMPLETED"}
    /\ escrow[b] # "DISPUTED"
    /\ \/ escrow[b] # "HELD" /\ Move(b, "CANCELLED", escrow[b])
       \/ escrow[b] = "HELD" /\ \E e \in {"RELEASED", "REFUNDED"} : Move(b, "CANCELLED", e)

\* The agreement ends: a stay pays the landlord, a lease was paid at its start.
Close(b) ==
    /\ escrow[b] # "DISPUTED"
    /\ \/ status[b] = "CONFIRMED" /\ Move(b, "COMPLETED", "RELEASED")
       \/ status[b] = "ACTIVE" /\ Move(b, "TERMINATED", escrow[b])

\* The money of a stay under way is frozen until an admin decides.
Dispute(b) ==
    status[b] = "CONFIRMED" /\ escrow[b] = "HELD" /\ Move(b, "CONFIRMED", "DISPUTED")

Decide(b) ==
    /\ escrow[b] = "DISPUTED"
    /\ Move(b, "COMPLETED", "RELEASED") \/ Move(b, "CANCELLED", "REFUNDED")

\* An admin moves money held, whatever the status.
Settle(b) ==
    escrow[b] = "HELD" /\ \E e \in {"RELEASED", "REFUNDED"} : Move(b, status[b], e)

Life(b) ==
    \/ Agree(b)
    \/ Refuse(b)
    \/ Pay(b)
    \/ PaymentRefused(b)
    \/ Withdraw(b)
    \/ Close(b)
    \/ Dispute(b)
    \/ Decide(b)
    \/ Settle(b)

(***************************************************************************)
(* The same moves seen from the status alone.                              *)
(***************************************************************************)
MayBecome(type, s) ==
    CASE s = "PENDING" -> {"CONFIRMED", "CANCELLED"}
      [] s = "CONFIRMED" -> {"COMPLETED", "CANCELLED"}
      [] s = "COMPLETED" -> {"CONFIRMED", "CANCELLED"}
      [] s = "REQUESTED" -> {"APPROVED", "REJECTED", "CANCELLED"}
      [] s = "APPROVED" -> {"ACTIVE", "CANCELLED"}
      [] s = "REJECTED" -> {"CANCELLED"}
      [] s = "ACTIVE" -> {"TERMINATED", "CANCELLED"}
      [] s = "TERMINATED" -> {"ACTIVE", "CANCELLED"}
      [] s = "CANCELLED" -> IF type = "NIGHTLY" THEN {"CONFIRMED"} ELSE {"ACTIVE"}

\* When requests overlap, a handler writes the move of the status it has read, which
\* the row has had and may have left since.
LateMoves(type, had) == UNION {MayBecome(type, s) : s \in had}

Next == \E b \in Booking : Life(b)

Spec == Init /\ [][Next]_vars
=============================================================================
