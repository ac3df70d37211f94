---------------------------- MODULE SerialEscrow ----------------------------
(***************************************************************************)
(* BookingEscrow when requests do not overlap (a single process in Proc):  *)
(* what a handler checked still holds when it writes, so every handler     *)
(* behaves as one step of BookingLifecycle.                                *)
(***************************************************************************)
EXTENDS BookingEscrow

Lifecycle == INSTANCE BookingLifecycle

\* Handler after handler, the rows move only as the abstract lifecycle allows: the
\* sequence of awaits of a payment, a cancellation or a dispute is one move of the
\* agreement and of its money, and a request that dies in between is none.
ImplementsLifecycle == Lifecycle!Spec

(***************************************************************************)
(* The invariant behind it.  The statuses and escrows that the checks of   *)
(* each handler found are still in the row when the UPDATE is issued.      *)
(***************************************************************************)
Unsettled(b) ==
    escrow[b] # "DISPUTED" /\ status[b] \notin {"CONFIRMED", "ACTIVE", "REQUESTED", "REJECTED"}

FreshUpdate(r) ==
    LET b == r.b IN
    CASE r.op = "confirm" -> status[b] = "PENDING" /\ r.status = "CONFIRMED" /\ r.escrow = Keep
      [] r.op = "approve" -> status[b] = "REQUESTED" /\ r.status = "APPROVED" /\ r.escrow = Keep
      [] r.op = "reject" -> status[b] = "REQUESTED" /\ r.status = "REJECTED" /\ r.escrow = Keep
      [] r.op = "terminate" -> status[b] = "ACTIVE" /\ r.status = "TERMINATED" /\ r.escrow = Keep
      [] r.op \in {"tenantCancel", "ownerCancel"} ->
           /\ status[b] \notin {"CANCELLED", "COMPLETED"}
           /\ escrow[b] # "DISPUTED"
           /\ r.status = "CANCELLED"
           /\ IF escrow[b] = "HELD" THEN r.escrow \in {"RELEASED", "REFUNDED"}
              ELSE r.escrow = escrow[b]
      [] r.op = "complete" ->
           /\ status[b] = "CONFIRMED"
           /\ escrow[b] # "DISPUTED"
           /\ r.status = "COMPLETED" /\ r.escrow = "RELEASED"
      [] r.op = "dispute" ->
           /\ status[b] = "CONFIRMED" /\ Started(b) /\ escrow[b] = "HELD"
           /\ r.status = Keep /\ r.escrow = "DISPUTED"
      [] r.op = "resolveRelease" ->
           escrow[b] = "DISPUTED" /\ r.status = "COMPLETED" /\ r.escrow = "RELEASED"
      [] r.op = "resolveRefund" ->
           escrow[b] = "DISPUTED" /\ r.status = "CANCELLED" /\ r.escrow = "REFUNDED"
      [] r.op = "release" -> escrow[b] = "HELD" /\ r.status = Keep /\ r.escrow = "RELEASED"
      [] r.op = "refund" -> escrow[b] = "HELD" /\ r.status = Keep /\ r.escrow = "REFUNDED"
      [] r.op = "initiate" -> r.status = Keep /\ r.escrow = Keep
      [] r.op = "paid" ->
           /\ Unsettled(b)
           /\ r.status = (IF Nightly(b) THEN "CONFIRMED" ELSE "ACTIVE") /\ r.escrow = "HELD"
      [] r.op = "paymentFailed" ->
           Unsettled(b) /\ r.status = "CANCELLED" /\ r.escrow = "REFUNDED"
      [] OTHER -> FALSE

Fresh(r) ==
    /\ r.stage = "query" => Unsettled(r.b) /\ r.op \in {"verify", "webhook"}
    /\ r.stage = "bill" => r.op = "initiate"
    /\ r.stage = "update" => FreshUpdate(r)

SerialInv ==
    \* A lease the landlord has not accepted was never accepted before.
    /\ \A b \in Booking : status[b] \in {"REQUESTED", "REJECTED"} => "approve" \notin past[b]
    \* A dispute concerns a stay under way.
    /\ \A b \in Booking : escrow[b] = "DISPUTED" => status[b] = "CONFIRMED" /\ Started(b)
    /\ \A p \in Proc : request[p] # Idle => Fresh(request[p])
=============================================================================
