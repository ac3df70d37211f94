-------------------------- MODULE MCBookingHistory --------------------------
(***************************************************************************)
(* BookingHistory for TLC: one booking, a stay or a lease as Init chooses, *)
(* a pool of two PayDunya invoices for it, and two requests served at the  *)
(* same time.                                                              *)
(***************************************************************************)
EXTENDS BookingHistory, FiniteSets, TLC

CONSTANTS b1, flat

MCListingOf == [b \in Booking |-> flat]
MCInvoiceOf == [i \in Invoice |-> b1]

\* Invoices are interchangeable, and so are the processes.
MCSymmetry == Permutations(Invoice) \cup Permutations(Proc)

\* Once both invoices exist, the row has had at most four statuses; with one invoice, as many as
\* it can.
MCFourStatuses ==
    (\A i \in Invoice : invoice[i] # "none") => \A b \in Booking : Cardinality(had[b]) <= 4
=============================================================================
