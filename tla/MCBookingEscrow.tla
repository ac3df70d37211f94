-------------------------- MODULE MCBookingEscrow --------------------------
(***************************************************************************)
(* An instance of SerialEscrow for TLC: one booking, a stay or a lease as  *)
(* Init chooses, a pool of two PayDunya invoices for it, and one request   *)
(* at a time.                                                              *)
(***************************************************************************)
EXTENDS SerialEscrow

CONSTANTS b1, flat

MCListingOf == [b \in Booking |-> flat]
MCInvoiceOf == [i \in Invoice |-> b1]
=============================================================================
