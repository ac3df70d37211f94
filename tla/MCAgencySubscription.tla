------------------------ MODULE MCAgencySubscription ------------------------
(***************************************************************************)
(* An instance of AgencySubscription for TLC: one agency, its invoices,    *)
(* and no listings: MCCatalogue has another one with listings.             *)
(***************************************************************************)
EXTENDS AgencySubscription

CONSTANT agency

MCOwnerOf == [l \in Listing |-> agency]
MCPayer == [i \in Invoice |-> agency]
=============================================================================
