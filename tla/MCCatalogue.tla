---------------------------- MODULE MCCatalogue ----------------------------
(***************************************************************************)
(* The listings, for TLC.  Behaviours of one kind are those of Catalogue:  *)
(* one listing, two invoices for its boosts, two requests, two calls to    *)
(* Meilisearch under way.  The search half and the boost half share        *)
(* nothing but the existence of the listing: MCApart leaves out the states *)
(* in which both are busy, or boosts meet an index that is out of step,    *)
(* until the listing is deleted.  Behaviours of the other kind are those   *)
(* of AgencySubscription: one agency that may publish three listings, a    *)
(* STARTER limit of two, and one invoice.                                  *)
(***************************************************************************)
EXTENDS Catalogue, TLC

CONSTANTS flat, agency, l1, l2, l3, bill, NoInvoice, NewListing, server

VARIABLES regime,                                    \* "catalogue" or "publication"
          status, plan, ends, ref, advert, month,    \* the variables of AgencySubscription; advert
          handler, sweep, granted, spent             \* is its listing, month its invoice

Adverts == {l1, l2, l3}
Subscription ==
    INSTANCE AgencySubscription
        WITH Agency <- {agency}, Listing <- Adverts, OwnerOf <- [l \in Adverts |-> agency],
             Invoice <- {bill}, Payer <- [i \in {bill} |-> agency], MaxListings <- 2, Proc <- {server},
             listing <- advert, invoice <- month, request <- handler

agencyVars == <<status, plan, ends, ref, advert, month, handler, sweep, granted, spent>>

MCListingOf == [i \in Invoice |-> flat]
MCSymmetry == Permutations(Invoice) \cup Permutations(Proc)

MCSearching ==
    \/ /\ listing[flat].status # "DELETED"
       /\ heard[flat] # "yes" \/ calls[flat] # <<>>
    \/ \E p \in Proc : request[p].stage \in {"status", "edit", "clear", "fill"}
MCBoosting ==
    \/ pro # {} \/ listing[flat].boostUntil # "never"
    \/ \E i \in Invoice : invoice[i] # "none"
MCApart == ~(MCSearching /\ MCBoosting)

MCInit == regime \in {"catalogue", "publication"} /\ Init /\ Subscription!Init

MCNext ==
    /\ UNCHANGED regime
    /\ \/ regime = "catalogue" /\ Next /\ UNCHANGED agencyVars
       \/ regime = "publication" /\ Subscription!Next /\ UNCHANGED vars

MCSpec == MCInit /\ [][MCNext]_<<regime, vars, agencyVars>>

\* Publishing past the gate never takes a STARTER agency over its limit: the property of
\* AgencySubscription.
PublicationWithinCap == Subscription!PublicationWithinCap
=============================================================================
