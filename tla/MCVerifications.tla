-------------------------- MODULE MCVerifications --------------------------
(***************************************************************************)
(* An instance of Verifications for TLC: one listing, two visits, two      *)
(* agents, two PayDunya invoices and two requests.  Under "races" the      *)
(* requests overlap over one visit and one invoice; under "serial" all the *)
(* rows are used.                                                          *)
(***************************************************************************)
EXTENDS SerialVerifications, TLC

CONSTANT flat

MCListingOf == [v \in Verification |-> flat]
MCListingPaid == [y \in Payment |-> flat]

\* Visits, agents and processes are interchangeable.  So are invoices.
MCSymmetry ==
    Permutations(Verification) \cup Permutations(Agent) \cup Permutations(Payment)
        \cup Permutations(Proc)

\* The bounds of each regime.  In the serial one only one of the visits gets started.
MCSmall ==
    IF regime = "races"
    THEN /\ Cardinality({v \in Verification : status[v] # Absent}) <= 1
         /\ Cardinality({i \in Payment : invoice[i] # "none"}) <= 1
    ELSE Cardinality({v \in Verification : visits[v].started # {}}) <= 1
=============================================================================
