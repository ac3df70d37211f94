------------------------------ MODULE MCDesks ------------------------------
(***************************************************************************)
(* An instance of Desks for TLC: a page with two requests and two loads    *)
(* under way at most.  On the pages with the most buttons two of these     *)
(* together, and a row that changes three times in the tenant's list,      *)
(* twice for the landlord and the admins, instead of four times; one       *)
(* request or load once an error is drawn there.                           *)
(***************************************************************************)
EXTENDS Desks, FiniteSets, TLC

MCSymmetry == Permutations(Call) \cup Permutations(Load)

Busy == Cardinality({c \in Call : call[c] # None}) + Cardinality(Loading)

MCSmall ==
    /\ page \in {"tenantList", "landlord", "admin", "office"} => Busy <= 2 /\ version < MaxChanges
    /\ page \in {"tenantList", "landlord", "admin", "office"} /\ screen = "error" => Busy <= 1
    /\ page \in {"landlord", "admin", "office"} => version < MaxChanges - 1
=============================================================================
