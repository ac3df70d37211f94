----------------------------- MODULE MCAccounts -----------------------------
(***************************************************************************)
(* An instance of Accounts for TLC: two people, two addresses that may     *)
(* pass from one to the other, two requests, two rows one after the other. *)
(* Everything overlaps while one person has an account, with at most three *)
(* events; with two people, one request at a time and two rows in all.     *)
(***************************************************************************)
EXTENDS Accounts, FiniteSets, TLC

MCSymmetry == Permutations(Identity) \cup Permutations(Mail) \cup Permutations(Proc)

MCPeople == {i \in Identity : clerk[i] # None}
MCRows == {<<i, n>> \in Identity \X (1 .. MaxRows) : n <= created[i]}
MCBusy == {p \in Proc : request[p] # Idle}
MCSmall ==
    /\ Cardinality(event) <= 3
    /\ \/ Cardinality(MCPeople) <= 1
       \/ Cardinality(MCBusy) <= 1 /\ Cardinality(MCRows) <= 2
=============================================================================
