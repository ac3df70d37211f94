-------------------------- MODULE MCPlatformConfig --------------------------
(***************************************************************************)
(* PlatformConfig for TLC: two fields with two prices each, two changes    *)
(* and two codes, one admin whose tabs send two requests at once.          *)
(***************************************************************************)
EXTENDS PlatformConfig, TLC

MCSymmetry == Permutations(Field) \cup Permutations(Change) \cup Permutations(Otp)
                \cup Permutations(Proc)

\* Nothing is promised once a request has written over another's write, but for the
\* notice of a change, which the theorems cover.
MCNotOvertaken == ~overtaken

\* Of the admin's requests, one at a time is past its confirmation: two that have both
\* read the row end by overwriting each other, or as if one had come after the other.
MCOneConfirmed ==
    Cardinality({p \in Proc : request[p] # None /\ request[p].admin # None
                               /\ request[p].stage \in {"row", "create", "promote", "write"}}) <= 1
=============================================================================
