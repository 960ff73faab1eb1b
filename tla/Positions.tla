------------------------------ MODULE Positions ------------------------------
(***************************************************************************)
(* Part of a sequence, by the positions that belong to it: how a list is    *)
(* filtered in the modules whose lists are reasoned about.                  *)
(***************************************************************************)
EXTENDS Naturals, Sequences, FiniteSets

\* The elements of s at the positions P, in their order.
At(s, P) == [n \in 1..Cardinality(P) |-> s[CHOOSE k \in P : Cardinality({j \in P : j <= k}) = n]]
==============================================================================
