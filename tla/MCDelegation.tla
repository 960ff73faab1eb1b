----------------------------- MODULE MCDelegation -----------------------------
(* Delegation for TLC: two turns, two runs.                                  *)
EXTENDS Delegation
===============================================================================
